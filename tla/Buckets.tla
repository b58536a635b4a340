------------------------------- MODULE Buckets --------------------------------
(***************************************************************************)
(* The calls of S3Client whose request is sent from memory                  *)
(* (src/src/s3_client.rs): create_bucket, create_bucket_if_not_exists,      *)
(* get_bucket_location, check_if_bucket_exists, upload, delete_file and     *)
(* get_object_size, made by clients of different accounts for one bucket    *)
(* name and one key; S3Region (src/src/region.rs).                          *)
(*                                                                          *)
(* FlUrl, which is not part of the repository, repeats such a request by    *)
(* itself when no answer comes (with_retries); a request that was given up  *)
(* may still reach the storage, even after its call has returned.           *)
(***************************************************************************)
EXTENDS ErrorTyping

CONSTANTS
    Scenarios, \* who does what in the behaviours considered, by name
    Ours,      \* the clients of our account; the others are of another one
    MaxRetries \* with_retries

(* A scenario: the clients, the regions that endpoints and clients may have,  *)
(* the operations, how many calls a client makes (a bound), and the          *)
(* operations whose answer a connection may cut short.                       *)
ASSUME ScenariosAssumption ==
    \A name \in DOMAIN Scenarios : LET s == Scenarios[name] IN
        /\ DOMAIN s = {"clients", "regions", "ops", "calls", "cut"}
        /\ s.calls \in Nat
        /\ s.cut \subseteq s.ops
ASSUME RetriesAssumption == MaxRetries \in Nat

VARIABLES
    scenario, \* the name of one, which never changes
    endpoint, \* the region of the storage
    region,   \* what each client is configured with, an S3Region
    owner,    \* the account whose bucket it is, or "nobody"
    object,   \* the size of the object, 0 for none
    wire,     \* the requests that may yet reach the storage
    call      \* the call of each client

vars == <<scenario, endpoint, region, owner, object, wire, call>>
storageVars == <<scenario, endpoint, region>>

Scene == Scenarios[scenario]
Clients == Scene.clients

Account(c) == IF c \in Ours THEN "us" ELSE "them"

-----------------------------------------------------------------------------
(* S3Region: a row of the catalogue, or Other with its text *)
Catalogue ==
    [text \in {"us-east-1", "eu-west-1", "fsn1"} |->
        CASE text = "us-east-1" -> "AwsUsEast1"
          [] text = "eu-west-1" -> "AwsEuWest1"
          [] text = "fsn1" -> "HetznerFsn1"]

Other(text) == [variant |-> "Other", text |-> text]

from_str(text) ==
    IF text \in DOMAIN Catalogue THEN [variant |-> Catalogue[text], text |-> ""]
    ELSE Other(text)

as_str(r) ==
    IF r.variant = "Other" THEN r.text
    ELSE CHOOSE text \in DOMAIN Catalogue : Catalogue[text] = r.variant

(* Variant of is_us_east_1, deliberately wrong: decided on the variant. *)
is_the_variant(r) == r.variant = "AwsUsEast1"

is_us_east_1(r) == as_str(r) = "us-east-1"

is_empty(r) == as_str(r) = ""

(* The text of the LocationConstraint, None without a body *)
create_bucket_configuration(r) ==
    IF is_empty(r) \/ is_us_east_1(r) THEN None ELSE <<as_str(r)>>

(* A region on its own, or the error of a body that is no location *)
NotALocation == [variant |-> "none", text |-> ""]

(* Variant of parse_bucket_location, deliberately wrong: an empty constraint  *)
(* is carried as it is.                                                      *)
parse_empty_verbatim(body) ==
    LET text == read_node_text(body, <<"LocationConstraint">>) IN
    CASE text = << >> -> from_str("")
      [] text \notin {None, << >>} -> from_str(text[1])
      [] text = None -> NotALocation

parse_bucket_location(body) ==
    LET text == read_node_text(body, <<"LocationConstraint">>)
        contains == \E i \in Tagged(body, {"open", "empty", "cut"}) :
                        body[i].name = "LocationConstraint"
    IN  CASE text = << >> -> from_str("us-east-1")
          [] text \notin {None, << >>} -> from_str(text[1])
          [] text = None /\ contains -> from_str("us-east-1")
          [] OTHER -> NotALocation

-----------------------------------------------------------------------------
(* The storage.  An answer is a status, a body and, of an object, the         *)
(* Content-Length (0 when it is not sent); done says that the request was     *)
(* carried out.                                                              *)
Answer(status, body, length) ==
    [status |-> status, body |-> body, length |-> length, done |-> status < 300]
Plain(status) == Answer(status, << >>, 0)
(* A HEAD, whose answer has no body *)
IsHead(m) == m.op \in {"exists", "size"}
Refusal(m, status, code) ==
    Answer(status, IF IsHead(m) THEN << >> ELSE ErrorBody(code), 0)

Creates(m) == m.op \in {"create", "ensure"}

(* The region of the credential scope, and the one of the body *)
ScopeIsRight(m) == as_str(region[m.client]) = endpoint
Contradicts(m) ==
    LET constraint == create_bucket_configuration(region[m.client]) IN
    IF endpoint = "us-east-1" THEN constraint # None ELSE constraint # <<endpoint>>

(* us-east-1 is the empty constraint, in either spelling. *)
LocationBodies ==
    IF endpoint = "us-east-1"
    THEN {<<Empty("LocationConstraint")>>, Leaf("LocationConstraint", << >>)}
    ELSE {Leaf("LocationConstraint", <<endpoint>>)}

CreateAnswers(m) ==
    CASE owner = Account(m.client) -> {Refusal(m, 409, "BucketAlreadyOwnedByYou")}
      [] owner \notin {Account(m.client), "nobody"} -> {Refusal(m, 409, "BucketAlreadyExists")}
      [] owner = "nobody" /\ Contradicts(m) ->
            {Refusal(m, 400, "IllegalLocationConstraintException")}
      [] owner = "nobody" /\ ~Contradicts(m) -> {Plain(200)}

(* A HEAD of an object may come back without a Content-Length. *)
OwnerAnswers(m) ==
    CASE m.op = "location" -> {Answer(200, b, 0) : b \in LocationBodies}
      [] m.op = "delete" -> {Plain(204)}
      [] m.op = "size" /\ object = 0 -> {Plain(404)}
      [] m.op = "size" /\ object # 0 -> {Answer(200, << >>, object), Plain(200)}
      [] OTHER -> {Plain(200)}

(* What the storage may answer to m *)
Answers(m) ==
    CASE ~ScopeIsRight(m) -> {Refusal(m, 403, "SignatureDoesNotMatch")}
      [] ScopeIsRight(m) /\ Creates(m) -> CreateAnswers(m)
      [] ScopeIsRight(m) /\ ~Creates(m) /\ owner = Account(m.client) -> OwnerAnswers(m)
      [] ScopeIsRight(m) /\ ~Creates(m) /\ owner = "nobody" ->
            {Refusal(m, 404, "NoSuchBucket")}
      [] OTHER -> {Refusal(m, 403, "AccessDenied")}

(* It may also be too busy, or not be reached by what answers for it. *)
Excuses(m) ==
    {Refusal(m, 503, "SlowDown"), Answer(502, IF IsHead(m) THEN << >> ELSE Leaf("html", << >>), 0)}

(* What carrying out m does *)
Effect(m, done) ==
    /\ owner' = IF done /\ Creates(m) THEN Account(m.client) ELSE owner
    /\ object' = CASE done /\ m.op = "upload" -> m.size
                   [] done /\ m.op = "delete" -> 0
                   [] OTHER -> object

(* A body may arrive cut short. *)
Arriving(m, a) ==
    {a} \cup IF m.op \in Scene.cut THEN {[a EXCEPT !.body = b] : b \in CutShort(a.body)} ELSE {}

-----------------------------------------------------------------------------
(* A call: its operation, how often it was sent, what came of it, and what    *)
(* the storage has looked like since it began.                               *)
Idle == [pc |-> "idle", op |-> "none", size |-> 0, tries |-> 0, made |-> 0,
         ok |-> FALSE, value |-> "none", number |-> 0, err |-> Typed("none"),
         done |-> FALSE, seen |-> {}]

Request(c, k) == [client |-> c, op |-> k.op, size |-> k.size, made |-> k.made, tries |-> k.tries]

Okay(k) == [k EXCEPT !.ok = TRUE, !.pc = "returned"]
Fails(k, e) == [k EXCEPT !.err = e, !.pc = "returned"]

(* expect_success and read_success_body *)
ExpectSuccess(k, a) ==
    IF is_success(a.status) THEN Okay(k) ELSE Fails(k, detect_error(a.status, a.body))

(* Variant of Ensured, deliberately wrong: any taken name is a success. *)
EnsuredIfTaken(k, a) ==
    LET created == ExpectSuccess(k, a) IN
    IF created.err.variant \in {"BucketAlreadyExists", "BucketAlreadyOwnedByYou"}
    THEN Okay(k) ELSE created

(* create_bucket_if_not_exists *)
Ensured(k, a) ==
    LET created == ExpectSuccess(k, a) IN
    IF created.err.variant = "BucketAlreadyOwnedByYou" THEN Okay(k) ELSE created

(* get_bucket_location *)
Located(k, a) ==
    LET r == parse_bucket_location(a.body) IN
    CASE ~is_success(a.status) -> ExpectSuccess(k, a)
      [] is_success(a.status) /\ r = NotALocation -> Fails(k, Typed("Other"))
      [] OTHER -> [Okay(k) EXCEPT !.value = as_str(r)]

(* check_if_bucket_exists: there is no body to read a code from *)
Checked(k, a) ==
    CASE is_success(a.status) -> [Okay(k) EXCEPT !.value = "true"]
      [] a.status = 404 -> [Okay(k) EXCEPT !.value = "false"]
      [] OTHER -> Fails(k, detect_error(a.status, << >>))

(* get_object_size *)
Sized(k, a) ==
    CASE ~is_success(a.status) -> Fails(k, detect_error(a.status, << >>))
      [] is_success(a.status) /\ a.length = 0 -> Fails(k, Typed("Other"))
      [] OTHER -> [Okay(k) EXCEPT !.number = a.length]

(* The call returns with the answer a. *)
Returned(k, a) ==
    LET known == [k EXCEPT !.done = a.done] IN
    CASE k.op = "ensure" -> Ensured(known, a)
      [] k.op = "location" -> Located(known, a)
      [] k.op = "exists" -> Checked(known, a)
      [] k.op = "size" -> Sized(known, a)
      [] OTHER -> ExpectSuccess(known, a)

(* What may come of the call that waits for m when the answer a is on its way: *)
(* its body may also break off, or be more than MAX_ANSWER_SIZE.             *)
Outcomes(m, a) ==
    LET k == call[m.client] IN
    {Returned(k, b) : b \in Arriving(m, a)} \cup
    IF IsHead(m) THEN {}
    ELSE {Fails([k EXCEPT !.done = a.done], FlUrlError("ReadingHyperBodyError"))}

-----------------------------------------------------------------------------
(* A region is read from its text, or built by hand. *)
Configured(texts) == {from_str(t) : t \in texts} \cup {Other(t) : t \in texts}

(* The bucket is ours at first; BucketRemoved takes it away. *)
Init ==
    /\ scenario \in DOMAIN Scenarios
    /\ endpoint \in Scene.regions
    /\ region \in [Clients -> Configured(Scene.regions)]
    /\ owner = "us"
    /\ object = 0
    /\ wire = {}
    /\ call = [c \in Clients |-> Idle]

(* Every running call sees what the storage has become. *)
Watched(calls, o, n) ==
    [c \in Clients |->
        IF calls[c].pc = "asking" \/ call[c].pc = "asking"
        THEN [calls[c] EXCEPT !.seen = @ \cup {<<o, n>>}] ELSE calls[c]]

(* The requests of c that can still do something once it no longer waits for  *)
(* them; what a read is answered then is of no interest.                     *)
Stragglers(c) == {m \in wire : m.client = c => m.op \notin {"location", "exists", "size"}}

(* The next call of c, before anything has come of it *)
NewCall(c, op, size) ==
    [Idle EXCEPT !.pc = "asking", !.op = op, !.size = size,
                 !.made = call[c].made + 1, !.seen = {<<owner, object>>}]

MayCall(c) == call[c].pc # "asking" /\ call[c].made < Scene.calls

(* A client makes a call: the request is signed and sent. *)
Called(c, op, size) ==
    LET k == NewCall(c, op, size) IN
    /\ MayCall(c)
    /\ call' = [call EXCEPT ![c] = k]
    /\ wire' = Stragglers(c) \cup {Request(c, k)}
    /\ UNCHANGED <<storageVars, owner, object>>

(* sign_request: an endpoint that is no url leaves nothing to sign or to send. *)
SigningFails(c, op, size) ==
    /\ MayCall(c)
    /\ call' = [call EXCEPT ![c] = Fails(NewCall(c, op, size), Typed("Other"))]
    /\ wire' = Stragglers(c)
    /\ UNCHANGED <<storageVars, owner, object>>

(* FlUrl gives an attempt up and sends the request again, or gives up. *)
TimedOut(c) ==
    LET k == [call[c] EXCEPT !.tries = @ + 1] IN
    /\ call[c].pc = "asking"
    /\ IF call[c].tries < MaxRetries
       THEN /\ call' = [call EXCEPT ![c] = k]
            /\ wire' = Stragglers(c) \cup {Request(c, k)}
       ELSE /\ call' = [call EXCEPT ![c] = Fails(@, FlUrlError("timeout"))]
            /\ wire' = Stragglers(c)
    /\ UNCHANGED <<storageVars, owner, object>>

(* A request reaches the storage, of this attempt or of one given up. *)
Handled(m) ==
    /\ wire' = wire \ {m}
    /\ \E a \in Answers(m) \cup Excuses(m) :
          /\ Effect(m, a.done)
          /\ \/ call' = Watched(call, owner', object')
             \/ /\ call[m.client].pc = "asking"
                /\ Request(m.client, call[m.client]) = m
                /\ \E k \in Outcomes(m, a) :
                      call' = Watched([call EXCEPT ![m.client] = k], owner', object')
    /\ UNCHANGED storageVars

(* The owner removes the empty bucket by other means. *)
BucketRemoved ==
    /\ owner # "nobody"
    /\ object = 0
    /\ owner' = "nobody"
    /\ call' = Watched(call, "nobody", 0)
    /\ UNCHANGED <<storageVars, object, wire>>

Terminated ==
    /\ \A c \in Clients : call[c].pc = "returned" /\ call[c].made = Scene.calls
    /\ UNCHANGED vars

SizesOf(op) == IF op = "upload" THEN {1, 2} ELSE {0}

Next ==
    \/ \E c \in Clients, op \in Scene.ops : \E size \in SizesOf(op) :
          Called(c, op, size) \/ SigningFails(c, op, size)
    \/ \E c \in Clients : TimedOut(c)
    \/ \E m \in wire : Handled(m)
    \/ BucketRemoved
    \/ Terminated

Spec == Init /\ [][Next]_vars

-----------------------------------------------------------------------------
(* What the result of the call k of c says of a bucket of o with an object of  *)
(* n bytes                                                                   *)
Says(c, k, o, n) ==
    CASE k.ok /\ k.op \in {"create", "ensure", "location"} -> o = Account(c)
      [] k.ok /\ k.op = "exists" -> o = IF k.value = "true" THEN Account(c) ELSE "nobody"
      [] k.ok /\ k.op = "upload" -> n = k.size
      [] k.ok /\ k.op = "delete" -> n = 0
      [] k.ok /\ k.op = "size" -> n = k.number
      [] ~k.ok /\ k.err.variant = "BucketAlreadyOwnedByYou" -> o = Account(c)
      [] ~k.ok /\ k.err.variant = "BucketAlreadyExists" -> o \notin {Account(c), "nobody"}
      [] ~k.ok /\ k.err.variant = "BucketNotFound" -> o = "nobody"
      [] ~k.ok /\ k.err.variant = "KeyNotFound" -> n = 0
      [] OTHER -> TRUE

HasReturned(c) == call[c].pc = "returned"

(* What a call reports was so at some moment while it ran, with its own       *)
(* request repeated, requests of earlier calls still arriving and another    *)
(* account at work: Ok of create_bucket_if_not_exists means that the bucket  *)
(* was ours, a taken name that it was not, a missing key that it was not     *)
(* there (S3Error, detect_error).                                            *)
ReportsWereTrue ==
    \A c \in Clients : HasReturned(c) =>
        \E s \in call[c].seen : Says(c, call[c], s[1], s[2])

(* A region that is reported is the one the bucket is in, however it was      *)
(* stated: us-east-1 by an empty constraint, any other one verbatim.         *)
LocationIsRight ==
    \A c \in Clients :
        HasReturned(c) /\ call[c].ok /\ call[c].op = "location" => call[c].value = endpoint

(* A client that is configured with the region of its endpoint never states   *)
(* another one when it creates a bucket (create_bucket_configuration).       *)
CreateDoesNotContradict ==
    \A c \in Clients :
        as_str(region[c]) = endpoint =>
            call[c].err.code # <<"IllegalLocationConstraintException">>

(* What the storage has carried out and answered for is not reported as a     *)
(* refusal, but as done or as an answer that could not be used               *)
(* ("every delete used to come back as an error").                           *)
CarriedOutIsNotRefused ==
    \A c \in Clients :
        call[c].done => call[c].ok \/ call[c].err.variant \in {"Other", "FlUrlError"}
=============================================================================
