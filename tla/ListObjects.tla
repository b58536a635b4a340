----------------------------- MODULE ListObjects ------------------------------
(***************************************************************************)
(* A listing read page by page: list_objects_v2 (src/src/s3_client.rs), the *)
(* loop its documentation shows, and parse_list_objects_v2                  *)
(* (src/src/list_objects.rs), while others put and delete objects.          *)
(*                                                                          *)
(* The storage lists its keys in order, a key with a delimiter in it as the *)
(* folder it is in, answers with as many entries as it likes, and resumes   *)
(* behind the entry its token names.  A page is a document in the layout of *)
(* AWS, Ceph or MinIO; some pages are faulty, and a connection may drop     *)
(* anywhere in one.                                                         *)
(***************************************************************************)
EXTENDS ErrorTyping

CONSTANTS
    KeyOrder,   \* the keys of the bucket, each a text, in the storage's order
    Sizes,      \* the sizes of the objects, as they are written
    Styles,     \* the layouts considered
    Faults,     \* what may be wrong with a page
    MaxPage,    \* the most entries the storage puts in a page
    MaxChanges  \* bound: puts and deletes while the listing runs

ASSUME KeyOrderAssumption ==
    /\ KeyOrder \in Seq(Seq(STRING) \ {<< >>})
    /\ \A i, k \in DOMAIN KeyOrder : KeyOrder[i] = KeyOrder[k] => i = k
ASSUME SizesAssumption ==
    /\ Sizes \in Seq(STRING)
    /\ Len(Sizes) = Len(KeyOrder)
    /\ \A i \in DOMAIN Sizes : Sizes[i] \notin {"many", "None"}
ASSUME StylesAssumption == Styles \subseteq {"aws", "ceph", "minio"}
ASSUME MaxPageAssumption == MaxPage \in Nat \ {0}

VARIABLES
    style,     \* which storage it is
    delimited, \* the request has the delimiter
    bucket,    \* the keys it holds, as indices of KeyOrder
    always,    \* the keys that have been there since the listing began
    ever,      \* the keys that have been there at any moment since
    changes,
    pc,        \* "asking", "done" or "failed"
    asked,     \* how many pages have been asked for
    token,     \* continuation_token of the next request
    objects, common_prefixes  \* what the pages have listed so far

vars == <<style, delimited, bucket, always, ever, changes,
          pc, asked, token, objects, common_prefixes>>

Init ==
    /\ style \in Styles
    /\ delimited \in BOOLEAN
    /\ bucket \in SUBSET DOMAIN KeyOrder
    /\ always = bucket
    /\ ever = bucket
    /\ changes = 0
    /\ pc = "asking"
    /\ asked = 0
    /\ token = None
    /\ objects = << >>
    /\ common_prefixes = << >>

-----------------------------------------------------------------------------
(* The storage                                                              *)

(* The entry a key is listed as: the key, or the folder it is in *)
Entry(key) ==
    LET slashes == {i \in DOMAIN key : key[i] = "/"} IN
    IF delimited /\ slashes # {} THEN SubSeq(key, 1, Min(slashes)) ELSE key

IsFolder(entry) == delimited /\ entry[Len(entry)] = "/"

(* A token is the entry it resumes behind, in a form of the storage's own. *)
TokenFor(entry) == <<"+">> \o entry

(* The last key that is listed as the entry *)
LastKeyOf(entry) == Max({i \in DOMAIN KeyOrder : Entry(KeyOrder[i]) = entry})

(* The entries behind the token, in order *)
EntriesBehind(t) ==
    LET from == IF t = None THEN 0 ELSE LastKeyOf(SubSeq(t, 2, Len(t)))
        ends == {LastKeyOf(Entry(KeyOrder[i])) : i \in bucket}
        behind == Ascending({i \in ends : i > from})
    IN  [n \in DOMAIN behind |-> Entry(KeyOrder[behind[n]])]

(* A node of nodes, of which some are not there: << >> *)
NodeOf(n, nodes) == Node(n, FlattenSeq(nodes))

(* One object or folder as the storage writes it *)
Owner == NodeOf("Owner", <<Leaf("Key", <<"owner">>), <<Empty("DisplayName")>> >>)
IndexOf(entry) == CHOOSE i \in DOMAIN KeyOrder : KeyOrder[i] = entry
EntryNode(entry, fault) ==
    LET key == IF fault = "no_key" THEN << >> ELSE Leaf("Key", Escape(entry))
        size == CASE fault = "no_size" -> << >>
                  [] fault = "bad_size" -> Leaf("Size", <<"many">>)
                  [] OTHER -> Leaf("Size", <<Sizes[IndexOf(entry)]>>)
        date == Leaf("LastModified", <<"then">>)
        etag == IF style = "aws" THEN Leaf("ETag", <<"&", "quot;">>) ELSE << >>
    IN  IF IsFolder(entry)
        THEN NodeOf("CommonPrefixes",
                    <<IF fault = "no_prefix" THEN << >> ELSE Leaf("Prefix", Escape(entry))>>)
        ELSE NodeOf("Contents",
                    CASE style = "aws" -> <<key, date, etag, size, Owner>>
                      [] style = "ceph" -> <<key, Owner, size, date>>
                      [] OTHER -> <<Owner, size, date, key>>)

(* Those of the entries that are folders, or those that are not *)
Chosen(entries, folders) ==
    LET places == Ascending({i \in DOMAIN entries : IsFolder(entries[i]) <=> folders}) IN
    [n \in DOMAIN places |-> entries[places[n]]]

(* The page of the first n entries: the scalars in front of the entries, or  *)
(* behind them; objects before folders, or in the order of the keys.  A      *)
(* MinIO here sends a token whether or not there is more.                    *)
PageOf(entries, n, fault) ==
    LET page == SubSeq(entries, 1, n)
        more == n < Len(entries)
        next == IF n > 0 THEN TokenFor(page[n]) ELSE token
        nodes(part) == [i \in DOMAIN part |-> EntryNode(part[i], fault)]
        truncated == Leaf("IsTruncated",
                          CASE more /\ style = "ceph" -> <<"True">>
                            [] more /\ style # "ceph" -> <<"true">>
                            [] OTHER -> <<"false">>)
        resume == CASE fault = "no_token" -> << >>
                    [] fault = "empty_token" -> <<Empty("NextContinuationToken")>>
                    [] fault \notin {"no_token", "empty_token"}
                          /\ (more \/ (style = "minio" /\ next # None)) ->
                          Leaf("NextContinuationToken", Escape(next))
                    [] OTHER -> << >>
    IN  CASE fault = "html" -> <<Open("html"), Empty("hr"), Close("html")>>
          [] fault = "empty_root" -> <<Empty("ListBucketResult")>>
          [] style = "ceph" /\ fault \notin {"html", "empty_root"} ->
                NodeOf("ListBucketResult", nodes(page) \o <<truncated, resume>>)
          [] OTHER ->
                NodeOf("ListBucketResult",
                       <<Leaf("Name", <<"bucket">>), truncated, resume>>
                       \o nodes(Chosen(page, FALSE)) \o nodes(Chosen(page, TRUE)))

-----------------------------------------------------------------------------
(* parse_list_objects_v2                                                    *)

Failed == [ok |-> FALSE, objects |-> << >>, common_prefixes |-> << >>, token |-> None]

(* The last child of that name wins; without one the value is None. *)
LastOf(doc, parent, name) ==
    LET nodes == next_child_of(doc, parent, {name}) IN
    IF nodes = << >> THEN None ELSE read_text(doc, Last(nodes))

(* parse::<u64> of what is required of <Size> *)
IsByteCount(text) == Len(text) = 1 /\ text[1] \in Range(Sizes)

(* read_object, None when it is an error *)
read_object(doc, contents) ==
    LET field(name) == LastOf(doc, contents, name) IN
    IF /\ field("Key") # None
       /\ field("LastModified") # None
       /\ IsByteCount(field("Size"))
    THEN [key |-> field("Key"), size |-> field("Size")[1]]
    ELSE [key |-> None, size |-> "none"]

(* The texts of every <Prefix> of every <CommonPrefixes>; one without any is  *)
(* an error, here a None.                                                    *)
read_common_prefixes(doc, node) ==
    LET prefixes == next_child_of(doc, node, {"Prefix"}) IN
    IF prefixes = << >> THEN <<None>>
    ELSE [i \in DOMAIN prefixes |-> read_text(doc, prefixes[i])]

is_truncated(doc, root) == LastOf(doc, root, "IsTruncated") \in {<<"true">>, <<"True">>}

(* The tokens sent; an empty one is a token that is not there. *)
SentTokens(doc, root) ==
    {i \in Range(next_child_of(doc, root, {"NextContinuationToken"})) :
        read_text(doc, i) # << >>}

(* Variant of NextToken, deliberately wrong: a token is always handed back. *)
TokenWhateverIsTruncated(doc, root) ==
    LET sent == SentTokens(doc, root) IN
    CASE sent # {} -> read_text(doc, Max(sent))
      [] OTHER -> IF is_truncated(doc, root) THEN <<"missing">> ELSE None

(* None on a page that is not truncated; truncated without a token is an      *)
(* error, here "missing".                                                    *)
NextToken(doc, root) ==
    LET sent == SentTokens(doc, root) IN
    CASE ~is_truncated(doc, root) -> None
      [] is_truncated(doc, root) /\ sent = {} -> <<"missing">>
      [] OTHER -> read_text(doc, Max(sent))

parse_list_objects_v2(doc) ==
    LET roots == NodesAt(doc, <<"ListBucketResult">>)
        root == Min(roots)
        contents == next_child_of(doc, root, {"Contents"})
        folders == next_child_of(doc, root, {"CommonPrefixes"})
        page == [ok |-> TRUE,
                 objects |-> [i \in DOMAIN contents |-> read_object(doc, contents[i])],
                 common_prefixes |->
                    FlattenSeq([i \in DOMAIN folders |-> read_common_prefixes(doc, folders[i])]),
                 token |-> NextToken(doc, root)]
    IN  IF ~is_safe_to_read(doc) \/ roots = {} THEN Failed
        ELSE IF \/ \E i \in DOMAIN page.objects : page.objects[i].key = None
                \/ \E i \in DOMAIN page.common_prefixes : page.common_prefixes[i] = None
                \/ page.token = <<"missing">>
        THEN Failed
        ELSE page

-----------------------------------------------------------------------------
(* The caller's loop: a page is used, and its token is asked with next *)
PageArrives(doc) ==
    LET page == parse_list_objects_v2(doc) IN
    /\ objects' = objects \o page.objects
    /\ common_prefixes' = common_prefixes \o page.common_prefixes
    /\ asked' = asked + 1
    /\ token' = page.token
    /\ pc' = CASE ~page.ok -> "failed"
               [] page.ok /\ page.token = None -> "done"
               [] OTHER -> "asking"

(* The storage answers a request with a 2xx, from the bucket as it is. *)
Answered(fault) ==
    LET entries == EntriesBehind(token) IN
    /\ pc = "asking"
    /\ fault = "empty_root" => entries = << >>
    /\ \E n \in 0 .. MaxPage :
          /\ n <= Len(entries)
          /\ n = 0 => entries = << >>
          /\ PageArrives(PageOf(entries, n, fault))
    /\ UNCHANGED <<style, delimited, bucket, always, ever, changes>>

(* The connection drops inside the page. *)
AnswerCutShort ==
    LET entries == EntriesBehind(token) IN
    /\ pc = "asking"
    /\ \E doc \in CutShort(PageOf(entries, Len(entries), "none")) : PageArrives(doc)
    /\ UNCHANGED <<style, delimited, bucket, always, ever, changes>>

(* A refusal, or no answer: list_objects_v2 fails, and the loop with it. *)
Refused ==
    /\ pc = "asking"
    /\ pc' = "failed"
    /\ UNCHANGED <<style, delimited, bucket, always, ever, changes,
                   asked, token, objects, common_prefixes>>

(* Somebody else puts or deletes an object. *)
BucketChanges(i) ==
    /\ pc = "asking"
    /\ changes < MaxChanges
    /\ changes' = changes + 1
    /\ bucket' = IF i \in bucket THEN bucket \ {i} ELSE bucket \cup {i}
    /\ always' = always \cap bucket'
    /\ ever' = ever \cup bucket'
    /\ UNCHANGED <<style, delimited, pc, asked, token, objects, common_prefixes>>

Terminated == pc \in {"done", "failed"} /\ UNCHANGED vars

Next ==
    \/ \E fault \in Faults : Answered(fault)
    \/ AnswerCutShort
    \/ Refused
    \/ \E i \in DOMAIN KeyOrder : BucketChanges(i)
    \/ Terminated

Spec == Init /\ [][Next]_vars

-----------------------------------------------------------------------------
Listed == {objects[i].key : i \in DOMAIN objects} \cup Range(common_prefixes)

(* A listing that is read to its end has every object that was there all the  *)
(* while, as itself or in its folder: none is lost between two pages, in a   *)
(* page that was cut or is faulty, or in a layout of another storage         *)
(* ("the caller would silently list part of the bucket").                    *)
ListingIsComplete ==
    pc = "done" => \A i \in always : Entry(KeyOrder[i]) \in Listed

(* What is listed was there: every object with its own key, decoded, and its *)
(* own size, every folder with something in it, and nothing twice.           *)
ListingIsTrue ==
    /\ \A i \in DOMAIN objects :
          \E k \in ever : /\ objects[i] = [key |-> KeyOrder[k], size |-> Sizes[k]]
                          /\ Entry(KeyOrder[k]) = KeyOrder[k]
    /\ \A i \in DOMAIN common_prefixes :
          \E k \in ever : /\ Entry(KeyOrder[k]) = common_prefixes[i]
                          /\ IsFolder(common_prefixes[i])
    /\ \A i, k \in DOMAIN objects : objects[i].key = objects[k].key => i = k
    /\ \A i, k \in DOMAIN common_prefixes : common_prefixes[i] = common_prefixes[k] => i = k

(* The loop ends against a storage whose truncated pages are not empty: it     *)
(* asks for no more pages than there are entries, and one for the end, with  *)
(* a token on every page, truncated or not ("would loop forever on an        *)
(* implementation that always sends one"), with pages that are cut or lack   *)
(* something, and with objects put and deleted between them.                 *)
LoopIsBounded == asked <= Len(KeyOrder) + 1
=============================================================================
