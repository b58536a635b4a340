---------------------------- MODULE StreamedRetries ---------------------------
(***************************************************************************)
(* S3Client::upload_streamed_with_retries (src/src/s3_client.rs): every      *)
(* attempt gets a channel and a producer of its own from new_body.  Nobody  *)
(* waits for the producer of an attempt that failed, and what that attempt  *)
(* had sent may still become the object.                                    *)
(*                                                                          *)
(* A body is content_length bytes, produced and received one at a time; the *)
(* producer is the one the documentation shows: it sends until its source   *)
(* ends, possibly early, or until a send fails.                             *)
(***************************************************************************)
EXTENDS ErrorTyping

CONSTANTS
    ContentLength,   \* content_length
    ChannelCapacity, \* of the channels new_body makes
    MaxRetries,      \* max_retries
    EarlyAnswers     \* whether the storage may answer 2xx before it has the body

ASSUME LengthAssumption == ContentLength \in Nat
ASSUME CapacityAssumption == ChannelCapacity \in Nat \ {0}
ASSUME RetriesAssumption == MaxRetries \in Nat
ASSUME EarlyAnswersAssumption == EarlyAnswers \in BOOLEAN

(* How an attempt fails: in a way that repeating it reproduces, or because of  *)
(* the moment - too many requests, the transport, upload_timeout.            *)
Deterministic == {UnexpectedStatusCode(403, <<"AccessDenied">>), Typed("BucketNotFound"),
                  FlUrlError("InvalidUrl")}
Transient == {UnexpectedStatusCode(400, <<"SlowDown">>), UnexpectedStatusCode(503, None),
              FlUrlError("timeout")}
Failures == Deterministic \cup Transient

VARIABLES
    retries,  \* the retries made; retries + 1 is the attempt that runs
    produced, \* how many bytes each attempt's producer has put in its channel
    ended,    \* the attempts whose producer has ended
    rx_open,  \* the attempts whose Receiver is alive
    wire,     \* how many bytes each attempt has sent
    stored,   \* the attempts whose body the storage has committed
    object,   \* the attempt whose body the object is, 0 for the previous one
    errors,   \* what the attempts failed with
    pc        \* "uploading", "Ok", "Err" or "cancelled"

bodyVars == <<produced, ended, rx_open, wire>>
vars == <<retries, produced, ended, rx_open, wire, stored, object, errors, pc>>

current == retries + 1
Attempts == 1 .. current

Init ==
    /\ retries = 0
    /\ produced = <<0>>
    /\ ended = {}
    /\ rx_open = {1}
    /\ wire = <<0>>
    /\ stored = {}
    /\ object = 0
    /\ errors = << >>
    /\ pc = "uploading"

-----------------------------------------------------------------------------
(* The producers                                                            *)

ChannelIsFull(k) == produced[k] - wire[k] >= ChannelCapacity

Produces(k) ==
    /\ k \notin ended
    /\ k \in rx_open
    /\ produced[k] < ContentLength
    /\ ~ChannelIsFull(k)
    /\ produced' = [produced EXCEPT ![k] = @ + 1]
    /\ UNCHANGED <<retries, ended, rx_open, wire, stored, object, errors, pc>>

(* Its source ends, or its send does not succeed: a send that waits for room  *)
(* in the channel is woken by either.                                        *)
ProducerEnds(k) ==
    /\ k \notin ended
    /\ k \in rx_open => ~ChannelIsFull(k) \/ produced[k] = ContentLength
    /\ ended' = ended \cup {k}
    /\ UNCHANGED <<retries, produced, rx_open, wire, stored, object, errors, pc>>

-----------------------------------------------------------------------------
(* The HTTP client and the storage                                          *)

Sends(k) ==
    /\ pc = "uploading" /\ k = current
    /\ k \in rx_open
    /\ wire[k] < produced[k]
    /\ wire' = [wire EXCEPT ![k] = @ + 1]
    /\ UNCHANGED <<retries, produced, ended, rx_open, stored, object, errors, pc>>

(* The storage has the whole body, of this attempt or of an earlier one. *)
Commits(k) ==
    /\ wire[k] = ContentLength
    /\ k \notin stored
    /\ stored' = stored \cup {k}
    /\ object' = k
    /\ UNCHANGED <<retries, bodyVars, errors, pc>>

(* Variant of LetsGo, deliberately wrong: the Receiver of an attempt that     *)
(* failed is kept.                                                           *)
KeepsOldBodies(k) ==
    /\ k \in rx_open
    /\ pc # "uploading"
    /\ k = current
    /\ rx_open' = rx_open \ {k}
    /\ UNCHANGED <<retries, produced, ended, wire, stored, object, errors, pc>>

(* The client lets go of the body of an attempt that is over. *)
LetsGo(k) ==
    /\ k \in rx_open
    /\ k < current \/ pc # "uploading"
    /\ rx_open' = rx_open \ {k}
    /\ UNCHANGED <<retries, produced, ended, wire, stored, object, errors, pc>>

-----------------------------------------------------------------------------
(* The call                                                                 *)

(* A 2xx, of a storage that has the body or may answer early *)
AttemptSucceeds ==
    /\ pc = "uploading"
    /\ current \in stored \/ EarlyAnswers
    /\ pc' = "Ok"
    /\ UNCHANGED <<retries, bodyVars, stored, object, errors>>

(* Variant of NewAttempt, deliberately wrong: what was sent of the body that   *)
(* is given up counts for the next one.                                      *)
NewAttemptResumes ==
    /\ retries' = retries + 1
    /\ produced' = Append(produced, 0)
    /\ wire' = Append(wire, wire[current])
    /\ rx_open' = rx_open \cup {current + 1}
    /\ UNCHANGED <<ended, stored, object, pc>>

(* new_body, for the next attempt *)
NewAttempt ==
    /\ retries' = retries + 1
    /\ produced' = Append(produced, 0)
    /\ wire' = Append(wire, 0)
    /\ rx_open' = rx_open \cup {current + 1}
    /\ UNCHANGED <<ended, stored, object, pc>>

(* Variant of AttemptFails, deliberately wrong: the attempts are not counted. *)
AttemptFailsUncounted(e) ==
    /\ pc = "uploading"
    /\ IF is_retryable(e)
       THEN /\ produced' = [produced EXCEPT ![current] = 0]
            /\ wire' = [wire EXCEPT ![current] = 0]
            /\ UNCHANGED <<retries, ended, rx_open, stored, object, errors, pc>>
       ELSE /\ pc' = "Err"
            /\ errors' = Append(errors, e)
            /\ UNCHANGED <<retries, bodyVars, stored, object>>

(* upload_streamed failed, and the loop decides; there is no await between. *)
AttemptFails(e) ==
    /\ pc = "uploading"
    /\ errors' = Append(errors, e)
    /\ IF retries >= MaxRetries \/ ~is_retryable(e)
       THEN pc' = "Err" /\ UNCHANGED <<retries, bodyVars, stored, object>>
       ELSE NewAttempt

(* The future of the call is dropped. *)
Cancelled ==
    /\ pc = "uploading"
    /\ pc' = "cancelled"
    /\ UNCHANGED <<retries, bodyVars, stored, object, errors>>

(* The call is over; what it left behind runs on by itself. *)
Terminated == pc # "uploading" /\ UNCHANGED vars

BodiesRun(k) == Produces(k) \/ ProducerEnds(k) \/ Sends(k) \/ Commits(k) \/ LetsGo(k)

Next ==
    \/ \E k \in Attempts : BodiesRun(k)
    \/ AttemptSucceeds
    \/ \E e \in Failures : AttemptFails(e)
    \/ Cancelled
    \/ Terminated

Spec == Init /\ [][Next]_vars

(* upload_timeout ends an attempt that nothing else ends; the client lets go  *)
(* of a body it is done with; a producer that can go on does, and sources    *)
(* are finite.  Nobody promises that the storage commits or accepts.         *)
Fairness ==
    /\ WF_vars(\E e \in Failures : AttemptFails(e))
    /\ \A k \in 1 .. MaxRetries + 1 :
          /\ WF_vars(k \in Attempts /\ LetsGo(k))
          /\ WF_vars(k \in Attempts /\ ProducerEnds(k))

FairSpec == Spec /\ Fairness

-----------------------------------------------------------------------------
(* An object that was replaced, at any time and whatever the call has said, is *)
(* the payload of one producer, which delivered all of it: never a part of   *)
(* one, nor the end of one behind the beginning of another ("replays the     *)
(* payload from the beginning").  And Ok is said only when the producer of   *)
(* the last attempt has delivered its payload to the end - one that ended    *)
(* early is not made up for by what an attempt before it sent - unless the   *)
(* storage answers 2xx before it has the body.                               *)
ObjectIsOnePayload ==
    /\ object # 0 => produced[object] = ContentLength
    /\ pc = "Ok" /\ ~EarlyAnswers => produced[current] = ContentLength

(* The error that comes back is the one of the last attempt, all before it     *)
(* were worth repeating, and it is one that is not or the attempts are spent *)
(* ("Stops at the first error that is_retryable rejects").                   *)
RetriesAreSpentOnlyOnHope ==
    pc = "Err" =>
        /\ Len(errors) = current
        /\ \A k \in 1 .. retries : errors[k] \in Transient
        /\ errors[current] \in Transient => retries = MaxRetries

(* The call comes back unless it is dropped. *)
CallReturns == <>(pc # "uploading")

(* Nobody awaits the producers, and still every one of them ends: one that    *)
(* waits for room in the channel of an attempt that failed is woken.         *)
ProducersEnd == []<>(ended = Attempts)
=============================================================================
