--------------------------- MODULE UploadWithWriter ---------------------------
(***************************************************************************)
(* S3Client::upload_with_writer and upload_with_writer_with_retries         *)
(* (src/src/s3_client.rs): the call runs upload_streamed itself, a producer *)
(* task of its own writes the body, and the two failures are settled after  *)
(* both have ended.                                                         *)
(*                                                                          *)
(* cpc:  uploading   upload_streamed is awaited                             *)
(*       joining     the producer is awaited                                *)
(*       settled     the attempt has its verdict                            *)
(*       returned    the call has returned verdict to its caller            *)
(*       cancelled   the future of the call was dropped                     *)
(***************************************************************************)
EXTENDS UploadStreamed

CONSTANTS
    Retryable,  \* the S3Errors that is_retryable accepts
    MaxRetries  \* max_retries

ASSUME RetryableAssumption == Retryable \subseteq S3Errors
ASSUME MaxRetriesAssumption == MaxRetries \in Nat

VARIABLES
    producer, \* "running", or how the producer task ended: "Ok", "Failed"
    cpc,      \* where the call is
    verdict,  \* what the attempt amounts to
    retries

callVars == <<producer, cpc, verdict, retries>>
vars == <<content_length, accepted, sent, upload_ended, body_ended,
          body_started, sender, buffer, pending, chan, rx_open,
          wpc, op, buf_len, late, taken, ret, reported,
          request, outcome, wire, stored,
          producer, cpc, verdict, retries>>

Init ==
    /\ WriterInit
    /\ RequestInit("sending")
    /\ producer = "running"
    /\ cpc = "uploading"
    /\ verdict = "none"
    /\ retries = 0

-----------------------------------------------------------------------------
(* A producer that awaits its write: while a Pending call has neither room   *)
(* nor a closed channel to wake it, nothing makes it go on.                  *)
ProducerParked ==
    /\ ret = "Pending"
    /\ pending # NoChunk
    /\ rx_open
    /\ Len(chan) >= ChannelCapacity

(* The producer calls its writer, or drops it; it may give up a Pending call. *)
ProducerWrites ==
    /\ WriterCalled
    /\ UNCHANGED <<requestVars, callVars>>

(* A producer that is awake stops writing, for whatever reason: its writer   *)
(* is dropped.  (A step of ProducerWrites that the fairness is about.)       *)
ProducerStops ==
    /\ ~ProducerParked
    /\ DropCalled
    /\ UNCHANGED <<requestVars, callVars>>

(* The task ends after its writer went: Ok, or Failed - an error or a panic. *)
ProducerReturns(r) ==
    /\ producer = "running"
    /\ wpc = "gone"
    /\ producer' = r
    /\ UNCHANGED <<writerVars, requestVars, cpc, verdict, retries>>

-----------------------------------------------------------------------------
UploadReturns ==
    /\ cpc = "uploading"
    /\ request = "over"
    /\ cpc' = "joining"
    /\ UNCHANGED <<writerVars, requestVars, producer, verdict, retries>>

(* Variant of BodyFailed, deliberately wrong: only the length is looked at. *)
OnlyTheLengthFailed == BodyIsShort

(* finish_upload_with_writer: the producer's own failure, or a short body *)
BodyFailed == producer = "Failed" \/ BodyIsShort

(* Variant of Settled, deliberately wrong: a producer's own error always wins. *)
SettledOnTheProducer ==
    CASE ~BodyFailed -> outcome
      [] BodyFailed /\ outcome # "Ok" /\ upload_ended /\ producer = "Ok" -> outcome
      [] OTHER -> "UploadProducerFailed"

(* settle *)
Settled ==
    CASE ~BodyFailed -> outcome
      [] BodyFailed /\ outcome # "Ok" /\ upload_ended -> outcome
      [] OTHER -> "UploadProducerFailed"

(* Variant of ProducerJoined, deliberately wrong: a failed upload is settled  *)
(* without waiting for the producer.                                         *)
FailureNotJoined ==
    /\ cpc = "joining"
    /\ producer # "running" \/ outcome # "Ok"
    /\ verdict' = Settled
    /\ cpc' = "settled"
    /\ UNCHANGED <<writerVars, requestVars, producer, retries>>

(* producing.await, always, and then the settlement *)
ProducerJoined ==
    /\ cpc = "joining"
    /\ producer # "running"
    /\ verdict' = Settled
    /\ cpc' = "settled"
    /\ UNCHANGED <<writerVars, requestVars, producer, retries>>

(* Variant of RetryIsDue, deliberately wrong: off by one. *)
OneRetryMore == verdict \in Retryable /\ retries <= MaxRetries

(* is_retryable, and retries left *)
RetryIsDue == verdict \in Retryable /\ retries < MaxRetries

(* The next attempt: a fresh writer, channel, state and request, and the     *)
(* producer run again from the first byte.                                   *)
CallRetries ==
    /\ cpc = "settled"
    /\ RetryIsDue
    /\ retries' = retries + 1
    /\ WriterRenewed
    /\ request' = "sending"
    /\ outcome' = "none"
    /\ wire' = 0
    /\ stored' = FALSE
    /\ producer' = "running"
    /\ cpc' = "uploading"
    /\ verdict' = "none"

CallReturns ==
    /\ cpc = "settled"
    /\ ~RetryIsDue
    /\ cpc' = "returned"
    /\ UNCHANGED <<writerVars, requestVars, producer, verdict, retries>>

(* The future of the call is dropped at an await: the request is abandoned,  *)
(* and the producer task runs on by itself.                                  *)
CallCancelled ==
    /\ cpc \in {"uploading", "joining"}
    /\ cpc' = "cancelled"
    /\ request' = "over"
    /\ UNCHANGED <<writerVars, outcome, wire, stored, producer, verdict, retries>>

-----------------------------------------------------------------------------
CallRuns ==
    \/ UploadReturns
    \/ ProducerJoined
    \/ CallRetries
    \/ CallReturns

Terminated ==
    /\ cpc \in {"returned", "cancelled"}
    /\ producer # "running"
    /\ ~rx_open
    /\ UNCHANGED vars

Next ==
    \/ ProducerWrites
    \/ WriterRuns /\ UNCHANGED <<requestVars, callVars>>
    \/ \E r \in {"Ok", "Failed"} : ProducerReturns(r)
    \/ RequestRuns /\ UNCHANGED callVars
    \/ CallRuns
    \/ CallCancelled
    \/ Terminated

Spec == Init /\ [][Next]_vars

(* As in StartUpload, and a producer that is awake infinitely often stops in *)
(* the end: sources are finite.                                              *)
Fairness ==
    /\ WF_vars(WriterRuns /\ UNCHANGED <<requestVars, callVars>>)
    /\ WF_vars((\E e \in S3Errors : RequestFails(e)) /\ UNCHANGED callVars)
    /\ WF_vars(CloseBody /\ UNCHANGED callVars)
    /\ SF_vars(ProducerStops)
    /\ WF_vars(\E r \in {"Ok", "Failed"} : ProducerReturns(r))
    /\ WF_vars(CallRuns)

FairSpec == Spec /\ Fairness

-----------------------------------------------------------------------------
TypeOK ==
    /\ WriterTypeOK
    /\ RequestTypeOK
    /\ producer \in {"running", "Ok", "Failed"}
    /\ cpc \in {"uploading", "joining", "settled", "returned", "cancelled"}
    /\ verdict \in {"none", "Ok", "UploadProducerFailed"} \cup S3Errors
    /\ retries \in 0 .. MaxRetries

(* A producer that learned of the dead upload through its writer gets the     *)
(* upload's own error, whatever it made of the BrokenPipe.                    *)
DeadUploadIsExplained ==
    (cpc \in {"settled", "returned"} /\ upload_ended /\ outcome \in S3Errors)
        => verdict = outcome

(* The call and its producer together are one upload as Upload.tla promises   *)
(* it; a retry starts that upload again.                                      *)
Abstract == INSTANCE Upload WITH
    source <- CASE producer = "Failed" -> "failed"
                [] producer # "Failed" /\ body_ended -> "ended"
                [] OTHER -> "writing",
    arrived <- wire
ImplementsUpload == Abstract!Spec

(* No two producers share the caller's source: when an attempt begins, the    *)
(* producer of the one before has ended and let go of its writer, and a       *)
(* failure that was the producer's own is not repeated.                       *)
AttemptsDoNotOverlap ==
    [][retries' # retries =>
          /\ producer # "running"
          /\ wpc = "gone"
          /\ verdict \in Retryable]_vars

(* The call comes back, with a verdict, unless it is cancelled: a producer    *)
(* parked on the channel of a dead upload is woken.                           *)
CallComesBack == <>(cpc \in {"returned", "cancelled"})

(* The producer task ends even if nobody waits for it any more.               *)
ProducerEnds == cpc = "cancelled" ~> producer # "running"
=============================================================================
