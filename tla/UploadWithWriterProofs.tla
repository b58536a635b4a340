------------------------ MODULE UploadWithWriterProofs ------------------------
(***************************************************************************)
(* upload_with_writer and upload_with_writer_with_retries, for every        *)
(* declared length, chunk size, channel capacity and number of retries.     *)
(***************************************************************************)
EXTENDS UploadWithWriter, UploadStreamedProofs

(* What the call knows of its request and of its producer *)
CallInv ==
    /\ request # "waiting"
    /\ producer # "running" => wpc = "gone"
    /\ cpc # "uploading" => request = "over"
    /\ cpc # "cancelled" /\ request = "over" => outcome # "none"
    /\ outcome = "Ok" => EarlyAnswers \/ stored
    /\ cpc \in {"settled", "returned"} => producer # "running" /\ verdict = Settled
    /\ cpc \notin {"settled", "returned"} => verdict = "none"

IInv ==
    /\ TypeOK
    /\ WriterInv
    /\ ChannelInv
    /\ CallInv

(* The call begins with the invariant. *)
LEMMA InitEstablishesInv == Init => IInv
  <1> SUFFICES ASSUME Init PROVE IInv
    OBVIOUS
  <1> USE DEF Init, RequestInit
  <1>1. WriterInv /\ ChannelInv
    BY FreshWriterIsSound
  <1>2. RequestTypeOK
    BY DEF RequestTypeOK
  <1>3. TypeOK
    BY <1>1, <1>2, MaxRetriesAssumption DEF WriterInv, TypeOK
  <1>4. CallInv
    BY DEF CallInv
  <1> QED BY <1>1, <1>3, <1>4 DEF IInv

(* A step of the writer, in the hands of the producer. *)
LEMMA WriterKeepsIInv ==
    ASSUME IInv, WriterCalled \/ WriterRuns, UNCHANGED <<requestVars, callVars>>
    PROVE  IInv'
  <1> USE DEF requestVars, callVars
  <1>1. WriterInv'
    BY WriterCalledKeepsInv, WriterRunsKeepsInv DEF IInv
  <1>2. ChannelInv'
    BY WriterKeepsChannel DEF IInv, TypeOK
  <1>3. TypeOK'
    BY <1>1 DEF IInv, TypeOK, RequestTypeOK, WriterInv
  <1>4. producer = "running" /\ cpc \notin {"settled", "returned"}
    BY GoneWriterIsSilent DEF IInv, CallInv
  <1>5. CallInv'
    BY <1>4 DEF IInv, CallInv
  <1> QED BY <1>1, <1>2, <1>3, <1>5 DEF IInv

(* A step of the request. *)
LEMMA RequestKeepsIInv ==
    ASSUME IInv, RequestRuns, UNCHANGED callVars
    PROVE  IInv'
  <1> USE DEF callVars
  <1>1. WriterInv' /\ ChannelInv' /\ RequestTypeOK'
    BY RequestKeepsInv DEF IInv, TypeOK
  <1>2. TypeOK'
    BY <1>1 DEF IInv, TypeOK, WriterInv
  <1>3. UNCHANGED <<content_length, sent, upload_ended, wpc>>
    BY DEF RequestRuns, Recv, Commit, StorageAccepts, RequestFails, Over, CloseBody,
           WriterKept, content, counters, flags, caller
  <1>4. /\ request' = "waiting" => request = "waiting"
        /\ request = "over" => request' = "over" /\ outcome' = outcome
        /\ request' = "over" => request = "over" \/ outcome' # "none"
        /\ stored => stored'
        /\ outcome' = "Ok" => outcome = "Ok" \/ EarlyAnswers \/ stored'
    BY S3ErrorsAssumption
    DEF RequestRuns, Recv, Commit, StorageAccepts, RequestFails, Over, CloseBody,
        requestVars
  <1>5. CallInv'
    BY <1>3, <1>4 DEF IInv, CallInv, Settled, BodyFailed, BodyIsShort
  <1> QED BY <1>1, <1>2, <1>5 DEF IInv

(* A step that touches neither the writer nor the channel nor the storage. *)
LEMMA CallStepKeepsIInv ==
    ASSUME IInv, UNCHANGED <<writerVars, wire, stored>>,
           request' \in {request, "over"}, outcome' = outcome,
           producer' \in {"running", "Ok", "Failed"},
           cpc' \in {"uploading", "joining", "settled", "returned", "cancelled"},
           verdict' \in {"none", "Ok", "UploadProducerFailed"} \cup S3Errors,
           retries' = retries, CallInv'
    PROVE  IInv'
  <1>1. WriterKept /\ UNCHANGED channel
    BY DEF writerVars, WriterKept, content, counters, flags, fields, channel, caller
  <1>2. WriterInv' /\ ChannelInv'
    BY <1>1, ClosingKeepsInv DEF IInv
  <1>3. RequestTypeOK'
    BY DEF IInv, TypeOK, RequestTypeOK
  <1>4. TypeOK'
    BY <1>2, <1>3 DEF IInv, TypeOK, WriterInv
  <1> QED BY <1>2, <1>4 DEF IInv

(* A step of the call, or of the producer task. *)
LEMMA CallKeepsIInv ==
    ASSUME IInv, CallRuns \/ CallCancelled \/ \E r \in {"Ok", "Failed"} : ProducerReturns(r)
    PROVE  IInv'
  <1> USE S3ErrorsAssumption DEF requestVars
  <1>1. ASSUME NEW r \in {"Ok", "Failed"}, ProducerReturns(r)
        PROVE  IInv'
    <2>1. CallInv'
      BY <1>1 DEF ProducerReturns, IInv, CallInv, writerVars
    <2> QED BY <1>1, <2>1, CallStepKeepsIInv DEF ProducerReturns, IInv, TypeOK
  <1>2. CASE UploadReturns
    <2>1. CallInv'
      BY <1>2 DEF UploadReturns, IInv, CallInv, writerVars
    <2> QED BY <1>2, <2>1, CallStepKeepsIInv DEF UploadReturns, IInv, TypeOK
  <1>3. CASE ProducerJoined
    <2>1. outcome \in {"Ok"} \cup S3Errors
      BY <1>3 DEF ProducerJoined, IInv, CallInv, TypeOK, RequestTypeOK
    <2>2. Settled \in {"Ok", "UploadProducerFailed"} \cup S3Errors
      BY <2>1 DEF Settled
    <2>3. Settled' = Settled
      BY <1>3 DEF ProducerJoined, Settled, BodyFailed, BodyIsShort, writerVars
    <2>4. CallInv'
      BY <1>3, <2>3 DEF ProducerJoined, IInv, CallInv, writerVars
    <2> QED BY <1>3, <2>2, <2>4, CallStepKeepsIInv DEF ProducerJoined, IInv, TypeOK
  <1>4. CASE CallRetries
    <2>1. WriterInv' /\ ChannelInv'
      BY <1>4, RenewedWriterIsSound DEF CallRetries, IInv
    <2>2. RequestTypeOK'
      BY <1>4 DEF CallRetries, RequestTypeOK
    <2>3. retries' \in 0 .. MaxRetries
      BY <1>4, MaxRetriesAssumption DEF CallRetries, RetryIsDue, IInv, TypeOK
    <2>4. TypeOK'
      BY <1>4, <2>1, <2>2, <2>3 DEF CallRetries, WriterInv, TypeOK
    <2>5. CallInv'
      BY <1>4 DEF CallRetries, CallInv
    <2> QED BY <2>1, <2>4, <2>5 DEF IInv
  <1>5. CASE CallReturns
    <2>1. Settled' = Settled
      BY <1>5 DEF CallReturns, Settled, BodyFailed, BodyIsShort, writerVars
    <2>2. CallInv'
      BY <1>5, <2>1 DEF CallReturns, IInv, CallInv, writerVars
    <2> QED BY <1>5, <2>2, CallStepKeepsIInv DEF CallReturns, IInv, TypeOK
  <1>6. CASE CallCancelled
    <2>1. CallInv'
      BY <1>6 DEF CallCancelled, IInv, CallInv, writerVars
    <2> QED BY <1>6, <2>1, CallStepKeepsIInv DEF CallCancelled, IInv, TypeOK
  <1> QED BY <1>1, <1>2, <1>3, <1>4, <1>5, <1>6 DEF CallRuns

(* Every step keeps the invariant. *)
LEMMA StepKeepsIInv == IInv /\ [Next]_vars => IInv'
  <1> SUFFICES ASSUME IInv, [Next]_vars PROVE IInv'
    OBVIOUS
  <1>1. CASE UNCHANGED vars
    <2>1. UNCHANGED <<writerVars, wire, stored, request, outcome, callVars>>
      BY <1>1 DEF vars, writerVars, callVars
    <2>2. CallInv'
      BY <2>1 DEF IInv, CallInv, Settled, BodyFailed, BodyIsShort, writerVars, callVars
    <2> QED BY <2>1, <2>2, CallStepKeepsIInv DEF callVars, IInv, TypeOK
  <1> QED
    BY <1>1, WriterKeepsIInv, RequestKeepsIInv, CallKeepsIInv
    DEF Next, ProducerWrites, Terminated

(* IInv holds in every reachable state, for every choice of the constants. *)
THEOREM InvHolds == Spec => []IInv
  BY InitEstablishesInv, StepKeepsIInv, PTL DEF Spec

(* Every variable keeps to its type, and no more than max_retries are made. *)
THEOREM TypeCorrect == Spec => []TypeOK
  <1>1. IInv => TypeOK
    BY DEF IInv
  <1> QED BY <1>1, InvHolds, PTL

(* The body that upload_with_writer sends has no hole and no repetition, in    *)
(* any of its attempts.                                                      *)
THEOREM ContiguousBody == Spec => []BodyIsContiguous
  <1>1. IInv => BodyIsContiguous
    BY InvMakesContiguous DEF IInv
  <1> QED BY <1>1, InvHolds, PTL

(* The upload's own error comes back when its writer found it gone. *)
THEOREM DeadUploadExplained == Spec => []DeadUploadIsExplained
  <1>1. IInv => DeadUploadIsExplained
    BY S3ErrorsAssumption DEF IInv, CallInv, Settled, DeadUploadIsExplained
  <1> QED BY <1>1, InvHolds, PTL

(* An attempt begins only when the producer of the one before has ended and    *)
(* let go of its writer, and only after an error that is_retryable accepts.  *)
THEOREM NoOverlap == Spec => AttemptsDoNotOverlap
  <1> DEFINE Apart == retries' # retries =>
                          /\ producer # "running"
                          /\ wpc = "gone"
                          /\ verdict \in Retryable
  <1>1. IInv /\ [Next]_vars => [Apart]_vars
    <2> SUFFICES ASSUME IInv, [Next]_vars, retries' # retries
                 PROVE  producer # "running" /\ wpc = "gone" /\ verdict \in Retryable
      OBVIOUS
    <2>1. CallRetries
      BY DEF Next, vars, ProducerWrites, ProducerReturns, CallRuns, UploadReturns,
             ProducerJoined, CallReturns, CallCancelled, Terminated, callVars
    <2> QED BY <2>1 DEF CallRetries, RetryIsDue, IInv, CallInv
  <1> QED BY <1>1, InvHolds, PTL DEF Spec, AttemptsDoNotOverlap

-----------------------------------------------------------------------------
(* The refinement of Upload *)

(* A step that leaves what Upload sees alone is a stutter there. *)
LEMMA UnseenStepsStutter ==
    ASSUME UNCHANGED <<content_length, body_ended, producer, wire, stored, verdict>>
    PROVE  UNCHANGED Abstract!uploadVars
  BY DEF Abstract!uploadVars

(* Every step of the call and of its producer is a step of Upload or leaves it *)
(* alone, when the storage answers for what it has.                          *)
LEMMA StepsImplementUpload ==
    ASSUME ~EarlyAnswers, IInv, [Next]_vars
    PROVE  [Abstract!Next]_(Abstract!uploadVars)
  <1> USE DEF requestVars, callVars
  <1>0. producer # "running" => body_ended
    BY DEF IInv, CallInv, WriterInv, PlaceInv
  <1>1. CASE (WriterCalled \/ WriterRuns) /\ UNCHANGED <<requestVars, callVars>>
    <2>1. WriterIsGentle
      BY <1>1, WriterStepsAreGentle DEF IInv
    <2>2. CASE MarkBodyEnded
      <3>1. ~body_ended /\ body_ended' = TRUE
        BY <2>2 DEF MarkBodyEnded, IInv, WriterInv, PlaceInv, Ending
      <3>2. producer = "running"
        BY <1>0, <3>1
      <3>3. Abstract!SourceEnds
        BY <1>1, <2>1, <3>1, <3>2 DEF Abstract!SourceEnds, WriterIsGentle
      <3> QED BY <3>3 DEF Abstract!Next
    <2>3. CASE ~MarkBodyEnded
      <3>1. body_ended' = body_ended
        BY <1>1, <2>3, CallTouchesOnlyTheCall
        DEF WriterRuns, ReserveFails, ReserveWaits, ReserveSucceeds, CountChunk, PushChunk,
            UploadIsGone, WriteReturnsEarly, WriteAccepts, FlushRefused,
            FlushFindsNothing, FlushSends, AnnounceBodyEnded, HangUp, flags, IInv
      <3> QED BY <1>1, <2>1, <3>1, UnseenStepsStutter DEF WriterIsGentle
    <2> QED BY <2>2, <2>3
  <1>2. CASE RequestRuns /\ UNCHANGED callVars
    <2>0. UNCHANGED <<content_length, body_ended, producer, verdict>>
      BY <1>2
      DEF RequestRuns, Recv, Commit, StorageAccepts, RequestFails, Over, CloseBody,
          WriterKept, content, flags
    <2>1. CASE Recv
      <3>1. verdict = "none" /\ rx_open /\ stored' = stored
        BY <2>1 DEF Recv, IInv, TypeOK, WriterTypeOK, CallInv, ChannelInv
      <3>2. wire' \in Nat /\ wire < wire' /\ wire' <= ChannelEnd
        BY <2>1, <3>1, RecvKeepsChain DEF IInv, TypeOK, ChannelInv
      <3>3. /\ ChannelEnd \in Nat /\ content_length \in Nat /\ wire \in Nat
            /\ ChannelEnd <= content_length
        BY <3>1, ContentLengthsAssumption
        DEF IInv, TypeOK, WriterTypeOK, RequestTypeOK, WriterInv, CountInv, PlaceInv,
            ChannelInv, AboutToPush, Sending, Chunk
      <3>4. wire' \in wire + 1 .. content_length
        BY <3>2, <3>3
      <3>5. Abstract!Arrives
        BY <2>0, <3>1, <3>4 DEF Abstract!Arrives
      <3> QED BY <3>5 DEF Abstract!Next
    <2>2. CASE Commit
      <3>1. Abstract!Stores
        BY <2>0, <2>2 DEF Commit, Abstract!Stores
      <3> QED BY <3>1 DEF Abstract!Next
    <2>3. CASE StorageAccepts \/ (\E e \in S3Errors : RequestFails(e)) \/ CloseBody
      <3>1. UNCHANGED <<wire, stored>>
        BY <2>3 DEF StorageAccepts, RequestFails, Over, CloseBody
      <3> QED BY <2>0, <3>1, UnseenStepsStutter
    <2> QED BY <1>2, <2>1, <2>2, <2>3 DEF RequestRuns
  <1>3. ASSUME NEW r \in {"Ok", "Failed"}, ProducerReturns(r)
        PROVE  [Abstract!Next]_(Abstract!uploadVars)
    <2>1. /\ producer = "running" /\ producer' = r /\ body_ended
          /\ UNCHANGED <<content_length, body_ended, wire, stored, verdict>>
      BY <1>3 DEF ProducerReturns, writerVars, IInv, WriterInv, PlaceInv
    <2>2. CASE r = "Ok"
      BY <2>1, <2>2 DEF Abstract!uploadVars
    <2>3. CASE r = "Failed"
      <3>1. Abstract!SourceEnds
        BY <2>1, <2>3 DEF Abstract!SourceEnds
      <3> QED BY <3>1 DEF Abstract!Next
    <2> QED BY <2>2, <2>3
  <1>4. CASE ProducerJoined
    <2>1. /\ verdict = "none" /\ verdict' = Settled /\ body_ended
          /\ UNCHANGED <<content_length, body_ended, producer, wire, stored>>
          /\ outcome \in {"Ok"} \cup S3Errors
      BY <1>0, <1>4
      DEF ProducerJoined, writerVars, IInv, CallInv, TypeOK, RequestTypeOK
    <2>2. Settled \in {"Ok", "UploadProducerFailed", "Other"} \cup S3Errors
      BY <2>1 DEF Settled
    <2>3. Settled = "Ok" => stored /\ producer # "Failed"
      BY <2>1, S3ErrorsAssumption DEF Settled, BodyFailed, IInv, CallInv
    <2>4. Settled = "UploadProducerFailed" => producer = "Failed" \/ wire < content_length
      <3> SUFFICES ASSUME BodyIsShort PROVE wire < content_length
        BY <2>1, S3ErrorsAssumption DEF Settled, BodyFailed
      <3> QED
        BY ContentLengthsAssumption
        DEF BodyIsShort, IInv, TypeOK, WriterTypeOK, RequestTypeOK, ChannelInv
    <2>5. Abstract!Justified(Settled)
      BY <2>1, <2>3, <2>4 DEF Abstract!Justified
    <2>6. Abstract!Settles(Settled)
      BY <2>1, <2>5 DEF Abstract!Settles
    <2> QED BY <2>2, <2>6 DEF Abstract!Next
  <1>5. CASE CallRetries
    <2>1. /\ verdict \in S3Errors /\ body_ended /\ body_ended' = FALSE
          /\ producer' = "running" /\ wire' = 0 /\ stored' = FALSE /\ verdict' = "none"
          /\ content_length' = content_length
      BY <1>0, <1>5, RetryableAssumption
      DEF CallRetries, RetryIsDue, WriterRenewed, IInv, CallInv
    <2>2. Abstract!StartsAgain
      BY <2>1 DEF Abstract!StartsAgain
    <2> QED BY <2>2 DEF Abstract!Next
  <1>6. CASE UploadReturns \/ CallReturns \/ CallCancelled \/ UNCHANGED vars
    <2>1. UNCHANGED <<content_length, body_ended, producer, wire, stored, verdict>>
      BY <1>6 DEF UploadReturns, CallReturns, CallCancelled, vars, writerVars
    <2> QED BY <2>1, UnseenStepsStutter
  <1> QED
    BY <1>1, <1>2, <1>3, <1>4, <1>5, <1>6 DEF Next, ProducerWrites, CallRuns, Terminated

(* upload_with_writer, with all its retries, keeps the promises of Upload. *)
THEOREM UploadIsImplemented ==
    ASSUME ~EarlyAnswers
    PROVE  Spec => ImplementsUpload
  <1>1. Init => Abstract!Init
    BY DEF Init, WriterInit, RequestInit, Abstract!Init, Abstract!Fresh
  <1>2. IInv /\ [Next]_vars => [Abstract!Next]_(Abstract!uploadVars)
    BY StepsImplementUpload
  <1> QED BY <1>1, <1>2, InvHolds, PTL DEF Spec, ImplementsUpload, Abstract!Spec
=============================================================================
