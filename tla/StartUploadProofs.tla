-------------------------- MODULE StartUploadProofs ---------------------------
(***************************************************************************)
(* IInv is an invariant of StartUpload for every declared length, chunk     *)
(* size and channel capacity, and what follows from it.                     *)
(***************************************************************************)
EXTENDS StartUpload, UploadStreamedProofs

(* The initial state satisfies the invariant. *)
LEMMA InitEstablishesInv == Init => IInv
  <1> SUFFICES ASSUME Init PROVE IInv
    OBVIOUS
  <1> USE DEF Init, RequestInit
  <1>1. WriterInv /\ ChannelInv
    BY FreshWriterIsSound
  <1>2. RequestTypeOK
    BY DEF RequestTypeOK
  <1>3. TypeOK
    BY <1>1, <1>2 DEF WriterInv, TypeOK, TaskPlaces, TaskResults, HandlePlaces, Verdicts
  <1>4. TaskInv
    BY DEF TaskInv, WriterInit
  <1>5. HandleInv
    BY S3ErrorsAssumption DEF HandleInv
  <1> QED BY <1>1, <1>3, <1>4, <1>5 DEF IInv

-----------------------------------------------------------------------------
(* A step of the writer, with the upload and the handle where they are. *)
LEMMA WriterKeepsIInv ==
    ASSUME IInv, WriterCalled \/ WriterRuns,
           UNCHANGED <<requestVars, taskVars, handleVars>>
    PROVE  IInv'
  <1> USE DEF requestVars, taskVars, handleVars
  <1>1. WriterInv'
    BY WriterCalledKeepsInv, WriterRunsKeepsInv DEF IInv
  <1>2. TypeOK'
    BY <1>1 DEF IInv, TypeOK, RequestTypeOK, WriterInv
  <1>3. ChannelInv'
    BY WriterKeepsChannel DEF IInv, TypeOK
  <1>4. WriterIsGentle
    BY WriterStepsAreGentle DEF IInv
  <1>5. /\ sent \in Nat /\ content_length \in Nat
        /\ upload_ended \in BOOLEAN /\ rx_open \in BOOLEAN /\ body_ended \in BOOLEAN
    BY ContentLengthsAssumption DEF IInv, TypeOK, WriterTypeOK
  <1>6. TaskInv'
    BY <1>4, <1>5 DEF IInv, TaskInv, WriterIsGentle, BodyIsShort
  <1>7. HandleInv'
    BY <1>4, <1>5 DEF IInv, HandleInv, WriterIsGentle, BodyIsShort
  <1> QED BY <1>1, <1>2, <1>3, <1>6, <1>7 DEF IInv

(* A step of the request. *)
LEMMA RequestKeepsIInv ==
    ASSUME IInv, RequestRuns, UNCHANGED <<taskVars, handleVars>>
    PROVE  IInv'
  <1> USE DEF taskVars, handleVars
  <1>1. WriterInv' /\ ChannelInv' /\ RequestTypeOK'
    BY RequestKeepsInv DEF IInv, TypeOK
  <1>2. TypeOK'
    BY <1>1 DEF IInv, TypeOK, WriterInv
  <1>3. UNCHANGED <<content_length, sent, body_ended, upload_ended>>
    BY DEF RequestRuns, Recv, Commit, StorageAccepts, RequestFails, Over, CloseBody,
           WriterKept, content, counters, flags
  <1>4. TaskInv'
    <2>1. /\ request' = "waiting" <=> request = "waiting"
          /\ request' = "sending" => request = "sending"
          /\ request = "waiting" => rx_open' = rx_open
          /\ stored => stored'
          /\ outcome' = "Ok" => outcome = "Ok" \/ EarlyAnswers \/ stored'
          /\ request' = "over" => request = "over" \/ outcome' # "none"
          /\ request = "over" => outcome' = outcome
      BY S3ErrorsAssumption
      DEF RequestRuns, Recv, Commit, StorageAccepts, RequestFails, Over, CloseBody,
          channel, requestVars, IInv, TypeOK, RequestTypeOK
    <2> QED BY <1>3, <2>1 DEF IInv, TaskInv, BodyIsShort
  <1>5. HandleInv'
    BY <1>3 DEF IInv, HandleInv, BodyIsShort
  <1> QED BY <1>1, <1>2, <1>4, <1>5 DEF IInv

-----------------------------------------------------------------------------
(* A step of the upload task. *)
LEMMA TaskKeepsIInv ==
    ASSUME IInv, TaskRuns \/ TaskLost
    PROVE  IInv'
  <1> USE S3ErrorsAssumption, EarlyAnswersAssumption
      DEF requestVars, taskVars, handleVars
  <1>1. CASE TaskReleased
    <2>1. /\ UNCHANGED <<content_length, accepted, sent, upload_ended, body_ended,
                         sender, buffer, pending, chan, rx_open, wpc, op, buf_len, late,
                         taken, ret, reported, request, outcome, wire, stored,
                         result, aborted, hpc, verdict>>
          /\ body_started' = FALSE
          /\ task = "waiting" /\ task' = "released"
      BY <1>1 DEF TaskReleased, content, counters, fields, channel, caller
    <2>2. WriterInv'
      <3>1. WriterTypeOK'
        BY <2>1 DEF IInv, TypeOK, WriterTypeOK
      <3>2. PlaceInv'
        BY <2>1 DEF IInv, WriterInv, PlaceInv
      <3>3. CountInv'
        BY <2>1 DEF IInv, WriterInv, CountInv, AboutToPush
      <3>4. ReportInv'
        BY <2>1 DEF IInv, WriterInv, ReportInv
      <3> QED BY <3>1, <3>2, <3>3, <3>4 DEF WriterInv
    <2>3. ChannelInv'
      <3>1. Chained' = Chained /\ ChannelEnd' = ChannelEnd
        BY <2>1 DEF Chained, ChannelEnd, PieceStart
      <3> QED BY <2>1, <3>1 DEF IInv, ChannelInv, AboutToPush
    <2>4. TypeOK'
      BY <2>1, <2>2 DEF IInv, TypeOK, WriterInv, RequestTypeOK, TaskPlaces
    <2>5. TaskInv'
      BY <2>1 DEF IInv, TaskInv, BodyIsShort
    <2>6. HandleInv'
      BY <2>1 DEF IInv, HandleInv, BodyIsShort
    <2> QED BY <2>2, <2>3, <2>4, <2>5, <2>6 DEF IInv
  <1>2. ASSUME WriterKept, UNCHANGED <<wire, stored, aborted, hpc, verdict>>,
               UNCHANGED channel \/ (rx_open' = FALSE /\ chan' = << >>),
               request' \in {"waiting", "sending", "over"},
               outcome' = outcome, task' \in TaskPlaces, result' \in TaskResults,
               result = "none", TaskInv'
        PROVE  IInv'
    <2>1. WriterInv' /\ ChannelInv'
      BY <1>2, ClosingKeepsInv DEF IInv
    <2>2. TypeOK'
      BY <1>2, <2>1 DEF IInv, TypeOK, WriterInv, RequestTypeOK
    <2>3. /\ hpc \notin {"reading", "measuring", "blaming"}
          /\ verdict = "none"
          /\ hpc # "settled"
      BY <1>2 DEF IInv, HandleInv, TaskInv
    <2>4. HandleInv'
      BY <1>2, <2>3 DEF HandleInv
    <2> QED BY <1>2, <2>1, <2>2, <2>4 DEF IInv
  <1>3. ASSUME NEW r \in TaskResults \ {"none"}, TaskEnds(r), WriterKept,
               UNCHANGED <<aborted, handleVars>>, task # "done",
               request = "waiting" => r \in {"EndedShort", "JoinError"},
               r = "EndedShort" => request = "waiting" /\ body_ended /\ BodyIsShort,
               r = "Ok" => outcome = "Ok"
        PROVE  IInv'
    <2>1. /\ UNCHANGED <<content_length, sent, upload_ended, body_ended>>
          /\ task' = "done" /\ result' = r /\ result = "none"
          /\ UNCHANGED <<outcome, wire, stored, aborted, hpc, verdict>>
      BY <1>3 DEF TaskEnds, WriterKept, content, counters, flags, IInv, TaskInv
    <2>2. UNCHANGED channel \/ (rx_open' = FALSE /\ chan' = << >>)
      BY <1>3 DEF TaskEnds
    <2>3. /\ request' \in {"waiting", "sending", "over"}
          /\ request' = "waiting" <=> request = "waiting"
          /\ request' # "sending"
          /\ request # "waiting" => rx_open' = rx_open
      BY <1>3 DEF TaskEnds, channel, IInv, TypeOK, RequestTypeOK
    <2>4. TaskInv'
      BY <1>3, <2>1, <2>3 DEF IInv, TaskInv, BodyIsShort
    <2> QED BY <1>2, <1>3, <2>1, <2>2, <2>3, <2>4 DEF TaskPlaces
  <1>4. ASSUME TaskUploads, WriterKept, UNCHANGED <<aborted, handleVars>>,
               task \in {"released", "measuring"}
        PROVE  IInv'
    <2>1. /\ UNCHANGED <<content_length, sent, upload_ended, body_ended>>
          /\ UNCHANGED channel
          /\ request' = "sending" /\ task' = "uploading"
          /\ UNCHANGED <<outcome, wire, stored, result, aborted, hpc, verdict>>
          /\ result = "none"
      BY <1>4 DEF TaskUploads, StartRequest, WriterKept, content, counters, flags, IInv,
                  TaskInv
    <2>2. TaskInv'
      BY <2>1 DEF IInv, TaskInv, BodyIsShort, channel
    <2> QED BY <1>2, <1>4, <2>1, <2>2 DEF TaskPlaces, TaskResults
  <1>5. CASE TaskReadsBodyEnded
    <2>1. CASE body_ended
      <3>1. /\ UNCHANGED <<content_length, sent, upload_ended, body_ended>>
            /\ UNCHANGED channel
            /\ task = "released" /\ task' = "measuring"
            /\ UNCHANGED <<request, outcome, wire, stored, result, aborted, hpc, verdict>>
            /\ result = "none"
            /\ WriterKept
        BY <1>5, <2>1 DEF TaskReadsBodyEnded, WriterKept, content, counters, flags, IInv,
                          TaskInv
      <3>2. TaskInv'
        BY <2>1, <3>1 DEF IInv, TaskInv, BodyIsShort, channel
      <3>3. request' \in {"waiting", "sending", "over"}
        BY <3>1 DEF IInv, TypeOK, RequestTypeOK
      <3> QED BY <1>2, <3>1, <3>2, <3>3 DEF TaskPlaces, TaskResults
    <2>2. CASE ~body_ended
      BY <1>4, <1>5, <2>2 DEF TaskReadsBodyEnded
    <2> QED BY <2>1, <2>2
  <1>6. CASE TaskMeasures
    <2>1. CASE BodyIsShort
      <3>1. "EndedShort" \in TaskResults \ {"none"}
        BY DEF TaskResults
      <3>2. request = "waiting" /\ body_ended
        BY <1>6 DEF TaskMeasures, IInv, TaskInv
      <3> QED BY <1>3, <1>6, <2>1, <3>1, <3>2 DEF TaskMeasures
    <2>2. CASE ~BodyIsShort
      BY <1>4, <1>6, <2>2 DEF TaskMeasures
    <2> QED BY <2>1, <2>2
  <1>7. CASE TaskReturns
    <2>1. outcome \in TaskResults \ {"none"} /\ outcome # "EndedShort"
      BY <1>7 DEF TaskReturns, IInv, TypeOK, TaskInv, RequestTypeOK, TaskResults
    <2> QED BY <1>3, <1>7, <2>1 DEF TaskReturns
  <1>8. ASSUME TaskEnds("JoinError"), WriterKept, UNCHANGED <<aborted, handleVars>>,
               task \in {"waiting", "uploading"}
        PROVE  IInv'
    <2>1. "JoinError" \in TaskResults \ {"none"}
      BY DEF TaskResults
    <2> QED BY <1>3, <1>8, <2>1
  <1>9. CASE TaskCancelled
    BY <1>8, <1>9 DEF TaskCancelled
  <1>10. CASE TaskLost
    BY <1>8, <1>10 DEF TaskLost
  <1> QED BY <1>1, <1>5, <1>6, <1>7, <1>9, <1>10 DEF TaskRuns

(* A step of finish, or of the drop of the handle. *)
LEMMA HandleKeepsIInv ==
    ASSUME IInv, FinishCalled \/ HandleDropped \/ HandleRuns
    PROVE  IInv'
  <1> USE S3ErrorsAssumption, ContentLengthsAssumption
      DEF requestVars, taskVars, handleVars
  <1>1. CASE DropMarks
    <2>1. /\ UNCHANGED <<content_length, accepted, sent, body_ended, body_started,
                         sender, buffer, pending, chan, rx_open, wpc, op, buf_len, late,
                         taken, ret, reported, request, outcome, wire, stored,
                         task, result, aborted, verdict>>
          /\ upload_ended' = TRUE
          /\ hpc = "marking" /\ hpc' = "aborting"
      BY <1>1 DEF DropMarks, HandleGoes, content, counters, fields, channel, caller
    <2>2. WriterInv'
      <3>1. WriterTypeOK'
        BY <2>1 DEF IInv, TypeOK, WriterTypeOK
      <3>2. PlaceInv'
        BY <2>1 DEF IInv, WriterInv, PlaceInv
      <3>3. CountInv'
        BY <2>1 DEF IInv, WriterInv, CountInv, AboutToPush
      <3>4. ReportInv'
        BY <2>1 DEF IInv, WriterInv, ReportInv
      <3> QED BY <3>1, <3>2, <3>3, <3>4 DEF WriterInv
    <2>3. ChannelInv'
      <3>1. Chained' = Chained /\ ChannelEnd' = ChannelEnd
        BY <2>1 DEF Chained, ChannelEnd, PieceStart
      <3> QED BY <2>1, <3>1 DEF IInv, ChannelInv, AboutToPush
    <2>4. TypeOK'
      BY <2>1, <2>2 DEF IInv, TypeOK, WriterInv, RequestTypeOK, HandlePlaces
    <2>5. TaskInv'
      BY <2>1 DEF IInv, TaskInv, BodyIsShort
    <2>6. HandleInv'
      BY <2>1 DEF IInv, HandleInv, BodyIsShort
    <2> QED BY <2>2, <2>3, <2>4, <2>5, <2>6 DEF IInv
  <1>2. ASSUME UNCHANGED <<writerVars, requestVars, task, result>>,
               aborted' \in BOOLEAN, hpc' \in HandlePlaces, verdict' \in Verdicts,
               hpc \notin {"aborting", "dropped"} \/ hpc' = "dropped",
               HandleInv'
        PROVE  IInv'
    <2>1. /\ UNCHANGED <<content_length, sent, upload_ended, body_ended, rx_open,
                         request, outcome, wire, stored, task, result>>
          /\ WriterKept /\ UNCHANGED channel
      BY <1>2 DEF writerVars, WriterKept, content, counters, flags, fields, channel, caller
    <2>2. WriterInv' /\ ChannelInv'
      BY <2>1, ClosingKeepsInv DEF IInv
    <2>3. TypeOK'
      BY <1>2, <2>1, <2>2 DEF IInv, TypeOK, WriterInv, RequestTypeOK
    <2>4. TaskInv'
      BY <1>2, <2>1 DEF IInv, TaskInv, BodyIsShort
    <2> QED BY <1>2, <2>2, <2>3, <2>4 DEF IInv
  <1>3. ASSUME OnlyReads, HandleGoes(hpc'), hpc' \in HandlePlaces,
               hpc \notin {"aborting", "dropped"}, HandleInv'
        PROVE  IInv'
    BY <1>2, <1>3 DEF OnlyReads, HandleGoes, IInv, TypeOK
  <1>4. ASSUME OnlyReads, hpc' = "settled", verdict' \in Verdicts,
               hpc \notin {"aborting", "dropped"}, HandleInv'
        PROVE  IInv'
    BY <1>2, <1>4 DEF OnlyReads, HandlePlaces, IInv, TypeOK
  <1>5. OnlyReads => UNCHANGED <<content_length, sent, upload_ended, body_ended, stored,
                                 task, result>>
    BY DEF OnlyReads, writerVars
  <1>6. /\ sent \in Nat /\ content_length \in Nat /\ sent <= content_length
        /\ stored => ~BodyIsShort
        /\ result \in TaskResults
        /\ result = "Ok" => EarlyAnswers \/ stored
        /\ task = "done" => result # "none"
        /\ result = "EndedShort" => body_ended /\ BodyIsShort
        /\ result = "EndedShort" => request = "waiting"
        /\ upload_ended => \/ hpc \in {"aborting", "dropped"}
                           \/ request # "waiting"
                           \/ result = "JoinError"
    BY DEF IInv, TypeOK, WriterTypeOK, WriterInv, CountInv, ChannelInv, TaskInv, BodyIsShort
  <1>7. CASE FinishCalled
    <2>1. HandleInv'
      BY <1>5, <1>7 DEF FinishCalled, HandleGoes, IInv, HandleInv, BodyIsShort
    <2> QED BY <1>3, <1>7, <2>1 DEF FinishCalled, HandleGoes, HandlePlaces
  <1>8. CASE HandleDropped
    <2>1. HandleInv'
      BY <1>5, <1>8 DEF HandleDropped, HandleGoes, IInv, HandleInv, BodyIsShort
    <2> QED BY <1>3, <1>8, <2>1 DEF HandleDropped, HandleGoes, HandlePlaces
  <1>9. CASE FinishJoins
    <2>1. CASE result = "JoinError"
      <3>1. HandleInv'
        BY <1>5, <1>9, <2>1 DEF FinishJoins, Verdict, IInv, HandleInv, BodyIsShort
      <3> QED BY <1>4, <1>9, <2>1, <3>1 DEF FinishJoins, Verdict, Verdicts
    <2>2. CASE result # "JoinError"
      <3>1. HandleInv'
        BY <1>5, <1>6, <1>9, <2>2
        DEF FinishJoins, HandleGoes, IInv, HandleInv, BodyIsShort
      <3> QED BY <1>3, <1>9, <2>2, <3>1 DEF FinishJoins, HandleGoes, HandlePlaces
    <2> QED BY <2>1, <2>2
  <1>10. CASE FinishReadsBodyEnded
    <2>0. hpc = "reading" /\ result \notin {"none", "JoinError"}
      BY <1>10 DEF FinishReadsBodyEnded, IInv, HandleInv
    <2>1. CASE result = "Ok" \/ body_ended
      <3>1. HandleInv'
        BY <1>5, <1>10, <2>0, <2>1
        DEF FinishReadsBodyEnded, HandleGoes, IInv, HandleInv, BodyIsShort
      <3> QED BY <1>3, <1>10, <2>1, <3>1 DEF FinishReadsBodyEnded, HandleGoes, HandlePlaces
    <2>2. CASE ~(result = "Ok" \/ body_ended)
      <3>1. result \in S3Errors
        BY <1>6, <2>0, <2>2 DEF TaskResults
      <3>2. HandleInv'
        BY <1>5, <1>10, <2>0, <2>2, <3>1
        DEF FinishReadsBodyEnded, Verdict, IInv, HandleInv, BodyIsShort
      <3> QED BY <1>4, <1>10, <2>2, <3>1, <3>2 DEF FinishReadsBodyEnded, Verdict, Verdicts
    <2> QED BY <2>1, <2>2
  <1>11. CASE FinishMeasures
    <2>0. /\ hpc = "measuring" /\ result \notin {"none", "JoinError"}
          /\ result = "Ok" \/ body_ended
          /\ verdict = "none"
      BY <1>11 DEF FinishMeasures, IInv, HandleInv
    <2>1. CASE ~BodyIsShort
      <3>1. result \in S3Errors \cup {"Ok"} /\ sent = content_length
        BY <1>6, <2>0, <2>1 DEF TaskResults, BodyIsShort
      <3>2. hpc' = "settled" /\ verdict' = result /\ OnlyReads
        BY <1>11, <2>1 DEF FinishMeasures, Verdict
      <3>3. HandleInv'
        BY <1>5, <2>0, <3>1, <3>2 DEF HandleInv, BodyIsShort
      <3> QED BY <1>4, <2>0, <3>1, <3>2, <3>3 DEF Verdicts
    <2>2. CASE BodyIsShort /\ result = "Ok"
      <3>1. hpc' = "settled" /\ verdict' = "UploadProducerFailed" /\ OnlyReads
        BY <1>11, <2>2 DEF FinishMeasures, Verdict
      <3>2. EarlyAnswers
        BY <1>6, <2>2
      <3>3. HandleInv'
        BY <1>5, <2>0, <2>2, <3>1, <3>2 DEF HandleInv, BodyIsShort
      <3> QED BY <1>4, <2>0, <3>1, <3>3 DEF Verdicts
    <2>3. CASE BodyIsShort /\ result # "Ok"
      <3>1. hpc' = "blaming" /\ verdict' = verdict /\ OnlyReads
        BY <1>11, <2>3 DEF FinishMeasures, HandleGoes
      <3>2. HandleInv'
        BY <1>5, <2>0, <2>3, <3>1 DEF HandleInv, BodyIsShort
      <3> QED BY <1>3, <2>0, <3>1, <3>2 DEF HandleGoes, HandlePlaces
    <2> QED BY <2>1, <2>2, <2>3
  <1>12. CASE FinishBlames
    <2>0. /\ hpc = "blaming" /\ result \notin {"none", "JoinError", "Ok"}
          /\ body_ended /\ BodyIsShort
          /\ hpc' = "settled"
          /\ verdict' = IF upload_ended THEN result ELSE "UploadProducerFailed"
          /\ OnlyReads
      BY <1>12 DEF FinishBlames, Verdict, IInv, HandleInv
    <2>1. upload_ended => result \in S3Errors
      BY <1>6, <2>0 DEF TaskResults
    <2>2. HandleInv'
      BY <1>5, <2>0, <2>1 DEF HandleInv, BodyIsShort
    <2> QED BY <1>4, <2>0, <2>1, <2>2 DEF Verdicts
  <1>13. CASE DropChecks
    <2>1. HandleInv'
      BY <1>5, <1>13 DEF DropChecks, HandleGoes, IInv, HandleInv, BodyIsShort
    <2> QED BY <1>3, <1>13, <2>1 DEF DropChecks, HandleGoes, HandlePlaces
  <1>14. CASE DropAborts
    <2>1. /\ hpc' = "dropped" /\ verdict' = verdict /\ aborted' \in BOOLEAN
          /\ UNCHANGED <<writerVars, requestVars, task, result>>
          /\ verdict = "none"
      BY <1>14 DEF DropAborts, HandleGoes, IInv, HandleInv
    <2>2. HandleInv'
      BY <2>1 DEF HandleInv
    <2> QED BY <1>2, <2>1, <2>2 DEF HandlePlaces, Verdicts
  <1> QED
    BY <1>1, <1>7, <1>8, <1>9, <1>10, <1>11, <1>12, <1>13, <1>14 DEF HandleRuns

(* Every step keeps the invariant. *)
LEMMA StepKeepsIInv == IInv /\ [Next]_vars => IInv'
  <1> SUFFICES ASSUME IInv, [Next]_vars PROVE IInv'
    OBVIOUS
  <1>1. CASE UNCHANGED vars
    <2>1. /\ WriterKept /\ UNCHANGED channel
          /\ UNCHANGED <<content_length, sent, upload_ended, body_ended, rx_open,
                         request, outcome, wire, stored,
                         task, result, aborted, hpc, verdict>>
      BY <1>1 DEF vars, WriterKept, content, counters, flags, fields, channel, caller
    <2>2. WriterInv' /\ ChannelInv'
      BY <2>1, ClosingKeepsInv DEF IInv
    <2>3. TypeOK'
      BY <2>1, <2>2 DEF IInv, TypeOK, WriterInv, RequestTypeOK
    <2>4. TaskInv'
      BY <2>1 DEF IInv, TaskInv, BodyIsShort
    <2>5. HandleInv'
      BY <2>1 DEF IInv, HandleInv, BodyIsShort
    <2> QED BY <2>2, <2>3, <2>4, <2>5 DEF IInv
  <1> QED
    BY <1>1, WriterKeepsIInv, RequestKeepsIInv, TaskKeepsIInv, HandleKeepsIInv
    DEF Next, Terminated

(* IInv holds in every reachable state, for every choice of the constants.    *)
THEOREM InvHolds == Spec => []IInv
  BY InitEstablishesInv, StepKeepsIInv, PTL DEF Spec

(* Every variable keeps to its type. *)
THEOREM TypeCorrect == Spec => []TypeOK
  <1>1. IInv => TypeOK
    BY DEF IInv
  <1> QED BY <1>1, InvHolds, PTL

-----------------------------------------------------------------------------
(* The theorems about the body *)

(* What start_send hands to the channel reaches the wire without a hole, a    *)
(* repetition or a byte out of place.                                        *)
THEOREM ContiguousBody == Spec => []BodyIsContiguous
  <1>1. IInv => BodyIsContiguous
    BY InvMakesContiguous DEF IInv
  <1> QED BY <1>1, InvHolds, PTL

(* No byte is on the wire that sent does not include, and none is accepted    *)
(* past Content-Length.                                                      *)
THEOREM CountedBody == Spec => []NothingUncounted
  <1>1. IInv => NothingUncounted
    BY ContentLengthsAssumption
    DEF IInv, TypeOK, WriterTypeOK, RequestTypeOK, WriterInv, CountInv, ChannelInv,
        NothingUncounted
  <1> QED BY <1>1, InvHolds, PTL

(* No step changes sent once body_ended is recorded. *)
THEOREM FinalCount == Spec => SentIsFinal
  <1>1. IInv /\ [Next]_vars => [body_ended => sent' = sent]_streamedVars
    <2> SUFFICES ASSUME IInv, [Next]_vars, body_ended PROVE sent' = sent
      OBVIOUS
    <2>1. CASE WriterCalled \/ WriterRuns
      BY <2>1, WriterStepsAreGentle DEF IInv, WriterIsGentle
    <2>2. CASE RequestRuns
      BY <2>2 DEF RequestRuns, Recv, Commit, StorageAccepts, RequestFails, Over,
                  CloseBody, WriterKept, counters
    <2>3. CASE TaskRuns \/ TaskLost
      BY <2>3 DEF TaskRuns, TaskLost, TaskReleased, TaskReadsBodyEnded, TaskMeasures,
                  TaskReturns, TaskCancelled, WriterKept, counters
    <2>4. CASE FinishCalled \/ HandleDropped \/ HandleRuns
      BY <2>4 DEF FinishCalled, HandleDropped, HandleRuns, FinishJoins,
                  FinishReadsBodyEnded, FinishMeasures, FinishBlames, DropChecks,
                  DropMarks, DropAborts, OnlyReads, writerVars, counters
    <2>5. CASE UNCHANGED vars
      BY <2>5 DEF vars
    <2> QED BY <2>1, <2>2, <2>3, <2>4, <2>5 DEF Next, Terminated
  <1> QED BY <1>1, InvHolds, PTL DEF Spec, SentIsFinal

(* A shutdown that was not refused has handed over everything. *)
THEOREM CompleteShutdown == Spec => []NothingLeftBehind
  <1>1. IInv => NothingLeftBehind
    BY DEF IInv, WriterInv, PlaceInv, CountInv, NothingLeftBehind
  <1> QED BY <1>1, InvHolds, PTL

(* The caller and the writer agree on how much was written. *)
THEOREM HonestWrites == Spec => []CallerKnowsWhatWasTaken
  <1>1. IInv => CallerKnowsWhatWasTaken
    BY DEF IInv, TypeOK, WriterTypeOK, WriterInv, ReportInv, CallerKnowsWhatWasTaken
  <1> QED BY <1>1, InvHolds, PTL

(* A call made after the upload was recorded as ended does not succeed. *)
THEOREM NoLateSuccess == Spec => []LateCallsFail
  <1>1. IInv => LateCallsFail
    BY DEF IInv, WriterInv, ReportInv, LateCallsFail
  <1> QED BY <1>1, InvHolds, PTL

-----------------------------------------------------------------------------
(* The theorems about what finish says *)

(* Ok from finish means the whole body was counted and the object stored. *)
THEOREM OkIsProof == Spec => []OkMeansStored
  <1>1. IInv => OkMeansStored
    BY DEF IInv, TaskInv, HandleInv, OkMeansStored
  <1> QED BY <1>1, InvHolds, PTL

(* A stored object is never reported as a short body. *)
THEOREM NoFalseShortBody == Spec => []StoredIsNeverShort
  <1>1. IInv => StoredIsNeverShort
    BY DEF IInv, HandleInv, StoredIsNeverShort
  <1> QED BY <1>1, InvHolds, PTL

(* A writer that is blamed did end its body short. *)
THEOREM DeservedBlame == Spec => []BlameIsDeserved
  <1>1. IInv => BlameIsDeserved
    BY DEF IInv, HandleInv, BlameIsDeserved
  <1> QED BY <1>1, InvHolds, PTL

(* The task's own report of a short body is never what finish returns. *)
THEOREM NoLocalError == Spec => []LocalErrorNeverSurfaces
  <1>1. IInv => LocalErrorNeverSurfaces
    BY DEF IInv, HandleInv, LocalErrorNeverSurfaces
  <1> QED BY <1>1, InvHolds, PTL

(* No verdict on a body that was abandoned puts it down to the storage. *)
THEOREM AbandonmentIsBlamed == Spec => AbandonedBodyIsBlamed
  <1> DEFINE Judged == (verdict' # verdict /\ ~sender /\ BodyIsShort /\ ~upload_ended)
                         => verdict' \in {"Other", "UploadProducerFailed"}
  <1>1. IInv /\ [Next]_vars => [Judged]_vars
    <2> SUFFICES ASSUME IInv, [Next]_vars, verdict' # verdict, ~sender, BodyIsShort,
                        ~upload_ended
                 PROVE  verdict' \in {"Other", "UploadProducerFailed"}
      OBVIOUS
    <2>1. body_ended /\ (result = "Ok" => EarlyAnswers \/ stored)
      BY DEF IInv, WriterInv, PlaceInv, TaskInv
    <2>2. FinishJoins \/ FinishReadsBodyEnded \/ FinishMeasures \/ FinishBlames
      BY DEF Next, vars, Terminated, RequestRuns, TaskRuns, TaskLost, TaskReleased,
             TaskReadsBodyEnded, TaskMeasures, TaskReturns, TaskCancelled, FinishCalled,
             HandleDropped, HandleRuns, HandleGoes, DropChecks, DropMarks, DropAborts,
             handleVars
    <2> QED
      BY <2>1, <2>2
      DEF FinishJoins, FinishReadsBodyEnded, FinishMeasures, FinishBlames, Verdict,
          HandleGoes
  <1> QED BY <1>1, InvHolds, PTL DEF Spec, AbandonedBodyIsBlamed
-----------------------------------------------------------------------------
(* The refinement of Upload *)

(* A step that leaves what Upload sees alone is a stutter there. *)
LEMMA UnseenStepsStutter ==
    ASSUME UNCHANGED <<content_length, body_ended, wire, stored, verdict>>
    PROVE  UNCHANGED Abstract!uploadVars
  BY DEF Abstract!uploadVars

(* Every step of the writer, the request, the task and the handle is a step   *)
(* of Upload or leaves it alone, when the storage answers for what it has.    *)
LEMMA StepsImplementUpload ==
    ASSUME ~EarlyAnswers, IInv, [Next]_vars
    PROVE  [Abstract!Next]_(Abstract!uploadVars)
  <1> USE DEF requestVars, taskVars, handleVars
  <1>1. CASE (WriterCalled \/ WriterRuns) /\ UNCHANGED <<requestVars, taskVars, handleVars>>
    <2>1. WriterIsGentle
      BY <1>1, WriterStepsAreGentle DEF IInv
    <2>2. CASE MarkBodyEnded
      <3>1. ~body_ended /\ body_ended' = TRUE
        BY <2>2 DEF MarkBodyEnded, IInv, WriterInv, PlaceInv, Ending
      <3>2. Abstract!SourceEnds
        BY <1>1, <2>1, <3>1 DEF Abstract!SourceEnds, WriterIsGentle
      <3> QED BY <3>2 DEF Abstract!Next
    <2>3. CASE ~MarkBodyEnded
      <3>1. body_ended' = body_ended
        BY <1>1, <2>3, CallTouchesOnlyTheCall
        DEF WriterRuns, ReserveFails, ReserveWaits, ReserveSucceeds, CountChunk, PushChunk,
            UploadIsGone, WriteReturnsEarly, WriteAccepts, FlushRefused,
            FlushFindsNothing, FlushSends, AnnounceBodyEnded, HangUp, flags, IInv
      <3> QED BY <1>1, <2>1, <3>1, UnseenStepsStutter DEF WriterIsGentle
    <2> QED BY <2>2, <2>3
  <1>2. CASE RequestRuns /\ UNCHANGED <<taskVars, handleVars>>
    <2>0. UNCHANGED <<content_length, body_ended, verdict>>
      BY <1>2
      DEF RequestRuns, Recv, Commit, StorageAccepts, RequestFails, Over, CloseBody,
          WriterKept, content, flags
    <2>1. CASE Recv
      <3>1. verdict = "none" /\ rx_open /\ stored' = stored
        BY <2>1 DEF Recv, IInv, TypeOK, WriterTypeOK, TaskInv, HandleInv, ChannelInv
      <3>2. wire' \in Nat /\ wire < wire' /\ wire' <= ChannelEnd
        BY <2>1, <3>1, RecvKeepsChain DEF IInv, TypeOK, ChannelInv
      <3>3. /\ ChannelEnd \in Nat /\ content_length \in Nat /\ wire \in Nat
            /\ ChannelEnd <= content_length
        BY <3>1, ContentLengthsAssumption
        DEF IInv, TypeOK, WriterTypeOK, RequestTypeOK, WriterInv, CountInv, PlaceInv,
            ChannelInv, AboutToPush, Sending, Chunk
      <3>4. wire' \in wire + 1 .. content_length
        BY <3>2, <3>3
      <3>5. Abstract!Arrives
        BY <2>0, <3>1, <3>4 DEF Abstract!Arrives
      <3> QED BY <3>5 DEF Abstract!Next
    <2>2. CASE Commit
      <3>1. Abstract!Stores
        BY <2>0, <2>2 DEF Commit, Abstract!Stores
      <3> QED BY <3>1 DEF Abstract!Next
    <2>3. CASE StorageAccepts \/ (\E e \in S3Errors : RequestFails(e)) \/ CloseBody
      <3>1. UNCHANGED <<wire, stored>>
        BY <2>3 DEF StorageAccepts, RequestFails, Over, CloseBody
      <3> QED BY <2>0, <3>1, UnseenStepsStutter
    <2> QED BY <1>2, <2>1, <2>2, <2>3 DEF RequestRuns
  <1>3. CASE TaskRuns \/ TaskLost
    <2>1. UNCHANGED <<content_length, body_ended, wire, stored, verdict>>
      BY <1>3
      DEF TaskRuns, TaskLost, TaskReleased, TaskReadsBodyEnded, TaskMeasures, TaskReturns,
          TaskCancelled, TaskUploads, TaskEnds, StartRequest, WriterKept, content, flags
    <2> QED BY <2>1, UnseenStepsStutter
  <1>4. CASE FinishCalled \/ HandleDropped \/ HandleRuns
    <2>0. UNCHANGED <<content_length, body_ended, wire, stored>>
      BY <1>4
      DEF FinishCalled, HandleDropped, HandleRuns, FinishJoins, FinishReadsBodyEnded,
          FinishMeasures, FinishBlames, DropChecks, DropMarks, DropAborts, OnlyReads,
          writerVars, content
    <2>1. CASE verdict' = verdict
      BY <2>0, <2>1, UnseenStepsStutter
    <2>2. CASE verdict' # verdict
      <3>1. IInv'
        BY <1>4, HandleKeepsIInv
      <3>2. /\ verdict = "none" /\ hpc' = "settled"
            /\ UNCHANGED <<result, sent, upload_ended>>
        BY <1>4, <2>2
        DEF FinishCalled, HandleDropped, HandleRuns, FinishJoins, FinishReadsBodyEnded,
            FinishMeasures, FinishBlames, DropChecks, DropMarks, DropAborts, OnlyReads,
            HandleGoes, Verdict, writerVars, IInv, HandleInv
      <3>3. verdict' # "none"
        BY <2>2, <3>2
      <3>4. verdict' \in {"Ok", "UploadProducerFailed", "Other"} \cup S3Errors
        BY <3>1, <3>3 DEF IInv, TypeOK, HandleInv, Verdicts
      <3>5. verdict' = "Ok" => stored
        BY <2>0, <3>1 DEF IInv, HandleInv, TaskInv
      <3>6. verdict' = "UploadProducerFailed" => body_ended /\ wire < content_length
        <4> SUFFICES ASSUME verdict' = "UploadProducerFailed"
                     PROVE  body_ended /\ wire < content_length
          OBVIOUS
        <4>1. result' # "Ok"
          BY <3>1, <3>2 DEF IInv, HandleInv
        <4>2. body_ended /\ sent < content_length
          BY <2>0, <3>1, <3>2, <4>1 DEF IInv, HandleInv, BodyIsShort
        <4> QED
          BY <4>2, ContentLengthsAssumption
          DEF IInv, TypeOK, WriterTypeOK, RequestTypeOK, ChannelInv
      <3>7. Abstract!Justified(verdict')
        BY <3>5, <3>6 DEF Abstract!Justified
      <3>8. Abstract!Settles(verdict')
        BY <2>0, <3>2, <3>7 DEF Abstract!Settles
      <3> QED BY <3>4, <3>8 DEF Abstract!Next
    <2> QED BY <2>1, <2>2
  <1>5. CASE UNCHANGED vars
    BY <1>5, UnseenStepsStutter DEF vars
  <1> QED BY <1>1, <1>2, <1>3, <1>4, <1>5 DEF Next, Terminated

(* The writer, the channel, the task and the handle of start_upload keep the  *)
(* promises of Upload: with a storage that answers for what it has, finish    *)
(* says Ok only of a stored object, and blames only a source that ended short.*)
THEOREM UploadIsImplemented ==
    ASSUME ~EarlyAnswers
    PROVE  Spec => ImplementsUpload
  <1>1. Init => Abstract!Init
    BY DEF Init, WriterInit, RequestInit, Abstract!Init, Abstract!Fresh
  <1>2. IInv /\ [Next]_vars => [Abstract!Next]_(Abstract!uploadVars)
    BY StepsImplementUpload
  <1> QED BY <1>1, <1>2, InvHolds, PTL DEF Spec, ImplementsUpload, Abstract!Spec
=============================================================================
