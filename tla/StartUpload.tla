------------------------------ MODULE StartUpload -----------------------------
(***************************************************************************)
(* S3Client::start_upload (src/src/s3_client.rs) and S3UploadHandle         *)
(* (src/src/upload_handle.rs): a writer in the hands of one task, the       *)
(* upload on a task of its own, and the handle in the hands of a third.     *)
(*                                                                          *)
(* task:  waiting     body_started().await                                  *)
(*        released    about to read body_ended                              *)
(*        measuring   the body has ended, about to read sent                *)
(*        uploading   inside upload_streamed                                *)
(*        done        finished; result is what a join of it yields          *)
(* hpc:   held, then either joining, reading, measuring, blaming, settled   *)
(*        (finish) or dropping, marking, aborting, dropped (Drop)           *)
(***************************************************************************)
EXTENDS UploadStreamed

VARIABLES
    task,    \* where the upload task is
    result,  \* what it finished with
    aborted, \* JoinHandle::abort was called
    hpc,     \* where the owner of the handle is
    verdict  \* what finish returned

taskVars == <<task, result, aborted>>
handleVars == <<hpc, verdict>>
vars == <<content_length, accepted, sent, upload_ended, body_ended,
          body_started, sender, buffer, pending, chan, rx_open,
          wpc, op, buf_len, late, taken, ret, reported,
          request, outcome, wire, stored,
          task, result, aborted, hpc, verdict>>

TaskPlaces == {"waiting", "released", "measuring", "uploading", "done"}
HandlePlaces == {"held", "joining", "reading", "measuring", "blaming",
                 "settled", "dropping", "marking", "aborting", "dropped"}
TaskResults == {"none", "Ok", "EndedShort", "JoinError"} \cup S3Errors
Verdicts == {"none", "Ok", "EndedShort", "Other", "UploadProducerFailed"}
            \cup S3Errors

Init ==
    /\ WriterInit
    /\ RequestInit("waiting")
    /\ task = "waiting"
    /\ result = "none"
    /\ aborted = FALSE
    /\ hpc = "held"
    /\ verdict = "none"

-----------------------------------------------------------------------------
(* The upload task                                                          *)

(* body_started().await takes the permit *)
TaskReleased ==
    /\ task = "waiting"
    /\ body_started
    /\ body_started' = FALSE
    /\ task' = "released"
    /\ UNCHANGED <<content, counters, upload_ended, body_ended, fields, channel,
                   caller, requestVars, result, aborted, handleVars>>

(* The task enters upload_streamed *)
TaskUploads ==
    /\ StartRequest
    /\ task' = "uploading"
    /\ UNCHANGED <<channel, result>>

(* The task is over, with r, and what it captured is dropped: the Receiver   *)
(* at once unless the HTTP client has it.                                    *)
TaskEnds(r) ==
    /\ task' = "done"
    /\ result' = r
    /\ IF request = "waiting"
       THEN /\ rx_open' = FALSE
            /\ chan' = << >>
            /\ UNCHANGED request
       ELSE /\ request' = "over"
            /\ UNCHANGED channel
    /\ UNCHANGED <<outcome, wire, stored>>

(* if task_state.body_ended() && ... *)
TaskReadsBodyEnded ==
    /\ task = "released"
    /\ IF body_ended
       THEN task' = "measuring" /\ UNCHANGED <<channel, result, requestVars>>
       ELSE TaskUploads
    /\ WriterKept
    /\ UNCHANGED <<aborted, handleVars>>

(* ... task_state.short_body_error().is_some() *)
TaskMeasures ==
    /\ task = "measuring"
    /\ IF BodyIsShort THEN TaskEnds("EndedShort") ELSE TaskUploads
    /\ WriterKept
    /\ UNCHANGED <<aborted, handleVars>>

(* Variant of TaskReturns, deliberately wrong: the task waits for the end of   *)
(* the body before it reports.                                               *)
TaskReturnsAfterTheBody ==
    /\ task = "uploading"
    /\ request = "over"
    /\ body_ended
    /\ TaskEnds(outcome)
    /\ WriterKept
    /\ UNCHANGED <<aborted, handleVars>>

(* upload_streamed returned *)
TaskReturns ==
    /\ task = "uploading"
    /\ request = "over"
    /\ TaskEnds(outcome)
    /\ WriterKept
    /\ UNCHANGED <<aborted, handleVars>>

(* The runtime takes an aborted task down at one of its awaits. *)
TaskCancelled ==
    /\ aborted
    /\ task \in {"waiting", "uploading"}
    /\ TaskEnds("JoinError")
    /\ WriterKept
    /\ UNCHANGED <<aborted, handleVars>>

(* It panics inside the HTTP client, or its runtime shuts down under it. *)
TaskLost ==
    /\ task \in {"waiting", "uploading"}
    /\ TaskEnds("JoinError")
    /\ WriterKept
    /\ UNCHANGED <<aborted, handleVars>>

-----------------------------------------------------------------------------
(* The handle                                                               *)

HandleGoes(p) == hpc' = p /\ UNCHANGED verdict

Verdict(v) == hpc' = "settled" /\ verdict' = v

(* What a step of the handle leaves alone when it only reads *)
OnlyReads == UNCHANGED <<writerVars, requestVars, taskVars>>

FinishCalled == hpc = "held" /\ HandleGoes("joining") /\ OnlyReads

(* Variant of FinishJoins, deliberately wrong: a JoinError is handed on. *)
FinishPassesJoinError ==
    /\ hpc = "joining"
    /\ task = "done"
    /\ IF result = "JoinError" THEN Verdict(result) ELSE HandleGoes("reading")
    /\ OnlyReads

(* Variant of FinishJoins, deliberately wrong: a JoinError is swallowed. *)
FinishSwallowsJoinError ==
    /\ hpc = "joining"
    /\ task = "done"
    /\ IF result = "JoinError" THEN Verdict("Ok") ELSE HandleGoes("reading")
    /\ OnlyReads

(* The join resolves.  A task that did not finish is judged at once. *)
FinishJoins ==
    /\ hpc = "joining"
    /\ task = "done"
    /\ IF result = "JoinError" THEN Verdict("Other") ELSE HandleGoes("reading")
    /\ OnlyReads

(* (Err, false): the writer is alive, and the upload's error is the reason.  *)
(* In the other cases the length of the body is looked at.                   *)
FinishReadsBodyEnded ==
    /\ hpc = "reading"
    /\ IF result = "Ok" \/ body_ended
       THEN HandleGoes("measuring")
       ELSE Verdict(result)
    /\ OnlyReads

(* Variant of FinishMeasures, deliberately wrong: a failed upload is always   *)
(* its own explanation.                                                      *)
FinishTrustsTheUpload ==
    /\ hpc = "measuring"
    /\ Verdict(IF BodyIsShort /\ result = "Ok" THEN "UploadProducerFailed" ELSE result)
    /\ OnlyReads

(* short_body_error, and the arms of settle that it decides *)
FinishMeasures ==
    /\ hpc = "measuring"
    /\ CASE ~BodyIsShort -> Verdict(result)
         [] BodyIsShort /\ result = "Ok" -> Verdict("UploadProducerFailed")
         [] OTHER -> HandleGoes("blaming")
    /\ OnlyReads

(* Variant of FinishBlames, deliberately wrong: a short body is always put    *)
(* down to the writer.                                                       *)
FinishAlwaysBlames ==
    /\ hpc = "blaming"
    /\ Verdict("UploadProducerFailed")
    /\ OnlyReads

(* settle, (Err, Some): which of the two failures came first *)
FinishBlames ==
    /\ hpc = "blaming"
    /\ Verdict(IF upload_ended THEN result ELSE "UploadProducerFailed")
    /\ OnlyReads

(* The handle is dropped, or the future of finish is while it waits. *)
HandleDropped == hpc \in {"held", "joining"} /\ HandleGoes("dropping") /\ OnlyReads

(* is_finished() *)
DropChecks ==
    /\ hpc = "dropping"
    /\ HandleGoes(IF task = "done" THEN "dropped" ELSE "marking")
    /\ OnlyReads

(* mark_upload_ended *)
DropMarks ==
    /\ hpc = "marking"
    /\ upload_ended' = TRUE
    /\ HandleGoes("aborting")
    /\ UNCHANGED <<content, counters, body_ended, body_started, fields, channel,
                   caller, requestVars, taskVars>>

(* Variant of DropAborts, deliberately wrong: the JoinHandle is let go, which *)
(* detaches the task.                                                        *)
DropDetaches ==
    /\ hpc = "aborting"
    /\ HandleGoes("dropped")
    /\ UNCHANGED <<writerVars, requestVars, taskVars>>

(* abort() only schedules the cancellation; a finished task ignores it *)
DropAborts ==
    /\ hpc = "aborting"
    /\ aborted' = (task # "done")
    /\ HandleGoes("dropped")
    /\ UNCHANGED <<writerVars, requestVars, task, result>>

-----------------------------------------------------------------------------
TaskRuns ==
    \/ TaskReleased
    \/ TaskReadsBodyEnded
    \/ TaskMeasures
    \/ TaskReturns
    \/ TaskCancelled

HandleRuns ==
    \/ FinishJoins
    \/ FinishReadsBodyEnded
    \/ FinishMeasures
    \/ FinishBlames
    \/ DropChecks
    \/ DropMarks
    \/ DropAborts

(* Everybody has finished *)
Terminated ==
    /\ wpc = "gone"
    /\ task = "done"
    /\ hpc \in {"settled", "dropped"}
    /\ ~rx_open
    /\ UNCHANGED vars

Next ==
    \/ (WriterCalled \/ WriterRuns) /\ UNCHANGED <<requestVars, taskVars, handleVars>>
    \/ RequestRuns /\ UNCHANGED <<taskVars, handleVars>>
    \/ TaskRuns
    \/ TaskLost
    \/ FinishCalled
    \/ HandleDropped
    \/ HandleRuns
    \/ Terminated

Spec == Init /\ [][Next]_vars

(* A poll that was entered runs to its return; the runtime schedules a ready *)
(* task; upload_timeout ends a request that nothing else ends; the client    *)
(* lets go of a body it is done with; an owner that awaits the join or drops *)
(* the handle runs on.  Nobody owes the writer another call.                 *)
Fairness ==
    /\ WF_vars(WriterRuns /\ UNCHANGED <<requestVars, taskVars, handleVars>>)
    /\ WF_vars((\E e \in S3Errors : RequestFails(e)) /\ UNCHANGED <<taskVars, handleVars>>)
    /\ WF_vars(CloseBody /\ UNCHANGED <<taskVars, handleVars>>)
    /\ WF_vars(TaskRuns)
    /\ WF_vars(HandleRuns)

FairSpec == Spec /\ Fairness

-----------------------------------------------------------------------------
(* The inductive invariant                                                  *)

TypeOK ==
    /\ WriterTypeOK
    /\ RequestTypeOK
    /\ task \in TaskPlaces
    /\ result \in TaskResults
    /\ aborted \in BOOLEAN
    /\ hpc \in HandlePlaces
    /\ verdict \in Verdicts

(* What the upload task knows of the body and of its channel *)
TaskInv ==
    /\ task \in {"waiting", "released", "measuring"} => request = "waiting" /\ rx_open
    /\ task = "uploading" => request # "waiting"
    /\ task = "uploading" /\ request = "over" => outcome # "none"
    /\ task = "done" <=> result # "none"
    /\ task = "done" => request # "sending"
    /\ task = "measuring" => body_ended
    /\ result = "EndedShort" => request = "waiting" /\ body_ended /\ BodyIsShort
    /\ ~rx_open /\ request = "waiting" => result \in {"EndedShort", "JoinError"}
    /\ outcome = "Ok" \/ result = "Ok" => EarlyAnswers \/ stored
    /\ upload_ended => \/ hpc \in {"aborting", "dropped"}
                        \/ request # "waiting"
                        \/ result = "JoinError"

(* What the handle has established on its way to the verdict *)
HandleInv ==
    /\ hpc \in {"reading", "measuring", "blaming"} => result \notin {"none", "JoinError"}
    /\ hpc = "settled" => result # "none"
    /\ hpc = "measuring" => result = "Ok" \/ body_ended
    /\ hpc = "blaming" => result # "Ok" /\ body_ended /\ BodyIsShort
    /\ verdict # "none" => hpc = "settled"
    /\ verdict = "Ok" => result = "Ok" /\ sent = content_length
    /\ verdict = "UploadProducerFailed" /\ result # "Ok" =>
          body_ended /\ BodyIsShort /\ ~upload_ended
    /\ verdict # "EndedShort"
    /\ hpc = "settled" /\ result = "Ok" /\ ~EarlyAnswers => verdict = "Ok"

IInv ==
    /\ TypeOK
    /\ WriterInv
    /\ ChannelInv
    /\ TaskInv
    /\ HandleInv

-----------------------------------------------------------------------------
(* Properties                                                               *)

(* finish is the only proof (upload_handle.rs): Ok means that every declared *)
(* byte was counted and, with a storage that answers for what it has, that   *)
(* the object is stored.                                                     *)
OkMeansStored ==
    verdict = "Ok" =>
        /\ sent = content_length
        /\ ~EarlyAnswers => stored

(* A stored object that was answered for is never reported as a short body:  *)
(* the race the comment in start_send describes.                             *)
StoredIsNeverShort ==
    (hpc = "settled" /\ result = "Ok" /\ ~EarlyAnswers) => verdict = "Ok"

(* The writer is blamed for a failed upload only if it did end its body, did *)
(* end it short, and never found the upload gone.                            *)
BlameIsDeserved ==
    (verdict = "UploadProducerFailed" /\ result # "Ok") =>
        body_ended /\ BodyIsShort /\ ~upload_ended

(* "this error is never what it surfaces" (start_upload): the task's own     *)
(* report of a body that ended short is always replaced.                     *)
LocalErrorNeverSurfaces == verdict # "EndedShort"

(* A body that was ended short under an upload nobody saw die is always put   *)
(* down to the writer, never to the storage: the end is recorded before the  *)
(* upload can see it, so no verdict is reached on a stale body_ended.        *)
AbandonedBodyIsBlamed ==
    [][(verdict' # verdict /\ ~sender /\ BodyIsShort /\ ~upload_ended)
        => verdict' \in {"Other", "UploadProducerFailed"}]_vars

(* The task, the writer and the handle together are one upload as the        *)
(* caller sees it: the promises of Upload.tla, which knows nothing of tasks, *)
(* channels and flags.  Holds with a storage that answers for what it has.   *)
Abstract == INSTANCE Upload WITH
    source <- IF body_ended THEN "ended" ELSE "writing",
    arrived <- wire
ImplementsUpload == Abstract!Spec

(* What A 2xx has to mean, as finish has it: every declared byte went out.   *)
OkMeansBodyWentOut == verdict = "Ok" => wire = content_length

(* "settle can tell a writer that abandoned it from an upload that died      *)
(* under it" (finish): an upload that failed while its writer was waiting    *)
(* for room in the channel is never reported as the writer's failure.        *)
DeathUnderWriter ==
    /\ task = "done"
    /\ result \in S3Errors
    /\ wpc = "idle"
    /\ pending # NoChunk
AbandonedIsToldFromDied ==
    [](DeathUnderWriter => [](verdict # "UploadProducerFailed"))

(* An upload whose body has ended is not left waiting: the task ends.        *)
EndedBodyEndsTask == body_ended ~> task = "done"

(* finish needs nothing more of the writer once the first chunk was handed   *)
(* over: upload_timeout bounds it even if the writer then stalls for ever.   *)
(* (Before the first chunk nothing bounds it, as the doc of finish says.)    *)
StalledWriterCannotHoldFinish ==
    (hpc = "joining" /\ task # "waiting") ~> hpc \in {"settled", "dropped"}

(* Dropping the handle takes the upload down even if the writer stays.       *)
DropEndsTask == hpc = "dropped" ~> (task = "done" /\ ~rx_open)

(* A send that had to wait is taken or refused in the end, if the caller it   *)
(* parked polls again: the request held back for the first chunk cannot wait *)
(* for a writer that waits for the request.                                  *)
CallerPollsAgain ==
    pending # NoChunk /\ WriterCalled /\ UNCHANGED <<requestVars, taskVars, handleVars>>
ParkedSendIsSettled ==
    WF_vars(CallerPollsAgain) => (pending # NoChunk ~> pending = NoChunk)
=============================================================================
