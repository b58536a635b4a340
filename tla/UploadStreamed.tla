---------------------------- MODULE UploadStreamed ----------------------------
(***************************************************************************)
(* One streamed PUT: S3Client::upload_streamed (src/src/s3_client.rs), the  *)
(* HTTP client that carries it and the storage that answers it.             *)
(*                                                                          *)
(* The HTTP client (fl-url) and the storage are not part of the repository; *)
(* they are modelled from how upload_streamed uses them: the client takes   *)
(* the chunks out of the channel in order and puts them on the wire, the    *)
(* storage keeps an object only once all of Content-Length has arrived, and *)
(* the request ends in a 2xx, in an error answer, or in a failure of its    *)
(* own (signing, connecting, the transport, upload_timeout).  The channel's *)
(* Receiver goes when the client lets go of the body, which may be a little *)
(* after the call returned.                                                 *)
(***************************************************************************)
EXTENDS UploadWriter

CONSTANTS
    S3Errors,     \* the S3Error values upload_streamed may return
    EarlyAnswers  \* whether the storage may answer 2xx before it has the body

ASSUME S3ErrorsAssumption ==
    /\ S3Errors # {}
    /\ S3Errors \cap {"none", "Ok", "EndedShort", "JoinError", "Other",
                      "UploadProducerFailed"} = {}
ASSUME EarlyAnswersAssumption == EarlyAnswers \in BOOLEAN

VARIABLES
    request, \* "waiting", "sending" or "over"
    outcome, \* what upload_streamed returned
    wire,    \* how many bytes of the body went out
    stored   \* the storage has committed the object

requestVars == <<request, outcome, wire, stored>>
streamedVars == <<content_length, accepted, sent, upload_ended, body_ended,
                  body_started, sender, buffer, pending, chan, rx_open,
                  wpc, op, buf_len, late, taken, ret, reported,
                  request, outcome, wire, stored>>

RequestInit(r) ==
    /\ request = r
    /\ outcome = "none"
    /\ wire = 0
    /\ stored = FALSE

(* What a step of the request leaves alone of the writer *)
WriterKept == UNCHANGED <<content, counters, flags, fields, caller>>

StartRequest ==
    /\ request = "waiting"
    /\ request' = "sending"
    /\ UNCHANGED <<outcome, wire, stored>>

(* The client takes the next chunk and writes it out. *)
Recv ==
    /\ request = "sending"
    /\ chan # << >>
    /\ wire' = wire + Size(Head(chan))
    /\ chan' = Tail(chan)
    /\ WriterKept
    /\ UNCHANGED <<rx_open, request, outcome, stored>>

(* The storage commits the object once it has all of it, whether or not the  *)
(* client is still waiting for the answer.                                   *)
Commit ==
    /\ request # "waiting"
    /\ wire = content_length
    /\ ~stored
    /\ stored' = TRUE
    /\ WriterKept
    /\ UNCHANGED <<channel, request, outcome, wire>>

Over(o) ==
    /\ request = "sending"
    /\ request' = "over"
    /\ outcome' = o
    /\ WriterKept
    /\ UNCHANGED <<channel, wire, stored>>

(* A 2xx *)
StorageAccepts ==
    /\ stored \/ EarlyAnswers
    /\ Over("Ok")

(* An error answer, or no answer: a transport error, or upload_timeout ran   *)
(* out.  A body that ends short of Content-Length ends here too.             *)
RequestFails(e) == Over(e)

(* Variant of CloseBody, deliberately wrong: a request that ended leaves the  *)
(* Receiver alive.                                                           *)
BodyOutlivesRequest ==
    /\ rx_open
    /\ request = "sending" /\ wire = content_length
    /\ rx_open' = FALSE
    /\ chan' = << >>
    /\ WriterKept
    /\ UNCHANGED requestVars

(* The client lets go of the body; what was still in the channel is lost. *)
CloseBody ==
    /\ rx_open
    /\ request = "over" \/ (request = "sending" /\ wire = content_length)
    /\ rx_open' = FALSE
    /\ chan' = << >>
    /\ WriterKept
    /\ UNCHANGED requestVars

RequestRuns ==
    \/ Recv
    \/ Commit
    \/ StorageAccepts
    \/ \E e \in S3Errors : RequestFails(e)
    \/ CloseBody

RequestTypeOK ==
    /\ request \in {"waiting", "sending", "over"}
    /\ outcome \in {"none", "Ok"} \cup S3Errors
    /\ wire \in Nat
    /\ stored \in BOOLEAN

-----------------------------------------------------------------------------
(* Where the body is                                                        *)

Sending == {"drive_count", "drive_push", "send", "send_count", "send_push"}
Ending == {"mark", "announce", "hangup"}

(* Bytes counted in sent and not yet receivable *)
AboutToPush == wpc \in {"drive_push", "send_push"}

(* Where the k-th chunk of the channel must begin: behind its predecessor,   *)
(* the first one behind what is on the wire.                                 *)
PieceStart(k) == IF k = 1 THEN wire ELSE chan[k - 1].to

(* The offset behind the last byte the channel has been given *)
ChannelEnd == IF chan = << >> THEN wire ELSE chan[Len(chan)].to

(* Which fields of the writer belong to which place of a call *)
PlaceInv ==
    /\ ~sender => body_ended
    /\ body_ended => ~sender \/ wpc \in {"announce", "hangup"}
    /\ wpc \in {"announce", "hangup"} => body_ended
    /\ wpc \in Sending =>
          /\ sender
          /\ pending # NoChunk
          /\ op \in {"write", "flush", "shutdown"}
    /\ wpc \in Ending => sender /\ op \in {"shutdown", "drop"}
    /\ wpc = "drive" =>
          /\ op \in {"write", "flush", "shutdown"}
          /\ op = "shutdown" => sender
    /\ ~sender \/ (wpc \in Ending /\ op = "shutdown") =>
          pending = NoChunk /\ buffer = NoChunk
    /\ wpc = "gone" => ~sender
    /\ op = "drop" => wpc \in Ending \cup {"gone"}

(* How the pieces the writer holds follow what was counted as sent *)
CountInv ==
    /\ buffer # NoChunk =>
          /\ pending = NoChunk
          /\ buffer.from = sent
          /\ buffer.from < buffer.to
          /\ buffer.to = accepted
          /\ Size(buffer) < ChunkSize
    /\ pending # NoChunk =>
          /\ pending.from < pending.to
          /\ pending.to = accepted
          /\ sent = IF AboutToPush THEN pending.to ELSE pending.from
    /\ (pending = NoChunk /\ buffer = NoChunk /\ ~upload_ended
            /\ (sender \/ op # "drop")) => sent = accepted
    /\ sent <= accepted
    /\ accepted <= content_length

(* What the caller has been told *)
ReportInv ==
    /\ taken # 0 => op = "write" /\ wpc \in {"send", "send_count", "send_push"}
    /\ ~upload_ended => reported + taken = accepted
    /\ late =>
          /\ upload_ended
          /\ wpc \in {"idle", "drive", "drive_count", "drive_push"}
          /\ wpc # "idle" /\ op = "write" => buf_len > 0
          /\ wpc = "idle" => ret # "Ok"

WriterInv ==
    /\ WriterTypeOK
    /\ PlaceInv
    /\ CountInv
    /\ ReportInv

(* The chunks in the channel follow the wire and each other without a gap. *)
Chained ==
    /\ \A k \in 1 .. Len(chan) :
          /\ chan[k].from = PieceStart(k)
          /\ chan[k].from < chan[k].to
          /\ chan[k].to <= ChannelEnd
    /\ \A i, k \in 1 .. Len(chan) : i < k => chan[i].to <= chan[k].from

(* How the channel and the wire follow what was counted as sent *)
ChannelInv ==
    /\ ~rx_open => chan = << >>
    /\ wire <= sent
    /\ stored => wire = content_length
    /\ rx_open =>
          /\ Chained
          /\ ChannelEnd = IF AboutToPush THEN pending.from ELSE sent

-----------------------------------------------------------------------------
(* Properties of a body on its way from the writer to the wire              *)

(* The body has no hole, no repetition and no byte out of place: the wire,   *)
(* the channel, the pending send and the buffer of upload_writer.rs follow   *)
(* each other without a gap as long as anybody is there to receive them.     *)
BodyIsContiguous ==
    rx_open =>
        /\ \A k \in 1 .. Len(chan) : chan[k].from = PieceStart(k)
        /\ pending # NoChunk => pending.from = ChannelEnd
        /\ buffer # NoChunk =>
               buffer.from = IF pending # NoChunk THEN pending.to ELSE ChannelEnd

(* The upload can never have consumed bytes sent does not include (the       *)
(* comment in start_send), nothing past Content-Length is ever accepted, and *)
(* an object is stored only from a body that was counted in full.            *)
NothingUncounted ==
    /\ wire <= sent
    /\ sent <= accepted
    /\ accepted <= content_length
    /\ stored => sent = content_length

(* Once body_ended is recorded sent is final: what start_upload and finish   *)
(* both rely on when they judge a short body.                                *)
SentIsFinal == [][body_ended => sent' = sent]_streamedVars

(* A writer that was shut down, not dropped, and was not refused, has handed *)
(* over all it accepted: shutdown does not end a body under a pending send.  *)
NothingLeftBehind ==
    (~sender /\ op # "drop" /\ ~upload_ended) => sent = accepted

(* Between two calls the caller has been told of every byte the writer took, *)
(* and of no byte it did not take, unless the upload was gone: Pending       *)
(* consumes nothing, and Ok(take) is honest about a send that waits.         *)
CallerKnowsWhatWasTaken == (wpc = "idle" /\ ~upload_ended) => reported = accepted

(* "its next write, flush or shutdown fails" (S3UploadHandle): a call made   *)
(* when the upload is recorded as ended never succeeds.                      *)
LateCallsFail == (late /\ wpc = "idle") => ret # "Ok"
=============================================================================
