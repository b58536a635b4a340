----------------------------- MODULE UploadWriter -----------------------------
(***************************************************************************)
(* S3UploadWriter and the UploadWriterState it shares with the upload       *)
(* (src/src/upload_writer.rs).                                              *)
(*                                                                          *)
(* A body is the interval of bytes 0 .. content_length; a piece of it is    *)
(* the half-open interval [from, to) of the offsets its bytes were          *)
(* accepted at.  Which byte is where is therefore part of the model, and    *)
(* what the bytes are is not.                                               *)
(*                                                                          *)
(* A poll_* call of the writer is a sequence of steps, one for every read   *)
(* or write of something another thread can see: the upload task and the    *)
(* handle run between any two of them.  wpc says where the call is:         *)
(*   idle          no call is running                                       *)
(*   drive         poll_pending; with nothing pending, the call's own body  *)
(*   drive_count   the pending send holds its permit, sent not yet counted  *)
(*   drive_push    counted, the chunk not yet in the channel                *)
(*   send, send_count, send_push    the same three for a send just started  *)
(*   mark, announce, hangup         the end of the body, in its order       *)
(*   gone          the writer has been dropped                              *)
(***************************************************************************)
EXTENDS Naturals, Sequences

CONSTANTS
    ContentLengths,  \* the declared lengths considered
    ChunkSize,       \* chunk_size
    ChannelCapacity, \* UPLOAD_CHANNEL_CAPACITY
    MaxWrite         \* the longest slice a caller offers to one poll_write

ASSUME ContentLengthsAssumption == ContentLengths \subseteq Nat
ASSUME ChunkSizeAssumption == ChunkSize \in Nat \ {0}
ASSUME CapacityAssumption == ChannelCapacity \in Nat \ {0}
ASSUME MaxWriteAssumption == MaxWrite \in Nat

VARIABLES
    content_length, \* never changes
    accepted,       \* bytes taken from the producer
    sent,           \* bytes counted as handed to the channel
    upload_ended,   \* the upload is known to be gone
    body_ended,     \* the writer ended the body
    body_started,   \* the permit stored in the Notify
    sender,         \* some Sender of the channel is alive
    buffer,         \* the chunk being filled
    pending,        \* the chunk of the send that was started and not accepted
    chan,           \* the chunks in the channel
    rx_open,        \* the Receiver is alive
    wpc, op, buf_len, late, taken, ret, \* the call being polled and its result
    reported        \* the bytes the caller was told were written

content == <<content_length>>
counters == <<accepted, sent>>
flags == <<upload_ended, body_ended, body_started>>
fields == <<sender, buffer, pending>>
channel == <<chan, rx_open>>
caller == <<wpc, op, buf_len, late, taken, ret, reported>>
writerVars == <<content_length, accepted, sent, upload_ended, body_ended,
                body_started, sender, buffer, pending, chan, rx_open,
                wpc, op, buf_len, late, taken, ret, reported>>

Chunk == [from : Nat, to : Nat]
NoChunk == [from |-> 0, to |-> 0]
Size(c) == c.to - c.from

Ops == {"none", "write", "flush", "shutdown", "drop"}
Results == {"none", "Ok", "Pending", "BrokenPipe", "ShutDown", "InvalidInput"}
Places == {"idle", "drive", "drive_count", "drive_push",
           "send", "send_count", "send_push",
           "mark", "announce", "hangup", "gone"}

WriterInit ==
    /\ content_length \in ContentLengths
    /\ accepted = 0
    /\ sent = 0
    /\ upload_ended = FALSE
    /\ body_ended = FALSE
    /\ body_started = FALSE
    /\ sender = TRUE
    /\ buffer = NoChunk
    /\ pending = NoChunk
    /\ chan = << >>
    /\ rx_open = TRUE
    /\ wpc = "idle"
    /\ op = "none"
    /\ buf_len = 0
    /\ late = FALSE
    /\ taken = 0
    /\ ret = "none"
    /\ reported = 0

(* A new writer for the same body takes the place of one that is gone. *)
WriterRenewed ==
    /\ UNCHANGED content_length
    /\ accepted' = 0
    /\ sent' = 0
    /\ upload_ended' = FALSE
    /\ body_ended' = FALSE
    /\ body_started' = FALSE
    /\ sender' = TRUE
    /\ buffer' = NoChunk
    /\ pending' = NoChunk
    /\ chan' = << >>
    /\ rx_open' = TRUE
    /\ wpc' = "idle"
    /\ op' = "none"
    /\ buf_len' = 0
    /\ late' = FALSE
    /\ taken' = 0
    /\ ret' = "none"
    /\ reported' = 0

-----------------------------------------------------------------------------
(* short_body_error is Some *)
BodyIsShort == sent < content_length

(* The call returns r; a write that returns Ok reports the bytes it took. *)
Return(r) ==
    /\ wpc' = "idle"
    /\ ret' = r
    /\ reported' = IF r = "Ok" THEN reported + taken ELSE reported
    /\ taken' = 0
    /\ buf_len' = 0
    /\ UNCHANGED <<op, late>>

(* The call goes on at p. *)
Goto(p) ==
    /\ wpc' = p
    /\ UNCHANGED <<op, buf_len, late, taken, ret, reported>>

(* A caller enters a poll_* function.  late remembers a call that asks for   *)
(* something to be carried when the upload is already recorded as ended.     *)
Enter(o, n, asks, p) ==
    /\ wpc = "idle"
    /\ wpc' = p
    /\ op' = o
    /\ buf_len' = n
    /\ late' = (asks /\ upload_ended)
    /\ UNCHANGED <<taken, ret, reported>>
    /\ UNCHANGED <<content, counters, flags, fields, channel>>

PollWriteCalled(n) == Enter("write", n, n > 0, "drive")

PollFlushCalled == Enter("flush", 0, TRUE, "drive")

(* Shutting down twice is Ok at once; otherwise shutdown flushes first. *)
PollShutdownCalled ==
    \/ sender /\ Enter("shutdown", 0, TRUE, "drive")
    \/ /\ ~sender
       /\ wpc = "idle"
       /\ op' = "shutdown"
       /\ buf_len' = 0
       /\ late' = FALSE
       /\ ret' = "Ok"
       /\ UNCHANGED <<wpc, taken, reported>>
       /\ UNCHANGED <<content, counters, flags, fields, channel>>

(* Variant of DropCalled, deliberately wrong: the drop lets the Sender go     *)
(* without recording the end of the body.                                    *)
DropForgetsToMark == Enter("drop", 0, FALSE, IF sender THEN "hangup" ELSE "gone")

(* Only a writer that still has its Sender ends the body when dropped. *)
DropCalled == Enter("drop", 0, FALSE, IF sender THEN "mark" ELSE "gone")

-----------------------------------------------------------------------------
(* A send is polled: by poll_pending, or by start_send that just made it. *)
SendPolled == (wpc = "drive" /\ pending # NoChunk) \/ wpc = "send"

(* upload_is_gone: recorded, and BrokenPipe to the caller *)
UploadIsGone ==
    /\ upload_ended' = TRUE
    /\ UNCHANGED <<body_ended, body_started>>
    /\ Return("BrokenPipe")

(* reserve() finds the Receiver gone; the send and its chunk are dropped *)
ReserveFails ==
    /\ SendPolled
    /\ ~rx_open
    /\ pending' = NoChunk
    /\ UploadIsGone
    /\ UNCHANGED <<content, counters, sender, buffer, channel>>

(* Variant of ReserveWaits, deliberately wrong: poll_write says Pending of    *)
(* bytes it has consumed.                                                    *)
WaitHidesTheBytes ==
    /\ SendPolled
    /\ rx_open
    /\ Len(chan) >= ChannelCapacity
    /\ Return("Pending")
    /\ UNCHANGED <<content, counters, flags, fields, channel>>

(* Variant of ReserveWaits, deliberately wrong: shutdown ends the body        *)
(* without waiting for the send.                                             *)
ShutdownDoesNotWait ==
    /\ SendPolled
    /\ rx_open
    /\ Len(chan) >= ChannelCapacity
    /\ IF op = "shutdown" THEN Goto("mark")
       ELSE Return(IF wpc = "send" /\ op = "write" THEN "Ok" ELSE "Pending")
    /\ UNCHANGED <<content, counters, flags, fields, channel>>

(* reserve() has to wait.  The send stays pending; poll_write has consumed   *)
(* its bytes when the send is its own, and nothing when it is an older one.  *)
ReserveWaits ==
    /\ SendPolled
    /\ rx_open
    /\ Len(chan) >= ChannelCapacity
    /\ Return(IF wpc = "send" /\ op = "write" THEN "Ok" ELSE "Pending")
    /\ UNCHANGED <<content, counters, flags, fields, channel>>

(* reserve() gives the permit *)
ReserveSucceeds ==
    /\ SendPolled
    /\ rx_open
    /\ Len(chan) < ChannelCapacity
    /\ Goto(IF wpc = "send" THEN "send_count" ELSE "drive_count")
    /\ UNCHANGED <<content, counters, flags, fields, channel>>

(* Variant of CountChunk, deliberately wrong: a store for the fetch_add. *)
CountStores ==
    /\ wpc \in {"drive_count", "send_count"}
    /\ sent' = Size(pending)
    /\ Goto(IF wpc = "send_count" THEN "send_push" ELSE "drive_push")
    /\ UNCHANGED <<content, accepted, flags, fields, channel>>

(* Variant of CountChunk, deliberately wrong: a send that had to wait is not  *)
(* counted when it completes.                                                *)
CountMissesDrivenSends ==
    /\ wpc \in {"drive_count", "send_count"}
    /\ sent' = IF wpc = "send_count" THEN sent + Size(pending) ELSE sent
    /\ Goto(IF wpc = "send_count" THEN "send_push" ELSE "drive_push")
    /\ UNCHANGED <<content, accepted, flags, fields, channel>>

(* sent.fetch_add, before the chunk can be received *)
CountChunk ==
    /\ wpc \in {"drive_count", "send_count"}
    /\ sent' = sent + Size(pending)
    /\ Goto(IF wpc = "send_count" THEN "send_push" ELSE "drive_push")
    /\ UNCHANGED <<content, accepted, flags, fields, channel>>

(* Where the call goes once a send is complete: an older one leaves the call *)
(* to do its own work, one of its own ends it.                               *)
AfterSend ==
    IF wpc = "drive_push" THEN Goto("drive")
    ELSE IF op = "shutdown" THEN Goto("mark")
    ELSE Return("Ok")

(* permit.send: the chunk is receivable, or lost with a Receiver that went *)
PushChunk ==
    /\ wpc \in {"drive_push", "send_push"}
    /\ chan' = IF rx_open THEN Append(chan, pending) ELSE chan
    /\ pending' = NoChunk
    /\ AfterSend
    /\ UNCHANGED <<content, counters, flags, sender, buffer, rx_open>>

-----------------------------------------------------------------------------
(* Variant of OwnWork, deliberately wrong: the outstanding send is not driven *)
(* first.                                                                    *)
OwnWorkJumpsTheQueue(o) == wpc = "drive" /\ op = o

(* poll_pending found nothing outstanding: the call does its own work. *)
OwnWork(o) == wpc = "drive" /\ pending = NoChunk /\ op = o

Owed == content_length - accepted

Least(a, b) == IF a < b THEN a ELSE b

(* buf.len().min(room_in_chunk).min(owed) *)
Take == Least(buf_len, Least(ChunkSize - Size(buffer), Owed))

(* The chunk c with the next n accepted bytes behind it *)
Extended(c, n) ==
    [from |-> IF c = NoChunk THEN accepted ELSE c.from, to |-> accepted + n]

(* The early returns of poll_write, in their order *)
WriteRefusal ==
    CASE buf_len = 0 -> "Ok"
      [] buf_len > 0 /\ ~sender -> "ShutDown"
      [] buf_len > 0 /\ sender /\ upload_ended -> "BrokenPipe"
      [] buf_len > 0 /\ sender /\ ~upload_ended /\ Owed = 0 -> "InvalidInput"
      [] OTHER -> "none"

WriteReturnsEarly ==
    /\ OwnWork("write")
    /\ WriteRefusal # "none"
    /\ Return(WriteRefusal)
    /\ UNCHANGED <<content, counters, flags, fields, channel>>

(* The bytes are accepted; a chunk that is full is handed to start_send,     *)
(* which announces the body before it polls the send.                        *)
WriteAccepts ==
    LET filled == Extended(buffer, Take) IN
    /\ OwnWork("write")
    /\ WriteRefusal = "none"
    /\ accepted' = accepted + Take
    /\ \/ /\ Size(filled) < ChunkSize
          /\ buffer' = filled
          /\ wpc' = "idle"
          /\ ret' = "Ok"
          /\ reported' = reported + Take
          /\ buf_len' = 0
          /\ UNCHANGED <<pending, body_started, taken>>
       \/ /\ Size(filled) >= ChunkSize
          /\ buffer' = NoChunk
          /\ pending' = filled
          /\ body_started' = TRUE
          /\ wpc' = "send"
          /\ taken' = Take
          /\ UNCHANGED <<ret, reported, buf_len>>
    /\ UNCHANGED <<op, late>>
    /\ UNCHANGED <<content, sent, upload_ended, body_ended, sender, channel>>

(* poll_flush, by itself or inside poll_shutdown *)
OwnFlush == OwnWork("flush") \/ OwnWork("shutdown")

FlushRefused ==
    /\ OwnFlush
    /\ upload_ended
    /\ UploadIsGone
    /\ UNCHANGED <<content, counters, fields, channel>>

(* Variant of FlushFindsNothing, deliberately wrong: the recorded end of the  *)
(* upload is not looked at.                                                  *)
FlushIgnoresTheEnd ==
    /\ OwnFlush
    /\ buffer = NoChunk
    /\ IF op = "shutdown" THEN Goto("mark") ELSE Return("Ok")
    /\ UNCHANGED <<content, counters, flags, fields, channel>>

(* Nothing buffered: flush is done and shutdown ends the body *)
FlushFindsNothing ==
    /\ OwnFlush
    /\ ~upload_ended
    /\ buffer = NoChunk
    /\ IF op = "shutdown" THEN Goto("mark") ELSE Return("Ok")
    /\ UNCHANGED <<content, counters, flags, fields, channel>>

(* Variant of FlushSends, deliberately wrong: the body is not announced. *)
FlushSendsUnannounced ==
    /\ OwnFlush
    /\ ~upload_ended
    /\ buffer # NoChunk
    /\ sender
    /\ pending' = buffer
    /\ buffer' = NoChunk
    /\ Goto("send")
    /\ UNCHANGED <<content, counters, flags, sender, channel>>

(* The partial chunk is handed to start_send.  (The refusal of a flush that  *)
(* has bytes and no Sender is unreachable: NothingLeftBehind.)               *)
FlushSends ==
    /\ OwnFlush
    /\ ~upload_ended
    /\ buffer # NoChunk
    /\ sender
    /\ pending' = buffer
    /\ buffer' = NoChunk
    /\ body_started' = TRUE
    /\ Goto("send")
    /\ UNCHANGED <<content, counters, upload_ended, body_ended, sender, channel>>

-----------------------------------------------------------------------------
(* The end of the body: recorded, announced, and only then made visible in   *)
(* the channel by letting the last Sender go.                                *)
MarkBodyEnded ==
    /\ wpc = "mark"
    /\ body_ended' = TRUE
    /\ Goto("announce")
    /\ UNCHANGED <<content, counters, upload_ended, body_started, fields, channel>>

(* Variant of AnnounceBodyEnded, deliberately wrong: only shutdown announces. *)
DropUnannounced ==
    /\ wpc = "announce"
    /\ body_started' = (body_started \/ op = "shutdown")
    /\ Goto("hangup")
    /\ UNCHANGED <<content, counters, upload_ended, body_ended, fields, channel>>

(* notify_one, which stores the permit the upload waits for *)
AnnounceBodyEnded ==
    /\ wpc = "announce"
    /\ body_started' = TRUE
    /\ Goto("hangup")
    /\ UNCHANGED <<content, counters, upload_ended, body_ended, fields, channel>>

(* A dropped writer takes its buffer and its pending send with it. *)
HangUp ==
    /\ wpc = "hangup"
    /\ sender' = FALSE
    /\ \/ /\ op = "shutdown"
          /\ Return("Ok")
          /\ UNCHANGED <<buffer, pending>>
       \/ /\ op = "drop"
          /\ Goto("gone")
          /\ buffer' = NoChunk
          /\ pending' = NoChunk
    /\ UNCHANGED <<content, counters, flags, channel>>

-----------------------------------------------------------------------------
(* What a caller may do with the writer it holds *)
WriterCalled ==
    \/ \E n \in 0 .. MaxWrite : PollWriteCalled(n)
    \/ PollFlushCalled
    \/ PollShutdownCalled
    \/ DropCalled

(* The steps of a call once entered *)
WriterRuns ==
    \/ ReserveFails
    \/ ReserveWaits
    \/ ReserveSucceeds
    \/ CountChunk
    \/ PushChunk
    \/ WriteReturnsEarly
    \/ WriteAccepts
    \/ FlushRefused
    \/ FlushFindsNothing
    \/ FlushSends
    \/ MarkBodyEnded
    \/ AnnounceBodyEnded
    \/ HangUp

WriterTypeOK ==
    /\ content_length \in ContentLengths
    /\ accepted \in Nat
    /\ sent \in Nat
    /\ upload_ended \in BOOLEAN
    /\ body_ended \in BOOLEAN
    /\ body_started \in BOOLEAN
    /\ sender \in BOOLEAN
    /\ buffer \in Chunk
    /\ pending \in Chunk
    /\ chan \in Seq(Chunk)
    /\ rx_open \in BOOLEAN
    /\ wpc \in Places
    /\ op \in Ops
    /\ buf_len \in 0 .. MaxWrite
    /\ late \in BOOLEAN
    /\ taken \in Nat
    /\ ret \in Results
    /\ reported \in Nat
=============================================================================
