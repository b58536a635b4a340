------------------------- MODULE UploadStreamedProofs -------------------------
(***************************************************************************)
(* What every step of the writer preserves, whatever the upload around it   *)
(* is: WriterInv speaks of the writer's own variables only, and ChannelInv  *)
(* of the writer, the channel and the wire.                                 *)
(***************************************************************************)
EXTENDS UploadStreamed, TLAPS

(* The writer's empty buffer is a chunk like any other. *)
LEMMA NoChunkIsChunk == NoChunk \in Chunk
  BY DEF NoChunk, Chunk

(* Entering a poll_* function, or dropping the writer, keeps the invariant of *)
(* the writer.                                                               *)
LEMMA WriterCalledKeepsInv ==
    ASSUME WriterInv, WriterCalled
    PROVE  WriterInv'
  <1> USE ContentLengthsAssumption, ChunkSizeAssumption, MaxWriteAssumption
      DEF WriterInv, WriterTypeOK, content, counters, flags, fields, channel
  <1>1. ASSUME NEW n \in 0 .. MaxWrite, PollWriteCalled(n)
        PROVE  WriterInv'
    <2>1. WriterTypeOK'
      BY <1>1
      DEF PollWriteCalled, Enter, PlaceInv, CountInv, Sending, Ending, Chunk,
          NoChunk, Places, Ops, Results
    <2>2. PlaceInv'
      BY <1>1
      DEF PollWriteCalled, Enter, PlaceInv, Sending, Ending
    <2>3. CountInv'
      BY <1>1
      DEF PollWriteCalled, Enter, PlaceInv, CountInv, Sending, Ending,
          AboutToPush, NoChunk
    <2>4. ReportInv'
      BY <1>1
      DEF PollWriteCalled, Enter, PlaceInv, CountInv, ReportInv, Sending,
          Ending
    <2> QED BY <2>1, <2>2, <2>3, <2>4
  <1>2. CASE PollFlushCalled
    <2>1. WriterTypeOK'
      BY <1>2
      DEF PollFlushCalled, Enter, PlaceInv, CountInv, Sending, Ending, Chunk,
          NoChunk, Places, Ops, Results
    <2>2. PlaceInv'
      BY <1>2
      DEF PollFlushCalled, Enter, PlaceInv, Sending, Ending
    <2>3. CountInv'
      BY <1>2
      DEF PollFlushCalled, Enter, PlaceInv, CountInv, Sending, Ending,
          AboutToPush, NoChunk
    <2>4. ReportInv'
      BY <1>2
      DEF PollFlushCalled, Enter, PlaceInv, CountInv, ReportInv, Sending,
          Ending
    <2> QED BY <2>1, <2>2, <2>3, <2>4
  <1>3. CASE PollShutdownCalled
    <2>1. CASE sender
      <3>1. WriterTypeOK'
        BY <1>3, <2>1
        DEF PollShutdownCalled, Enter, PlaceInv, CountInv, Sending, Ending,
            Chunk, NoChunk, Places, Ops, Results
      <3>2. PlaceInv'
        BY <1>3, <2>1
        DEF PollShutdownCalled, Enter, PlaceInv, Sending, Ending
      <3>3. CountInv'
        BY <1>3, <2>1
        DEF PollShutdownCalled, Enter, PlaceInv, CountInv, Sending, Ending,
            AboutToPush, NoChunk
      <3>4. ReportInv'
        BY <1>3, <2>1
        DEF PollShutdownCalled, Enter, PlaceInv, CountInv, ReportInv,
            Sending, Ending
      <3> QED BY <3>1, <3>2, <3>3, <3>4
    <2>2. CASE ~sender
      <3>0. /\ wpc = "idle" /\ op' = "shutdown" /\ buf_len' = 0 /\ late' = FALSE
            /\ ret' = "Ok"
            /\ UNCHANGED <<wpc, taken, reported, content_length, accepted, sent,
                           upload_ended, body_ended, body_started, sender,
                           buffer, pending, chan, rx_open>>
        BY <1>3, <2>2 DEF PollShutdownCalled
      <3>1. WriterTypeOK'
        <4>1. buf_len' \in 0 .. MaxWrite /\ taken' \in Nat /\ reported' \in Nat
          BY <2>2, <3>0
        <4>2. buffer' \in Chunk /\ pending' \in Chunk /\ chan' \in Seq(Chunk)
          BY <2>2, <3>0, NoChunkIsChunk
        <4>3. wpc' \in Places /\ op' \in Ops /\ ret' \in Results
          BY <2>2, <3>0 DEF Places, Ops, Results
        <4> QED BY <2>2, <3>0, <4>1, <4>2, <4>3
      <3>2. PlaceInv'
        BY <2>2, <3>0
        DEF PlaceInv, Sending, Ending
      <3>3. CountInv'
        BY <2>2, <3>0
        DEF PlaceInv, CountInv, Sending, Ending, AboutToPush, NoChunk
      <3>4. ReportInv'
        BY <2>2, <3>0
        DEF PlaceInv, CountInv, ReportInv, Sending, Ending
      <3> QED BY <3>1, <3>2, <3>3, <3>4
    <2> QED BY <2>1, <2>2
  <1>4. CASE DropCalled
    <2>1. WriterTypeOK'
      BY <1>4
      DEF DropCalled, Enter, PlaceInv, CountInv, Sending, Ending, Chunk,
          NoChunk, Places, Ops, Results
    <2>2. PlaceInv'
      BY <1>4
      DEF DropCalled, Enter, PlaceInv, Sending, Ending
    <2>3. CountInv'
      BY <1>4
      DEF DropCalled, Enter, PlaceInv, CountInv, Sending, Ending,
          AboutToPush, NoChunk
    <2>4. ReportInv'
      BY <1>4
      DEF DropCalled, Enter, PlaceInv, CountInv, ReportInv, Sending, Ending
    <2> QED BY <2>1, <2>2, <2>3, <2>4
  <1> QED BY <1>1, <1>2, <1>3, <1>4 DEF WriterCalled

(* What poll_write takes: at least a byte, no more than is owed, no more than *)
(* fits, and it goes right behind what was sent.                             *)
LEMMA TakeFits ==
    ASSUME WriterInv, WriteAccepts
    PROVE  /\ Take \in Nat \ {0}
           /\ accepted + Take <= content_length
           /\ Extended(buffer, Take) \in Chunk
           /\ Extended(buffer, Take) # NoChunk
           /\ Extended(buffer, Take).from = sent
           /\ Extended(buffer, Take).to = accepted + Take
           /\ sent < accepted + Take
           /\ pending = NoChunk
           /\ wpc = "drive" /\ op = "write" /\ sender /\ ~upload_ended /\ ~late
  <1> USE ContentLengthsAssumption, ChunkSizeAssumption, MaxWriteAssumption
      DEF WriterInv, WriterTypeOK, content, counters, flags, fields, channel
  <1>1. /\ pending = NoChunk /\ wpc = "drive" /\ op = "write"
        /\ buf_len > 0 /\ sender /\ ~upload_ended /\ Owed # 0
    BY DEF WriteAccepts, OwnWork, WriteRefusal
  <1>2. Owed \in Nat \ {0}
    BY <1>1 DEF Owed, CountInv
  <1>3. ChunkSize - Size(buffer) \in Nat \ {0}
    BY DEF Size, CountInv, NoChunk, Chunk
  <1>4. Take \in Nat \ {0} /\ Take <= Owed
    BY <1>1, <1>2, <1>3 DEF Take, Least
  <1>5. sent = IF buffer = NoChunk THEN accepted ELSE buffer.from
    BY <1>1 DEF CountInv
  <1>6. sent <= accepted
    BY DEF CountInv
  <1> QED BY <1>1, <1>2, <1>4, <1>5, <1>6 DEF Extended, Chunk, NoChunk, Owed, ReportInv

(* Every step of a call keeps the invariant of the writer. *)
LEMMA WriterRunsKeepsInv ==
    ASSUME WriterInv, WriterRuns
    PROVE  WriterInv'
  <1> USE ContentLengthsAssumption, ChunkSizeAssumption, MaxWriteAssumption
      DEF WriterInv, WriterTypeOK, content, counters, flags, fields, channel
  <1>1. CASE ReserveFails
    <2>1. WriterTypeOK'
      BY <1>1
      DEF ReserveFails, SendPolled, UploadIsGone, Return, PlaceInv, CountInv,
          Sending, Ending, Chunk, NoChunk, Places, Ops, Results
    <2>2. PlaceInv'
      BY <1>1
      DEF ReserveFails, SendPolled, UploadIsGone, Return, PlaceInv, Sending,
          Ending
    <2>3. CountInv'
      BY <1>1
      DEF ReserveFails, SendPolled, UploadIsGone, Return, PlaceInv, CountInv,
          Sending, Ending, AboutToPush, NoChunk
    <2>4. ReportInv'
      BY <1>1
      DEF ReserveFails, SendPolled, UploadIsGone, Return, PlaceInv, CountInv,
          ReportInv, Sending, Ending
    <2> QED BY <2>1, <2>2, <2>3, <2>4
  <1>2. CASE ReserveWaits
    <2>1. WriterTypeOK'
      BY <1>2
      DEF ReserveWaits, SendPolled, Return, PlaceInv, CountInv, Sending,
          Ending, Chunk, NoChunk, Places, Ops, Results
    <2>2. PlaceInv'
      BY <1>2
      DEF ReserveWaits, SendPolled, Return, PlaceInv, Sending, Ending
    <2>3. CountInv'
      BY <1>2
      DEF ReserveWaits, SendPolled, Return, PlaceInv, CountInv, Sending,
          Ending, AboutToPush, NoChunk
    <2>4. ReportInv'
      BY <1>2
      DEF ReserveWaits, SendPolled, Return, PlaceInv, CountInv, ReportInv,
          Sending, Ending
    <2> QED BY <2>1, <2>2, <2>3, <2>4
  <1>3. CASE ReserveSucceeds
    <2>1. WriterTypeOK'
      BY <1>3
      DEF ReserveSucceeds, SendPolled, Goto, PlaceInv, CountInv, Sending,
          Ending, Chunk, NoChunk, Places, Ops, Results
    <2>2. PlaceInv'
      BY <1>3
      DEF ReserveSucceeds, SendPolled, Goto, PlaceInv, Sending, Ending
    <2>3. CountInv'
      BY <1>3
      DEF ReserveSucceeds, SendPolled, Goto, PlaceInv, CountInv, Sending,
          Ending, AboutToPush, NoChunk
    <2>4. ReportInv'
      BY <1>3
      DEF ReserveSucceeds, SendPolled, Goto, PlaceInv, CountInv, ReportInv,
          Sending, Ending
    <2> QED BY <2>1, <2>2, <2>3, <2>4
  <1>4. CASE CountChunk
    <2>1. WriterTypeOK'
      BY <1>4
      DEF CountChunk, Goto, Size, Chunk, PlaceInv, CountInv, Sending, Ending,
          NoChunk, Places, Ops, Results
    <2>2. PlaceInv'
      BY <1>4
      DEF CountChunk, Goto, Size, Chunk, PlaceInv, Sending, Ending
    <2>3. CountInv'
      BY <1>4
      DEF CountChunk, Goto, Size, Chunk, PlaceInv, CountInv, Sending, Ending,
          AboutToPush, NoChunk
    <2>4. ReportInv'
      BY <1>4
      DEF CountChunk, Goto, Size, Chunk, PlaceInv, CountInv, ReportInv,
          Sending, Ending
    <2> QED BY <2>1, <2>2, <2>3, <2>4
  <1>5. CASE PushChunk
    <2>0. pending' = NoChunk /\ chan' \in Seq(Chunk)
      BY <1>5 DEF PushChunk, PlaceInv, Sending
    <2>1. CASE wpc = "drive_push"
      <3>1. WriterTypeOK'
        BY <1>5, <2>0, <2>1
        DEF PushChunk, AfterSend, Goto, Return, Chunk, PlaceInv, CountInv,
            Sending, Ending, NoChunk, Places, Ops, Results
      <3>2. PlaceInv'
        BY <1>5, <2>0, <2>1
        DEF PushChunk, AfterSend, Goto, Return, Chunk, PlaceInv, Sending,
            Ending
      <3>3. CountInv'
        BY <1>5, <2>0, <2>1
        DEF PushChunk, AfterSend, Goto, Return, Chunk, PlaceInv, CountInv,
            Sending, Ending, AboutToPush, NoChunk
      <3>4. ReportInv'
        BY <1>5, <2>0, <2>1
        DEF PushChunk, AfterSend, Goto, Return, Chunk, PlaceInv, CountInv,
            ReportInv, Sending, Ending
      <3> QED BY <3>1, <3>2, <3>3, <3>4
    <2>2. CASE wpc = "send_push" /\ op = "shutdown"
      <3>1. WriterTypeOK'
        BY <1>5, <2>0, <2>2
        DEF PushChunk, AfterSend, Goto, Return, Chunk, PlaceInv, CountInv,
            Sending, Ending, NoChunk, Places, Ops, Results
      <3>2. PlaceInv'
        BY <1>5, <2>0, <2>2
        DEF PushChunk, AfterSend, Goto, Return, Chunk, PlaceInv, Sending,
            Ending, CountInv
      <3>3. CountInv'
        BY <1>5, <2>0, <2>2
        DEF PushChunk, AfterSend, Goto, Return, Chunk, PlaceInv, CountInv,
            Sending, Ending, AboutToPush, NoChunk
      <3>4. ReportInv'
        BY <1>5, <2>0, <2>2
        DEF PushChunk, AfterSend, Goto, Return, Chunk, PlaceInv, CountInv,
            ReportInv, Sending, Ending
      <3> QED BY <3>1, <3>2, <3>3, <3>4
    <2>3. CASE wpc = "send_push" /\ op # "shutdown"
      <3>1. WriterTypeOK'
        BY <1>5, <2>0, <2>3
        DEF PushChunk, AfterSend, Goto, Return, Chunk, PlaceInv, CountInv,
            Sending, Ending, NoChunk, Places, Ops, Results
      <3>2. PlaceInv'
        BY <1>5, <2>0, <2>3
        DEF PushChunk, AfterSend, Goto, Return, Chunk, PlaceInv, Sending,
            Ending
      <3>3. CountInv'
        BY <1>5, <2>0, <2>3
        DEF PushChunk, AfterSend, Goto, Return, Chunk, PlaceInv, CountInv,
            Sending, Ending, AboutToPush, NoChunk
      <3>4. ReportInv'
        BY <1>5, <2>0, <2>3
        DEF PushChunk, AfterSend, Goto, Return, Chunk, PlaceInv, CountInv,
            ReportInv, Sending, Ending
      <3> QED BY <3>1, <3>2, <3>3, <3>4
    <2> QED BY <1>5, <2>1, <2>2, <2>3 DEF PushChunk
  <1>6. CASE WriteReturnsEarly
    <2>1. WriterTypeOK'
      BY <1>6
      DEF WriteReturnsEarly, OwnWork, Return, WriteRefusal, Owed, PlaceInv,
          CountInv, Sending, Ending, Chunk, NoChunk, Places, Ops, Results
    <2>2. PlaceInv'
      BY <1>6
      DEF WriteReturnsEarly, OwnWork, Return, WriteRefusal, Owed, PlaceInv,
          Sending, Ending
    <2>3. CountInv'
      BY <1>6
      DEF WriteReturnsEarly, OwnWork, Return, WriteRefusal, Owed, PlaceInv,
          CountInv, Sending, Ending, AboutToPush, NoChunk
    <2>4. ReportInv'
      BY <1>6
      DEF WriteReturnsEarly, OwnWork, Return, WriteRefusal, Owed, PlaceInv,
          CountInv, ReportInv, Sending, Ending
    <2> QED BY <2>1, <2>2, <2>3, <2>4
  <1>7. CASE WriteAccepts
    <2> DEFINE filled == Extended(buffer, Take)
    <2>1. /\ Take \in Nat \ {0} /\ accepted + Take <= content_length
          /\ filled \in Chunk /\ filled # NoChunk /\ sent < accepted + Take
          /\ filled.from = sent /\ filled.to = accepted + Take
          /\ pending = NoChunk /\ wpc = "drive" /\ op = "write"
          /\ sender /\ ~upload_ended /\ ~late
      BY <1>7, TakeFits
    <2>2. /\ accepted' = accepted + Take
          /\ \/ /\ Size(filled) < ChunkSize
                /\ buffer' = filled /\ wpc' = "idle" /\ ret' = "Ok"
                /\ reported' = reported + Take /\ buf_len' = 0
                /\ UNCHANGED <<pending, body_started, taken>>
             \/ /\ buffer' = NoChunk /\ pending' = filled /\ body_started' = TRUE
                /\ wpc' = "send" /\ taken' = Take
                /\ UNCHANGED <<ret, reported, buf_len>>
          /\ UNCHANGED <<op, late, content_length, sent, upload_ended, body_ended,
                         sender, chan, rx_open>>
      BY <1>7 DEF WriteAccepts
    <2> HIDE DEF filled
    <2>3. WriterTypeOK'
      <3>1. buf_len' \in 0 .. MaxWrite /\ taken' \in Nat /\ reported' \in Nat
        BY <2>1, <2>2
      <3>2. buffer' \in Chunk /\ pending' \in Chunk /\ chan' \in Seq(Chunk)
        BY <2>1, <2>2, NoChunkIsChunk
      <3>3. wpc' \in Places /\ op' \in Ops /\ ret' \in Results
        BY <2>1, <2>2 DEF Places, Ops, Results
      <3>4. accepted' \in Nat
        BY <2>1, <2>2
      <3>5. body_started' \in BOOLEAN
        BY <2>2
      <3> QED BY <2>2, <3>4, <3>5, <3>1, <3>2, <3>3
    <2>4. PlaceInv'
      BY <2>1, <2>2, NoChunkIsChunk
      DEF PlaceInv, Sending, Ending
    <2>5. CountInv'
      BY <2>1, <2>2, NoChunkIsChunk
      DEF PlaceInv, CountInv, Sending, Ending, AboutToPush, NoChunk, Size
    <2>6. ReportInv'
      BY <2>1, <2>2, NoChunkIsChunk
      DEF PlaceInv, CountInv, ReportInv, Sending, Ending
    <2> QED BY <2>3, <2>4, <2>5, <2>6
  <1>8. CASE FlushRefused
    <2>1. WriterTypeOK'
      BY <1>8
      DEF FlushRefused, OwnFlush, OwnWork, UploadIsGone, Return, PlaceInv,
          CountInv, Sending, Ending, Chunk, NoChunk, Places, Ops, Results
    <2>2. PlaceInv'
      BY <1>8
      DEF FlushRefused, OwnFlush, OwnWork, UploadIsGone, Return, PlaceInv,
          Sending, Ending
    <2>3. CountInv'
      BY <1>8
      DEF FlushRefused, OwnFlush, OwnWork, UploadIsGone, Return, PlaceInv,
          CountInv, Sending, Ending, AboutToPush, NoChunk
    <2>4. ReportInv'
      BY <1>8
      DEF FlushRefused, OwnFlush, OwnWork, UploadIsGone, Return, PlaceInv,
          CountInv, ReportInv, Sending, Ending
    <2> QED BY <2>1, <2>2, <2>3, <2>4
  <1>9. CASE FlushFindsNothing
    <2>1. WriterTypeOK'
      BY <1>9
      DEF FlushFindsNothing, OwnFlush, OwnWork, Goto, Return, PlaceInv,
          CountInv, Sending, Ending, Chunk, NoChunk, Places, Ops, Results
    <2>2. PlaceInv'
      BY <1>9
      DEF FlushFindsNothing, OwnFlush, OwnWork, Goto, Return, PlaceInv,
          Sending, Ending
    <2>3. CountInv'
      BY <1>9
      DEF FlushFindsNothing, OwnFlush, OwnWork, Goto, Return, PlaceInv,
          CountInv, Sending, Ending, AboutToPush, NoChunk
    <2>4. ReportInv'
      BY <1>9
      DEF FlushFindsNothing, OwnFlush, OwnWork, Goto, Return, PlaceInv,
          CountInv, ReportInv, Sending, Ending
    <2> QED BY <2>1, <2>2, <2>3, <2>4
  <1>10. CASE FlushSends
    <2>1. WriterTypeOK'
      BY <1>10
      DEF FlushSends, OwnFlush, OwnWork, Goto, PlaceInv, CountInv, Sending,
          Ending, Chunk, NoChunk, Places, Ops, Results
    <2>2. PlaceInv'
      BY <1>10
      DEF FlushSends, OwnFlush, OwnWork, Goto, PlaceInv, Sending, Ending
    <2>3. CountInv'
      BY <1>10
      DEF FlushSends, OwnFlush, OwnWork, Goto, PlaceInv, CountInv, Sending,
          Ending, AboutToPush, NoChunk
    <2>4. ReportInv'
      BY <1>10
      DEF FlushSends, OwnFlush, OwnWork, Goto, PlaceInv, CountInv, ReportInv,
          Sending, Ending
    <2> QED BY <2>1, <2>2, <2>3, <2>4
  <1>11. CASE MarkBodyEnded
    <2>1. WriterTypeOK'
      BY <1>11
      DEF MarkBodyEnded, Goto, PlaceInv, CountInv, Sending, Ending, Chunk,
          NoChunk, Places, Ops, Results
    <2>2. PlaceInv'
      BY <1>11
      DEF MarkBodyEnded, Goto, PlaceInv, Sending, Ending
    <2>3. CountInv'
      BY <1>11
      DEF MarkBodyEnded, Goto, PlaceInv, CountInv, Sending, Ending,
          AboutToPush, NoChunk
    <2>4. ReportInv'
      BY <1>11
      DEF MarkBodyEnded, Goto, PlaceInv, CountInv, ReportInv, Sending,
          Ending
    <2> QED BY <2>1, <2>2, <2>3, <2>4
  <1>12. CASE AnnounceBodyEnded
    <2>1. WriterTypeOK'
      BY <1>12
      DEF AnnounceBodyEnded, Goto, PlaceInv, CountInv, Sending, Ending,
          Chunk, NoChunk, Places, Ops, Results
    <2>2. PlaceInv'
      BY <1>12
      DEF AnnounceBodyEnded, Goto, PlaceInv, Sending, Ending
    <2>3. CountInv'
      BY <1>12
      DEF AnnounceBodyEnded, Goto, PlaceInv, CountInv, Sending, Ending,
          AboutToPush, NoChunk
    <2>4. ReportInv'
      BY <1>12
      DEF AnnounceBodyEnded, Goto, PlaceInv, CountInv, ReportInv, Sending,
          Ending
    <2> QED BY <2>1, <2>2, <2>3, <2>4
  <1>13. CASE HangUp
    <2>1. CASE op = "shutdown"
      <3>0. /\ wpc = "hangup" /\ sender' = FALSE /\ wpc' = "idle" /\ ret' = "Ok"
            /\ reported' = reported + taken /\ taken' = 0 /\ buf_len' = 0
            /\ UNCHANGED <<op, late, buffer, pending, content_length, accepted, sent,
                           upload_ended, body_ended, body_started, chan, rx_open>>
        BY <1>13, <2>1 DEF HangUp, Return
      <3>1. WriterTypeOK'
        <4>1. buf_len' \in 0 .. MaxWrite /\ taken' \in Nat /\ reported' \in Nat
          BY <2>1, <3>0
        <4>2. buffer' \in Chunk /\ pending' \in Chunk /\ chan' \in Seq(Chunk)
          BY <2>1, <3>0, NoChunkIsChunk
        <4>3. wpc' \in Places /\ op' \in Ops /\ ret' \in Results
          BY <2>1, <3>0 DEF Places, Ops, Results
        <4> QED BY <2>1, <3>0, <4>1, <4>2, <4>3
      <3>2. PlaceInv'
        BY <2>1, <3>0
        DEF PlaceInv, Sending, Ending
      <3>3. CountInv'
        BY <2>1, <3>0
        DEF PlaceInv, CountInv, Sending, Ending, AboutToPush, NoChunk
      <3>4. ReportInv'
        BY <2>1, <3>0
        DEF PlaceInv, CountInv, ReportInv, Sending, Ending
      <3> QED BY <3>1, <3>2, <3>3, <3>4
    <2>2. CASE op = "drop"
      <3>0. /\ wpc = "hangup" /\ sender' = FALSE /\ wpc' = "gone"
            /\ buffer' = NoChunk /\ pending' = NoChunk
            /\ UNCHANGED <<op, late, buf_len, taken, ret, reported, content_length,
                           accepted, sent, upload_ended, body_ended, body_started,
                           chan, rx_open>>
        BY <1>13, <2>2 DEF HangUp, Goto
      <3>1. WriterTypeOK'
        <4>1. buf_len' \in 0 .. MaxWrite /\ taken' \in Nat /\ reported' \in Nat
          BY <2>2, <3>0
        <4>2. buffer' \in Chunk /\ pending' \in Chunk /\ chan' \in Seq(Chunk)
          BY <2>2, <3>0, NoChunkIsChunk
        <4>3. wpc' \in Places /\ op' \in Ops /\ ret' \in Results
          BY <2>2, <3>0 DEF Places, Ops, Results
        <4> QED BY <2>2, <3>0, <4>1, <4>2, <4>3
      <3>2. PlaceInv'
        BY <2>2, <3>0
        DEF PlaceInv, Sending, Ending
      <3>3. CountInv'
        BY <2>2, <3>0
        DEF PlaceInv, CountInv, Sending, Ending, AboutToPush, NoChunk
      <3>4. ReportInv'
        BY <2>2, <3>0
        DEF PlaceInv, CountInv, ReportInv, Sending, Ending
      <3> QED BY <3>1, <3>2, <3>3, <3>4
    <2> QED BY <1>13, <2>1, <2>2 DEF HangUp
  <1> QED
    BY <1>1, <1>2, <1>3, <1>4, <1>5, <1>6, <1>7, <1>8, <1>9, <1>10, <1>11,
       <1>12, <1>13
    DEF WriterRuns

-----------------------------------------------------------------------------
(* Entering a call touches nothing but the record of the call. *)
LEMMA CallTouchesOnlyTheCall ==
    ASSUME WriterInv, WriterCalled
    PROVE  /\ UNCHANGED <<content_length, accepted, sent, upload_ended, body_ended,
                          body_started, sender, buffer, pending, chan, rx_open>>
           /\ ~AboutToPush /\ ~AboutToPush'
  BY DEF WriterCalled, PollWriteCalled, PollFlushCalled, PollShutdownCalled,
         DropCalled, Enter, AboutToPush,
         content, counters, flags, fields, channel

(* What the upload and the handle can rely on when the writer takes a step:   *)
(* a body that has ended is final, a body that is complete stays complete,    *)
(* and the writer finds the upload gone only when its Receiver is.            *)
WriterIsGentle ==
    /\ content_length' = content_length
    /\ rx_open' = rx_open
    /\ body_ended => body_ended' /\ sent' = sent /\ upload_ended' = upload_ended
    /\ sent = content_length => sent' = sent
    /\ upload_ended' = upload_ended \/ (upload_ended' /\ ~rx_open)

(* Every step of a writer in a sound state is such a step. *)
LEMMA WriterStepsAreGentle ==
    ASSUME WriterInv, WriterCalled \/ WriterRuns
    PROVE  WriterIsGentle
  <1> USE ContentLengthsAssumption
      DEF WriterInv, WriterTypeOK, PlaceInv, Sending, content, counters, flags, fields,
          channel, WriterIsGentle
  <1>1. CASE WriterCalled
    BY <1>1, CallTouchesOnlyTheCall
  <1>2. CASE ReserveFails
    BY <1>2 DEF ReserveFails, SendPolled, UploadIsGone
  <1>3. CASE ReserveWaits \/ ReserveSucceeds
    BY <1>3 DEF ReserveWaits, ReserveSucceeds
  <1>4. CASE CountChunk
    BY <1>4 DEF CountChunk, CountInv, AboutToPush, Size, Chunk
  <1>5. CASE PushChunk \/ WriteReturnsEarly \/ WriteAccepts
    BY <1>5 DEF PushChunk, WriteReturnsEarly, WriteAccepts
  <1>6. CASE FlushRefused
    BY <1>6 DEF FlushRefused, UploadIsGone
  <1>7. CASE FlushFindsNothing \/ FlushSends
    BY <1>7 DEF FlushFindsNothing, FlushSends
  <1>8. CASE MarkBodyEnded
    BY <1>8 DEF MarkBodyEnded
  <1>9. CASE AnnounceBodyEnded \/ HangUp
    BY <1>9 DEF AnnounceBodyEnded, HangUp
  <1> QED
    BY <1>1, <1>2, <1>3, <1>4, <1>5, <1>6, <1>7, <1>8, <1>9 DEF WriterRuns

(* The last chunk of the channel after a push ends where the push ends, and  *)
(* the chain goes on through it.                                             *)
LEMMA PushKeepsChain ==
    ASSUME WriterInv, RequestTypeOK, Chained, ChannelEnd = pending.from,
           pending.from < pending.to,
           chan' = Append(chan, pending), wire' = wire
    PROVE  Chained' /\ ChannelEnd' = pending.to
  <1>0. PICK n \in Nat : n = Len(chan)
    BY DEF WriterInv, WriterTypeOK
  <1>1. /\ n \in Nat
        /\ Len(chan') = n + 1
        /\ chan' # << >>
        /\ chan'[n + 1] = pending
        /\ \A k \in 1 .. n : chan'[k] = chan[k]
        /\ \A k \in 1 .. n : chan[k] \in Chunk
        /\ pending \in Chunk
    BY <1>0 DEF WriterInv, WriterTypeOK
  <1>2. ChannelEnd' = pending.to
    BY <1>1 DEF ChannelEnd
  <1>3. \A k \in 1 .. n : chan[k].to <= pending.from
    BY <1>0 DEF Chained
  <1>4. PieceStart(n + 1)' = pending.from
    BY <1>0, <1>1 DEF PieceStart, ChannelEnd
  <1>5. \A k \in 1 .. n : PieceStart(k)' = PieceStart(k)
    BY <1>1 DEF PieceStart
  <1>6. ASSUME NEW k \in 1 .. n + 1
        PROVE  /\ chan'[k].from = PieceStart(k)'
               /\ chan'[k].from < chan'[k].to
               /\ chan'[k].to <= ChannelEnd'
    <2>1. CASE k = n + 1
      BY <1>1, <1>2, <1>4, <2>1 DEF Chunk
    <2>2. CASE k # n + 1
      BY <1>0, <1>1, <1>2, <1>3, <1>5, <2>2 DEF Chained, Chunk
    <2> QED BY <2>1, <2>2
  <1>7. ASSUME NEW i \in 1 .. n + 1, NEW k \in 1 .. n + 1, i < k
        PROVE  chan'[i].to <= chan'[k].from
    <2>1. CASE k = n + 1
      BY <1>1, <1>3, <1>7, <2>1 DEF Chunk
    <2>2. CASE k # n + 1
      <3>1. i \in 1 .. n /\ k \in 1 .. n
        BY <1>1, <1>7, <2>2
      <3>2. chan[i].to <= chan[k].from
        BY <1>0, <1>7, <3>1 DEF Chained
      <3> QED BY <1>1, <3>1, <3>2
    <2> QED BY <2>1, <2>2
  <1> QED BY <1>1, <1>2, <1>6, <1>7 DEF Chained

(* A step of the writer keeps the channel in line with what it counted. *)
LEMMA WriterKeepsChannel ==
    ASSUME WriterInv, ChannelInv, RequestTypeOK, UNCHANGED requestVars,
           WriterCalled \/ WriterRuns
    PROVE  ChannelInv'
  <1> USE ContentLengthsAssumption DEF WriterInv, WriterTypeOK, RequestTypeOK, requestVars
  <1>1. CASE PushChunk
    <2>1. /\ UNCHANGED <<rx_open, sent, content_length, wire, stored>>
          /\ AboutToPush /\ ~AboutToPush'
          /\ pending # NoChunk
      BY <1>1
      DEF PushChunk, AfterSend, Goto, Return, content, counters, AboutToPush,
          PlaceInv, Sending
    <2>2. pending.from < pending.to /\ sent = pending.to
      BY <2>1 DEF CountInv
    <2>3. CASE rx_open
      <3>1. chan' = Append(chan, pending)
        BY <1>1, <2>3 DEF PushChunk
      <3>2. Chained' /\ ChannelEnd' = pending.to
        BY <2>1, <2>2, <2>3, <3>1, PushKeepsChain DEF ChannelInv
      <3> QED BY <2>1, <2>2, <2>3, <3>2 DEF ChannelInv
    <2>4. CASE ~rx_open
      BY <1>1, <2>1, <2>4 DEF ChannelInv, PushChunk
    <2> QED BY <2>3, <2>4
  <1>2. CASE ~PushChunk
    <2>1. UNCHANGED <<chan, rx_open, content_length>>
      BY <1>2, CallTouchesOnlyTheCall
      DEF WriterRuns, ReserveFails, ReserveWaits, ReserveSucceeds, CountChunk,
          WriteReturnsEarly, WriteAccepts, FlushRefused, FlushFindsNothing,
          FlushSends, MarkBodyEnded, AnnounceBodyEnded, HangUp, channel, content
    <2>2. Chained' = Chained /\ ChannelEnd' = ChannelEnd
      BY <2>1 DEF Chained, ChannelEnd, PieceStart
    <2>3. CASE CountChunk
      <3>1. /\ pending # NoChunk /\ pending' = pending
            /\ ~AboutToPush /\ AboutToPush'
            /\ sent' = sent + Size(pending)
        BY <2>3 DEF CountChunk, Goto, fields, AboutToPush, PlaceInv, Sending
      <3>2. sent = pending.from /\ pending.from < pending.to
        BY <3>1 DEF CountInv
      <3> QED BY <2>1, <2>2, <3>1, <3>2 DEF ChannelInv, Size, Chunk
    <2>4. CASE ~CountChunk
      <3>1. sent' = sent /\ ~AboutToPush /\ ~AboutToPush'
        BY <1>2, <2>4, CallTouchesOnlyTheCall
        DEF WriterRuns, ReserveFails, ReserveWaits, ReserveSucceeds, SendPolled,
            UploadIsGone, WriteReturnsEarly, WriteAccepts, FlushRefused,
            FlushFindsNothing, FlushSends, OwnFlush, OwnWork, MarkBodyEnded,
            AnnounceBodyEnded, HangUp, counters, AboutToPush, Goto, Return
      <3> QED BY <2>1, <2>2, <3>1 DEF ChannelInv
    <2> QED BY <2>3, <2>4
  <1> QED BY <1>1, <1>2

-----------------------------------------------------------------------------
(* A step that leaves the writer alone keeps its invariant, whatever it does  *)
(* to the channel.                                                           *)
LEMMA WriterKeptKeepsInv ==
    ASSUME WriterInv, WriterKept, chan' \in Seq(Chunk), rx_open' \in BOOLEAN
    PROVE  WriterInv'
  <1> USE DEF WriterKept, content, counters, flags, fields, caller
  <1>1. WriterTypeOK'
    BY DEF WriterInv, WriterTypeOK
  <1>2. PlaceInv'
    BY DEF WriterInv, PlaceInv
  <1>3. CountInv'
    BY DEF WriterInv, CountInv, AboutToPush, Size
  <1>4. ReportInv'
    BY DEF WriterInv, ReportInv
  <1> QED BY <1>1, <1>2, <1>3, <1>4 DEF WriterInv

(* Taking the first chunk out of the channel moves the wire to where that     *)
(* chunk ends, and the rest of the chain follows from there.                 *)
LEMMA RecvKeepsChain ==
    ASSUME WriterInv, RequestTypeOK, Chained, Recv
    PROVE  /\ Chained'
           /\ ChannelEnd' = ChannelEnd
           /\ wire' \in Nat
           /\ wire < wire' /\ wire' <= ChannelEnd
  <1>0. PICK n \in Nat : n = Len(chan)
    BY DEF WriterInv, WriterTypeOK
  <1>1. /\ n >= 1
        /\ \A k \in 1 .. n : chan[k] \in Chunk
        /\ Head(chan) = chan[1]
        /\ chan' \in Seq(Chunk)
        /\ Len(chan') = n - 1
        /\ \A k \in 1 .. n - 1 : chan'[k] = chan[k + 1]
    BY <1>0 DEF WriterInv, WriterTypeOK, Recv
  <1>2. /\ chan[1].from = wire
        /\ chan[1].from < chan[1].to
        /\ chan[1].to <= ChannelEnd
    BY <1>0, <1>1 DEF Chained, PieceStart
  <1>3. wire' = chan[1].to
    BY <1>1, <1>2 DEF Recv, Size, Chunk, RequestTypeOK
  <1>4. ChannelEnd' = ChannelEnd
    <2>1. CASE n = 1
      <3>1. chan' = << >>
        BY <1>1, <2>1
      <3>2. chan # << >> /\ Len(chan) = 1
        BY <1>0, <2>1 DEF Recv
      <3> QED BY <1>3, <3>1, <3>2 DEF ChannelEnd
    <2>2. CASE n > 1
      BY <1>0, <1>1, <2>2 DEF ChannelEnd
    <2> QED BY <1>1, <2>1, <2>2
  <1>5. ASSUME NEW k \in 1 .. n - 1
        PROVE  PieceStart(k)' = PieceStart(k + 1)
    BY <1>1, <1>3 DEF PieceStart
  <1>6. ASSUME NEW k \in 1 .. n - 1
        PROVE  /\ chan'[k].from = PieceStart(k)'
               /\ chan'[k].from < chan'[k].to
               /\ chan'[k].to <= ChannelEnd'
    BY <1>0, <1>1, <1>4, <1>5 DEF Chained
  <1>7. ASSUME NEW i \in 1 .. n - 1, NEW k \in 1 .. n - 1, i < k
        PROVE  chan'[i].to <= chan'[k].from
    <2>1. chan[i + 1].to <= chan[k + 1].from
      BY <1>0, <1>7 DEF Chained
    <2> QED BY <1>1, <2>1
  <1>8. Chained'
    BY <1>1, <1>6, <1>7 DEF Chained
  <1> QED BY <1>1, <1>2, <1>3, <1>4, <1>8 DEF Chunk

(* The request and the storage keep the writer's invariant and the channel's. *)
LEMMA RequestKeepsInv ==
    ASSUME WriterInv, ChannelInv, RequestTypeOK, RequestRuns
    PROVE  WriterInv' /\ ChannelInv' /\ RequestTypeOK'
  <1> USE ContentLengthsAssumption DEF content, counters, flags, fields, channel, caller
  <1>1. CASE Recv
    <2>1. rx_open
      BY <1>1 DEF Recv, ChannelInv, WriterInv, WriterTypeOK
    <2>2. /\ Chained' /\ ChannelEnd' = ChannelEnd
          /\ wire' \in Nat /\ wire < wire' /\ wire' <= ChannelEnd
      BY <1>1, <2>1, RecvKeepsChain DEF ChannelInv
    <2>3. WriterInv'
      <3>1. chan' \in Seq(Chunk)
        BY <1>1 DEF Recv, WriterInv, WriterTypeOK
      <3> QED
        BY <1>1, <3>1, WriterKeptKeepsInv DEF Recv, WriterInv, WriterTypeOK
    <2>4. RequestTypeOK'
      BY <1>1, <2>2 DEF Recv, RequestTypeOK
    <2>5. /\ ChannelEnd = IF AboutToPush THEN pending.from ELSE sent
          /\ AboutToPush => pending.from < sent
          /\ sent <= content_length
          /\ sent \in Nat /\ content_length \in Nat /\ pending \in Chunk
      BY <2>1
      DEF ChannelInv, WriterInv, WriterTypeOK, CountInv, PlaceInv, AboutToPush, Sending
    <2>6. wire' <= sent /\ wire < content_length
      BY <2>2, <2>5 DEF RequestTypeOK, Chunk
    <2>7. UNCHANGED <<rx_open, sent, pending, content_length, stored, wpc>>
      BY <1>1 DEF Recv, WriterKept
    <2>8. ~stored
      BY <2>6 DEF ChannelInv, RequestTypeOK
    <2> QED
      BY <2>1, <2>2, <2>3, <2>4, <2>5, <2>6, <2>7, <2>8 DEF ChannelInv, AboutToPush
  <1>2. CASE CloseBody
    <2>1. rx_open' = FALSE /\ chan' = << >> /\ WriterKept /\ UNCHANGED requestVars
      BY <1>2 DEF CloseBody
    <2>2. WriterInv'
      <3>1. << >> \in Seq(Chunk)
        OBVIOUS
      <3>2. chan' \in Seq(Chunk) /\ rx_open' \in BOOLEAN
        BY <2>1, <3>1
      <3> QED BY <2>1, <3>2, WriterKeptKeepsInv
    <2> QED
      BY <2>1, <2>2 DEF ChannelInv, RequestTypeOK, requestVars, WriterKept
  <1>3. ASSUME WriterKept, UNCHANGED <<chan, rx_open, wire>>,
               stored' = stored \/ (stored' = TRUE /\ wire = content_length)
        PROVE  WriterInv' /\ ChannelInv'
    <2>1. WriterInv'
      BY <1>3, WriterKeptKeepsInv DEF WriterInv, WriterTypeOK
    <2>2. Chained' = Chained /\ ChannelEnd' = ChannelEnd
      BY <1>3 DEF Chained, ChannelEnd, PieceStart
    <2> QED BY <1>3, <2>1, <2>2 DEF WriterKept, ChannelInv, AboutToPush
  <1>4. CASE Commit
    BY <1>3, <1>4 DEF Commit, RequestTypeOK
  <1>5. CASE StorageAccepts
    BY <1>3, <1>5 DEF StorageAccepts, Over, RequestTypeOK
  <1>6. ASSUME NEW e \in S3Errors, RequestFails(e)
        PROVE  WriterInv' /\ ChannelInv' /\ RequestTypeOK'
    BY <1>3, <1>6 DEF RequestFails, Over, RequestTypeOK
  <1> QED BY <1>1, <1>2, <1>4, <1>5, <1>6 DEF RequestRuns

(* A step that leaves the writer and the wire alone keeps the writer's        *)
(* invariant and the channel's, whether or not it takes the Receiver away.    *)
LEMMA ClosingKeepsInv ==
    ASSUME WriterInv, ChannelInv, WriterKept, UNCHANGED <<wire, stored>>,
           UNCHANGED channel \/ (rx_open' = FALSE /\ chan' = << >>)
    PROVE  WriterInv' /\ ChannelInv'
  <1>1. chan' \in Seq(Chunk) /\ rx_open' \in BOOLEAN
    <2>1. CASE UNCHANGED channel
      BY <2>1 DEF WriterInv, WriterTypeOK, channel
    <2>2. CASE rx_open' = FALSE /\ chan' = << >>
      <3>1. << >> \in Seq(Chunk)
        OBVIOUS
      <3> QED BY <2>2, <3>1
    <2> QED BY <2>1, <2>2
  <1>2. WriterInv'
    BY <1>1, WriterKeptKeepsInv
  <1> USE DEF WriterKept, content, counters, flags, fields, caller, channel
  <1>3. CASE UNCHANGED channel
    <2>1. Chained' = Chained
      BY <1>3 DEF Chained, ChannelEnd, PieceStart
    <2>2. ChannelEnd' = ChannelEnd
      BY <1>3 DEF ChannelEnd
    <2> QED BY <1>2, <1>3, <2>1, <2>2 DEF ChannelInv, AboutToPush
  <1>4. CASE rx_open' = FALSE /\ chan' = << >>
    BY <1>2, <1>4 DEF ChannelInv
  <1> QED BY <1>3, <1>4

-----------------------------------------------------------------------------
(* A new writer, with nothing sent yet, satisfies the invariants. *)
LEMMA FreshWriterIsSound ==
    ASSUME WriterInit, wire = 0, stored = FALSE
    PROVE  WriterInv /\ ChannelInv
  <1> USE ContentLengthsAssumption, ChunkSizeAssumption, MaxWriteAssumption DEF WriterInit
  <1>1. WriterTypeOK
    <2>1. buffer \in Chunk /\ pending \in Chunk /\ chan \in Seq(Chunk)
      BY NoChunkIsChunk
    <2>2. wpc \in Places /\ op \in Ops /\ ret \in Results
      BY DEF Places, Ops, Results
    <2>3. /\ accepted \in Nat /\ sent \in Nat /\ taken \in Nat /\ reported \in Nat
          /\ buf_len \in 0 .. MaxWrite
      OBVIOUS
    <2>4. /\ upload_ended \in BOOLEAN /\ body_ended \in BOOLEAN /\ late \in BOOLEAN
          /\ body_started \in BOOLEAN /\ sender \in BOOLEAN /\ rx_open \in BOOLEAN
      OBVIOUS
    <2> QED BY <2>1, <2>2, <2>3, <2>4 DEF WriterTypeOK
  <1>2. WriterInv
    BY <1>1
    DEF WriterTypeOK, WriterInv, PlaceInv, CountInv, ReportInv, Sending, Ending, NoChunk
  <1>3. ChannelInv
    BY DEF ChannelInv, Chained, ChannelEnd, PieceStart, AboutToPush
  <1> QED BY <1>2, <1>3

(* So does the one that a retry puts in its place. *)
LEMMA RenewedWriterIsSound ==
    ASSUME WriterInv, WriterRenewed, wire' = 0, stored' = FALSE
    PROVE  WriterInv' /\ ChannelInv'
  <1> USE ContentLengthsAssumption, ChunkSizeAssumption, MaxWriteAssumption DEF WriterRenewed
  <1>1. WriterTypeOK'
    <2>1. buffer' \in Chunk /\ pending' \in Chunk /\ chan' \in Seq(Chunk)
      BY NoChunkIsChunk
    <2>2. wpc' \in Places /\ op' \in Ops /\ ret' \in Results
      BY DEF Places, Ops, Results
    <2>3. /\ accepted' \in Nat /\ sent' \in Nat /\ taken' \in Nat /\ reported' \in Nat
          /\ buf_len' \in 0 .. MaxWrite
      OBVIOUS
    <2>4. /\ upload_ended' \in BOOLEAN /\ body_ended' \in BOOLEAN /\ late' \in BOOLEAN
          /\ body_started' \in BOOLEAN /\ sender' \in BOOLEAN /\ rx_open' \in BOOLEAN
      OBVIOUS
    <2>5. content_length' \in ContentLengths
      BY DEF WriterInv, WriterTypeOK
    <2> QED BY <2>1, <2>2, <2>3, <2>4, <2>5 DEF WriterTypeOK
  <1>2. WriterInv'
    BY <1>1
    DEF WriterTypeOK, WriterInv, PlaceInv, CountInv, ReportInv, Sending, Ending, NoChunk
  <1>3. ChannelInv'
    BY DEF ChannelInv, Chained, ChannelEnd, PieceStart, AboutToPush
  <1> QED BY <1>2, <1>3

(* The invariants leave no hole in the body. *)
LEMMA InvMakesContiguous == WriterInv /\ ChannelInv => BodyIsContiguous
  <1> SUFFICES ASSUME WriterInv, ChannelInv, rx_open PROVE BodyIsContiguous
    BY DEF BodyIsContiguous
  <1>1. \A k \in 1 .. Len(chan) : chan[k].from = PieceStart(k)
    BY DEF ChannelInv, Chained
  <1>2. ChannelEnd = IF AboutToPush THEN pending.from ELSE sent
    BY DEF ChannelInv
  <1>3. pending # NoChunk => pending.from = ChannelEnd
    BY <1>2 DEF WriterInv, CountInv
  <1>4. buffer # NoChunk => pending = NoChunk /\ buffer.from = ChannelEnd
    BY <1>2 DEF WriterInv, CountInv, PlaceInv, AboutToPush, Sending
  <1> QED BY <1>1, <1>3, <1>4 DEF BodyIsContiguous

(* A writer that is gone takes no further step. *)
LEMMA GoneWriterIsSilent ==
    ASSUME WriterCalled \/ WriterRuns
    PROVE  wpc # "gone"
  BY DEF WriterCalled, PollWriteCalled, PollFlushCalled, PollShutdownCalled, DropCalled, Enter,
         WriterRuns, ReserveFails, ReserveWaits, ReserveSucceeds, SendPolled, CountChunk,
         PushChunk, WriteReturnsEarly, WriteAccepts, FlushRefused, FlushFindsNothing,
         FlushSends, OwnFlush, OwnWork, MarkBodyEnded, AnnounceBodyEnded, HangUp
=============================================================================
