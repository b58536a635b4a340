------------------------------- MODULE S3Reader -------------------------------
(***************************************************************************)
(* S3Reader (src/src/reader.rs): one object as AsyncRead + AsyncSeek.       *)
(*                                                                          *)
(* The reader is used through &mut, so a poll_* call is one step; what goes *)
(* on between calls is the ranged GET it started.  A read that returned     *)
(* Pending may be given up and followed by any other call.                  *)
(***************************************************************************)
EXTENDS DownloadStream

CONSTANTS
    MaxBuffer,       \* the largest buffer a caller reads into
    InterleavedSeeks \* whether a caller may read between start_seek and
                     \* poll_complete; AsyncSeekExt::seek never does

ASSUME MaxBufferAssumption == MaxBuffer \in Nat
ASSUME InterleavedSeeksAssumption == InterleavedSeeks \in BOOLEAN

VARIABLES
    size,      \* from the HEAD at open time
    position,  \* the offset of the next byte to hand out
    pending,   \* a GET was started and has not been polled to its end
    requested, \* the length it asked for
    leftover,  \* [from, to): fetched and not yet handed out
    seek_to,   \* the target of a seek in progress, or NoSeek
    room,      \* the room in the buffer of the last call, 0 unless a read
    asked_at,  \* the position it was made at
    handed,    \* [from, to): the bytes it handed out
    ret        \* the result of the last call

readerVars == <<size, position, pending, requested, leftover, seek_to,
                room, asked_at, handed, ret>>
vars == <<user, misbehaves, object, version, get, ranged, first, last, source,
          origin, coming, stated, received, outcome,
          size, position, pending, requested, leftover, seek_to,
          room, asked_at, handed, ret>>

NoSeek == -1
Nothing == [from |-> 0, to |-> 0]
Extent == [from : 0 .. MaxOffset, to : 0 .. MaxOffset]
Width(e) == e.to - e.from

Results == {"none", "Ok", "Pending", "NotFound", "UnexpectedEof", "InvalidData",
            "InvalidInput", "Other"}

(* open_reader: the size is read once, by a HEAD *)
Init ==
    /\ StreamInit
    /\ size = object
    /\ position = 0
    /\ pending = FALSE
    /\ requested = 0
    /\ leftover = Nothing
    /\ seek_to = NoSeek
    /\ room = 0
    /\ asked_at = 0
    /\ handed = Nothing
    /\ ret = "none"

-----------------------------------------------------------------------------
(* drain_leftover, of the fetched bytes e into a buffer with room for n *)
Drain(e, n) ==
    LET taken == Least(Width(e), n) IN
    /\ handed' = IF taken = 0 THEN Nothing
                 ELSE [from |-> e.from, to |-> e.from + taken]
    /\ leftover' = IF taken = Width(e) THEN Nothing
                   ELSE [e EXCEPT !.from = @ + taken]
    /\ room' = n
    /\ asked_at' = position
    /\ position' = (position + taken) % (MaxOffset + 1)
    /\ ret' = "Ok"

(* A read into a buffer with room for n returns r and hands out nothing. *)
ReadReturns(r, n) ==
    /\ ret' = r
    /\ room' = n
    /\ handed' = Nothing
    /\ asked_at' = position
    /\ UNCHANGED <<position, leftover>>

ReadAllowed == InterleavedSeeks \/ seek_to = NoSeek

(* Bytes a request already paid for come first. *)
ReadLeftover(n) ==
    /\ ReadAllowed
    /\ leftover # Nothing
    /\ Drain(leftover, n)
    /\ UNCHANGED <<size, pending, requested, seek_to, streamVars>>

(* The end of the object, or no room in the buffer: no request is made *)
ReadNothing(n) ==
    /\ ReadAllowed
    /\ leftover = Nothing
    /\ ~pending
    /\ position >= size \/ n = 0
    /\ ReadReturns("Ok", n)
    /\ UNCHANGED <<size, pending, requested, seek_to, streamVars>>

(* Variant of Wanted, deliberately wrong: the end of the object is ignored. *)
WantedBlindly(n) == n

(* What is asked for and is there *)
Wanted(n) == Least(n, size - position)

(* start_read: one GET for it *)
ReadStarts(n) ==
    /\ ReadAllowed
    /\ leftover = Nothing
    /\ ~pending
    /\ position < size
    /\ n > 0
    /\ pending' = TRUE
    /\ requested' = Wanted(n)
    /\ Ask(TRUE, position, position + Wanted(n) - 1)
    /\ ReadReturns("Pending", n)
    /\ UNCHANGED <<size, seek_to>>

(* The GET has not answered yet. *)
ReadWaits(n) ==
    /\ ReadAllowed
    /\ leftover = Nothing
    /\ pending
    /\ get # "done"
    /\ ReadReturns("Pending", n)
    /\ UNCHANGED <<size, pending, requested, seek_to, streamVars>>

(* Variant of ReadError, deliberately wrong: a short answer is handed out. *)
ShortAnswerTaken ==
    CASE outcome = "KeyNotFound" -> "NotFound"
      [] outcome \notin {"Ok", "Enough", "KeyNotFound"} -> "Other"
      [] outcome \in {"Ok", "Enough"} /\ received > requested -> "InvalidData"
      [] OTHER -> "none"

(* The io::Error of a GET that failed, or whose length is not the one that   *)
(* was asked for; "none" for one that can be handed out.                     *)
ReadError ==
    CASE outcome = "KeyNotFound" -> "NotFound"
      [] outcome \notin {"Ok", "Enough", "KeyNotFound"} -> "Other"
      [] outcome = "Ok" /\ received < requested -> "UnexpectedEof"
      [] outcome \in {"Ok", "Enough"} /\ received > requested -> "InvalidData"
      [] OTHER -> "none"

(* Variant of ReadFails, deliberately wrong: the future stays in pending. *)
ReadFailsKeepingFuture(n) ==
    /\ ReadAllowed
    /\ leftover = Nothing
    /\ pending
    /\ get = "done"
    /\ ReadError # "none"
    /\ ReadReturns(ReadError, n)
    /\ GetDropped
    /\ UNCHANGED <<size, pending, requested, seek_to>>

(* The error goes to the caller; the GET is gone and the next read starts over. *)
ReadFails(n) ==
    /\ ReadAllowed
    /\ leftover = Nothing
    /\ pending
    /\ get = "done"
    /\ ReadError # "none"
    /\ pending' = FALSE
    /\ ReadReturns(ReadError, n)
    /\ requested' = 0
    /\ GetDropped
    /\ UNCHANGED <<size, seek_to>>

(* The body becomes the leftover, and as much of it as fits is handed out. *)
ReadCompletes(n) ==
    /\ ReadAllowed
    /\ leftover = Nothing
    /\ pending
    /\ get = "done"
    /\ ReadError = "none"
    /\ pending' = FALSE
    /\ Drain([from |-> origin, to |-> origin + received], n)
    /\ requested' = 0
    /\ GetDropped
    /\ UNCHANGED <<size, seek_to>>

-----------------------------------------------------------------------------
(* The calls of AsyncSeek return r and hand out nothing. *)
SeekReturns(r) ==
    /\ ret' = r
    /\ room' = 0
    /\ handed' = Nothing
    /\ asked_at' = position
    /\ UNCHANGED <<size, pending, requested, streamVars>>

(* Variant of InRange, deliberately wrong: only the start is guarded. *)
InRangeBelowOnly(target) == target >= 0

(* resolve_offset's base + delta, in range or refused *)
InRange(target) == target \in 0 .. MaxOffset

(* start_seek to Start(t) (a base of 0), Current(d) or End(d) *)
StartSeek(base, delta) ==
    /\ IF pending \/ seek_to # NoSeek
       THEN SeekReturns("Other") /\ UNCHANGED seek_to
       ELSE IF InRange(base + delta)
       THEN SeekReturns("Ok") /\ seek_to' = base + delta
       ELSE SeekReturns("InvalidInput") /\ UNCHANGED seek_to
    /\ UNCHANGED <<position, leftover>>

(* Variant of PollComplete, deliberately wrong: the leftover is kept. *)
SeekKeepsLeftover ==
    /\ position' = IF seek_to = NoSeek THEN position ELSE seek_to
    /\ seek_to' = NoSeek
    /\ SeekReturns("Ok")
    /\ UNCHANGED leftover

(* poll_complete; without a seek in progress it changes nothing *)
PollComplete ==
    /\ IF seek_to = NoSeek
       THEN UNCHANGED <<position, leftover>>
       ELSE position' = seek_to /\ leftover' = Nothing
    /\ seek_to' = NoSeek
    /\ SeekReturns("Ok")

-----------------------------------------------------------------------------
Reads ==
    \E n \in 0 .. MaxBuffer :
        \/ ReadLeftover(n)
        \/ ReadNothing(n)
        \/ ReadStarts(n)
        \/ ReadWaits(n)
        \/ ReadFails(n)
        \/ ReadCompletes(n)

Seeks ==
    \/ \E t \in 0 .. MaxOffset : StartSeek(0, t)
    \/ \E d \in -MaxOffset .. MaxOffset : StartSeek(position, d) \/ StartSeek(size, d)
    \/ PollComplete

(* The loop of start_read reads the body until it ends, or until it has more *)
(* than was asked for.                                                       *)
GetReads == pending /\ received <= requested /\ GetNextChunk

GetStops ==
    /\ pending
    /\ get = "streaming"
    /\ received > requested
    /\ Done("Enough")
    /\ UNCHANGED <<objectVars, askVars, answerVars, received>>

GetRuns == (StorageRuns \/ GetReads \/ GetStops) /\ UNCHANGED readerVars

Next ==
    \/ user = "reader" /\ (Reads \/ Seeks)
    \/ Downloads /\ UNCHANGED readerVars
    \/ GetRuns

Spec == Init /\ [][Next]_vars

(* A GET that was made is answered or fails, and is read to its end; the     *)
(* caller of a read that is Pending polls it again once it is woken.         *)
Fairness ==
    /\ WF_vars(GetRuns)
    /\ WF_vars(\E n \in 1 .. MaxBuffer : ReadCompletes(n) \/ ReadFails(n))

FairSpec == Spec /\ Fairness

-----------------------------------------------------------------------------
TypeOK ==
    /\ StreamTypeOK
    /\ size \in ObjectSizes
    /\ position \in 0 .. MaxOffset
    /\ pending \in BOOLEAN
    /\ requested \in 0 .. MaxOffset
    /\ leftover \in Extent
    /\ seek_to \in 0 .. MaxOffset \cup {NoSeek}
    /\ room \in 0 .. MaxBuffer
    /\ asked_at \in 0 .. MaxOffset
    /\ handed \in Extent
    /\ ret \in Results

(* Every byte handed out is the byte at the reader's position: a read never  *)
(* returns the bytes of an offset that was left, and a cancelled read        *)
(* followed by a shorter one leaves no hole (leftover).                      *)
BytesAreInPlace == handed # Nothing => handed.from = asked_at

(* A read says end of file only at the end: Ok with no bytes in a buffer     *)
(* that had room means the position is at or past the size.                  *)
EofIsTheEnd ==
    (ret = "Ok" /\ room > 0 /\ handed = Nothing) => asked_at >= size

(* "a well-formed reader cannot produce the 416" (start_read): as long as    *)
(* the object is the one that was opened and the storage is sound, no range  *)
(* is refused and no length is wrong.                                        *)
RangesAreSatisfiable ==
    (version = 0 /\ ~misbehaves) =>
        /\ pending => outcome \notin {"RangeNotSatisfiable", "InvalidRange"}
        /\ ret \notin {"UnexpectedEof", "InvalidData"}

(* A read that was started ends, one way or the other. *)
StartedReadEnds == pending ~> ~pending
=============================================================================
