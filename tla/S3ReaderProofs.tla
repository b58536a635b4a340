---------------------------- MODULE S3ReaderProofs ----------------------------
(***************************************************************************)
(* What S3Reader and S3DownloadStream keep, for every size of object, every  *)
(* buffer and every u64::MAX.                                               *)
(***************************************************************************)
EXTENDS S3Reader, TLAPS

(* The GET has been answered with a body that can be handed on. *)
Answered == get = "streaming" \/ outcome \in {"Ok", "Enough"}

(* What a GET under way owes to its question and to the storage *)
StreamInv ==
    /\ get = "done" <=> outcome # "none"
    /\ get = "asked" => received = 0
    /\ (get \in {"asked", "streaming"} \/ outcome = "Ok") /\ ranged => first <= last
    /\ Answered => received <= coming
    /\ outcome = "Ok" => received = coming
    /\ version = 0 => source = 0
    /\ Answered /\ ~ranged /\ source = version => coming = object
    /\ Answered /\ ranged => origin = first

(* What the reader knows of its GET, and of the bytes it keeps *)
ReaderInv ==
    /\ pending =>
          /\ user = "reader"
          /\ ranged
          /\ get # "none"
          /\ requested >= 1
          /\ last = first + requested - 1
          /\ first + requested <= size
          /\ outcome # "InvalidRange"
    /\ outcome = "Enough" => pending /\ received > requested
    /\ user = "reader" /\ ~pending => get = "none"
    /\ leftover # Nothing => leftover.from < leftover.to

(* What it knows of the storage, as long as the object is the one it opened *)
SoundInv ==
    /\ version = 0 => object = size
    /\ version = 0 /\ ~misbehaves /\ pending /\ Answered => coming = requested

IInv ==
    /\ TypeOK
    /\ StreamInv
    /\ ReaderInv
    /\ SoundInv
    /\ EofIsTheEnd
    /\ RangesAreSatisfiable

(* Where the reader is, in the hands of a caller that lets a seek finish      *)
(* before it reads on                                                        *)
PositionInv ==
    /\ pending => seek_to = NoSeek /\ first = position
    /\ leftover # Nothing =>
          /\ ~pending
          /\ leftover.from = position
          /\ leftover.to <= size
    /\ BytesAreInPlace

-----------------------------------------------------------------------------
(* An offset that fits is not changed by wrapping, and a wrapped one fits. *)
LEMMA Wrapping ==
    ASSUME NEW a \in Nat, NEW m \in Nat
    PROVE  /\ a % (m + 1) \in 0 .. m
           /\ a <= m => a % (m + 1) = a
  OBVIOUS

(* Opening a reader, or making an S3Client, establishes the invariants. *)
LEMMA InitEstablishesInv == Init => IInv /\ PositionInv
  <1> SUFFICES ASSUME Init PROVE IInv /\ PositionInv
    OBVIOUS
  <1> USE ObjectSizesAssumption, MaxOffsetAssumption, MaxBufferAssumption
      DEF Init, StreamInit
  <1>1. StreamTypeOK
    <2>1. /\ user \in {"reader", "caller"} /\ version \in {0, 1} /\ source \in {0, 1}
          /\ get \in {"none", "asked", "streaming", "done"} /\ outcome \in Outcomes
      BY DEF Outcomes
    <2>2. misbehaves \in Misbehaving /\ ranged \in BOOLEAN /\ stated \in BOOLEAN
      OBVIOUS
    <2> QED BY <2>1, <2>2 DEF StreamTypeOK
  <1>2. leftover \in Extent /\ handed \in Extent
    BY DEF Extent, Nothing
  <1>3. TypeOK
    <2>1. pending \in BOOLEAN /\ ret \in Results /\ seek_to \in 0 .. MaxOffset \cup {NoSeek}
      BY DEF Results
    <2> QED BY <1>1, <1>2, <2>1 DEF TypeOK
  <1>4. StreamInv /\ ReaderInv /\ SoundInv
    BY DEF StreamInv, ReaderInv, SoundInv, Answered
  <1>5. EofIsTheEnd /\ RangesAreSatisfiable /\ PositionInv
    BY DEF EofIsTheEnd, RangesAreSatisfiable, PositionInv, BytesAreInPlace
  <1> QED BY <1>3, <1>4, <1>5 DEF IInv

-----------------------------------------------------------------------------
(* A step of the storage, of the transport or of a caller of download_file     *)
(* keeps the invariant of the GET and what the reader knows of it.           *)
LEMMA StorageKeepsInv ==
    ASSUME IInv, StorageRuns, UNCHANGED readerVars
    PROVE  StreamTypeOK' /\ StreamInv' /\ ReaderInv' /\ SoundInv'
  <1> USE ObjectSizesAssumption, MaxOffsetAssumption
      DEF IInv, TypeOK, StreamTypeOK, Answered, readerVars, objectVars, askVars, answerVars
  <1>1. CASE AnswersWhole
    <2>1. StreamTypeOK'
      BY <1>1 DEF AnswersWhole, Streams
    <2>2. StreamInv'
      BY <1>1 DEF AnswersWhole, Streams, StreamInv
    <2>3. ReaderInv' /\ SoundInv'
      BY <1>1 DEF AnswersWhole, Streams, StreamInv, ReaderInv, SoundInv
    <2> QED BY <2>1, <2>2, <2>3
  <1>2. CASE AnswersPartial
    <2>0. /\ first <= last /\ first < object
          /\ coming' = Least(last, object - 1) - first + 1
          /\ coming' \in 0 .. MaxOffset
      BY <1>2 DEF AnswersPartial, Streams, StreamInv, Least
    <2>1. StreamTypeOK'
      BY <1>2, <2>0 DEF AnswersPartial, Streams
    <2>2. StreamInv'
      BY <1>2, <2>0 DEF AnswersPartial, Streams, StreamInv
    <2>3. ReaderInv'
      BY <1>2, <2>0 DEF AnswersPartial, Streams, StreamInv, ReaderInv
    <2>4. SoundInv'
      BY <1>2, <2>0 DEF AnswersPartial, Streams, StreamInv, ReaderInv, SoundInv, Least
    <2> QED BY <2>1, <2>2, <2>3, <2>4
  <1>3. CASE AnswersMistaken
    <2>1. StreamTypeOK'
      <3>1. coming' \in 0 .. MaxOffset /\ stated' \in BOOLEAN
        BY <1>3 DEF AnswersMistaken, Streams
      <3>2. /\ UNCHANGED <<user, misbehaves, object, version, ranged, first, last,
                           received, outcome>>
            /\ get' = "streaming" /\ source' = version /\ origin' = first
        BY <1>3 DEF AnswersMistaken, Streams
      <3> QED BY <3>1, <3>2
    <2>2. StreamInv'
      BY <1>3 DEF AnswersMistaken, Streams, StreamInv
    <2>3. ReaderInv' /\ SoundInv'
      BY <1>3 DEF AnswersMistaken, Streams, StreamInv, ReaderInv, SoundInv
    <2> QED BY <2>1, <2>2, <2>3
  <1>4. CASE AnswersUnsatisfiable \/ AnswersIgnoringRange \/ AnswersRefusal
    <2>1. StreamTypeOK'
      BY <1>4
      DEF AnswersUnsatisfiable, AnswersIgnoringRange, AnswersRefusal, Done, Outcomes
    <2>2. StreamInv'
      BY <1>4
      DEF AnswersUnsatisfiable, AnswersIgnoringRange, AnswersRefusal, Done, StreamInv
    <2>3. ReaderInv' /\ SoundInv'
      BY <1>4
      DEF AnswersUnsatisfiable, AnswersIgnoringRange, AnswersRefusal, Done, StreamInv,
          ReaderInv, SoundInv
    <2> QED BY <2>1, <2>2, <2>3
  <1>5. CASE Overwritten
    BY <1>5 DEF Overwritten, getVars, StreamInv, ReaderInv, SoundInv
  <1> QED BY <1>1, <1>2, <1>3, <1>4, <1>5 DEF StorageRuns

(* A piece of the body, its end, or a broken connection keeps it too. *)
LEMMA ChunkKeepsInv ==
    ASSUME IInv, GetNextChunk, UNCHANGED readerVars
    PROVE  StreamTypeOK' /\ StreamInv' /\ ReaderInv' /\ SoundInv'
  <1> USE ObjectSizesAssumption, MaxOffsetAssumption
      DEF IInv, TypeOK, StreamTypeOK, Answered, readerVars, objectVars, askVars, answerVars
  <1>1. ASSUME NEW n \in 1 .. MaxOffset, NextChunk(n)
        PROVE  StreamTypeOK' /\ StreamInv' /\ ReaderInv' /\ SoundInv'
    <2>1. received' \in 0 .. MaxOffset /\ received' <= coming
      BY <1>1 DEF NextChunk, StreamInv
    <2>2. UNCHANGED <<user, misbehaves, object, version, get, ranged, first, last, source,
                      origin, coming, stated, outcome>> /\ get = "streaming"
      BY <1>1 DEF NextChunk
    <2>3. StreamTypeOK'
      BY <2>1, <2>2
    <2>4. StreamInv'
      BY <2>1, <2>2 DEF StreamInv
    <2>5. ReaderInv' /\ SoundInv'
      BY <2>1, <2>2 DEF StreamInv, ReaderInv, SoundInv
    <2> QED BY <2>3, <2>4, <2>5
  <1>2. CASE EndReported
    <2>1. StreamTypeOK'
      BY <1>2 DEF EndReported, Done, Outcomes
    <2>2. StreamInv'
      BY <1>2 DEF EndReported, Done, StreamInv
    <2>3. ReaderInv' /\ SoundInv'
      BY <1>2 DEF EndReported, Done, StreamInv, ReaderInv, SoundInv
    <2> QED BY <2>1, <2>2, <2>3
  <1>3. CASE TransportBreaks
    <2>1. StreamTypeOK'
      BY <1>3 DEF TransportBreaks, Done, Outcomes
    <2>2. StreamInv'
      BY <1>3 DEF TransportBreaks, Done, StreamInv
    <2>3. ReaderInv' /\ SoundInv'
      BY <1>3 DEF TransportBreaks, Done, StreamInv, ReaderInv, SoundInv
    <2> QED BY <2>1, <2>2, <2>3
  <1> QED BY <1>1, <1>2, <1>3 DEF GetNextChunk

(* So does the end of the loop of start_read, which has more than it wants. *)
LEMMA StopKeepsInv ==
    ASSUME IInv, GetStops, UNCHANGED readerVars
    PROVE  StreamTypeOK' /\ StreamInv' /\ ReaderInv' /\ SoundInv'
  <1> USE ObjectSizesAssumption, MaxOffsetAssumption
      DEF IInv, TypeOK, StreamTypeOK, Answered, readerVars, objectVars, askVars, answerVars
  <1>1. StreamTypeOK'
    BY DEF GetStops, Done, Outcomes
  <1>2. StreamInv'
    BY DEF GetStops, Done, StreamInv
  <1>3. ReaderInv' /\ SoundInv'
    BY DEF GetStops, Done, StreamInv, ReaderInv, SoundInv
  <1> QED BY <1>1, <1>2, <1>3

(* So does a caller of download_file or download_file_range. *)
LEMMA DownloadsKeepInv ==
    ASSUME IInv, Downloads, UNCHANGED readerVars
    PROVE  StreamTypeOK' /\ StreamInv' /\ ReaderInv' /\ SoundInv'
  <1> USE ObjectSizesAssumption, MaxOffsetAssumption
      DEF IInv, TypeOK, StreamTypeOK, Answered, readerVars, objectVars, answerVars
  <1>1. ASSUME NEW isRange \in BOOLEAN, NEW from \in 0 .. MaxOffset,
               NEW to \in 0 .. MaxOffset, get = "none", Ask(isRange, from, to)
        PROVE  StreamTypeOK' /\ StreamInv' /\ ReaderInv' /\ SoundInv'
    <2>1. StreamTypeOK'
      BY <1>1 DEF Ask, Outcomes
    <2>2. StreamInv'
      BY <1>1 DEF Ask, StreamInv
    <2>3. ReaderInv' /\ SoundInv'
      BY <1>1 DEF Ask, StreamInv, ReaderInv, SoundInv, Downloads
    <2> QED BY <2>1, <2>2, <2>3
  <1>2. CASE DownloadFile
    <2>1. FALSE \in BOOLEAN /\ 0 \in 0 .. MaxOffset
      OBVIOUS
    <2> QED BY <1>1, <1>2, <2>1 DEF DownloadFile
  <1>3. CASE DownloadFileRange
    BY <1>1, <1>3 DEF DownloadFileRange
  <1>4. CASE DownloadOver
    BY <1>4 DEF DownloadOver, streamVars, StreamInv, ReaderInv, SoundInv
  <1> QED BY <1>2, <1>3, <1>4, ChunkKeepsInv DEF Downloads

(* What is not the reader's own step keeps all of the invariant. *)
LEMMA OthersKeepIInv ==
    ASSUME IInv, UNCHANGED readerVars,
           Downloads \/ StorageRuns \/ GetReads \/ GetStops
    PROVE  IInv'
  <1>1. StreamTypeOK' /\ StreamInv' /\ ReaderInv' /\ SoundInv'
    BY StorageKeepsInv, ChunkKeepsInv, StopKeepsInv, DownloadsKeepInv DEF GetReads
  <1>2. TypeOK'
    BY <1>1 DEF IInv, TypeOK, readerVars
  <1>3. EofIsTheEnd'
    BY DEF IInv, EofIsTheEnd, readerVars
  <1>4. RangesAreSatisfiable'
    <2> SUFFICES ASSUME version' = 0, ~misbehaves'
                 PROVE  /\ pending' => outcome' \notin {"RangeNotSatisfiable", "InvalidRange"}
                        /\ ret' \notin {"UnexpectedEof", "InvalidData"}
      BY DEF RangesAreSatisfiable
    <2>1. version = 0 /\ ~misbehaves
      BY DEF Downloads, DownloadFile, DownloadFileRange, DownloadOver, Ask, StorageRuns,
             AnswersWhole, AnswersPartial, AnswersMistaken, AnswersUnsatisfiable,
             AnswersIgnoringRange, AnswersRefusal, Overwritten, Streams, GetReads, GetStops,
             GetNextChunk, NextChunk, EndReported, TransportBreaks, objectVars, streamVars
    <2>2. ret' \notin {"UnexpectedEof", "InvalidData"}
      BY <2>1 DEF IInv, RangesAreSatisfiable, readerVars
    <2>3. pending => outcome' # "RangeNotSatisfiable"
      <3> SUFFICES ASSUME pending PROVE outcome' # "RangeNotSatisfiable"
        OBVIOUS
      <3>1. ~AnswersUnsatisfiable
        BY <2>1, ObjectSizesAssumption, MaxOffsetAssumption
        DEF IInv, TypeOK, StreamTypeOK, ReaderInv, SoundInv, AnswersUnsatisfiable
      <3>2. outcome # "RangeNotSatisfiable" /\ user = "reader"
        BY <2>1 DEF IInv, RangesAreSatisfiable, ReaderInv
      <3> QED
        BY <3>1, <3>2
        DEF Downloads, StorageRuns, AnswersWhole, AnswersPartial, AnswersMistaken,
            AnswersIgnoringRange, AnswersRefusal, Overwritten, Streams, GetReads, GetStops,
            GetNextChunk, NextChunk, EndReported, TransportBreaks, Done, getVars
    <2> QED BY <1>1, <2>2, <2>3 DEF ReaderInv, readerVars
  <1> QED BY <1>1, <1>2, <1>3, <1>4 DEF IInv

-----------------------------------------------------------------------------
(* drain_leftover hands out the first bytes of what it is given, at least one *)
(* if there is room, and keeps the rest.                                     *)
LEMMA DrainTakesTheFront ==
    ASSUME TypeOK, NEW e \in Extent, e.from < e.to, NEW n \in 0 .. MaxBuffer, Drain(e, n)
    PROVE  /\ handed' \in Extent /\ leftover' \in Extent
           /\ room' = n /\ asked_at' = position /\ ret' = "Ok"
           /\ position' \in 0 .. MaxOffset
           /\ n > 0 => handed' # Nothing
           /\ handed' # Nothing => handed'.from = e.from
           /\ leftover' # Nothing => leftover'.from < leftover'.to /\ leftover'.to = e.to
           /\ e.from = position /\ leftover' # Nothing => leftover'.from = position'
  <1> USE MaxOffsetAssumption, MaxBufferAssumption
  <1> DEFINE taken == Least(Width(e), n)
  <1>1. /\ e.from \in Nat /\ e.to \in Nat /\ e.to <= MaxOffset
        /\ Width(e) \in Nat \ {0} /\ e.from + Width(e) = e.to
    BY DEF Extent, Width
  <1>2. taken \in Nat /\ taken <= Width(e) /\ (n > 0 => taken > 0)
    BY <1>1 DEF Least
  <1>3. /\ handed' = IF taken = 0 THEN Nothing
                     ELSE [from |-> e.from, to |-> e.from + taken]
        /\ leftover' = IF taken = Width(e) THEN Nothing
                       ELSE [e EXCEPT !.from = @ + taken]
        /\ room' = n /\ asked_at' = position /\ ret' = "Ok"
        /\ position' = (position + taken) % (MaxOffset + 1)
    BY DEF Drain
  <1> HIDE DEF taken
  <1>4. handed' \in Extent /\ (n > 0 => handed' # Nothing)
        /\ (handed' # Nothing => handed'.from = e.from)
    BY <1>1, <1>2, <1>3 DEF Extent, Nothing
  <1>5. taken # Width(e) =>
            leftover' = [from |-> e.from + taken, to |-> e.to]
    BY <1>1, <1>2, <1>3 DEF Extent
  <1>6. leftover' \in Extent
        /\ (leftover' # Nothing => leftover'.from = e.from + taken
                                   /\ leftover'.from < leftover'.to /\ leftover'.to = e.to)
    BY <1>1, <1>2, <1>3, <1>5 DEF Extent, Nothing
  <1>7. position + taken \in Nat
    BY <1>2 DEF TypeOK
  <1>8. position' \in 0 .. MaxOffset
    BY <1>3, <1>7, Wrapping
  <1>9. e.from = position => position' = e.from + taken
    <2>1. e.from = position => position + taken <= MaxOffset
      BY <1>1, <1>2
    <2> QED BY <1>3, <1>7, <2>1, Wrapping
  <1> QED BY <1>3, <1>4, <1>6, <1>8, <1>9

(* A GET that can be handed out has what was asked for, all of it. *)
LEMMA CompletedIsWhole ==
    ASSUME IInv, pending, get = "done", ReadError = "none"
    PROVE  /\ outcome = "Ok" /\ received = requested /\ origin = first
           /\ [from |-> origin, to |-> origin + received] \in Extent
           /\ origin < origin + received /\ origin + received <= size
  <1> USE ObjectSizesAssumption, MaxOffsetAssumption DEF IInv, TypeOK, StreamTypeOK
  <1>1. outcome \in {"Ok", "Enough"}
    BY DEF ReadError
  <1>2. /\ ~(outcome = "Ok" /\ received < requested)
        /\ ~(outcome \in {"Ok", "Enough"} /\ received > requested)
    BY <1>1 DEF ReadError
  <1>3. outcome = "Ok" /\ received = requested
    BY <1>1, <1>2 DEF ReaderInv
  <1>4. origin = first /\ requested >= 1 /\ first + requested <= size
    BY <1>3 DEF ReaderInv, StreamInv, Answered
  <1>5. size \in 0 .. MaxOffset
    OBVIOUS
  <1> QED BY <1>3, <1>4, <1>5 DEF Extent

(* A reader's step that leaves the GET and the storage alone. *)
LEMMA QuietStepKeepsIInv ==
    ASSUME IInv, UNCHANGED <<size, pending, requested, streamVars>>,
           position' \in 0 .. MaxOffset, seek_to' \in 0 .. MaxOffset \cup {NoSeek},
           leftover' \in Extent, leftover' # Nothing => leftover'.from < leftover'.to,
           room' \in 0 .. MaxBuffer, asked_at' \in 0 .. MaxOffset, handed' \in Extent,
           ret' \in Results \ {"UnexpectedEof", "InvalidData"}, EofIsTheEnd'
    PROVE  IInv'
  <1> USE DEF streamVars
  <1>1. TypeOK'
    BY DEF IInv, TypeOK, StreamTypeOK
  <1>2. StreamInv'
    BY DEF IInv, StreamInv, Answered
  <1>3. ReaderInv' /\ SoundInv'
    BY DEF IInv, ReaderInv, SoundInv, Answered
  <1>4. RangesAreSatisfiable'
    BY DEF IInv, RangesAreSatisfiable
  <1> QED BY <1>1, <1>2, <1>3, <1>4 DEF IInv

(* A read that ends its GET drops it. *)
LEMMA DroppingKeepsIInv ==
    ASSUME IInv, GetDropped, pending' = FALSE, requested' = 0, UNCHANGED <<size, seek_to>>,
           position' \in 0 .. MaxOffset,
           leftover' \in Extent, leftover' # Nothing => leftover'.from < leftover'.to,
           room' \in 0 .. MaxBuffer, asked_at' \in 0 .. MaxOffset, handed' \in Extent,
           ret' \in Results, EofIsTheEnd',
           version = 0 /\ ~misbehaves => ret' \notin {"UnexpectedEof", "InvalidData"}
    PROVE  IInv'
  <1> USE MaxOffsetAssumption DEF GetDropped, objectVars
  <1>1. TypeOK'
    <2>1. StreamTypeOK'
      <3>1. outcome' \in Outcomes /\ ranged' \in BOOLEAN /\ stated' \in BOOLEAN
        BY DEF Outcomes
      <3> QED BY <3>1 DEF IInv, TypeOK, StreamTypeOK
    <2>2. pending' \in BOOLEAN
      OBVIOUS
    <2> QED BY <2>1, <2>2 DEF IInv, TypeOK
  <1>2. StreamInv'
    BY DEF StreamInv, Answered
  <1>3. ReaderInv' /\ SoundInv'
    BY DEF IInv, ReaderInv, SoundInv, Answered
  <1>4. RangesAreSatisfiable'
    BY DEF IInv, RangesAreSatisfiable
  <1> QED BY <1>1, <1>2, <1>3, <1>4 DEF IInv

(* A step of a read keeps the invariant. *)
LEMMA ReadsKeepIInv ==
    ASSUME IInv, NEW n \in 0 .. MaxBuffer, user = "reader",
           \/ ReadLeftover(n) \/ ReadNothing(n) \/ ReadStarts(n)
           \/ ReadWaits(n) \/ ReadFails(n) \/ ReadCompletes(n)
    PROVE  IInv'
  <1> USE ObjectSizesAssumption, MaxOffsetAssumption, MaxBufferAssumption
  <1>0. TypeOK /\ Nothing \in Extent
    BY DEF IInv, Extent, Nothing
  <1>1. CASE ReadLeftover(n)
    <2>1. leftover \in Extent /\ leftover.from < leftover.to
      BY <1>0, <1>1 DEF ReadLeftover, TypeOK, IInv, ReaderInv
    <2>2. /\ handed' \in Extent /\ leftover' \in Extent
          /\ room' = n /\ asked_at' = position /\ ret' = "Ok"
          /\ position' \in 0 .. MaxOffset
          /\ n > 0 => handed' # Nothing
          /\ leftover' # Nothing => leftover'.from < leftover'.to
      BY <1>0, <1>1, <2>1, DrainTakesTheFront DEF ReadLeftover
    <2>3. UNCHANGED <<size, pending, requested, seek_to, streamVars>>
      BY <1>1 DEF ReadLeftover
    <2>4. EofIsTheEnd'
      BY <2>2 DEF EofIsTheEnd
    <2>5. asked_at' \in 0 .. MaxOffset /\ seek_to' \in 0 .. MaxOffset \cup {NoSeek}
      BY <1>0, <2>2, <2>3 DEF TypeOK
    <2>6. ret' \in Results \ {"UnexpectedEof", "InvalidData"}
      BY <2>2 DEF Results
    <2> QED BY <2>2, <2>3, <2>4, <2>5, <2>6, QuietStepKeepsIInv
  <1>2. CASE ReadNothing(n) \/ ReadWaits(n)
    <2>1. /\ UNCHANGED <<size, pending, requested, seek_to, streamVars, position, leftover>>
          /\ room' = n /\ handed' = Nothing /\ asked_at' = position
          /\ ret' \in {"Ok", "Pending"}
          /\ ret' = "Ok" => position >= size \/ n = 0
      BY <1>2 DEF ReadNothing, ReadWaits, ReadReturns
    <2>2. EofIsTheEnd'
      BY <2>1 DEF EofIsTheEnd
    <2>3. ret' \in Results \ {"UnexpectedEof", "InvalidData"}
      BY <2>1 DEF Results
    <2>4. /\ position' \in 0 .. MaxOffset /\ asked_at' \in 0 .. MaxOffset
          /\ seek_to' \in 0 .. MaxOffset \cup {NoSeek}
          /\ leftover' \in Extent /\ handed' \in Extent
      BY <1>0, <2>1 DEF TypeOK
    <2>5. leftover' # Nothing => leftover'.from < leftover'.to
      BY <2>1 DEF IInv, ReaderInv
    <2> QED BY <2>1, <2>2, <2>3, <2>4, <2>5, QuietStepKeepsIInv
  <1>3. CASE ReadStarts(n)
    <2>1. /\ Wanted(n) \in Nat /\ Wanted(n) >= 1
          /\ position + Wanted(n) <= size
          /\ position \in 0 .. MaxOffset /\ size \in 0 .. MaxOffset
      BY <1>0, <1>3 DEF ReadStarts, Wanted, Least, TypeOK
    <2> DEFINE w == Wanted(n)
    <2>2. /\ pending' = TRUE /\ requested' = w
          /\ UNCHANGED <<user, misbehaves, object, version, source, origin, coming, stated>>
          /\ ranged' = TRUE /\ first' = position /\ last' = position + w - 1
          /\ received' = 0 /\ get' = "asked" /\ outcome' = "none"
          /\ UNCHANGED <<size, seek_to, position, leftover>>
          /\ ret' = "Pending" /\ room' = n /\ handed' = Nothing /\ asked_at' = position
      BY <1>3, <2>1 DEF ReadStarts, Ask, ReadReturns, objectVars, answerVars
    <2> HIDE DEF w
    <2>3. StreamTypeOK'
      <3>1. /\ first' \in 0 .. MaxOffset /\ last' \in 0 .. MaxOffset
            /\ received' \in 0 .. MaxOffset
        BY <2>1, <2>2 DEF w
      <3>2. outcome' \in Outcomes /\ ranged' \in BOOLEAN
        BY <2>2 DEF Outcomes
      <3> QED BY <1>0, <2>2, <3>1, <3>2 DEF TypeOK, StreamTypeOK
    <2>4. TypeOK'
      <3>1. requested' \in 0 .. MaxOffset
        BY <2>1, <2>2 DEF w
      <3>2. pending' \in BOOLEAN /\ ret' \in Results
        BY <2>2 DEF Results
      <3> QED BY <1>0, <2>2, <2>3, <3>1, <3>2 DEF TypeOK
    <2>5. StreamInv'
      BY <2>1, <2>2 DEF IInv, StreamInv, Answered, w
    <2>6. ReaderInv' /\ SoundInv'
      BY <2>1, <2>2 DEF IInv, ReaderInv, SoundInv, Answered, w
    <2>7. EofIsTheEnd' /\ RangesAreSatisfiable'
      BY <2>2 DEF EofIsTheEnd, RangesAreSatisfiable
    <2> QED BY <2>4, <2>5, <2>6, <2>7 DEF IInv
  <1>4. CASE ReadFails(n)
    <2>1. /\ pending /\ get = "done" /\ ReadError # "none"
          /\ pending' = FALSE /\ requested' = 0 /\ GetDropped
          /\ UNCHANGED <<size, seek_to, position, leftover>>
          /\ ret' = ReadError /\ room' = n /\ handed' = Nothing /\ asked_at' = position
      BY <1>4 DEF ReadFails, ReadReturns
    <2>2. ReadError \in {"NotFound", "Other", "UnexpectedEof", "InvalidData"}
      BY <2>1 DEF ReadError
    <2>3. version = 0 /\ ~misbehaves => ReadError \notin {"UnexpectedEof", "InvalidData"}
      <3> SUFFICES ASSUME version = 0, ~misbehaves, outcome \in {"Ok", "Enough"}
                   PROVE  received = requested
        BY <1>0 DEF ReadError, TypeOK, StreamTypeOK
      <3>1. coming = requested /\ received <= coming
        BY <2>1 DEF IInv, SoundInv, StreamInv, Answered
      <3>2. outcome = "Ok"
        BY <1>0, <3>1 DEF IInv, ReaderInv, TypeOK, StreamTypeOK
      <3> QED BY <3>1, <3>2 DEF IInv, StreamInv
    <2>4. EofIsTheEnd' /\ ret' \in Results
      BY <2>1, <2>2 DEF EofIsTheEnd, Results
    <2>5. /\ position' \in 0 .. MaxOffset /\ asked_at' \in 0 .. MaxOffset
          /\ leftover' \in Extent /\ handed' \in Extent
      BY <1>0, <2>1 DEF TypeOK
    <2>6. leftover' # Nothing => leftover'.from < leftover'.to
      BY <2>1 DEF IInv, ReaderInv
    <2> QED BY <2>1, <2>3, <2>4, <2>5, <2>6, DroppingKeepsIInv
  <1>5. CASE ReadCompletes(n)
    <2> DEFINE body == [from |-> origin, to |-> origin + received]
    <2>1. /\ pending /\ get = "done" /\ ReadError = "none" /\ Drain(body, n)
          /\ pending' = FALSE /\ requested' = 0 /\ GetDropped
          /\ UNCHANGED <<size, seek_to>>
      BY <1>5 DEF ReadCompletes
    <2>2. body \in Extent /\ body.from < body.to
      BY <2>1, CompletedIsWhole
    <2> HIDE DEF body
    <2>3. /\ handed' \in Extent /\ leftover' \in Extent
          /\ room' = n /\ asked_at' = position /\ ret' = "Ok"
          /\ position' \in 0 .. MaxOffset
          /\ n > 0 => handed' # Nothing
          /\ leftover' # Nothing => leftover'.from < leftover'.to
      BY <1>0, <2>1, <2>2, DrainTakesTheFront
    <2>4. EofIsTheEnd' /\ ret' \in Results
      BY <2>3 DEF EofIsTheEnd, Results
    <2>5. asked_at' \in 0 .. MaxOffset
      BY <1>0, <2>3 DEF TypeOK
    <2> QED BY <2>1, <2>3, <2>4, <2>5, DroppingKeepsIInv
  <1> QED BY <1>1, <1>2, <1>3, <1>4, <1>5

(* A step of a seek keeps the invariant. *)
LEMMA SeeksKeepIInv ==
    ASSUME IInv, Seeks
    PROVE  IInv'
  <1> USE MaxOffsetAssumption, MaxBufferAssumption
  <1>0. TypeOK /\ Nothing \in Extent
    BY DEF IInv, Extent, Nothing
  <1>1. ASSUME NEW r \in {"Ok", "Other", "InvalidInput"}, SeekReturns(r),
               position' \in 0 .. MaxOffset, seek_to' \in 0 .. MaxOffset \cup {NoSeek},
               leftover' \in {leftover, Nothing}
        PROVE  IInv'
    <2>1. /\ UNCHANGED <<size, pending, requested, streamVars>>
          /\ ret' = r /\ room' = 0 /\ handed' = Nothing /\ asked_at' = position
      BY <1>1 DEF SeekReturns
    <2>2. EofIsTheEnd' /\ ret' \in Results \ {"UnexpectedEof", "InvalidData"}
      BY <1>1, <2>1 DEF EofIsTheEnd, Results
    <2>3. leftover' \in Extent /\ (leftover' # Nothing => leftover'.from < leftover'.to)
      BY <1>0, <1>1 DEF TypeOK, IInv, ReaderInv
    <2>4. asked_at' \in 0 .. MaxOffset /\ handed' \in Extent /\ room' \in 0 .. MaxBuffer
      BY <1>0, <2>1 DEF TypeOK
    <2> QED BY <1>1, <2>1, <2>2, <2>3, <2>4, QuietStepKeepsIInv
  <1>2. ASSUME NEW base, NEW delta, StartSeek(base, delta)
        PROVE  IInv'
    <2>1. /\ position' = position /\ leftover' = leftover
          /\ \E r \in {"Ok", "Other", "InvalidInput"} : SeekReturns(r)
          /\ seek_to' = seek_to \/ seek_to' \in 0 .. MaxOffset
      BY <1>2 DEF StartSeek, InRange
    <2>2. position' \in 0 .. MaxOffset /\ seek_to' \in 0 .. MaxOffset \cup {NoSeek}
      BY <1>0, <2>1 DEF TypeOK
    <2> QED BY <1>1, <2>1, <2>2
  <1>3. CASE PollComplete
    <2>1. /\ SeekReturns("Ok") /\ seek_to' = NoSeek
          /\ position' = position \/ (position' = seek_to /\ seek_to # NoSeek)
          /\ leftover' \in {leftover, Nothing}
      BY <1>3 DEF PollComplete
    <2>2. position' \in 0 .. MaxOffset /\ seek_to' \in 0 .. MaxOffset \cup {NoSeek}
      BY <1>0, <2>1 DEF TypeOK
    <2> QED BY <1>1, <2>1, <2>2
  <1> QED BY <1>2, <1>3 DEF Seeks

(* Every step keeps the invariant. *)
LEMMA StepKeepsIInv == IInv /\ [Next]_vars => IInv'
  <1> SUFFICES ASSUME IInv, [Next]_vars PROVE IInv'
    OBVIOUS
  <1>1. CASE UNCHANGED vars
    <2>1. UNCHANGED readerVars /\ UNCHANGED streamVars
      BY <1>1 DEF vars, readerVars, streamVars
    <2>2. EofIsTheEnd'
      BY <2>1 DEF IInv, EofIsTheEnd, readerVars
    <2>3. RangesAreSatisfiable' /\ StreamInv'
      BY <2>1 DEF IInv, RangesAreSatisfiable, StreamInv, Answered, readerVars, streamVars
    <2>4. ReaderInv' /\ SoundInv'
      BY <2>1 DEF IInv, ReaderInv, SoundInv, Answered, readerVars, streamVars
    <2>5. TypeOK'
      BY <2>1 DEF IInv, TypeOK, StreamTypeOK, readerVars, streamVars
    <2> QED BY <2>2, <2>3, <2>4, <2>5 DEF IInv
  <1> QED
    BY <1>1, ReadsKeepIInv, SeeksKeepIInv, OthersKeepIInv DEF Next, Reads, GetRuns

(* IInv holds in every reachable state, whatever the caller does with a seek. *)
THEOREM InvHolds == Spec => []IInv
  <1>1. Init => IInv
    BY InitEstablishesInv
  <1> QED BY <1>1, StepKeepsIInv, PTL DEF Spec

(* Every variable of the reader and of its GET keeps to its type; the reader's *)
(* position and its leftover stay within u64.                                *)
THEOREM TypeCorrect == Spec => []TypeOK
  <1>1. IInv => TypeOK
    BY DEF IInv
  <1> QED BY <1>1, InvHolds, PTL

(* A body that ended well was delivered whole: get_next_chunk takes no broken  *)
(* connection for the end of the object.                                     *)
THEOREM WholeDownload == Spec => []DownloadIsWhole
  <1>1. IInv => DownloadIsWhole
    BY DEF IInv, StreamInv, Answered, DownloadIsWhole
  <1> QED BY <1>1, InvHolds, PTL

(* A read reports the end of the file only at the end of the object. *)
THEOREM TrueEof == Spec => []EofIsTheEnd
  <1>1. IInv => EofIsTheEnd
    BY DEF IInv
  <1> QED BY <1>1, InvHolds, PTL

(* A reader of an unchanged object never gets a 416 or a wrong length from a   *)
(* sound storage.                                                            *)
THEOREM SatisfiableRanges == Spec => []RangesAreSatisfiable
  <1>1. IInv => RangesAreSatisfiable
    BY DEF IInv
  <1> QED BY <1>1, InvHolds, PTL

-----------------------------------------------------------------------------
(* A caller that awaits its seeks leaves the reader where its GET and its     *)
(* leftover are.                                                             *)
LEMMA StepKeepsPosition ==
    ASSUME ~InterleavedSeeks, IInv, PositionInv, [Next]_vars
    PROVE  PositionInv'
  <1> USE DEF PositionInv, BytesAreInPlace
  <1>1. ASSUME NEW n \in 0 .. MaxBuffer, ReadLeftover(n)
        PROVE  PositionInv'
    <2>1. TypeOK /\ leftover \in Extent /\ leftover.from < leftover.to
          /\ leftover.from = position /\ leftover.to <= size /\ ~pending
      BY <1>1 DEF ReadLeftover, IInv, TypeOK, ReaderInv
    <2>2. /\ asked_at' = position
          /\ handed' # Nothing => handed'.from = leftover.from
          /\ leftover' # Nothing => leftover'.to = leftover.to
          /\ leftover' # Nothing => leftover'.from = position'
      BY <1>1, <2>1, DrainTakesTheFront DEF ReadLeftover
    <2>3. UNCHANGED <<size, pending>>
      BY <1>1 DEF ReadLeftover
    <2> QED BY <2>1, <2>2, <2>3
  <1>2. ASSUME NEW n \in 0 .. MaxBuffer, ReadCompletes(n)
        PROVE  PositionInv'
    <2> DEFINE body == [from |-> origin, to |-> origin + received]
    <2>1. TypeOK /\ pending /\ get = "done" /\ ReadError = "none" /\ Drain(body, n)
          /\ pending' = FALSE /\ size' = size
      BY <1>2 DEF ReadCompletes, IInv
    <2>2. /\ body \in Extent /\ body.from < body.to
          /\ body.from = position /\ body.to <= size
      BY <2>1, CompletedIsWhole
    <2> HIDE DEF body
    <2>3. /\ asked_at' = position
          /\ handed' # Nothing => handed'.from = body.from
          /\ leftover' # Nothing => leftover'.to = body.to
          /\ leftover' # Nothing => leftover'.from = position'
      BY <2>1, <2>2, DrainTakesTheFront
    <2> QED BY <2>1, <2>2, <2>3
  <1>3. ASSUME NEW n \in 0 .. MaxBuffer,
               ReadNothing(n) \/ ReadStarts(n) \/ ReadWaits(n) \/ ReadFails(n)
        PROVE  PositionInv'
    BY <1>3
    DEF ReadNothing, ReadStarts, ReadWaits, ReadFails, ReadReturns, ReadAllowed, Ask,
        streamVars
  <1>4. CASE Seeks
    <2>1. ASSUME NEW base, NEW delta, StartSeek(base, delta)
          PROVE  PositionInv'
      BY <2>1 DEF StartSeek, SeekReturns, streamVars
    <2>2. CASE PollComplete
      BY <2>2 DEF PollComplete, SeekReturns, streamVars
    <2> QED BY <1>4, <2>1, <2>2 DEF Seeks
  <1>5. CASE (Downloads \/ StorageRuns \/ GetReads \/ GetStops) /\ UNCHANGED readerVars
    <2>1. pending => first' = first
      BY <1>5
      DEF IInv, ReaderInv, Downloads, StorageRuns, AnswersWhole, AnswersPartial,
          AnswersMistaken, AnswersUnsatisfiable, AnswersIgnoringRange, AnswersRefusal,
          Overwritten, Streams, GetReads, GetStops, GetNextChunk, NextChunk, EndReported,
          TransportBreaks, askVars, getVars
    <2> QED BY <1>5, <2>1 DEF readerVars
  <1>6. CASE UNCHANGED vars
    BY <1>6 DEF vars
  <1> QED BY <1>1, <1>2, <1>3, <1>4, <1>5, <1>6 DEF Next, Reads, GetRuns

(* No byte is handed out at an offset that is not its own, however reads are   *)
(* cancelled, repeated with shorter buffers and mixed with seeks that are    *)
(* awaited.  (A caller that reads before poll_complete voids this: the run   *)
(* S3ReaderInterleaved.)                                                     *)
THEOREM PlacedBytes ==
    ASSUME ~InterleavedSeeks
    PROVE  Spec => []BytesAreInPlace
  <1>1. Init => PositionInv
    BY InitEstablishesInv
  <1>2. IInv /\ PositionInv /\ [Next]_vars => PositionInv'
    BY StepKeepsPosition
  <1>3. PositionInv => BytesAreInPlace
    BY DEF PositionInv
  <1> QED BY <1>1, <1>2, <1>3, InvHolds, PTL DEF Spec
=============================================================================
