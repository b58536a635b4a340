---------------------------- MODULE DownloadStream ----------------------------
(***************************************************************************)
(* One GET and the body it leaves on the socket: download_file,             *)
(* download_file_range and open_object (src/src/s3_client.rs) and           *)
(* S3DownloadStream (src/src/download_stream.rs).                           *)
(*                                                                          *)
(* A byte of an object is its offset, in the version of the object it was   *)
(* read from; objects are overwritten whole.  The storage and the transport *)
(* are external: the storage answers a range with the part of it that the   *)
(* object has, or with something else (misbehaves); the transport hands     *)
(* over the body in pieces of any size, may break at any point, and may     *)
(* report an early end of a body whose length it was told.                  *)
(***************************************************************************)
EXTENDS Integers

CONSTANTS
    ObjectSizes, \* the sizes an object may have
    MaxOffset,   \* u64::MAX
    Misbehaving  \* whether storages are considered that ignore a Range or
                 \* mistake it: {TRUE}, {FALSE} or both

ASSUME ObjectSizesAssumption == ObjectSizes # {} /\ ObjectSizes \subseteq 0 .. MaxOffset
ASSUME MaxOffsetAssumption == MaxOffset \in Nat
ASSUME MisbehavingAssumption == Misbehaving \subseteq BOOLEAN

VARIABLES
    user,     \* who makes the GETs: a "reader", or a "caller" of download_file
    misbehaves, \* whether the storage does
    object,   \* the size of the object as stored now
    version,  \* how often it was overwritten, up to one time
    get,      \* "none", "asked", "streaming", "done": the GET being made
    ranged,   \* it carries a Range header ...
    first, last, \* ... for these offsets, inclusive
    source,   \* the version the storage answered from
    origin,   \* the offset of the first byte of the answer
    coming,   \* how many bytes the answer has
    stated,   \* Content-Length was sent with it
    received, \* how many of them were handed over
    outcome   \* how the GET ended

objectVars == <<user, misbehaves, object, version>>
askVars == <<ranged, first, last>>
answerVars == <<source, origin, coming, stated>>
getVars == <<get, ranged, first, last, source, origin, coming, stated,
             received, outcome>>
streamVars == <<user, misbehaves, object, version, get, ranged, first, last,
                source, origin, coming, stated, received, outcome>>

Outcomes == {"none", "Ok", "InvalidRange", "RangeNotSatisfiable", "RangeIgnored",
             "KeyNotFound", "Refused", "Broken", "Truncated", "Enough"}

StreamInit ==
    /\ user \in {"reader", "caller"}
    /\ misbehaves \in Misbehaving
    /\ object \in ObjectSizes
    /\ version = 0
    /\ get = "none"
    /\ ranged = FALSE
    /\ first = 0
    /\ last = 0
    /\ source = 0
    /\ origin = 0
    /\ coming = 0
    /\ stated = FALSE
    /\ received = 0
    /\ outcome = "none"

-----------------------------------------------------------------------------
(* The request is made; a range that ends before it starts is refused first. *)
Ask(isRange, from, to) ==
    /\ ranged' = isRange
    /\ first' = from
    /\ last' = to
    /\ received' = 0
    /\ IF isRange /\ to < from
       THEN get' = "done" /\ outcome' = "InvalidRange"
       ELSE get' = "asked" /\ outcome' = "none"
    /\ UNCHANGED <<objectVars, answerVars>>

Done(o) ==
    /\ get' = "done"
    /\ outcome' = o

Least(a, b) == IF a < b THEN a ELSE b

(* open_object: the expected status leaves a body of n bytes to be streamed  *)
Streams(from, n) ==
    /\ get' = "streaming"
    /\ source' = version
    /\ origin' = from
    /\ coming' = n
    /\ stated' \in BOOLEAN
    /\ UNCHANGED <<objectVars, askVars, received, outcome>>

(* 200 to a plain GET: the whole object *)
AnswersWhole ==
    /\ get = "asked"
    /\ ~ranged
    /\ Streams(0, object)

(* 206: the part of the range that the object has *)
AnswersPartial ==
    /\ get = "asked"
    /\ ranged
    /\ first < object
    /\ Streams(first, Least(last, object - 1) - first + 1)

(* 206 with the right offset and the wrong length *)
AnswersMistaken ==
    /\ misbehaves
    /\ get = "asked"
    /\ ranged
    /\ \E n \in 0 .. object : Streams(first, n)

(* 416 *)
AnswersUnsatisfiable ==
    /\ get = "asked"
    /\ ranged
    /\ first >= object
    /\ Done("RangeNotSatisfiable")
    /\ UNCHANGED <<objectVars, askVars, answerVars, received>>

(* 200 to a ranged GET: the whole object, left unread *)
AnswersIgnoringRange ==
    /\ misbehaves
    /\ get = "asked"
    /\ ranged
    /\ Done("RangeIgnored")
    /\ UNCHANGED <<objectVars, askVars, answerVars, received>>

(* Any other status, typed by detect_error, or no answer at all *)
AnswersRefusal ==
    /\ get = "asked"
    /\ \E o \in {"KeyNotFound", "Refused"} : Done(o)
    /\ UNCHANGED <<objectVars, askVars, answerVars, received>>

-----------------------------------------------------------------------------
(* get_next_chunk: a piece of n bytes *)
NextChunk(n) ==
    /\ get = "streaming"
    /\ n \in 1 .. coming - received
    /\ received' = received + n
    /\ UNCHANGED <<objectVars, askVars, answerVars, get, outcome>>

(* Variant of EndReported, deliberately wrong: the bytes are not counted. *)
EndBelieved ==
    /\ get = "streaming"
    /\ received = coming \/ stated
    /\ Done("Ok")
    /\ UNCHANGED <<objectVars, askVars, answerVars, received>>

(* The transport reports the end of the body, in time or - when it was told  *)
(* the length - possibly early; an early one is refused by the byte count.   *)
EndReported ==
    /\ get = "streaming"
    /\ received = coming \/ stated
    /\ Done(IF stated /\ received < coming THEN "Truncated" ELSE "Ok")
    /\ UNCHANGED <<objectVars, askVars, answerVars, received>>

TransportBreaks ==
    /\ get = "streaming"
    /\ Done("Broken")
    /\ UNCHANGED <<objectVars, askVars, answerVars, received>>

(* Whoever made the GET is done with it and drops it. *)
GetDropped ==
    /\ get' = "none"
    /\ ranged' = FALSE
    /\ first' = 0
    /\ last' = 0
    /\ source' = 0
    /\ origin' = 0
    /\ coming' = 0
    /\ stated' = FALSE
    /\ received' = 0
    /\ outcome' = "none"
    /\ UNCHANGED objectVars

(* Another client overwrites the object. *)
Overwritten ==
    /\ version = 0
    /\ version' = 1
    /\ object' \in ObjectSizes
    /\ UNCHANGED <<user, misbehaves, getVars>>

StorageRuns ==
    \/ AnswersWhole
    \/ AnswersPartial
    \/ AnswersMistaken
    \/ AnswersUnsatisfiable
    \/ AnswersIgnoringRange
    \/ AnswersRefusal
    \/ Overwritten

(* One call of get_next_chunk *)
GetNextChunk ==
    \/ \E n \in 1 .. MaxOffset : NextChunk(n)
    \/ EndReported
    \/ TransportBreaks

StreamTypeOK ==
    /\ user \in {"reader", "caller"}
    /\ misbehaves \in Misbehaving
    /\ object \in ObjectSizes
    /\ version \in {0, 1}
    /\ get \in {"none", "asked", "streaming", "done"}
    /\ ranged \in BOOLEAN
    /\ first \in 0 .. MaxOffset
    /\ last \in 0 .. MaxOffset
    /\ source \in {0, 1}
    /\ origin \in 0 .. MaxOffset
    /\ coming \in 0 .. MaxOffset
    /\ stated \in BOOLEAN
    /\ received \in 0 .. MaxOffset
    /\ outcome \in Outcomes

-----------------------------------------------------------------------------
(* A caller that downloads one object, or one range of it.  A range without  *)
(* an end reaches to the last offset there can be.                           *)

DownloadFile ==
    /\ get = "none"
    /\ Ask(FALSE, 0, 0)

DownloadFileRange ==
    /\ get = "none"
    /\ \E from, to \in 0 .. MaxOffset : Ask(TRUE, from, to)

(* The stream has been read to its end, or has failed. *)
DownloadOver == get = "done" /\ UNCHANGED streamVars

Downloads ==
    /\ user = "caller"
    /\ DownloadFile \/ DownloadFileRange \/ GetNextChunk \/ DownloadOver

(* "A connection that breaks in the middle of an object must not look like   *)
(* the end of it" (get_next_chunk): a body that ends well has delivered all   *)
(* of the answer, a plain one the whole object, and no range that ends       *)
(* before it starts was ever asked for.                                      *)
DownloadIsWhole ==
    outcome = "Ok" =>
        /\ received = coming
        /\ ~ranged /\ source = version => received = object
        /\ ranged => first <= last
=============================================================================
