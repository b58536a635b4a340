-------------------------------- MODULE Upload --------------------------------
(***************************************************************************)
(* What one upload promises to its caller, however it is driven: the table  *)
(* under "Which error comes back" of upload_with_writer, the rules of       *)
(* start_upload (src/src/s3_client.rs) and settle (src/src/upload_writer.rs) *)
(* without the tasks, the channel and the flags that bring it about.        *)
(*                                                                          *)
(* A source writes a body of content_length bytes or stops before; bytes of *)
(* it arrive at the storage in order; the storage keeps the object only as  *)
(* a whole; the caller gets one verdict.                                    *)
(***************************************************************************)
EXTENDS Naturals

CONSTANTS
    ContentLengths, \* the declared lengths considered
    S3Errors        \* the errors an upload can end with by itself

VARIABLES
    content_length,
    source,  \* "writing", "ended", or "failed" with an error of its own
    arrived, \* how many bytes reached the storage
    stored,  \* the storage has the object
    verdict  \* what the caller was told, "none" until then

uploadVars == <<content_length, source, arrived, stored, verdict>>

Fresh ==
    /\ source = "writing"
    /\ arrived = 0
    /\ stored = FALSE
    /\ verdict = "none"

Init == content_length \in ContentLengths /\ Fresh

(* The source is done with the body, or gives up on it. *)
SourceEnds ==
    /\ \/ source = "writing" /\ source' \in {"ended", "failed"}
       \/ source = "ended" /\ source' = "failed"
    /\ UNCHANGED <<content_length, arrived, stored, verdict>>

(* More of the body arrives, and only before the verdict. *)
Arrives ==
    /\ verdict = "none"
    /\ arrived' \in arrived + 1 .. content_length
    /\ UNCHANGED <<content_length, source, stored, verdict>>

(* The whole body is there and becomes the object, possibly after a verdict. *)
Stores ==
    /\ arrived = content_length
    /\ stored' = TRUE
    /\ UNCHANGED <<content_length, source, arrived, verdict>>

(* Ok is proof.  The source is blamed only for a body that it failed, or that *)
(* it ended before all of it had arrived.  Any other error may come at any   *)
(* time, whatever became of the object.                                      *)
Justified(v) ==
    CASE v = "Ok" -> stored /\ source # "failed"
      [] v = "UploadProducerFailed" ->
            source = "failed" \/ (source = "ended" /\ arrived < content_length)
      [] OTHER -> TRUE

Settles(v) ==
    /\ verdict = "none"
    /\ Justified(v)
    /\ verdict' = v
    /\ UNCHANGED <<content_length, source, arrived, stored>>

(* The call repeats an upload whose own error was its verdict. *)
StartsAgain ==
    /\ verdict \in S3Errors
    /\ source # "writing"
    /\ source' = "writing"
    /\ arrived' = 0
    /\ stored' = FALSE
    /\ verdict' = "none"
    /\ UNCHANGED content_length

Next ==
    \/ SourceEnds
    \/ Arrives
    \/ Stores
    \/ \E v \in {"Ok", "UploadProducerFailed", "Other"} \cup S3Errors : Settles(v)
    \/ StartsAgain

Spec == Init /\ [][Next]_uploadVars
=============================================================================
