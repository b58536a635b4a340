----------------------------- MODULE ErrorTyping ------------------------------
(***************************************************************************)
(* How a failure becomes an S3Error, and which failures are worth repeating *)
(* (detect_error in src/src/s3_client.rs, src/src/error.rs).                *)
(*                                                                          *)
(* An S3Error is its variant and what is_retryable looks at: the status and *)
(* the error code of UnexpectedStatusCode, the cause of an FlUrlError.      *)
(***************************************************************************)
EXTENDS Xml

Typed(v) == [variant |-> v, status |-> 0, code |-> None]
FlUrlError(cause) == [variant |-> "FlUrlError", status |-> 0, code |-> <<cause>>]
UnexpectedStatusCode(s, c) ==
    [variant |-> "UnexpectedStatusCode", status |-> s, code |-> c]

(* The <Error> document of the storage *)
ErrorBody(code) == Node("Error", Leaf("Code", <<code>>) \o Leaf("Message", <<"why">>))

(* Variant of is_success, deliberately wrong: the one status most calls get. *)
is_200(status) == status = 200

is_success(status) == status \in 200 .. 299

error_codes ==
    [BucketAlreadyExists     |-> "BucketAlreadyExists",
     BucketAlreadyOwnedByYou |-> "BucketAlreadyOwnedByYou",
     NoSuchBucket            |-> "BucketNotFound",
     NoSuchKey               |-> "KeyNotFound",
     NoSuchUpload            |-> "NoSuchUpload",
     EntityTooSmall          |-> "EntityTooSmall",
     InvalidRange            |-> "RangeNotSatisfiable"]

Maps(code) == Len(code) = 1 /\ code[1] \in DOMAIN error_codes

(* The code in the body decides; the status only when there is none to read. *)
detect_error(status, body) ==
    LET code == read_node_text(body, <<"Error", "Code">>) IN
    CASE Maps(code) -> Typed(error_codes[code[1]])
      [] code = None /\ status = 404 -> Typed("KeyNotFound")
      [] code = None /\ status = 416 -> Typed("RangeNotSatisfiable")
      [] OTHER -> UnexpectedStatusCode(status, code)

AskedForByName == {"SlowDown", "RequestTimeout", "RequestTimeTooSkewed",
                   "InternalError", "ServiceUnavailable"}
TransportFailures == {"timeout", "IoError", "ReadingHyperBodyError"}

(* fl_url_error_is_retryable; what MyHttpClientError says of itself is its own *)
(* business and is one of the transport failures or of the others here.       *)
fl_url_error_is_retryable(err) == err.code[1] \in TransportFailures

(* Variant of is_retryable, deliberately wrong: every refusal is repeated. *)
every_status_is_retryable(err) ==
    CASE err.variant = "FlUrlError" -> fl_url_error_is_retryable(err)
      [] err.variant = "UnexpectedStatusCode" -> err.status >= 400
      [] OTHER -> FALSE

is_retryable(err) ==
    CASE err.variant = "FlUrlError" -> fl_url_error_is_retryable(err)
      [] err.variant = "UnexpectedStatusCode" ->
            \/ err.code \in {<<c>> : c \in AskedForByName}
            \/ err.status >= 500
            \/ err.status = 429
      [] OTHER -> FALSE
=============================================================================
