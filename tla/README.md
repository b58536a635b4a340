# my-s3: models, checks and proofs

`my-s3` is an S3 client. Most of its operations are one HTTP request; its core logic is in
the operations that are not: an upload whose body is written by one task, carried by a
second and settled by a third, and a reader whose request outlives the call that started
it. This directory models those parts and the single requests around them in TLA+,
model-checks them with TLC on small instances and proves with TLAPS, for every choice of
the constants, every safety property that the passing runs check.

Paths below are relative to the repository's `src/`.

## 1. Inventory

| Component | State it keeps | Operations | Interacts with |
| --- | --- | --- | --- |
| `S3UploadWriter` (`upload_writer.rs`) | the chunk being filled, a send that waits for room, the `Sender` | `poll_write`, `poll_flush`, `poll_shutdown`, `Drop` | the channel; `UploadWriterState` |
| `UploadWriterState` (`upload_writer.rs`) | `content_length`, `accepted`, `sent`, `upload_ended`, `body_ended`, the `Notify` `body_started` | stores and loads; `short_body_error`, `settle` | shared by writer, upload task and handle, no lock |
| `upload_streamed` (`s3_client.rs`) | one request | sends the channel's chunks, returns the typed answer | HTTP client, storage |
| `start_upload`, `S3UploadHandle` (`s3_client.rs`, `upload_handle.rs`) | a task and its `JoinHandle` | the task; `finish`, `Drop` | all of the above |
| `upload_with_writer`, `..._with_retries` (`s3_client.rs`) | a producer task, the retry count | the call, the settlement, the loop | all of the above |
| `open_object`, `download_file`, `download_file_range`, `S3DownloadStream` | the body on the socket, `received` | `get_next_chunk` | HTTP client, storage |
| `S3Reader` (`reader.rs`) | size, position, a GET in flight, leftover bytes, a seek in progress | `poll_read`, `start_seek`, `poll_complete` | `download_file_range` |
| `upload_streamed_with_retries` (`s3_client.rs`) | the retry count | the loop; `new_body` makes a channel and a producer per attempt | `upload_streamed`, `is_retryable` |
| listing (`list_objects.rs`, `s3_client.rs`) | none; a page carries the token of the next | `list_objects_v2`, the parser | XML reader |
| bucket operations, buffered upload, delete, size (`s3_client.rs`) | none; FlUrl repeats the request | single requests | storage, region, error typing |
| errors (`error.rs`, `s3_client.rs`) | none | `detect_error`, `map_error_code`, `is_retryable` | everything |
| XML reader (`xml.rs`), canonical query and signing (`utils.rs`), region (`region.rs`) | none | pure functions | requests and answers |
| trace and `Debug` output (`s3_client.rs`) | none | output | nothing depends on it |

What is hard in it, and which property says it goes right (the full list, with lines, is
under `hazards` in `PROJECT.json`):

- **Concurrency without a lock.** The writer, the upload task and the owner of the handle
  share five atomics, a `Notify` and a channel. `finish` reads four of them one after the
  other. Correctness rests on orders: a chunk is counted before it can be received
  (`NothingUncounted`, `StoredIsNeverShort`), the end of the body is recorded before the
  channel shows it (`AbandonedBodyIsBlamed`), the body is announced before
  the first send may wait (`ParkedSendIsSettled`).
- **Two halves that fail together.** Which error the caller sees depends on who saw the
  other die (`BlameIsDeserved`, `DeadUploadIsExplained`, `ImplementsUpload`).
- **Calls that survive being given up.** A parked send and a GET in flight are finished by
  a later, different call (`BodyIsContiguous`, `CallerKnowsWhatWasTaken`,
  `BytesAreInPlace`).
- **Waiting.** For a first chunk, for room, for a producer, for a join
  (`EndedBodyEndsTask`, `StalledWriterCannotHoldFinish`, `DropEndsTask`, `CallComesBack`, `ProducerEnds`,
  `StartedReadEnds`).
- **What the network does.** Truncation, wrong ranges, early answers, an object overwritten
  under its reader (`DownloadIsWhole`, `EofIsTheEnd`, `RangesAreSatisfiable`); a body that
  ends in the middle (`ListingIsComplete`, `LocationIsRight`); a request that is repeated,
  or arrives when its call is long over (`ReportsWereTrue`, `ObjectIsOnePayload`).
- **Answers in many dialects.** Layouts, spellings, entities, tokens and statuses that
  differ from storage to storage (`ListingIsTrue`, `LoopIsBounded`,
  `CarriedOutIsNotRefused`), and a query that both sides must read and sign alike
  (`RequestIsReadAsAsked`, `SignatureMatches`).

## 2. Modules

```
UploadWriter ── UploadStreamed ─┬─ StartUpload ──────── StartUploadProofs
                       │        └─ UploadWithWriter ─── UploadWithWriterProofs
                       └─ UploadStreamedProofs          (both also extend the one on the left)
DownloadStream ── S3Reader ── S3ReaderProofs
Upload            (abstract; INSTANCEd by StartUpload and UploadWithWriter)
Positions ─┬─ Xml ── ErrorTyping ─┬─ ListObjects ─┬─ MCListObjects
           │                      │               └─ ListObjectsProofs
           │                      ├─ Buckets ─┬─ MCBuckets
           │                      │           └─ BucketsProofs
           │                      └─ StreamedRetries ── StreamedRetriesProofs
           └─ CanonicalQuery ─┬─ MCCanonicalQuery
                              └─ CanonicalQueryProofs
```

**UploadWriter.** A body is the interval `0 .. content_length` and a piece of it is the
half-open interval of the offsets its bytes were accepted at, so that order, holes and
repetitions are visible and contents are not. A `poll_*` call is a sequence of steps, one
per access to something another thread can see; `wpc` is the place in the call. So
`start_send` is `ReserveFails | ReserveWaits | ReserveSucceeds`, `CountChunk`, `PushChunk`
and the end of a body is `MarkBodyEnded`, `AnnounceBodyEnded`, `HangUp`. Loads and stores
are `Acquire`/`Release`/`AcqRel`; each flag is written once and every property depends on
an order that the release of a later write carries, so the interleaving semantics is the
right one. `late`, `taken` and `reported` are history: what the caller asked and was told.
A `Waker` is not modelled: a caller may poll whenever it likes, and where progress matters
(`ProducerParked`, `ParkedSendIsSettled`) the wake-up condition is stated.

**UploadStreamed.** One PUT. The HTTP client takes chunks from the channel in order
(`Recv`), the storage commits once all of `Content-Length` has arrived, whether or not
anyone still waits (`Commit`), and the request ends in a 2xx, an error answer, or a
failure of its own - signing, transport, `upload_timeout` - at any point. The `Receiver`
goes some time after the request is over (`CloseBody`). Client and storage are external and
modelled from how `upload_streamed` uses them. `EarlyAnswers` lets the storage send 2xx
before it has the body.

**StartUpload.** The task (`task`), `finish` and the drop of the handle (`hpc`), each
atomic read a step of its own; `abort` only schedules a cancellation that happens at an
await; the task may be lost to a panic or to a runtime shutting down at one.

**UploadWithWriter.** The call, its producer task, the settlement and the retry loop. The
producer ends in `Ok` or `Failed` (an error or a panic) after its writer went, and goes on
by itself when the call is cancelled.

**DownloadStream.** One GET: the checks of `download_file_range`, the status decisions of
`open_object`, the byte count of `get_next_chunk`. Bytes are offsets in a version of the
object; `Overwritten` replaces the object once, at any point. A storage that `misbehaves`,
which is settled at the start, may ignore a range or mistake its length. An open-ended range is one that ends at `MaxOffset`.

**S3Reader.** `poll_read`, `start_seek` and `poll_complete` are single steps: the reader is
used through `&mut`. What happens between them is the GET. `ReadStarts` returns `Pending`
and leaves completion to a later call, which covers a GET that answers at once; that later
call may come with any buffer, which is the cancelled read. `MaxOffset` stands for
`u64::MAX` and position arithmetic is modulo `MaxOffset + 1`. `InterleavedSeeks` lets a
caller read between the two halves of a seek. `user` says, from the start, whether the GETs
are those of a reader or one plain download of a caller that reads its stream.

**Upload.** What an upload promises, without tasks, channel and flags: a source writes,
ends or fails; bytes arrive in order; the storage keeps only a whole body; one verdict.
`Ok` needs a stored object and a source that did not fail, the source is blamed only for a
body it failed or ended short, and only an error of the upload itself may be followed by
another attempt. `ImplementsUpload` of `StartUpload` and of `UploadWithWriter` maps the
writer's end, the wire and the verdict of `finish` or of the call onto it. (`finish` and
`settle` measure what was sent, the abstract upload what arrived; the blame of the detailed
models implies the abstract one because what was not sent cannot have arrived.)

**Positions.** `Ascending`, the elements of a set of positions in order: the nodes a walk
hands out, the entries of a page, the pieces of a query.

**Xml.** A body is the sequence of its tags and texts. `is_safe_to_read` folds the nesting
depth over it as the code does; `read_node_text`, `next_child_of` and `read_text` say which
nodes and texts the walk over an accepted body yields, `MyXmlReader` being external.
`unescape` is the single pass from left to right, over symbols of which an entity is two.
`CutShort` is what a dropped connection leaves of a document. Declarations and comments,
which the scan passes over, are left out.

**ErrorTyping.** `is_success`, `detect_error` with `map_error_code`, and `is_retryable`, as
operators; used by the three modules below.

**ListObjects.** The loop that the documentation of `list_objects_v2` shows, against a
storage that lists its keys in order, flat or by folder, in pages of any length, in the
layout of AWS, Ceph or MinIO. `Faults` are what a page may lack; `AnswerCutShort` cuts a
page at any tag; `BucketChanges` puts and deletes keys between pages. `always` and `ever`
are history: what was there all the while, and at some moment. A node of a page is the
sequence of its parts, of which some may be missing (`NodeOf`), and `KeyOrder` and `Sizes`
are constants: keys are nonempty texts, no two of them alike, and a size is not one of the
words that stand for something that is no number.

**Buckets.** `create_bucket`, `create_bucket_if_not_exists`, `get_bucket_location`,
`check_if_bucket_exists`, `upload`, `delete_file` and `get_object_size`, by clients of two
accounts, for one bucket name and one key. FlUrl gives up an attempt and repeats the
request (`TimedOut`); a request that was given up stays on the wire and may be carried out
later, even after its call has returned. The storage answers from its state, refuses by
signature scope, account and location, or is too busy; an answer may be lost, break off or
be cut. `seen` is history: what the storage looked like while a call ran. A region is a row
of a catalogue (here of three) or `Other` with its text. `MCBuckets` names the scenarios -
clients, regions, operations, calls and answers that may be cut - and a behaviour is of one
of them.

**StreamedRetries.** `upload_streamed_with_retries`: each attempt has a channel and a
producer of its own that nobody awaits, and may commit after it was given up. As in
`UploadStreamed`, the storage answers 2xx only with the body, unless `EarlyAnswers`; and a
producer may end early, with part of its body sent.

**CanonicalQuery.** `encode_uri_component`, `append_query_param` and
`canonical_query_string` over bytes, against a storage that decodes the request line and
signs what it has read by the rules of SigV4. `Sorted` is an order of the pairs in which
none precedes the one before it, which is what the code's sort leaves.

Operators whose comment begins "Variant of" are deliberately wrong forms of the definition
that follows them; `PROJECT.json` says which property each one breaks. No specification
uses them.

## 3. Runs

| Run | Specification | Bounds | States |
| --- | --- | --- | --- |
| `StartUpload` | `Spec` | lengths 0, 3, 4, 5; chunk 2; capacity 1; slices to 3 | 588 thousand |
| `StartUploadLive` | `FairSpec` | lengths 0, 4; chunk 2; capacity 1; slices to 2 | 185 thousand |
| `StartUploadEarly` | `Spec`, early answers | length 3 | violation |
| `StartUploadDied` | `FairSpec` | length 4 | violation |
| `UploadWithWriter` | `FairSpec` | lengths 0, 4, 5; two errors, one retryable; one retry | 114 thousand |
| `S3Reader` | `FairSpec`, sound and misbehaving storage | sizes 0, 2, 4; offsets to 5; buffers to 3 | 63 thousand |
| `S3ReaderInterleaved` | `Spec`, interleaved seeks | size 2 | violation |
| `ListObjects` | `Spec` | four keys, two in a folder; three layouts; pages to 2; one change | 5 thousand |
| `Buckets` | `Spec` | two accounts with a call each; one client with two calls in two regions, one outside the catalogue; one client with an object and three calls; one repetition | 871 thousand |
| `BucketsCut` | `Spec`, cut location answers | one call, no repetition | violation |
| `StreamedRetries` | `FairSpec` | length 3; capacity 1; one retry; no early answers | 21 thousand |
| `CanonicalQuery` | `Spec` | two parameters; values to 3 of 6 bytes | 271 thousand |

Why the bounds are enough: with chunks of 2 and a capacity of 1, lengths 0 and 3 to 5 give
an empty body, a body that ends inside a chunk, one that ends with a chunk, and three chunks -
one on the wire, one in the channel, one parked - which is every relation the code
distinguishes. Slices of 3 are longer than a chunk and than what is owed. One retry gives
two attempts that could overlap. Reader sizes against buffers of 3 give reads that fit,
that span the rest of the object and that are answered short or long; offsets up to one
past the largest size reach both ends of the seek arithmetic. A listing of four keys with
two in a folder gives a folder that is split by a page, a token behind a folder and behind
a key, and keys that are themselves the text of an entity. Two accounts with one repetition
each give a `CreateBucket` that is refused because of its own first attempt, and one that
loses a race; three calls give a request of the first that arrives under the third. Values
of three bytes out of `a`, space, `%`, `&`, `=` and one above 127 include every piece of
query syntax and a value that is an escape itself. The theorems of section 4 hold without
any of these bounds.

What they show:

- `StartUpload`: the body reaches the wire without a hole or a repetition and counted
  before it can be received; the caller knows what was taken; late calls fail; `Ok` from
  `finish` means the object is stored; a stored object is never called short; the writer is
  blamed only for a body it did end short; an abandoned body is never put down to the
  storage.
- `StartUpload` and `UploadWithWriter` also check `ImplementsUpload`: every step is one of
  the abstract upload or invisible in it.
- `StartUploadLive`: an ended body ends the task; past the first chunk `finish` returns even
  if the writer stalls (with the former: whenever the body ends); a dropped handle takes the
  upload down; a parked send is settled if its caller polls again.
- `UploadWithWriter`: what the verdict means, through the refinement; that a dead upload is
  reported as what killed it, that attempts do not overlap, that the call comes back and
  that a cancelled call leaves no producer behind for ever.
- `S3Reader`: a body that ends well is whole, a reader's as well as a plain download's; every
  byte handed out is the byte at the position; end of file means the end; a sound storage
  and an unchanged object never lead to a range or length error.
- `ListObjects`: a listing read to its end has everything that was there all the while, and
  nothing that never was, with its own key and size, once; the loop ends, if the storage
  never sends a truncated page without an entry.
- `Buckets`: what a call reports - created, ours, somebody else's, missing, this
  large - was so at a moment while it ran; a reported region is the bucket's; a client of
  the endpoint's region never contradicts it; what was carried out is not called refused.
- `StreamedRetries`: the object is the previous one or the whole payload of one producer,
  whichever attempt becomes the object and whenever; `Ok` means that the last producer
  delivered its payload to the end (of a storage that answers early it would not, as in
  `StartUploadEarly`); only failures worth repeating are repeated; the call
  returns and every producer ends.
- `CanonicalQuery`: the storage reads the parameters that were given, and the query that
  was signed is the one it signs.

Four runs exhibit a behaviour that a comment of the code rules out:

- `StartUploadDied`: the upload fails while the writer's last call is `Pending` on a full
  channel, the writer is dropped without another call, and `finish` returns
  `UploadProducerFailed`. The comment in `finish` says the two cases can be told apart;
  they can only if the writer made another call. The error is one that is never retryable.
- `StartUploadEarly`: a 2xx that comes before the body has gone out, with the last chunk
  in the channel, is `Ok`. The comment in `finish` says a 2xx has to mean that every
  declared byte went out; the code measures what was given to the channel. It takes a
  storage that answers early.
- `S3ReaderInterleaved`: `start_seek`, `poll_read`, `poll_complete`, `poll_read` hands out
  bytes of the offset that was left. It takes a caller of the bare traits:
  `AsyncSeekExt::seek` makes both calls in one poll.
- `BucketsCut`: a `GetBucketLocation` answer that is cut behind its opening tag is no XML
  that can be read, contains `<LocationConstraint`, and is reported as `us-east-1`. The
  comment of `parse_bucket_location` says that what is not an answer must not be reported
  as a region. `LocationIsRight` holds in `Buckets`, where location answers are whole.

### Fairness

- A `poll_*` call that was entered runs to its return (it is synchronous code). Nobody owes
  the writer another call, except in `ParkedSendIsSettled`, which says so itself.
- tokio schedules a ready task; an awaited join resumes; a drop runs to its end.
- A request ends: `set_timeout(upload_timeout)` is always set on this path. The HTTP client
  lets go of the body of a request that is over.
- In `UploadWithWriter`, a producer that is awake again and again stops at some point
  (strong fairness of `ProducerStops`): sources are finite. One that is parked is owed
  nothing, which is what makes `CallComesBack` depend on the drop of the `Receiver`.
- In `S3Reader`, a GET is answered or fails, and the caller polls the read it was woken for.
- In `StreamedRetries`, weak fairness only: `upload_timeout` ends an attempt that nothing
  else ends, the client lets go of the body of an attempt that is over, and a producer that
  can end does, sources being finite. Neither a commit nor a 2xx is promised.

Deadlock is checked in every run; the explicit final steps are the states in which all
actors have finished.

## 4. Proofs

The theorems hold for every value of the constants that the named assumptions allow: a
chunk of at least one byte, lengths that are naturals, errors that are not the words `Ok`
and `none`, and the like; TLC evaluates each of them in the runs. Where a theorem has a
hypothesis of its own it is named below, with the run that shows what happens without it.

| Module | Theorems | What they say |
| --- | --- | --- |
| `StartUploadProofs` | `InvHolds`, `TypeCorrect`, `ContiguousBody`, `CountedBody`, `CompleteShutdown`, `HonestWrites`, `NoLateSuccess`, `OkIsProof`, `NoFalseShortBody`, `DeservedBlame` | the invariants of the run `StartUpload` |
| | `NoLocalError`, `FinalCount`, `AbandonmentIsBlamed` | the task's own report of a short body never surfaces; `sent` is final once the end is recorded; an abandoned body is not put down to the storage |
| | `UploadIsImplemented` | `start_upload` implements `Upload`, if `~EarlyAnswers` |
| `UploadWithWriterProofs` | `InvHolds`, `TypeCorrect`, `ContiguousBody`, `DeadUploadExplained`, `NoOverlap` | the safety of the run `UploadWithWriter`, for any number of retries |
| | `UploadIsImplemented` | the call with its retries implements `Upload`, if `~EarlyAnswers` |
| `StreamedRetriesProofs` | `InvHolds`, `WholeBodies`, `OnePayload`, `RetriesOnHope` | the safety of the run `StreamedRetries`, for any number of retries, with early answers or without (`Ok` promises a delivered payload only if `~EarlyAnswers`) |
| `S3ReaderProofs` | `InvHolds`, `TypeCorrect`, `WholeDownload`, `TrueEof`, `SatisfiableRanges` | the safety of the run `S3Reader`, for every `u64::MAX` |
| | `PlacedBytes` | every byte is at the reader's position, if `~InterleavedSeeks` |
| `BucketsProofs` | `InvHolds`, `TrueReports`, `NoFalseRefusal` | for any clients, regions, calls, repetitions and cut answers |
| | `NoContradiction`, `RightLocation` | if no region is named `""`; if none is named `"None"` and location answers arrive whole |
| | `WholeErrorIsTyped` | an error document that arrives whole decides the error, whatever the status |
| `ListObjectsProofs` | `NothingIsLost`, `Truthful`, `Bounded` | the invariants of the run `ListObjects`, for any keys, sizes of pages, faults and number of changes |
| | `NoNeedlessRefusal` | a page that lacks nothing the parser requires is never refused, if no key is the text `None` of the model |
| `CanonicalQueryProofs` | `InvHolds`, `ReadAsAsked`, `Signed` | the invariants of the run `CanonicalQuery`, for any number of parameters and values of any bytes |

`UploadStreamedProofs` holds the lemmas that the two upload modules share. None of the
properties is inductive. Each `IInv` was checked by TLC on an instance of its module before it
was proved.

**The upload.** `IInv` adds what ties the places of the actors to the data. `PlaceInv` says
which of the writer's fields are in use at which place of a call (a send is polled only with
its chunk and a `Sender`; the end of a body is reached by shutdown only with nothing left).
`CountInv` relates the pieces the writer holds to `sent` and `accepted`: the buffer begins at
`sent`; a pending chunk begins there too, except in the one step between count and push,
where it ends there. `ChannelInv` chains the chunks of the channel from the wire to that same
point, with the same exception. `TaskInv` and `HandleInv` say what the task and the handle
have established on their way: that a task about to measure has seen the end of the body, so
that `sent` is final; that an upload recorded as gone has really started, was lost, or lost
its handle; what each arm of `settle` may rely on.

The proof has one lemma per actor. `WriterCalledKeepsInv` and `WriterRunsKeepsInv` treat
the writer by itself, `WriterKeepsChannel` its effect on the channel (`PushKeepsChain`),
`RequestKeepsInv` the client (`RecvKeepsChain`). `WriterStepsAreGentle` is what the others
need to know of a writer's step: `sent` is final once the body has ended, and
`upload_ended` is set only on a closed channel. `WriterKeepsIInv`, `RequestKeepsIInv`,
`TaskKeepsIInv` and `HandleKeepsIInv` lift these to the whole system.

**The refinement.** `StepsImplementUpload` maps every step, under `IInv`, to a step of
`Upload` or to one that changes nothing it sees. The verdict is the hard step. `Ok` needs a
stored object, which `OkIsProof` gives; a blamed source must have ended with part of the body
not arrived, which follows from what `HandleInv` knows of the count and from `ChannelInv`:
what was not sent cannot have arrived. The hypothesis `~EarlyAnswers` cannot be dropped: a
2xx before the body makes `Ok` say less (`StartUploadEarly`).

**The call with a producer.** `UploadWithWriterProofs` reuses all lemmas about writer and
channel. What it adds is `CallInv`: a producer that has ended has let go of its writer, a call
past its upload has a request that is over and, unless cancelled, an outcome, and a settled
verdict is the one that `settle` computes from the state as it still is - nothing that
`settle` reads changes once the producer has ended.

**Streamed retries.** `BodyInv` and `StorageInv` hold for all attempts at once, the abandoned
ones included: what an attempt stored is its whole body, and the object is one that was
stored. `StoredIsDelivered` turns that round: the bytes of a stored body came through the
attempt's own channel, so that its producer delivered all of them and no earlier attempt's
bytes make up for an early end; `OnePayload` follows for the object, and for `Ok` when the
storage answers with the body. `LoopInv` counts: every error but the last is one that may pass, and one that may
pass is last only when the retries are spent. `HopeIsRetryable` shows that `is_retryable`,
expanded, is what tells the two sorts of failure in the model apart.

**The reader.** `StreamInv` relates what was received of a GET to what is coming and to its
question; `ReaderInv` says that a GET in flight is the reader's question - one range, not
empty, within the size - and `SoundInv` that a sound storage with an unchanged object sends
exactly that many bytes. The type invariant is part of the argument: positions wrap at
`MaxOffset`, and `Wrapping` is applied where the code's checks keep them from it.
`PositionInv` is separate, because it alone needs a caller that lets a seek finish: a GET in
flight and a leftover begin at the position (`S3ReaderInterleaved` shows the other case).

**Buckets.** `CallInv` says that a call that runs has seen the storage as it is now, and that
what a returned call `Tells` was so at some moment it has seen. `OutcomeTells` puts together
what each answer leads to: an answer that is an error is justified by the storage
(`Justified`), and `ErrorIsAsSpoken` says that the error the caller gets is
the one that was spoken, or one that claims nothing, even when the body was cut. That rests
on `TextIsOfTheDocument` and `CutHasNoOtherTexts`: a reader can find in a document, whole or
cut, only a text that is in it. `StorageInv` has the one fact that no call knows, that a bucket
that is nobody's has no object. For `RightLocation`, `RootIsRead` computes the nesting scan
on the three forms of a location answer, `CodeIsRead` on the error document, and `RegionIsKept` shows that `as_str` undoes
`from_str`. The hypotheses: of an empty region `create_bucket_configuration` says nothing; the
word `"None"` is this model's absent text; and `BucketsCut` shows what a cut answer does.

**Induction.** What the listing and the query say is about documents and texts of any
length. The library's induction theorems take an operator as a parameter, which the provers
cannot instantiate; `Induction` and `SeqInduction` are stated about a set instead: one that
holds 0 and with every number the next one holds every number, and likewise for sequences.
They are proved from the well-foundedness of `<`. A recursive function of a library operator
(`FlattenSeq`) or of a model (`Scan`) is the one function that obeys its equation, so it is
enough to show one that does (`FlattenIsComputed`, `ScanIsComputed`).

**The listing.** The proof has three parts.

- *A document is read as it was written.* A `Part` is a node or nothing; its levels are those
  it has by itself, raised by the level it is at (`LevelOfPart`), so parts laid one behind
  the other inside a node are what the walk over that node hands out, in their order
  (`PartsAreLaid`, `ChildrenOfNode`). What a field of a node is read as follows from where it
  is written (`WrittenIsRead`), and escaping is undone by the single pass of `unescape`,
  also for keys that are themselves the text of an entity (`EscapeIsUndone`).
- *A page is read as its entries, or not at all.* `PageOfIsRead`: for every layout and every
  fault the parser yields `Failed` or exactly the objects and folders of the page and, when
  there is more, the token of its last entry; and it does not yield `Failed` for a page
  without a fault that matters (`Broken`), because a node is safe to read (`NodeIsSafe`) and
  every required field of it is there. Without that half a parser that refuses everything
  would satisfy the theorems about the loop. `CutIsRefused`: of a page that was cut, at any
  tag or inside one, nothing is read, because the scan ends above level 0 or is unsafe.
- *The loop.* The inductive invariant `Inv` has the position that the token stands for:
  everything listed is up to it, everything that was there all the while and is up to it is
  listed, and no more pages were asked for than it says. `PageIsNews` says what a page adds:
  each entry once, behind the old position and up to the new one, and all of the bucket's in
  between. An entry is identified with the last key that is listed as it (`FinalIs`), which
  is why a folder that was split by a page is neither lost nor repeated. A key that comes or
  goes changes neither what is listed nor the position.

The faults need not be those of the run: a fault the model does not know has no effect on a
page, and the theorems are for any set of them.

**The query.** `Inv` says that the pairs found in the query are the parameters asked for,
one for one, each as it is encoded (`OnTheWire`), and that the query does not end in a
separator (`Closed`), so that the next parameter can be put behind it. Encoding is undone by decoding because every piece of an encoded text is complete
by itself (a byte that is left alone, or an escape of two digits), so that decoding a
concatenation is concatenating what the pieces decode to; and since no piece holds a
separator, splitting at `&` and `=` finds the pairs that were appended. For `Signed`,
`Before` is shown total and asymmetric on pairs of texts, an order of any list of pairs
exists by inserting one after the other, and the canonical query, read back, is that order.
The assumptions are those of the code's call sites: names are nonempty texts of bytes that
are not encoded, and the alphabet is one of bytes.

Only model-checked:

- all liveness properties, because the prover treats neither fairness nor `ENABLED`;
- the runs that exhibit a violation.

## 5. Not modelled

- The HTTP client, TLS, tokio's scheduler and channel, and the storage, beyond the
  behaviour described above. tokio's cooperative budget, which can make a `reserve` return
  `Pending` with room in the channel, only delays a step.
- Contents of bytes, error texts, names, credentials, hashes and HMAC: signing appears as
  the region of the credential scope, as a request that cannot be signed and is not sent,
  and as the canonical query. The date of a signature, which a repetition by FlUrl carries
  along, and clocks are not modelled.
- `prefix` and `max_keys` of a listing, which change what the storage lists and nothing in
  the client, `ETag`, which is passed through, and white space around `Size` and
  `IsTruncated`.
- A storage that sends a truncated page without an entry, or calls page after page truncated
  for ever: the client follows every token of a truncated page, and nothing in it bounds the
  loop then. `LoopIsBounded` is about storages whose truncated pages have an entry each.
- In `Buckets`, an object of no bytes, which is not told apart from no object.
- In `S3Reader`, a storage that mistakes where a range begins: a misbehaving one answers with
  too few or too many bytes, from the offset it was asked for.
- An object or a bucket that a straggler changes after a later call has returned:
  `ReportsWereTrue` is about the time in which a call runs, and in `StreamedRetries` an
  attempt that was given up may replace the object after `Ok`, with its own whole payload.
- Bodies whose closing tags do not match what they close: `is_safe_to_read` accepts them
  and what `MyXmlReader` makes of them is its own business. Nodes inside a node whose text
  is read.
- A producer that moves its writer to another task and returns before it.
- The console trace and the `Debug` output: nothing depends on them.

## 6. Plan

Done: the modules above, in the order listed; the proofs of the safety of `StartUpload`,
`UploadWithWriter`, `StreamedRetries`, `S3Reader` with `DownloadStream`, `Buckets`,
`ListObjects` and `CanonicalQuery`; the two refinements of `Upload`, step by step.

Next: a page and an error document in which a tag closes another than it opened, which needs
a model of what `MyXmlReader` does with it.
