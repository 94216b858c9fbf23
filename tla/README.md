# A TLA+ model of trips-upload-poc

The program is the upload service of a trip-ingestion pipeline: Azure Functions
handlers through which a mobile client opens an upload session, writes its
files straight to Blob Storage with SAS URLs, and reports that it is done; the
service then checks the files, keeps a *trip log* in Cosmos DB, and announces
the trip to the downstream workers through Event Hubs (Kafka locally).

The code is small and sequential in each request. What is hard about it is what
happens between requests, and between the remote calls of one request: nothing
is locked, every write to the trip log is an optimistic `replace` guarded by an
`_etag`, the publish to the event hub is not part of any write, clients retry,
workers die, and the threads that serve requests are reused. That is what this
project models, checks and proves.

Source lines below are those of `src/`.

## 1. Inventory

| Component | State it keeps | Operations | Speaks to |
|---|---|---|---|
| Upload session (`api/v1/upload_session.py`, `services/upload_session_service.py`) | none of its own; local `timestamp`, `expires_at` | `create_session` | blob storage, Cosmos |
| Upload complete (`api/v1/upload_complete.py`, `services/upload_complete_service.py`) | none of its own; local `trip_log`, `etag`, `file_results` | `complete_upload`, `_validate_file`, `_source_flags`, `_publish_event`, `_build_idempotent_response` | Cosmos, blob storage, publisher |
| Trip log store (`services/cosmos_db.py`) | documents with `_etag`, in Cosmos | `create_trip_log`, `get_trip_log`, `update_trip_log`, `trip_exists` (unused), `new_trip_log` | Cosmos |
| Blob storage (`services/blob_storage.py`) | the landing container | `ensure_container`, `generate_sas`, `blob_exists`, `get_blob_properties`, `download_blob`, `upload_blob` (tests), path builders | Blob Storage |
| Publishers (`services/event_hub.py`, `services/kafka_publisher.py`, `services/messaging_factory.py`) | a lazily made producer | `get_publisher`, `publish_trip_event`, `close` | Event Hubs, Kafka |
| Authentication (`services/auth.py`) | none | `authenticate_request`, `validate_jwt` | settings |
| Correlation and logging (`shared/correlation.py`, `shared/logging.py`) | a ContextVar per thread, a configured flag | `bind_`, `get_`, `reset_correlation_id` | every handler |
| Settings (`config.py`) | one cached value per process | `get_settings` | every service |
| Telemetry, health, entry point, HTTP and errors (`shared/`, `function_app.py`) | none | `configure_telemetry`, the three routes, the JSON envelopes | - |
| Schemas (`models/`) | none | validation, formatting | - |

Interaction: the session endpoint creates the log and hands out paths; the
client writes the blobs; the complete endpoint recomputes the paths from the
log, reads the blobs, writes the log three times (VALIDATING, then VALIDATED or
FAILED, then PUBLISHED) and publishes between the second and the third; the
workers downstream, which are not in this repository, take the event and move
the log on. All state that outlives a request is in the three services, but for
two things of a worker process: the settings it read when it started, and the
correlation id its threads still hold.

What makes each part correct:

* *complete*: a log says PUBLISHED only if an event agrees with it, 200 is
  answered only for a published session, no attempt overwrites what it did not
  look at, the fields written by different attempts agree, at most one request
  is told it published, and a retry can always finish what an attempt left.
* *validation of a file*: each part of a verdict, size, checksum and error, is
  true of some moment, though it takes three calls; all of it is true of one
  moment if the descriptor describes one content.
* *session*: the announced expiry covers every SAS, the paths of the lookup are
  those of the upload, sessions do not see each other's blobs, and no client
  holds a SAS without a log.
* *both together*: what an event announces is there and stays there, and what a
  client was told stays true when the workers move on.
* *a worker process*: everything a request leaves behind carries one id, which
  is not that of a request served beside it; and what picks the publisher and
  what admits the developers' token never come apart.

The hazards behind these are listed with their lines in `PROJECT.json`.

## 2. Modules

| Module | Models |
|---|---|
| `TripLifecycle` | an abstract specification: the life of the log of a session and of its events, without requests, etags or services |
| `UploadGrants` | an abstract specification: which writes the clients of sessions are allowed, without calls, services or SAS URLs |
| `UploadComplete` | any number of requests running `complete_upload` over Cosmos, Blob Storage and the hub |
| `UploadCompleteDocs` | what a document says of it and the code does not do |
| `UploadCompleteInvariant`, `UploadCompleteProofs` | the inductive invariant, and the theorems that follow from it |
| `UploadCompleteProgressProofs` | that requests neither go round in circles nor strand a session |
| `FileValidation`, `FileValidationProofs` | `_validate_file` call by call, against a client that overwrites the blob |
| `UploadSession`, `UploadSessionProofs` | calls of `create_session` side by side, with the clock |
| `UploadSystem` | the composition: `UploadSession` and `UploadComplete` over one clock, one container and one Cosmos, and the workers downstream |
| `UploadSystemProofs`, `UploadSystemHistoryProofs`, `UploadSystemLifecycleProofs` | what the composition keeps of its parts; what holds because of what came earlier; that it implements the lifecycle |
| `Worker`, `WorkerProofs` | one worker process: its threads, their context, the settings, authentication, the choice of the publisher and the answers |
| `MCUploadComplete`, `MCFileValidation`, `MCUploadSession`, `MCUploadSystem`, `MCWorker` | values for TLC |

Operators marked `(Bug: ...)` stand before the definition they are a wrong
version of; nothing uses them, they serve to show that each property can fail.

### UploadComplete

A *request* is one call of the endpoint; a retry is another request. `pc[r]`
says which remote call it makes next, and the local variables of
`complete_upload` are functions of `r`:

| Action | Code |
|---|---|
| `Arrive` | the endpoint up to `complete_upload(...)`, `api/v1/upload_complete.py:22-73`: any authenticated user, any session, any well-formed body |
| `GetTripLog` | the first read and the early returns 404, 403 and "already published", `upload_complete_service.py:75-88` |
| `Reread` | `update_trip_log`'s own read, `cosmos_db.py:146` |
| `Claim`, `Store`, `MarkPublished` | the three accepted replaces, `:96`, `:115`, `:127`; `Replace` is what they share: the merge into the *re-read* document, guarded by the *caller's* etag |
| `Conflict` | the 412 and the 409 it becomes |
| `ValidateFile` | the verdict over one file, `:142-195` |
| `Publish` | `_publish_event`, `:126` and `:211-237` |
| `Crash`, `CosmosFails`, `ReplyLost`, `BlobFails`, `PublishFails` | death between two calls; exceptions, each with the answer it becomes; a replace that was applied but not answered; a send that failed after it was accepted |
| `CreateSession`, `PutBlob`, `ExpireSas` | the rest of the world |

Abstractions. A descriptor is the content its size and checksum belong to, and a
blob equals it or does not; or it is `Mixed`, with the size of one content and
the checksum of another, which no blob fits, but which may pass while the SAS is
open (`Passes`; why is in `FileValidation`). `_etag` is a counter of the document's writes: only its
equality is used. `validated` is a history variable: what was ever stored as
VALIDATED. The log keeps the fields the protocol depends on: user, status,
`validation_status`, `event_id`, and the set of sources whose `*_exists` is
true. A Cosmos document is never deleted by this program, so the re-read finds
it. An event records its request, so that properties can speak of it. The
statuses PROCESSING, SUCCESS and PARTIALLY_PROCESSED, which only the downstream
workers store, come in with `UploadSystem`.

### FileValidation

`UploadComplete` takes the validation of a file as one step, while the code
makes up to three calls and the client may write between them. The descriptor is
what the client reports: a size and a checksum, each of any content
(`models/complete.py:32-33`). What a verdict is worth whatever the descriptor
and the writes is `VerdictIsBacked`: a VALID file had the size described at some
moment of the validation and the checksum described at some moment, and a FAILED
one was not the file described at some moment.

The two moments may differ: the size is compared with the properties, the
checksum, when the blob carries no MD5, with a later download whose size is not
looked at. So a file that grew between being measured and hashed, and is
uploaded again between the two calls, is VALID though a look at any one moment
would fail it: `PutBlob(good)`, `Begin([size |-> Size[good], checksum |-> big])`,
`BlobExists`, `GetBlobProperties`, `PutBlob(big)`, `DownloadBlob` is a behaviour
of the module, and TLC finds it when `LooksOnce` is checked as an invariant of
`one_file`. `AtomicUnlessMixed` says when that cannot happen: the three calls are
worth one look if the descriptor's size is that of the content with its checksum,
or if nobody touches the blob meanwhile. This is what `ValidateFile` of
`UploadComplete` rests on: it takes one look at the blob, and lets a `Mixed`
descriptor pass or fail as long as the client may write.

A checksum is taken for the content it belongs to, and the MD5 that a blob
carries for that of its content.

### UploadSession

A call stands for its session (the uuid is fresh). The clock is read once for
the paths (`upload_session_service.py:40`), once by every `generate_sas`
(`blob_storage.py:161`) and once for `created_at` (`cosmos_db.py:190`); it may
move between any two steps, over midnight too. `LookupPath` is the path
`_validate_file` computes from the log.

User and route ids are sequences of the parts that "_" separates, because the
code joins the two with "_" (`blob_storage.py:74-75`) and ids may contain one:
user `a_b` on route `c` and user `a` on route `b_c` have the same prefix.
`Isolation` says how far sessions are kept apart in spite of that, and under
which condition on the ids they are apart altogether.

What all this adds up to for a client is `UploadGrants`: a session goes on
record once, and its client may write its owner's paths of one second until one
moment, the announced expiry. `UploadSession` implements it (`RefinesGrants`):
calls, faults and the dates of single SAS URLs map to stuttering, a stored log
to `Grant`, or to `Record` if its reply is lost, an accepted PUT to `Put`.

### UploadSystem

`S == INSTANCE UploadSession` and `C == INSTANCE UploadComplete`, with the
variables they share computed from one state:

* a trip log has two halves, `record[s]` (what session creation writes once) and
  `log[s]` (what complete reads and writes); `CreateTripLog` makes both at once;
* the container is one set of blobs, each with path, writer and content.
  `UploadSession` sees it without contents, `UploadComplete` sees `Found`: the
  content at the path it computes for each session;
* `UploadComplete`'s `sas_open` is `Writable`, by the clock;
* `Downstream` is the one action of code outside the repository: a worker takes
  a PUBLISHED log to PROCESSING and that to a final status. It stands for what
  docs/poc-architecture.md:98 says these workers do, and a log that is not
  PUBLISHED is not theirs to take. Only the statuses matter here, because
  `complete_upload` compares with PUBLISHED (`upload_complete_service.py:87`);
* no descriptor is `Mixed` here (`CompleteAssumption`): whether one passes
  depends on who may write the path, which with shared paths may be another
  session's client, while `Passes` of `UploadComplete` goes by the session's own
  SAS;
* `moved` and `arrival` are history variables: which logs a worker has moved,
  and when a request came and whether another had been told 200 by then.

That sessions do not touch each other's state, which `UploadComplete` on its own
takes for granted, is false where two sessions share their paths (`SharePaths`:
one second, one joined name). `StepsOfComplete` says that this is the only
exception.

### Worker

The handlers are synchronous functions, so the host runs each on a thread of a
pool. `context[t]` is the ContextVar as thread `t` sees it; `thread[r]` the
thread of request `r`. Settings are fixed for the life of the process
(`get_settings` is cached), and `Deployments` are those it may start with.

| Action | Code |
|---|---|
| `Take` | the host gives a call to a thread that is free |
| `Bind` | `bind_correlation_id`: the header, else what the context holds, else a fresh id; `set_operation_attributes` writes it to the span, if one is recorded |
| `Health` | the health route, which reads the id back from the context |
| `Authenticate` | `authenticate_request` and the parsing of the body |
| `Build` | the constructors of the services, which look at their settings |
| `CreateSession`, `Validate`, `Mark` | the service calls, each with every answer it can end in; `UploadSession` and `UploadComplete` say when which |
| `Unconfigured`, `Publish` | `get_publisher`, the producer, the send |
| `LibraryLog` | a log line of an SDK, to which the formatter adds the id in the context |

`traces` is every place where an id is left: spans, log lines, answers, trip
logs, events. A JWT is one of "signed", "forged", "expired": the HMAC is taken
for what it promises.

### TripLifecycle

Statuses, flags, stored verdicts and events of a session: `Claim` from any
status but PUBLISHED, `Accept` and `Reject` from VALIDATING, `Emit` for any
verdict ever stored, `Publish` only from VALIDATED and only if the very verdict
in the log has been emitted, `Downstream` what the workers make of a published
log. `UploadComplete` implements it, without any worker, with
`emitted <- {<<e.session, e.sources>> : e \in hub}`; the failing and dying of
requests, and everything they know, maps to stuttering. `UploadSystem`
implements it with the workers, and where two sessions share their paths.

## 3. Runs

| Run | Bounds | Question |
|---|---|---|
| `two_requests` | 2 requests, 2 users, 2 sources, 2 contents, full and partial manifests, wrong content, a mixed descriptor, every fault; 3.2M states | Is the log coherent, is every event backed, does at most one request win, does a request that is alone never conflict, do requests that overtake each other always come to an end and never strand the session, and is the invariant of the proofs one? |
| `three_requests` | 3 requests, 1 user, 2 sources, full and partial manifests, crashes and failing publishes; 3.1M states | Does PUBLISHED always mean what it says, and does the protocol implement `TripLifecycle`? |
| `retry_recovers` | 2 requests, full and partial manifests, a mixed descriptor, every fault, fairness; 1.6M states | Does a retry finish what any attempt left behind? |
| `contention` | 3 requests, 1 file, no faults, fairness; 0.15M states | Does one of several requests that overtake each other publish? |
| `one_file` | 3 contents (two of one size), every size with every checksum, removal and errors; 5,922 states | What is a verdict worth if the blob changes between the calls, and is its error true? |
| `sessions` | 2 sessions, 3 callers (two of which join to one name), 2 sources, a day of 3 s, a SAS of 2 s, a clock to 4, every fault; 2.5M states | Expiry, paths, isolation; do the calls implement `UploadGrants`? |
| `system` | 2 sessions, 2 requests, 1 source, 2 contents, a clock to 1 with a SAS and a day of 1 s, lost replies of Cosmos while a session is created, failing publishes, workers that store PROCESSING and FAILED; 0.5M states | Does the composition take steps of its parts, do events announce what stays, does 200 stay true, does a late retry add an event, does it all implement `TripLifecycle`? |
| `worker` | 2 threads, 2 requests, 8 kinds of calls, 7 deployments; 0.8M states | Do ids mix, and does the developers' token reach the Event Hub? |

*Bounds.* One session is enough in `UploadComplete`: no step reads or writes the
log, blobs or events of another (the proofs need no such argument, and `system`
has two). Two requests meet in every pair of phases, under every fault; a third
is what overtakes the overtaker, and runs with the faults that strike in the
middle of an attempt. Two sources make verdicts differ, which is all that the
sources are for. In `UploadSession` two sources separate the first SAS from the
last, and the clock is long enough for a SAS to expire and a midnight to pass.
In `UploadSystem` what matters is the time between sessions, uploads, validation
and expiry: one file has it all, and a clock that ticks once lets sessions fall
into one second or two, a SAS expire, and midnight pass; a first and a late
request are enough for a retry after the workers. The faults are those that part
the two halves of an attempt; the rest of them is in the runs of the parts. In
`Worker` two requests on one thread inherit, on two threads run side by side.
Requests (but in `Worker`, where a request is also the id it generates),
sessions and threads are interchangeable, so the runs use symmetry over them;
the liveness runs use none. Deadlock is not checked: when every request has been
answered, every SAS has expired and every session is there, the system rests.

*Properties.*

* `UploadComplete`: `CoherentTripLog`, `PublishedHasEvent`,
  `AcknowledgedIsPublished`, `EventsAreBacked`, `OneWinner`,
  `SoloNeverConflicts`, `NeverStranded`, `RunsOut`, `PublishedIsFinal`,
  `NoLostUpdate`, `RefinesLifecycle`, `Recoverable`, `SomeoneWins`;
* `FileValidation`: `VerdictIsBacked`, `ErrorIsTruthful`;
* `UploadSession`: `AnnouncedExpiryCoversSas`, `CutOffIsShort`,
  `FoundWhereUploaded`, `Isolation`, `BlobsHaveLogs`, `RefinesGrants`;
* `UploadSystem`: `StepsOfComplete`, `AnnouncedContentStands`,
  `AcknowledgedHasEvent`, `LateRetryAddsNothing`, `OneWinnerUntilMoved`,
  `PublishingStands`, `NoneStranded`, `RefinesLifecycle`;
* `Worker`: `OneIdPerRequest`, `IdIsNamedOwnOrInherited`, `HubEventsAreSigned`.

Each is stated in words above its definition.

*Fairness.* `FairSpec` has weak fairness of `Step(r)`, the steps a request that
has arrived takes by itself: its worker thread runs on unless it dies. There is
none on clients, expiry or faults. Both liveness properties are conditional on
the clients having written the files. `SomeoneWins` holds for finitely many
requests; clients that retry for ever can overtake each other for ever.

### Where documents and code disagree

Four runs each find one statement of the repository violated.

| Run | The statement | What happens |
|---|---|---|
| `single_event` | fix-plan.md:77, "only one event is published" | a request that loads the log after another's VALIDATED write publishes as well; no fault is needed |
| `midnight` | poc-architecture.md:83 | the lookup is on another day than the upload |
| `correlation_leak` | `shared/correlation.py:1`, "request-scoped" | the next call on a thread takes over the id of the last |
| `producer_reuse` | docstring `event_hub.py:30` | every complete request opens a producer of its own, and leaves it open |

More can be read off the modules without a run:

* A file that at no moment of its validation matches its descriptor may be VALID
  (`FileValidation`, above), where poc-architecture.md:191-192 answers a mismatch
  of size or of checksum with FAILED.
* No retry looks at the stored `event_id` that the comment at
  `upload_complete_service.py:112` counts on: `GetTripLog` tests the status only.
* Events of one session carry one `event_id` even if they announce different
  sources, because attempts may name different files: a consumer that drops
  duplicates by it, as the comment at `:90` has it, may drop the one that agrees
  with the log.
* The event may be out although the PUBLISHED write fails, where
  poc-architecture.md:195 has no event; and `PublishFails` leaves the log as it
  is, where poc-architecture.md:196 asks for a rollback of the status.
* `CosmosFails` ends failed reads and broken connections as "error", a 500,
  where poc-architecture.md:195 says 503.
* The loser of the race to create the container gets a 500
  (`CreateContainer` of `UploadSession`), where the docstring at
  `blob_storage.py:139` says it is created if it does not exist.
* A manifest may name fewer files than the four that README.md:141 says every
  trip has, and its session is published with what it named
  (`models/complete.py:51`).
* A retry that comes after a worker moved the log on claims it back and publishes
  again, where poc-architecture.md:194 wants a duplicate complete to be answered
  200 without an event; this is the exception in `LateRetryAddsNothing`.
* In `Worker`: the answer 404 is not logged, an unhandled exception is answered
  without the correlation id, and a publisher that is not configured is a 503
  with Event Hubs and a 500 with Kafka.

## 4. Proofs

`tlapm` checks the theorems for every value of the constants - any number of
requests, sessions, users, sources, contents, threads, any faults, any clock -
under the named assumptions of the modules only: `None` and `Mixed` are none of the values they
stand in for, no descriptor is `Mixed` in `UploadSystem`, the sets a parameter ranges over are of their type, a manifest
names at least one source, there are finitely many sources, durations are
positive. TLC evaluates each of them.

**Complete** (`UploadCompleteProofs`). The safety properties are not inductive:
that a PUBLISHED log has its event depends on what the request that marks it
knows when it writes. The invariant says what that is. A request is *current*
while its etag is the document's. What a request knows of the document is stated
only while it is current (`CurrentKnows`: VALIDATING while it validates,
VALIDATED with its own verdict and event_id when it publishes), so another
request's write, which changes the etag, has nothing to preserve; and an
accepted replace is made by a current request only, which then knows what it
overwrites. `RereadInFlight` says that the re-read lies between the request's
etag and the document's, so that a current request merges into the document
itself. This is the argument that `update_trip_log`, which merges into one read
and guards with another, loses no update. The rest (`OwnerInFlight`,
`PublisherHasVerdict`, `EtagsCount`, ...) is bookkeeping.

The invariant comes in two parts. `CoreInv` needs nothing of a PUBLISHED log but
that its event is out; it is preserved by any write of another actor that keeps
owner and verdict and makes a new etag (`InvMovedOn`, "steps of others"), and
this is what carries it over to the composed system. `IInv` adds that PUBLISHED
is final, which only this program on its own can promise. From them follow the
invariants `CoherentTripLog`, `PublishedHasEvent`, `AcknowledgedIsPublished`,
`EventsAreBacked`, `OneWinner`, the action properties `PublishedIsFinal` and
`NoLostUpdate`, and `Implementation`: `Spec => RefinesLifecycle`, step by step.

**Progress** (`UploadCompleteProgressProofs`). Liveness is out of reach of the
provers; what can be proved is the safety part that it rests on, for any number
of requests. `RunsOut`: each step of a request lowers a bound (`StepsLeft`) on
those it has left, and no step of another raises it, so a request whose thread
runs on ends. `NeverStranded`: a session that says VALIDATING or VALIDATED has a
request at work that is current, or one that a fault cut off. It is inductive
over `CoreInv`: when a current request is overtaken the writer becomes the
current one, and a current request can leave only by a write of its own, which
is a verdict, or by a fault. The two together leave no way for requests that
only overtake each other to end with the session at work for nobody. What
remains for TLC is that the last of them publishes (`SomeoneWins`) and that a
retry does (`Recoverable`). `SoloNeverConflicts` has an invariant of its own: a
request is current from its first read on, as long as no other has come for its
session.

**Validation** (`FileValidationProofs`). `IInv` keeps that the content at the
path is among those seen, and that a download follows a matching size; from it
`VerdictIsBacked` and `ErrorIsTruthful`, for any contents, sizes and
descriptors. `ValidationIsAtomic` follows: the content with the right size and
the one with the right checksum are the same one when the descriptor is of one
content (`Coherent`), or when only one thing was there to see (`Undisturbed`).

**Session** (`UploadSessionProofs`). The invariant says that a log is made of
the variables of its own call, that a SAS which exists expires no later than the
one made last, and that a blob lies at a path of its writer, whose client was
answered. `Isolation` then needs `JoinedInjective`: two callers whose ids join
to the same sequence are the same if their user ids have equally many parts.
`CutOffIsShort` needs the order of the readings of the clock as well (`Timed`),
and so does `SessionImplementsGrants`: every step before the log is stored
leaves all grants alone (`OwnIsQuiet`), storing it is a grant over a second that
has passed and up to a lifetime from now (`StoredIsGranted`), and a write that
some SAS lets through comes before the announced expiry, at a path of the owner
on record (`WriteIsGranted`).

**System** (`UploadSystemProofs`, `UploadSystemHistoryProofs`,
`UploadSystemLifecycleProofs`). `SessionsAsAlone` shows that the session half of
the composition implements `UploadSession`, so the theorems about that hold here
(`SessionsKeepPromises`, `SystemImplementsGrants`) without being proved again.
The other half cannot be carried over so: `UploadComplete` does not know the
workers, nor two sessions with one set of paths. `StepsOfCompleteAlways` says
exactly how far it goes. `DocInv` keeps what survives the workers: a PUBLISHED
log has an event by its owner, a request works on a log of its own user, and
whoever was told 200 has an event of the session. From it follows
`AcknowledgedHasEvent`. The lifecycle proofs go further: `CoreInv` of
`UploadComplete`, as an instance over the paths the system computes, is an
invariant of the system (`CoreInvariance`): creating a session and uploading are
steps of others for it, a worker's write is the `InvMovedOn` of above, and the
steps of requests are `UploadComplete`'s. So `PublishingStands` holds, and
`SystemImplementsLifecycle` shows step by step that the system implements
`TripLifecycle` with the workers, whatever sessions share. `OneWinnerUntilMoved`
adds, from `RetryInv` (below), that of two winners a worker came between, and
`NoneStranded` that workers' writes, which make new etags too, never get ahead
of the request a session depends on.
Two properties are about what came before:

* `LateRetryAddsNothing` rests on `RetryInv`: while a log is PUBLISHED no request
  at work holds its etag, so none of them can get back to publishing it; a
  request that comes later finds PUBLISHED unless a worker has moved the log.
* `AnnouncedContentStands` rests on `StandInv`: if every client with the paths
  of a session was told an expiry that a request came after, then no SAS for
  these paths is open while the request is at work (`AnnouncedExpiryCoversSas`),
  so the files it found valid stay what they were.

**Worker** (`WorkerProofs`). A thread serves one request at a time
(`OnePerThread`), the context of its thread is the id of a request being served
(`ContextIsOwn`), and what a context holds was bound by a request of that thread
(`ContextIsBound`). `OneIdPerRequest`, `IdIsNamedOwnOrInherited` and
`HubEventsAreSigned` follow.

*Only model-checked*: the two liveness properties, `Recoverable` and
`SomeoneWins`, which are out of reach of the provers; their safety core is
proved, as said above. Every other property of a passing run is a theorem. No
module declares a RECURSIVE operator or needs induction over data.

## 5. Not modelled

* How a SAS is signed, an HMAC verified, an event or an answer serialized, a log
  line laid out: formatting, or arithmetic of a library.
* `trip_exists`, `upload_blob`, `close`, `create_mock_token`,
  `reset_correlation_id`, `reset_logging` and the like are called by no handler.
* The file list of `_build_idempotent_response`: the answer is there
  ("already"), but the list it makes up (all four files VALID, whatever was
  named) is a constant of the code that nothing depends on.
* Which exceptions the SDKs raise for what: the model takes every answer that
  the code's `except` clauses can turn them into (`cosmos_db.py:110`).
* The exporter of telemetry, and the span attributes other than the id.
* The creation of database and containers against the Cosmos emulator.
* Deployment, samples, scripts: no program logic.
* A `Mixed` descriptor in `UploadSystem`: `UploadComplete` has it, and
  `FileValidation`, call by call.

`PROJECT.json` says so for each component.

## 6. Plan

The plan of the first version - the composed system, the publishers, the
correlation id, authentication, and the proofs about them - is done. What could
still be added is an abstract specification of `Worker`, a crash of the whole
worker process, which `Worker` leaves to the `Crash` actions of the protocols,
and a model of the downstream workers in place of the one action that stands for
them, once their code is in the repository.
