--------------------------- MODULE UploadComplete ---------------------------
(***************************************************************************)
(* POST /api/upload/complete: any number of requests, on as many worker    *)
(* threads or hosts, run UploadCompleteService.complete_upload over the    *)
(* trip log in Cosmos DB (optimistic concurrency on _etag), the landing    *)
(* container in Blob Storage (which clients write while their SAS lasts)   *)
(* and the event hub.  Every remote call is a step of its own, so calls of *)
(* different requests interleave, and a request may die between any two.   *)
(*                                                                         *)
(* A descriptor stands for the content with its size and its checksum, or  *)
(* is Mixed, if these are of different contents.  A session's blob path is *)
(* fixed (UploadSession looks at how it is built).                         *)
(***************************************************************************)
EXTENDS Naturals, FiniteSets

CONSTANTS
  Requests,   \* calls of the endpoint; a client's retry is another request
  Sessions, Users, Sources, Contents,
  Manifests,  \* the "files" of a request: a descriptor for each source it names
  Faults,     \* which faults happen: "crash", "cosmos", "blob", "publish"
  None

\* A descriptor with the size of one content and the checksum of another.
Mixed == "mixed"

\* None and Mixed are none of the values they stand in for.
ASSUME NoneAssumption ==
  /\ Mixed \notin Contents \cup {None}
  /\ None \notin Sessions \cup Users \cup Contents
  /\ None \notin {"VALIDATED", "FAILED"}
  /\ \A s \in Sessions : None # <<"evt", s>>

\* UploadCompleteRequest: at least one file, known names, no name twice.
\* The model does not fix the number of files, and neither does the schema.
ASSUME ManifestsAssumption ==
  Manifests \subseteq UNION {[S -> Contents \cup {Mixed}] : S \in (SUBSET Sources) \ {{}}}

\* TripSource is an enumeration.
ASSUME SourcesAssumption == IsFiniteSet(Sources)

ASSUME FaultsAssumption == Faults \subseteq {"crash", "cosmos", "blob", "publish"}

VARIABLES
  log,        \* log[s]: the Cosmos document of session s
  blob,       \* blob[s][f]: content of source f in the landing container
  sas_open,   \* sessions whose SAS URLs still accept a PUT
  hub,        \* the events accepted by the event hub
  validated,  \* history: the <<s, S>> ever stored with status VALIDATED
  pc,         \* pc[r]: the remote call request r makes next
  call,       \* call[r]: who calls, and the body of the request
  trip_log,   \* trip_log[r]: document read at the start
  etag,       \* etag[r]: the local variable etag of complete_upload
  existing,   \* existing[r]: update_trip_log's own re-read, NoLog before it
  valid,      \* valid[r]: sources found VALID so far
  todo,       \* todo[r]: sources whose file is still to be validated
  response    \* response[r]: how the request ended

services == <<log, blob, sas_open, hub, validated>>
requests == <<pc, call, trip_log, etag, existing, valid, todo, response>>
vars == <<log, blob, sas_open, hub, validated,
          pc, call, trip_log, etag, existing, valid, todo, response>>

-----------------------------------------------------------------------------
\* Documents, events and answers

EventId(s) == <<"evt", s>>

Statuses == {"ABSENT", "RECEIVED", "VALIDATING", "VALIDATED", "FAILED", "PUBLISHED",
             "PROCESSING", "SUCCESS", "PARTIALLY_PROCESSED"}

TripLogs == [user : Users \cup {None}, status : Statuses,
             validation_status : {None, "VALIDATED", "FAILED"},
             event_id : {EventId(s) : s \in Sessions} \cup {None},
             exists : SUBSET Sources, etag : Nat]

NoLog == [user |-> None, status |-> "ABSENT", validation_status |-> None,
          event_id |-> None, exists |-> {}, etag |-> 0]

NewTripLog(u) == [NoLog EXCEPT !.user = u, !.status = "RECEIVED", !.etag = 1]

Events == [event_id : {EventId(s) : s \in Sessions}, session : Sessions,
           user : Users \cup {None}, request : Requests, sources : SUBSET Sources]

Calls == [user : Users, session : Sessions, files : Manifests]

Phases == {"idle", "get", "claim", "validate", "store", "publish", "mark", "done"}

\* The phases in which the request is inside update_trip_log.
Updating == {"claim", "store", "mark"}

\* How a request ends: "published", "already" and "invalid" are responses of
\* the service; the others are exceptions as the endpoint turns them into
\* answers ("error" is one it does not catch); "crashed" is no answer at all.
Responses == {"none", "published", "already", "invalid", "conflict",
              "forbidden", "not_found", "unavailable", "error", "crashed"}

HttpStatus ==
  [published |-> 200, already |-> 200, invalid |-> 409, conflict |-> 409,
   forbidden |-> 403, not_found |-> 404, unavailable |-> 503, error |-> 500,
   none |-> 0, crashed |-> 0]

Session(r) == call[r].session
Files(r) == call[r].files
\* (Bug: any instead of all.)
AnyValid(r) == valid[r] # {}

AllValid(r) == valid[r] = DOMAIN Files(r)

NoCall == [user |-> None, session |-> None, files |-> None]

Init ==
  /\ log = [s \in Sessions |-> NoLog]
  /\ blob = [s \in Sessions |-> [f \in Sources |-> None]]
  /\ sas_open = {}
  /\ hub = {}
  /\ validated = {}
  /\ pc = [r \in Requests |-> "idle"]
  /\ call = [r \in Requests |-> NoCall]
  /\ trip_log = [r \in Requests |-> NoLog]
  /\ etag = [r \in Requests |-> 0]
  /\ existing = [r \in Requests |-> NoLog]
  /\ valid = [r \in Requests |-> {}]
  /\ todo = [r \in Requests |-> {}]
  /\ response = [r \in Requests |-> "none"]

-----------------------------------------------------------------------------
\* The client and the session endpoint

\* POST /api/upload/session answers once the trip log is stored, so its SAS
\* URLs are in use only from then on - or never, if the answer is lost.
CreateSession(s, u) ==
  /\ log[s] = NoLog
  /\ log' = [log EXCEPT ![s] = NewTripLog(u)]
  /\ sas_open' \in {sas_open, sas_open \cup {s}}
  /\ UNCHANGED <<blob, hub, validated, requests>>

\* The SAS grants create and write: it may overwrite what it wrote before.
PutBlob(s, f, c) ==
  /\ s \in sas_open
  /\ blob' = [blob EXCEPT ![s][f] = c]
  /\ UNCHANGED <<log, sas_open, hub, validated, requests>>

\* Time passes, and the SAS URLs of some sessions expire.
ExpireSas(gone) ==
  /\ gone # {}
  /\ sas_open' = sas_open \ gone
  /\ UNCHANGED <<log, blob, hub, validated, requests>>

\* An authenticated request with a well-formed body reaches the service.  It
\* may name any session, one that does not exist or another user's included.
Arrive(r, c) ==
  /\ pc[r] = "idle"
  /\ pc' = [pc EXCEPT ![r] = "get"]
  /\ call' = [call EXCEPT ![r] = c]
  /\ UNCHANGED <<services, trip_log, etag, existing, valid, todo, response>>

-----------------------------------------------------------------------------
\* complete_upload, up to the first write

Continue(r, phase) ==
  /\ pc' = [pc EXCEPT ![r] = phase]
  /\ UNCHANGED response

End(r, answer) ==
  /\ pc' = [pc EXCEPT ![r] = "done"]
  /\ response' = [response EXCEPT ![r] = answer]

\* (Bug: a stored event_id taken as the mark of a published event.)
AlreadyHasEventId(doc) == doc.event_id # None

\* (Bug: a session another request is working on taken as done.)
AlreadyClaimed(doc) == doc.status \in {"VALIDATING", "PUBLISHED"}

\* (Bug: no idempotence check.)
NeverPublished(doc) == FALSE

AlreadyPublished(doc) == doc.status = "PUBLISHED"

\* get_trip_log, and the three early returns that follow it.
GetTripLog(r) ==
  LET doc == log[Session(r)] IN
  /\ pc[r] = "get"
  /\ trip_log' = [trip_log EXCEPT ![r] = doc]
  /\ etag' = [etag EXCEPT ![r] = doc.etag]
  /\ \/ doc = NoLog /\ End(r, "not_found")
     \/ doc # NoLog /\ doc.user # call[r].user /\ End(r, "forbidden")
     \/ doc # NoLog /\ doc.user = call[r].user /\ AlreadyPublished(doc) /\ End(r, "already")
     \/ doc # NoLog /\ doc.user = call[r].user /\ ~AlreadyPublished(doc) /\ Continue(r, "claim")
  /\ UNCHANGED <<services, call, existing, valid, todo>>

-----------------------------------------------------------------------------
\* update_trip_log: a re-read, a merge, a replace guarded by if_match

\* A trip log is never deleted, so the re-read always finds it.
Reread(r) ==
  /\ pc[r] \in Updating
  /\ existing[r] = NoLog
  /\ existing' = [existing EXCEPT ![r] = log[Session(r)]]
  /\ UNCHANGED <<services, pc, call, trip_log, etag, valid, todo, response>>

\* (Bug: the etag of the re-read wins, so the write only guards itself.)
EtagOfReread(r) == existing[r].etag

\* The caller's etag, from its last read or write, wins over the re-read's.
EffectiveEtag(r) == etag[r]

\* (Bug: the replace sends no if_match.)
NoPrecondition(r) == TRUE

EtagMatches(r) == EffectiveEtag(r) = log[Session(r)].etag

\* (Bug: the per-file status stored for the whole.)
FileVerdict(r) == IF AllValid(r) THEN "VALID" ELSE "FAILED"

Verdict(r) == IF AllValid(r) THEN "VALIDATED" ELSE "FAILED"

\* (Bug: a FAILED verdict leaves the event_id of an earlier one.)
KeepsEventId(r) ==
  CASE pc[r] = "claim" -> [existing[r] EXCEPT !.status = "VALIDATING"]
    [] pc[r] = "store" ->
         [existing[r] EXCEPT
            !.status = Verdict(r),
            !.validation_status = Verdict(r),
            !.event_id = IF AllValid(r) THEN EventId(Session(r)) ELSE @,
            !.exists = valid[r]]
    [] pc[r] = "mark" -> [existing[r] EXCEPT !.status = "PUBLISHED"]

\* The document the replace sends: the re-read one with this phase's fields.
Updated(r) ==
  CASE pc[r] = "claim" -> [existing[r] EXCEPT !.status = "VALIDATING"]
    [] pc[r] = "store" ->
         [existing[r] EXCEPT
            !.status = Verdict(r),
            !.validation_status = Verdict(r),
            !.event_id = IF AllValid(r) THEN EventId(Session(r)) ELSE None,
            !.exists = valid[r]]
    [] pc[r] = "mark" -> [existing[r] EXCEPT !.status = "PUBLISHED"]

\* What an accepted replace does to the container, whose documents get a new
\* _etag with every write.
Replace(r) ==
  LET s == Session(r) IN
  /\ pc[r] \in Updating
  /\ existing[r] # NoLog
  /\ EtagMatches(r)
  /\ log' = [log EXCEPT ![s] = [Updated(r) EXCEPT !.etag = log[s].etag + 1]]
  /\ validated' = IF Updated(r).status = "VALIDATED"
                  THEN validated \cup {<<s, Updated(r).exists>>}
                  ELSE validated
  /\ UNCHANGED <<blob, sas_open, hub>>

\* (Bug: the etag of the first read is used for every write.)
KeepsEtag(r) == UNCHANGED etag

\* The replace returns, and with it the etag for the next write.
NewEtag(r) == etag' = [etag EXCEPT ![r] = log[Session(r)].etag + 1]

Returned(r) ==
  /\ NewEtag(r)
  /\ existing' = [existing EXCEPT ![r] = NoLog]
  /\ UNCHANGED <<call, trip_log, valid>>

Claim(r) ==
  /\ pc[r] = "claim"
  /\ Replace(r)
  /\ Returned(r)
  /\ todo' = [todo EXCEPT ![r] = DOMAIN Files(r)]
  /\ Continue(r, "validate")

Store(r) ==
  /\ pc[r] = "store"
  /\ Replace(r)
  /\ Returned(r)
  /\ UNCHANGED todo
  /\ \/ AllValid(r) /\ Continue(r, "publish")
     \/ ~AllValid(r) /\ End(r, "invalid")

MarkPublished(r) ==
  /\ pc[r] = "mark"
  /\ Replace(r)
  /\ Returned(r)
  /\ UNCHANGED todo
  /\ End(r, "published")

\* (Bug: a request that was overtaken starts again, and may be for ever.)
ConflictStartsAgain(r) ==
  /\ pc[r] \in Updating
  /\ existing[r] # NoLog
  /\ ~EtagMatches(r)
  /\ existing' = [existing EXCEPT ![r] = NoLog]
  /\ Continue(r, "get")
  /\ UNCHANGED <<services, call, trip_log, etag, valid, todo>>

\* 412: somebody wrote the document since the etag was obtained.
Conflict(r) ==
  /\ pc[r] \in Updating
  /\ existing[r] # NoLog
  /\ ~EtagMatches(r)
  /\ End(r, "conflict")
  /\ UNCHANGED <<services, call, trip_log, etag, existing, valid, todo>>

-----------------------------------------------------------------------------
\* Validation and publication

\* _validate_file as one look at the blob, which the up to three calls it
\* makes amount to unless the descriptor is mixed (AtomicUnlessMixed of
\* FileValidation).  No blob fits a mixed one, but it passes if the client
\* writes the one content after the size was compared with the other.
Passes(r, f) ==
  \/ blob[Session(r)][f] = Files(r)[f]
  \/ Files(r)[f] = Mixed /\ Session(r) \in sas_open

\* The client chose the order of the files.
ValidateFile(r, f) ==
  /\ pc[r] = "validate"
  /\ f \in todo[r]
  /\ todo' = [todo EXCEPT ![r] = @ \ {f}]
  /\ \/ Passes(r, f) /\ valid' = [valid EXCEPT ![r] = @ \cup {f}]
     \/ blob[Session(r)][f] # Files(r)[f] /\ UNCHANGED valid
  /\ Continue(r, IF todo[r] = {f} THEN "store" ELSE "validate")
  /\ UNCHANGED <<services, call, trip_log, etag, existing>>

Event(r) == [event_id |-> EventId(Session(r)), session |-> Session(r),
             user |-> trip_log[r].user, request |-> r, sources |-> valid[r]]

Publish(r) ==
  /\ pc[r] = "publish"
  /\ hub' = hub \cup {Event(r)}
  /\ Continue(r, "mark")
  /\ UNCHANGED <<log, blob, sas_open, validated,
                 call, trip_log, etag, existing, valid, todo>>

-----------------------------------------------------------------------------
\* Faults

\* The host dies, or the request is cut off, between two remote calls.
Crash(r) ==
  /\ "crash" \in Faults
  /\ pc[r] \notin {"idle", "done"}
  /\ End(r, "crashed")
  /\ UNCHANGED <<services, call, trip_log, etag, existing, valid, todo>>

\* A missing setting, noticed when the services are built before the first
\* read, is a CosmosDbError or a BlobStorageError.  A read catches only "not
\* found", so any other failure of it escapes; a failed replace is a
\* CosmosDbError when the service answered with one, and escapes when the
\* connection broke.
CosmosFails(r) ==
  /\ "cosmos" \in Faults
  /\ \/ pc[r] \in Updating /\ existing[r] = NoLog /\ End(r, "error")
     \/ /\ pc[r] = "get" \/ (pc[r] \in Updating /\ existing[r] # NoLog)
        /\ \E answer \in {"unavailable", "error"} : End(r, answer)
  /\ UNCHANGED <<services, call, trip_log, etag, existing, valid, todo>>

\* The replace was applied, but its answer never arrived.
ReplyLost(r) ==
  /\ "cosmos" \in Faults
  /\ Replace(r)
  /\ \E answer \in {"unavailable", "error"} : End(r, answer)
  /\ UNCHANGED <<call, trip_log, etag, existing, valid, todo>>

\* Only "not found" is turned into a verdict; other storage errors escape.
BlobFails(r) ==
  /\ "blob" \in Faults
  /\ pc[r] = "validate"
  /\ End(r, "error")
  /\ UNCHANGED <<services, call, trip_log, etag, existing, valid, todo>>

\* A missing setting is an EventHubError raised before anything is sent; an
\* error of the messaging SDK is not one, and may follow a send that the
\* broker accepted.
PublishFails(r) ==
  /\ "publish" \in Faults
  /\ pc[r] = "publish"
  /\ \/ End(r, "unavailable") /\ UNCHANGED hub
     \/ End(r, "error") /\ hub' \in {hub, hub \cup {Event(r)}}
  /\ UNCHANGED <<log, blob, sas_open, validated,
                 call, trip_log, etag, existing, valid, todo>>

-----------------------------------------------------------------------------
Client ==
  \/ \E s \in Sessions :
       \/ \E u \in Users : CreateSession(s, u)
       \/ \E f \in Sources, c \in Contents : PutBlob(s, f, c)
  \/ \E gone \in SUBSET sas_open : ExpireSas(gone)
  \/ \E r \in Requests, c \in Calls : Arrive(r, c)

\* The steps the service takes by itself once a request has arrived.
Step(r) ==
  \/ GetTripLog(r)
  \/ Reread(r) \/ Claim(r) \/ Store(r) \/ MarkPublished(r) \/ Conflict(r)
  \/ \E f \in Sources : ValidateFile(r, f)
  \/ Publish(r)

Fault(r) ==
  Crash(r) \/ CosmosFails(r) \/ ReplyLost(r) \/ BlobFails(r) \/ PublishFails(r)

Next == Client \/ \E r \in Requests : Step(r) \/ Fault(r)

Spec == Init /\ [][Next]_vars

\* A request that has arrived is run to its end unless it dies: the worker
\* thread that took it keeps running.  Clients owe nothing.
FairSpec == Spec /\ \A r \in Requests : WF_vars(Step(r))

-----------------------------------------------------------------------------
\* Safety

TypeOK ==
  /\ log \in [Sessions -> TripLogs]
  /\ blob \in [Sessions -> [Sources -> Contents \cup {None}]]
  /\ sas_open \subseteq Sessions
  /\ hub \subseteq Events
  /\ validated \subseteq Sessions \X SUBSET Sources
  /\ pc \in [Requests -> Phases]
  /\ call \in [Requests -> Calls \cup {NoCall}]
  /\ trip_log \in [Requests -> TripLogs]
  /\ etag \in [Requests -> Nat]
  /\ existing \in [Requests -> TripLogs]
  /\ valid \in [Requests -> SUBSET Sources]
  /\ todo \in [Requests -> SUBSET Sources]
  /\ response \in [Requests -> Responses]

\* The fields of a trip log agree with each other whatever requests wrote
\* them: an event_id is there exactly when the stored verdict is VALIDATED,
\* and a VALIDATED or PUBLISHED log has such a verdict over some source.
CoherentTripLog ==
  \A s \in Sessions :
    LET doc == log[s] IN
    /\ doc.event_id # None <=> doc.validation_status = "VALIDATED"
    /\ doc.validation_status = "VALIDATED" => doc.exists # {}
    /\ doc.status \in {"VALIDATED", "PUBLISHED"} => doc.validation_status = "VALIDATED"
    /\ doc.status = "FAILED" => doc.validation_status = "FAILED"
    /\ doc.status \in {"ABSENT", "RECEIVED"} => doc.validation_status = None

\* A log that says PUBLISHED has an event in the hub with its event_id, its
\* user and exactly the sources its flags name: the request that marked it was
\* not overtaken between storing that verdict and marking it.
PublishedHasEvent ==
  \A s \in Sessions :
    log[s].status = "PUBLISHED" =>
      \E e \in hub : /\ e.session = s
                     /\ e.event_id = log[s].event_id
                     /\ e.user = log[s].user
                     /\ e.sources = log[s].exists

\* HTTP 200 is given only to the owner of a session that is PUBLISHED, and it
\* stays so.
AcknowledgedIsPublished ==
  \A r \in Requests :
    HttpStatus[response[r]] = 200 =>
      /\ log[Session(r)].status = "PUBLISHED"
      /\ log[Session(r)].user = call[r].user

\* Every event was preceded by storing the verdict it announces, covers every
\* file its request named, and was sent for the session's owner.
EventsAreBacked ==
  \A e \in hub :
    /\ <<e.session, e.sources>> \in validated
    /\ e.session = Session(e.request)
    /\ e.sources = DOMAIN Files(e.request)
    /\ e.user = call[e.request].user
    /\ e.user = log[e.session].user

\* Of all the requests for a session, at most one is told that it was the one
\* to publish it; the others get the idempotent answer or an error.
OneWinner ==
  \A r1, r2 \in Requests :
    response[r1] = "published" /\ response[r2] = "published" /\ Session(r1) = Session(r2)
      => r1 = r2

\* "Concurrent complete request detected" is never answered to a request that
\* was the only one its session has seen.
SoloNeverConflicts ==
  \A r \in Requests :
    response[r] = "conflict" =>
      \E r2 \in Requests \ {r} : pc[r2] # "idle" /\ Session(r2) = Session(r)

\* A session that says VALIDATING or VALIDATED is at work, by a request whose
\* next write nobody has got ahead of, unless a fault cut a request of it off:
\* requests that overtake each other never all give up and leave it there.
NeverStranded ==
  \A s \in Sessions :
    log[s].status \in {"VALIDATING", "VALIDATED"} =>
      \E r \in Requests :
        /\ pc[r] # "idle" /\ Session(r) = s
        /\ \/ pc[r] \in {"validate", "store", "publish", "mark"} /\ etag[r] = log[s].etag
           \/ response[r] \in {"crashed", "unavailable", "error"}

\* How many steps a request may still take, a re-read before each write and a
\* look at each file among them.
StepsLeft(r) ==
  LET files == Cardinality(Sources)
      reread == IF existing[r] = NoLog THEN 1 ELSE 0 IN
  CASE pc[r] = "idle" -> 9 + files
    [] pc[r] = "get" -> 8 + files
    [] pc[r] = "claim" -> 6 + files + reread
    [] pc[r] = "validate" -> 5 + Cardinality(todo[r])
    [] pc[r] = "store" -> 4 + reread
    [] pc[r] = "publish" -> 3
    [] pc[r] = "mark" -> 1 + reread
    [] pc[r] = "done" -> 0

\* Requests do not go round in circles, however they overtake each other: a
\* request's own step brings it nearer its end, and no other sets it back.
RunsOut ==
  [][\A r \in Requests :
       UNCHANGED <<pc[r], existing[r], todo[r]>> \/ StepsLeft(r)' < StepsLeft(r)]_vars

\* A PUBLISHED log is never written again (by this program).
PublishedIsFinal ==
  [][\A s \in Sessions : log[s].status = "PUBLISHED" => log'[s] = log[s]]_vars

\* A write that carries no verdict of its own, VALIDATING or PUBLISHED, keeps
\* the verdict another request may have stored since the writer first read
\* the document.
NoLostUpdate ==
  [][\A s \in Sessions :
       log[s] # log'[s] /\ log[s] # NoLog /\ log'[s].status \in {"VALIDATING", "PUBLISHED"}
         => /\ log'[s].validation_status = log[s].validation_status
            /\ log'[s].event_id = log[s].event_id
            /\ log'[s].exists = log[s].exists]_vars

\* The log and the hub behave as the lifecycle allows, without any workers.
Lifecycle ==
  INSTANCE TripLifecycle WITH
    WorkerStatuses <- {},
    status <- [s \in Sessions |-> log[s].status],
    sources <- [s \in Sessions |-> log[s].exists],
    emitted <- {<<e.session, e.sources>> : e \in hub}

\* The detailed protocol implements the lifecycle of the trip log.
RefinesLifecycle == Lifecycle!Spec

-----------------------------------------------------------------------------
\* Liveness, under FairSpec

Uploaded(r) ==
  /\ Session(r) \notin sas_open
  /\ \A f \in DOMAIN Files(r) : blob[Session(r)][f] = Files(r)[f]

OwnCall(r) ==
  /\ pc[r] # "idle"
  /\ log[Session(r)].user = call[r].user

\* Whatever earlier requests left behind, by crashing, failing or being
\* overtaken, a retry that has the session to itself and whose files are all
\* there publishes it, unless a fault hits that retry too.
Recoverable ==
  \A r \in Requests :
    /\ pc[r] = "get" /\ OwnCall(r) /\ Uploaded(r)
    /\ \A r2 \in Requests \ {r} : pc[r2] = "done"
    ~> \/ response[r] \in {"crashed", "unavailable", "error"}
       \/ pc[r] = "done" /\ log[Session(r)].status = "PUBLISHED"

\* Requests that keep overtaking each other do not all lose: when the files
\* are there before any of them validates, one publishes the session.  (The
\* number of requests is finite; endless retries could overtake for ever.)
SomeoneWins ==
  \A s \in Sessions :
    /\ \A r \in Requests : pc[r] \in {"idle", "get", "done"}
    /\ \E r \in Requests : pc[r] = "get" /\ Session(r) = s /\ OwnCall(r)
    /\ s \notin sas_open
    /\ \A f \in Sources : blob[s][f] # None
    ~> log[s].status = "PUBLISHED"
=============================================================================
