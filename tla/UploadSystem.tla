---------------------------- MODULE UploadSystem ----------------------------
(***************************************************************************)
(* Both endpoints over one clock, one landing container and one Cosmos     *)
(* container: UploadSession creates the sessions, hands out the paths and  *)
(* lets clients write them; UploadComplete looks the blobs up at the path  *)
(* it computes from the trip log, and publishes.  The workers downstream   *)
(* then move a published log on.                                           *)
(*                                                                         *)
(* A trip log has two halves: record[s] is what session creation writes    *)
(* once, log[s] what complete reads and writes.  UploadComplete on its own *)
(* takes blobs and open SAS URLs as given; here both are computed.         *)
(***************************************************************************)
EXTENDS Naturals, Sequences

CONSTANTS
  Sessions, Callers, NumSources, Ttl, DayLength, MaxTime,
  Requests, Contents, Manifests, SessionFaults, CompleteFaults, None,
  WorkerStatuses   \* the statuses the workers downstream store

ASSUME WorkerStatusesAssumption ==
  WorkerStatuses \subseteq {"PROCESSING", "SUCCESS", "PARTIALLY_PROCESSED", "FAILED"}

Sources == 1 .. NumSources
Users == {c.user : c \in Callers}

VARIABLES
  now, container, phase, caller, timestamp, sas, expires_at, created_at, answer,
  record,     \* UploadSession's half of the trip logs
  store,      \* the landing container: path, writer and content of each blob
  log,        \* UploadComplete's half of the trip logs
  hub, validated, pc, call, trip_log, etag, existing, valid, todo, response,
  moved,      \* history: the sessions whose log a worker has moved on
  arrival     \* history: when request r came, and whether another had been told
              \* by then that it published the session

creating == <<now, container, phase, caller, timestamp, sas, expires_at, created_at,
              answer, record>>
completing == <<log, hub, validated, pc, call, trip_log, etag, existing, valid, todo, response>>
history == <<moved, arrival>>
vars == <<creating, store, completing, history>>

S == INSTANCE UploadSession WITH
  pc <- phase, log <- record, response <- answer, Faults <- SessionFaults,
  landing <- {[path |-> b.path, writer |-> b.writer] : b \in store}

Content(path) ==
  IF \E b \in store : b.path = path
  THEN (CHOOSE b \in store : b.path = path).content
  ELSE None

\* What complete finds for each session, where it looks.
Found == [s \in Sessions |-> [i \in Sources |-> Content(S!LookupPath(s, i))]]

Writable == {s \in Sessions : answer[s] = "created" /\ \E i \in Sources : now < sas[s][i]}

C == INSTANCE UploadComplete WITH
  blob <- Found, sas_open <- Writable, Faults <- CompleteFaults

ASSUME SessionAssumption ==
  /\ S!CallersAssumption /\ S!NumSourcesAssumption /\ S!TimeAssumption
  /\ S!FaultsAssumption /\ S!NoneAssumption
  /\ None \notin [name : Seq(STRING), second : Nat]

\* Here no descriptor is Mixed: whether one passes is up to whoever may write
\* the path, which with shared paths may be another session's client.
ASSUME CompleteAssumption ==
  /\ C!NoneAssumption /\ C!ManifestsAssumption /\ C!FaultsAssumption
  /\ \A m \in Manifests : \A f \in DOMAIN m : m[f] # C!Mixed

NoArrival == [at |-> 0, late |-> FALSE]

Init ==
  /\ store = {}
  /\ moved = {}
  /\ arrival = [r \in Requests |-> NoArrival]
  /\ S!Init
  /\ C!Init

-----------------------------------------------------------------------------
\* Creating sessions

Tick ==
  /\ UNCHANGED <<store, completing, history>>
  /\ S!Tick

\* Every step of create_session but the last, and its failures.
Create(s) ==
  /\ UNCHANGED <<store, completing, history>>
  /\ \/ \E c \in Callers : S!Arrive(s, c)
     \/ S!FindContainer(s) \/ S!CreateContainer(s)
     \/ S!Stamp(s) \/ (\E i \in Sources : S!GenerateSas(s, i)) \/ S!NewTripLog(s)
     \/ S!Crash(s) \/ S!ServiceFails(s)

\* One document is stored: both halves of it come to be.
CreateTripLog(s) ==
  /\ UNCHANGED store
  /\ S!CreateTripLog(s) \/ S!ReplyLost(s)
  /\ log' = [log EXCEPT ![s] = C!NewTripLog(caller[s].user)]
  /\ UNCHANGED <<hub, validated, pc, call, trip_log, etag, existing, valid, todo,
                 response, history>>

PutBlob(s, i, content) ==
  LET path == S!TargetPath(s, i) IN
  /\ answer[s] = "created"
  /\ store' = {b \in store : b.path # path}
                \cup {[path |-> path, writer |-> s, content |-> content]}
  /\ S!PutBlob(s, i)
  /\ UNCHANGED <<completing, history>>

-----------------------------------------------------------------------------
\* Completing them

Arrive(r, c) ==
  /\ UNCHANGED <<creating, store, moved>>
  /\ C!Arrive(r, c)
  /\ arrival' = [arrival EXCEPT ![r] =
       [at |-> now,
        late |-> \E q \in Requests : response[q] = "published" /\ C!Session(q) = c.session]]

Complete(r) ==
  /\ UNCHANGED <<creating, store, history>>
  /\ C!Step(r) \/ C!Fault(r)

\* The statuses the workers downstream give a published log, in the order
\* docs/poc-architecture.md:98 has them.
Downstream(s) ==
  /\ UNCHANGED <<creating, store, arrival, hub, validated, pc, call, trip_log, etag,
                 existing, valid, todo, response>>
  /\ \E status \in WorkerStatuses :
       /\ log[s].status = IF status = "PROCESSING" THEN "PUBLISHED" ELSE "PROCESSING"
       /\ log' = [log EXCEPT ![s] = [log[s] EXCEPT !.status = status, !.etag = log[s].etag + 1]]
  /\ moved' = moved \cup {s}

Next ==
  \/ Tick
  \/ \E s \in Sessions :
       \/ Create(s) \/ CreateTripLog(s) \/ Downstream(s)
       \/ \E i \in Sources, content \in Contents : PutBlob(s, i, content)
  \/ \E r \in Requests : Complete(r) \/ \E c \in C!Calls : Arrive(r, c)

Spec == Init /\ [][Next]_vars

-----------------------------------------------------------------------------
\* The two halves of a document belong together, and a container has one blob
\* to a path.
TypeOK ==
  /\ S!TypeOK
  /\ store \subseteq [path : S!BlobPaths, writer : Sessions, content : Contents]
  /\ \A b1, b2 \in store : b1.path = b2.path => b1 = b2
  /\ arrival \in [Requests -> [at : 0 .. MaxTime, late : BOOLEAN]]
  /\ moved \subseteq Sessions
  /\ \A s \in Sessions :
       /\ log[s] = C!NoLog <=> record[s] = S!NoLog
       /\ log[s] # C!NoLog => log[s].user = record[s].owner.user

\* Two sessions whose clients were given the same paths.
SharePaths(s1, s2) ==
  /\ S!NoLog \notin {record[s1], record[s2]}
  /\ timestamp[s1] = timestamp[s2]
  /\ S!Joined(record[s1].owner) = S!Joined(record[s2].owner)

\* As long as no two sessions share their paths, UploadComplete is right to
\* give every session blobs and open SAS URLs of its own: every step here is
\* one of its steps, or none, or the workers'.
StepsOfComplete ==
  [][(\A s1, s2 \in Sessions : SharePaths(s1, s2)' => s1 = s2)
       => UNCHANGED C!vars \/ C!Next \/ \E s \in Sessions : Downstream(s)]_vars

\* What an event announces is at the path it gives, with the content its
\* request described, for ever - if the request came after the expiry that
\* every client with those paths was told.  (While a SAS is open its client
\* may overwrite what has been validated.)
AnnouncedContentStands ==
  \A e \in hub :
    (\A s \in Sessions :
       answer[s] = "created" /\ SharePaths(s, e.session) => expires_at[s] <= arrival[e.request].at)
    => \A i \in e.sources : Content(S!AnnouncedPath(e.session, i)) = C!Files(e.request)[i]

\* Whoever is told 200 owns a session of which an event is out, whatever the
\* workers have made of its log since.
AcknowledgedHasEvent ==
  \A r \in Requests :
    C!HttpStatus[response[r]] = 200 =>
      \E e \in hub : e.session = C!Session(r) /\ e.user = call[r].user

\* A retry that arrives after another request was told that it published the
\* session adds no event (docs/poc-architecture.md:85) - until a worker has
\* moved the log on: complete then no longer finds PUBLISHED there, claims the
\* log back and publishes it again.
LateRetryAddsNothing ==
  \A e \in hub : arrival[e.request].late => e.session \in moved

\* What UploadComplete promises of events holds beside the workers too, and
\* where sessions share their paths: an event announces a verdict stored before
\* it, over every file its request named, to the owner's name; and a log that
\* says PUBLISHED - not yet moved on, or published again - has its event out.
PublishingStands == C!EventsAreBacked /\ C!PublishedHasEvent

\* Two requests are told that they published one session only when a worker has
\* moved its log on between them.
OneWinnerUntilMoved ==
  \A q, r \in Requests :
    response[q] = "published" /\ response[r] = "published" /\ C!Session(q) = C!Session(r)
      => q = r \/ C!Session(q) \in moved

\* Nor do requests that overtake each other strand a session beside the
\* workers, which write logs too: none of their writes gets ahead of the request
\* on which a session that says VALIDATING or VALIDATED depends.
NoneStranded == C!NeverStranded

\* The log and the hub behave as the lifecycle allows, workers included, also
\* where two sessions share their paths.
Lifecycle ==
  INSTANCE TripLifecycle WITH
    status <- [s \in Sessions |-> log[s].status],
    sources <- [s \in Sessions |-> log[s].exists],
    emitted <- {<<e.session, e.sources>> : e \in hub}

\* The composed system implements the lifecycle of the trip log.
RefinesLifecycle == Lifecycle!Spec
=============================================================================
