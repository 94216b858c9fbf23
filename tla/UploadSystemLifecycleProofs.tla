--------------------- MODULE UploadSystemLifecycleProofs ---------------------
(***************************************************************************)
(* The completing half of the composed system, workers and shared paths    *)
(* included: the inductive invariant of UploadComplete holds of it,        *)
(* although not all of its steps are UploadComplete's, and so the system   *)
(* implements the lifecycle.                                               *)
(***************************************************************************)
EXTENDS UploadSystemHistoryProofs, FiniteSetTheorems

\* C with its theorems.
Q == INSTANCE UploadCompleteProgressProofs WITH
  blob <- Found, sas_open <- Writable, Faults <- CompleteFaults

LEMMA ItsAssumptions ==
  Q!NoneAssumption /\ Q!ManifestsAssumption /\ Q!FaultsAssumption /\ Q!SourcesAssumption
  <1>1. IsFiniteSet(Sources)
    BY SessionAssumption, FS_Interval DEF S!NumSourcesAssumption, Sources
  <1> QED
    BY <1>1, CompleteAssumption
    DEF IsFiniteSet, Q!IsFiniteSet, Q!NoneAssumption, Q!ManifestsAssumption,
        Q!FaultsAssumption, Q!SourcesAssumption, Q!Mixed, C!NoneAssumption,
        C!ManifestsAssumption, C!FaultsAssumption, C!Mixed

-----------------------------------------------------------------------------
\* C and Q are the same specification

LEMMA SameNotions ==
  /\ C!NoLog = Q!NoLog /\ C!Calls = Q!Calls /\ C!HttpStatus = Q!HttpStatus
  /\ \A u : C!NewTripLog(u) = Q!NewTripLog(u)
  /\ \A r : C!Session(r) = Q!Session(r) /\ C!Files(r) = Q!Files(r)
  BY DEF C!NoLog, Q!NoLog, C!Calls, Q!Calls, C!HttpStatus, Q!HttpStatus, C!NewTripLog,
         Q!NewTripLog, C!Session, Q!Session, C!Files, Q!Files

LEMMA SameReplace ==
  ASSUME NEW r, C!Replace(r)
  PROVE  Q!Replace(r)
  BY DEF C!Replace, Q!Replace, C!Updating, Q!Updating, C!EtagMatches, Q!EtagMatches,
         C!EffectiveEtag, Q!EffectiveEtag, C!Updated, Q!Updated, C!Verdict, Q!Verdict,
         C!AllValid, Q!AllValid, C!EventId, Q!EventId, C!NoLog, Q!NoLog,
         C!Session, Q!Session, C!Files, Q!Files

LEMMA SameReads ==
  ASSUME NEW r
  PROVE  /\ C!GetTripLog(r) => Q!GetTripLog(r)
         /\ C!Reread(r) => Q!Reread(r)
         /\ C!Conflict(r) => Q!Conflict(r)
         /\ \A f : C!ValidateFile(r, f) => Q!ValidateFile(r, f)
         /\ C!Publish(r) => Q!Publish(r)
  <1> USE DEF C!Continue, Q!Continue, C!End, Q!End, C!NoLog, Q!NoLog, C!Session, Q!Session,
              C!Files, Q!Files, C!Updating, Q!Updating, C!services, Q!services
  <1>1. C!GetTripLog(r) => Q!GetTripLog(r)
    BY DEF C!GetTripLog, Q!GetTripLog, C!AlreadyPublished, Q!AlreadyPublished
  <1>2. C!Reread(r) => Q!Reread(r)
    BY DEF C!Reread, Q!Reread
  <1>3. C!Conflict(r) => Q!Conflict(r)
    BY DEF C!Conflict, Q!Conflict, C!EtagMatches, Q!EtagMatches, C!EffectiveEtag,
           Q!EffectiveEtag
  <1>4. ASSUME NEW f, C!ValidateFile(r, f)
        PROVE  Q!ValidateFile(r, f)
    BY <1>4 DEF C!ValidateFile, Q!ValidateFile, C!Passes, Q!Passes, C!Mixed, Q!Mixed
  <1>5. C!Publish(r) => Q!Publish(r)
    BY DEF C!Publish, Q!Publish, C!Event, Q!Event, C!EventId, Q!EventId
  <1> QED
    BY <1>1, <1>2, <1>3, <1>4, <1>5

LEMMA SameWrites ==
  ASSUME NEW r
  PROVE  /\ C!Claim(r) => Q!Claim(r)
         /\ C!Store(r) => Q!Store(r)
         /\ C!MarkPublished(r) => Q!MarkPublished(r)
  BY SameReplace
  DEF C!Claim, Q!Claim, C!Store, Q!Store, C!MarkPublished, Q!MarkPublished, C!Returned,
      Q!Returned, C!NewEtag, Q!NewEtag, C!Continue, Q!Continue, C!End, Q!End, C!AllValid,
      Q!AllValid, C!NoLog, Q!NoLog, C!Session, Q!Session, C!Files, Q!Files

LEMMA SameFaults ==
  ASSUME NEW r, C!Fault(r)
  PROVE  Q!Fault(r)
  <1> USE DEF C!End, Q!End, C!services, Q!services, C!Updating, Q!Updating, C!NoLog, Q!NoLog
  <1>1. CASE C!Crash(r) \/ C!CosmosFails(r) \/ C!BlobFails(r)
    BY <1>1 DEF Q!Fault, C!Crash, Q!Crash, C!CosmosFails, Q!CosmosFails, C!BlobFails, Q!BlobFails
  <1>2. CASE C!ReplyLost(r)
    BY <1>2, SameReplace DEF Q!Fault, C!ReplyLost, Q!ReplyLost
  <1>3. CASE C!PublishFails(r)
    BY <1>3 DEF Q!Fault, C!PublishFails, Q!PublishFails, C!Event, Q!Event, C!EventId, Q!EventId,
                C!Session, Q!Session
  <1> QED
    BY <1>1, <1>2, <1>3 DEF C!Fault

\* What a request does here, it does there.
LEMMA SameSteps ==
  ASSUME NEW r \in Requests, Complete(r)
  PROVE  Q!Step(r) \/ Q!Fault(r)
  BY SameReads, SameWrites, SameFaults DEF Complete, C!Step, Q!Step, Sources

LEMMA SameArrive ==
  ASSUME NEW r \in Requests, NEW c \in C!Calls, Arrive(r, c)
  PROVE  c \in Q!Calls /\ Q!Arrive(r, c)
  BY SameNotions DEF Arrive, C!Arrive, Q!Arrive, C!services, Q!services

-----------------------------------------------------------------------------
\* The invariant of UploadComplete in the composed system

\* What the services hold of a session is well typed, wherever it is looked up.
LEMMA FoundType == StoreInv => Found \in [Sessions -> [Sources -> Contents \cup {None}]]
  <1> SUFFICES ASSUME StoreInv, NEW path PROVE Content(path) \in Contents \cup {None}
    BY DEF Found
  <1>1. CASE \E b \in store : b.path = path
    <2>1. PICK b \in store : b = CHOOSE c \in store : c.path = path
      BY <1>1
    <2>2. b.content \in Contents
      BY DEF StoreInv
    <2> QED
      BY <1>1, <2>1, <2>2 DEF Content
  <1>2. CASE ~\E b \in store : b.path = path
    BY <1>2 DEF Content
  <1> QED
    BY <1>1, <1>2

LEMMA FoundTypeNext == StoreInv' => (Found \in [Sessions -> [Sources -> Contents \cup {None}]])'
  <1>1. StoreInv => Found \in [Sessions -> [Sources -> Contents \cup {None}]]
    BY FoundType
  <1> QED
    BY <1>1, PTL

LEMMA WritableType == Writable' \subseteq Sessions
  BY DEF Writable

\* Steps of a session's client and of its creation leave the documents alone,
\* but for the one that creates a document.
LEMMA CoreQuiet ==
  ASSUME Q!CoreInv, StoreInv', UNCHANGED completing
  PROVE  Q!CoreInv'
  <1>1. UNCHANGED <<log, hub, validated, Q!requests>>
    BY DEF completing, Q!requests
  <1>2. Q!TypeInv /\ log \in [Sessions -> Q!TripLogs]
    BY ItsAssumptions, Q!InvType DEF Q!CoreInv, Q!TypeOK
  <1>3. Q!TypeInv'
    BY <1>1, <1>2, ItsAssumptions, Q!TypeOthers, FoundTypeNext, WritableType DEF Q!TripLogs
  <1> QED
    BY <1>1, <1>3, ItsAssumptions, Q!InvBlobs

\* The document of a session before and after it is created.
LEMMA DocumentCreated ==
  ASSUME P!IInv, DocInv, NEW s \in Sessions, CreateTripLog(s)
  PROVE  /\ caller[s].user \in Users
         /\ log[s] = Q!NoLog
         /\ log' = [log EXCEPT ![s] = Q!NewTripLog(caller[s].user)]
         /\ UNCHANGED <<hub, validated, Q!requests>>
  <1>1. /\ log' = [log EXCEPT ![s] = C!NewTripLog(caller[s].user)]
        /\ UNCHANGED <<hub, validated, Q!requests>>
        /\ phase[s] = "create"
    BY DEF CreateTripLog, Q!requests, S!CreateTripLog, S!ReplyLost, S!Created
  <1>2. caller[s] \in Callers /\ record[s] = S!NoLog
    BY <1>1, SameNames DEF P!IInv, P!Called, P!Stored
  <1>3. log[s] = C!NoLog /\ caller[s].user \in Users
    BY <1>2 DEF DocInv, Halves, Users
  <1> QED
    BY <1>1, <1>3, SameNotions

LEMMA CoreCreate ==
  ASSUME Q!CoreInv, P!IInv, DocInv, StoreInv', NEW s \in Sessions, CreateTripLog(s)
  PROVE  Q!CoreInv'
  <1> DEFINE u == caller[s].user
  <1>1. /\ u \in Users /\ log[s] = Q!NoLog
        /\ log' = [log EXCEPT ![s] = Q!NewTripLog(u)]
        /\ UNCHANGED <<hub, validated, Q!requests>>
    BY DocumentCreated
  <1> HIDE DEF u
  <1>2. Q!TypeInv /\ log \in [Sessions -> Q!TripLogs]
    BY ItsAssumptions, Q!InvType DEF Q!CoreInv, Q!TypeOK
  <1>3. log' \in [Sessions -> Q!TripLogs]
    <2>1. Q!NewTripLog(u) \in Q!TripLogs
      BY <1>1 DEF Q!NewTripLog, Q!NoLog, Q!TripLogs, Q!Statuses
    <2> QED
      BY <1>1, <1>2, <2>1
  <1>4. Q!TypeInv'
    BY <1>1, <1>2, <1>3, ItsAssumptions, Q!TypeOthers, FoundTypeNext, WritableType
    DEF Q!TripLogs
  <1> QED
    BY <1>1, <1>4, ItsAssumptions, Q!InvCreateSession

\* The document of a session before and after a worker's write.
LEMMA DocumentMoved ==
  ASSUME Q!CoreInv, NEW s \in Sessions, NEW outcome \in WorkerStatuses,
         log' = [log EXCEPT ![s] = [log[s] EXCEPT !.status = outcome, !.etag = log[s].etag + 1]]
  PROVE  /\ \A t \in Sessions \ {s} : log'[t] = log[t]
         /\ log'[s] \in Q!TripLogs
         /\ log'[s].status = outcome
         /\ log'[s].etag = log[s].etag + 1
         /\ log'[s].user = log[s].user
         /\ log'[s].validation_status = log[s].validation_status
         /\ log'[s].event_id = log[s].event_id
         /\ log'[s].exists = log[s].exists
  <1> DEFINE doc == log[s]
             moved_on == [doc EXCEPT !.status = outcome, !.etag = doc.etag + 1]
  <1>1. log \in [Sessions -> Q!TripLogs]
    BY DEF Q!CoreInv, Q!TypeOK
  <1>2. log'[s] = moved_on /\ \A t \in Sessions \ {s} : log'[t] = log[t]
    BY <1>1
  <1>3. doc \in Q!TripLogs /\ outcome \in Q!Statuses
    BY <1>1, WorkerStatusesAssumption DEF Q!Statuses
  <1>4. /\ moved_on \in Q!TripLogs
        /\ moved_on.status = outcome /\ moved_on.etag = doc.etag + 1
        /\ moved_on.user = doc.user
        /\ moved_on.validation_status = doc.validation_status
        /\ moved_on.event_id = doc.event_id
        /\ moved_on.exists = doc.exists
    BY <1>3, ItsAssumptions, Q!MovedFields
  <1> QED
    BY <1>2, <1>4

LEMMA CoreDownstream ==
  ASSUME Q!CoreInv, StoreInv', NEW s \in Sessions, Downstream(s)
  PROVE  Q!CoreInv'
  <1>1. PICK outcome \in WorkerStatuses :
          /\ log[s].status = IF outcome = "PROCESSING" THEN "PUBLISHED" ELSE "PROCESSING"
          /\ log' = [log EXCEPT ![s] =
                       [log[s] EXCEPT !.status = outcome, !.etag = log[s].etag + 1]]
    BY DEF Downstream
  <1>2. UNCHANGED <<hub, validated, Q!requests>>
    BY DEF Downstream, Q!requests
  <1>3. Q!TypeInv /\ log \in [Sessions -> Q!TripLogs]
    BY ItsAssumptions, Q!InvType DEF Q!CoreInv, Q!TypeOK
  <1>4. log' \in [Sessions -> Q!TripLogs]
    BY <1>1, <1>3, DocumentMoved
  <1>5. Q!TypeInv'
    BY <1>2, <1>3, <1>4, ItsAssumptions, Q!TypeOthers, FoundTypeNext, WritableType DEF Q!TripLogs
  <1>6. log[s].status \in {"PUBLISHED", "PROCESSING"}
        /\ outcome \in {"PROCESSING", "SUCCESS", "PARTIALLY_PROCESSED", "FAILED"}
    BY <1>1, WorkerStatusesAssumption
  <1>7. /\ \A t \in Sessions \ {s} : log'[t] = log[t]
        /\ log'[s].status = outcome /\ log'[s].etag = log[s].etag + 1
        /\ log'[s].user = log[s].user
        /\ log'[s].validation_status = log[s].validation_status
        /\ log'[s].event_id = log[s].event_id
        /\ log'[s].exists = log[s].exists
    BY <1>1, DocumentMoved
  <1> QED
    BY <1>2, <1>5, <1>6, <1>7, ItsAssumptions, Q!InvMovedOn

LEMMA CoreNext ==
  ASSUME Q!CoreInv, P!IInv, DocInv, StoreInv', [Next]_vars
  PROVE  Q!CoreInv'
  <1>1. ASSUME NEW r \in Requests, Complete(r)
        PROVE  Q!CoreInv'
    <2>1. Q!Step(r) \/ Q!Fault(r)
      BY <1>1, SameSteps
    <2> QED
      BY <2>1, ItsAssumptions, Q!InvType, Q!TypeStep, Q!TypeFault, Q!InvStep, Q!InvFault
  <1>2. ASSUME NEW r \in Requests, NEW c \in C!Calls, Arrive(r, c)
        PROVE  Q!CoreInv'
    <2>1. c \in Q!Calls /\ Q!Arrive(r, c)
      BY <1>2, SameArrive
    <2>2. Q!Client
      BY <2>1 DEF Q!Client
    <2> QED
      BY <2>2, ItsAssumptions, Q!InvType, Q!TypeClient, Q!InvClient
  <1>3. ASSUME NEW s \in Sessions, CreateTripLog(s) \/ Downstream(s)
        PROVE  Q!CoreInv'
    BY <1>3, CoreCreate, CoreDownstream
  <1>4. CASE UNCHANGED completing
    BY <1>4, CoreQuiet
  <1> QED
    BY <1>1, <1>2, <1>3, <1>4 DEF Next, Tick, Create, PutBlob, vars

\* The invariant of UploadComplete holds of the composed system.
LEMMA CoreInvariance == Spec => []Q!CoreInv
  <1>1. Init => Q!CoreInv
    <2>1. Init => Q!Init
      BY DEF Init, C!Init, Q!Init, C!NoLog, Q!NoLog, C!NoCall, Q!NoCall, Found
    <2> QED
      BY <2>1, ItsAssumptions, Q!InvInit
  <1> QED
    BY <1>1, CoreNext, SessionInv, DocInvariance, StoreInvariance, PTL DEF Spec

\* What UploadComplete promises of events holds beside the workers, and where
\* sessions share their paths.
THEOREM PublishingStandsAlways == Spec => []PublishingStands
  <1>1. Q!CoreInv => PublishingStands
    BY SameNotions DEF Q!CoreInv, Q!EventsAreBacked, C!EventsAreBacked, Q!PublishedHasEvent,
                       C!PublishedHasEvent, PublishingStands
  <1> QED
    BY <1>1, CoreInvariance, PTL

\* Two requests are told that they published one session only when a worker has
\* moved its log on between them.
THEOREM OneWinnerUntilMovedAlways == Spec => []OneWinnerUntilMoved
  <1>1. Init => OneWinnerUntilMoved
    BY DEF Init, C!Init, OneWinnerUntilMoved
  <1>2. ASSUME OneWinnerUntilMoved, Q!CoreInv, RetryInv, [Next]_vars
        PROVE  OneWinnerUntilMoved'
    <2>1. moved \subseteq moved'
      BY <1>2 DEF Next, vars, history, Tick, Create, CreateTripLog, Downstream, PutBlob,
                  Complete, Arrive
    <2>2. CASE UNCHANGED <<response, call>>
      BY <1>2, <2>1, <2>2 DEF OneWinnerUntilMoved, C!Session
    <2>3. ASSUME NEW r \in Requests, NEW c \in C!Calls, Arrive(r, c)
          PROVE  OneWinnerUntilMoved'
      <3>1. /\ pc[r] = "idle" /\ UNCHANGED response
            /\ \A q \in Requests \ {r} : call'[q] = call[q]
        BY <1>2, <2>3 DEF Arrive, C!Arrive, Q!CoreInv, Q!TypeOK
      <3>2. response[r] = "none"
        BY <1>2, <3>1 DEF Q!CoreInv, Q!RequestInv, Q!OneRequest, Q!AnsweredAtEnd
      <3> QED
        BY <1>2, <2>1, <3>1, <3>2 DEF OneWinnerUntilMoved, C!Session
    <2>4. ASSUME NEW r \in Requests, Complete(r)
          PROVE  OneWinnerUntilMoved'
      <3>1. /\ UNCHANGED call
            /\ \A q \in Requests \ {r} : response'[q] = response[q]
            /\ response'[r] = "published" => Q!Replace(r)
        BY <1>2, <2>4, SameSteps, ItsAssumptions, Q!Answers DEF Q!HttpStatus
      <3>2. ASSUME NEW q \in Requests \ {r}, response'[q] = "published",
                   response'[r] = "published", C!Session(q) = C!Session(r)
            PROVE  C!Session(q) \in moved
        <4>1. log[C!Session(r)].status # "PUBLISHED"
          BY <1>2, <3>1, <3>2, ItsAssumptions, Q!ReplaceFacts, SameNotions
        <4>2. Settled(C!Session(q))
          BY <1>2, <3>1, <3>2 DEF RetryInv, Acknowledged
        <4> QED
          BY <3>2, <4>1, <4>2 DEF Settled
      <3>3. \A q \in Requests : UNCHANGED C!Session(q)
        BY <3>1 DEF C!Session
      <3> QED
        BY <1>2, <2>1, <3>1, <3>2, <3>3 DEF OneWinnerUntilMoved
    <2> QED
      BY <1>2, <2>2, <2>3, <2>4
      DEF Next, vars, completing, Tick, Create, CreateTripLog, Downstream, PutBlob
  <1> QED
    BY <1>1, <1>2, CoreInvariance, RetryInvariance, PTL DEF Spec

-----------------------------------------------------------------------------
\* Somebody goes on, beside the workers

LEMMA SameStranded == C!NeverStranded <=> Q!NeverStranded
  BY SameNotions DEF C!NeverStranded, Q!NeverStranded

LEMMA StrandedNext ==
  ASSUME Q!CoreInv, P!IInv, DocInv, Q!NeverStranded, [Next]_vars
  PROVE  Q!NeverStranded'
  <1>1. ASSUME NEW r \in Requests, Complete(r)
        PROVE  Q!NeverStranded'
    BY <1>1, SameSteps, ItsAssumptions, Q!StrandedStep
  <1>2. ASSUME NEW r \in Requests, NEW c \in C!Calls, Arrive(r, c)
        PROVE  Q!NeverStranded'
    <2>1. Q!Client
      BY <1>2, SameArrive DEF Q!Client
    <2> QED
      BY <2>1, ItsAssumptions, Q!StrandedClient
  <1>3. ASSUME NEW s \in Sessions,
               \A t \in Sessions \ {s} : log'[t] = log[t],
               log'[s].status \notin {"VALIDATING", "VALIDATED"}, UNCHANGED Q!requests
        PROVE  Q!NeverStranded'
    BY <1>3 DEF Q!NeverStranded, Q!Session, Q!requests
  <1>4. ASSUME NEW s \in Sessions, CreateTripLog(s)
        PROVE  Q!NeverStranded'
    <2>1. /\ log' = [log EXCEPT ![s] = Q!NewTripLog(caller[s].user)]
          /\ UNCHANGED Q!requests
      BY <1>4, DocumentCreated
    <2>2. Q!NewTripLog(caller[s].user).status = "RECEIVED"
      BY DEF Q!NewTripLog, Q!NoLog
    <2> QED
      BY <1>3, <2>1, <2>2 DEF Q!CoreInv, Q!TypeOK
  <1>5. ASSUME NEW s \in Sessions, Downstream(s)
        PROVE  Q!NeverStranded'
    <2>1. PICK outcome \in WorkerStatuses :
            log' = [log EXCEPT ![s] =
                      [log[s] EXCEPT !.status = outcome, !.etag = log[s].etag + 1]]
      BY <1>5 DEF Downstream
    <2>2. /\ \A t \in Sessions \ {s} : log'[t] = log[t]
          /\ log'[s].status = outcome
      BY <2>1, DocumentMoved
    <2>3. outcome \notin {"VALIDATING", "VALIDATED"}
      BY WorkerStatusesAssumption
    <2>4. UNCHANGED Q!requests
      BY <1>5 DEF Downstream, Q!requests
    <2> QED
      BY <1>3, <2>2, <2>3, <2>4
  <1>6. CASE UNCHANGED completing
    BY <1>6 DEF completing, Q!NeverStranded, Q!Session
  <1> QED
    BY <1>1, <1>2, <1>4, <1>5, <1>6 DEF Next, Tick, Create, PutBlob, vars

\* No session is stranded by requests that overtake each other, beside workers
\* and on shared paths.
THEOREM NoneStrandedAlways == Spec => []NoneStranded
  <1>1. Init => Q!NeverStranded
    BY DEF Init, C!Init, C!NoLog, Q!NeverStranded
  <1>2. Q!NeverStranded => NoneStranded
    BY SameStranded DEF NoneStranded
  <1> QED
    BY <1>1, <1>2, StrandedNext, CoreInvariance, SessionInv, DocInvariance, PTL DEF Spec

-----------------------------------------------------------------------------
\* The lifecycle

\* Without workers or with them, the other steps are the same.
LEMMA SameLifecycle ==
  ASSUME [Q!Lifecycle!Next]_(Q!Lifecycle!vars)
  PROVE  [Lifecycle!Next]_(Lifecycle!vars)
  <1>1. Q!Lifecycle!Next => Lifecycle!Next
    BY DEF Q!Lifecycle!Next, Lifecycle!Next, Q!Lifecycle!Open, Lifecycle!Open,
           Q!Lifecycle!Claim, Lifecycle!Claim, Q!Lifecycle!Accept, Lifecycle!Accept,
           Q!Lifecycle!Reject, Lifecycle!Reject, Q!Lifecycle!Emit, Lifecycle!Emit,
           Q!Lifecycle!Publish, Lifecycle!Publish
  <1>2. UNCHANGED Q!Lifecycle!vars => UNCHANGED Lifecycle!vars
    BY DEF Q!Lifecycle!vars, Lifecycle!vars
  <1> QED
    BY <1>1, <1>2

\* A document of which one status, and nothing else the lifecycle sees, is new.
LEMMA OneStatus ==
  ASSUME Q!CoreInv, NEW s \in Sessions, \A t \in Sessions \ {s} : log'[t] = log[t],
         log'[s].exists = log[s].exists
  PROVE  /\ [t \in Sessions |-> log'[t].status] =
              [[t \in Sessions |-> log[t].status] EXCEPT ![s] = log'[s].status]
         /\ [t \in Sessions |-> log'[t].exists] = [t \in Sessions |-> log[t].exists]
  OBVIOUS

LEMMA SystemLifecycleNext ==
  ASSUME Q!CoreInv, P!IInv, DocInv, [Next]_vars
  PROVE  [Lifecycle!Next]_(Lifecycle!vars)
  <1>1. ASSUME NEW r \in Requests, Complete(r)
        PROVE  [Lifecycle!Next]_(Lifecycle!vars)
    <2>1. Q!Next
      BY <1>1, SameSteps DEF Q!Next
    <2>2. [Q!Lifecycle!Next]_(Q!Lifecycle!vars)
      BY <2>1, ItsAssumptions, Q!LifecycleNext
    <2> QED
      BY <2>2, SameLifecycle
  <1>2. ASSUME NEW s \in Sessions, CreateTripLog(s)
        PROVE  Lifecycle!Next
    <2> DEFINE u == caller[s].user
    <2>1. /\ u \in Users /\ log[s] = Q!NoLog
          /\ log' = [log EXCEPT ![s] = Q!NewTripLog(u)]
          /\ UNCHANGED <<hub, validated, Q!requests>>
      BY <1>2, DocumentCreated
    <2> HIDE DEF u
    <2>2. log \in [Sessions -> Q!TripLogs]
      BY DEF Q!CoreInv, Q!TypeOK
    <2>3. /\ log[s].status = "ABSENT" /\ log'[s].status = "RECEIVED"
          /\ log'[s].exists = log[s].exists
          /\ \A t \in Sessions \ {s} : log'[t] = log[t]
      BY <2>1, <2>2 DEF Q!NewTripLog, Q!NoLog
    <2>4. Lifecycle!Open(s)
      BY <2>1, <2>3, OneStatus DEF Lifecycle!Open
    <2> QED
      BY <2>4 DEF Lifecycle!Next
  <1>3. ASSUME NEW s \in Sessions, Downstream(s)
        PROVE  Lifecycle!Next
    <2>1. PICK outcome \in WorkerStatuses :
            /\ log[s].status = IF outcome = "PROCESSING" THEN "PUBLISHED" ELSE "PROCESSING"
            /\ log' = [log EXCEPT ![s] =
                         [log[s] EXCEPT !.status = outcome, !.etag = log[s].etag + 1]]
      BY <1>3 DEF Downstream
    <2>2. UNCHANGED <<hub, validated>>
      BY <1>3 DEF Downstream
    <2>3. /\ \A t \in Sessions \ {s} : log'[t] = log[t]
          /\ log'[s].status = outcome /\ log'[s].exists = log[s].exists
      BY <2>1, DocumentMoved
    <2>4. Lifecycle!Downstream(s, outcome)
      BY <2>1, <2>2, <2>3, OneStatus DEF Lifecycle!Downstream
    <2> QED
      BY <2>4 DEF Lifecycle!Next
  <1>4. CASE UNCHANGED <<log, hub, validated>>
    BY <1>4 DEF Lifecycle!vars
  <1> QED
    BY <1>1, <1>2, <1>3, <1>4
    DEF Next, vars, completing, Tick, Create, PutBlob, Arrive, C!Arrive, C!services

\* Whatever sessions share, whatever the workers store and however requests,
\* crashes and faults fall, the trip logs and the hub behave as the lifecycle
\* allows.
THEOREM SystemImplementsLifecycle == Spec => RefinesLifecycle
  <1>1. Init => Lifecycle!Init
    BY DEF Init, C!Init, C!NoLog, Lifecycle!Init
  <1> QED
    BY <1>1, SystemLifecycleNext, CoreInvariance, SessionInv, DocInvariance, PTL
    DEF Spec, Lifecycle!Spec, RefinesLifecycle
=============================================================================
