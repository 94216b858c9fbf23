------------------------ MODULE UploadCompleteProofs ------------------------
(***************************************************************************)
(* Theorems about UploadComplete, for any sets of requests, sessions,      *)
(* users, sources, contents and manifests, and any faults.                 *)
(***************************************************************************)
EXTENDS UploadCompleteInvariant, TLAPS

-----------------------------------------------------------------------------
\* Facts about the data

LEMMA ManifestDomain ==
  ASSUME NEW m \in Manifests
  PROVE  DOMAIN m \subseteq Sources /\ DOMAIN m # {}
  BY ManifestsAssumption

LEMMA CallFacts ==
  ASSUME TypeOK, CallsMade, NEW r \in Requests, pc[r] # "idle"
  PROVE  /\ Session(r) \in Sessions
         /\ call[r].user \in Users
         /\ Files(r) \in Manifests
         /\ DOMAIN Files(r) \subseteq Sources
         /\ DOMAIN Files(r) # {}
  <1>1. call[r] \in Calls
    BY DEF CallsMade
  <1>2. Session(r) \in Sessions /\ call[r].user \in Users /\ Files(r) \in Manifests
    BY <1>1 DEF Calls, Session, Files
  <1> QED
    BY <1>2, ManifestDomain

LEMMA NoLogType == NoLog \in TripLogs
  BY DEF NoLog, TripLogs, Statuses

LEMMA UpdatedType ==
  ASSUME TypeOK, CallsMade, NEW r \in Requests, pc[r] \in Updating
  PROVE  Updated(r) \in TripLogs
  <1>1. existing[r] \in TripLogs /\ valid[r] \in SUBSET Sources
    BY DEF TypeOK
  <1>2. Session(r) \in Sessions
    BY CallFacts DEF Updating
  <1>3. Verdict(r) \in {"VALIDATED", "FAILED"}
    BY DEF Verdict
  <1>4. CASE pc[r] = "claim"
    BY <1>1, <1>4 DEF Updated, TripLogs, Statuses
  <1>5. CASE pc[r] = "store"
    BY <1>1, <1>2, <1>3, <1>5 DEF Updated, TripLogs, Statuses
  <1>6. CASE pc[r] = "mark"
    BY <1>1, <1>6 DEF Updated, TripLogs, Statuses
  <1> QED
    BY <1>4, <1>5, <1>6 DEF Updating

-----------------------------------------------------------------------------
\* Type correctness

TypeInv == TypeOK /\ CallsMade

LEMMA TypeInit == Init => TypeInv
  <1> SUFFICES ASSUME Init PROVE TypeInv
    OBVIOUS
  <1>1. TypeOK
    BY NoLogType DEF Init, TypeOK, Phases, Responses
  <1>2. CallsMade
    BY DEF Init, CallsMade
  <1> QED
    BY <1>1, <1>2 DEF TypeInv

LEMMA TypeClient == TypeInv /\ Client => TypeInv'
  <1> SUFFICES ASSUME TypeInv, Client PROVE TypeInv'
    OBVIOUS
  <1> USE DEF TypeInv, services, requests
  <1>1. ASSUME NEW s \in Sessions, NEW u \in Users, CreateSession(s, u)
        PROVE  TypeInv'
    <2>1. NewTripLog(u) \in TripLogs
      BY DEF NewTripLog, NoLog, TripLogs, Statuses
    <2> QED
      BY <1>1, <2>1 DEF CreateSession, TypeOK, CallsMade
  <1>2. ASSUME NEW s \in Sessions, NEW f \in Sources, NEW c \in Contents, PutBlob(s, f, c)
        PROVE  TypeInv'
    BY <1>2 DEF PutBlob, TypeOK, CallsMade
  <1>3. ASSUME NEW gone \in SUBSET sas_open, ExpireSas(gone)
        PROVE  TypeInv'
    BY <1>3 DEF ExpireSas, TypeOK, CallsMade
  <1>4. ASSUME NEW r \in Requests, NEW c \in Calls, Arrive(r, c)
        PROVE  TypeInv'
    BY <1>4 DEF Arrive, TypeOK, CallsMade, Phases
  <1> QED
    BY <1>1, <1>2, <1>3, <1>4 DEF Client

LEMMA EndType ==
  ASSUME TypeInv, NEW r \in Requests, NEW answer \in Responses, End(r, answer)
  PROVE  pc' \in [Requests -> Phases] /\ response' \in [Requests -> Responses]
  BY DEF TypeInv, TypeOK, End, Phases

LEMMA ContinueType ==
  ASSUME TypeInv, NEW r \in Requests, NEW phase \in Phases, Continue(r, phase)
  PROVE  pc' \in [Requests -> Phases] /\ response' \in [Requests -> Responses]
  BY DEF TypeInv, TypeOK, Continue

\* What a replace writes is a document, and its history entry is well formed.
LEMMA ReplaceType ==
  ASSUME TypeInv, NEW r \in Requests, Replace(r)
  PROVE  /\ log' \in [Sessions -> TripLogs]
         /\ validated' \subseteq Sessions \X SUBSET Sources
  <1>1. Session(r) \in Sessions
    BY CallFacts DEF TypeInv, Replace, Updating
  <1>2. Updated(r) \in TripLogs
    BY UpdatedType DEF TypeInv, Replace
  <1>3. log[Session(r)].etag + 1 \in Nat
    BY <1>1 DEF TypeInv, TypeOK, TripLogs
  <1>4. [Updated(r) EXCEPT !.etag = log[Session(r)].etag + 1] \in TripLogs
    BY <1>2, <1>3 DEF TripLogs
  <1>5. log' \in [Sessions -> TripLogs]
    BY <1>1, <1>4 DEF TypeInv, TypeOK, Replace
  <1>6. Updated(r).exists \in SUBSET Sources
    BY <1>2 DEF TripLogs
  <1>7. validated' \subseteq Sessions \X SUBSET Sources
    BY <1>1, <1>6 DEF TypeInv, TypeOK, Replace
  <1> QED
    BY <1>5, <1>7

LEMMA EventType ==
  ASSUME TypeInv, NEW r \in Requests, pc[r] = "publish"
  PROVE  Event(r) \in Events
  <1>1. Session(r) \in Sessions
    BY CallFacts DEF TypeInv
  <1>2. trip_log[r].user \in Users \cup {None} /\ valid[r] \in SUBSET Sources
    BY DEF TypeInv, TypeOK, TripLogs
  <1> QED
    BY <1>1, <1>2 DEF Event, Events

\* A request that has its call keeps it, so only pc matters to CallsMade.
LEMMA CallsKept ==
  ASSUME TypeInv, NEW r \in Requests, pc[r] # "idle", UNCHANGED call,
         \A q \in Requests \ {r} : pc'[q] = pc[q]
  PROVE  CallsMade'
  BY DEF TypeInv, CallsMade

LEMMA TypeStep == ASSUME TypeInv, NEW r \in Requests, Step(r) PROVE TypeInv'
  <1> USE DEF services
  <1>1. CASE GetTripLog(r)
    <2>1. Session(r) \in Sessions
      BY <1>1, CallFacts DEF TypeInv, GetTripLog
    <2>2. log[Session(r)] \in TripLogs /\ log[Session(r)].etag \in Nat
      BY <2>1 DEF TypeInv, TypeOK, TripLogs
    <2>3. trip_log' \in [Requests -> TripLogs] /\ etag' \in [Requests -> Nat]
      BY <1>1, <2>2 DEF GetTripLog, TypeInv, TypeOK
    <2>4. pc' \in [Requests -> Phases] /\ response' \in [Requests -> Responses]
      BY <1>1, EndType, ContinueType DEF GetTripLog, Responses, Phases
    <2>5. CallsMade'
      BY <1>1, CallsKept DEF GetTripLog, End, Continue, TypeInv, TypeOK
    <2> QED
      BY <1>1, <2>3, <2>4, <2>5 DEF GetTripLog, TypeInv, TypeOK
  <1>2. CASE Reread(r)
    <2>1. log[Session(r)] \in TripLogs
      BY <1>2, CallFacts DEF TypeInv, TypeOK, Reread, Updating
    <2> QED
      BY <1>2, <2>1 DEF Reread, TypeInv, TypeOK, CallsMade
  <1>3. ASSUME Replace(r), Returned(r),
               pc' \in [Requests -> Phases], response' \in [Requests -> Responses],
               todo' \in [Requests -> SUBSET Sources],
               \A q \in Requests \ {r} : pc'[q] = pc[q]
        PROVE  TypeInv'
    <2>1. Session(r) \in Sessions
      BY <1>3, CallFacts DEF TypeInv, Replace, Updating
    <2>2. log[Session(r)].etag + 1 \in Nat
      BY <2>1 DEF TypeInv, TypeOK, TripLogs
    <2>3. etag' \in [Requests -> Nat] /\ existing' \in [Requests -> TripLogs]
      BY <1>3, <2>2, NoLogType DEF Returned, NewEtag, TypeInv, TypeOK
    <2>4. CallsMade'
      BY <1>3, CallsKept DEF Replace, Returned, Updating
    <2> QED
      BY <1>3, <2>3, <2>4, ReplaceType DEF Replace, Returned, TypeInv, TypeOK
  <1>4. CASE Claim(r)
    <2>1. todo' \in [Requests -> SUBSET Sources]
      BY <1>4, CallFacts DEF Claim, TypeInv, TypeOK
    <2>2. pc' \in [Requests -> Phases] /\ response' \in [Requests -> Responses]
      BY <1>4, ContinueType DEF Claim, Phases
    <2> QED
      BY <1>3, <1>4, <2>1, <2>2 DEF Claim, Continue, TypeInv, TypeOK
  <1>5. CASE Store(r)
    <2>1. pc' \in [Requests -> Phases] /\ response' \in [Requests -> Responses]
      BY <1>5, ContinueType, EndType DEF Store, Phases, Responses
    <2> QED
      BY <1>3, <1>5, <2>1 DEF Store, Continue, End, TypeInv, TypeOK
  <1>6. CASE MarkPublished(r)
    <2>1. pc' \in [Requests -> Phases] /\ response' \in [Requests -> Responses]
      BY <1>6, EndType DEF MarkPublished, Responses
    <2> QED
      BY <1>3, <1>6, <2>1 DEF MarkPublished, End, TypeInv, TypeOK
  <1>7. CASE Conflict(r)
    <2>1. pc' \in [Requests -> Phases] /\ response' \in [Requests -> Responses]
      BY <1>7, EndType DEF Conflict, Responses
    <2>2. CallsMade'
      BY <1>7, CallsKept DEF Conflict, End, Updating, TypeInv, TypeOK
    <2> QED
      BY <1>7, <2>1, <2>2 DEF Conflict, TypeInv, TypeOK
  <1>8. ASSUME NEW f \in Sources, ValidateFile(r, f)
        PROVE  TypeInv'
    <2>1. pc' \in [Requests -> Phases] /\ response' \in [Requests -> Responses]
      BY <1>8, ContinueType DEF ValidateFile, Phases
    <2>2. todo' \in [Requests -> SUBSET Sources] /\ valid' \in [Requests -> SUBSET Sources]
      BY <1>8 DEF ValidateFile, TypeInv, TypeOK
    <2>3. CallsMade'
      BY <1>8, CallsKept DEF ValidateFile, Continue, TypeInv, TypeOK
    <2> QED
      BY <1>8, <2>1, <2>2, <2>3 DEF ValidateFile, TypeInv, TypeOK
  <1>9. CASE Publish(r)
    <2>1. pc' \in [Requests -> Phases] /\ response' \in [Requests -> Responses]
      BY <1>9, ContinueType DEF Publish, Phases
    <2>2. hub' \subseteq Events
      BY <1>9, EventType DEF Publish, TypeInv, TypeOK
    <2>3. CallsMade'
      BY <1>9, CallsKept DEF Publish, Continue, TypeInv, TypeOK
    <2> QED
      BY <1>9, <2>1, <2>2, <2>3 DEF Publish, TypeInv, TypeOK
  <1> QED
    BY <1>1, <1>2, <1>4, <1>5, <1>6, <1>7, <1>8, <1>9 DEF Step

LEMMA TypeFault == ASSUME TypeInv, NEW r \in Requests, Fault(r) PROVE TypeInv'
  <1> USE DEF services
  <1>1. pc' \in [Requests -> Phases] /\ response' \in [Requests -> Responses]
    BY EndType DEF Fault, Crash, CosmosFails, ReplyLost, BlobFails, PublishFails, Responses
  <1>2. CallsMade'
    BY CallsKept DEF Fault, Crash, CosmosFails, ReplyLost, BlobFails, PublishFails,
                     Replace, Updating, End, TypeInv, TypeOK
  <1>3. CASE Crash(r) \/ CosmosFails(r) \/ BlobFails(r)
    BY <1>1, <1>2, <1>3 DEF Crash, CosmosFails, BlobFails, TypeInv, TypeOK
  <1>4. CASE ReplyLost(r)
    BY <1>1, <1>2, <1>4, ReplaceType DEF ReplyLost, Replace, TypeInv, TypeOK
  <1>5. CASE PublishFails(r)
    BY <1>1, <1>2, <1>5, EventType DEF PublishFails, TypeInv, TypeOK
  <1> QED
    BY <1>3, <1>4, <1>5 DEF Fault

LEMMA TypeStutter == TypeInv /\ UNCHANGED vars => TypeInv'
  BY DEF TypeInv, TypeOK, CallsMade, vars

LEMMA TypeNext == TypeInv /\ [Next]_vars => TypeInv'
  BY TypeClient, TypeStep, TypeFault, TypeStutter DEF Next

LEMMA TypeInvariance == Spec => []TypeInv
  <1> QED
    BY TypeInit, TypeNext, PTL DEF Spec

\* Every variable keeps its type, whatever the constants.
THEOREM TypeCorrect == Spec => []TypeOK
  <1>1. TypeInv => TypeOK
    BY DEF TypeInv
  <1> QED
    BY <1>1, TypeInvariance, PTL

-----------------------------------------------------------------------------
\* The inductive invariant: steps that leave the documents alone

LEMMA InvType == CoreInv => TypeInv
  BY DEF CoreInv, TypeInv

LEMMA InvInit == Init => CoreInv
  <1> SUFFICES ASSUME Init PROVE CoreInv
    OBVIOUS
  <1>1. TypeOK /\ CallsMade
    BY TypeInit DEF TypeInv
  <1>2. EtagsCount
    BY DEF Init, EtagsCount, NoLog
  <1>3. RequestInv
    BY DEF Init, RequestInv, OneRequest, OwnerInFlight, AnsweredAtEnd, RereadInFlight, CurrentKnows,
           PublisherHasVerdict, InFlight, Updating
  <1>4. CoherentVerdict /\ PublishedHasEvent
    BY NoneAssumption DEF Init, CoherentVerdict, PublishedHasEvent, NoLog
  <1>5. EventsHaveCalls /\ EventsAreBacked
    BY DEF Init, EventsHaveCalls, EventsAreBacked
  <1> QED
    BY <1>1, <1>2, <1>3, <1>4, <1>5 DEF CoreInv

\* What the invariant says of a request survives a step that leaves its
\* variables and its document alone; events and verdicts only accumulate.
LEMMA RequestKept ==
  ASSUME NEW q \in Requests, OneRequest(q),
         pc'[q] = pc[q], call'[q] = call[q], trip_log'[q] = trip_log[q], etag'[q] = etag[q],
         existing'[q] = existing[q], valid'[q] = valid[q], response'[q] = response[q],
         pc[q] \in InFlight => log'[Session(q)] = log[Session(q)],
         hub \subseteq hub', validated \subseteq validated'
  PROVE  OneRequest(q)'
  <1>1. Session(q)' = Session(q) /\ Event(q)' = Event(q)
    BY DEF Session, Event
  <1>2. OwnerInFlight(q)' /\ AnsweredAtEnd(q)'
    BY <1>1 DEF OneRequest, OwnerInFlight, AnsweredAtEnd
  <1>3. RereadInFlight(q)'
    BY <1>1 DEF OneRequest, RereadInFlight, Updating, InFlight
  <1>4. CurrentKnows(q)'
    BY <1>1 DEF OneRequest, CurrentKnows, Current
  <1>5. PublisherHasVerdict(q)'
    BY <1>1 DEF OneRequest, PublisherHasVerdict, AllValid, Files
  <1> QED
    BY <1>2, <1>3, <1>4, <1>5 DEF OneRequest

\* An event is sent only with its verdict stored and for the log's owner.
LEMMA SentIsBacked ==
  ASSUME CoreInv, NEW r \in Requests, UNCHANGED <<log, validated, call>>,
         hub' = hub \/ (pc[r] = "publish" /\ hub' = hub \cup {Event(r)})
  PROVE  EventsAreBacked'
  <1>1. CASE hub' = hub
    BY <1>1 DEF CoreInv, EventsAreBacked, Session, Files
  <1>2. CASE pc[r] = "publish" /\ hub' = hub \cup {Event(r)}
    <2>1. /\ <<Session(r), valid[r]>> \in validated
          /\ valid[r] = DOMAIN Files(r)
          /\ trip_log[r].user = call[r].user /\ call[r].user = log[Session(r)].user
      BY <1>2 DEF CoreInv, RequestInv, OneRequest, PublisherHasVerdict, OwnerInFlight, InFlight,
                  AllValid
    <2>2. \A e \in hub : /\ <<e.session, e.sources>> \in validated
                         /\ e.session = Session(e.request)
                         /\ e.sources = DOMAIN Files(e.request)
                         /\ e.user = call[e.request].user
                         /\ e.user = log[e.session].user
      BY DEF CoreInv, EventsAreBacked
    <2>3. /\ Event(r).session = Session(r) /\ Event(r).request = r
          /\ Event(r).sources = valid[r] /\ Event(r).user = trip_log[r].user
      BY DEF Event
    <2> QED
      BY <1>2, <2>1, <2>2, <2>3 DEF EventsAreBacked, Session, Files
  <1> QED
    BY <1>1, <1>2

\* A request that ends without writing.
LEMMA InvEnd ==
  ASSUME CoreInv, TypeInv', NEW r \in Requests, pc[r] \notin {"idle", "done"},
         NEW answer \in Responses, End(r, answer),
         UNCHANGED <<log, validated, call, valid>>,
         hub' = hub \/ (pc[r] = "publish" /\ hub' = hub \cup {Event(r)}),
         \A q \in Requests \ {r} :
           trip_log'[q] = trip_log[q] /\ etag'[q] = etag[q] /\ existing'[q] = existing[q]
  PROVE  CoreInv'
  <1>1. /\ pc'[r] = "done" /\ response'[r] = answer
        /\ \A q \in Requests \ {r} : pc'[q] = pc[q] /\ response'[q] = response[q]
    BY DEF End, CoreInv, TypeOK
  <1>2. ASSUME NEW q \in Requests PROVE OneRequest(q)'
    <2>1. CASE q # r
      BY <1>1, <2>1, RequestKept DEF CoreInv, RequestInv
    <2>2. CASE q = r
      BY <1>1, <2>2 DEF OneRequest, OwnerInFlight, AnsweredAtEnd, RereadInFlight, CurrentKnows,
                        PublisherHasVerdict, InFlight, Updating
    <2> QED
      BY <2>1, <2>2
  <1>3. EventsHaveCalls'
    BY <1>1 DEF CoreInv, EventsHaveCalls, TypeOK, Events, Event
  <1>4. EtagsCount' /\ CoherentVerdict' /\ PublishedHasEvent'
    BY DEF CoreInv, EtagsCount, CoherentVerdict, PublishedHasEvent
  <1>5. EventsAreBacked'
    BY SentIsBacked
  <1> QED
    BY <1>2, <1>3, <1>4, <1>5 DEF CoreInv, TypeInv, RequestInv

\* A request that goes on without writing a document.
LEMMA InvContinue ==
  ASSUME CoreInv, TypeInv', NEW r \in Requests, pc[r] \notin {"idle", "done"},
         NEW phase \in Phases \ {"idle"}, Continue(r, phase),
         UNCHANGED <<log, validated, call>>,
         hub' = hub \/ (pc[r] = "publish" /\ hub' = hub \cup {Event(r)}),
         \A q \in Requests \ {r} :
           /\ trip_log'[q] = trip_log[q] /\ etag'[q] = etag[q]
           /\ existing'[q] = existing[q] /\ valid'[q] = valid[q],
         OneRequest(r)'
  PROVE  CoreInv'
  <1>1. /\ pc'[r] = phase /\ UNCHANGED response
        /\ \A q \in Requests \ {r} : pc'[q] = pc[q]
    BY DEF Continue, CoreInv, TypeOK
  <1>2. ASSUME NEW q \in Requests PROVE OneRequest(q)'
    BY <1>1, RequestKept DEF CoreInv, RequestInv
  <1>3. EtagsCount' /\ CoherentVerdict'
    BY <1>1 DEF CoreInv, EtagsCount, CoherentVerdict
  <1>4. PublishedHasEvent'
    BY <1>1 DEF CoreInv, PublishedHasEvent
  <1>5. EventsHaveCalls'
    BY <1>1 DEF CoreInv, EventsHaveCalls, TypeOK, Events, Event
  <1>6. EventsAreBacked'
    BY SentIsBacked
  <1> QED
    BY <1>2, <1>3, <1>4, <1>5, <1>6 DEF CoreInv, TypeInv, RequestInv

\* A trip log comes to be, whatever else is there for its session.
LEMMA InvCreateSession ==
  ASSUME CoreInv, TypeInv', NEW s \in Sessions, NEW u \in Users,
         log[s] = NoLog, log' = [log EXCEPT ![s] = NewTripLog(u)],
         UNCHANGED <<hub, validated, requests>>
  PROVE  CoreInv'
  <1> USE DEF services, requests
  <1>1. /\ log[s] = NoLog
        /\ log' = [log EXCEPT ![s] = NewTripLog(u)]
        /\ UNCHANGED <<hub, validated, requests>>
    OBVIOUS
  <1>2. /\ log'[s] = NewTripLog(u)
        /\ \A q \in Sessions \ {s} : log'[q] = log[q]
    BY <1>1 DEF CoreInv, TypeOK
  <1>3. /\ NewTripLog(u) # NoLog
        /\ NewTripLog(u).etag = 1 /\ NewTripLog(u).status = "RECEIVED"
        /\ NewTripLog(u).event_id = None /\ NewTripLog(u).validation_status = None
    BY DEF NewTripLog, NoLog
  <1>4. EtagsCount'
    BY <1>1, <1>2, <1>3 DEF CoreInv, EtagsCount
  <1>5. ASSUME NEW r \in Requests, pc[r] \in InFlight
        PROVE  log'[Session(r)] = log[Session(r)]
    BY <1>1, <1>2, <1>5, CallFacts DEF CoreInv, RequestInv, OneRequest, OwnerInFlight, InFlight
  <1>6. RequestInv'
    BY <1>1, <1>5, RequestKept DEF CoreInv, RequestInv
  <1>7. CoherentVerdict'
    BY <1>2, <1>3, NoneAssumption DEF CoreInv, CoherentVerdict
  <1>8. PublishedHasEvent'
    BY <1>1, <1>2, <1>3 DEF CoreInv, PublishedHasEvent
  <1>9. EventsAreBacked'
    <2>1. \A e \in hub : log'[e.session] = log[e.session]
      <3> SUFFICES ASSUME NEW e \in hub PROVE log'[e.session] = log[e.session]
        OBVIOUS
      <3>1. e.request \in Requests /\ e.session \in Sessions
        BY DEF CoreInv, TypeOK, Events
      <3>2. e.user \in Users /\ e.user = log[e.session].user
        BY <3>1, CallFacts DEF CoreInv, EventsAreBacked, EventsHaveCalls
      <3> QED
        BY <1>1, <1>2, <3>1, <3>2, NoneAssumption DEF NoLog
    <2> QED
      BY <1>1, <2>1 DEF CoreInv, EventsAreBacked, Session, Files
  <1>10. EventsHaveCalls'
    BY <1>1 DEF CoreInv, EventsHaveCalls
  <1> QED
    BY <1>4, <1>6, <1>7, <1>8, <1>9, <1>10 DEF CoreInv, TypeInv

\* The invariant does not speak of the blobs or of who may write them.
LEMMA InvBlobs ==
  ASSUME CoreInv, TypeInv', UNCHANGED <<log, hub, validated, requests>>
  PROVE  CoreInv'
  BY DEF requests, CoreInv, TypeInv, EtagsCount, RequestInv, OneRequest, OwnerInFlight, AnsweredAtEnd,
         RereadInFlight, CurrentKnows, Current, PublisherHasVerdict, Session, AllValid, Files,
         Event, EventsHaveCalls, CoherentVerdict, PublishedHasEvent, EventsAreBacked

LEMMA InvArrive ==
  ASSUME CoreInv, TypeInv', NEW r \in Requests, NEW c \in Calls, Arrive(r, c)
  PROVE  CoreInv'
  <1> USE DEF services
  <1>1. /\ pc[r] = "idle" /\ pc'[r] = "get"
        /\ \A q \in Requests \ {r} : pc'[q] = pc[q] /\ call'[q] = call[q]
        /\ UNCHANGED <<log, hub, validated, trip_log, etag, existing, valid, response>>
    BY DEF Arrive, CoreInv, TypeOK
  <1>2. response[r] = "none"
    BY <1>1 DEF CoreInv, RequestInv, OneRequest, AnsweredAtEnd
  <1>3. ASSUME NEW q \in Requests PROVE OneRequest(q)'
    <2>1. CASE q # r
      BY <1>1, <2>1, RequestKept DEF CoreInv, RequestInv
    <2>2. CASE q = r
      BY <1>1, <1>2, <2>2 DEF CoreInv, RequestInv, OneRequest, OwnerInFlight, AnsweredAtEnd,
           RereadInFlight, CurrentKnows, PublisherHasVerdict, InFlight, Updating
    <2> QED
      BY <2>1, <2>2
  <1>4. EventsHaveCalls' /\ EventsAreBacked'
    BY <1>1 DEF CoreInv, TypeOK, Events, EventsHaveCalls, EventsAreBacked, Session, Files
  <1>5. EtagsCount' /\ CoherentVerdict' /\ PublishedHasEvent'
    BY <1>1 DEF CoreInv, EtagsCount, CoherentVerdict, PublishedHasEvent
  <1> QED
    BY <1>3, <1>4, <1>5 DEF CoreInv, TypeInv, RequestInv

LEMMA InvClient == ASSUME CoreInv, TypeInv', Client PROVE CoreInv'
  <1>1. ASSUME NEW s \in Sessions, NEW u \in Users, CreateSession(s, u)
        PROVE  CoreInv'
    BY <1>1, InvCreateSession DEF CreateSession
  <1>2. ASSUME NEW s \in Sessions, NEW f \in Sources, NEW c \in Contents, PutBlob(s, f, c)
        PROVE  CoreInv'
    BY <1>2, InvBlobs DEF PutBlob
  <1>3. ASSUME NEW gone \in SUBSET sas_open, ExpireSas(gone)
        PROVE  CoreInv'
    BY <1>3, InvBlobs DEF ExpireSas
  <1>4. ASSUME NEW r \in Requests, NEW c \in Calls, Arrive(r, c)
        PROVE  CoreInv'
    BY <1>4, InvArrive
  <1> QED
    BY <1>1, <1>2, <1>3, <1>4 DEF Client

LEMMA InvGetTripLog ==
  ASSUME CoreInv, TypeInv', NEW r \in Requests, GetTripLog(r)
  PROVE  CoreInv'
  <1> USE DEF services
  <1> DEFINE doc == log[Session(r)]
  <1>1. /\ pc[r] = "get"
        /\ UNCHANGED <<log, hub, validated, call, existing, valid>>
        /\ \A q \in Requests \ {r} : trip_log'[q] = trip_log[q] /\ etag'[q] = etag[q]
    BY DEF GetTripLog, CoreInv, TypeOK
  <1>2. ASSUME NEW answer \in {"not_found", "forbidden"}, End(r, answer)
        PROVE  CoreInv'
    <2>1. answer \in Responses
      BY <1>2 DEF Responses
    <2> QED
      BY <1>1, <1>2, <2>1, InvEnd
  <1>3. CASE doc.user = call[r].user /\ AlreadyPublished(doc) /\ End(r, "already")
    <2>1. "already" \in Responses
      BY DEF Responses
    <2> QED
      BY <1>1, <1>3, <2>1, InvEnd
  <1>4. CASE doc # NoLog /\ doc.user = call[r].user /\ ~AlreadyPublished(doc) /\ Continue(r, "claim")
    <2>1. trip_log'[r] = doc /\ etag'[r] = doc.etag /\ pc'[r] = "claim" /\ UNCHANGED response
      BY <1>4 DEF GetTripLog, CoreInv, TypeOK, Continue
    <2>2. existing[r] = NoLog /\ response[r] = "none"
      BY <1>1 DEF CoreInv, RequestInv, OneRequest, RereadInFlight, AnsweredAtEnd
    <2>3. doc.etag \in Nat
      BY <1>1, CallFacts DEF CoreInv, TypeOK, TripLogs
    <2>4. OneRequest(r)'
      BY <1>1, <1>4, <2>1, <2>2, <2>3 DEF OneRequest, OwnerInFlight, AnsweredAtEnd,
         RereadInFlight, CurrentKnows, PublisherHasVerdict, InFlight, Updating, Session,
         AlreadyPublished
    <2> QED
      BY <1>1, <1>4, <2>4, InvContinue DEF Phases
  <1> QED
    BY <1>2, <1>3, <1>4 DEF GetTripLog

LEMMA InvReread ==
  ASSUME CoreInv, TypeInv', NEW r \in Requests, Reread(r)
  PROVE  CoreInv'
  <1> USE DEF services
  <1>1. /\ pc[r] \in Updating /\ existing'[r] = log[Session(r)]
        /\ UNCHANGED <<log, hub, validated, pc, call, trip_log, etag, valid, response>>
        /\ \A q \in Requests \ {r} : existing'[q] = existing[q]
    BY DEF Reread, CoreInv, TypeOK
  <1>2. log[Session(r)].etag \in Nat /\ etag[r] <= log[Session(r)].etag
    BY <1>1, CallFacts DEF CoreInv, TypeOK, TripLogs, RequestInv, OneRequest, OwnerInFlight,
                           InFlight, Updating
  <1>3. ASSUME NEW q \in Requests PROVE OneRequest(q)'
    <2>1. CASE q # r
      BY <1>1, <2>1, RequestKept DEF CoreInv, RequestInv
    <2>2. CASE q = r
      <3>1. OneRequest(r)
        BY DEF CoreInv, RequestInv
      <3>2. OwnerInFlight(r)' /\ AnsweredAtEnd(r)' /\ CurrentKnows(r)' /\ PublisherHasVerdict(r)'
        BY <1>1, <3>1 DEF OneRequest, OwnerInFlight, AnsweredAtEnd, CurrentKnows, Current,
                          PublisherHasVerdict, Session, AllValid, Files, Event
      <3>3. RereadInFlight(r)'
        BY <1>1, <1>2 DEF RereadInFlight, Updating, Session
      <3> QED
        BY <2>2, <3>2, <3>3 DEF OneRequest
    <2> QED
      BY <2>1, <2>2
  <1>4. /\ EtagsCount' /\ EventsHaveCalls' /\ CoherentVerdict' /\ PublishedHasEvent'
        /\ EventsAreBacked'
    BY <1>1 DEF CoreInv, EtagsCount, EventsHaveCalls, CoherentVerdict, PublishedHasEvent,
                EventsAreBacked, Session, Files
  <1> QED
    BY <1>3, <1>4 DEF CoreInv, TypeInv, RequestInv

LEMMA InvValidateFile ==
  ASSUME CoreInv, TypeInv', NEW r \in Requests, NEW f \in Sources, ValidateFile(r, f)
  PROVE  CoreInv'
  <1> USE DEF services
  <1>1. PICK phase \in {"validate", "store"} : Continue(r, phase)
    BY DEF ValidateFile
  <1>2. /\ pc[r] = "validate"
        /\ UNCHANGED <<log, hub, validated, call, trip_log, etag, existing>>
        /\ \A q \in Requests \ {r} : valid'[q] = valid[q]
    BY DEF ValidateFile, CoreInv, TypeOK
  <1>3. pc'[r] = phase /\ UNCHANGED response
    BY <1>1 DEF Continue, CoreInv, TypeOK
  <1>4. OneRequest(r)
    BY DEF CoreInv, RequestInv
  <1>5. OneRequest(r)'
    BY <1>2, <1>3, <1>4 DEF OneRequest, OwnerInFlight, AnsweredAtEnd, RereadInFlight,
       CurrentKnows, Current, PublisherHasVerdict, InFlight, Updating, Session
  <1> QED
    BY <1>1, <1>2, <1>5, InvContinue DEF Phases

LEMMA InvPublish ==
  ASSUME CoreInv, TypeInv', NEW r \in Requests, Publish(r)
  PROVE  CoreInv'
  <1>1. /\ pc[r] = "publish" /\ Continue(r, "mark") /\ hub' = hub \cup {Event(r)}
        /\ UNCHANGED <<log, validated, call, trip_log, etag, existing, valid>>
    BY DEF Publish
  <1>2. pc'[r] = "mark" /\ UNCHANGED response
    BY <1>1 DEF Continue, CoreInv, TypeOK
  <1>3. OneRequest(r) /\ existing[r] = NoLog
    BY <1>1 DEF CoreInv, RequestInv, OneRequest, RereadInFlight
  <1>4. Event(r)' = Event(r)
    BY <1>1 DEF Event, Session
  <1>5. OneRequest(r)'
    BY <1>1, <1>2, <1>3, <1>4 DEF OneRequest, OwnerInFlight, AnsweredAtEnd, RereadInFlight,
       CurrentKnows, Current, PublisherHasVerdict, InFlight, Updating, Session, AllValid, Files
  <1> QED
    BY <1>1, <1>5, InvContinue DEF Phases

-----------------------------------------------------------------------------
\* The inductive invariant: writing a document

\* A replace succeeds only over the document the request knows, which is never
\* a published one, and changes only the fields of its phase.
LEMMA ReplaceFacts ==
  ASSUME CoreInv, NEW r \in Requests, Replace(r)
  PROVE  /\ Session(r) \in Sessions
         /\ existing[r] = log[Session(r)]
         /\ log[Session(r)] # NoLog
         /\ log[Session(r)].etag \in Nat /\ etag[r] = log[Session(r)].etag
         /\ log[Session(r)].status \in Statuses \ {"PUBLISHED"}
         /\ log[Session(r)].user = call[r].user
         /\ log' = [log EXCEPT ![Session(r)] =
                      [Updated(r) EXCEPT !.etag = log[Session(r)].etag + 1]]
         /\ UNCHANGED hub
         /\ validated \subseteq validated'
  <1>1. pc[r] \in Updating /\ existing[r] # NoLog /\ EtagMatches(r)
    BY DEF Replace
  <1>2. Session(r) \in Sessions
    BY <1>1, CallFacts DEF CoreInv, Updating
  <1>3. log[Session(r)] \in TripLogs
    BY <1>2 DEF CoreInv, TypeOK
  <1>4. etag[r] = log[Session(r)].etag
    BY <1>1 DEF EtagMatches, EffectiveEtag
  <1>5. OneRequest(r) /\ existing[r] \in TripLogs
    BY DEF CoreInv, RequestInv, TypeOK
  <1>6. existing[r] = log[Session(r)]
    BY <1>1, <1>3, <1>4, <1>5 DEF OneRequest, RereadInFlight, TripLogs
  <1>7. log[Session(r)].status # "PUBLISHED"
    BY <1>1, <1>4, <1>5 DEF OneRequest, CurrentKnows, Current, Updating, InFlight
  <1>8. log[Session(r)].user = call[r].user
    BY <1>1, <1>5 DEF OneRequest, OwnerInFlight, Updating, InFlight
  <1> QED
    BY <1>1, <1>2, <1>3, <1>4, <1>6, <1>7, <1>8 DEF Replace, TripLogs

\* What each phase writes.
LEMMA UpdatedFields ==
  ASSUME CoreInv, NEW r \in Requests, Replace(r)
  PROVE  LET doc == log[Session(r)]
             new == log'[Session(r)] IN
         /\ new.user = doc.user
         /\ new.etag = doc.etag + 1
         /\ pc[r] = "claim" => /\ new.status = "VALIDATING"
                               /\ new.validation_status = doc.validation_status
                               /\ new.event_id = doc.event_id
                               /\ new.exists = doc.exists
         /\ pc[r] = "store" => /\ new.status = Verdict(r)
                               /\ new.validation_status = Verdict(r)
                               /\ new.event_id = IF AllValid(r) THEN EventId(Session(r)) ELSE None
                               /\ new.exists = valid[r]
         /\ pc[r] = "mark" => /\ new.status = "PUBLISHED"
                              /\ new.validation_status = doc.validation_status
                              /\ new.event_id = doc.event_id
                              /\ new.exists = doc.exists
  <1>1. Session(r) \in Sessions /\ existing[r] = log[Session(r)] /\ existing[r] \in TripLogs
    BY ReplaceFacts DEF CoreInv, TypeOK
  <1>2. log'[Session(r)] = [Updated(r) EXCEPT !.etag = log[Session(r)].etag + 1]
    BY <1>1, ReplaceFacts DEF CoreInv, TypeOK
  <1>3. Updated(r) \in TripLogs
    BY UpdatedType DEF CoreInv, Replace
  <1>4. /\ log'[Session(r)].user = Updated(r).user
        /\ log'[Session(r)].status = Updated(r).status
        /\ log'[Session(r)].validation_status = Updated(r).validation_status
        /\ log'[Session(r)].event_id = Updated(r).event_id
        /\ log'[Session(r)].exists = Updated(r).exists
        /\ log'[Session(r)].etag = log[Session(r)].etag + 1
    BY <1>2, <1>3 DEF TripLogs
  <1>5. pc[r] \in Updating
    BY DEF Replace
  <1>6. CASE pc[r] = "claim"
    <2>1. Updated(r) = [existing[r] EXCEPT !.status = "VALIDATING"]
      BY <1>6 DEF Updated
    <2> QED
      BY <1>1, <1>4, <1>6, <2>1 DEF TripLogs
  <1>7. CASE pc[r] = "store"
    <2>1. Updated(r) = [existing[r] EXCEPT
                          !.status = Verdict(r),
                          !.validation_status = Verdict(r),
                          !.event_id = IF AllValid(r) THEN EventId(Session(r)) ELSE None,
                          !.exists = valid[r]]
      BY <1>7 DEF Updated
    <2> QED
      BY <1>1, <1>4, <1>7, <2>1 DEF TripLogs
  <1>8. CASE pc[r] = "mark"
    <2>1. Updated(r) = [existing[r] EXCEPT !.status = "PUBLISHED"]
      BY <1>8 DEF Updated
    <2> QED
      BY <1>1, <1>4, <1>8, <2>1 DEF TripLogs
  <1> QED
    BY <1>5, <1>6, <1>7, <1>8 DEF Updating

\* What a writer knows of the document it replaces.
LEMMA WriterKnows ==
  ASSUME CoreInv, NEW r \in Requests, Replace(r)
  PROVE  LET doc == log[Session(r)] IN
         /\ pc[r] = "store" => doc.status = "VALIDATING"
         /\ pc[r] = "mark" => /\ doc.status = "VALIDATED"
                              /\ doc.exists = valid[r]
                              /\ doc.event_id = EventId(Session(r))
                              /\ Event(r) \in hub
                              /\ trip_log[r].user = doc.user
  <1>1. OneRequest(r)
    BY DEF CoreInv, RequestInv
  <1>2. Current(r) /\ log[Session(r)].user = call[r].user
    BY ReplaceFacts DEF Current
  <1> QED
    BY <1>1, <1>2 DEF OneRequest, CurrentKnows, PublisherHasVerdict, OwnerInFlight, InFlight

\* A write of its document by somebody else makes a request stale, and leaves
\* the invariant's other claims about it true.
LEMMA BecomesStale ==
  ASSUME CoreInv, NEW q \in Requests, pc[q] \in InFlight,
         log'[Session(q)].user = log[Session(q)].user,
         log'[Session(q)].etag = log[Session(q)].etag + 1,
         hub \subseteq hub', validated \subseteq validated',
         pc'[q] = pc[q], call'[q] = call[q], trip_log'[q] = trip_log[q], etag'[q] = etag[q],
         existing'[q] = existing[q], valid'[q] = valid[q], response'[q] = response[q]
  PROVE  OneRequest(q)'
  <1>1. OneRequest(q)
    BY DEF CoreInv, RequestInv
  <1>2. log[Session(q)].etag \in Nat /\ etag[q] \in Nat /\ existing[q].etag \in Nat
    BY CallFacts DEF CoreInv, TypeOK, TripLogs, InFlight
  <1>3. log'[Session(q)] # NoLog
    BY <1>2 DEF NoLog
  <1>4. Session(q)' = Session(q) /\ Event(q)' = Event(q)
    BY DEF Session, Event
  <1>5. OwnerInFlight(q)' /\ AnsweredAtEnd(q)'
    BY <1>1, <1>2, <1>3, <1>4 DEF OneRequest, OwnerInFlight, AnsweredAtEnd
  <1>6. RereadInFlight(q)'
    BY <1>1, <1>2, <1>4 DEF OneRequest, RereadInFlight
  <1>7. ~Current(q)'
    BY <1>1, <1>2, <1>4 DEF OneRequest, OwnerInFlight, Current
  <1>8. CurrentKnows(q)'
    BY <1>7 DEF CurrentKnows
  <1>9. PublisherHasVerdict(q)'
    BY <1>1, <1>4 DEF OneRequest, PublisherHasVerdict, AllValid, Files
  <1> QED
    BY <1>5, <1>6, <1>8, <1>9 DEF OneRequest

\* What a replace leaves of the other requests.
LEMMA ReplaceOthers ==
  ASSUME CoreInv, NEW r \in Requests, Replace(r), NEW q \in Requests \ {r},
         pc'[q] = pc[q], call'[q] = call[q], trip_log'[q] = trip_log[q], etag'[q] = etag[q],
         existing'[q] = existing[q], valid'[q] = valid[q], response'[q] = response[q]
  PROVE  OneRequest(q)'
  <1>1. hub \subseteq hub' /\ validated \subseteq validated'
    BY ReplaceFacts
  <1>2. CASE pc[q] \notin InFlight \/ Session(q) # Session(r)
    <2>1. pc[q] \in InFlight => log'[Session(q)] = log[Session(q)]
      BY <1>2, ReplaceFacts, CallFacts DEF CoreInv, TypeOK, InFlight
    <2> QED
      BY <1>1, <2>1, RequestKept DEF CoreInv, RequestInv
  <1>3. CASE pc[q] \in InFlight /\ Session(q) = Session(r)
    BY <1>1, <1>3, UpdatedFields, BecomesStale
  <1> QED
    BY <1>2, <1>3

LEMMA PublishedKept ==
  ASSUME CoreInv, NEW r \in Requests, Replace(r), NEW s \in Sessions, log[s].status = "PUBLISHED"
  PROVE  log'[s] = log[s]
  BY ReplaceFacts DEF CoreInv, TypeOK

LEMMA ReplaceDocs ==
  ASSUME CoreInv, NEW r \in Requests, Replace(r), UNCHANGED call,
         \A q \in Requests : pc[q] # "idle" => pc'[q] # "idle"
  PROVE  /\ EtagsCount' /\ CoherentVerdict' /\ PublishedHasEvent'
         /\ EventsHaveCalls' /\ EventsAreBacked'
  <1> DEFINE s == Session(r)
             new == log'[s]
  <1>1. /\ s \in Sessions /\ log[s].etag \in Nat /\ UNCHANGED hub /\ validated \subseteq validated'
        /\ \A t \in Sessions \ {s} : log'[t] = log[t]
    BY ReplaceFacts DEF CoreInv, TypeOK
  <1>2. new.user = log[s].user /\ new.etag = log[s].etag + 1
    BY UpdatedFields
  <1>3. pc[r] \in Updating
    BY DEF Replace
  <1>4. EtagsCount'
    <2>1. new # NoLog /\ new.etag # 0 /\ new.status # "ABSENT"
      BY <1>1, <1>2, <1>3, UpdatedFields DEF NoLog, Updating, Verdict
    <2> QED
      BY <1>1, <2>1 DEF CoreInv, EtagsCount
  <1>5. CoherentVerdict'
    <2>1. /\ log[s].event_id # None <=> log[s].validation_status = "VALIDATED"
          /\ log[s].validation_status = "VALIDATED" => log[s].exists # {}
          /\ log[s].status \in {"VALIDATED", "PUBLISHED"} => log[s].validation_status = "VALIDATED"
      BY <1>1 DEF CoreInv, CoherentVerdict
    <2>2. EventId(s) # None
      BY <1>1, NoneAssumption DEF EventId
    <2>3. AllValid(r) => valid[r] # {}
      BY <1>3, CallFacts DEF CoreInv, AllValid, Updating
    <2>4. /\ new.event_id # None <=> new.validation_status = "VALIDATED"
          /\ new.validation_status = "VALIDATED" => new.exists # {}
          /\ new.status \in {"VALIDATED", "PUBLISHED"} => new.validation_status = "VALIDATED"
          /\ new.status \notin {"ABSENT", "RECEIVED"}
      <3>1. CASE pc[r] = "claim"
        BY <2>1, <3>1, UpdatedFields
      <3>2. CASE pc[r] = "store"
        BY <2>2, <2>3, <3>2, UpdatedFields DEF Verdict
      <3>3. CASE pc[r] = "mark"
        BY <2>1, <3>3, UpdatedFields, WriterKnows
      <3> QED
        BY <1>3, <3>1, <3>2, <3>3 DEF Updating
    <2> QED
      BY <1>1, <2>4 DEF CoreInv, CoherentVerdict
  <1>6. PublishedHasEvent'
    <2>1. new.status = "PUBLISHED" => /\ Event(r) \in hub
                                      /\ Event(r).session = s
                                      /\ Event(r).event_id = new.event_id
                                      /\ Event(r).user = new.user
                                      /\ Event(r).sources = new.exists
      BY <1>3, UpdatedFields, WriterKnows DEF Updating, Verdict, Event
    <2> QED
      BY <1>1, <2>1 DEF CoreInv, PublishedHasEvent
  <1>7. EventsHaveCalls'
    BY <1>1 DEF CoreInv, EventsHaveCalls, TypeOK, Events
  <1>8. EventsAreBacked'
    <2>1. \A e \in hub : e.session \in Sessions
      BY DEF CoreInv, TypeOK, Events
    <2> QED
      BY <1>1, <1>2, <2>1 DEF CoreInv, EventsAreBacked, Session, Files
  <1> QED
    BY <1>4, <1>5, <1>6, <1>7, <1>8

\* A replace preserves the invariant when its request is left in order.
LEMMA InvReplace ==
  ASSUME CoreInv, TypeInv', NEW r \in Requests, Replace(r), UNCHANGED call,
         OneRequest(r)', pc'[r] # "idle",
         \A q \in Requests \ {r} :
           /\ pc'[q] = pc[q] /\ trip_log'[q] = trip_log[q] /\ etag'[q] = etag[q]
           /\ existing'[q] = existing[q] /\ valid'[q] = valid[q] /\ response'[q] = response[q]
  PROVE  CoreInv'
  <1>1. ASSUME NEW q \in Requests PROVE OneRequest(q)'
    BY ReplaceOthers
  <1>2. /\ EtagsCount' /\ CoherentVerdict' /\ PublishedHasEvent'
        /\ EventsHaveCalls' /\ EventsAreBacked'
    BY ReplaceDocs
  <1> QED
    BY <1>1, <1>2 DEF CoreInv, TypeInv, RequestInv

LEMMA InvClaim ==
  ASSUME CoreInv, TypeInv', NEW r \in Requests, Claim(r)
  PROVE  CoreInv'
  <1>1. /\ pc[r] = "claim" /\ Replace(r) /\ Returned(r) /\ Continue(r, "validate")
        /\ UNCHANGED <<call, trip_log, valid>>
    BY DEF Claim, Returned
  <1>2. /\ pc'[r] = "validate" /\ etag'[r] = log[Session(r)].etag + 1 /\ existing'[r] = NoLog
        /\ UNCHANGED response
        /\ \A q \in Requests \ {r} : pc'[q] = pc[q] /\ etag'[q] = etag[q] /\ existing'[q] = existing[q]
    BY <1>1 DEF Returned, NewEtag, Continue, CoreInv, TypeOK
  <1>3. OneRequest(r) /\ log[Session(r)].etag \in Nat
    BY <1>1, ReplaceFacts DEF CoreInv, RequestInv
  <1>4. /\ log'[Session(r)].status = "VALIDATING"
        /\ log'[Session(r)].etag = log[Session(r)].etag + 1
        /\ log'[Session(r)].user = log[Session(r)].user
    BY <1>1, UpdatedFields
  <1>5. log'[Session(r)] # NoLog
    BY <1>3, <1>4 DEF NoLog
  <1>6. Session(r)' = Session(r)
    BY <1>1 DEF Session
  <1>7. OneRequest(r)'
    BY <1>1, <1>2, <1>3, <1>4, <1>5, <1>6 DEF OneRequest, OwnerInFlight, AnsweredAtEnd,
       RereadInFlight, CurrentKnows, PublisherHasVerdict, InFlight, Updating
  <1>8. /\ Replace(r) /\ UNCHANGED call /\ pc'[r] # "idle"
        /\ \A q \in Requests \ {r} :
             /\ pc'[q] = pc[q] /\ trip_log'[q] = trip_log[q] /\ etag'[q] = etag[q]
             /\ existing'[q] = existing[q] /\ valid'[q] = valid[q]
             /\ response'[q] = response[q]
    BY <1>1, <1>2
  <1> QED
    BY <1>7, <1>8, InvReplace

\* A replace after which the request is done.
LEMMA InvReplaceEnd ==
  ASSUME CoreInv, TypeInv', NEW r \in Requests, Replace(r), UNCHANGED <<call, trip_log, valid>>,
         NEW answer \in Responses, End(r, answer),
         \A q \in Requests \ {r} : etag'[q] = etag[q] /\ existing'[q] = existing[q]
  PROVE  CoreInv'
  <1>1. /\ pc'[r] = "done"
        /\ \A q \in Requests \ {r} : pc'[q] = pc[q] /\ response'[q] = response[q]
    BY DEF End, CoreInv, TypeOK
  <1>2. OneRequest(r)'
    BY <1>1 DEF OneRequest, OwnerInFlight, AnsweredAtEnd, RereadInFlight, CurrentKnows,
                PublisherHasVerdict, InFlight, Updating
  <1> QED
    BY <1>1, <1>2, InvReplace

LEMMA InvStore ==
  ASSUME CoreInv, TypeInv', NEW r \in Requests, Store(r)
  PROVE  CoreInv'
  <1>1. /\ pc[r] = "store" /\ Replace(r) /\ Returned(r) /\ UNCHANGED <<call, trip_log, valid>>
    BY DEF Store, Returned
  <1>2. /\ etag'[r] = log[Session(r)].etag + 1 /\ existing'[r] = NoLog
        /\ \A q \in Requests \ {r} : etag'[q] = etag[q] /\ existing'[q] = existing[q]
    BY <1>1 DEF Returned, NewEtag, CoreInv, TypeOK
  <1>3. CASE ~AllValid(r) /\ End(r, "invalid")
    <2>1. "invalid" \in Responses
      BY DEF Responses
    <2> QED
      BY <1>1, <1>2, <1>3, <2>1, InvReplaceEnd
  <1>4. CASE AllValid(r) /\ Continue(r, "publish")
    <2>1. /\ pc'[r] = "publish" /\ UNCHANGED response
          /\ \A q \in Requests \ {r} : pc'[q] = pc[q]
      BY <1>4 DEF Continue, CoreInv, TypeOK
    <2>2. OneRequest(r) /\ log[Session(r)].etag \in Nat
      BY <1>1, ReplaceFacts DEF CoreInv, RequestInv
    <2>3. /\ log'[Session(r)].status = "VALIDATED"
          /\ log'[Session(r)].exists = valid[r]
          /\ log'[Session(r)].event_id = EventId(Session(r))
          /\ log'[Session(r)].etag = log[Session(r)].etag + 1
          /\ log'[Session(r)].user = log[Session(r)].user
      BY <1>1, <1>4, UpdatedFields DEF Verdict
    <2>4. log'[Session(r)] # NoLog
      BY <2>2, <2>3 DEF NoLog
    <2>5. Session(r)' = Session(r) /\ AllValid(r)'
      BY <1>1, <1>4 DEF Session, AllValid, Files
    <2>6. <<Session(r), valid[r]>> \in validated'
      <3>1. Updated(r).status = "VALIDATED" /\ Updated(r).exists = valid[r]
        <4>1. Updated(r) = [existing[r] EXCEPT
                              !.status = Verdict(r),
                              !.validation_status = Verdict(r),
                              !.event_id = IF AllValid(r) THEN EventId(Session(r)) ELSE None,
                              !.exists = valid[r]]
          BY <1>1 DEF Updated
        <4>2. existing[r] \in TripLogs
          BY DEF CoreInv, TypeOK
        <4> QED
          BY <1>4, <4>1, <4>2 DEF TripLogs, Verdict
      <3> QED
        BY <1>1, <3>1 DEF Replace
    <2>7. OneRequest(r)'
      BY <1>1, <1>2, <2>1, <2>2, <2>3, <2>4, <2>5, <2>6 DEF OneRequest, OwnerInFlight,
         AnsweredAtEnd, RereadInFlight, CurrentKnows, PublisherHasVerdict, InFlight, Updating
    <2>8. /\ Replace(r) /\ UNCHANGED call /\ pc'[r] # "idle"
          /\ \A q \in Requests \ {r} :
               /\ pc'[q] = pc[q] /\ trip_log'[q] = trip_log[q] /\ etag'[q] = etag[q]
               /\ existing'[q] = existing[q] /\ valid'[q] = valid[q]
               /\ response'[q] = response[q]
      BY <1>1, <1>2, <2>1
    <2> QED
      BY <2>7, <2>8, InvReplace
  <1> QED
    BY <1>3, <1>4 DEF Store

LEMMA InvMarkPublished ==
  ASSUME CoreInv, TypeInv', NEW r \in Requests, MarkPublished(r)
  PROVE  CoreInv'
  <1>1. /\ pc[r] = "mark" /\ Replace(r) /\ End(r, "published")
        /\ UNCHANGED <<call, trip_log, valid>>
        /\ \A q \in Requests \ {r} : etag'[q] = etag[q] /\ existing'[q] = existing[q]
    BY DEF MarkPublished, Returned, NewEtag, CoreInv, TypeOK
  <1> QED
    BY <1>1, InvReplaceEnd DEF Responses

-----------------------------------------------------------------------------
\* The inductive invariant: conclusion

LEMMA InvStep == ASSUME CoreInv, TypeInv', NEW r \in Requests, Step(r) PROVE CoreInv'
  <1>1. CASE Conflict(r)
    <2>1. "conflict" \in Responses
      BY DEF Responses
    <2> QED
      BY <1>1, <2>1, InvEnd DEF Conflict, services, Updating
  <1> QED
    BY <1>1, InvGetTripLog, InvReread, InvClaim, InvStore, InvMarkPublished,
       InvValidateFile, InvPublish DEF Step

LEMMA InvFault == ASSUME CoreInv, TypeInv', NEW r \in Requests, Fault(r) PROVE CoreInv'
  <1>1. {"crashed", "unavailable", "error"} \subseteq Responses
    BY DEF Responses
  <1>2. CASE Crash(r) \/ CosmosFails(r) \/ BlobFails(r)
    BY <1>1, <1>2, InvEnd DEF Crash, CosmosFails, BlobFails, services, Updating
  <1>3. CASE ReplyLost(r)
    BY <1>1, <1>3, InvReplaceEnd DEF ReplyLost
  <1>4. CASE PublishFails(r)
    <2>1. PICK answer \in {"unavailable", "error"} : End(r, answer)
      BY <1>4 DEF PublishFails
    <2>2. /\ pc[r] = "publish"
          /\ hub' = hub \/ hub' = hub \cup {Event(r)}
          /\ UNCHANGED <<log, validated, call, trip_log, etag, existing, valid>>
      BY <1>4 DEF PublishFails
    <2> QED
      BY <1>1, <2>1, <2>2, InvEnd
  <1> QED
    BY <1>2, <1>3, <1>4 DEF Fault

LEMMA InvStutter == CoreInv /\ TypeInv' /\ UNCHANGED vars => CoreInv'
  BY InvBlobs DEF vars, requests

LEMMA InvNext == CoreInv /\ [Next]_vars => CoreInv'
  <1> SUFFICES ASSUME CoreInv, [Next]_vars PROVE CoreInv'
    OBVIOUS
  <1>1. TypeInv'
    BY InvType, TypeNext
  <1> QED
    BY <1>1, InvClient, InvStep, InvFault, InvStutter DEF Next

-----------------------------------------------------------------------------
\* Steps of others, where this protocol is part of something larger

LEMMA TypeOthers ==
  ASSUME TypeInv, log' \in [Sessions -> TripLogs],
         blob' \in [Sessions -> [Sources -> Contents \cup {None}]], sas_open' \subseteq Sessions,
         UNCHANGED <<hub, validated, requests>>
  PROVE  TypeInv'
  BY DEF TypeInv, TypeOK, CallsMade, requests

\* A document with another status.
LEMMA MovedFields ==
  ASSUME NEW doc \in TripLogs, NEW outcome \in Statuses
  PROVE  LET moved_on == [doc EXCEPT !.status = outcome, !.etag = doc.etag + 1] IN
         /\ moved_on \in TripLogs
         /\ moved_on.status = outcome /\ moved_on.etag = doc.etag + 1 /\ doc.etag \in Nat
         /\ moved_on.user = doc.user
         /\ moved_on.validation_status = doc.validation_status
         /\ moved_on.event_id = doc.event_id
         /\ moved_on.exists = doc.exists
  <1> DEFINE moved_on == [doc EXCEPT !.status = outcome, !.etag = doc.etag + 1]
  <1>1. doc.etag \in Nat /\ doc.etag + 1 \in Nat
    BY DEF TripLogs
  <1>2. /\ moved_on.status = outcome /\ moved_on.etag = doc.etag + 1
        /\ moved_on.user = doc.user
        /\ moved_on.validation_status = doc.validation_status
        /\ moved_on.event_id = doc.event_id
        /\ moved_on.exists = doc.exists
    BY DEF TripLogs
  <1>3. moved_on \in TripLogs
    BY <1>1 DEF TripLogs
  <1> QED
    BY <1>1, <1>2, <1>3

\* Somebody moves a published log on: requests that were current no longer
\* are, and what the invariant says of verdicts does not mention the status.
LEMMA InvMovedOn ==
  ASSUME CoreInv, TypeInv', NEW s \in Sessions, log[s].status \in {"PUBLISHED", "PROCESSING"},
         \A t \in Sessions \ {s} : log'[t] = log[t],
         log'[s].status \in {"PROCESSING", "SUCCESS", "PARTIALLY_PROCESSED", "FAILED"},
         log'[s].etag = log[s].etag + 1,
         log'[s].user = log[s].user,
         log'[s].validation_status = log[s].validation_status,
         log'[s].event_id = log[s].event_id,
         log'[s].exists = log[s].exists,
         UNCHANGED <<hub, validated, requests>>
  PROVE  CoreInv'
  <1> USE DEF requests
  <1>1. log[s].etag \in Nat
    BY DEF CoreInv, TypeOK, TripLogs
  <1>2. EtagsCount'
    <2>1. log'[s].etag # 0 /\ log'[s].status # "ABSENT"
      BY <1>1
    <2>2. log'[s] # NoLog
      BY <2>1 DEF NoLog
    <2> QED
      BY <2>1, <2>2 DEF CoreInv, EtagsCount
  <1>3. RequestInv'
    <2>1. ASSUME NEW q \in Requests, pc[q] \in InFlight, Session(q) = s
          PROVE  OneRequest(q)'
      BY <2>1, BecomesStale
    <2>2. ASSUME NEW q \in Requests, pc[q] \in InFlight => Session(q) # s
          PROVE  OneRequest(q)'
      <3>1. pc[q] \in InFlight => log'[Session(q)] = log[Session(q)]
        BY <2>2, CallFacts DEF CoreInv, InFlight
      <3> QED
        BY <3>1, RequestKept DEF CoreInv, RequestInv
    <2> QED
      BY <2>1, <2>2 DEF RequestInv
  <1>4. CoherentVerdict' /\ PublishedHasEvent'
    <2>1. log'[s].status \notin {"VALIDATED", "PUBLISHED", "ABSENT", "RECEIVED"}
      OBVIOUS
    <2> QED
      BY <2>1 DEF CoreInv, CoherentVerdict, PublishedHasEvent
  <1>5. EventsHaveCalls' /\ EventsAreBacked'
    BY DEF CoreInv, TypeOK, Events, EventsHaveCalls, EventsAreBacked, Session, Files
  <1> QED
    BY <1>2, <1>3, <1>4, <1>5 DEF CoreInv, TypeInv

-----------------------------------------------------------------------------
\* What holds because nobody but requests writes a published log

\* What a request's step does to documents and answers: 200 is given for
\* marking the log, or for finding it PUBLISHED.
LEMMA Answers ==
  ASSUME CoreInv, NEW r \in Requests, Step(r) \/ Fault(r)
  PROVE  /\ pc[r] \notin {"idle", "done"} /\ pc'[r] # "idle" /\ UNCHANGED call
         /\ \A q \in Requests \ {r} : pc'[q] = pc[q] /\ response'[q] = response[q]
         /\ UNCHANGED log \/ Replace(r)
         /\ \/ HttpStatus[response'[r]] # 200
            \/ response'[r] = "published" /\ pc[r] = "mark" /\ Replace(r)
            \/ /\ response'[r] = "already" /\ UNCHANGED log
               /\ log[Session(r)].status = "PUBLISHED" /\ log[Session(r)].user = call[r].user
  <1>1. pc[r] \notin {"idle", "done"} /\ UNCHANGED call /\ (UNCHANGED log \/ Replace(r))
    BY DEF Step, GetTripLog, Reread, Claim, Store, MarkPublished, Returned, Conflict, ValidateFile,
           Publish, Fault, Crash, CosmosFails, ReplyLost, BlobFails, PublishFails, services,
           Updating, Replace
  <1>2. \A q \in Requests \ {r} : pc'[q] = pc[q] /\ response'[q] = response[q]
    BY DEF Step, GetTripLog, Reread, Claim, Store, MarkPublished, Conflict, ValidateFile,
           Publish, Fault, Crash, CosmosFails, ReplyLost, BlobFails, PublishFails,
           Continue, End, CoreInv, TypeOK
  <1>3. pc'[r] # "idle"
    BY <1>1 DEF Step, GetTripLog, Reread, Claim, Store, MarkPublished, Conflict, ValidateFile,
                Publish, Fault, Crash, CosmosFails, ReplyLost, BlobFails, PublishFails,
                Continue, End, CoreInv, TypeOK
  <1>4. response[r] = "none"
    BY <1>1 DEF CoreInv, RequestInv, OneRequest, AnsweredAtEnd
  <1>5. response \in [Requests -> Responses]
    BY DEF CoreInv, TypeOK
  <1>6. \A answer \in Responses \ {"published", "already"} : HttpStatus[answer] # 200
    BY DEF HttpStatus, Responses
  <1>7. CASE GetTripLog(r)
    <2>1. /\ UNCHANGED log
          /\ \/ response'[r] \in {"not_found", "forbidden", "none"}
             \/ /\ response'[r] = "already"
                /\ log[Session(r)].status = "PUBLISHED" /\ log[Session(r)].user = call[r].user
      BY <1>4, <1>5, <1>7 DEF GetTripLog, AlreadyPublished, End, Continue, services
    <2> QED
      BY <1>1, <1>2, <1>3, <1>6, <2>1 DEF Responses
  <1>8. CASE MarkPublished(r)
    BY <1>1, <1>2, <1>3, <1>5, <1>8 DEF MarkPublished, End
  <1>9. CASE Reread(r) \/ Claim(r) \/ Store(r) \/ Conflict(r) \/ Publish(r)
             \/ (\E f \in Sources : ValidateFile(r, f))
    <2>1. response'[r] \in {"none", "invalid", "conflict"}
      BY <1>4, <1>5, <1>9
         DEF Reread, Claim, Store, Conflict, Publish, ValidateFile, End, Continue
    <2> QED
      BY <1>1, <1>2, <1>3, <1>6, <2>1 DEF Responses
  <1>10. CASE Fault(r)
    <2>1. response'[r] \in {"crashed", "error", "unavailable"}
      BY <1>5, <1>10 DEF Fault, Crash, CosmosFails, ReplyLost, BlobFails, PublishFails, End
    <2> QED
      BY <1>1, <1>2, <1>3, <1>6, <2>1 DEF Responses
  <1> QED
    BY <1>1, <1>2, <1>3, <1>7, <1>8, <1>9, <1>10 DEF Step

\* A request's step leaves the documents of acknowledged requests alone.
LEMMA AnswersStand ==
  ASSUME IInv, NEW r \in Requests, Step(r) \/ Fault(r)
  PROVE  AcknowledgedIsPublished' /\ OneWinner' /\ CoherentTripLog'
  <1> USE DEF IInv
  <1>1. \A s \in Sessions : log[s].status = "PUBLISHED" => log'[s] = log[s]
    BY Answers, PublishedKept
  <1>2. ASSUME NEW q \in Requests \ {r}, HttpStatus[response'[q]] = 200
        PROVE  /\ response'[q] = response[q]
               /\ log[Session(q)].status = "PUBLISHED"
               /\ log'[Session(q)] = log[Session(q)] /\ log[Session(q)].user = call[q].user
    <2>1. response'[q] = response[q]
      BY Answers
    <2>2. log[Session(q)].status = "PUBLISHED" /\ log[Session(q)].user = call[q].user
      BY <1>2, <2>1 DEF AcknowledgedIsPublished
    <2>3. pc[q] = "done"
      BY <1>2, <2>1 DEF CoreInv, RequestInv, OneRequest, AnsweredAtEnd, HttpStatus
    <2> QED
      BY <1>1, <2>1, <2>2, <2>3, CallFacts DEF CoreInv
  <1>3. AcknowledgedIsPublished'
    <2>1. ASSUME HttpStatus[response'[r]] = 200
          PROVE  log'[Session(r)].status = "PUBLISHED" /\ log'[Session(r)].user = call[r].user
      BY <2>1, Answers, UpdatedFields, ReplaceFacts
    <2> QED
      BY <1>2, <2>1, Answers DEF AcknowledgedIsPublished, Session
  <1>4. OneWinner'
    <2>1. ASSUME NEW q \in Requests \ {r}, response'[q] = "published", response'[r] = "published"
          PROVE  Session(q) # Session(r)
      <3>1. log[Session(q)].status = "PUBLISHED"
        BY <1>2, <2>1 DEF HttpStatus
      <3>2. Replace(r)
        BY <2>1, Answers DEF HttpStatus
      <3> QED
        BY <3>1, <3>2, ReplaceFacts
    <2>2. \A q \in Requests : Session(q)' = Session(q)
      BY Answers DEF Session
    <2>3. \A q \in Requests \ {r} : response'[q] = response[q]
      BY Answers
    <2> QED
      BY <2>1, <2>2, <2>3 DEF OneWinner
  <1>5. CoherentTripLog'
    <2>1. ASSUME NEW s \in Sessions, log'[s] # log[s], log'[s].status = "FAILED"
          PROVE  log'[s].validation_status = "FAILED"
      <3>1. Replace(r)
        BY <2>1, Answers
      <3>2. s = Session(r)
        BY <2>1, <3>1, ReplaceFacts DEF CoreInv, TypeOK
      <3>3. pc[r] \in Updating
        BY <3>1 DEF Replace
      <3> QED
        BY <2>1, <3>1, <3>2, <3>3, UpdatedFields DEF Updating
    <2>2. CoreInv'
      BY InvStep, InvFault, InvType, TypeNext DEF Next
    <2> QED
      BY <2>1, <2>2 DEF CoreInv, CoherentVerdict, CoherentTripLog
  <1> QED
    BY <1>3, <1>4, <1>5

\* Neither does what clients do.
LEMMA ClientsStand ==
  ASSUME IInv, Client
  PROVE  AcknowledgedIsPublished' /\ OneWinner' /\ CoherentTripLog'
  <1> USE DEF IInv
  <1>1. \A r \in Requests : HttpStatus[response[r]] = 200 => pc[r] = "done" /\ Session(r) \in Sessions
    BY CallFacts DEF CoreInv, RequestInv, OneRequest, AnsweredAtEnd, HttpStatus
  <1>2. UNCHANGED response /\ \A r \in Requests : pc[r] # "idle" => call'[r] = call[r]
    BY DEF Client, CreateSession, PutBlob, ExpireSas, Arrive, requests, CoreInv, TypeOK
  <1>3. \A s \in Sessions :
          \/ log'[s] = log[s]
          \/ log[s] = NoLog /\ log'[s].status = "RECEIVED"
    BY DEF Client, CreateSession, NewTripLog, NoLog, PutBlob, ExpireSas, Arrive, services, CoreInv,
           TypeOK
  <1>4. AcknowledgedIsPublished'
    <2>1. ASSUME NEW r \in Requests, HttpStatus[response[r]] = 200
          PROVE  log'[Session(r)] = log[Session(r)] /\ call'[r] = call[r]
      BY <1>1, <1>2, <1>3, <2>1 DEF AcknowledgedIsPublished, NoLog
    <2> QED
      BY <1>2, <2>1 DEF AcknowledgedIsPublished, Session
  <1>5. OneWinner'
    BY <1>1, <1>2 DEF OneWinner, Session, HttpStatus
  <1>6. CoherentTripLog'
    <2>1. CoreInv'
      BY InvClient, InvType, TypeNext DEF Next
    <2> QED
      BY <1>3, <2>1 DEF CoreInv, CoherentVerdict, CoherentTripLog
  <1> QED
    BY <1>4, <1>5, <1>6

\* The inductive invariant holds throughout.
THEOREM Invariance == Spec => []IInv
  <1>1. Init => IInv
    <2>1. Init => AcknowledgedIsPublished /\ OneWinner /\ CoherentTripLog
      BY NoneAssumption
      DEF Init, NoLog, AcknowledgedIsPublished, OneWinner, CoherentTripLog, HttpStatus
    <2> QED
      BY <2>1, InvInit DEF IInv
  <1>2. IInv /\ [Next]_vars => IInv'
    <2> SUFFICES ASSUME IInv, [Next]_vars PROVE IInv'
      OBVIOUS
    <2>1. CoreInv'
      BY InvNext DEF IInv
    <2>2. CASE UNCHANGED vars
      <3>1. AcknowledgedIsPublished' /\ OneWinner' /\ CoherentTripLog'
        BY <2>2 DEF vars, services, requests, IInv, AcknowledgedIsPublished, OneWinner,
                    CoherentTripLog, Session
      <3> QED
        BY <2>1, <3>1 DEF IInv
    <2> QED
      BY <2>1, <2>2, AnswersStand, ClientsStand DEF IInv, Next
  <1> QED
    BY <1>1, <1>2, PTL DEF Spec

-----------------------------------------------------------------------------
\* What follows from it

LEMMA CoreInvariance == Spec => []CoreInv
  <1>1. IInv => CoreInv
    BY DEF IInv
  <1> QED
    BY <1>1, Invariance, PTL

\* A log that says PUBLISHED has its event in the hub, with its sources.
THEOREM PublishedHasEventAlways == Spec => []PublishedHasEvent
  <1>1. CoreInv => PublishedHasEvent
    BY DEF CoreInv
  <1> QED
    BY <1>1, CoreInvariance, PTL

\* HTTP 200 is given only to the owner of a session that is, and stays,
\* PUBLISHED.
THEOREM AcknowledgedIsPublishedAlways == Spec => []AcknowledgedIsPublished
  <1>1. IInv => AcknowledgedIsPublished
    BY DEF IInv
  <1> QED
    BY <1>1, Invariance, PTL

\* Every event announces a verdict stored before it, for the owner's session.
THEOREM EventsAreBackedAlways == Spec => []EventsAreBacked
  <1>1. CoreInv => EventsAreBacked
    BY DEF CoreInv
  <1> QED
    BY <1>1, CoreInvariance, PTL

\* The fields of a trip log agree with each other.
THEOREM CoherentTripLogAlways == Spec => []CoherentTripLog
  <1>1. IInv => CoherentTripLog
    BY DEF IInv
  <1> QED
    BY <1>1, Invariance, PTL

\* At most one request per session is told it published it.
THEOREM OneWinnerAlways == Spec => []OneWinner
  <1>1. IInv => OneWinner
    BY DEF IInv
  <1> QED
    BY <1>1, Invariance, PTL

\* Only a replace, or the creation of the session, changes a document.
LEMMA LogChanges ==
  ASSUME CoreInv, Next, NEW s \in Sessions, log'[s] # log[s]
  PROVE  \/ log[s] = NoLog
         \/ \E r \in Requests : Replace(r) /\ s = Session(r)
  <1>1. CASE Client
    BY <1>1 DEF Client, CreateSession, PutBlob, ExpireSas, Arrive, services, CoreInv, TypeOK
  <1>2. ASSUME NEW r \in Requests, Step(r) \/ Fault(r)
        PROVE  Replace(r) /\ s = Session(r)
    <2>1. Replace(r)
      BY <1>2 DEF Step, GetTripLog, Reread, Claim, Store, MarkPublished, Conflict, ValidateFile,
                  Publish, Fault, Crash, CosmosFails, ReplyLost, BlobFails, PublishFails, services
    <2> QED
      BY <2>1, ReplaceFacts DEF CoreInv, TypeOK
  <1> QED
    BY <1>1, <1>2 DEF Next

\* A PUBLISHED log is never written again.
THEOREM PublishedIsFinalAlways == Spec => PublishedIsFinal
  <1>1. CoreInv /\ [Next]_vars =>
          [\A s \in Sessions : log[s].status = "PUBLISHED" => log'[s] = log[s]]_vars
    <2> SUFFICES ASSUME CoreInv, Next, NEW s \in Sessions, log[s].status = "PUBLISHED"
                 PROVE  log'[s] = log[s]
      OBVIOUS
    <2>1. log[s] # NoLog
      BY DEF NoLog
    <2> QED
      BY <2>1, LogChanges, PublishedKept
  <1> QED
    BY <1>1, CoreInvariance, PTL DEF Spec, PublishedIsFinal

\* A write without a verdict of its own keeps the stored one.
THEOREM NoLostUpdateAlways == Spec => NoLostUpdate
  <1>1. CoreInv /\ [Next]_vars =>
          [\A s \in Sessions :
             log[s] # log'[s] /\ log[s] # NoLog /\ log'[s].status \in {"VALIDATING", "PUBLISHED"}
               => /\ log'[s].validation_status = log[s].validation_status
                  /\ log'[s].event_id = log[s].event_id
                  /\ log'[s].exists = log[s].exists]_vars
    <2> SUFFICES ASSUME CoreInv, Next, NEW s \in Sessions, log[s] # log'[s], log[s] # NoLog,
                        log'[s].status \in {"VALIDATING", "PUBLISHED"}
                 PROVE  /\ log'[s].validation_status = log[s].validation_status
                        /\ log'[s].event_id = log[s].event_id
                        /\ log'[s].exists = log[s].exists
      OBVIOUS
    <2>1. PICK r \in Requests : Replace(r) /\ s = Session(r)
      BY LogChanges
    <2>2. pc[r] \in Updating
      BY <2>1 DEF Replace
    <2>3. pc[r] # "store"
      BY <2>1, UpdatedFields DEF Verdict
    <2> QED
      BY <2>1, <2>2, <2>3, UpdatedFields DEF Updating
  <1> QED
    BY <1>1, CoreInvariance, PTL DEF Spec, NoLostUpdate

-----------------------------------------------------------------------------
\* The detailed protocol implements the lifecycle

LEMMA LifecycleInit == Init => Lifecycle!Init
  BY DEF Init, NoLog, Lifecycle!Init

\* Steps that touch neither document, verdict nor hub.
LEMMA LifecycleStutter ==
  ASSUME UNCHANGED <<log, hub, validated>>
  PROVE  UNCHANGED Lifecycle!vars
  BY DEF Lifecycle!vars

LEMMA LifecycleOpen ==
  ASSUME CoreInv, NEW s \in Sessions, NEW u \in Users, CreateSession(s, u)
  PROVE  Lifecycle!Next
  <1>1. /\ log[s] = NoLog /\ log' = [log EXCEPT ![s] = NewTripLog(u)]
        /\ UNCHANGED <<hub, validated>>
    BY DEF CreateSession
  <1>2. log \in [Sessions -> TripLogs]
    BY DEF CoreInv, TypeOK
  <1>3. NewTripLog(u).status = "RECEIVED" /\ NewTripLog(u).exists = NoLog.exists
    BY DEF NewTripLog, NoLog
  <1>4. /\ [t \in Sessions |-> log'[t].status] =
             [[t \in Sessions |-> log[t].status] EXCEPT ![s] = "RECEIVED"]
        /\ [t \in Sessions |-> log'[t].exists] = [t \in Sessions |-> log[t].exists]
    BY <1>1, <1>2, <1>3
  <1>5. Lifecycle!Open(s)
    BY <1>1, <1>4 DEF Lifecycle!Open, NoLog
  <1> QED
    BY <1>5 DEF Lifecycle!Next

LEMMA LifecycleEmit ==
  ASSUME CoreInv, NEW r \in Requests, pc[r] = "publish", hub' = hub \cup {Event(r)},
         UNCHANGED <<log, validated>>
  PROVE  Lifecycle!Next
  <1>1. Session(r) \in Sessions /\ valid[r] \in SUBSET Sources
    BY CallFacts DEF CoreInv, TypeOK
  <1>2. PICK s \in Sessions, S \in SUBSET Sources : s = Session(r) /\ S = valid[r]
    BY <1>1
  <1>3. <<s, S>> \in validated
    BY <1>2 DEF CoreInv, RequestInv, OneRequest, PublisherHasVerdict
  <1>4. Event(r).session = s /\ Event(r).sources = S
    BY <1>2 DEF Event
  <1>5. {<<e.session, e.sources>> : e \in hub'} =
          {<<e.session, e.sources>> : e \in hub} \cup {<<s, S>>}
    BY <1>4
  <1>6. Lifecycle!Emit(s, S)
    BY <1>3, <1>5 DEF Lifecycle!Emit
  <1> QED
    BY <1>6 DEF Lifecycle!Next

LEMMA LifecycleReplace ==
  ASSUME CoreInv, NEW r \in Requests, Replace(r)
  PROVE  Lifecycle!Next
  <1>0. PICK s \in Sessions : s = Session(r)
    BY ReplaceFacts
  <1> DEFINE new == log'[s]
  <1>1. /\ s = Session(r) /\ UNCHANGED hub
        /\ log \in [Sessions -> TripLogs]
        /\ \A t \in Sessions \ {s} : log'[t] = log[t]
        /\ log[s].status \in Statuses \ {"PUBLISHED"}
    BY <1>0, ReplaceFacts DEF CoreInv, TypeOK
  <1>2. log[s].status # "ABSENT"
    <2>1. OneRequest(r) /\ pc[r] \in Updating /\ log[s] # NoLog /\ log[s].user = call[r].user
      BY <1>1, ReplaceFacts DEF CoreInv, RequestInv, Replace
    <2> QED
      BY <1>1, <2>1 DEF CoreInv, EtagsCount
  <1>3. /\ [t \in Sessions |-> log'[t].status] =
             [[t \in Sessions |-> log[t].status] EXCEPT ![s] = new.status]
        /\ [t \in Sessions |-> log'[t].exists] =
             [[t \in Sessions |-> log[t].exists] EXCEPT ![s] = new.exists]
    BY <1>1
  <1>4. new.exists = log[s].exists =>
          [t \in Sessions |-> log'[t].exists] = [t \in Sessions |-> log[t].exists]
    BY <1>1
  <1>5. /\ new.status = Updated(r).status /\ new.exists = Updated(r).exists
        /\ validated' = IF new.status = "VALIDATED"
                        THEN validated \cup {<<s, new.exists>>} ELSE validated
    <2>1. Updated(r) \in TripLogs
      BY UpdatedType DEF CoreInv, Replace
    <2>2. new = [Updated(r) EXCEPT !.etag = log[s].etag + 1]
      BY <1>1, ReplaceFacts
    <2>3. new.status = Updated(r).status /\ new.exists = Updated(r).exists
      BY <2>1, <2>2 DEF TripLogs
    <2> QED
      BY <1>1, <2>3 DEF Replace
  <1>6. CASE pc[r] = "claim"
    <2>1. new.status = "VALIDATING" /\ new.exists = log[s].exists
      BY <1>1, <1>6, UpdatedFields
    <2>2. Lifecycle!Claim(s)
      BY <1>1, <1>2, <1>3, <1>4, <1>5, <2>1 DEF Lifecycle!Claim
    <2> QED
      BY <2>2 DEF Lifecycle!Next
  <1>7. CASE pc[r] = "store" /\ AllValid(r)
    <2>1. new.status = "VALIDATED" /\ new.exists = valid[r] /\ log[s].status = "VALIDATING"
      BY <1>1, <1>7, UpdatedFields, WriterKnows DEF Verdict
    <2>2. PICK S \in SUBSET Sources : S = valid[r] /\ S # {}
      BY <1>7, CallFacts DEF CoreInv, TypeOK, AllValid
    <2>3. Lifecycle!Accept(s, S)
      BY <1>1, <1>3, <1>5, <2>1, <2>2 DEF Lifecycle!Accept
    <2> QED
      BY <2>3 DEF Lifecycle!Next
  <1>8. CASE pc[r] = "store" /\ ~AllValid(r)
    <2>1. new.status = "FAILED" /\ new.exists = valid[r] /\ log[s].status = "VALIDATING"
      BY <1>1, <1>8, UpdatedFields, WriterKnows DEF Verdict
    <2>2. PICK S \in SUBSET Sources : S = valid[r]
      BY DEF CoreInv, TypeOK
    <2>3. Lifecycle!Reject(s, S)
      BY <1>1, <1>3, <1>5, <2>1, <2>2 DEF Lifecycle!Reject
    <2> QED
      BY <2>3 DEF Lifecycle!Next
  <1>9. CASE pc[r] = "mark"
    <2>1. new.status = "PUBLISHED" /\ new.exists = log[s].exists
      BY <1>1, <1>9, UpdatedFields
    <2>2. log[s].status = "VALIDATED" /\ log[s].exists = valid[r] /\ Event(r) \in hub
      BY <1>1, <1>9, WriterKnows
    <2>3. Event(r).session = s /\ Event(r).sources = valid[r]
      BY <1>1 DEF Event
    <2>4. <<s, log[s].exists>> \in {<<e.session, e.sources>> : e \in hub}
      BY <2>2, <2>3
    <2>5. Lifecycle!Publish(s)
      BY <1>1, <1>3, <1>4, <1>5, <2>1, <2>2, <2>4 DEF Lifecycle!Publish
    <2> QED
      BY <2>5 DEF Lifecycle!Next
  <1> QED
    BY <1>6, <1>7, <1>8, <1>9 DEF Replace, Updating

LEMMA LifecycleNext == CoreInv /\ [Next]_vars => [Lifecycle!Next]_(Lifecycle!vars)
  <1> SUFFICES ASSUME CoreInv, [Next]_vars
               PROVE  Lifecycle!Next \/ UNCHANGED Lifecycle!vars
    OBVIOUS
  <1>1. CASE Client
    BY <1>1, LifecycleOpen, LifecycleStutter
       DEF Client, PutBlob, ExpireSas, Arrive, requests, services
  <1>2. ASSUME NEW r \in Requests, Step(r)
        PROVE  Lifecycle!Next \/ UNCHANGED Lifecycle!vars
    BY <1>2, LifecycleReplace, LifecycleEmit, LifecycleStutter
       DEF Step, GetTripLog, Reread, Claim, Store, MarkPublished, Conflict, ValidateFile,
           Publish, services
  <1>3. ASSUME NEW r \in Requests, Fault(r)
        PROVE  Lifecycle!Next \/ UNCHANGED Lifecycle!vars
    BY <1>3, LifecycleReplace, LifecycleEmit, LifecycleStutter
       DEF Fault, Crash, CosmosFails, ReplyLost, BlobFails, PublishFails, services
  <1>4. CASE UNCHANGED vars
    BY <1>4, LifecycleStutter DEF vars
  <1> QED
    BY <1>1, <1>2, <1>3, <1>4 DEF Next

\* Whatever the interleaving and the faults, the trip logs and the hub behave
\* as the lifecycle allows.
THEOREM Implementation == Spec => RefinesLifecycle
  <1> QED
    BY LifecycleInit, LifecycleNext, CoreInvariance, PTL DEF Spec, Lifecycle!Spec, RefinesLifecycle
=============================================================================
