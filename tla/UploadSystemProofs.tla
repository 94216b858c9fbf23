------------------------- MODULE UploadSystemProofs -------------------------
(***************************************************************************)
(* What the composed system keeps of its parts: its session half is        *)
(* UploadSession, so that the theorems about that hold here; its other     *)
(* half takes steps of UploadComplete, as long as no two sessions share    *)
(* their paths; and what the workers downstream do takes no event away     *)
(* from those who were told 200.                                           *)
(***************************************************************************)
EXTENDS UploadSystem, TLAPS

\* S with its theorems.
P == INSTANCE UploadSessionProofs WITH
  pc <- phase, log <- record, response <- answer, Faults <- SessionFaults,
  landing <- {[path |-> b.path, writer |-> b.writer] : b \in store}

LEMMA TheirAssumptions ==
  /\ P!CallersAssumption /\ P!NoneAssumption /\ P!NumSourcesAssumption
  /\ P!TimeAssumption /\ P!FaultsAssumption
  BY SessionAssumption
  DEF P!CallersAssumption, P!NoneAssumption, P!NumSourcesAssumption, P!TimeAssumption,
      P!FaultsAssumption, S!CallersAssumption, S!NoneAssumption, S!NumSourcesAssumption,
      S!TimeAssumption, S!FaultsAssumption

-----------------------------------------------------------------------------
\* The session half

\* The session half of the system behaves as UploadSession does alone, also
\* the writing of blobs, whose contents it does not see.
THEOREM SessionsAsAlone == Spec => S!Spec
  <1>1. Init => S!Init
    BY DEF Init
  <1>2. [Next]_vars => [S!Next]_(S!vars)
    <2> SUFFICES ASSUME [Next]_vars PROVE [S!Next]_(S!vars)
      OBVIOUS
    <2>1. CASE Tick
      BY <2>1 DEF Tick, S!Next
    <2>2. ASSUME NEW s \in Sessions, Create(s)
          PROVE  S!Next
      <3>1. CASE \E c \in Callers : S!Arrive(s, c)
        BY <3>1 DEF S!Next
      <3>2. CASE S!FindContainer(s) \/ S!CreateContainer(s) \/ S!Stamp(s)
                 \/ (\E i \in Sources : S!GenerateSas(s, i)) \/ S!NewTripLog(s)
        <4>1. S!Step(s)
          BY <3>2 DEF S!Step, Sources, S!Sources
        <4> QED
          BY <4>1 DEF S!Next
      <3>3. CASE S!Crash(s) \/ S!ServiceFails(s)
        BY <3>3 DEF S!Next
      <3> QED
        BY <2>2, <3>1, <3>2, <3>3 DEF Create
    <2>3. ASSUME NEW s \in Sessions, CreateTripLog(s)
          PROVE  S!Next
      BY <2>3 DEF CreateTripLog, S!Next, S!Step
    <2>4. ASSUME NEW s \in Sessions, NEW i \in Sources, NEW content \in Contents,
                 PutBlob(s, i, content)
          PROVE  S!Next
      BY <2>4 DEF PutBlob, S!Next, Sources, S!Sources
    <2>5. CASE UNCHANGED <<creating, store>>
      BY <2>5 DEF creating, S!vars
    <2> QED
      BY <2>1, <2>2, <2>3, <2>4, <2>5 DEF Next, vars, Downstream, Complete, Arrive
  <1> QED
    BY <1>1, <1>2, PTL DEF Spec, S!Spec

\* S and P are the same specification.
LEMMA SameSpec == S!Spec => P!Spec
  <1>1. S!Init => P!Init
    BY DEF S!Init, P!Init, S!NoCaller, P!NoCaller, S!NoLog, P!NoLog, S!Sources, P!Sources
  <1>2. S!vars = P!vars /\ S!vars' = P!vars'
    BY DEF S!vars, P!vars
  <1>3. ASSUME NEW s \in Sessions, S!Step(s)
        PROVE  P!Step(s)
    <2>1. S!FindContainer(s) \/ S!CreateContainer(s) \/ S!Stamp(s)
            => P!FindContainer(s) \/ P!CreateContainer(s) \/ P!Stamp(s)
      BY DEF S!FindContainer, P!FindContainer, S!CreateContainer, P!CreateContainer,
             S!Stamp, P!Stamp, S!Continue, P!Continue, S!End, P!End
    <2>2. ASSUME NEW i \in S!Sources, S!GenerateSas(s, i)
          PROVE  i \in P!Sources /\ P!GenerateSas(s, i)
      BY <2>2 DEF S!GenerateSas, P!GenerateSas, S!AnnouncedExpiry, P!AnnouncedExpiry,
                  S!Continue, P!Continue, S!Sources, P!Sources
    <2>3. S!NewTripLog(s) => P!NewTripLog(s)
      BY DEF S!NewTripLog, P!NewTripLog, S!Continue, P!Continue
    <2>4. S!CreateTripLog(s) => P!CreateTripLog(s)
      BY DEF S!CreateTripLog, P!CreateTripLog, S!Created, P!Created, S!End, P!End,
             S!StoredPrefix, P!StoredPrefix, S!Prefix, P!Prefix, S!Joined, P!Joined,
             S!Day, P!Day
    <2> QED
      BY <1>3, <2>1, <2>2, <2>3, <2>4 DEF S!Step, P!Step
  <1>4. ASSUME NEW s \in Sessions, NEW i \in S!Sources, S!PutBlob(s, i)
        PROVE  i \in P!Sources /\ P!PutBlob(s, i)
    BY <1>4 DEF S!PutBlob, P!PutBlob, S!TargetPath, P!TargetPath, S!BlobPath, P!BlobPath,
                S!Prefix, P!Prefix, S!Joined, P!Joined, S!Day, P!Day, S!Sources, P!Sources
  <1>5. ASSUME NEW s \in Sessions
        PROVE  /\ \A c \in Callers : S!Arrive(s, c) => P!Arrive(s, c)
               /\ S!Crash(s) => P!Crash(s)
               /\ S!ServiceFails(s) => P!ServiceFails(s)
               /\ S!ReplyLost(s) => P!ReplyLost(s)
    BY DEF S!Arrive, P!Arrive, S!Continue, P!Continue, S!Crash, P!Crash, S!End, P!End,
           S!ServiceFails, P!ServiceFails, S!ReplyLost, P!ReplyLost, S!Created, P!Created,
           S!StoredPrefix, P!StoredPrefix, S!Prefix, P!Prefix, S!Joined, P!Joined,
           S!Day, P!Day
  <1>6. S!Tick => P!Tick
    BY DEF S!Tick, P!Tick
  <1>7. S!Next => P!Next
    BY <1>3, <1>4, <1>5, <1>6 DEF S!Next, P!Next
  <1>8. [S!Next]_(S!vars) => [P!Next]_(P!vars)
    BY <1>2, <1>7
  <1> QED
    BY <1>1, <1>8, PTL DEF S!Spec, P!Spec

\* The inductive invariant of session creation holds of the composed system.
LEMMA SessionInv == Spec => []P!IInv
  BY SessionsAsAlone, SameSpec, P!SessionInvariance, TheirAssumptions

\* What session creation promises survives the composition: the announced
\* expiry covers every SAS and cuts none off by more than the session took to
\* create, a session's lookup finds no blobs but its own or those of callers
\* who read the same, and every blob has a log.
THEOREM SessionsKeepPromises ==
  Spec => [](S!AnnouncedExpiryCoversSas /\ S!CutOffIsShort /\ S!FoundWhereUploaded
             /\ S!Isolation /\ S!BlobsHaveLogs)
  <1>1. Spec => [](P!AnnouncedExpiryCoversSas /\ P!CutOffIsShort /\ P!FoundWhereUploaded
                   /\ P!Isolation /\ P!BlobsHaveLogs)
    <2>1. Spec => P!Spec
      BY SessionsAsAlone, SameSpec
    <2>2. P!Spec => []P!AnnouncedExpiryCoversSas
      BY P!AnnouncedExpiryCoversSasAlways, TheirAssumptions
    <2>3. P!Spec => []P!CutOffIsShort
      BY P!CutOffIsShortAlways, TheirAssumptions
    <2>4. P!Spec => []P!FoundWhereUploaded
      BY P!FoundWhereUploadedAlways, TheirAssumptions
    <2>5. P!Spec => []P!Isolation
      BY P!IsolationAlways, TheirAssumptions
    <2>6. P!Spec => []P!BlobsHaveLogs
      BY P!BlobsHaveLogsAlways, TheirAssumptions
    <2> QED
      BY <2>1, <2>2, <2>3, <2>4, <2>5, <2>6, PTL
  <1>2. /\ P!AnnouncedExpiryCoversSas => S!AnnouncedExpiryCoversSas
        /\ P!CutOffIsShort => S!CutOffIsShort
        /\ P!FoundWhereUploaded => S!FoundWhereUploaded
        /\ P!Isolation => S!Isolation
        /\ P!BlobsHaveLogs => S!BlobsHaveLogs
    BY DEF P!AnnouncedExpiryCoversSas, S!AnnouncedExpiryCoversSas, P!CutOffIsShort,
           S!CutOffIsShort, P!FoundWhereUploaded, S!FoundWhereUploaded, P!Isolation,
           S!Isolation, P!BlobsHaveLogs, S!BlobsHaveLogs, P!Sources, S!Sources,
           P!LookupPath, S!LookupPath, P!BlobPath, S!BlobPath, P!Day, S!Day, P!Joined,
           S!Joined, P!NoLog, S!NoLog, P!NoCaller, S!NoCaller
  <1> QED
    BY <1>1, <1>2, PTL

\* In the composed system, too, storage accepts no write but those a client
\* was told it may make, whoever completes and overwrites what meanwhile.
THEOREM SystemImplementsGrants == Spec => P!RefinesGrants
  <1>1. Spec => P!Spec
    BY SessionsAsAlone, SameSpec
  <1> QED
    BY <1>1, P!SessionImplementsGrants, TheirAssumptions

-----------------------------------------------------------------------------
\* The trip logs

Docs == [user : Users \cup {None}, status : C!Statuses \cup WorkerStatuses,
         validation_status : {None, "VALIDATED", "FAILED"},
         event_id : {C!EventId(s) : s \in Sessions} \cup {None},
         exists : SUBSET Sources, etag : Nat]

\* An event of the session is out, to its owner's name.
Announced(s, user) == \E e \in hub : e.session = s /\ e.user = user

DocTypes ==
  /\ log \in [Sessions -> Docs]
  /\ pc \in [Requests -> C!Phases]
  /\ call \in [Requests -> C!Calls \cup {C!NoCall}]
  /\ trip_log \in [Requests -> Docs]
  /\ existing \in [Requests -> Docs]
  /\ valid \in [Requests -> SUBSET Sources]
  /\ response \in [Requests -> C!Responses]

\* Both halves of a document come to be at once, and keep its owner.
Halves ==
  \A s \in Sessions :
    /\ log[s] = C!NoLog <=> record[s] = S!NoLog
    /\ log[s] # C!NoLog => log[s].user = record[s].owner.user

Asked(r) ==
  /\ pc[r] = "idle" => existing[r] = C!NoLog
  /\ pc[r] # "idle" => call[r] \in C!Calls
  /\ pc[r] # "done" => response[r] = "none"

\* What a request holds of a document is its owner's, and so is the caller's.
Owning(r) ==
  LET doc == log[C!Session(r)] IN
  /\ existing[r] # C!NoLog => doc # C!NoLog /\ existing[r].user = doc.user
  /\ pc[r] \in {"claim", "validate", "store", "publish", "mark"}
       => doc # C!NoLog /\ doc.user = call[r].user /\ trip_log[r].user = call[r].user

Told(r) ==
  pc[r] = "mark" \/ response[r] \in {"published", "already"}
    => Announced(C!Session(r), call[r].user)

PublishedAnnounced ==
  \A s \in Sessions : log[s].status = "PUBLISHED" => Announced(s, log[s].user)

DocInv ==
  /\ DocTypes /\ Halves /\ PublishedAnnounced
  /\ \A r \in Requests : Asked(r) /\ Owning(r) /\ Told(r)

\* A step keeps documents and owners, and takes no event back.
Keeps ==
  /\ hub \subseteq hub'
  /\ \A s \in Sessions :
       log[s] # C!NoLog => log'[s] # C!NoLog /\ log'[s].user = log[s].user

LEMMA NoLogIsDoc == C!NoLog \in Docs
  BY DEF C!NoLog, Docs, C!Statuses

LEMMA CallOf ==
  ASSUME DocInv, NEW r \in Requests, pc[r] # "idle"
  PROVE  C!Session(r) \in Sessions /\ call[r].user \in Users
  <1>1. call[r] \in C!Calls
    BY DEF DocInv, Asked
  <1> QED
    BY <1>1 DEF C!Calls, C!Session

LEMMA DocInit == Init => DocInv
  <1> SUFFICES ASSUME Init PROVE DocInv
    OBVIOUS
  <1>1. DocTypes
    BY NoLogIsDoc DEF Init, C!Init, DocTypes, C!Phases, C!Responses
  <1>2. Halves
    BY DEF Init, C!Init, S!Init, Halves
  <1>3. PublishedAnnounced
    BY DEF Init, C!Init, PublishedAnnounced, C!NoLog
  <1>4. ASSUME NEW r \in Requests PROVE Asked(r) /\ Owning(r) /\ Told(r)
    BY DEF Init, C!Init, Asked, Owning, Told
  <1> QED
    BY <1>1, <1>2, <1>3, <1>4 DEF DocInv

\* A request that does nothing knows as much after the step as before.
LEMMA OthersKeep ==
  ASSUME DocInv, Keeps, NEW q \in Requests,
         UNCHANGED <<pc[q], call[q], trip_log[q], existing[q], response[q]>>
  PROVE  (Asked(q) /\ Owning(q) /\ Told(q))'
  <1>1. Asked(q) /\ Owning(q) /\ Told(q)
    BY DEF DocInv
  <1>2. Asked(q)'
    BY <1>1 DEF Asked
  <1>3. UNCHANGED C!Session(q)
    BY DEF C!Session
  <1>4. Owning(q)'
    <2>1. CASE pc[q] = "idle"
      BY <1>1, <2>1 DEF Owning, Asked
    <2>2. CASE pc[q] # "idle"
      BY <1>1, <1>3, <2>2, CallOf DEF Owning, Keeps
    <2> QED
      BY <2>1, <2>2
  <1>5. Told(q)'
    BY <1>1, <1>3 DEF Told, Keeps, Announced
  <1> QED
    BY <1>2, <1>4, <1>5

\* A step of a request that leaves the documents alone.
LEMMA QuietStep ==
  ASSUME DocInv, NEW r \in Requests, UNCHANGED <<log, record, call>>, hub \subseteq hub',
         DocTypes',
         \A q \in Requests \ {r} :
           UNCHANGED <<pc[q], trip_log[q], existing[q], response[q]>>,
         (Asked(r) /\ Owning(r) /\ Told(r))'
  PROVE  DocInv'
  <1>1. Keeps
    BY DEF Keeps
  <1>2. Halves' /\ PublishedAnnounced'
    BY DEF DocInv, Halves, PublishedAnnounced, Announced
  <1>3. \A q \in Requests \ {r} : (Asked(q) /\ Owning(q) /\ Told(q))'
    BY <1>1, OthersKeep
  <1> QED
    BY <1>2, <1>3 DEF DocInv

LEMMA DocGet ==
  ASSUME DocInv, NEW r \in Requests, UNCHANGED record, C!GetTripLog(r) PROVE DocInv'
  <1> DEFINE doc == log[C!Session(r)]
  <1>1. /\ pc[r] = "get" /\ call[r] \in C!Calls /\ C!Session(r) \in Sessions
        /\ UNCHANGED <<log, hub, call, existing, valid>>
        /\ trip_log' = [trip_log EXCEPT ![r] = doc]
    BY CallOf DEF C!GetTripLog, C!services, DocInv, Asked
  <1>2. /\ pc' = [pc EXCEPT ![r] = pc'[r]] /\ pc'[r] \in {"claim", "done"}
        /\ response' = [response EXCEPT ![r] = response'[r]]
        /\ response'[r] \in {"none", "not_found", "forbidden", "already"}
        /\ pc'[r] # "done" => response'[r] = "none"
        /\ pc'[r] = "claim" => doc # C!NoLog /\ doc.user = call[r].user
        /\ response'[r] = "already" => doc.user = call[r].user /\ doc.status = "PUBLISHED"
    BY <1>1 DEF C!GetTripLog, C!Continue, C!End, C!AlreadyPublished, DocInv, DocTypes, Asked
  <1>3. DocTypes'
    BY <1>1, <1>2 DEF DocInv, DocTypes, C!Phases, C!Responses
  <1>4. UNCHANGED C!Session(r)
    BY <1>1 DEF C!Session
  <1>5. Asked(r)'
    BY <1>1, <1>2 DEF DocInv, DocTypes, Asked
  <1>6. Owning(r)'
    BY <1>1, <1>2, <1>4 DEF DocInv, DocTypes, Owning
  <1>7. Told(r)'
    BY <1>1, <1>2, <1>4 DEF DocInv, Told, PublishedAnnounced, Announced
  <1>8. \A q \in Requests \ {r} : UNCHANGED <<pc[q], trip_log[q], existing[q], response[q]>>
    BY <1>1, <1>2 DEF DocInv, DocTypes
  <1> QED
    BY <1>1, <1>3, <1>5, <1>6, <1>7, <1>8, QuietStep

LEMMA DocReread ==
  ASSUME DocInv, NEW r \in Requests, UNCHANGED record, C!Reread(r) PROVE DocInv'
  <1>1. /\ pc[r] \in C!Updating /\ C!Session(r) \in Sessions
        /\ UNCHANGED <<log, hub, pc, call, trip_log, valid, response>>
        /\ existing' = [existing EXCEPT ![r] = log[C!Session(r)]]
    BY CallOf DEF C!Reread, C!services, C!Updating
  <1>2. DocTypes'
    BY <1>1 DEF DocInv, DocTypes
  <1>3. UNCHANGED C!Session(r)
    BY <1>1 DEF C!Session
  <1>4. Asked(r)' /\ Told(r)'
    BY <1>1, <1>3 DEF DocInv, Asked, Told, Announced, C!Updating
  <1>5. Owning(r)'
    BY <1>1, <1>3 DEF DocInv, DocTypes, Owning, C!Updating
  <1>6. \A q \in Requests \ {r} : UNCHANGED <<pc[q], trip_log[q], existing[q], response[q]>>
    BY <1>1 DEF DocInv, DocTypes
  <1> QED
    BY <1>1, <1>2, <1>4, <1>5, <1>6, QuietStep

\* Ends without a verdict, and the validation of a file.
LEMMA DocMoves ==
  ASSUME DocInv, NEW r \in Requests, UNCHANGED record,
         \/ C!Conflict(r) \/ C!Crash(r) \/ C!CosmosFails(r) \/ C!BlobFails(r)
         \/ \E f \in Sources : C!ValidateFile(r, f)
  PROVE  DocInv'
  <1>1. UNCHANGED <<log, hub, call, trip_log, existing>>
    BY DEF C!Conflict, C!Crash, C!CosmosFails, C!BlobFails, C!ValidateFile, C!services
  <1>2. /\ pc' = [pc EXCEPT ![r] = pc'[r]] /\ pc[r] # "idle"
        /\ response' = [response EXCEPT ![r] = response'[r]]
        /\ \/ /\ pc'[r] = "done"
              /\ response'[r] \in {"conflict", "crashed", "unavailable", "error"}
           \/ /\ pc[r] = "validate" /\ pc'[r] \in {"validate", "store"}
              /\ response'[r] = response[r]
    BY DEF C!Conflict, C!Crash, C!CosmosFails, C!BlobFails, C!ValidateFile, C!Continue,
           C!End, C!Updating, DocInv, DocTypes
  <1>3. valid' \in [Requests -> SUBSET Sources]
    BY DEF C!Conflict, C!Crash, C!CosmosFails, C!BlobFails, C!ValidateFile, DocInv, DocTypes
  <1>4. DocTypes'
    BY <1>1, <1>2, <1>3 DEF DocInv, DocTypes, C!Phases, C!Responses
  <1>5. UNCHANGED C!Session(r)
    BY <1>1 DEF C!Session
  <1>6. Asked(r)' /\ Owning(r)' /\ Told(r)'
    BY <1>1, <1>2, <1>5 DEF DocInv, DocTypes, Asked, Owning, Told
  <1>7. \A q \in Requests \ {r} : UNCHANGED <<pc[q], trip_log[q], existing[q], response[q]>>
    BY <1>1, <1>2 DEF DocInv, DocTypes
  <1> QED
    BY <1>1, <1>4, <1>6, <1>7, QuietStep

LEMMA DocPublish ==
  ASSUME DocInv, NEW r \in Requests, UNCHANGED record, C!Publish(r) \/ C!PublishFails(r)
  PROVE  DocInv'
  <1>1. /\ UNCHANGED <<log, call, trip_log, existing, valid>> /\ pc[r] = "publish"
        /\ hub \subseteq hub'
    BY DEF C!Publish, C!PublishFails
  <1>2. /\ pc' = [pc EXCEPT ![r] = pc'[r]]
        /\ response' = [response EXCEPT ![r] = response'[r]]
        /\ \/ /\ pc'[r] = "done" /\ response'[r] \in {"unavailable", "error"}
           \/ /\ pc'[r] = "mark" /\ response'[r] = response[r] /\ C!Event(r) \in hub'
    BY DEF C!Publish, C!PublishFails, C!Continue, C!End, DocInv, DocTypes
  <1>3. DocTypes'
    BY <1>1, <1>2 DEF DocInv, DocTypes, C!Phases, C!Responses
  <1>4. UNCHANGED C!Session(r)
    BY <1>1 DEF C!Session
  <1>5. C!Event(r).session = C!Session(r) /\ C!Event(r).user = call[r].user
    BY <1>1 DEF C!Event, DocInv, Owning
  <1>6. Asked(r)' /\ Owning(r)'
    BY <1>1, <1>2, <1>4 DEF DocInv, DocTypes, Asked, Owning
  <1>7. Told(r)'
    BY <1>1, <1>2, <1>4, <1>5 DEF DocInv, DocTypes, Asked, Told, Announced
  <1>8. \A q \in Requests \ {r} : UNCHANGED <<pc[q], trip_log[q], existing[q], response[q]>>
    BY <1>1, <1>2 DEF DocInv, DocTypes
  <1> QED
    BY <1>1, <1>3, <1>6, <1>7, <1>8, QuietStep

\* What an accepted replace stores.
LEMMA DocReplaced ==
  ASSUME DocInv, NEW r \in Requests, C!Replace(r)
  PROVE  LET s == C!Session(r) IN
         /\ s \in Sessions /\ pc[r] \in {"claim", "store", "mark"} /\ UNCHANGED hub
         /\ log' = [log EXCEPT ![s] = log'[s]]
         /\ log[s] # C!NoLog /\ log'[s] \in Docs /\ log'[s] # C!NoLog
         /\ log'[s].user = log[s].user /\ log[s].user = call[r].user
         /\ log'[s].status = "PUBLISHED" <=> pc[r] = "mark"
         /\ log'[s].etag = log[s].etag + 1
  <1> DEFINE s == C!Session(r)
  <1>1. /\ pc[r] \in {"claim", "store", "mark"} /\ existing[r] # C!NoLog /\ UNCHANGED hub
        /\ log' = [log EXCEPT ![s] = [C!Updated(r) EXCEPT !.etag = log[s].etag + 1]]
    BY DEF C!Replace, C!Updating
  <1>2. s \in Sessions /\ log[s] \in Docs /\ existing[r] \in Docs
        /\ valid[r] \in SUBSET Sources
    BY <1>1, CallOf DEF DocInv, DocTypes
  <1>3. log[s] # C!NoLog /\ existing[r].user = log[s].user /\ log[s].user = call[r].user
    BY <1>1 DEF DocInv, Owning
  <1>4. /\ C!Updated(r) \in Docs /\ C!Updated(r).user = existing[r].user
        /\ C!Updated(r).status # "ABSENT"
        /\ C!Updated(r).status = "PUBLISHED" <=> pc[r] = "mark"
    <2>1. C!Verdict(r) \in {"VALIDATED", "FAILED"} /\ C!EventId(s) \in {C!EventId(t) : t \in Sessions}
      BY <1>2 DEF C!Verdict
    <2>2. CASE pc[r] = "claim"
      BY <1>2, <2>2 DEF C!Updated, Docs, C!Statuses
    <2>3. CASE pc[r] = "store"
      BY <1>2, <2>1, <2>3 DEF C!Updated, Docs, C!Statuses
    <2>4. CASE pc[r] = "mark"
      BY <1>2, <2>4 DEF C!Updated, Docs, C!Statuses
    <2> QED
      BY <1>1, <2>2, <2>3, <2>4
  <1>5. log'[s] = [C!Updated(r) EXCEPT !.etag = log[s].etag + 1]
    BY <1>1, <1>2 DEF DocInv, DocTypes
  <1>6. /\ log'[s] \in Docs /\ log'[s].user = C!Updated(r).user
        /\ log'[s].status = C!Updated(r).status
        /\ log'[s].etag = log[s].etag + 1
    BY <1>2, <1>4, <1>5 DEF Docs
  <1>7. log'[s] # C!NoLog
    BY <1>4, <1>6 DEF C!NoLog
  <1> QED
    BY <1>1, <1>2, <1>3, <1>4, <1>5, <1>6, <1>7

LEMMA DocReplace ==
  ASSUME DocInv, NEW r \in Requests, UNCHANGED record,
         C!Claim(r) \/ C!Store(r) \/ C!MarkPublished(r) \/ C!ReplyLost(r)
  PROVE  DocInv'
  <1> DEFINE s == C!Session(r)
  <1>1. C!Replace(r) /\ UNCHANGED <<call, trip_log, valid>>
    BY DEF C!Claim, C!Store, C!MarkPublished, C!ReplyLost, C!Returned
  <1>2. /\ s \in Sessions /\ pc[r] \in {"claim", "store", "mark"} /\ UNCHANGED hub
        /\ log' = [log EXCEPT ![s] = log'[s]]
        /\ log[s] # C!NoLog /\ log'[s] \in Docs /\ log'[s] # C!NoLog
        /\ log'[s].user = log[s].user /\ log[s].user = call[r].user
        /\ log'[s].status = "PUBLISHED" => pc[r] = "mark"
    BY <1>1, DocReplaced
  <1>3. /\ pc' = [pc EXCEPT ![r] = pc'[r]]
        /\ response' = [response EXCEPT ![r] = response'[r]]
        /\ existing' = [existing EXCEPT ![r] = existing'[r]]
        /\ existing'[r] \in {C!NoLog, existing[r]}
        /\ \/ pc'[r] \in {"validate", "publish"} /\ response'[r] = response[r]
           \/ pc'[r] = "done" /\ response'[r] \in {"invalid", "unavailable", "error"}
           \/ pc[r] = "mark" /\ pc'[r] = "done" /\ response'[r] = "published"
    BY DEF C!Claim, C!Store, C!MarkPublished, C!ReplyLost, C!Returned, C!Continue, C!End,
           DocInv, DocTypes
  <1>4. DocTypes'
    BY <1>1, <1>2, <1>3, NoLogIsDoc DEF DocInv, DocTypes, C!Phases, C!Responses
  <1>5. Keeps
    BY <1>2 DEF Keeps, DocInv, DocTypes
  <1>6. \A q \in Requests \ {r} : (Asked(q) /\ Owning(q) /\ Told(q))'
    <2>1. \A q \in Requests \ {r} :
            UNCHANGED <<pc[q], call[q], trip_log[q], existing[q], response[q]>>
      BY <1>1, <1>3 DEF DocInv, DocTypes
    <2> QED
      BY <1>5, <2>1, OthersKeep
  <1>7. UNCHANGED s
    BY <1>1 DEF C!Session
  <1>8. Asked(r)'
    BY <1>1, <1>2, <1>3 DEF DocInv, DocTypes, Asked
  <1>9. Owning(r)'
    BY <1>1, <1>2, <1>3, <1>7 DEF DocInv, DocTypes, Owning
  <1>10. Told(r)'
    BY <1>1, <1>2, <1>3, <1>7 DEF DocInv, DocTypes, Asked, Told, Announced
  <1>11. Halves'
    BY <1>2 DEF DocInv, DocTypes, Halves
  <1>12. PublishedAnnounced'
    <2>1. ASSUME NEW t \in Sessions, log'[t].status = "PUBLISHED"
          PROVE  \E e \in hub' : e.session = t /\ e.user = log'[t].user
      <3>1. CASE t = s
        <4>1. Announced(s, call[r].user)
          BY <1>2, <2>1, <3>1 DEF DocInv, Told
        <4> QED
          BY <1>2, <3>1, <4>1 DEF Announced
      <3>2. CASE t # s
        BY <1>2, <2>1, <3>2 DEF DocInv, DocTypes, PublishedAnnounced, Announced
      <3> QED
        BY <3>1, <3>2
    <2> QED
      BY <2>1 DEF PublishedAnnounced, Announced
  <1> QED
    BY <1>4, <1>6, <1>8, <1>9, <1>10, <1>11, <1>12 DEF DocInv

LEMMA DocArrive ==
  ASSUME DocInv, NEW r \in Requests, NEW c \in C!Calls, UNCHANGED record, C!Arrive(r, c)
  PROVE  DocInv'
  <1>1. /\ pc[r] = "idle" /\ UNCHANGED <<log, hub, trip_log, existing, valid, response>>
        /\ pc' = [pc EXCEPT ![r] = "get"] /\ call' = [call EXCEPT ![r] = c]
    BY DEF C!Arrive, C!services
  <1>2. DocTypes'
    BY <1>1 DEF DocInv, DocTypes, C!Phases
  <1>3. Keeps
    BY <1>1 DEF Keeps
  <1>4. \A q \in Requests \ {r} : (Asked(q) /\ Owning(q) /\ Told(q))'
    <2>1. \A q \in Requests \ {r} :
            UNCHANGED <<pc[q], call[q], trip_log[q], existing[q], response[q]>>
      BY <1>1 DEF DocInv, DocTypes
    <2> QED
      BY <1>3, <2>1, OthersKeep
  <1>5. (Asked(r) /\ Owning(r) /\ Told(r))'
    BY <1>1 DEF DocInv, DocTypes, Asked, Owning, Told
  <1>6. Halves' /\ PublishedAnnounced'
    BY <1>1 DEF DocInv, Halves, PublishedAnnounced, Announced
  <1> QED
    BY <1>2, <1>4, <1>5, <1>6 DEF DocInv

LEMMA MovedDoc ==
  ASSUME NEW doc \in Docs, NEW status \in WorkerStatuses
  PROVE  LET moved_on == [doc EXCEPT !.status = status, !.etag = doc.etag + 1] IN
         moved_on \in Docs /\ moved_on.status = status /\ moved_on.user = doc.user
  <1> DEFINE moved_on == [doc EXCEPT !.status = status, !.etag = doc.etag + 1]
  <1>1. doc.etag + 1 \in Nat
    BY DEF Docs
  <1>2. /\ moved_on.status = status /\ moved_on.user = doc.user
        /\ moved_on.etag = doc.etag + 1
    BY DEF Docs
  <1>3. moved_on \in Docs
    BY <1>1 DEF Docs
  <1> QED
    BY <1>2, <1>3

LEMMA DocDownstream ==
  ASSUME DocInv, NEW s \in Sessions, Downstream(s)
  PROVE  DocInv'
  <1>1. UNCHANGED <<record, hub, pc, call, trip_log, existing, valid, response>>
    BY DEF Downstream, creating
  <1>2. PICK status \in WorkerStatuses :
          /\ log[s].status \in {"PUBLISHED", "PROCESSING"}
          /\ log' = [log EXCEPT ![s] = [log[s] EXCEPT !.status = status, !.etag = log[s].etag + 1]]
    BY DEF Downstream
  <1> DEFINE doc == [log[s] EXCEPT !.status = status, !.etag = log[s].etag + 1]
  <1>3. /\ log[s] \in Docs /\ log[s] # C!NoLog
        /\ log' = [log EXCEPT ![s] = doc] /\ log'[s] = doc
    <2>1. log[s] \in Docs /\ log' = [log EXCEPT ![s] = doc] /\ log'[s] = doc
      BY <1>2 DEF DocInv, DocTypes
    <2>2. C!NoLog.status = "ABSENT"
      BY DEF C!NoLog
    <2> QED
      BY <1>2, <2>1, <2>2
  <1>4. /\ doc \in Docs /\ doc.status = status /\ doc.user = log[s].user
    <2>1. status \in WorkerStatuses /\ log[s] \in Docs
      BY <1>2, <1>3
    <2> QED
      BY <2>1, MovedDoc
  <1> HIDE DEF doc
  <1>5. status \notin {"ABSENT", "PUBLISHED"}
    BY WorkerStatusesAssumption
  <1>6. doc # C!NoLog
    BY <1>4, <1>5 DEF C!NoLog
  <1>7. DocTypes'
    BY <1>1, <1>3, <1>4 DEF DocInv, DocTypes
  <1>8. Keeps
    BY <1>1, <1>3, <1>4, <1>6 DEF DocInv, DocTypes, Keeps
  <1>9. \A q \in Requests : (Asked(q) /\ Owning(q) /\ Told(q))'
    BY <1>1, <1>8, OthersKeep
  <1>10. \A t \in Sessions \ {s} : log'[t] = log[t]
    BY <1>3 DEF DocInv, DocTypes
  <1>11. Halves'
    BY <1>1, <1>3, <1>4, <1>6, <1>10 DEF DocInv, Halves
  <1>12. PublishedAnnounced'
    BY <1>1, <1>3, <1>4, <1>5, <1>10 DEF DocInv, PublishedAnnounced, Announced
  <1> QED
    BY <1>7, <1>9, <1>11, <1>12 DEF DocInv

\* A session gets its document: it had none, its call being under way.
LEMMA DocCreate ==
  ASSUME DocInv, P!IInv, NEW s \in Sessions, CreateTripLog(s)
  PROVE  DocInv'
  <1>1. /\ UNCHANGED <<hub, pc, call, trip_log, existing, valid, response, caller>>
        /\ phase[s] = "create"
        /\ log' = [log EXCEPT ![s] = C!NewTripLog(caller[s].user)]
        /\ record' = [record EXCEPT ![s] = record'[s]]
        /\ record'[s].owner = caller[s]
    BY DEF CreateTripLog, S!CreateTripLog, S!ReplyLost, S!Created, P!IInv, P!TypeOK
  <1>2. caller[s] \in Callers
    BY <1>1 DEF P!IInv, P!Called
  <1>3. record[s] = S!NoLog /\ S!NoCaller \notin Callers
    BY <1>1, P!CallersAreSome, TheirAssumptions
    DEF P!IInv, P!Stored, P!NoLog, S!NoLog, P!NoCaller, S!NoCaller
  <1>4. record'[s] # S!NoLog
    BY <1>1, <1>2, <1>3 DEF S!NoLog
  <1>5. /\ C!NewTripLog(caller[s].user) \in Docs
        /\ C!NewTripLog(caller[s].user) # C!NoLog
        /\ C!NewTripLog(caller[s].user).user = caller[s].user
        /\ C!NewTripLog(caller[s].user).status = "RECEIVED"
    BY <1>2 DEF C!NewTripLog, C!NoLog, Docs, C!Statuses, Users
  <1>6. log[s] = C!NoLog
    BY <1>3 DEF DocInv, Halves
  <1>7. DocTypes'
    BY <1>1, <1>5 DEF DocInv, DocTypes
  <1>8. Keeps
    BY <1>1, <1>6 DEF DocInv, DocTypes, Keeps
  <1>9. \A q \in Requests : (Asked(q) /\ Owning(q) /\ Told(q))'
    BY <1>1, <1>8, OthersKeep
  <1>10. /\ log'[s] = C!NewTripLog(caller[s].user)
         /\ \A t \in Sessions \ {s} : log'[t] = log[t] /\ record'[t] = record[t]
    BY <1>1 DEF DocInv, DocTypes, P!IInv, P!TypeOK
  <1>11. Halves'
    BY <1>1, <1>4, <1>5, <1>10 DEF DocInv, Halves
  <1>12. PublishedAnnounced'
    BY <1>1, <1>5, <1>10 DEF DocInv, PublishedAnnounced, Announced
  <1> QED
    BY <1>7, <1>9, <1>11, <1>12 DEF DocInv

LEMMA DocInvariance == Spec => []DocInv
  <1>1. ASSUME DocInv, P!IInv, [Next]_vars
        PROVE  DocInv'
    <2>1. CASE UNCHANGED <<record, completing>>
      BY <1>1, <2>1 DEF completing, DocInv, DocTypes, Halves, PublishedAnnounced, Announced,
                        Asked, Owning, Told, C!Session
    <2>2. ASSUME NEW s \in Sessions, Create(s)
          PROVE  UNCHANGED <<record, completing>>
      BY <2>2 DEF Create, S!Arrive, S!FindContainer, S!CreateContainer, S!Stamp,
                  S!GenerateSas, S!NewTripLog, S!Crash, S!ServiceFails
    <2>3. ASSUME NEW s \in Sessions, CreateTripLog(s) \/ Downstream(s)
          PROVE  DocInv'
      BY <1>1, <2>3, DocCreate, DocDownstream
    <2>4. ASSUME NEW s \in Sessions, NEW i \in Sources, NEW content \in Contents,
                 PutBlob(s, i, content)
          PROVE  UNCHANGED <<record, completing>>
      BY <2>4 DEF PutBlob, S!PutBlob
    <2>5. CASE Tick
      BY <2>1, <2>5 DEF Tick, S!Tick
    <2>6. ASSUME NEW r \in Requests, Complete(r)
          PROVE  DocInv'
      <3>1. UNCHANGED record /\ (C!Step(r) \/ C!Fault(r))
        BY <2>6 DEF Complete, creating
      <3> QED
        BY <1>1, <3>1, DocGet, DocReread, DocMoves, DocPublish, DocReplace
        DEF C!Step, C!Fault, Sources
    <2>7. ASSUME NEW r \in Requests, NEW c \in C!Calls, Arrive(r, c)
          PROVE  DocInv'
      BY <1>1, <2>7, DocArrive DEF Arrive, creating
    <2> QED
      BY <1>1, <2>1, <2>2, <2>3, <2>4, <2>5, <2>6, <2>7 DEF Next, vars, creating, completing
  <1> QED
    BY <1>1, DocInit, SessionInv, PTL DEF Spec

\* Whoever is told 200 owns a session that was announced, whatever the workers
\* have made of its log since.
THEOREM AcknowledgedHasEventAlways == Spec => []AcknowledgedHasEvent
  <1>1. DocInv => AcknowledgedHasEvent
    <2> SUFFICES ASSUME DocInv, NEW r \in Requests, C!HttpStatus[response[r]] = 200
                 PROVE  Announced(C!Session(r), call[r].user)
      BY DEF AcknowledgedHasEvent, Announced
    <2>1. response[r] \in {"published", "already"}
      BY DEF C!HttpStatus, DocInv, DocTypes, C!Responses
    <2> QED
      BY <2>1 DEF DocInv, Told
  <1> QED
    BY <1>1, DocInvariance, PTL

-----------------------------------------------------------------------------
\* The landing container

\* One blob to a path.
StoreInv ==
  /\ store \subseteq [path : S!BlobPaths, writer : Sessions, content : Contents]
  /\ \A b1, b2 \in store : b1.path = b2.path => b1 = b2

\* P's names for the paths, which S's are.
LEMMA SameNames ==
  /\ S!BlobPaths = P!BlobPaths /\ S!NoLog = P!NoLog /\ S!Sources = Sources
  /\ \A s, i : S!TargetPath(s, i) = P!TargetPath(s, i)
  BY DEF S!BlobPaths, P!BlobPaths, S!Prefixes, P!Prefixes, S!Sources, P!Sources, Sources,
         S!Joined, P!Joined, S!TargetPath, P!TargetPath, S!BlobPath, P!BlobPath,
         S!Prefix, P!Prefix, S!Day, P!Day, S!NoLog, P!NoLog, S!NoCaller, P!NoCaller

LEMMA TargetPathType ==
  ASSUME P!IInv, NEW s \in Sessions, answer[s] = "created", NEW i \in Sources
  PROVE  S!TargetPath(s, i) \in S!BlobPaths /\ caller[s] \in Callers
  <1>1. phase[s] = "done" /\ caller[s] \in Callers /\ timestamp[s] \in 0 .. MaxTime
    BY DEF P!IInv, P!TypeOK, P!Called
  <1>2. i \in P!Sources
    BY DEF P!Sources, Sources
  <1>3. P!BlobPath(i, timestamp[s], P!Prefix(caller[s], timestamp[s])) \in P!BlobPaths
    BY <1>1, <1>2, P!PathTypes, TheirAssumptions
  <1> QED
    BY <1>1, <1>3, SameNames DEF P!TargetPath

LEMMA StoreInvariance == Spec => []StoreInv
  <1>1. Init => StoreInv
    BY DEF Init, StoreInv
  <1>2. ASSUME StoreInv, P!IInv, [Next]_vars
        PROVE  StoreInv'
    <2>1. ASSUME NEW s \in Sessions, NEW i \in Sources, NEW content \in Contents,
                 PutBlob(s, i, content)
          PROVE  StoreInv'
      <3>1. S!TargetPath(s, i) \in S!BlobPaths
        BY <1>2, <2>1, TargetPathType DEF PutBlob
      <3>2. UNCHANGED S!BlobPaths
        BY DEF S!BlobPaths, S!Prefixes
      <3> QED
        BY <1>2, <2>1, <3>1, <3>2 DEF PutBlob, StoreInv
    <2>2. CASE UNCHANGED store
      BY <1>2, <2>2 DEF StoreInv, S!BlobPaths, S!Prefixes
    <2> QED
      BY <1>2, <2>1, <2>2
      DEF Next, vars, Tick, Create, CreateTripLog, Downstream, Complete, Arrive
  <1> QED
    BY <1>1, <1>2, SessionInv, PTL DEF Spec

\* Every variable keeps its type, the two halves of a document belong together,
\* and a path has one blob.
THEOREM SystemTypeCorrect == Spec => []TypeOK
  <1> DEFINE History == /\ arrival \in [Requests -> [at : 0 .. MaxTime, late : BOOLEAN]]
                        /\ moved \subseteq Sessions
  <1>1. Init => History
    BY SessionAssumption DEF Init, NoArrival, S!TimeAssumption
  <1>2. ASSUME History, P!IInv, [Next]_vars
        PROVE  History'
    <2>1. now \in 0 .. MaxTime
      BY <1>2 DEF P!IInv, P!TypeOK
    <2>2. CASE UNCHANGED history
      BY <1>2, <2>2 DEF history
    <2>3. ASSUME NEW r \in Requests, NEW c \in C!Calls, Arrive(r, c)
          PROVE  History'
      <3> DEFINE late == \E q \in Requests : response[q] = "published" /\ C!Session(q) = c.session
      <3>1. moved' = moved /\ arrival' = [arrival EXCEPT ![r] = [at |-> now, late |-> late]]
        BY <2>3 DEF Arrive
      <3>2. late \in BOOLEAN
        OBVIOUS
      <3> HIDE DEF late
      <3> QED
        BY <1>2, <2>1, <3>1, <3>2
    <2>4. ASSUME NEW s \in Sessions, Downstream(s)
          PROVE  History'
      BY <1>2, <2>4 DEF Downstream
    <2> QED
      BY <1>2, <2>2, <2>3, <2>4
      DEF Next, vars, history, Tick, Create, CreateTripLog, PutBlob, Complete
  <1>3. P!TypeOK => S!TypeOK
    BY DEF P!TypeOK, S!TypeOK, P!Phases, S!Phases, P!NoCaller, S!NoCaller, P!Sources,
           S!Sources, P!TripLogs, S!TripLogs, P!Prefixes, S!Prefixes, P!Joined, S!Joined,
           P!NoLog, S!NoLog, P!BlobPaths, S!BlobPaths, P!Responses, S!Responses
  <1>4. P!IInv /\ DocInv /\ StoreInv /\ History => TypeOK
    BY <1>3 DEF P!IInv, DocInv, Halves, StoreInv, TypeOK
  <1> HIDE DEF History
  <1> QED
    BY <1>1, <1>2, <1>4, SessionInv, DocInvariance, StoreInvariance, PTL DEF Spec
-----------------------------------------------------------------------------
\* The steps of UploadComplete

LEMMA ContentThere ==
  ASSUME StoreInv, NEW b \in store
  PROVE  Content(b.path) = b.content
  <1> DEFINE there == CHOOSE c \in store : c.path = b.path
  <1>1. there \in store /\ there.path = b.path
    OBVIOUS
  <1>2. there = b
    BY <1>1 DEF StoreInv
  <1> QED
    BY <1>2 DEF Content

LEMMA ContentThereNext ==
  StoreInv' => (\A b \in store : Content(b.path) = b.content)'
  <1>1. StoreInv => \A b \in store : Content(b.path) = b.content
    BY ContentThere
  <1> QED
    BY <1>1, PTL

\* A blob is where its writer was told.
LEMMA WriterOf ==
  ASSUME P!IInv, NEW b \in store
  PROVE  b.writer \in Sessions /\ answer[b.writer] = "created"
         /\ b.path = S!TargetPath(b.writer, b.path.source)
  <1> DEFINE seen == [path |-> b.path, writer |-> b.writer]
  <1>1. seen \in {[path |-> c.path, writer |-> c.writer] : c \in store}
    OBVIOUS
  <1>2. seen.path = b.path /\ seen.writer = b.writer
    OBVIOUS
  <1>3. /\ answer[seen.writer] = "created" /\ seen.writer \in Sessions
        /\ seen.path = P!TargetPath(seen.writer, seen.path.source)
    BY <1>1 DEF P!IInv, P!Written, P!TypeOK
  <1> HIDE DEF seen
  <1> QED
    BY <1>2, <1>3, SameNames

\* Who looks where another was told to write shares the other's paths.
LEMMA LooksThere ==
  ASSUME P!IInv, NEW s \in Sessions, NEW w \in Sessions, NEW i, NEW j,
         record[s] # S!NoLog, answer[w] = "created",
         S!LookupPath(s, i) = S!TargetPath(w, j)
  PROVE  SharePaths(s, w) /\ i = j
  <1>1. /\ record[s] = P!DocumentOf(s) /\ record[w] # S!NoLog
        /\ record[w] = P!DocumentOf(w)
    BY SameNames DEF P!IInv, P!Stored
  <1>2. /\ record[s].owner = caller[s] /\ record[w].owner = caller[w]
        /\ record[s].prefix = S!Prefix(caller[s], timestamp[s])
    BY <1>1 DEF P!DocumentOf, P!Prefix, S!Prefix, P!Joined, S!Joined
  <1>3. /\ i = j
        /\ S!Prefix(caller[s], timestamp[s]) = S!Prefix(caller[w], timestamp[w])
    BY <1>2 DEF S!LookupPath, S!TargetPath, S!BlobPath
  <1>4. S!Joined(caller[s]) = S!Joined(caller[w]) /\ timestamp[s] = timestamp[w]
    BY <1>3 DEF S!Prefix
  <1> QED
    BY <1>1, <1>2, <1>3, <1>4 DEF SharePaths

\* Where clients write is not where the lookup of an empty log is.
LEMMA PathsAreNamed ==
  ASSUME P!IInv, NEW w \in Sessions, answer[w] = "created", NEW i,
         NEW s, record[s] = S!NoLog, NEW j
  PROVE  S!TargetPath(w, i) # S!LookupPath(s, j)
  <1>1. phase[w] = "done" /\ caller[w] \in Callers /\ timestamp[w] \in Nat
    BY SessionAssumption DEF P!IInv, P!TypeOK, P!Called, S!TimeAssumption
  <1>2. S!Joined(caller[w]) \in Seq(STRING)
    <2>1. caller[w].user \in Seq(STRING) /\ caller[w].route \in Seq(STRING)
      BY <1>1, SessionAssumption DEF S!CallersAssumption
    <2> QED
      BY <2>1 DEF S!Joined
  <1>3. S!TargetPath(w, i).prefix \in [name : Seq(STRING), second : Nat]
    BY <1>1, <1>2 DEF S!TargetPath, S!BlobPath, S!Prefix
  <1>4. S!LookupPath(s, j).prefix = None
    BY DEF S!LookupPath, S!BlobPath, S!NoLog
  <1> QED
    BY <1>3, <1>4, SessionAssumption

\* No step that leaves record and store alone changes what is found.
LEMMA FoundStays ==
  ASSUME UNCHANGED <<record, store>>
  PROVE  UNCHANGED Found
  BY DEF Found, Content, S!LookupPath, S!BlobPath, S!Day

\* Time passes: SAS URLs expire, of no session or of some.
LEMMA TickStep ==
  ASSUME P!IInv, Tick
  PROVE  UNCHANGED C!vars \/ C!Next
  <1>1. /\ now' = now + 1 /\ now \in Nat /\ UNCHANGED <<answer, sas, completing, record, store>>
        /\ \A s \in Sessions, i \in Sources : sas[s][i] \in Nat
    BY SessionAssumption DEF Tick, S!Tick, P!IInv, P!TypeOK, S!TimeAssumption, P!Sources, Sources
  <1>2. UNCHANGED Found
    BY <1>1, FoundStays
  <1>3. Writable' \subseteq Writable
    BY <1>1 DEF Writable, Sources
  <1>4. CASE Writable' = Writable
    BY <1>1, <1>2, <1>4 DEF completing, C!vars
  <1>5. CASE Writable' # Writable
    <2> DEFINE gone == Writable \ Writable'
    <2>1. gone # {} /\ gone \in SUBSET Writable /\ Writable' = Writable \ gone
      BY <1>3, <1>5
    <2>2. C!ExpireSas(gone)
      BY <1>1, <1>2, <2>1 DEF C!ExpireSas, completing, C!requests
    <2> QED
      BY <2>1, <2>2 DEF C!Next, C!Client
  <1> QED
    BY <1>4, <1>5

\* A call that creates a session stays without an answer, or ends without one
\* that lets its client write.
LEMMA CreateStep ==
  ASSUME P!IInv, NEW s \in Sessions, Create(s)
  PROVE  UNCHANGED C!vars
  <1>1. /\ UNCHANGED <<now, record, store, completing>>
        /\ phase[s] # "done"
        /\ answer'[s] # "created" \/ answer' = answer
        /\ \A t \in Sessions \ {s} : answer'[t] = answer[t] /\ sas'[t] = sas[t]
    BY DEF Create, S!Arrive, S!FindContainer, S!CreateContainer, S!Stamp, S!GenerateSas,
           S!NewTripLog, S!Crash, S!ServiceFails, S!Continue, S!End, P!IInv, P!TypeOK
  <1>2. answer[s] # "created"
    BY <1>1 DEF P!IInv, P!Called
  <1>3. UNCHANGED Writable
    BY <1>1, <1>2 DEF Writable, Sources
  <1>4. UNCHANGED Found
    BY <1>1, FoundStays
  <1> QED
    BY <1>1, <1>3, <1>4 DEF completing, C!vars

\* LooksThere, in a form that can be said of the next state.
LEMMA LooksThereNext ==
  P!IInv' =>
    (\A s, w \in Sessions, i \in Sources :
       record[s] # S!NoLog /\ answer[w] = "created" /\ S!LookupPath(s, i) = S!TargetPath(w, i)
         => SharePaths(s, w))'
  <1>1. P!IInv =>
          \A s, w \in Sessions, i \in Sources :
            record[s] # S!NoLog /\ answer[w] = "created" /\ S!LookupPath(s, i) = S!TargetPath(w, i)
              => SharePaths(s, w)
    BY LooksThere
  <1> QED
    BY <1>1, PTL

\* The new session's lookup finds nothing yet: nobody who may write shares it.
LEMMA CreateTripLogStep ==
  ASSUME P!IInv, P!IInv', DocInv, NEW s \in Sessions, CreateTripLog(s),
         \A s1, s2 \in Sessions : SharePaths(s1, s2)' => s1 = s2
  PROVE  C!Next
  <1>1. /\ UNCHANGED <<now, store, caller, timestamp, sas>>
        /\ UNCHANGED <<hub, validated, C!requests>>
        /\ phase[s] = "create"
        /\ log' = [log EXCEPT ![s] = C!NewTripLog(caller[s].user)]
        /\ \A t \in Sessions \ {s} : record'[t] = record[t] /\ answer'[t] = answer[t]
    BY DEF CreateTripLog, S!CreateTripLog, S!ReplyLost, S!Created, S!End, C!requests,
           P!IInv, P!TypeOK
  <1>2. /\ caller[s] \in Callers /\ answer[s] # "created" /\ record[s] = S!NoLog
    BY <1>1, SameNames DEF P!IInv, P!Called, P!Stored
  <1>3. log[s] = C!NoLog /\ caller[s].user \in Users
    BY <1>2 DEF DocInv, Halves, Users
  <1>4. \A b \in store, i \in Sources : b.path # S!LookupPath(s, i)
    BY <1>2, WriterOf, PathsAreNamed
  <1>5. ASSUME NEW b \in store, NEW i \in Sources, b.path = S!LookupPath(s, i)'
        PROVE  FALSE
    <2> DEFINE w == b.writer
    <2>1. /\ w \in Sessions /\ answer[w] = "created" /\ w # s
          /\ b.path = S!TargetPath(w, b.path.source)
      BY <1>2, WriterOf
    <2>2. answer'[w] = "created" /\ b.path = S!TargetPath(w, b.path.source)'
      BY <1>1, <2>1 DEF S!TargetPath, S!Prefix, S!Joined, S!BlobPath, S!Day
    <2>3. record'[s] # S!NoLog
      BY <1>1, <1>2, <1>4, <1>5 DEF S!LookupPath, S!BlobPath, S!Day, S!NoLog
    <2>4. b.path.source = i
      BY <1>5 DEF S!LookupPath, S!BlobPath
    <2>5. SharePaths(s, w)'
      BY <1>5, <2>1, <2>2, <2>3, <2>4, LooksThereNext DEF Sources
    <2> QED
      BY <2>1, <2>5
  <1>6. UNCHANGED Found
    <2>1. ASSUME NEW t \in Sessions, NEW i \in Sources
          PROVE  Found'[t][i] = Found[t][i]
      <3>1. CASE t = s
        <4>1. Content(S!LookupPath(s, i)) = None
          BY <1>4 DEF Content
        <4>2. Content(S!LookupPath(s, i))' = None
          BY <1>1, <1>5 DEF Content
        <4> QED
          BY <3>1, <4>1, <4>2 DEF Found, Sources
      <3>2. CASE t # s
        <4>1. S!LookupPath(t, i)' = S!LookupPath(t, i)
          BY <1>1, <3>2 DEF S!LookupPath, S!BlobPath, S!Day
        <4> QED
          BY <1>1, <4>1 DEF Found, Content, Sources
      <3> QED
        BY <3>1, <3>2
    <2> QED
      BY <2>1 DEF Found, Sources
  <1>7. Writable' \in {Writable, Writable \cup {s}}
    BY <1>1, <1>2 DEF Writable, Sources
  <1>8. C!CreateSession(s, caller[s].user)
    BY <1>1, <1>3, <1>6, <1>7 DEF C!CreateSession
  <1> QED
    BY <1>3, <1>8 DEF C!Next, C!Client

\* What is at another path stays.
LEMMA PutElsewhere ==
  ASSUME StoreInv, StoreInv', NEW s \in Sessions, NEW i \in Sources,
         NEW content \in Contents, PutBlob(s, i, content), NEW p, p # S!TargetPath(s, i)
  PROVE  Content(p)' = Content(p)
  <1> DEFINE new == [path |-> S!TargetPath(s, i), writer |-> s, content |-> content]
  <1>1. store' = {b \in store : b.path # S!TargetPath(s, i)} \cup {new}
    BY DEF PutBlob
  <1>2. CASE \E b \in store : b.path = p
    <2>1. PICK b \in store : b.path = p
      BY <1>2
    <2>2. b \in store'
      BY <1>1, <2>1
    <2> QED
      BY <2>1, <2>2, ContentThere, ContentThereNext
  <1>3. CASE ~\E b \in store : b.path = p
    <2>1. ~\E b \in store' : b.path = p
      BY <1>1, <1>3
    <2> QED
      BY <1>3, <2>1 DEF Content
  <1> QED
    BY <1>2, <1>3

\* A client's write is to its own session's blobs, or - when a midnight fell
\* between two readings of the clock - to no session's.
LEMMA PutBlobStep ==
  ASSUME P!IInv, StoreInv, StoreInv', NEW s \in Sessions, NEW i \in Sources,
         NEW content \in Contents, PutBlob(s, i, content),
         \A s1, s2 \in Sessions : SharePaths(s1, s2)' => s1 = s2
  PROVE  UNCHANGED C!vars \/ C!Next
  <1> DEFINE path == S!TargetPath(s, i)
             new == [path |-> path, writer |-> s, content |-> content]
  <1>1. /\ answer[s] = "created" /\ now < sas[s][i]
        /\ UNCHANGED <<now, caller, timestamp, sas, answer, record, completing>>
        /\ store' = {b \in store : b.path # path} \cup {new}
    BY DEF PutBlob, S!PutBlob
  <1>2. UNCHANGED Writable /\ s \in Writable
    BY <1>1 DEF Writable
  <1>3. \A s1, s2 \in Sessions : SharePaths(s1, s2) => s1 = s2
    BY <1>1 DEF SharePaths, S!Joined
  <1>4. ASSUME NEW t \in Sessions, NEW j \in Sources, <<t, j>> # <<s, i>>
        PROVE  S!LookupPath(t, j) # path
    BY <1>1, <1>3, <1>4, LooksThere, PathsAreNamed
  <1>5. ASSUME NEW p, p # path
        PROVE  Content(p)' = Content(p)
    BY <1>5, PutElsewhere
  <1>6. UNCHANGED path /\ Content(path)' = content
    <2>1. new \in store' /\ new.path = path /\ new.content = content
      BY <1>1
    <2>2. UNCHANGED path
      BY <1>1 DEF S!TargetPath, S!BlobPath, S!Prefix, S!Joined, S!Day
    <2> QED
      BY <2>1, <2>2, ContentThereNext
  <1>7. \A t \in Sessions, j \in Sources : UNCHANGED S!LookupPath(t, j)
    BY <1>1 DEF S!LookupPath, S!BlobPath, S!Day
  <1>8. CASE S!LookupPath(s, i) = path
    <2>1. Found' = [Found EXCEPT ![s][i] = content]
      <3>1. ASSUME NEW t \in Sessions, NEW j \in Sources
            PROVE  Found'[t][j] = [Found EXCEPT ![s][i] = content][t][j]
        <4>1. CASE t = s /\ j = i
          <5>1. Found'[s][i] = Content(S!LookupPath(s, i))'
            BY DEF Found
          <5>2. UNCHANGED S!LookupPath(s, i)
            BY <1>7
          <5>3. Content(S!LookupPath(s, i))' = content
            BY <1>6, <1>8, <5>2
          <5> QED
            BY <4>1, <5>1, <5>3 DEF Found
        <4>2. CASE <<t, j>> # <<s, i>>
          <5>1. Found'[t][j] = Found[t][j]
            BY <1>4, <1>5, <1>7, <4>2 DEF Found
          <5> QED
            BY <4>2, <5>1 DEF Found
        <4> QED
          BY <4>1, <4>2
      <3> QED
        BY <3>1 DEF Found
    <2>2. C!PutBlob(s, i, content)
      BY <1>1, <1>2, <2>1 DEF C!PutBlob, completing, C!requests
    <2> QED
      BY <2>2 DEF C!Next, C!Client
  <1>9. CASE S!LookupPath(s, i) # path
    <2>1. UNCHANGED Found
      BY <1>4, <1>5, <1>7, <1>9 DEF Found
    <2> QED
      BY <1>1, <1>2, <2>1 DEF completing, C!vars
  <1> QED
    BY <1>8, <1>9

\* As long as no two sessions share their paths, every step of the system is
\* one of UploadComplete, or none of its, or one of the workers downstream.
THEOREM StepsOfCompleteAlways == Spec => StepsOfComplete
  <1>1. ASSUME P!IInv, P!IInv', DocInv, StoreInv, StoreInv', [Next]_vars,
               \A s1, s2 \in Sessions : SharePaths(s1, s2)' => s1 = s2
        PROVE  UNCHANGED C!vars \/ C!Next \/ \E s \in Sessions : Downstream(s)
    <2>1. ASSUME NEW r \in Requests, Complete(r)
          PROVE  C!Next
      BY <2>1 DEF Complete, C!Next
    <2>2. ASSUME NEW r \in Requests, NEW c \in C!Calls, Arrive(r, c)
          PROVE  C!Next
      BY <2>2 DEF Arrive, C!Next, C!Client
    <2>3. CASE UNCHANGED vars
      <3>1. UNCHANGED <<now, answer, sas, record, store, completing>>
        BY <2>3 DEF vars, creating
      <3> QED
        BY <3>1, FoundStays DEF Writable, C!vars, completing
    <2> QED
      BY <1>1, <2>1, <2>2, <2>3, TickStep, CreateStep, CreateTripLogStep, PutBlobStep
      DEF Next
  <1>2. P!IInv /\ P!IInv' /\ DocInv /\ StoreInv /\ StoreInv' /\ [Next]_vars
          => [(\A s1, s2 \in Sessions : SharePaths(s1, s2)' => s1 = s2)
                => UNCHANGED C!vars \/ C!Next \/ \E s \in Sessions : Downstream(s)]_vars
    BY <1>1
  <1> QED
    BY <1>2, SessionInv, DocInvariance, StoreInvariance, PTL DEF Spec, StepsOfComplete
=============================================================================
