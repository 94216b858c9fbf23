--------------------- MODULE UploadSystemHistoryProofs ---------------------
(***************************************************************************)
(* What the composed system promises of events after the fact: a retry     *)
(* that comes after an acknowledgement adds none, and what one announces   *)
(* stands.                                                                 *)
(***************************************************************************)
EXTENDS UploadSystemProofs

\* The phases of a request that may still write the log or publish.
Active == {"claim", "validate", "store", "publish", "mark"}

Settled(s) == log[s].status = "PUBLISHED" \/ s \in moved

\* Every event is of a request that has arrived, and of its session.
Attributed ==
  \A e \in hub :
    e.request \in Requests /\ pc[e.request] # "idle" /\ e.session = C!Session(e.request)

\* An active request has an etag as old as the document, and an older one than
\* a document that says PUBLISHED: nobody can replace that.
Outdated(r) ==
  LET doc == log[C!Session(r)] IN
  pc[r] \in Active =>
    etag[r] <= doc.etag /\ (doc.status = "PUBLISHED" => etag[r] < doc.etag)

\* Before a worker moves the log on, a late request ends at its first look.
Late(r) ==
  arrival[r].late =>
    /\ pc[r] # "idle"
    /\ Settled(C!Session(r))
    /\ \/ C!Session(r) \in moved
       \/ pc[r] \in {"get", "done"} /\ \A e \in hub : e.request # r

Acknowledged(r) == response[r] = "published" => Settled(C!Session(r))

RetryInv ==
  /\ etag \in [Requests -> Nat]
  /\ Attributed
  /\ \A r \in Requests : Outdated(r) /\ Late(r) /\ Acknowledged(r)

LEMMA RetryInit == Init => RetryInv
  BY DEF Init, NoArrival, C!Init, RetryInv, Attributed, Outdated, Active, Late, Acknowledged

\* A request's step that leaves the documents alone.
LEMMA RetryQuiet ==
  ASSUME DocInv, RetryInv, NEW r \in Requests, UNCHANGED <<log, call, history>>,
         pc[r] # "idle", pc'[r] \in Active \cup {"get", "done"},
         etag' \in [Requests -> Nat],
         \A q \in Requests \ {r} : UNCHANGED <<pc[q], etag[q], response[q]>>,
         hub' \subseteq hub \cup {C!Event(r)},
         pc[r] = "publish" \/ hub' = hub,
         response'[r] = "published" => response[r] = "published",
         pc'[r] \in Active => pc[r] \in Active \/ log[C!Session(r)].status # "PUBLISHED",
         Outdated(r)'
  PROVE  RetryInv'
  <1>1. \A q \in Requests : UNCHANGED C!Session(q)
    BY DEF C!Session
  <1>2. C!Event(r).request = r /\ C!Event(r).session = C!Session(r)
    BY DEF C!Event
  <1>3. Attributed'
    BY <1>1, <1>2 DEF RetryInv, Attributed, Active
  <1>4. \A q \in Requests : Outdated(q)'
    BY <1>1 DEF RetryInv, Outdated
  <1>5. \A s : UNCHANGED Settled(s)
    BY DEF Settled, history
  <1>6. \A q \in Requests : Acknowledged(q)'
    BY <1>1, <1>5 DEF RetryInv, Acknowledged
  <1>7. ASSUME NEW q \in Requests, arrival[q].late
        PROVE  Late(q)'
    <2>1. Late(q)
      BY DEF RetryInv
    <2>2. CASE q # r
      BY <1>1, <1>2, <1>5, <1>7, <2>1, <2>2 DEF Late, history
    <2>3. CASE q = r /\ C!Session(r) \in moved
      BY <1>1, <1>5, <1>7, <2>1, <2>3 DEF Late, history, Active
    <2>4. CASE q = r /\ C!Session(r) \notin moved
      <3>1. /\ pc[r] \in {"get", "done"} /\ hub' = hub
            /\ log[C!Session(r)].status = "PUBLISHED"
        BY <1>7, <2>1, <2>4 DEF Late, Settled
      <3>2. pc'[r] \in {"get", "done"}
        BY <3>1 DEF Active
      <3> QED
        BY <1>1, <1>5, <1>7, <2>1, <2>4, <3>1, <3>2 DEF Late, history
    <2> QED
      BY <2>2, <2>3, <2>4
  <1>8. \A q \in Requests : Late(q)'
    BY <1>7 DEF Late, history
  <1> QED
    BY <1>3, <1>4, <1>6, <1>8 DEF RetryInv

LEMMA RetryMoves ==
  ASSUME DocInv, RetryInv, NEW r \in Requests, UNCHANGED history,
         \/ C!GetTripLog(r) \/ C!Reread(r) \/ C!Publish(r) \/ C!PublishFails(r)
         \/ C!Conflict(r) \/ C!Crash(r) \/ C!CosmosFails(r) \/ C!BlobFails(r)
         \/ \E f \in Sources : C!ValidateFile(r, f)
  PROVE  RetryInv'
  <1> DEFINE doc == log[C!Session(r)]
  <1>1. /\ UNCHANGED <<log, call>> /\ pc[r] # "idle"
        /\ \A q \in Requests \ {r} : UNCHANGED <<pc[q], etag[q], response[q]>>
        /\ hub' \subseteq hub \cup {C!Event(r)}
        /\ pc[r] = "publish" \/ hub' = hub
        /\ response'[r] = "published" => response[r] = "published"
    BY DEF C!GetTripLog, C!Reread, C!Publish, C!PublishFails, C!Conflict, C!Crash,
           C!CosmosFails, C!BlobFails, C!ValidateFile, C!services, C!Continue, C!End,
           C!Updating, DocInv, DocTypes, RetryInv
  <1>2. CASE C!GetTripLog(r)
    <2>1. doc \in Docs
      BY <1>1, CallOf DEF DocInv, DocTypes
    <2>2. /\ etag' = [etag EXCEPT ![r] = doc.etag]
          /\ pc'[r] \in {"claim", "done"}
          /\ pc'[r] = "claim" => doc.status # "PUBLISHED"
      BY <1>2 DEF C!GetTripLog, C!Continue, C!End, C!AlreadyPublished, DocInv, DocTypes
    <2>3. etag' \in [Requests -> Nat] /\ etag'[r] <= doc.etag
      BY <2>1, <2>2 DEF RetryInv, Docs
    <2>4. Outdated(r)'
      BY <1>1, <2>2, <2>3 DEF Outdated, C!Session, Active
    <2> QED
      BY <1>1, <2>2, <2>3, <2>4, RetryQuiet DEF Active
  <1>3. CASE ~C!GetTripLog(r)
    <2>1. /\ UNCHANGED etag
          /\ pc'[r] = "done" \/ (pc[r] \in Active /\ pc'[r] \in Active)
      <3>1. pc \in [Requests -> C!Phases]
        BY DEF DocInv, DocTypes
      <3>2. C!Conflict(r) \/ C!Crash(r) \/ C!CosmosFails(r) \/ C!BlobFails(r)
              => UNCHANGED etag /\ pc'[r] = "done"
        BY <3>1 DEF C!Conflict, C!Crash, C!CosmosFails, C!BlobFails, C!End
      <3>3. C!Reread(r) => UNCHANGED etag /\ pc[r] \in Active /\ pc'[r] \in Active
        BY <3>1 DEF C!Reread, C!Updating, Active
      <3>4. C!Publish(r) \/ C!PublishFails(r)
              => /\ UNCHANGED etag /\ pc[r] \in Active
                 /\ pc'[r] = "done" \/ pc'[r] \in Active
        BY <3>1 DEF C!Publish, C!PublishFails, C!Continue, C!End, Active
      <3>5. ASSUME NEW f \in Sources, C!ValidateFile(r, f)
            PROVE  UNCHANGED etag /\ pc[r] \in Active /\ pc'[r] \in Active
        BY <3>1, <3>5 DEF C!ValidateFile, C!Continue, Active
      <3> QED
        BY <1>3, <3>2, <3>3, <3>4, <3>5
    <2>2. Outdated(r)'
      BY <1>1, <2>1 DEF RetryInv, Outdated, C!Session, Active
    <2>3. etag' \in [Requests -> Nat]
      BY <2>1 DEF RetryInv
    <2>4. pc'[r] \in Active => pc[r] \in Active
      BY <2>1 DEF Active
    <2> QED
      BY <1>1, <2>1, <2>2, <2>3, <2>4, RetryQuiet
  <1> QED
    BY <1>2, <1>3

LEMMA RetryReplace ==
  ASSUME DocInv, RetryInv, NEW r \in Requests, UNCHANGED history,
         C!Claim(r) \/ C!Store(r) \/ C!MarkPublished(r) \/ C!ReplyLost(r)
  PROVE  RetryInv'
  <1> DEFINE s == C!Session(r)
  <1>1. C!Replace(r) /\ UNCHANGED call /\ etag[r] = log[s].etag
    BY DEF C!Claim, C!Store, C!MarkPublished, C!ReplyLost, C!Returned, C!Replace,
           C!EtagMatches, C!EffectiveEtag
  <1>2. /\ s \in Sessions /\ pc[r] \in {"claim", "store", "mark"} /\ UNCHANGED hub
        /\ log' = [log EXCEPT ![s] = log'[s]]
        /\ log[s] \in Docs
        /\ log'[s].etag = log[s].etag + 1
        /\ log'[s].status = "PUBLISHED" <=> pc[r] = "mark"
    BY <1>1, DocReplaced DEF DocInv, DocTypes
  <1>3. /\ pc' = [pc EXCEPT ![r] = pc'[r]]
        /\ response' = [response EXCEPT ![r] = response'[r]]
        /\ \/ pc'[r] = "done" /\ UNCHANGED etag
           \/ etag' = [etag EXCEPT ![r] = log[s].etag + 1]
        /\ \/ pc[r] # "mark" /\ pc'[r] \in {"validate", "publish"}
              /\ etag' = [etag EXCEPT ![r] = log[s].etag + 1]
              /\ response'[r] = response[r]
           \/ pc'[r] = "done" /\ response'[r] \in {"invalid", "unavailable", "error"}
           \/ pc[r] = "mark" /\ pc'[r] = "done" /\ response'[r] = "published"
    BY DEF C!Claim, C!Store, C!MarkPublished, C!ReplyLost, C!Returned, C!NewEtag,
           C!Continue, C!End, DocInv, DocTypes
  <1>4. log[s].etag \in Nat
    BY <1>2 DEF Docs
  <1>5. log[s].status # "PUBLISHED"
    BY <1>1, <1>2, <1>4 DEF RetryInv, Outdated, Active
  <1>6. \A q \in Requests : UNCHANGED C!Session(q)
    BY <1>1 DEF C!Session
  <1>7. \A t : Settled(t) /\ t \in Sessions => Settled(t)'
    BY <1>2, <1>5 DEF Settled, history, DocInv, DocTypes
  <1>8. etag' \in [Requests -> Nat] /\ Attributed'
    BY <1>2, <1>3, <1>4, <1>6 DEF RetryInv, Attributed, DocInv, DocTypes
  <1>9. Outdated(r)'
    BY <1>2, <1>3, <1>4, <1>6 DEF Outdated, Active, RetryInv, DocInv, DocTypes
  <1>10. ASSUME NEW q \in Requests, q # r
         PROVE  Outdated(q)'
    <2>1. pc'[q] = pc[q] /\ etag'[q] = etag[q] /\ etag[q] \in Nat
      BY <1>3, <1>10 DEF DocInv, DocTypes, RetryInv
    <2>2. CASE C!Session(q) = s
      BY <1>2, <1>4, <1>6, <2>1, <2>2 DEF RetryInv, Outdated
    <2>3. CASE C!Session(q) # s
      <3>1. log'[C!Session(q)] = log[C!Session(q)] \/ pc[q] \notin Active
        BY <1>2, <2>3, CallOf DEF DocInv, DocTypes, Active
      <3> QED
        BY <1>6, <2>1, <3>1 DEF RetryInv, Outdated
    <2> QED
      BY <2>2, <2>3
  <1>11. ASSUME NEW q \in Requests
         PROVE  Acknowledged(q)' /\ Late(q)'
    <2>1. Acknowledged(q) /\ Late(q) /\ Asked(q)
      BY DEF RetryInv, DocInv
    <2>2. CASE q = r
      <3>1. arrival[r].late => s \in moved
        BY <1>2, <2>1, <2>2 DEF Late
      <3>2. Acknowledged(r)'
        BY <1>2, <1>3, <1>5, <1>6, <2>1, <2>2 DEF Acknowledged, Settled, Asked
      <3>3. Late(r)'
        BY <1>3, <1>6, <3>1 DEF Late, Settled, history, DocInv, DocTypes
      <3> QED
        BY <2>2, <3>2, <3>3
    <2>3. CASE q # r
      <3>1. pc'[q] = pc[q] /\ response'[q] = response[q]
        BY <1>3, <2>3 DEF DocInv, DocTypes
      <3>2. pc[q] # "idle" => C!Session(q) \in Sessions
        BY CallOf
      <3> QED
        BY <1>2, <1>6, <1>7, <2>1, <3>1, <3>2 DEF Acknowledged, Late, Asked, history
    <2> QED
      BY <2>2, <2>3
  <1> QED
    BY <1>8, <1>9, <1>10, <1>11 DEF RetryInv

LEMMA RetryArrive ==
  ASSUME DocInv, RetryInv, TypeOK, NEW r \in Requests, NEW c \in C!Calls, Arrive(r, c)
  PROVE  RetryInv'
  <1> DEFINE late == \E q \in Requests : response[q] = "published" /\ C!Session(q) = c.session
  <1>1. /\ pc[r] = "idle" /\ UNCHANGED <<log, hub, etag, response, moved>>
        /\ pc' = [pc EXCEPT ![r] = "get"] /\ call' = [call EXCEPT ![r] = c]
        /\ arrival' = [arrival EXCEPT ![r] = [at |-> now, late |-> late]]
    BY DEF Arrive, C!Arrive, C!services
  <1>2. late => Settled(c.session)
    BY DEF RetryInv, Acknowledged
  <1> HIDE DEF late
  <1>3. /\ \A q \in Requests \ {r} : UNCHANGED <<pc[q], arrival[q], C!Session(q)>>
        /\ pc'[r] = "get" /\ C!Session(r)' = c.session /\ arrival'[r].late = late
    BY <1>1 DEF DocInv, DocTypes, C!Session, TypeOK
  <1>4. Attributed' /\ \A e \in hub : e.request # r
    BY <1>1, <1>3 DEF RetryInv, Attributed
  <1>5. (Outdated(r) /\ Late(r) /\ Acknowledged(r))'
    BY <1>1, <1>2, <1>3, <1>4 DEF Outdated, Active, Late, Acknowledged, Settled, DocInv, Asked
  <1>6. \A q \in Requests \ {r} : (Outdated(q) /\ Late(q) /\ Acknowledged(q))'
    BY <1>1, <1>3 DEF RetryInv, Outdated, Late, Acknowledged, Settled
  <1> QED
    BY <1>1, <1>4, <1>5, <1>6 DEF RetryInv

\* A document is created, or a worker moves one on.
LEMMA RetryWritten ==
  ASSUME DocInv, RetryInv, P!IInv, NEW s \in Sessions, CreateTripLog(s) \/ Downstream(s)
  PROVE  RetryInv'
  <1>1. /\ UNCHANGED <<hub, pc, call, etag, response, arrival>>
        /\ \A t \in Sessions \ {s} : log'[t] = log[t]
        /\ moved \subseteq moved'
    BY DEF CreateTripLog, Downstream, history, DocInv, DocTypes
  <1>2. \A q \in Requests : UNCHANGED C!Session(q)
    BY <1>1 DEF C!Session
  <1>3. CASE CreateTripLog(s)
    <2>1. phase[s] = "create" /\ UNCHANGED moved
      BY <1>3 DEF CreateTripLog, S!CreateTripLog, S!ReplyLost, S!Created, history
    <2>2. log[s] = C!NoLog
      BY <2>1, SameNames DEF P!IInv, P!Stored, DocInv, Halves
    <2>3. \A t \in Sessions : Settled(t) => Settled(t)'
      BY <1>1, <2>1, <2>2 DEF Settled, C!NoLog
    <2>4. \A q \in Requests : C!Session(q) = s => pc[q] \notin Active
      BY <2>2 DEF DocInv, Owning, Active
    <2>5. \A q \in Requests : Outdated(q)'
      BY <1>1, <1>2, <2>4, CallOf DEF RetryInv, Outdated, Active
    <2>6. \A q \in Requests : Late(q)' /\ Acknowledged(q)'
      BY <1>1, <1>2, <2>1, <2>3, CallOf DEF RetryInv, Late, Acknowledged, DocInv, Asked
    <2> QED
      BY <1>1, <1>2, <2>5, <2>6 DEF RetryInv, Attributed
  <1>4. CASE Downstream(s)
    <2>1. /\ s \in moved' /\ log[s] \in Docs
          /\ log'[s].status # "PUBLISHED" /\ log'[s].etag = log[s].etag + 1
      <3>1. PICK status \in WorkerStatuses :
              log' = [log EXCEPT ![s] = [log[s] EXCEPT !.status = status, !.etag = log[s].etag + 1]]
        BY <1>4 DEF Downstream
      <3>2. log[s] \in Docs
        BY DEF DocInv, DocTypes
      <3>3. log'[s] = [log[s] EXCEPT !.status = status, !.etag = log[s].etag + 1]
        BY <3>1 DEF DocInv, DocTypes
      <3>4. log'[s].status = status /\ log'[s].etag = log[s].etag + 1
        BY <3>2, <3>3 DEF Docs
      <3> QED
        BY <1>4, <3>1, <3>2, <3>4, WorkerStatusesAssumption DEF Downstream
    <2>2. \A t \in Sessions : Settled(t) => Settled(t)'
      BY <1>1, <2>1 DEF Settled
    <2>3. log[s].etag \in Nat
      BY <2>1 DEF Docs
    <2>4. ASSUME NEW q \in Requests
          PROVE  Outdated(q)'
      <3>1. Outdated(q) /\ etag[q] \in Nat /\ (pc[q] # "idle" => C!Session(q) \in Sessions)
        BY CallOf DEF RetryInv
      <3>2. CASE C!Session(q) = s
        BY <1>1, <1>2, <2>1, <2>3, <3>1, <3>2 DEF Outdated
      <3>3. CASE C!Session(q) # s
        BY <1>1, <1>2, <3>1, <3>3 DEF Outdated, Active
      <3> QED
        BY <3>2, <3>3
    <2>5. \A q \in Requests : Late(q)' /\ Acknowledged(q)'
      BY <1>1, <1>2, <2>2, CallOf DEF RetryInv, Late, Acknowledged, DocInv, Asked
    <2> QED
      BY <1>1, <1>2, <2>4, <2>5 DEF RetryInv, Attributed
  <1> QED
    BY <1>3, <1>4

LEMMA RetryInvariance == Spec => []RetryInv
  <1>1. ASSUME DocInv, RetryInv, P!IInv, TypeOK, [Next]_vars
        PROVE  RetryInv'
    <2>1. CASE UNCHANGED <<completing, history>>
      BY <1>1, <2>1 DEF completing, history, RetryInv, Attributed, Outdated, Late,
                        Acknowledged, Settled, C!Session
    <2>2. ASSUME NEW r \in Requests, Complete(r)
          PROVE  RetryInv'
      <3>1. UNCHANGED history /\ (C!Step(r) \/ C!Fault(r))
        BY <2>2 DEF Complete
      <3> QED
        BY <1>1, <3>1, RetryMoves, RetryReplace DEF C!Step, C!Fault
    <2> QED
      BY <1>1, <2>1, <2>2, RetryArrive, RetryWritten
      DEF Next, vars, Tick, Create, PutBlob
  <1> QED
    BY <1>1, RetryInit, DocInvariance, SessionInv, SystemTypeCorrect, PTL DEF Spec

\* A retry that comes after another request was told that it published the
\* session adds no event, until a worker has moved the log on.
THEOREM LateRetryAddsNothingAlways == Spec => []LateRetryAddsNothing
  <1>1. RetryInv => LateRetryAddsNothing
    BY DEF RetryInv, Attributed, Late, LateRetryAddsNothing
  <1> QED
    BY <1>1, RetryInvariance, PTL

-----------------------------------------------------------------------------
\* Announced content

\* Every client that was given the paths of r's session had been told of an
\* expiry before r came.
Calm(r) ==
  \A s \in Sessions :
    answer[s] = "created" /\ SharePaths(s, C!Session(r)) => expires_at[s] <= arrival[r].at

\* What r found VALID is where its event says.
Stands(r) ==
  \A i \in valid[r] : Content(S!AnnouncedPath(C!Session(r), i)) = C!Files(r)[i]

\* What a request validates is in its manifest, and its session has a log.
Named(r) ==
  /\ todo[r] \subseteq DOMAIN C!Files(r)
  /\ pc[r] = "idle" => valid[r] = {} /\ todo[r] = {}
  /\ valid[r] # {} => record[C!Session(r)] # S!NoLog
  /\ pc[r] # "idle" => arrival[r].at <= now

StandInv ==
  /\ todo \in [Requests -> SUBSET Sources]
  /\ \A e \in hub : e.sources \subseteq valid[e.request]
  /\ \A r \in Requests : Named(r) /\ (Calm(r) => Stands(r))

LEMMA StandInit == Init => StandInv
  BY DEF Init, C!Init, StandInv, Named, Stands

\* Nothing of a session on record changes but its blobs.
LEMMA SessionFixed ==
  ASSUME P!IInv, [Next]_vars, NEW w \in Sessions, record[w] # S!NoLog
  PROVE  UNCHANGED <<record[w], timestamp[w], answer[w], expires_at[w]>>
  <1>1. phase[w] = "done"
    BY SameNames DEF P!IInv, P!Stored
  <1>2. ASSUME NEW s \in Sessions, Create(s) \/ CreateTripLog(s)
        PROVE  UNCHANGED <<record[w], timestamp[w], answer[w], expires_at[w]>>
    <2>1. /\ phase[s] # "done"
          /\ record' = [record EXCEPT ![s] = record'[s]]
          /\ timestamp' = [timestamp EXCEPT ![s] = timestamp'[s]]
          /\ answer' = [answer EXCEPT ![s] = answer'[s]]
          /\ expires_at' = [expires_at EXCEPT ![s] = expires_at'[s]]
      BY <1>2 DEF Create, CreateTripLog, S!Arrive, S!FindContainer, S!CreateContainer,
           S!Stamp, S!GenerateSas, S!NewTripLog, S!Crash, S!ServiceFails, S!CreateTripLog,
           S!ReplyLost, S!Created, S!Continue, S!End, P!IInv, P!TypeOK
    <2> QED
      BY <1>1, <2>1 DEF P!IInv, P!TypeOK
  <1>3. CASE UNCHANGED <<record, timestamp, answer, expires_at>>
    BY <1>3
  <1> QED
    BY <1>2, <1>3
    DEF Next, vars, creating, Tick, S!Tick, PutBlob, S!PutBlob, Arrive, Complete, Downstream

\* Once a request is not calm it never is again.
LEMMA CalmBefore ==
  ASSUME P!IInv, [Next]_vars, NEW r \in Requests, UNCHANGED <<C!Session(r), arrival[r]>>,
         C!Session(r) \in Sessions, record[C!Session(r)] # S!NoLog, Calm(r)'
  PROVE  Calm(r)
  <1> SUFFICES ASSUME NEW s \in Sessions, answer[s] = "created", SharePaths(s, C!Session(r))
               PROVE  expires_at[s] <= arrival[r].at
    BY DEF Calm
  <1>1. record[s] # S!NoLog
    BY DEF SharePaths
  <1>2. /\ UNCHANGED <<record[s], timestamp[s], answer[s], expires_at[s]>>
        /\ UNCHANGED <<record[C!Session(r)], timestamp[C!Session(r)]>>
    BY <1>1, SessionFixed
  <1>3. SharePaths(s, C!Session(r))'
    BY <1>2 DEF SharePaths, S!Joined, S!NoLog, S!NoCaller
  <1> QED
    BY <1>2, <1>3 DEF Calm

\* Who may write at an announced path was told of a later expiry.
LEMMA AnnouncedStays ==
  ASSUME P!IInv, StoreInv, StoreInv', [Next]_vars, NEW r \in Requests, NEW i \in Sources,
         UNCHANGED C!Session(r), C!Session(r) \in Sessions, record[C!Session(r)] # S!NoLog,
         Calm(r), arrival[r].at <= now, arrival[r].at \in Nat
  PROVE  Content(S!AnnouncedPath(C!Session(r), i))' = Content(S!AnnouncedPath(C!Session(r), i))
  <1> DEFINE s == C!Session(r)
             path == S!AnnouncedPath(s, i)
  <1>1. UNCHANGED path
    <2>1. UNCHANGED record[s]
      BY SessionFixed
    <2> QED
      BY <2>1 DEF S!AnnouncedPath
  <1>2. ASSUME NEW w \in Sessions, NEW j \in Sources, NEW content \in Contents,
               PutBlob(w, j, content)
        PROVE  path # S!TargetPath(w, j)
    <2>1. answer[w] = "created" /\ now < sas[w][j] /\ now \in Nat
      BY <1>2, SessionAssumption DEF PutBlob, S!PutBlob, P!IInv, P!TypeOK, S!TimeAssumption
    <2>2. sas[w][j] <= expires_at[w] /\ sas[w][j] \in Nat /\ expires_at[w] \in Nat
      BY DEF P!IInv, P!Signed, P!TypeOK, P!Sources, Sources
    <2>3. ~SharePaths(w, s)
      BY <2>1, <2>2 DEF Calm
    <2>4. /\ record[w] = P!DocumentOf(w) /\ record[w] # S!NoLog
          /\ record[s] = P!DocumentOf(s)
      BY <2>1, SameNames DEF P!IInv, P!Stored
    <2>5. /\ record[w].owner = caller[w] /\ record[s].owner = caller[s]
          /\ record[s].prefix = S!Prefix(caller[s], timestamp[s])
      BY <2>4 DEF P!DocumentOf, P!Prefix, S!Prefix, P!Joined, S!Joined
    <2>6. S!Prefix(caller[s], timestamp[s]) # S!Prefix(caller[w], timestamp[w])
      BY <2>3, <2>4, <2>5 DEF SharePaths, S!Prefix
    <2> QED
      BY <2>5, <2>6 DEF S!AnnouncedPath, S!TargetPath, S!BlobPath
  <1>3. CASE UNCHANGED store
    BY <1>1, <1>3 DEF Content
  <1>4. ASSUME NEW w \in Sessions, NEW j \in Sources, NEW content \in Contents,
               PutBlob(w, j, content)
        PROVE  Content(path)' = Content(path)
    <2>1. \A p : p # S!TargetPath(w, j) => Content(p)' = Content(p)
      BY <1>4, PutElsewhere
    <2> HIDE DEF path
    <2> QED
      BY <1>1, <1>2, <1>4, <2>1
  <1> QED
    BY <1>3, <1>4 DEF Next, vars, Tick, Create, CreateTripLog, Downstream, Complete, Arrive

\* A file found VALID is where the event will say: no midnight fell between.
LEMMA FoundIsAnnounced ==
  ASSUME P!IInv, StoreInv, NEW s \in Sessions, record[s] # S!NoLog, NEW i \in Sources,
         Found[s][i] # None
  PROVE  Content(S!AnnouncedPath(s, i)) = Found[s][i]
  <1>1. Found[s][i] = Content(S!LookupPath(s, i))
    BY DEF Found
  <1>2. PICK b \in store : b.path = S!LookupPath(s, i)
    BY <1>1 DEF Content
  <1>3. /\ b.writer \in Sessions /\ answer[b.writer] = "created"
        /\ b.path = S!TargetPath(b.writer, b.path.source)
    BY WriterOf
  <1>4. timestamp[b.writer] = timestamp[s]
    BY <1>2, <1>3, LooksThere DEF SharePaths
  <1>5. record[s].root = S!Day(timestamp[s])
    <2>1. record[s] = P!DocumentOf(s)
      BY SameNames DEF P!IInv, P!Stored
    <2>2. P!DocumentOf(s).root = P!Day(timestamp[s])
      BY DEF P!DocumentOf
    <2>3. P!Day(timestamp[s]) = S!Day(timestamp[s])
      BY DEF P!Day, S!Day
    <2> QED
      BY <2>1, <2>2, <2>3
  <1>6. S!Day(record[s].created_at) = S!Day(timestamp[s])
    BY <1>2, <1>3, <1>4 DEF S!LookupPath, S!TargetPath, S!BlobPath
  <1>7. S!AnnouncedPath(s, i) = S!LookupPath(s, i)
    BY <1>5, <1>6 DEF S!AnnouncedPath, S!LookupPath, S!BlobPath
  <1> QED
    BY <1>1, <1>7

\* How a step changes what its request has found.
LEMMA ValidSteps ==
  ASSUME DocInv, StandInv, NEW r \in Requests, C!Step(r) \/ C!Fault(r)
  PROVE  /\ UNCHANGED call /\ pc[r] # "idle" /\ pc'[r] # "idle"
         /\ todo' \in [Requests -> SUBSET Sources]
         /\ \A q \in Requests \ {r} : UNCHANGED <<pc[q], valid[q], todo[q]>>
         /\ todo'[r] \subseteq DOMAIN C!Files(r)
         /\ hub' \subseteq hub \cup {C!Event(r)}
         /\ \/ UNCHANGED valid
            \/ \E f \in Sources :
                 /\ valid' = [valid EXCEPT ![r] = @ \cup {f}]
                 /\ pc[r] = "validate" /\ f \in DOMAIN C!Files(r)
                 /\ Found[C!Session(r)][f] = C!Files(r)[f]
  <1>1. /\ pc \in [Requests -> C!Phases] /\ valid \in [Requests -> SUBSET Sources]
        /\ todo \in [Requests -> SUBSET Sources] /\ Named(r)
    BY DEF DocInv, DocTypes, StandInv
  <1>2. CASE \E f \in Sources : C!ValidateFile(r, f)
    <2>1. PICK f \in Sources : C!ValidateFile(r, f)
      BY <1>2
    <2>2. /\ pc[r] = "validate" /\ f \in todo[r] /\ UNCHANGED <<call, hub>>
          /\ pc' = [pc EXCEPT ![r] = pc'[r]] /\ pc'[r] \in {"store", "validate"}
          /\ todo' = [todo EXCEPT ![r] = @ \ {f}]
          /\ \/ UNCHANGED valid
             \/ valid' = [valid EXCEPT ![r] = @ \cup {f}] /\ C!Passes(r, f)
      BY <1>1, <2>1 DEF C!ValidateFile, C!Continue, C!services
    <2>3. f \in DOMAIN C!Files(r)
      BY <1>1, <2>2 DEF Named
    <2>4. C!Files(r) \in Manifests
      BY <2>2 DEF DocInv, Asked, C!Calls, C!Files
    <2>5. C!Files(r)[f] # C!Mixed
      BY <2>3, <2>4, CompleteAssumption
    <2>6. C!Passes(r, f) => Found[C!Session(r)][f] = C!Files(r)[f]
      BY <2>5 DEF C!Passes
    <2> QED
      BY <1>1, <2>2, <2>3, <2>6 DEF Named
  <1>3. CASE C!Claim(r)
    <2>1. call[r] \in C!Calls
      BY <1>3 DEF C!Claim, DocInv, Asked
    <2>2. C!Files(r) \in Manifests
      BY <2>1 DEF C!Calls, C!Files
    <2>3. DOMAIN C!Files(r) \in SUBSET Sources
      BY <2>2, CompleteAssumption DEF C!ManifestsAssumption
    <2> QED
      BY <1>1, <1>3, <2>3 DEF C!Claim, C!Replace, C!Returned, C!Continue
  <1>4. CASE C!GetTripLog(r) \/ C!Reread(r) \/ C!Store(r) \/ C!MarkPublished(r)
             \/ C!Conflict(r) \/ C!Publish(r) \/ C!Fault(r)
    <2>1. /\ UNCHANGED <<call, valid, todo>> /\ pc[r] # "idle"
          /\ hub' \subseteq hub \cup {C!Event(r)}
      BY <1>4 DEF C!GetTripLog, C!Reread, C!Store, C!MarkPublished, C!Conflict, C!Publish,
           C!Fault, C!Crash, C!CosmosFails, C!ReplyLost, C!BlobFails, C!PublishFails,
           C!Replace, C!Returned, C!services, C!Updating
    <2>2. pc' = [pc EXCEPT ![r] = pc'[r]] /\ pc'[r] # "idle"
      BY <1>1, <1>4, <2>1 DEF C!GetTripLog, C!Reread, C!Store, C!MarkPublished, C!Conflict, C!Publish,
           C!Fault, C!Crash, C!CosmosFails, C!ReplyLost, C!BlobFails, C!PublishFails,
           C!Continue, C!End
    <2> QED
      BY <1>1, <2>1, <2>2 DEF Named
  <1> QED
    BY <1>2, <1>3, <1>4 DEF C!Step

LEMMA StandStep ==
  ASSUME P!IInv, DocInv, StoreInv, StoreInv', RetryInv, TypeOK, StandInv, [Next]_vars
  PROVE  StandInv'
  <1>1. now <= now' /\ now \in Nat /\ now' \in Nat
    <2>1. now \in Nat
      BY SessionAssumption DEF P!IInv, P!TypeOK, S!TimeAssumption
    <2>2. now' = now \/ now' = now + 1
      BY DEF Next, vars, creating, Tick, S!Tick, Create, CreateTripLog, S!Arrive,
             S!FindContainer, S!CreateContainer, S!Stamp, S!GenerateSas, S!NewTripLog,
             S!Crash, S!ServiceFails, S!CreateTripLog, S!ReplyLost, S!Created, PutBlob,
             S!PutBlob, Arrive, Complete, Downstream
    <2> QED
      BY <2>1, <2>2
  <1>2. \A r \in Requests :
          Named(r) /\ (Calm(r) => Stands(r)) /\ arrival[r].at \in Nat
    BY SessionAssumption DEF StandInv, TypeOK, S!TimeAssumption
  <1>3. ASSUME NEW r \in Requests, pc[r] # "idle", UNCHANGED <<call[r], arrival[r], valid[r]>>
        PROVE  (/\ Calm(r) => Stands(r)
                /\ valid[r] # {} => record[C!Session(r)] # S!NoLog
                /\ arrival[r].at <= now)'
    <2> DEFINE s == C!Session(r)
    <2>1. UNCHANGED s /\ s \in Sessions /\ arrival[r].at <= now
      BY <1>2, <1>3, CallOf DEF C!Session, Named
    <2>2. (arrival[r].at <= now)'
      BY <1>1, <1>2, <1>3, <2>1
    <2>3. ASSUME valid[r] # {}
          PROVE  record[s] # S!NoLog /\ record'[s] = record[s]
      BY <1>2, <2>1, <2>3, SessionFixed DEF Named
    <2>4. (valid[r] # {} => record[s] # S!NoLog)'
      BY <1>3, <2>1, <2>3 DEF S!NoLog, S!NoCaller
    <2>5. ASSUME Calm(r)', NEW i \in valid[r]
          PROVE  Content(S!AnnouncedPath(s, i))' = C!Files(r)[i]
      <3>1. record[s] # S!NoLog /\ i \in Sources
        BY <2>3 DEF DocInv, DocTypes
      <3>2. Calm(r)
        BY <1>3, <2>1, <2>5, <3>1, CalmBefore
      <3>3. Content(S!AnnouncedPath(s, i))' = Content(S!AnnouncedPath(s, i))
        BY <1>2, <2>1, <3>1, <3>2, AnnouncedStays
      <3> QED
        BY <1>2, <2>5, <3>2, <3>3 DEF Stands
    <2>6. C!Files(r)' = C!Files(r)
      BY <1>3 DEF C!Files
    <2> QED
      BY <1>3, <2>2, <2>4, <2>5, <2>6 DEF Stands
  <1>4. ASSUME NEW r \in Requests, UNCHANGED <<pc[r], call[r], arrival[r], valid[r], todo[r]>>
        PROVE  (Named(r) /\ (Calm(r) => Stands(r)))'
    <2>1. UNCHANGED C!Files(r)
      BY <1>4 DEF C!Files
    <2>2. CASE pc[r] = "idle"
      BY <1>2, <1>4, <2>1, <2>2 DEF Named, Stands
    <2>3. CASE pc[r] # "idle"
      BY <1>2, <1>3, <1>4, <2>1, <2>3 DEF Named
    <2> QED
      BY <2>2, <2>3
  <1>5. ASSUME NEW r \in Requests, Complete(r)
        PROVE  StandInv'
    <2> DEFINE s == C!Session(r)
    <2>1. UNCHANGED <<now, record, timestamp, answer, expires_at, store, arrival>>
          /\ (C!Step(r) \/ C!Fault(r))
      BY <1>5 DEF Complete, creating, history
    <2>2. /\ UNCHANGED call /\ pc[r] # "idle" /\ pc'[r] # "idle"
          /\ todo' \in [Requests -> SUBSET Sources]
          /\ \A q \in Requests \ {r} : UNCHANGED <<pc[q], valid[q], todo[q]>>
          /\ todo'[r] \subseteq DOMAIN C!Files(r)
          /\ hub' \subseteq hub \cup {C!Event(r)}
          /\ \/ UNCHANGED valid
             \/ \E f \in Sources :
                  /\ valid' = [valid EXCEPT ![r] = @ \cup {f}]
                  /\ pc[r] = "validate" /\ f \in DOMAIN C!Files(r)
                  /\ Found[s][f] = C!Files(r)[f]
      BY <2>1, ValidSteps
    <2>3. \A q \in Requests : valid[q] \subseteq valid'[q]
      BY <2>2 DEF DocInv, DocTypes
    <2>4. \A e \in hub' : e.sources \subseteq valid'[e.request]
      <3>1. C!Event(r).request = r /\ C!Event(r).sources = valid[r]
        BY DEF C!Event
      <3> QED
        BY <2>2, <2>3, <3>1 DEF StandInv, RetryInv, Attributed
    <2>5. \A q \in Requests \ {r} : (Named(q) /\ (Calm(q) => Stands(q)))'
      BY <1>4, <2>1, <2>2
    <2>6. UNCHANGED C!Files(r) /\ UNCHANGED s /\ s \in Sessions
      BY <2>2, CallOf DEF C!Files, C!Session
    <2>7. CASE UNCHANGED valid
      BY <1>3, <2>1, <2>2, <2>4, <2>5, <2>6, <2>7 DEF StandInv, Named
    <2>8. ASSUME NEW f \in Sources, valid' = [valid EXCEPT ![r] = @ \cup {f}],
                 pc[r] = "validate", f \in DOMAIN C!Files(r), Found[s][f] = C!Files(r)[f]
          PROVE  StandInv'
      <3>1. valid'[r] = valid[r] \cup {f}
        BY <2>8 DEF DocInv, DocTypes
      <3>2. record[s] # S!NoLog
        BY <2>6, <2>8 DEF DocInv, Owning, Halves
      <3>3. Found[s][f] # None
        <4>1. C!Files(r) \in Manifests
          BY <2>2 DEF DocInv, Asked, C!Calls, C!Files
        <4>2. C!Files(r)[f] \in Contents
          BY <2>8, <4>1, CompleteAssumption DEF C!ManifestsAssumption
        <4> QED
          BY <2>8, <4>2, CompleteAssumption DEF C!NoneAssumption
      <3>4. Content(S!AnnouncedPath(s, f)) = C!Files(r)[f]
        BY <2>6, <2>8, <3>2, <3>3, FoundIsAnnounced
      <3>5. Calm(r)' => Calm(r)
        BY <2>1, <2>6 DEF Calm, SharePaths, S!Joined, S!NoLog, S!NoCaller
      <3>6. \A i : Content(S!AnnouncedPath(s, i))' = Content(S!AnnouncedPath(s, i))
        BY <2>1, <2>6 DEF S!AnnouncedPath, Content
      <3>7. (Calm(r) => Stands(r))'
        BY <1>2, <2>6, <3>1, <3>4, <3>5, <3>6 DEF Stands
      <3>8. Named(r)'
        BY <1>2, <2>1, <2>2, <2>6, <3>2 DEF Named, S!NoLog, S!NoCaller
      <3> QED
        BY <2>2, <2>4, <2>5, <3>7, <3>8 DEF StandInv
    <2> QED
      BY <2>2, <2>7, <2>8
  <1>6. ASSUME NEW r \in Requests, NEW c \in C!Calls, Arrive(r, c)
        PROVE  StandInv'
    <2>1. /\ pc[r] = "idle" /\ UNCHANGED <<hub, valid, todo, now>>
          /\ pc' = [pc EXCEPT ![r] = "get"] /\ call' = [call EXCEPT ![r] = c]
          /\ \A q \in Requests \ {r} : UNCHANGED arrival[q]
          /\ arrival'[r].at = now
      BY <1>6 DEF Arrive, C!Arrive, C!services, creating, TypeOK
    <2>2. \A q \in Requests \ {r} : (Named(q) /\ (Calm(q) => Stands(q)))'
      BY <1>4, <2>1 DEF DocInv, DocTypes
    <2>3. valid[r] = {} /\ todo[r] = {}
      BY <1>2, <2>1 DEF Named
    <2>4. (Named(r) /\ (Calm(r) => Stands(r)))'
      BY <1>1, <2>1, <2>3 DEF Named, Stands, DocInv, DocTypes
    <2> QED
      BY <2>1, <2>2, <2>4 DEF StandInv
  <1>7. CASE UNCHANGED <<hub, pc, call, arrival, valid, todo>>
    BY <1>4, <1>7 DEF StandInv
  <1> QED
    BY <1>5, <1>6, <1>7
    DEF Next, vars, completing, history, Tick, Create, CreateTripLog, PutBlob, Downstream

\* What an event announces stays at the path it gives, with the content its
\* request described, if that came after every expiry that clients with those
\* paths were told.
THEOREM AnnouncedContentStandsAlways == Spec => []AnnouncedContentStands
  <1>1. RetryInv /\ StandInv => AnnouncedContentStands
    <2> SUFFICES ASSUME RetryInv, StandInv, NEW e \in hub,
                        \A s \in Sessions :
                          answer[s] = "created" /\ SharePaths(s, e.session)
                            => expires_at[s] <= arrival[e.request].at,
                        NEW i \in e.sources
                 PROVE  Content(S!AnnouncedPath(e.session, i)) = C!Files(e.request)[i]
      BY DEF AnnouncedContentStands
    <2>1. e.request \in Requests /\ e.session = C!Session(e.request) /\ i \in valid[e.request]
      BY DEF RetryInv, Attributed, StandInv
    <2> QED
      BY <2>1 DEF StandInv, Calm, Stands
  <1> QED
    BY <1>1, StandInit, StandStep, RetryInvariance, SessionInv, DocInvariance,
       StoreInvariance, SystemTypeCorrect, PTL DEF Spec
=============================================================================
