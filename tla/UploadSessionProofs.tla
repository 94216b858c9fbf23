------------------------ MODULE UploadSessionProofs ------------------------
(***************************************************************************)
(* Type correctness and the safety of UploadSession, for any calls,        *)
(* callers, number of sources, SAS lifetime and length of the day.  What   *)
(* carries them: a trip log is made of its call's own variables, which no  *)
(* step changes once it is stored; a client writes only after that, and    *)
(* only where the call's timestamp says; and expires_at follows the clock, *)
(* so that the SAS made last expires last.                                 *)
(***************************************************************************)
EXTENDS UploadSession, TLAPS

\* A call has a caller once it is taken, and an answer once it ended.
Called ==
  \A s \in Sessions :
    /\ pc[s] # "idle" => caller[s] \in Callers
    /\ pc[s] = "done" <=> response[s] # "none"

\* The document a call makes of its variables.
DocumentOf(s) ==
  [owner |-> caller[s], created_at |-> created_at[s],
   root |-> Day(timestamp[s]), prefix |-> Prefix(caller[s], timestamp[s])]

\* A call that stored its log has ended; a call answered 201 has stored it.
Stored ==
  \A s \in Sessions :
    /\ log[s] # NoLog => pc[s] = "done" /\ log[s] = DocumentOf(s)
    /\ response[s] = "created" => log[s] # NoLog

\* The SAS made last expires last, and the loop leaves none out.
Signed ==
  \A s \in Sessions :
    /\ expires_at[s] <= now + Ttl
    /\ \A i \in Sources : sas[s][i] <= expires_at[s]
    /\ pc[s] \in {"new_log", "create"} \/ response[s] = "created"
         => \A i \in Sources : sas[s][i] > 0

\* Clients write where their call told them, once it told them.
Written ==
  \A b \in landing :
    response[b.writer] = "created" /\ b.path = TargetPath(b.writer, b.path.source)

IInv == TypeOK /\ Called /\ Stored /\ Signed /\ Written

-----------------------------------------------------------------------------
LEMMA DayType == \A t \in Nat : Day(t) \in Nat
  BY TimeAssumption DEF Day

\* A caller is not the caller of an empty log.
LEMMA CallersAreSome == NoCaller \notin Callers
  BY CallersAssumption, NoneAssumption DEF NoCaller

LEMMA PathTypes ==
  ASSUME NEW c \in Callers, NEW t \in 0 .. MaxTime, NEW i \in Sources
  PROVE  Prefix(c, t) \in Prefixes /\ BlobPath(i, t, Prefix(c, t)) \in BlobPaths
  BY DayType, TimeAssumption DEF Prefix, Prefixes, BlobPath, BlobPaths

\* Two callers with user ids of as many parts read the same once joined only
\* if they are the same.
LEMMA JoinedInjective ==
  ASSUME NEW c \in Callers, NEW d \in Callers, Joined(c) = Joined(d),
         Len(c.user) = Len(d.user)
  PROVE  c = d
  <1>1. /\ c.user \in Seq(STRING) /\ c.route \in Seq(STRING)
        /\ d.user \in Seq(STRING) /\ d.route \in Seq(STRING)
        /\ c = [user |-> c.user, route |-> c.route]
        /\ d = [user |-> d.user, route |-> d.route]
    BY CallersAssumption
  <1>2. c.user \o c.route = d.user \o d.route
    BY DEF Joined
  <1>3. c.user = d.user
    <2>1. \A k \in 1 .. Len(c.user) : c.user[k] = (c.user \o c.route)[k]
                                      /\ d.user[k] = (d.user \o d.route)[k]
      BY <1>1
    <2> QED
      BY <1>1, <1>2, <2>1
  <1>4. c.route = d.route
    <2>1. Len(c.route) = Len(d.route)
      BY <1>1, <1>2
    <2>2. \A k \in 1 .. Len(c.route) :
            /\ c.route[k] = (c.user \o c.route)[k + Len(c.user)]
            /\ d.route[k] = (d.user \o d.route)[k + Len(d.user)]
      BY <1>1, <2>1
    <2> QED
      BY <1>1, <1>2, <2>1, <2>2
  <1> QED
    BY <1>1, <1>3, <1>4

LEMMA InitInv == Init => IInv
  <1> SUFFICES ASSUME Init PROVE IInv
    OBVIOUS
  <1>1. TypeOK
    BY TimeAssumption DEF Init, TypeOK, Phases, Responses
  <1>2. Called /\ Stored /\ Signed /\ Written
    BY TimeAssumption DEF Init, Called, Stored, Signed, Written
  <1> QED
    BY <1>1, <1>2 DEF IInv

\* Time passes.
LEMMA InvTick == IInv /\ Tick => IInv'
  <1> SUFFICES ASSUME IInv, Tick PROVE IInv'
    OBVIOUS
  <1>1. TypeOK'
    BY TimeAssumption DEF IInv, TypeOK, Tick
  <1>2. Called' /\ Stored' /\ Written'
    BY DEF IInv, Tick, Called, Stored, DocumentOf, Written, TargetPath
  <1>3. Signed'
    BY TimeAssumption DEF IInv, TypeOK, Tick, Signed
  <1> QED
    BY <1>1, <1>2, <1>3 DEF IInv

\* A step of call s before its log is stored: it touches the variables of no
\* other call, neither logs nor blobs, and does not answer 201.
Own(s) ==
  /\ pc[s] # "done" /\ pc'[s] # "idle"
  /\ UNCHANGED <<now, log, landing>>
  /\ \A q \in Sessions \ {s} :
       /\ pc'[q] = pc[q] /\ response'[q] = response[q] /\ caller'[q] = caller[q]
       /\ timestamp'[q] = timestamp[q] /\ sas'[q] = sas[q]
       /\ expires_at'[q] = expires_at[q] /\ created_at'[q] = created_at[q]
  /\ response'[s] # "created" /\ (pc'[s] = "done" <=> response'[s] # "none")

\* Such a step keeps the invariant if it keeps the types and s its SAS in order.
LEMMA InvOwn ==
  ASSUME IInv, NEW s \in Sessions, Own(s), TypeOK', caller'[s] \in Callers,
         expires_at'[s] <= now + Ttl,
         \A i \in Sources : sas'[s][i] <= expires_at'[s],
         pc'[s] \in {"new_log", "create"} => \A i \in Sources : sas'[s][i] > 0
  PROVE  IInv'
  <1>1. Called'
    BY DEF IInv, Own, Called
  <1>2. Stored'
    <2>1. \A q \in Sessions : log[q] # NoLog => q # s
      BY DEF IInv, Stored, Own
    <2>2. \A q \in Sessions : response'[q] = "created" => q # s
      BY DEF Own
    <2> QED
      BY <2>1, <2>2 DEF IInv, Stored, Own, DocumentOf
  <1>3. Signed'
    BY DEF IInv, Signed, Own
  <1>4. Written'
    <2> SUFFICES ASSUME NEW b \in landing
                 PROVE  response'[b.writer] = "created"
                        /\ b.path = TargetPath(b.writer, b.path.source)'
      BY DEF Own, Written
    <2>1. b.writer \in Sessions /\ response[b.writer] = "created"
          /\ b.path = TargetPath(b.writer, b.path.source)
      BY DEF IInv, TypeOK, Written
    <2>2. b.writer # s
      BY <2>1 DEF IInv, Called, Own
    <2> QED
      BY <2>1, <2>2 DEF Own, TargetPath
  <1> QED
    BY <1>1, <1>2, <1>3, <1>4 DEF IInv

LEMMA InvArrive ==
  ASSUME IInv, NEW s \in Sessions, NEW c \in Callers, Arrive(s, c)
  PROVE  IInv'
  <1> USE DEF IInv
  <1>1. TypeOK'
    BY DEF Arrive, Continue, TypeOK, Phases
  <1>2. Own(s) /\ caller'[s] \in Callers
    BY DEF Arrive, Continue, TypeOK, Own, Called
  <1> QED
    BY <1>1, <1>2, InvOwn DEF Arrive, Continue, TypeOK, Signed

\* The steps that only move the call on.
LEMMA InvMoves ==
  ASSUME IInv, NEW s \in Sessions,
         FindContainer(s) \/ CreateContainer(s) \/ Crash(s) \/ ServiceFails(s)
  PROVE  IInv'
  <1> USE DEF IInv
  <1>1. TypeOK'
    BY DEF FindContainer, CreateContainer, Crash, ServiceFails, Continue, End,
           TypeOK, Phases, Responses
  <1>2. Own(s) /\ caller'[s] \in Callers /\ pc'[s] \notin {"new_log", "create"}
        /\ UNCHANGED <<sas, expires_at>>
    BY DEF FindContainer, CreateContainer, Crash, ServiceFails, Continue, End, TypeOK,
           Own, Called, Phases
  <1> QED
    BY <1>1, <1>2, InvOwn DEF Signed

LEMMA InvStamp == ASSUME IInv, NEW s \in Sessions, Stamp(s) PROVE IInv'
  <1> USE DEF IInv
  <1>1. TypeOK'
    BY DEF Stamp, Continue, TypeOK, Phases
  <1>2. Own(s) /\ caller'[s] \in Callers /\ pc'[s] = "sas" /\ UNCHANGED <<sas, expires_at>>
    BY DEF Stamp, Continue, TypeOK, Own, Called
  <1> QED
    BY <1>1, <1>2, InvOwn DEF Signed

LEMMA InvGenerateSas ==
  ASSUME IInv, NEW s \in Sessions, NEW i \in Sources, GenerateSas(s, i)
  PROVE  IInv'
  <1> USE DEF IInv
  <1>1. now + Ttl \in Nat /\ now + Ttl > 0
    BY TimeAssumption DEF TypeOK
  <1>2. TypeOK'
    BY <1>1 DEF GenerateSas, AnnouncedExpiry, Continue, TypeOK, Phases
  <1>3. Own(s) /\ caller'[s] \in Callers
    BY DEF GenerateSas, Continue, TypeOK, Own, Called
  <1>4. /\ expires_at'[s] = now + Ttl
        /\ \A j \in Sources : sas'[s][j] = IF j = i THEN now + Ttl ELSE sas[s][j]
        /\ \A j \in 1 .. (i - 1) : sas[s][j] # 0
        /\ pc'[s] = IF i = NumSources THEN "new_log" ELSE "sas"
    BY DEF GenerateSas, AnnouncedExpiry, Continue, TypeOK
  <1>5. \A j \in Sources : sas'[s][j] <= expires_at'[s]
    <2>1. \A j \in Sources : /\ sas[s][j] \in Nat /\ expires_at[s] \in Nat
                             /\ sas[s][j] <= expires_at[s] /\ expires_at[s] <= now + Ttl
      BY DEF TypeOK, Signed
    <2> HIDE DEF IInv
    <2> QED
      BY <1>1, <1>4, <2>1
  <1>6. pc'[s] \in {"new_log", "create"} => \A j \in Sources : sas'[s][j] > 0
    <2>1. \A j \in Sources : j = i \/ (i = NumSources => j \in 1 .. (i - 1))
      BY NumSourcesAssumption DEF Sources
    <2>2. \A j \in Sources : sas[s][j] \in Nat
      BY DEF TypeOK
    <2> HIDE DEF IInv
    <2> QED
      BY <1>1, <1>4, <2>1, <2>2
  <1> QED
    BY <1>1, <1>2, <1>3, <1>4, <1>5, <1>6, InvOwn DEF TypeOK

LEMMA InvNewTripLog == ASSUME IInv, NEW s \in Sessions, NewTripLog(s) PROVE IInv'
  <1> USE DEF IInv
  <1>1. TypeOK'
    BY DEF NewTripLog, Continue, TypeOK, Phases
  <1>2. Own(s) /\ caller'[s] \in Callers /\ pc[s] = "new_log" /\ UNCHANGED <<sas, expires_at>>
    BY DEF NewTripLog, Continue, TypeOK, Own, Called
  <1> QED
    BY <1>1, <1>2, InvOwn DEF Signed

\* The document is stored; the answer is 201 or, if the reply is lost, an error.
LEMMA InvCreated ==
  ASSUME IInv, NEW s \in Sessions, CreateTripLog(s) \/ ReplyLost(s)
  PROVE  IInv'
  <1> USE DEF IInv
  <1>1. /\ pc[s] = "create" /\ caller[s] \in Callers
        /\ log' = [log EXCEPT ![s] = DocumentOf(s)]
        /\ UNCHANGED <<now, container, caller, timestamp, sas, expires_at, created_at, landing>>
        /\ pc' = [pc EXCEPT ![s] = "done"]
        /\ \E answer \in {"created", "error"} : response' = [response EXCEPT ![s] = answer]
    BY DEF CreateTripLog, ReplyLost, Created, End, Called, DocumentOf, StoredPrefix
  <1>2. DocumentOf(s) \in TripLogs /\ DocumentOf(s) # NoLog
    BY <1>1, PathTypes, DayType, CallersAreSome, NumSourcesAssumption, TimeAssumption
       DEF TypeOK, DocumentOf, TripLogs, NoLog, Sources
  <1>3. TypeOK'
    BY <1>1, <1>2 DEF TypeOK, Phases, Responses
  <1>4. Called'
    BY <1>1 DEF TypeOK, Called
  <1>5. Stored'
    <2>1. \A q \in Sessions : DocumentOf(q)' = DocumentOf(q)
      BY <1>1 DEF DocumentOf
    <2> QED
      BY <1>1, <1>2, <2>1 DEF TypeOK, Stored
  <1>6. Signed'
    BY <1>1 DEF TypeOK, Signed
  <1>7. Written'
    BY <1>1 DEF TypeOK, Called, Written, TargetPath
  <1> QED
    BY <1>3, <1>4, <1>5, <1>6, <1>7

LEMMA InvPutBlob ==
  ASSUME IInv, NEW s \in Sessions, NEW i \in Sources, PutBlob(s, i)
  PROVE  IInv'
  <1> USE DEF IInv
  <1> DEFINE put == [path |-> TargetPath(s, i), writer |-> s]
  <1>1. caller[s] \in Callers /\ timestamp[s] \in 0 .. MaxTime
    BY DEF PutBlob, Called, TypeOK
  <1>2. TargetPath(s, i) \in BlobPaths /\ TargetPath(s, i).source = i
    BY <1>1, PathTypes DEF TargetPath, BlobPath
  <1>3. landing' \subseteq landing \cup {put}
    BY DEF PutBlob
  <1>4. TypeOK'
    BY <1>2, <1>3 DEF PutBlob, TypeOK
  <1>5. Written'
    <2>1. \A b \in landing' : b \in landing \/ b = put
      BY <1>3
    <2> QED
      BY <1>2, <2>1 DEF PutBlob, Written, TargetPath
  <1>6. Called' /\ Stored' /\ Signed'
    BY DEF PutBlob, Called, Stored, DocumentOf, Signed
  <1> QED
    BY <1>4, <1>5, <1>6

LEMMA InvStutter == ASSUME IInv, UNCHANGED vars PROVE IInv'
  BY DEF vars, IInv, TypeOK, Called, Stored, DocumentOf, Signed, Written, TargetPath

\* The invariant holds for any calls, callers and settings.
THEOREM SessionInvariance == Spec => []IInv
  <1>1. IInv /\ [Next]_vars => IInv'
    BY InvTick, InvArrive, InvMoves, InvStamp, InvGenerateSas, InvNewTripLog, InvCreated,
       InvPutBlob, InvStutter DEF Next, Step
  <1> QED
    BY <1>1, InitInv, PTL DEF Spec

-----------------------------------------------------------------------------
\* Every variable of session creation keeps its type.
THEOREM SessionTypeCorrect == Spec => []TypeOK
  BY SessionInvariance, PTL DEF IInv

\* No SAS of a session outlives the expiry its client was told.
THEOREM AnnouncedExpiryCoversSasAlways == Spec => []AnnouncedExpiryCoversSas
  <1>1. IInv => AnnouncedExpiryCoversSas
    BY DEF IInv, Signed, AnnouncedExpiryCoversSas
  <1> QED
    BY <1>1, SessionInvariance, PTL

\* The readings of the clock come in order: a call's timestamp, those its SAS
\* are dated by, and created_at.
Timed ==
  \A s \in Sessions :
    /\ timestamp[s] <= now
    /\ pc[s] \in {"idle", "container", "create_container", "stamp"}
         => \A i \in Sources : sas[s][i] = 0
    /\ \A i \in Sources : sas[s][i] # 0 => timestamp[s] + Ttl <= sas[s][i]
    /\ pc[s] = "create" \/ response[s] = "created" => expires_at[s] <= created_at[s] + Ttl

LEMMA TimedNext ==
  ASSUME IInv, Timed, [Next]_vars
  PROVE  Timed'
  <1>1. now \in Nat /\ Ttl \in Nat /\ TypeOK
    BY TimeAssumption DEF IInv, TypeOK
  <1>2. CASE Tick
    BY <1>1, <1>2, TimeAssumption DEF Tick, Timed, TypeOK
  <1>3. ASSUME NEW s \in Sessions, NEW c \in Callers, Arrive(s, c)
        PROVE  Timed'
    BY <1>1, <1>3 DEF Arrive, Continue, Timed, TypeOK
  <1>4. ASSUME NEW s \in Sessions,
               FindContainer(s) \/ CreateContainer(s) \/ Crash(s) \/ ServiceFails(s)
        PROVE  Timed'
    <2>1. /\ UNCHANGED <<now, timestamp, sas, expires_at, created_at>>
          /\ \A q \in Sessions \ {s} : pc'[q] = pc[q] /\ response'[q] = response[q]
          /\ \/ pc[s] = "container" /\ pc'[s] \in {"create_container", "stamp", "done"}
             \/ pc[s] = "create_container" /\ pc'[s] \in {"stamp", "done"}
             \/ pc'[s] = "done"
          /\ response'[s] = "created" => response[s] = "created"
      BY <1>1, <1>4 DEF FindContainer, CreateContainer, Crash, ServiceFails, Continue, End, TypeOK
    <2> QED
      BY <2>1 DEF Timed
  <1>5. ASSUME NEW s \in Sessions, Stamp(s)
        PROVE  Timed'
    <2>1. /\ UNCHANGED <<now, sas, expires_at, created_at, response>>
          /\ pc[s] = "stamp" /\ pc'[s] = "sas" /\ timestamp'[s] = now
          /\ \A q \in Sessions \ {s} : pc'[q] = pc[q] /\ timestamp'[q] = timestamp[q]
      BY <1>1, <1>5 DEF Stamp, Continue, TypeOK
    <2>2. response[s] # "created"
      BY <2>1 DEF IInv, Called
    <2> QED
      BY <1>1, <2>1, <2>2 DEF Timed
  <1>6. ASSUME NEW s \in Sessions, NEW i \in Sources, GenerateSas(s, i)
        PROVE  Timed'
    <2>1. /\ UNCHANGED <<now, timestamp, created_at, response>>
          /\ pc[s] = "sas" /\ pc'[s] \in {"sas", "new_log"}
          /\ sas'[s] = [sas[s] EXCEPT ![i] = now + Ttl]
          /\ \A q \in Sessions \ {s} :
               pc'[q] = pc[q] /\ sas'[q] = sas[q] /\ expires_at'[q] = expires_at[q]
      BY <1>1, <1>6 DEF GenerateSas, Continue, TypeOK
    <2>2. response[s] # "created"
      BY <2>1 DEF IInv, Called
    <2>3. \A j \in Sources : sas'[s][j] # 0 => timestamp[s] + Ttl <= sas'[s][j]
      <3>1. timestamp[s] \in Nat /\ timestamp[s] <= now /\ sas[s] \in [Sources -> Nat]
        BY <1>1, TimeAssumption DEF Timed, TypeOK
      <3> QED
        BY <1>1, <2>1, <3>1 DEF Timed
    <2> QED
      BY <2>1, <2>2, <2>3 DEF Timed
  <1>7. ASSUME NEW s \in Sessions, NewTripLog(s)
        PROVE  Timed'
    <2>1. /\ UNCHANGED <<now, timestamp, sas, expires_at, response>>
          /\ pc[s] = "new_log" /\ pc'[s] = "create" /\ created_at'[s] = now
          /\ \A q \in Sessions \ {s} : pc'[q] = pc[q] /\ created_at'[q] = created_at[q]
      BY <1>1, <1>7 DEF NewTripLog, Continue, TypeOK
    <2>2. expires_at[s] <= now + Ttl
      BY DEF IInv, Signed
    <2> QED
      BY <2>1, <2>2 DEF Timed
  <1>8. ASSUME NEW s \in Sessions, CreateTripLog(s) \/ ReplyLost(s)
        PROVE  Timed'
    <2>1. /\ UNCHANGED <<now, timestamp, sas, expires_at, created_at>>
          /\ pc[s] = "create" /\ pc'[s] = "done"
          /\ \A q \in Sessions \ {s} : pc'[q] = pc[q] /\ response'[q] = response[q]
      BY <1>1, <1>8 DEF CreateTripLog, ReplyLost, Created, End, TypeOK
    <2> QED
      BY <2>1 DEF Timed
  <1>9. CASE UNCHANGED <<now, timestamp, pc, sas, expires_at, created_at, response>>
    BY <1>9 DEF Timed
  <1> QED
    BY <1>2, <1>3, <1>4, <1>5, <1>6, <1>7, <1>8, <1>9 DEF Next, Step, PutBlob, vars

LEMMA TimedInvariance == Spec => []Timed
  <1>1. Init => Timed
    <2> SUFFICES ASSUME Init, NEW s \in Sessions
                 PROVE  /\ timestamp[s] <= now
                        /\ \A i \in Sources : sas[s][i] = 0
                        /\ pc[s] = "idle" /\ response[s] = "none"
      BY DEF Timed
    <2> QED
      BY DEF Init
  <1> QED
    BY <1>1, TimedNext, SessionInvariance, PTL DEF Spec

\* No client is cut off earlier than the expiry it was told by more than the
\* time its session took to create.
THEOREM CutOffIsShortAlways == Spec => []CutOffIsShort
  <1>1. IInv /\ Timed => CutOffIsShort
    <2> SUFFICES ASSUME IInv, Timed, NEW s \in Sessions, NEW i \in Sources,
                        response[s] = "created"
                 PROVE  expires_at[s] + timestamp[s] <= sas[s][i] + created_at[s]
      BY DEF CutOffIsShort
    <2>1. sas[s][i] > 0
      BY DEF IInv, Signed
    <2>2. timestamp[s] + Ttl <= sas[s][i] /\ expires_at[s] <= created_at[s] + Ttl
      BY <2>1 DEF Timed, IInv, TypeOK
    <2>3. /\ timestamp[s] \in Nat /\ created_at[s] \in Nat /\ Ttl \in Nat
          /\ sas[s][i] \in Nat /\ expires_at[s] \in Nat
      BY TimeAssumption DEF IInv, TypeOK
    <2> QED
      BY <2>2, <2>3
  <1> QED
    BY <1>1, SessionInvariance, TimedInvariance, PTL

\* Where a log says its blobs are, they were written.
LEMMA BlobOfLog ==
  ASSUME IInv, NEW b \in landing
  PROVE  /\ b.writer \in Sessions /\ response[b.writer] = "created"
         /\ log[b.writer] # NoLog /\ log[b.writer] = DocumentOf(b.writer)
         /\ b.path = TargetPath(b.writer, b.path.source)
  BY DEF IInv, TypeOK, Written, Stored

\* Uploads are found, unless a midnight fell between two readings of the clock.
THEOREM FoundWhereUploadedAlways == Spec => []FoundWhereUploaded
  <1>1. ASSUME IInv, NEW b \in landing,
               Day(created_at[b.writer]) = Day(timestamp[b.writer])
        PROVE  b.path = LookupPath(b.writer, b.path.source)
    <2>1. log[b.writer] = DocumentOf(b.writer) /\ b.path = TargetPath(b.writer, b.path.source)
      BY <1>1, BlobOfLog
    <2>2. /\ log[b.writer].created_at = created_at[b.writer]
          /\ log[b.writer].prefix = Prefix(caller[b.writer], timestamp[b.writer])
      BY <2>1 DEF DocumentOf
    <2>3. LookupPath(b.writer, b.path.source) = TargetPath(b.writer, b.path.source)
      BY <1>1, <2>2 DEF LookupPath, TargetPath, BlobPath
    <2> QED
      BY <2>1, <2>3
  <1>2. IInv => FoundWhereUploaded
    BY <1>1 DEF FoundWhereUploaded
  <1> QED
    BY <1>2, SessionInvariance, PTL

\* What a session's lookup finds is its own, or of callers that read the same.
THEOREM IsolationAlways == Spec => []Isolation
  <1>1. ASSUME IInv, NEW b \in landing, NEW s \in Sessions,
               log[s] # NoLog, b.path = LookupPath(s, b.path.source)
        PROVE  /\ Joined(log[b.writer].owner) = Joined(log[s].owner)
               /\ Len(log[b.writer].owner.user) = Len(log[s].owner.user)
                    => log[b.writer].owner = log[s].owner
               /\ timestamp[b.writer] = timestamp[s]
    <2>1. log[s] = DocumentOf(s) /\ caller[s] \in Callers
      BY <1>1 DEF IInv, Stored, Called
    <2>2. log[b.writer] = DocumentOf(b.writer) /\ caller[b.writer] \in Callers
          /\ b.path = TargetPath(b.writer, b.path.source)
      BY <1>1, BlobOfLog DEF IInv, Called
    <2>3. Prefix(caller[b.writer], timestamp[b.writer]) = Prefix(caller[s], timestamp[s])
      BY <1>1, <2>1, <2>2 DEF LookupPath, TargetPath, BlobPath, DocumentOf
    <2>4. Joined(caller[b.writer]) = Joined(caller[s]) /\ timestamp[b.writer] = timestamp[s]
      BY <2>3 DEF Prefix
    <2>5. log[b.writer].owner = caller[b.writer] /\ log[s].owner = caller[s]
      BY <2>1, <2>2 DEF DocumentOf
    <2> QED
      BY <2>1, <2>2, <2>4, <2>5, JoinedInjective
  <1>2. IInv => Isolation
    BY <1>1 DEF Isolation
  <1> QED
    BY <1>2, SessionInvariance, PTL

\* Every blob in the container belongs to a session on record.
THEOREM BlobsHaveLogsAlways == Spec => []BlobsHaveLogs
  <1>1. ASSUME IInv, NEW b \in landing
        PROVE  log[b.writer] # NoLog /\ b.path.prefix = log[b.writer].prefix
    <2>1. /\ log[b.writer] # NoLog /\ log[b.writer] = DocumentOf(b.writer)
          /\ b.path = TargetPath(b.writer, b.path.source)
      BY <1>1, BlobOfLog
    <2>2. log[b.writer].prefix = Prefix(caller[b.writer], timestamp[b.writer])
      BY <2>1 DEF DocumentOf
    <2>3. TargetPath(b.writer, b.path.source).prefix
            = Prefix(caller[b.writer], timestamp[b.writer])
      BY DEF TargetPath, BlobPath
    <2> QED
      BY <2>1, <2>2, <2>3
  <1>2. IInv => BlobsHaveLogs
    BY <1>1 DEF BlobsHaveLogs
  <1> QED
    BY <1>2, SessionInvariance, PTL

-----------------------------------------------------------------------------
\* Session creation implements the grants

\* The steps of a call before its log is stored.
LEMMA OwnSteps ==
  ASSUME IInv, NEW s \in Sessions,
         \/ \E c \in Callers : Arrive(s, c)
         \/ FindContainer(s) \/ CreateContainer(s) \/ Stamp(s)
         \/ \E i \in Sources : GenerateSas(s, i)
         \/ NewTripLog(s) \/ Crash(s) \/ ServiceFails(s)
  PROVE  Own(s)
  <1> USE DEF IInv, TypeOK, Called, Own
  <1>1. CASE \E c \in Callers : Arrive(s, c)
    BY <1>1 DEF Arrive, Continue
  <1>2. CASE FindContainer(s) \/ CreateContainer(s) \/ Crash(s) \/ ServiceFails(s)
    BY <1>2 DEF FindContainer, CreateContainer, Crash, ServiceFails, Continue, End
  <1>3. CASE Stamp(s)
    BY <1>3 DEF Stamp, Continue
  <1>4. CASE \E i \in Sources : GenerateSas(s, i)
    BY <1>4 DEF GenerateSas, Continue
  <1>5. CASE NewTripLog(s)
    BY <1>5 DEF NewTripLog, Continue
  <1> QED
    BY <1>1, <1>2, <1>3, <1>4, <1>5

\* What the client of a session was told, as the grants have it.
Told(s) ==
  IF response[s] = "created"
  THEN [second |-> timestamp[s], until |-> expires_at[s]]
  ELSE [second |-> 0, until |-> 0]

\* They change nobody's grant.
LEMMA OwnIsQuiet ==
  ASSUME IInv, NEW s \in Sessions, Own(s)
  PROVE  UNCHANGED Grants!vars
  <1>1. response[s] # "created" /\ response'[s] # "created"
    BY DEF IInv, Called, Own
  <1>2. \A q \in Sessions : Told(q)' = Told(q)
    BY <1>1 DEF Told, Own
  <1>3. [q \in Sessions |-> Told(q)]' = [q \in Sessions |-> Told(q)]
    BY <1>2
  <1> QED
    BY <1>3 DEF Own, Grants!vars, Told

\* The log is stored: the session is on record, and granted if the client
\* learns of it.
LEMMA StoredIsGranted ==
  ASSUME IInv, Timed, NEW s \in Sessions, CreateTripLog(s) \/ ReplyLost(s),
         NEW c \in Callers, caller[s] = c
  PROVE  Grants!Record(s, c) \/ Grants!Grant(s, c)
  <1> DEFINE owner == [q \in Sessions |-> log[q].owner]
             grant == [q \in Sessions |-> Told(q)]
  <1>1. /\ pc[s] = "create" /\ UNCHANGED <<now, caller, timestamp, expires_at, landing>>
        /\ log' = [log EXCEPT ![s] = DocumentOf(s)]
    BY DEF CreateTripLog, ReplyLost, Created, DocumentOf, StoredPrefix
  <1>2. log[s] = NoLog /\ response[s] = "none"
    BY <1>1 DEF IInv, Stored, Called
  <1>3. owner[s] = NoCaller /\ owner' = [owner EXCEPT ![s] = caller[s]]
    <2>1. \A q \in Sessions : log'[q] = IF q = s THEN DocumentOf(s) ELSE log[q]
      BY <1>1 DEF IInv, TypeOK
    <2>2. \A q \in Sessions : log'[q].owner = IF q = s THEN caller[s] ELSE log[q].owner
      BY <2>1 DEF DocumentOf
    <2>3. owner' = [owner EXCEPT ![s] = caller[s]]
      BY <2>2
    <2>4. owner[s] = NoCaller
      BY <1>2 DEF NoLog
    <2> QED
      BY <2>3, <2>4
  <1>4. CASE CreateTripLog(s)
    <2> DEFINE second == timestamp[s]
               until == expires_at[s]
    <2>1. response' = [response EXCEPT ![s] = "created"]
      BY <1>4 DEF CreateTripLog, End
    <2>2. grant' = [grant EXCEPT ![s] = [second |-> second, until |-> until]]
      <3>1. \A q \in Sessions : response'[q] = IF q = s THEN "created" ELSE response[q]
        BY <2>1 DEF IInv, TypeOK
      <3>2. \A q \in Sessions :
              Told(q)' = IF q = s THEN [second |-> second, until |-> until] ELSE Told(q)
        BY <1>1, <3>1 DEF Told
      <3> QED
        BY <3>2
    <2>3. /\ second \in Nat /\ until \in Nat /\ now \in Nat /\ Ttl \in Nat
          /\ sas[s][1] \in Nat /\ 1 \in Sources
      BY TimeAssumption, NumSourcesAssumption DEF IInv, TypeOK, Sources
    <2>4. second <= now /\ until <= now + Ttl /\ sas[s][1] <= until /\ sas[s][1] > 0
      BY <1>1, <2>3 DEF IInv, Signed, Timed
    <2>5. second + Ttl <= sas[s][1]
      BY <2>3, <2>4 DEF Timed
    <2>6. second \in 0 .. now /\ until \in 0 .. (now + Ttl) /\ second + Ttl <= until
      BY <2>3, <2>4, <2>5
    <2> HIDE DEF second, until
    <2> QED
      BY <1>1, <1>3, <2>2, <2>6 DEF Grants!Grant, Told
  <1>5. CASE ReplyLost(s)
    <2>1. response' = [response EXCEPT ![s] = "error"]
      BY <1>5 DEF ReplyLost, End
    <2>2. \A q \in Sessions : Told(q)' = Told(q)
      BY <1>1, <1>2, <2>1 DEF IInv, TypeOK, Told
    <2>3. grant' = grant
      BY <2>2
    <2> QED
      BY <1>1, <1>3, <2>3 DEF Grants!Record, Told
  <1> QED
    BY <1>4, <1>5

\* A write that storage accepts is one the client was told of.
LEMMA WriteIsGranted ==
  ASSUME IInv, NEW s \in Sessions, NEW i \in Sources, PutBlob(s, i)
  PROVE  Grants!Put(s, i)
  <1>1. /\ response[s] = "created" /\ now < sas[s][i]
        /\ UNCHANGED <<now, log, response, timestamp, expires_at>>
    BY DEF PutBlob
  <1>2. now < expires_at[s]
    BY <1>1 DEF IInv, TypeOK, Signed
  <1>3. /\ log[s].owner = caller[s] /\ caller[s] \in Callers
        /\ timestamp[s] \in 0 .. MaxTime
    BY <1>1 DEF IInv, TypeOK, Called, Stored, DocumentOf
  <1>4. [c \in Callers |-> [t \in 0 .. MaxTime |->
           [j \in Sources |-> BlobPath(j, t, Prefix(c, t))]]][log[s].owner][timestamp[s]][i]
             = TargetPath(s, i)
    BY <1>3 DEF TargetPath
  <1> QED
    BY <1>1, <1>2, <1>4 DEF PutBlob, Grants!Put

\* Any number of calls, however they interleave and fail, hand out what the
\* grants allow, and storage accepts no write beyond it.
THEOREM SessionImplementsGrants == Spec => RefinesGrants
  <1>1. Init => Grants!Init
    BY DEF Init, NoLog, Grants!Init, Grants!NoGrant
  <1>2. ASSUME IInv, Timed, Next
        PROVE  Grants!Next \/ UNCHANGED Grants!vars
    <2>1. CASE Tick
      BY <2>1 DEF Tick, Grants!Tick, Grants!Next
    <2>2. ASSUME NEW s \in Sessions, CreateTripLog(s) \/ ReplyLost(s)
          PROVE  Grants!Next
      <3>1. caller[s] \in Callers
        BY <1>2, <2>2 DEF CreateTripLog, ReplyLost, Created, IInv, Called
      <3>2. \E c \in Callers : Grants!Record(s, c) \/ Grants!Grant(s, c)
        BY <1>2, <2>2, <3>1, StoredIsGranted
      <3> QED
        BY <3>2 DEF Grants!Next
    <2>3. ASSUME NEW s \in Sessions, NEW i \in Sources, PutBlob(s, i)
          PROVE  Grants!Next
      BY <1>2, <2>3, WriteIsGranted DEF Grants!Next
    <2> QED
      BY <1>2, <2>1, <2>2, <2>3, OwnSteps, OwnIsQuiet DEF Next, Step
  <1>3. UNCHANGED vars => UNCHANGED Grants!vars
    BY DEF vars, Grants!vars
  <1>4. IInv /\ Timed /\ [Next]_vars => [Grants!Next]_(Grants!vars)
    BY <1>2, <1>3
  <1> QED
    BY <1>1, <1>4, SessionInvariance, TimedInvariance, PTL DEF Spec, RefinesGrants, Grants!Spec
=============================================================================
