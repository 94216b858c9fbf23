--------------------- MODULE UploadCompleteProgressProofs ---------------------
(***************************************************************************)
(* What requests make of each other's writes: none is told of a conflict   *)
(* that there was not, they do not all give up on a session, and none goes *)
(* on for ever.                                                            *)
(***************************************************************************)
EXTENDS UploadCompleteProofs, FiniteSetTheorems

-----------------------------------------------------------------------------
\* Conflicts are real

Rivalled(r) == \E q \in Requests \ {r} : pc[q] # "idle" /\ Session(q) = Session(r)

\* A request that its session has to itself is current until it ends.
SoloInv ==
  \A r \in Requests :
    /\ pc[r] \in InFlight => Current(r) \/ Rivalled(r)
    /\ response[r] = "conflict" => Rivalled(r)

\* A request that arrived stays, with its call; so does a rival.
LEMMA RivalStays ==
  ASSUME CoreInv, Next
  PROVE  /\ \A q \in Requests : pc[q] # "idle" => pc'[q] # "idle" /\ call'[q] = call[q]
         /\ \A r \in Requests : pc[r] # "idle" /\ Rivalled(r) => Rivalled(r)'
  <1>1. ASSUME Client
        PROVE  \A q \in Requests : pc[q] # "idle" => pc'[q] # "idle" /\ call'[q] = call[q]
    <2>1. ASSUME NEW r \in Requests, NEW c \in Calls, Arrive(r, c)
          PROVE  \A q \in Requests : pc[q] # "idle" => pc'[q] # "idle" /\ call'[q] = call[q]
      BY <2>1 DEF Arrive, CoreInv, TypeOK
    <2> QED
      BY <1>1, <2>1 DEF Client, CreateSession, PutBlob, ExpireSas, requests
  <1>2. ASSUME NEW r \in Requests, Step(r) \/ Fault(r)
        PROVE  /\ pc'[r] # "idle" /\ UNCHANGED call
               /\ \A q \in Requests \ {r} : pc'[q] = pc[q]
    <2>1. UNCHANGED call
      BY <1>2 DEF Step, GetTripLog, Reread, Claim, Store, MarkPublished, Returned, Conflict,
                  ValidateFile, Publish, Fault, Crash, CosmosFails, ReplyLost, BlobFails,
                  PublishFails
    <2>2. \/ pc[r] \in Updating /\ UNCHANGED pc
          \/ \E phase \in Phases \ {"idle"} : pc' = [pc EXCEPT ![r] = phase]
      BY <1>2 DEF Step, GetTripLog, Reread, Claim, Store, MarkPublished, Conflict, ValidateFile,
                  Publish, Fault, Crash, CosmosFails, ReplyLost, BlobFails, PublishFails,
                  Continue, End, Phases
    <2> QED
      BY <2>1, <2>2 DEF CoreInv, TypeOK, Updating
  <1>3. \A q \in Requests : pc[q] # "idle" => pc'[q] # "idle" /\ call'[q] = call[q]
    BY <1>1, <1>2 DEF Next
  <1> QED
    BY <1>3 DEF Rivalled, Session

LEMMA SoloClient == ASSUME CoreInv, SoloInv, Client PROVE SoloInv'
  <1>1. Next
    BY DEF Next
  <1>2. UNCHANGED <<etag, response>>
        /\ \A r \in Requests : pc'[r] \in InFlight => pc'[r] = pc[r]
    BY DEF Client, CreateSession, PutBlob, ExpireSas, Arrive, services, requests, CoreInv, TypeOK,
           InFlight
  <1>3. \A r \in Requests : pc[r] \in InFlight => log'[Session(r)].etag = log[Session(r)].etag
    <2> SUFFICES ASSUME NEW r \in Requests, pc[r] \in InFlight
                 PROVE  log'[Session(r)] = log[Session(r)]
      OBVIOUS
    <2>1. log[Session(r)] # NoLog
      BY DEF CoreInv, RequestInv, OneRequest, OwnerInFlight
    <2>2. ASSUME NEW s \in Sessions, NEW u \in Users, CreateSession(s, u)
          PROVE  log'[Session(r)] = log[Session(r)]
      <3>1. s # Session(r)
        BY <2>1, <2>2 DEF CreateSession
      <3>2. Session(r) \in Sessions
        BY CallFacts DEF CoreInv, InFlight
      <3> QED
        BY <2>2, <3>1, <3>2 DEF CreateSession, CoreInv, TypeOK
    <2> QED
      BY <2>2 DEF Client, PutBlob, ExpireSas, Arrive, services
  <1>4. \A r \in Requests : response[r] = "conflict" => pc[r] # "idle"
    BY DEF CoreInv, RequestInv, OneRequest, AnsweredAtEnd
  <1>5. \A r \in Requests : pc[r] \in InFlight => Session(r)' = Session(r)
    BY <1>1, RivalStays DEF Session, InFlight
  <1> QED
    BY <1>1, <1>2, <1>3, <1>4, <1>5, RivalStays DEF SoloInv, Current, InFlight

\* Of the others, only those of the same session notice a request's step.
LEMMA SoloOthers ==
  ASSUME CoreInv, SoloInv, NEW r \in Requests, Step(r) \/ Fault(r), NEW q \in Requests, q # r
  PROVE  /\ pc'[q] \in InFlight => Current(q)' \/ Rivalled(q)'
         /\ response'[q] = "conflict" => Rivalled(q)'
  <1>1. Next
    BY DEF Next
  <1>2. pc'[q] = pc[q] /\ etag'[q] = etag[q] /\ response'[q] = response[q]
        /\ UNCHANGED call
    BY DEF Step, GetTripLog, Reread, Claim, Store, MarkPublished, Conflict, ValidateFile,
           Publish, Fault, Crash, CosmosFails, ReplyLost, BlobFails, PublishFails,
           Continue, End, Returned, NewEtag, CoreInv, TypeOK
  <1>3. response[q] = "conflict" => pc[q] # "idle"
    BY DEF CoreInv, RequestInv, OneRequest, AnsweredAtEnd
  <1>4. CASE log'[Session(q)] = log[Session(q)]
    BY <1>1, <1>2, <1>3, <1>4, RivalStays DEF SoloInv, Current, InFlight, Session
  <1>5. CASE log'[Session(q)] # log[Session(q)] /\ pc[q] # "idle"
    <2>1. Session(q) \in Sessions
      BY <1>5, CallFacts DEF CoreInv
    <2>2. log = log' \/ Replace(r)
      BY DEF Step, GetTripLog, Reread, Claim, Store, MarkPublished, Conflict, ValidateFile,
             Publish, Fault, Crash, CosmosFails, ReplyLost, BlobFails, PublishFails, services
    <2>3. Session(q) = Session(r) /\ pc[r] # "idle"
      BY <1>5, <2>1, <2>2, ReplaceFacts DEF Replace, Updating, CoreInv, TypeOK
    <2>4. Rivalled(q)
      BY <2>3 DEF Rivalled
    <2> QED
      BY <1>1, <1>5, <2>4, RivalStays
  <1> QED
    BY <1>2, <1>3, <1>4, <1>5 DEF InFlight

\* A request's own step: its replace brings it up to date, and only a request
\* that was not ends in a conflict.
LEMMA SoloOwn ==
  ASSUME CoreInv, SoloInv, NEW r \in Requests, Step(r) \/ Fault(r)
  PROVE  /\ pc'[r] \in InFlight => Current(r)' \/ Rivalled(r)'
         /\ response'[r] = "conflict" => Rivalled(r)'
  <1>1. Next /\ pc[r] # "idle" /\ Session(r)' = Session(r)
    <2>1. Next
      BY DEF Next
    <2>2. pc[r] # "idle"
      BY DEF Step, GetTripLog, Reread, Claim, Store, MarkPublished, Conflict, ValidateFile,
             Publish, Fault, Crash, CosmosFails, ReplyLost, BlobFails, PublishFails, Updating,
             Replace
    <2> QED
      BY <2>1, <2>2, RivalStays DEF Session
  <1>2. response[r] # "conflict" \/ pc[r] = "done"
    BY DEF CoreInv, RequestInv, OneRequest, AnsweredAtEnd
  <1>3. CASE GetTripLog(r)
    BY <1>1, <1>2, <1>3 DEF GetTripLog, End, Continue, services, Current, CoreInv, TypeOK, InFlight
  <1>4. CASE Reread(r) \/ Publish(r) \/ \E f \in Sources : ValidateFile(r, f)
    <2>1. pc[r] \in InFlight /\ UNCHANGED <<log, etag, response>>
      BY <1>4 DEF Reread, Publish, ValidateFile, Continue, services, Updating, InFlight
    <2> QED
      BY <1>1, <1>2, <2>1, RivalStays DEF SoloInv, Current, InFlight
  <1>5. CASE Claim(r) \/ Store(r) \/ MarkPublished(r)
    <2>1. Replace(r) /\ NewEtag(r)
      BY <1>5 DEF Claim, Store, MarkPublished, Returned
    <2>2. etag'[r] = log[Session(r)].etag + 1
      BY <2>1 DEF NewEtag, CoreInv, TypeOK
    <2>3. log'[Session(r)].etag = log[Session(r)].etag + 1
      <3>1. Updated(r) \in TripLogs
        BY <2>1, UpdatedType DEF CoreInv, Replace
      <3> QED
        BY <2>1, <3>1, ReplaceFacts DEF CoreInv, TypeOK, TripLogs
    <2>4. response'[r] # "conflict"
      BY <1>2, <1>5 DEF Claim, Store, MarkPublished, Continue, End, CoreInv, TypeOK
    <2> QED
      BY <1>1, <2>2, <2>3, <2>4 DEF Current
  <1>6. CASE Conflict(r)
    <2>1. pc[r] \in InFlight /\ ~Current(r) /\ pc'[r] = "done"
      BY <1>6 DEF Conflict, Updating, InFlight, EtagMatches, EffectiveEtag, Current, End, CoreInv,
                  TypeOK
    <2> QED
      BY <1>1, <2>1, RivalStays DEF SoloInv, InFlight
  <1>7. CASE Fault(r)
    <2>1. pc'[r] = "done" /\ response'[r] # "conflict"
      BY <1>7 DEF Fault, Crash, CosmosFails, ReplyLost, BlobFails, PublishFails, End, CoreInv,
                  TypeOK
    <2> QED
      BY <2>1 DEF InFlight
  <1> QED
    BY <1>3, <1>4, <1>5, <1>6, <1>7 DEF Step

\* A conflict is answered only where another request has come.
THEOREM SoloNeverConflictsAlways == Spec => []SoloNeverConflicts
  <1>1. Init => SoloInv
    BY DEF Init, SoloInv, InFlight
  <1>2. CoreInv /\ SoloInv /\ [Next]_vars => SoloInv'
    <2>1. CASE UNCHANGED vars
      BY <2>1 DEF vars, SoloInv, Current, Rivalled, Session
    <2>2. ASSUME CoreInv, SoloInv, NEW r \in Requests, Step(r) \/ Fault(r)
          PROVE  SoloInv'
      BY <2>2, SoloOthers, SoloOwn DEF SoloInv
    <2> QED
      BY <2>1, <2>2, SoloClient DEF Next
  <1>3. SoloInv => SoloNeverConflicts
    BY DEF SoloInv, SoloNeverConflicts, Rivalled
  <1> QED
    BY <1>1, <1>2, <1>3, CoreInvariance, PTL DEF Spec

-----------------------------------------------------------------------------
\* Somebody goes on

AtWork == {"validate", "store", "publish", "mark"}

CutOff == {"crashed", "unavailable", "error"}

\* The request that keeps session s from being stranded.
Keeper(r, s) ==
  /\ pc[r] # "idle" /\ Session(r) = s
  /\ \/ pc[r] \in AtWork /\ etag[r] = log[s].etag
     \/ response[r] \in CutOff

LEMMA StrandedClient == ASSUME CoreInv, NeverStranded, Client PROVE NeverStranded'
  <1>1. /\ UNCHANGED <<etag, response>>
        /\ \A q \in Requests : pc[q] # "idle" => pc'[q] = pc[q] /\ call'[q] = call[q]
    BY DEF Client, CreateSession, PutBlob, ExpireSas, Arrive, services, requests, CoreInv, TypeOK
  <1>2. \A s \in Sessions : log'[s] = log[s] \/ log'[s].status = "RECEIVED"
    BY DEF Client, CreateSession, NewTripLog, NoLog, PutBlob, ExpireSas, Arrive, services,
           CoreInv, TypeOK
  <1> QED
    BY <1>1, <1>2 DEF NeverStranded, Session

\* The writer of a document is its keeper, if it is left with more to do.
LEMMA WriterKeeps ==
  ASSUME CoreInv, NEW r \in Requests, Step(r) \/ Fault(r), Replace(r),
         log'[Session(r)].status \in {"VALIDATING", "VALIDATED"}
  PROVE  \/ pc'[r] \in AtWork /\ etag'[r] = log'[Session(r)].etag
         \/ response'[r] \in CutOff
  <1>1. /\ Session(r) \in Sessions /\ pc[r] \in Updating
        /\ existing[r] # NoLog /\ EtagMatches(r)
    BY ReplaceFacts DEF Replace
  <1>2. log'[Session(r)].etag = log[Session(r)].etag + 1
    BY UpdatedFields
  <1>3. CASE Claim(r) \/ Store(r) \/ MarkPublished(r)
    <2>1. etag'[r] = log[Session(r)].etag + 1
      BY <1>3 DEF Claim, Store, MarkPublished, Returned, NewEtag, CoreInv, TypeOK
    <2>2. ~MarkPublished(r) /\ (Store(r) => AllValid(r))
      BY UpdatedFields DEF MarkPublished, Store, Verdict
    <2>3. pc'[r] \in {"validate", "publish"}
      BY <1>3, <2>2 DEF Claim, Store, Continue, CoreInv, TypeOK
    <2> QED
      BY <1>2, <2>1, <2>3 DEF AtWork
  <1>4. CASE Fault(r)
    BY <1>1, <1>4 DEF Fault, Crash, CosmosFails, ReplyLost, BlobFails, PublishFails, End,
                      Updating, CoreInv, TypeOK, CutOff
  <1>5. ~(GetTripLog(r) \/ Reread(r) \/ Conflict(r) \/ Publish(r)
          \/ \E f \in Sources : ValidateFile(r, f))
    BY <1>1 DEF GetTripLog, Reread, Conflict, Publish, ValidateFile, Updating
  <1> QED
    BY <1>3, <1>4, <1>5 DEF Step

\* A keeper whose document nobody writes stays one.
LEMMA KeeperGoesOn ==
  ASSUME CoreInv, NEW r \in Requests, Step(r) \/ Fault(r),
         pc[r] \in AtWork, etag[r] = log[Session(r)].etag, UNCHANGED log
  PROVE  (pc'[r] \in AtWork /\ etag'[r] = etag[r]) \/ response'[r] \in CutOff
  <1>1. ~Replace(r)
    BY UpdatedFields, ReplaceFacts
  <1>2. CASE Reread(r) \/ Publish(r) \/ \E f \in Sources : ValidateFile(r, f)
    BY <1>2 DEF Reread, Publish, ValidateFile, Continue, CoreInv, TypeOK, AtWork
  <1>3. CASE Fault(r)
    BY <1>3 DEF Fault, Crash, CosmosFails, ReplyLost, BlobFails, PublishFails, End, CoreInv,
                TypeOK, CutOff
  <1>4. ~(GetTripLog(r) \/ Claim(r) \/ Store(r) \/ MarkPublished(r) \/ Conflict(r))
    BY <1>1 DEF GetTripLog, Claim, Store, MarkPublished, Conflict, EtagMatches, EffectiveEtag,
                AtWork
  <1> QED
    BY <1>2, <1>3, <1>4 DEF Step

LEMMA StrandedStep ==
  ASSUME CoreInv, NeverStranded, NEW r \in Requests, Step(r) \/ Fault(r)
  PROVE  NeverStranded'
  <1> SUFFICES ASSUME NEW s \in Sessions, log'[s].status \in {"VALIDATING", "VALIDATED"}
               PROVE  \E q \in Requests : Keeper(q, s)'
    BY DEF NeverStranded, Keeper, AtWork, CutOff
  <1>1. /\ pc[r] \notin {"idle", "done"} /\ pc'[r] # "idle" /\ UNCHANGED call
        /\ \A q \in Requests \ {r} : pc'[q] = pc[q] /\ response'[q] = response[q]
        /\ UNCHANGED log \/ Replace(r)
    BY Answers
  <1>2. \A q \in Requests \ {r} : etag'[q] = etag[q]
    BY DEF Step, GetTripLog, Reread, Claim, Store, MarkPublished, Conflict, ValidateFile, Publish,
           Fault, Crash, CosmosFails, ReplyLost, BlobFails, PublishFails, Returned, NewEtag,
           CoreInv, TypeOK
  <1>3. \A q \in Requests : Session(q)' = Session(q)
    BY <1>1 DEF Session
  <1>4. CASE Replace(r) /\ s = Session(r)
    <2>1. Keeper(r, s)'
      BY <1>1, <1>3, <1>4, WriterKeeps DEF Keeper
    <2> QED
      BY <2>1
  <1>5. CASE ~(Replace(r) /\ s = Session(r))
    <2>1. log'[s] = log[s]
      BY <1>1, <1>5, ReplaceFacts DEF CoreInv, TypeOK
    <2>2. PICK q \in Requests : Keeper(q, s)
      BY <2>1 DEF NeverStranded, Keeper, AtWork, CutOff
    <2>3. CASE q # r
      BY <1>1, <1>2, <1>3, <2>1, <2>2, <2>3 DEF Keeper
    <2>4. CASE q = r
      <3>1. response[r] \notin CutOff
        BY <1>1 DEF CoreInv, RequestInv, OneRequest, AnsweredAtEnd, CutOff
      <3>2. UNCHANGED log
        BY <1>1, <1>5, <2>2, <2>4 DEF Keeper
      <3>3. Keeper(r, s)'
        BY <1>1, <1>3, <2>2, <2>4, <3>1, <3>2, KeeperGoesOn DEF Keeper
      <3> QED
        BY <3>3
    <2> QED
      BY <2>3, <2>4
  <1> QED
    BY <1>4, <1>5

\* A session that says VALIDATING or VALIDATED has a request at work on it
\* whose next write is in time, or one that a fault cut off.
THEOREM NeverStrandedAlways == Spec => []NeverStranded
  <1>1. Init => NeverStranded
    BY DEF Init, NoLog, NeverStranded
  <1>2. CoreInv /\ NeverStranded /\ [Next]_vars => NeverStranded'
    <2>1. ASSUME NeverStranded, UNCHANGED vars
          PROVE  NeverStranded'
      BY <2>1 DEF vars, NeverStranded, Session
    <2> QED
      BY <2>1, StrandedClient, StrandedStep DEF Next
  <1> QED
    BY <1>1, <1>2, CoreInvariance, PTL DEF Spec

-----------------------------------------------------------------------------
\* Nobody goes on for ever

LEMMA Counts ==
  /\ Cardinality(Sources) \in Nat
  /\ \A S \in SUBSET Sources :
       /\ Cardinality(S) \in Nat /\ Cardinality(S) <= Cardinality(Sources)
       /\ \A f \in S : Cardinality(S \ {f}) = Cardinality(S) - 1
  BY SourcesAssumption, FS_CardinalityType, FS_Subset, FS_RemoveElement

\* Where a request's own step takes it.
LEMMA OwnStepRunsOut ==
  ASSUME CoreInv, NEW r \in Requests, Step(r) \/ Fault(r)
  PROVE  StepsLeft(r)' < StepsLeft(r)
  <1> DEFINE n == Cardinality(Sources)
  <1>1. n \in Nat
    BY Counts
  <1>2. pc \in [Requests -> Phases] /\ existing \in [Requests -> TripLogs]
        /\ todo \in [Requests -> SUBSET Sources]
    BY DEF CoreInv, TypeOK
  <1>3. pc[r] \in {"idle", "get", "validate", "publish"} => existing[r] = NoLog
    BY DEF CoreInv, RequestInv, OneRequest, RereadInFlight
  <1>4. Cardinality(todo[r]) \in Nat /\ Cardinality(todo[r]) <= n
    BY <1>2, Counts
  <1> HIDE DEF n
  <1>5. ASSUME pc[r] \notin {"idle", "done"}, pc'[r] = "done"
        PROVE  StepsLeft(r)' < StepsLeft(r)
    BY <1>1, <1>2, <1>4, <1>5 DEF StepsLeft, Phases, n
  <1>6. CASE GetTripLog(r)
    <2>1. pc[r] = "get" /\ pc'[r] \in {"claim", "done"} /\ UNCHANGED existing
      BY <1>2, <1>6 DEF GetTripLog, End, Continue
    <2> QED
      BY <1>1, <1>3, <1>5, <2>1 DEF StepsLeft, n
  <1>7. CASE Reread(r)
    <2>1. pc[r] \in Updating /\ existing[r] = NoLog /\ UNCHANGED pc
          /\ existing'[r] = log[Session(r)]
      BY <1>2, <1>7 DEF Reread
    <2>2. log[Session(r)] # NoLog
      BY <2>1 DEF CoreInv, RequestInv, OneRequest, OwnerInFlight, Updating, InFlight
    <2> QED
      BY <1>1, <2>1, <2>2 DEF StepsLeft, Updating, n
  <1>8. CASE Claim(r)
    <2>1. /\ pc[r] = "claim" /\ existing[r] # NoLog
          /\ pc'[r] = "validate" /\ todo'[r] = DOMAIN Files(r)
      BY <1>2, <1>8 DEF Claim, Replace, Continue
    <2>2. DOMAIN Files(r) \in SUBSET Sources
      BY <2>1, CallFacts DEF CoreInv
    <2>3. Cardinality(todo'[r]) \in Nat /\ Cardinality(todo'[r]) <= n
      BY <2>1, <2>2, Counts DEF n
    <2> QED
      BY <1>1, <2>1, <2>3 DEF StepsLeft, n
  <1>9. CASE Store(r) \/ MarkPublished(r)
    <2>1. CASE Store(r)
      <3>1. pc[r] = "store" /\ existing[r] # NoLog
        BY <2>1 DEF Store, Replace
      <3>2. pc'[r] \in {"publish", "done"}
        BY <1>2, <2>1 DEF Store, Continue, End
      <3> QED
        BY <1>1, <1>5, <3>1, <3>2 DEF StepsLeft
    <2>2. CASE MarkPublished(r)
      BY <1>2, <1>5, <2>2 DEF MarkPublished, End
    <2> QED
      BY <1>9, <2>1, <2>2
  <1>10. CASE Conflict(r)
    BY <1>2, <1>5, <1>10 DEF Conflict, End, Updating
  <1>11. ASSUME NEW f \in Sources, ValidateFile(r, f)
         PROVE  StepsLeft(r)' < StepsLeft(r)
    <2>1. /\ pc[r] = "validate" /\ f \in todo[r] /\ todo'[r] = todo[r] \ {f}
          /\ pc'[r] = IF todo[r] = {f} THEN "store" ELSE "validate"
          /\ UNCHANGED existing
      BY <1>2, <1>11 DEF ValidateFile, Continue
    <2>2. Cardinality(todo'[r]) = Cardinality(todo[r]) - 1 /\ Cardinality(todo'[r]) \in Nat
      <3>1. todo[r] \in SUBSET Sources /\ todo[r] \ {f} \in SUBSET Sources
        BY <1>2
      <3> QED
        BY <2>1, <3>1, Counts
    <2> QED
      BY <1>3, <1>4, <2>1, <2>2 DEF StepsLeft
  <1>12. CASE Publish(r)
    <2>1. pc[r] = "publish" /\ pc'[r] = "mark" /\ UNCHANGED existing
      BY <1>2, <1>12 DEF Publish, Continue
    <2> QED
      BY <1>3, <2>1 DEF StepsLeft
  <1>13. CASE Fault(r)
    BY <1>2, <1>5, <1>13 DEF Fault, Crash, CosmosFails, ReplyLost, BlobFails, PublishFails, End,
                             Replace, Updating
  <1> QED
    BY <1>6, <1>7, <1>8, <1>9, <1>10, <1>11, <1>12, <1>13 DEF Step

\* A request's own step brings it nearer its end, and no other sets it back.
THEOREM RunsOutAlways == Spec => RunsOut
  <1> DEFINE Stays(q) == UNCHANGED <<pc[q], existing[q], todo[q]>>
  <1>1. ASSUME CoreInv, NEW r \in Requests, Step(r) \/ Fault(r), NEW q \in Requests, q # r
        PROVE  Stays(q)
    BY <1>1 DEF Step, GetTripLog, Reread, Claim, Store, MarkPublished, Conflict, ValidateFile,
                Publish, Fault, Crash, CosmosFails, ReplyLost, BlobFails, PublishFails, Returned,
                Continue, End, CoreInv, TypeOK
  <1>2. ASSUME CoreInv, NEW r \in Requests, NEW c \in Calls, Arrive(r, c), NEW q \in Requests
        PROVE  Stays(q) \/ StepsLeft(q)' < StepsLeft(q)
    <2>1. /\ pc[r] = "idle" /\ pc'[r] = "get" /\ UNCHANGED <<existing, todo>>
          /\ \A p \in Requests \ {r} : pc'[p] = pc[p]
      BY <1>2 DEF Arrive, CoreInv, TypeOK
    <2>2. StepsLeft(r)' < StepsLeft(r)
      BY <2>1, Counts DEF StepsLeft
    <2> QED
      BY <2>1, <2>2
  <1>3. ASSUME CoreInv, [Next]_vars, NEW q \in Requests
        PROVE  Stays(q) \/ StepsLeft(q)' < StepsLeft(q)
    <2>1. CASE UNCHANGED requests
      BY <2>1 DEF requests
    <2> QED
      BY <1>1, <1>2, <1>3, <2>1, OwnStepRunsOut
      DEF Next, Client, CreateSession, PutBlob, ExpireSas, vars, requests
  <1>4. CoreInv /\ [Next]_vars =>
          [\A r \in Requests :
             UNCHANGED <<pc[r], existing[r], todo[r]>> \/ StepsLeft(r)' < StepsLeft(r)]_vars
    BY <1>3
  <1> QED
    BY <1>4, CoreInvariance, PTL DEF Spec, RunsOut
=============================================================================
