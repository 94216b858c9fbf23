---------------------------- MODULE WorkerProofs ----------------------------
(***************************************************************************)
(* Type correctness and the safety of Worker, for any threads, calls and   *)
(* settings.  What carries them: a thread serves one request at a time, so *)
(* from its Bind to its end a request finds its own id in the context; and *)
(* what a context holds was put there by a request of the same thread.     *)
(***************************************************************************)
EXTENDS Worker, TLAPS

Started(r) == pc[r] \notin {"idle", "bind"}

Bound(r) == pc[r] \notin {"idle", "bind", "done"}

\* A request has a thread once it is taken, and an id once it is bound.
HasThread ==
  \A r \in Requests :
    /\ pc[r] = "idle" <=> thread[r] = None
    /\ pc[r] # "idle" => thread[r] \in Threads /\ request[r] \in HttpRequests
    /\ Started(r) => correlation_id[r] \in Ids

\* A thread runs one handler at a time.
OnePerThread ==
  \A q, r \in Requests :
    q # r /\ thread[q] = thread[r] /\ thread[q] # None => pc[q] = "done" \/ pc[r] = "done"

\* While it is served, a request finds its own id in the context.
ContextIsOwn == \A r \in Requests : Bound(r) => context[thread[r]] = correlation_id[r]

\* What a context holds was bound by a request of the thread.
ContextIsBound ==
  \A t \in Threads :
    context[t] # None =>
      \E r \in Requests : Started(r) /\ thread[r] = t /\ correlation_id[r] = context[t]

\* Traces are left from Bind on.
TracesAreBound == \A trace \in traces : Started(trace.request)

\* Past authentication a request has a user.
ServedHaveUser ==
  \A r \in Requests :
    pc[r] \in {"build", "create", "validate", "publish", "mark"} => User(r) # None

IInv ==
  /\ TypeOK /\ HasThread /\ OnePerThread /\ ContextIsOwn /\ ContextIsBound
  /\ TracesAreBound /\ ServedHaveUser /\ OneIdPerRequest /\ IdIsNamedOwnOrInherited
  /\ HubEventsAreSigned

-----------------------------------------------------------------------------
LEMMA InitInv == Init => IInv
  BY NoneAssumption
     DEF Init, IInv, TypeOK, HasThread, OnePerThread, ContextIsOwn, ContextIsBound,
         TracesAreBound, ServedHaveUser, OneIdPerRequest, IdIsNamedOwnOrInherited,
         HubEventsAreSigned, Started, Bound, Phases, Ids

\* The traces of one request, by their definition.
LEMMA TracesOf ==
  ASSUME NEW r, NEW id, NEW kinds, NEW trace \in Trace(r, id, kinds)
  PROVE  trace.request = r /\ trace.id = id /\ trace.kind \in kinds
  BY DEF Trace

LEMMA TraceType ==
  ASSUME NEW r \in Requests, NEW id \in Ids, NEW kinds,
         kinds \subseteq {"span", "log", "library_log", "answer", "trip_log",
                         "KafkaPublisher", "EventHubPublisher"}
  PROVE  Trace(r, id, kinds) \subseteq Traces
  BY DEF Trace, Traces

\* Taking a call gives an idle thread to a request that has left no trace.
LEMMA InvTake ==
  ASSUME IInv, NEW r \in Requests, NEW t \in Threads, NEW q \in HttpRequests,
         NEW id \in Ids \cup {None}, Take(r, t, q, id)
  PROVE  IInv'
  <1> USE DEF IInv
  <1>1. TypeOK'
    BY DEF Take, TypeOK, Phases
  <1>2. HasThread'
    BY NoneAssumption DEF Take, TypeOK, HasThread, Started
  <1>3. OnePerThread'
    BY NoneAssumption DEF Take, TypeOK, OnePerThread, HasThread
  <1>4. ContextIsOwn' /\ ContextIsBound' /\ TracesAreBound'
    BY DEF Take, TypeOK, ContextIsOwn, ContextIsBound, TracesAreBound, Started, Bound, Traces
  <1>5. ServedHaveUser' /\ OneIdPerRequest'
    BY DEF Take, TypeOK, ServedHaveUser, OneIdPerRequest, User, AuthenticatedUser,
           StaticTokenAccepted
  <1>6. IdIsNamedOwnOrInherited'
    BY DEF Take, TypeOK, IdIsNamedOwnOrInherited
  <1>7. HubEventsAreSigned'
    BY DEF Take, TypeOK, HubEventsAreSigned, TracesAreBound, Started, Traces
  <1> QED
    BY <1>1, <1>2, <1>3, <1>4, <1>5, <1>6, <1>7

\* The id a request is given: its header, its own, or that of a request the
\* thread is done with.
LEMMA BindResolves ==
  ASSUME IInv, NEW r \in Requests, pc[r] = "bind"
  PROVE  /\ Resolved(r) \in Ids
         /\ header[r] # None => Resolved(r) = header[r]
         /\ header[r] = None =>
              \/ Resolved(r) = r
              \/ \E earlier \in Requests :
                   /\ thread[earlier] = thread[r] /\ pc[earlier] = "done"
                   /\ correlation_id[earlier] = Resolved(r)
  <1> USE DEF IInv
  <1>1. thread[r] \in Threads /\ header[r] \in Ids \cup {None}
        /\ context[thread[r]] \in Ids \cup {None}
    BY DEF HasThread, TypeOK
  <1>2. r \in Ids
    BY DEF Ids
  <1>3. CASE header[r] = None /\ context[thread[r]] # None
    <2>1. PICK q \in Requests : /\ Started(q) /\ thread[q] = thread[r]
                                /\ correlation_id[q] = context[thread[r]]
      BY <1>1, <1>3 DEF ContextIsBound
    <2>2. q # r /\ thread[q] # None
      BY <1>1, <2>1, NoneAssumption DEF Started
    <2>3. pc[q] = "done"
      BY <2>1, <2>2 DEF OnePerThread
    <2> QED
      BY <1>1, <1>3, <2>1, <2>3 DEF Resolved, Slot
  <1> QED
    BY <1>1, <1>2, <1>3 DEF Resolved, Slot

LEMMA InvBind ==
  ASSUME IInv, NEW r \in Requests, Bind(r)
  PROVE  IInv'
  <1> USE DEF IInv
  <1> DEFINE id == Resolved(r)
  <1>1. /\ pc[r] = "bind" /\ thread[r] \in Threads
        /\ context' = [context EXCEPT ![thread[r]] = id]
        /\ correlation_id' = [correlation_id EXCEPT ![r] = id]
        /\ UNCHANGED <<settings, thread, request, header, status, producers>>
        /\ \E phase \in {"health", "authenticate"} : pc' = [pc EXCEPT ![r] = phase]
    BY DEF Bind, Serving, Continue, Slot, HasThread
  <1>2. \E kinds \in {{}, {"span"}} : traces' = traces \cup Trace(r, id, kinds)
    <2>1. Trace(r, id, {}) = {}
      BY DEF Trace
    <2> QED
      BY <2>1 DEF Bind, SpanKinds
  <1>3. /\ id \in Ids
        /\ header[r] # None => id = header[r]
        /\ header[r] = None =>
             \/ id = r
             \/ \E earlier \in Requests :
                  /\ thread[earlier] = thread[r] /\ pc[earlier] = "done"
                  /\ correlation_id[earlier] = id
    BY <1>1, BindResolves
  <1> HIDE DEF id
  <1>4. TypeOK'
    BY <1>1, <1>2, <1>3, TraceType DEF TypeOK, Phases
  <1>5. HasThread' /\ OnePerThread'
    BY <1>1, <1>3 DEF TypeOK, HasThread, OnePerThread, Started
  <1>6. ContextIsOwn'
    <2>1. \A q \in Requests : q # r /\ Bound(q) => thread[q] # thread[r]
      BY <1>1, NoneAssumption DEF OnePerThread, Bound
    <2>2. \A q \in Requests : Bound(q) => thread[q] \in Threads
      BY DEF HasThread, Bound
    <2> QED
      BY <1>1, <2>1, <2>2 DEF TypeOK, ContextIsOwn, Bound
  <1>7. ContextIsBound'
    <2> SUFFICES ASSUME NEW t \in Threads, context'[t] # None
                 PROVE  \E q \in Requests :
                          Started(q)' /\ thread'[q] = t /\ correlation_id'[q] = context'[t]
      BY DEF ContextIsBound
    <2>1. CASE t = thread[r]
      BY <1>1, <2>1 DEF TypeOK, Started
    <2>2. CASE t # thread[r]
      <3>1. PICK q \in Requests : Started(q) /\ thread[q] = t /\ correlation_id[q] = context[t]
        BY <1>1, <2>2 DEF ContextIsBound, TypeOK
      <3> QED
        BY <1>1, <2>2, <3>1 DEF TypeOK, Started
    <2> QED
      BY <2>1, <2>2
  <1>8. /\ \A trace \in traces : trace.request # r
        /\ \A trace \in traces : trace.request \in Requests
    BY <1>1 DEF TracesAreBound, Started, TypeOK, Traces
  <1>9. TracesAreBound' /\ OneIdPerRequest' /\ HubEventsAreSigned'
    BY <1>1, <1>2, <1>8, TracesOf
       DEF TypeOK, TracesAreBound, OneIdPerRequest, HubEventsAreSigned, Started
  <1>10. ServedHaveUser'
    BY <1>1 DEF TypeOK, ServedHaveUser, User, AuthenticatedUser, StaticTokenAccepted
  <1>11. IdIsNamedOwnOrInherited'
    BY <1>1, <1>3 DEF TypeOK, IdIsNamedOwnOrInherited
  <1> QED
    BY <1>4, <1>5, <1>6, <1>7, <1>9, <1>10, <1>11

\* What every step after Bind does: it moves its own request on, and leaves
\* traces of it under the id the request goes by.
Serves(r, phase, kinds) ==
  /\ Bound(r) /\ phase \in Phases \ {"idle", "bind"}
  /\ kinds \subseteq {"span", "log", "library_log", "answer", "trip_log",
                     "KafkaPublisher", "EventHubPublisher"}
  /\ phase \in {"build", "create", "validate", "publish", "mark"} => User(r) # None
  /\ "EventHubPublisher" \in kinds => request[r].authorization.token = "signed"
  /\ UNCHANGED <<settings, context, thread, request, header, correlation_id>>
  /\ pc' = [pc EXCEPT ![r] = phase]
  /\ traces' = traces \cup Trace(r, correlation_id[r], kinds)

Typed ==
  /\ status' \in [Requests -> {0, 200, 201, 400, 401, 403, 404, 409, 500, 503}]
  /\ producers' \subseteq Requests

LEMMA InvServes ==
  ASSUME IInv, Typed, NEW r \in Requests, NEW phase, NEW kinds, Serves(r, phase, kinds)
  PROVE  IInv'
  <1> USE DEF IInv
  <1>1. /\ Started(r) /\ Bound(r) /\ correlation_id[r] \in Ids
        /\ UNCHANGED <<settings, context, thread, request, header, correlation_id>>
        /\ pc' = [pc EXCEPT ![r] = phase] /\ phase \in Phases \ {"idle", "bind"}
        /\ traces' = traces \cup Trace(r, correlation_id[r], kinds)
    BY DEF Serves, HasThread, Started, Bound
  <1>2. TypeOK'
    <2>1. Trace(r, correlation_id[r], kinds) \subseteq Traces
      BY <1>1, TraceType DEF Serves
    <2>2. traces' \subseteq Traces /\ pc' \in [Requests -> Phases]
      BY <1>1, <2>1 DEF TypeOK
    <2> QED
      BY <1>1, <2>2 DEF TypeOK, Typed
  <1>3. \A q \in Requests : /\ Started(q)' <=> Started(q)
                            /\ Bound(q)' => Bound(q)
                            /\ pc[q] = "done" /\ q # r => pc'[q] = "done"
    <2>1. phase \notin {"idle", "bind"} /\ pc[r] \notin {"idle", "bind", "done"}
      BY <1>1 DEF Bound
    <2>2. \A q \in Requests : pc'[q] = IF q = r THEN phase ELSE pc[q]
      BY <1>1 DEF TypeOK
    <2> QED
      BY <2>1, <2>2 DEF Started, Bound
  <1>4. HasThread' /\ OnePerThread'
    BY <1>1, <1>3 DEF TypeOK, HasThread, OnePerThread, Serves, Bound, Started
  <1>5. ContextIsOwn' /\ ContextIsBound'
    BY <1>1, <1>3 DEF ContextIsOwn, ContextIsBound
  <1>6. TracesAreBound' /\ OneIdPerRequest'
    BY <1>1, <1>3, TracesOf DEF TypeOK, TracesAreBound, OneIdPerRequest, Traces
  <1>7. ServedHaveUser'
    BY <1>1 DEF TypeOK, ServedHaveUser, Serves, User, AuthenticatedUser, StaticTokenAccepted
  <1>8. HubEventsAreSigned'
    BY <1>1, TracesOf DEF TypeOK, HubEventsAreSigned, Serves
  <1>9. IdIsNamedOwnOrInherited'
    BY <1>1, <1>3 DEF IdIsNamedOwnOrInherited, Serves, Bound, Started, TypeOK
  <1> QED
    BY <1>2, <1>4, <1>5, <1>6, <1>7, <1>8, <1>9

\* A step without traces leaves those of no kind.
LEMMA NoTrace == ASSUME NEW r, NEW id PROVE traces \cup Trace(r, id, {}) = traces
  BY DEF Trace

\* Only a signed JWT authenticates a request where events go to the Event Hub.
LEMMA HubUserIsSigned ==
  ASSUME NEW r \in Requests, User(r) # None, Backend = "EventHubPublisher"
  PROVE  request[r].authorization.token = "signed"
  BY DEF User, AuthenticatedUser, StaticTokenAccepted, Backend

LEMMA InvAnswer ==
  ASSUME IInv, NEW r \in Requests, Bound(r),
         NEW code \in {0, 200, 201, 400, 401, 403, 404, 409, 500, 503},
         NEW kinds, kinds \subseteq {"log", "answer", "trip_log", "KafkaPublisher",
                                    "EventHubPublisher"},
         "EventHubPublisher" \in kinds => request[r].authorization.token = "signed",
         Answer(r, code, kinds), producers' \subseteq Requests,
         UNCHANGED <<settings, context, thread, request, header, correlation_id>>
  PROVE  IInv'
  <1>1. Typed
    BY DEF IInv, TypeOK, Answer, Typed
  <1>2. Serves(r, "done", kinds)
    BY DEF Answer, Serves, Phases
  <1> QED
    BY <1>1, <1>2, InvServes

LEMMA InvContinue ==
  ASSUME IInv, NEW r \in Requests, Bound(r),
         NEW phase \in {"build", "create", "validate", "publish", "mark"},
         Continue(r, phase), User(r) # None, UNCHANGED <<traces, producers>>,
         UNCHANGED <<settings, context, thread, request, header, correlation_id>>
  PROVE  IInv'
  <1>1. Typed
    BY DEF IInv, TypeOK, Continue, Typed
  <1>2. Serves(r, phase, {})
    BY NoTrace DEF Continue, Serves, Phases
  <1> QED
    BY <1>1, <1>2, InvServes

LEMMA InvHandle == ASSUME IInv, NEW r \in Requests, Handle(r) PROVE IInv'
  <1> DEFINE Same == UNCHANGED <<settings, context, thread, request, header, correlation_id>>
  <1>1. CASE Bind(r)
    BY <1>1, InvBind
  <1>2. CASE Health(r)
    <2>1. Bound(r) /\ context[Slot(r)] = correlation_id[r]
      BY <1>2 DEF Health, Serving, Bound, IInv, ContextIsOwn, Slot
    <2>2. Same /\ Answer(r, 200, Logged) /\ producers' = producers
      BY <1>2, <2>1 DEF Health, Serving, Answer
    <2> QED
      BY <2>1, <2>2, InvAnswer DEF Logged, IInv, TypeOK
  <1>3. CASE Authenticate(r)
    <2>1. Same /\ Bound(r) /\ producers' = producers
      BY <1>3 DEF Authenticate, Serving, Bound
    <2> QED
      BY <1>3, <2>1, InvAnswer, InvContinue DEF Authenticate, Logged, IInv, TypeOK
  <1>4. CASE Build(r)
    <2>1. Same /\ Bound(r) /\ producers' = producers /\ User(r) # None
      BY <1>4 DEF Build, Serving, Bound, IInv, ServedHaveUser
    <2> QED
      BY <1>4, <2>1, InvAnswer, InvContinue DEF Build, Logged, IInv, TypeOK
  <1>5. CASE CreateSession(r)
    <2>1. Same /\ Bound(r) /\ producers' = producers
      BY <1>5 DEF CreateSession, Serving, Bound
    <2> QED
      BY <1>5, <2>1, InvAnswer DEF CreateSession, Logged, IInv, TypeOK
  <1>6. CASE Validate(r)
    <2>1. Same /\ Bound(r) /\ producers' = producers /\ User(r) # None
      BY <1>6 DEF Validate, Serving, Bound, IInv, ServedHaveUser
    <2> QED
      BY <1>6, <2>1, InvAnswer, InvContinue DEF Validate, Logged, IInv, TypeOK
  <1>7. CASE Unconfigured(r)
    <2>1. Same /\ Bound(r) /\ producers' = producers
      BY <1>7 DEF Unconfigured, Serving, Bound
    <2> QED
      BY <1>7, <2>1, InvAnswer DEF Unconfigured, Logged, IInv, TypeOK
  <1>8. CASE Publish(r)
    <2>1. /\ Same /\ Bound(r) /\ User(r) # None
          /\ producers' \subseteq Requests
      BY <1>8 DEF Publish, Serving, Bound, IInv, ServedHaveUser, TypeOK
    <2>2. /\ Backend \in {"KafkaPublisher", "EventHubPublisher"}
          /\ Backend = "EventHubPublisher" => request[r].authorization.token = "signed"
      BY <2>1, HubUserIsSigned DEF Backend
    <2>3. CASE Continue(r, "mark") /\ traces' = traces \cup Trace(r, correlation_id[r], {Backend})
      <3>1. Typed
        BY <2>1, <2>3 DEF IInv, TypeOK, Continue, Typed
      <3>2. Serves(r, "mark", {Backend})
        BY <2>1, <2>2, <2>3 DEF Continue, Serves, Phases
      <3> QED
        BY <3>1, <3>2, InvServes
    <2>4. CASE Answer(r, 500, {}) \/ Answer(r, 500, {Backend})
      BY <2>1, <2>2, <2>4, InvAnswer
    <2> QED
      BY <1>8, <2>3, <2>4 DEF Publish
  <1>9. CASE Mark(r)
    <2>1. Same /\ Bound(r) /\ producers' = producers
      BY <1>9 DEF Mark, Serving, Bound
    <2> QED
      BY <1>9, <2>1, InvAnswer DEF Mark, Logged, IInv, TypeOK
  <1>10. CASE LibraryLog(r)
    <2>1. Bound(r) /\ context[Slot(r)] = correlation_id[r] /\ User(r) # None
      BY <1>10 DEF LibraryLog, Bound, IInv, ContextIsOwn, ServedHaveUser, Slot
    <2>2. Typed
      BY <1>10 DEF LibraryLog, IInv, TypeOK, Typed
    <2>3. Serves(r, pc[r], {"library_log"})
      BY <1>10, <2>1 DEF LibraryLog, Serves, IInv, TypeOK, Phases, Bound
    <2> QED
      BY <2>2, <2>3, InvServes
  <1> QED
    BY <1>1, <1>2, <1>3, <1>4, <1>5, <1>6, <1>7, <1>8, <1>9, <1>10 DEF Handle

\* A stuttering step.
LEMMA InvStutter == ASSUME IInv, UNCHANGED vars PROVE IInv'
  BY DEF vars, IInv, TypeOK, HasThread, OnePerThread, ContextIsOwn, ContextIsBound,
         TracesAreBound, ServedHaveUser, OneIdPerRequest, IdIsNamedOwnOrInherited,
         HubEventsAreSigned, Started, Bound, User, AuthenticatedUser, StaticTokenAccepted

\* The invariant holds for any number of threads, calls and settings.
THEOREM WorkerInvariance == Spec => []IInv
  <1>1. IInv /\ [Next]_vars => IInv'
    BY InvTake, InvHandle, InvStutter DEF Next
  <1> QED
    BY <1>1, InitInv, PTL DEF Spec

\* Every variable of the worker keeps its type.
THEOREM WorkerTypeCorrect == Spec => []TypeOK
  BY WorkerInvariance, PTL DEF IInv

\* One id names a request wherever it leaves one, whatever else is served.
THEOREM OneIdPerRequestAlways == Spec => []OneIdPerRequest
  BY WorkerInvariance, PTL DEF IInv

\* An id is its client's, its own, or left over from the thread's past.
THEOREM IdIsNamedOwnOrInheritedAlways == Spec => []IdIsNamedOwnOrInherited
  BY WorkerInvariance, PTL DEF IInv

\* The static token publishes nothing on the Event Hub.
THEOREM HubEventsAreSignedAlways == Spec => []HubEventsAreSigned
  BY WorkerInvariance, PTL DEF IInv
=============================================================================
