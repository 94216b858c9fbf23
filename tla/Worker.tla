------------------------------- MODULE Worker -------------------------------
(***************************************************************************)
(* One worker process of the function app.  The handlers are synchronous:  *)
(* the host runs each call on a thread of a pool and reuses the threads,   *)
(* and the ContextVar that holds the correlation id is one per thread.     *)
(* Settings are read once.  A call binds its id, authenticates, builds its *)
(* services and, for complete, a publisher; what Cosmos DB and the blobs   *)
(* say is left open here (UploadComplete and UploadSession have it).       *)
(***************************************************************************)
EXTENDS Naturals, FiniteSets

CONSTANTS
  Threads, Requests,
  HttpRequests,   \* the calls clients make, but for the correlation id
  Names,          \* the correlation ids clients make up
  Deployments,    \* the Settings a process may be started with
  Users,
  LocalUser,      \* jwt_mock_user_id
  None

\* A generated id is unique: the request it was generated for stands for it.
Ids == Names \cup Requests

\* What the Authorization header brings: nothing that can be read as a bearer
\* token, the static token, or a JWT and the subject it names.  "forged" is any
\* JWT that decoding rejects for another reason than its expiry.
Authorizations ==
  [token : {"none", "static", "signed", "forged", "expired"}, sub : Users \cup {None}]

Endpoints == {"session", "complete", "health"}

\* What the environment sets, as far as it decides how a call ends: whether the
\* secret, the static token, the two stores and the broker are set, and whether
\* the connection string of Application Insights is one.
Settings ==
  [environment : {"local", "production"}, secret : BOOLEAN, local_token : BOOLEAN,
   stores : BOOLEAN, broker : BOOLEAN, insights : {"none", "invalid", "valid"}]

ASSUME HttpRequestsAssumption ==
  HttpRequests \subseteq
    [endpoint : Endpoints, authorization : Authorizations, valid_body : BOOLEAN]
ASSUME DeploymentsAssumption == Deployments \subseteq Settings
ASSUME NoneAssumption == None \notin Ids \cup Threads \cup Users /\ LocalUser \in Users

VARIABLES
  settings,        \* get_settings(): cached for the life of the process
  context,         \* context[t]: the ContextVar, as thread t sees it
  pc, thread,      \* thread[r]: the thread that runs the handler of r
  request,         \* request[r]: the call
  header,          \* header[r]: its x-correlation-id
  correlation_id,  \* correlation_id[r]: the handler's local variable
  status,          \* status[r]: the code r was answered with, 0 before
  producers,       \* the requests whose publisher opened a producer
  traces           \* where an id has been left: spans, log lines, answers,
                   \* trip logs, events

vars == <<settings, context, pc, thread, request, header, correlation_id, status,
          producers, traces>>

Phases == {"idle", "bind", "health", "authenticate", "build", "create", "validate",
           "publish", "mark", "done"}

Traces == [request : Requests, id : Ids,
           kind : {"span", "log", "library_log", "answer", "trip_log",
                   "KafkaPublisher", "EventHubPublisher"}]

Trace(r, id, kinds) == {[request |-> r, id |-> id, kind |-> k] : k \in kinds}

Init ==
  /\ settings \in Deployments
  /\ context = [t \in Threads |-> None]
  /\ pc = [r \in Requests |-> "idle"]
  /\ thread = [r \in Requests |-> None]
  /\ request = [r \in Requests |-> None]
  /\ header = [r \in Requests |-> None]
  /\ correlation_id = [r \in Requests |-> None]
  /\ status = [r \in Requests |-> 0]
  /\ producers = {}
  /\ traces = {}

-----------------------------------------------------------------------------
\* The host: a call waits until a thread of the pool is free.  A client may
\* name an id it made up, or one it knows from an answer.
Take(r, t, q, id) ==
  /\ pc[r] = "idle"
  /\ \A other \in Requests : thread[other] = t => pc[other] = "done"
  /\ id \in {None} \cup Names \cup {trace.id : trace \in {a \in traces : a.kind = "answer"}}
  /\ thread' = [thread EXCEPT ![r] = t]
  /\ request' = [request EXCEPT ![r] = q]
  /\ header' = [header EXCEPT ![r] = id]
  /\ pc' = [pc EXCEPT ![r] = "bind"]
  /\ UNCHANGED <<settings, context, correlation_id, status, producers, traces>>

Serving(r, phase) ==
  /\ pc[r] = phase
  /\ UNCHANGED <<settings, thread, request, header>>

Continue(r, phase) == pc' = [pc EXCEPT ![r] = phase] /\ UNCHANGED status

\* error_response and json_response, with the log line written before them.
\* An exception that no handler catches is answered by the host, without id.
Answer(r, code, kinds) ==
  /\ pc' = [pc EXCEPT ![r] = "done"]
  /\ status' = [status EXCEPT ![r] = code]
  /\ traces' = traces \cup Trace(r, correlation_id[r], kinds)

Logged == {"log", "answer"}

\* (Bug: a global variable instead of a ContextVar.)
GlobalSlot(r) == CHOOSE t \in Threads : TRUE

\* The ContextVar a handler sees is that of its thread.
Slot(r) == thread[r]

\* (Bug: what the context holds goes before the header.)
ContextFirst(r) ==
  IF context[Slot(r)] # None THEN context[Slot(r)]
  ELSE IF header[r] # None THEN header[r] ELSE r

\* (Bug: no id is generated.)
NeverFresh(r) == IF header[r] # None THEN header[r] ELSE context[Slot(r)]

\* bind_correlation_id: the header, or what the context holds, or a fresh id.
Resolved(r) ==
  IF header[r] # None THEN header[r]
  ELSE IF context[Slot(r)] # None THEN context[Slot(r)] ELSE r

\* configure_telemetry
Recording == settings.insights = "valid"

\* set_operation_attributes writes to the current span, if one is recorded.
SpanKinds == IF Recording THEN {{}, {"span"}} ELSE {{}}

Bind(r) ==
  /\ Serving(r, "bind")
  /\ context' = [context EXCEPT ![Slot(r)] = Resolved(r)]
  /\ correlation_id' = [correlation_id EXCEPT ![r] = Resolved(r)]
  /\ IF request[r].endpoint = "health"
     THEN Continue(r, "health") /\ UNCHANGED traces
     ELSE /\ Continue(r, "authenticate")
          /\ \E kinds \in SpanKinds : traces' = traces \cup Trace(r, Resolved(r), kinds)
  /\ UNCHANGED producers

\* The log line and the answer read the id back from the context.
Health(r) ==
  /\ Serving(r, "health")
  /\ pc' = [pc EXCEPT ![r] = "done"]
  /\ status' = [status EXCEPT ![r] = 200]
  /\ traces' = traces \cup Trace(r, context[Slot(r)], Logged)
  /\ UNCHANGED <<context, correlation_id, producers>>

-----------------------------------------------------------------------------
\* Authentication

\* (Bug: the static token accepted in every environment.)
StaticTokenAnywhere == settings.local_token

\* _resolve_local_predefined_user
StaticTokenAccepted == settings.environment = "local" /\ settings.local_token

\* validate_jwt: the user, or None whatever it was that went wrong.
AuthenticatedUser(authorization) ==
  CASE authorization.token = "static" /\ StaticTokenAccepted -> LocalUser
    [] authorization.token = "signed" /\ settings.secret -> authorization.sub
    [] OTHER -> None

User(r) == AuthenticatedUser(request[r].authorization)

Authenticate(r) ==
  /\ Serving(r, "authenticate")
  /\ \/ User(r) = None /\ Answer(r, 401, Logged)
     \/ User(r) # None /\ ~request[r].valid_body /\ Answer(r, 400, Logged)
     \/ User(r) # None /\ request[r].valid_body /\ Continue(r, "build") /\ UNCHANGED traces
  /\ UNCHANGED <<context, correlation_id, producers>>

-----------------------------------------------------------------------------
\* The services

\* BlobStorageService and CosmosService look at their settings when built, and
\* the Cosmos client may fail to connect; the publisher does neither.
Build(r) ==
  /\ Serving(r, "build")
  /\ \/ ~settings.stores /\ Answer(r, 503, Logged)
     \/ settings.stores /\ Answer(r, 500, {})
     \/ /\ settings.stores
        /\ Continue(r, IF request[r].endpoint = "session" THEN "create" ELSE "validate")
        /\ UNCHANGED traces
  /\ UNCHANGED <<context, correlation_id, producers>>

\* create_session, and its answer.
CreateSession(r) ==
  /\ Serving(r, "create")
  /\ \/ Answer(r, 201, Logged \cup {"trip_log"})
     \/ Answer(r, 503, Logged) \/ Answer(r, 500, {})
     \/ Answer(r, 500, {"trip_log"})
  /\ UNCHANGED <<context, correlation_id, producers>>

\* complete_upload up to the publish: 404 is the one answer nobody logs.
Validate(r) ==
  /\ Serving(r, "validate")
  /\ \/ \E code \in {200, 403, 409, 503} : Answer(r, code, Logged)
     \/ Answer(r, 404, {"answer"}) \/ Answer(r, 500, {})
     \/ Continue(r, "publish") /\ UNCHANGED traces
  /\ UNCHANGED <<context, correlation_id, producers>>

\* get_publisher
Backend ==
  IF settings.environment = "local" THEN "KafkaPublisher" ELSE "EventHubPublisher"

\* Of the publishers' errors the endpoint knows the configuration error of the
\* Event Hub only.
Unconfigured(r) ==
  /\ Serving(r, "publish")
  /\ ~settings.broker
  /\ IF Backend = "EventHubPublisher" THEN Answer(r, 503, Logged) ELSE Answer(r, 500, {})
  /\ UNCHANGED <<context, correlation_id, producers>>

\* _create_producer, on the first publish of this request's own publisher; a
\* send may fail before or after the broker took the event.
Publish(r) ==
  /\ Serving(r, "publish")
  /\ settings.broker
  /\ \/ Continue(r, "mark") /\ traces' = traces \cup Trace(r, correlation_id[r], {Backend})
     \/ Answer(r, 500, {}) \/ Answer(r, 500, {Backend})
  /\ producers' = producers \cup {r}
  /\ UNCHANGED <<context, correlation_id>>

\* The last write of complete_upload.
Mark(r) ==
  /\ Serving(r, "mark")
  /\ (\E code \in {200, 409, 503} : Answer(r, code, Logged)) \/ Answer(r, 500, {})
  /\ UNCHANGED <<context, correlation_id, producers>>

\* The SDKs log too, on the thread that calls them: their lines say nothing of
\* an id, so the formatter adds what the context holds.
LibraryLog(r) ==
  /\ pc[r] \in {"build", "create", "validate", "publish", "mark"}
  /\ traces' = traces \cup Trace(r, context[Slot(r)], {"library_log"})
  /\ UNCHANGED <<settings, context, pc, thread, request, header, correlation_id, status,
                 producers>>

Handle(r) ==
  \/ Bind(r) \/ Health(r) \/ Authenticate(r) \/ Build(r) \/ CreateSession(r)
  \/ Validate(r) \/ Unconfigured(r) \/ Publish(r) \/ Mark(r) \/ LibraryLog(r)

Next ==
  \E r \in Requests :
    \/ \E t \in Threads, q \in HttpRequests, id \in Ids \cup {None} : Take(r, t, q, id)
    \/ Handle(r)

Spec == Init /\ [][Next]_vars

-----------------------------------------------------------------------------
TypeOK ==
  /\ settings \in Deployments
  /\ context \in [Threads -> Ids \cup {None}]
  /\ pc \in [Requests -> Phases]
  /\ thread \in [Requests -> Threads \cup {None}]
  /\ request \in [Requests -> HttpRequests \cup {None}]
  /\ header \in [Requests -> Ids \cup {None}]
  /\ correlation_id \in [Requests -> Ids \cup {None}]
  /\ status \in [Requests -> {0, 200, 201, 400, 401, 403, 404, 409, 500, 503}]
  /\ producers \subseteq Requests
  /\ traces \subseteq Traces

\* Whatever else the process serves meanwhile, one id names a request in its
\* span, its log lines and those of the libraries, its answer, its trip log
\* and its event, though some take it from the context and some from the
\* handler.
OneIdPerRequest ==
  \A trace \in traces : trace.id = correlation_id[trace.request]

\* A request goes by the id its client named; one whose client named none goes
\* by its own, or by one an earlier request left on the same thread - never by
\* that of a request being served beside it.
IdIsNamedOwnOrInherited ==
  \A r \in Requests :
    pc[r] \notin {"idle", "bind", "done"} =>
      IF header[r] # None THEN correlation_id[r] = header[r]
      ELSE \/ correlation_id[r] = r
           \/ \E earlier \in Requests :
                /\ thread[earlier] = thread[r] /\ pc[earlier] = "done"
                /\ correlation_id[earlier] = correlation_id[r]

\* The static token of developers publishes nothing on the Event Hub: an event
\* there comes of a JWT that the secret signed.
HubEventsAreSigned ==
  \A trace \in traces :
    trace.kind = "EventHubPublisher" => request[trace.request].authorization.token = "signed"

-----------------------------------------------------------------------------
\* What the repository's documents say and the code does not do

\* shared/correlation.py:1: "request-scoped propagation".  No handler resets
\* the context, so the next request of the thread takes the id over.
RequestScoped ==
  \A r1, r2 \in Requests :
    correlation_id[r1] = correlation_id[r2] /\ r1 # r2
      => correlation_id[r1] \in {None, header[r1], header[r2]}

\* services/event_hub.py:30: the producer is made on the first publish and
\* "reused for the lifetime of the worker process".  Every complete request
\* builds a publisher of its own, and nobody closes its producer.
OneProducer == Cardinality(producers) <= 1
=============================================================================
