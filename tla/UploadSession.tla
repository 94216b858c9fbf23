---------------------------- MODULE UploadSession ----------------------------
(***************************************************************************)
(* POST /api/upload/session: calls of create_session run side by side,     *)
(* each making its remote calls one by one while the clock moves on.  The  *)
(* service reads the clock once for the blob paths, once for every SAS and *)
(* once for created_at of the trip log; clients then write to the paths    *)
(* they were given until the SAS of each expires.                          *)
(*                                                                         *)
(* A call's uuid makes its upload_session_id unique: the call stands for   *)
(* it.  One unit of time is one second, the resolution of a file prefix.   *)
(* User and route ids are sequences of the parts that "_" separates, which *)
(* is what the code joins them with.                                       *)
(***************************************************************************)
EXTENDS Naturals, Sequences

CONSTANTS
  Sessions,    \* the calls, and the sessions they create
  Callers,     \* who calls, and for which route: records with user and route
  NumSources,  \* TripSource is enumerated in order: source i is the i-th
  Ttl,         \* sas_ttl_minutes, in seconds
  DayLength,   \* seconds in a day
  MaxTime,     \* bound: the clock stops here
  Faults,      \* which faults happen: "crash", "cosmos", "blob"
  None

ASSUME CallersAssumption == Callers \subseteq [user : Seq(STRING), route : Seq(STRING)]
ASSUME NoneAssumption == None \notin Seq(STRING)
ASSUME NumSourcesAssumption == NumSources \in Nat \ {0}
ASSUME TimeAssumption == Ttl \in Nat \ {0} /\ DayLength \in Nat \ {0} /\ MaxTime \in Nat
ASSUME FaultsAssumption == Faults \subseteq {"crash", "cosmos", "blob"}

Sources == 1 .. NumSources

VARIABLES
  now,         \* the clock all hosts read
  container,   \* whether the landing container exists
  pc,          \* pc[s]: what call s does next
  caller,      \* caller[s]: authenticated user and requested route
  timestamp,   \* timestamp[s]: local variable timestamp
  sas,         \* sas[s][i]: when the SAS of source i expires, 0 before it is made
  expires_at,  \* expires_at[s]: local variable, announced in the response
  created_at,  \* created_at[s]: field of the trip log being built
  log,         \* log[s]: the document in Cosmos DB
  landing,     \* the blobs: a path, and the session whose SAS wrote it last
  response     \* response[s]: how the call ended

vars == <<now, container, pc, caller, timestamp, sas, expires_at, created_at,
          log, landing, response>>

-----------------------------------------------------------------------------
\* Names

Day(t) == t \div DayLength

\* Nothing marks where the user ends and the route begins.
Joined(c) == c.user \o c.route

\* (Bug: the route left out of the prefix.)
PrefixWithoutRoute(c, t) == [name |-> c.user, second |-> t]

\* (Bug: the second left out of the prefix.)
PrefixWithoutTime(c, t) == [name |-> Joined(c), second |-> 0]

\* build_trip_file_prefix
Prefix(c, t) == [name |-> Joined(c), second |-> t]

Prefixes == [name : {Joined(c) : c \in Callers}, second : 0 .. MaxTime]

\* build_blob_path over a file name that starts with a trip file prefix
BlobPath(i, t, prefix) == [source |-> i, day |-> Day(t), prefix |-> prefix]

BlobPaths == [source : Sources, day : Nat, prefix : Prefixes]

\* The path a client is given, from one reading of the clock.
TargetPath(s, i) ==
  BlobPath(i, timestamp[s], Prefix(caller[s], timestamp[s]))

NoCaller == [user |-> None, route |-> None]

NoLog == [owner |-> NoCaller, created_at |-> 0, root |-> 0, prefix |-> None]

TripLogs == [owner : Callers, created_at : 0 .. MaxTime, root : Nat, prefix : Prefixes]

\* The path complete_upload looks at, from the fields of the trip log.
LookupPath(s, i) == BlobPath(i, log[s].created_at, log[s].prefix)

\* The path an event gives its consumers: trip_storage_root, trip_file_prefix.
AnnouncedPath(s, i) == [source |-> i, day |-> log[s].root, prefix |-> log[s].prefix]

Phases == {"idle", "container", "create_container", "stamp", "sas", "new_log", "create", "done"}

\* "created" is 201, "unavailable" 503, "error" an exception the endpoint does
\* not catch (500), "crashed" no answer.
Responses == {"none", "created", "unavailable", "error", "crashed"}

Init ==
  /\ now = 0
  /\ container \in BOOLEAN
  /\ pc = [s \in Sessions |-> "idle"]
  /\ caller = [s \in Sessions |-> NoCaller]
  /\ timestamp = [s \in Sessions |-> 0]
  /\ sas = [s \in Sessions |-> [i \in Sources |-> 0]]
  /\ expires_at = [s \in Sessions |-> 0]
  /\ created_at = [s \in Sessions |-> 0]
  /\ log = [s \in Sessions |-> NoLog]
  /\ landing = {}
  /\ response = [s \in Sessions |-> "none"]

-----------------------------------------------------------------------------
Tick ==
  /\ now < MaxTime
  /\ now' = now + 1
  /\ UNCHANGED <<container, pc, caller, timestamp, sas, expires_at, created_at,
                 log, landing, response>>

Continue(s, phase) ==
  /\ pc' = [pc EXCEPT ![s] = phase]
  /\ UNCHANGED response

End(s, answer) ==
  /\ pc' = [pc EXCEPT ![s] = "done"]
  /\ response' = [response EXCEPT ![s] = answer]

Arrive(s, c) ==
  /\ pc[s] = "idle"
  /\ caller' = [caller EXCEPT ![s] = c]
  /\ Continue(s, "container")
  /\ UNCHANGED <<now, container, timestamp, sas, expires_at, created_at, log, landing>>

\* ensure_container, in two calls: exists, then create if it did not.
FindContainer(s) ==
  /\ pc[s] = "container"
  /\ Continue(s, IF container THEN "stamp" ELSE "create_container")
  /\ UNCHANGED <<now, container, caller, timestamp, sas, expires_at, created_at, log, landing>>

\* Creating a container that exists raises an SDK error nobody catches.
CreateContainer(s) ==
  /\ pc[s] = "create_container"
  /\ container' = TRUE
  /\ IF container THEN End(s, "error") ELSE Continue(s, "stamp")
  /\ UNCHANGED <<now, caller, timestamp, sas, expires_at, created_at, log, landing>>

Stamp(s) ==
  /\ pc[s] = "stamp"
  /\ timestamp' = [timestamp EXCEPT ![s] = now]
  /\ Continue(s, "sas")
  /\ UNCHANGED <<now, container, caller, sas, expires_at, created_at, log, landing>>

\* (Bug: expiry announced from the time of the paths.)
ExpiryFromTimestamp(s) == timestamp[s] + Ttl

\* (Bug: the announced expiry rounded up.)
ExpiryRoundedUp(s) == now + Ttl + 1

\* expires_at of the response is that of the SAS made last.
AnnouncedExpiry(s) == now + Ttl

\* One turn of the loop over TripSource: generate_sas reads the clock itself.
GenerateSas(s, i) ==
  /\ pc[s] = "sas"
  /\ sas[s][i] = 0
  /\ \A j \in 1 .. (i - 1) : sas[s][j] # 0
  /\ sas' = [sas EXCEPT ![s][i] = now + Ttl]
  /\ expires_at' = [expires_at EXCEPT ![s] = AnnouncedExpiry(s)]
  /\ Continue(s, IF i = NumSources THEN "new_log" ELSE "sas")
  /\ UNCHANGED <<now, container, caller, timestamp, created_at, log, landing>>

\* (Bug: the client is answered before the log is stored.)
AnswersFirst(s) ==
  /\ pc[s] = "new_log"
  /\ created_at' = [created_at EXCEPT ![s] = now]
  /\ pc' = [pc EXCEPT ![s] = "create"]
  /\ response' = [response EXCEPT ![s] = "created"]
  /\ UNCHANGED <<now, container, caller, timestamp, sas, expires_at, log, landing>>

\* new_trip_log
NewTripLog(s) ==
  /\ pc[s] = "new_log"
  /\ created_at' = [created_at EXCEPT ![s] = now]
  /\ Continue(s, "create")
  /\ UNCHANGED <<now, container, caller, timestamp, sas, expires_at, log, landing>>

\* (Bug: the prefix in the log built when the log is.)
PrefixOfCreation(s) == Prefix(caller[s], created_at[s])

\* trip_file_prefix, built with the blob paths and carried to the log.
StoredPrefix(s) == Prefix(caller[s], timestamp[s])

Created(s) ==
  /\ pc[s] = "create"
  /\ log' = [log EXCEPT ![s] =
       [owner |-> caller[s], created_at |-> created_at[s],
        root |-> Day(timestamp[s]), prefix |-> StoredPrefix(s)]]
  /\ UNCHANGED <<now, container, caller, timestamp, sas, expires_at, created_at, landing>>

\* create_item, whose answer is all that the response waits for.
CreateTripLog(s) ==
  /\ Created(s)
  /\ End(s, "created")

-----------------------------------------------------------------------------
\* The client, and faults

\* A PUT with the SAS of a source: accepted until that SAS expires.
PutBlob(s, i) ==
  /\ response[s] = "created"
  /\ now < sas[s][i]
  /\ landing' = {b \in landing : b.path # TargetPath(s, i)}
                  \cup {[path |-> TargetPath(s, i), writer |-> s]}
  /\ UNCHANGED <<now, container, pc, caller, timestamp, sas, expires_at, created_at,
                 log, response>>

Crash(s) ==
  /\ "crash" \in Faults
  /\ pc[s] \notin {"idle", "done"}
  /\ End(s, "crashed")
  /\ UNCHANGED <<now, container, caller, timestamp, sas, expires_at, created_at, log, landing>>

\* A missing setting is noticed when the services are built, a missing account
\* key when a SAS is signed; an SDK error is neither a BlobStorageError nor a
\* CosmosDbError.
ServiceFails(s) ==
  /\ \/ Faults \cap {"blob", "cosmos"} # {} /\ pc[s] = "container" /\ End(s, "unavailable")
     \/ "blob" \in Faults /\ pc[s] = "sas" /\ End(s, "unavailable")
     \/ "blob" \in Faults /\ pc[s] \in {"container", "create_container", "sas"} /\ End(s, "error")
     \/ "cosmos" \in Faults /\ pc[s] = "create" /\ End(s, "error")
  /\ UNCHANGED <<now, container, caller, timestamp, sas, expires_at, created_at, log, landing>>

\* The document was created, but the client never learns: nobody will use it.
ReplyLost(s) ==
  /\ "cosmos" \in Faults
  /\ Created(s)
  /\ End(s, "error")

Step(s) ==
  \/ FindContainer(s) \/ CreateContainer(s)
  \/ Stamp(s) \/ (\E i \in Sources : GenerateSas(s, i))
  \/ NewTripLog(s) \/ CreateTripLog(s)

Next ==
  \/ Tick
  \/ \E s \in Sessions :
       \/ \E c \in Callers : Arrive(s, c)
       \/ Step(s)
       \/ \E i \in Sources : PutBlob(s, i)
       \/ Crash(s) \/ ServiceFails(s) \/ ReplyLost(s)

Spec == Init /\ [][Next]_vars

-----------------------------------------------------------------------------
TypeOK ==
  /\ now \in 0 .. MaxTime
  /\ container \in BOOLEAN
  /\ pc \in [Sessions -> Phases]
  /\ caller \in [Sessions -> Callers \cup {NoCaller}]
  /\ timestamp \in [Sessions -> 0 .. MaxTime]
  /\ sas \in [Sessions -> [Sources -> Nat]]
  /\ expires_at \in [Sessions -> Nat]
  /\ created_at \in [Sessions -> 0 .. MaxTime]
  /\ log \in [Sessions -> TripLogs \cup {NoLog}]
  /\ landing \subseteq [path : BlobPaths, writer : Sessions]
  /\ response \in [Sessions -> Responses]

\* Nothing is written for a session after the expiry its client was told: no
\* SAS of the session outlives the announced expires_at.
AnnouncedExpiryCoversSas ==
  \A s \in Sessions, i \in Sources :
    response[s] = "created" => 0 < sas[s][i] /\ sas[s][i] <= expires_at[s]

\* Nor is a client that goes by that expiry cut off long before it: each SAS,
\* dated by a reading of the clock of its own, lasts to it but for the time the
\* session took to create, from the reading in the paths to that in the log.
CutOffIsShort ==
  \A s \in Sessions, i \in Sources :
    response[s] = "created" => expires_at[s] + timestamp[s] <= sas[s][i] + created_at[s]

\* complete_upload finds what was uploaded, although the log's created_at is
\* a later reading of the clock than the one in the paths - unless a midnight
\* (UTC) fell between the two readings.
FoundWhereUploaded ==
  \A b \in landing :
    Day(created_at[b.writer]) = Day(timestamp[b.writer])
      => b.path = LookupPath(b.writer, b.path.source)

\* A blob that one session's lookup finds was written with that session's SAS
\* or with one of the same second whose user and route read the same once
\* joined - the same user and route, unless their ids contain "_".
Isolation ==
  \A b \in landing, s \in Sessions :
    log[s] # NoLog /\ b.path = LookupPath(s, b.path.source) =>
      LET mine == log[s].owner  theirs == log[b.writer].owner IN
      /\ Joined(theirs) = Joined(mine)
      /\ Len(theirs.user) = Len(mine.user) => theirs = mine
      /\ timestamp[b.writer] = timestamp[s]

\* Every blob in the container belongs to a session on record: no SAS is in a
\* client's hands before its trip log is stored.
BlobsHaveLogs ==
  \A b \in landing :
    /\ log[b.writer] # NoLog
    /\ b.path.prefix = log[b.writer].prefix

\* What a client may do is what it was told, once its log is stored.
Grants ==
  INSTANCE UploadGrants WITH
    clock <- now,
    owner <- [s \in Sessions |-> log[s].owner],
    grant <- [s \in Sessions |->
                IF response[s] = "created"
                THEN [second |-> timestamp[s], until |-> expires_at[s]]
                ELSE [second |-> 0, until |-> 0]],
    Nobody <- NoCaller,
    Location <- [c \in Callers |-> [t \in 0 .. MaxTime |->
                   [i \in Sources |-> BlobPath(i, t, Prefix(c, t))]]]

\* Session creation implements the grants: however its calls interleave, fail
\* and take their time, and although each SAS is dated by itself, every write
\* that storage accepts is one the client was told it may make, at a path of
\* the owner on record.
RefinesGrants == Grants!Spec

-----------------------------------------------------------------------------
\* What the repository's documents say and the code does not do

\* docs/poc-architecture.md:83: given uploaded blobs, complete validates their
\* existence.  created_at may be of another day than the paths given to the
\* client, and then none of the uploaded blobs is found.
UploadedIsFound ==
  \A b \in landing :
    \E i \in Sources : b.path = LookupPath(b.writer, i)
=============================================================================
