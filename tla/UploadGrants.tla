---------------------------- MODULE UploadGrants ----------------------------
(***************************************************************************)
(* What POST /api/upload/session promises, whatever calls run side by      *)
(* side and however long each takes: a session goes on record once, for    *)
(* one caller, and with that, if its client learns of it at all, the       *)
(* client may write that caller's paths of one second, and nothing else,   *)
(* until one moment.  No call, remote service or SAS appears here:         *)
(* UploadSession is shown to implement this specification.                 *)
(***************************************************************************)
EXTENDS Naturals

CONSTANTS
  Sessions, Callers, Sources, Ttl,
  Nobody,     \* the owner of a session that is not on record
  Location    \* Location[c][t][i]: the path of caller c, second t and source i

VARIABLES
  clock,
  owner,      \* owner[s]: whose session s is
  grant,      \* grant[s]: what its client was told, a second and an expiry
  landing     \* the blobs: a path, and the session that wrote it last

vars == <<clock, owner, grant, landing>>

NoGrant == [second |-> 0, until |-> 0]

Init ==
  /\ clock = 0
  /\ owner = [s \in Sessions |-> Nobody]
  /\ grant = [s \in Sessions |-> NoGrant]
  /\ landing = {}

Tick ==
  /\ clock' = clock + 1
  /\ UNCHANGED <<owner, grant, landing>>

\* The session is stored, but its client does not learn of it.
Record(s, c) ==
  /\ owner[s] = Nobody
  /\ owner' = [owner EXCEPT ![s] = c]
  /\ UNCHANGED <<clock, grant, landing>>

\* The session is stored and its client told.  The second is that of a moment
\* that has passed, and the expiry a lifetime after a moment since then.
Grant(s, c) ==
  /\ owner[s] = Nobody
  /\ owner' = [owner EXCEPT ![s] = c]
  /\ \E second \in 0 .. clock, until \in 0 .. (clock + Ttl) :
       /\ second + Ttl <= until
       /\ grant' = [grant EXCEPT ![s] = [second |-> second, until |-> until]]
  /\ UNCHANGED <<clock, landing>>

Put(s, i) ==
  LET path == Location[owner[s]][grant[s].second][i] IN
  /\ clock < grant[s].until
  /\ landing' = {b \in landing : b.path # path} \cup {[path |-> path, writer |-> s]}
  /\ UNCHANGED <<clock, owner, grant>>

Next ==
  \/ Tick
  \/ \E s \in Sessions :
       \/ \E c \in Callers : Record(s, c) \/ Grant(s, c)
       \/ \E i \in Sources : Put(s, i)

Spec == Init /\ [][Next]_vars
=============================================================================
