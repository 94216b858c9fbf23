--------------------------- MODULE TripLifecycle ---------------------------
(***************************************************************************)
(* What the trip ingestion log promises about one upload session, whatever *)
(* requests, retries, crashes and faults produced it.  A session is opened *)
(* once; attempts to complete it claim it, store a verdict over the        *)
(* sources that were found valid, emit an event for a stored verdict, and  *)
(* publish it.  The workers downstream then process it.  No request, etag  *)
(* or service appears here: UploadComplete is shown to implement this      *)
(* specification without the workers, UploadSystem with them.              *)
(***************************************************************************)
CONSTANTS
  Sessions, Sources,
  WorkerStatuses   \* the statuses the workers downstream store

VARIABLES
  status,     \* status[s]: TripLogStatus of the session's document
  sources,    \* sources[s]: the sources whose *_exists flag is set
  validated,  \* the <<s, S>> for which VALIDATED was ever stored
  emitted     \* the <<s, S>> for which an event was ever emitted

vars == <<status, sources, validated, emitted>>

Statuses == {"ABSENT", "RECEIVED", "VALIDATING", "VALIDATED", "FAILED", "PUBLISHED",
             "PROCESSING", "SUCCESS", "PARTIALLY_PROCESSED"}

TypeOK ==
  /\ status \in [Sessions -> Statuses]
  /\ sources \in [Sessions -> SUBSET Sources]
  /\ validated \subseteq Sessions \X SUBSET Sources
  /\ emitted \subseteq Sessions \X SUBSET Sources

Init ==
  /\ status = [s \in Sessions |-> "ABSENT"]
  /\ sources = [s \in Sessions |-> {}]
  /\ validated = {}
  /\ emitted = {}

Open(s) ==
  /\ status[s] = "ABSENT"
  /\ status' = [status EXCEPT ![s] = "RECEIVED"]
  /\ UNCHANGED <<sources, validated, emitted>>

\* Any session that does not say PUBLISHED may be claimed again: an attempt that
\* died or was overtaken leaves no state a later attempt cannot start from, and
\* a status of the workers keeps none away.
Claim(s) ==
  /\ status[s] \notin {"ABSENT", "PUBLISHED"}
  /\ status' = [status EXCEPT ![s] = "VALIDATING"]
  /\ UNCHANGED <<sources, validated, emitted>>

Accept(s, S) ==
  /\ status[s] = "VALIDATING"
  /\ S # {}
  /\ status' = [status EXCEPT ![s] = "VALIDATED"]
  /\ sources' = [sources EXCEPT ![s] = S]
  /\ validated' = validated \cup {<<s, S>>}
  /\ UNCHANGED emitted

Reject(s, S) ==
  /\ status[s] = "VALIDATING"
  /\ status' = [status EXCEPT ![s] = "FAILED"]
  /\ sources' = [sources EXCEPT ![s] = S]
  /\ UNCHANGED <<validated, emitted>>

\* An event goes out only for a verdict that was stored before it, though it
\* may go out late (the session may be claimed again meanwhile) or twice.
Emit(s, S) ==
  /\ <<s, S>> \in validated
  /\ emitted' = emitted \cup {<<s, S>>}
  /\ UNCHANGED <<status, sources, validated>>

\* PUBLISHED is recorded over the very verdict whose event is out.
Publish(s) ==
  /\ status[s] = "VALIDATED"
  /\ <<s, sources[s]>> \in emitted
  /\ status' = [status EXCEPT ![s] = "PUBLISHED"]
  /\ UNCHANGED <<sources, validated, emitted>>

\* What the workers make of a published session, final status after PROCESSING.
Downstream(s, outcome) ==
  /\ status[s] = IF outcome = "PROCESSING" THEN "PUBLISHED" ELSE "PROCESSING"
  /\ status' = [status EXCEPT ![s] = outcome]
  /\ UNCHANGED <<sources, validated, emitted>>

Next ==
  \E s \in Sessions :
    \/ Open(s)
    \/ Claim(s)
    \/ Publish(s)
    \/ \E S \in SUBSET Sources : Accept(s, S) \/ Reject(s, S) \/ Emit(s, S)
    \/ \E outcome \in WorkerStatuses : Downstream(s, outcome)

Spec == Init /\ [][Next]_vars
=============================================================================
