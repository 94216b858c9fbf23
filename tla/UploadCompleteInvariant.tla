---------------------- MODULE UploadCompleteInvariant ----------------------
(***************************************************************************)
(* The inductive invariant behind the safety properties of UploadComplete. *)
(* A request is "current" while its etag is the document's: nobody has     *)
(* written since it last read or wrote.  What it then knows of the         *)
(* document still holds, and only then can its next replace succeed.       *)
(***************************************************************************)
EXTENDS UploadComplete

InFlight == {"claim", "validate", "store", "publish", "mark"}

Current(r) == etag[r] = log[Session(r)].etag

\* Only a request that never arrived has no call.
CallsMade == \A r \in Requests : pc[r] # "idle" => call[r] \in Calls

\* A document exists exactly when it has an etag, and a status.
EtagsCount ==
  \A s \in Sessions :
    /\ log[s] = NoLog <=> log[s].etag = 0
    /\ log[s] = NoLog <=> log[s].status = "ABSENT"

\* A request past its three early returns works for the owner of a document
\* that exists, and its etag is never ahead of the document's.
OwnerInFlight(r) ==
  pc[r] \in InFlight =>
    /\ log[Session(r)] # NoLog
    /\ log[Session(r)].user = call[r].user
    /\ trip_log[r].user = call[r].user
    /\ etag[r] <= log[Session(r)].etag

\* A request is answered only when it ends.
AnsweredAtEnd(r) == pc[r] # "done" => response[r] = "none"

\* A re-read is no older than the request's etag, no newer than the document,
\* and is the document while that keeps its etag.
RereadInFlight(r) ==
  /\ pc[r] \in {"idle", "get", "validate", "publish"} => existing[r] = NoLog
  /\ pc[r] \in Updating /\ existing[r] # NoLog =>
       /\ etag[r] <= existing[r].etag
       /\ existing[r].etag <= log[Session(r)].etag
       /\ existing[r].etag = log[Session(r)].etag => existing[r] = log[Session(r)]

\* What a current request knows of the document in each phase.
CurrentKnows(r) ==
  LET doc == log[Session(r)] IN
  pc[r] \in InFlight /\ Current(r) =>
    /\ pc[r] = "claim" => doc.status # "PUBLISHED"
    /\ pc[r] \in {"validate", "store"} => doc.status = "VALIDATING"
    /\ pc[r] \in {"publish", "mark"} =>
         /\ doc.status = "VALIDATED"
         /\ doc.exists = valid[r]
         /\ doc.event_id = EventId(Session(r))

\* What a request that goes on to publish has done, current or not.
PublisherHasVerdict(r) ==
  /\ pc[r] \in {"publish", "mark"} =>
       /\ AllValid(r)
       /\ <<Session(r), valid[r]>> \in validated
  /\ pc[r] = "mark" => Event(r) \in hub

OneRequest(r) ==
  /\ OwnerInFlight(r)
  /\ AnsweredAtEnd(r)
  /\ RereadInFlight(r)
  /\ CurrentKnows(r)
  /\ PublisherHasVerdict(r)

RequestInv == \A r \in Requests : OneRequest(r)

\* Events come from requests that arrived.
EventsHaveCalls == \A e \in hub : pc[e.request] # "idle"

\* The fields a verdict is stored in agree, whoever has set the status since.
CoherentVerdict ==
  \A s \in Sessions :
    LET doc == log[s] IN
    /\ doc.event_id # None <=> doc.validation_status = "VALIDATED"
    /\ doc.validation_status = "VALIDATED" => doc.exists # {}
    /\ doc.status \in {"VALIDATED", "PUBLISHED"} => doc.validation_status = "VALIDATED"
    /\ doc.status \in {"ABSENT", "RECEIVED"} => doc.validation_status = None

\* What also holds with workers downstream that take published logs on: no
\* conjunct needs PUBLISHED to be final.
CoreInv ==
  /\ TypeOK
  /\ CallsMade
  /\ EtagsCount
  /\ RequestInv
  /\ EventsHaveCalls
  /\ CoherentVerdict
  /\ PublishedHasEvent
  /\ EventsAreBacked

IInv ==
  /\ CoreInv
  /\ CoherentTripLog
  /\ AcknowledgedIsPublished
  /\ OneWinner
=============================================================================
