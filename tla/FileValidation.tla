--------------------------- MODULE FileValidation ---------------------------
(***************************************************************************)
(* UploadCompleteService._validate_file for one file of a request: up to   *)
(* three calls of Blob Storage (exists, get properties, download), while   *)
(* the client, whose SAS may still be open, writes the blob and an         *)
(* operator may remove it.  The file descriptor has a size and a checksum, *)
(* both reported by the client and independent of each other: they need    *)
(* not be those of one content.                                            *)
(*                                                                         *)
(* A checksum is the content it belongs to.  The MD5 a blob carries, when  *)
(* it carries one, is that of its content.                                 *)
(***************************************************************************)
EXTENDS Naturals

CONSTANTS
  Contents,
  Size,     \* the size of each content
  Faults,   \* "delete": the blob is removed; "blob": storage errors
  None

ASSUME NoneAssumption == None \notin Contents
ASSUME SizeAssumption == Size \in [Contents -> Nat]
ASSUME FaultsAssumption == Faults \subseteq {"delete", "blob"}

VARIABLES
  blob,      \* content at the path, None if there is no blob
  has_md5,   \* whether the blob carries content_md5
  sas_open,  \* whether the client may still write
  pc,        \* the storage call made next
  file,      \* the file descriptor
  result,    \* FileValidationResult, or "raised" for an escaping exception
  seen       \* history: what the path has held since the validation began

storage == <<blob, has_md5, sas_open>>
vars == <<blob, has_md5, sas_open, pc, file, result, seen>>

Phases == {"idle", "exists", "properties", "download", "done"}

\* What a client may report of a file.
Descriptors == [size : {Size[c] : c \in Contents}, checksum : Contents]

NoFile == [size |-> 0, checksum |-> None]

\* "VALID", or the error of a FAILED result.
Errors == {"blob not found", "size mismatch", "checksum mismatch"}
Results == {"none", "VALID", "raised"} \cup Errors

Init ==
  /\ blob = None
  /\ has_md5 = FALSE
  /\ sas_open = TRUE
  /\ pc = "idle"
  /\ file = NoFile
  /\ result = "none"
  /\ seen = {}

-----------------------------------------------------------------------------
\* Who else touches the path

Becomes(b) ==
  /\ blob' = b
  /\ seen' = IF pc \in {"idle", "done"} THEN seen ELSE seen \cup {b}
  /\ UNCHANGED <<sas_open, pc, file, result>>

\* Storage computes content_md5 for a blob written in one request, and leaves
\* it out for one written in blocks.
PutBlob(c) ==
  /\ sas_open
  /\ has_md5' \in BOOLEAN
  /\ Becomes(c)

DeleteBlob ==
  /\ "delete" \in Faults
  /\ blob # None
  /\ has_md5' = FALSE
  /\ Becomes(None)

ExpireSas ==
  /\ sas_open
  /\ sas_open' = FALSE
  /\ UNCHANGED <<blob, has_md5, pc, file, result, seen>>

-----------------------------------------------------------------------------
\* _validate_file

Continue(phase) == pc' = phase /\ UNCHANGED result

End(r) == pc' = "done" /\ result' = r

\* The client names any size and any checksum: of what it uploaded, of what
\* it never did, or of two different versions of the file.
Begin(descriptor) ==
  /\ pc = "idle"
  /\ file' = descriptor
  /\ seen' = {blob}
  /\ Continue("exists")
  /\ UNCHANGED storage

BlobExists ==
  /\ pc = "exists"
  /\ \/ blob = None /\ End("blob not found")
     \/ blob # None /\ Continue("properties")
  /\ UNCHANGED <<storage, file, seen>>

\* (Bug: a blob without content_md5 passes.)
AbsentMatches == ~has_md5 \/ blob = file.checksum

\* checksum_matches over the properties: without an MD5 there is no match.
PropertiesMatch == has_md5 /\ blob = file.checksum

\* (Bug: a blob that is gone gets an error of its own.)
GoneIsMissing == "blob deleted"

\* (Bug: a blob that is gone taken for an empty one.)
GoneIsEmpty == "size mismatch"

\* The error of a blob that was there and is not any more.
GoneError == "blob not found"

\* Size and MD5 come from one call.
GetBlobProperties ==
  /\ pc = "properties"
  /\ \/ blob = None /\ End(GoneError)
     \/ blob # None /\ Size[blob] # file.size /\ End("size mismatch")
     \/ blob # None /\ Size[blob] = file.size /\ PropertiesMatch /\ End("VALID")
     \/ blob # None /\ Size[blob] = file.size /\ ~PropertiesMatch /\ Continue("download")
  /\ UNCHANGED <<storage, file, seen>>

\* The download may be of another content than the properties were, and of
\* another size: only its checksum is looked at.
DownloadBlob ==
  /\ pc = "download"
  /\ \/ blob = None /\ End("blob not found")
     \/ blob # None /\ blob # file.checksum /\ End("checksum mismatch")
     \/ blob # None /\ blob = file.checksum /\ End("VALID")
  /\ UNCHANGED <<storage, file, seen>>

\* Only ResourceNotFoundError of the last two calls is turned into a result.
StorageFails ==
  /\ "blob" \in Faults
  /\ pc \in {"exists", "properties", "download"}
  /\ End("raised")
  /\ UNCHANGED <<storage, file, seen>>

Next ==
  \/ \E c \in Contents : PutBlob(c)
  \/ \E descriptor \in Descriptors : Begin(descriptor)
  \/ DeleteBlob \/ ExpireSas
  \/ BlobExists \/ GetBlobProperties \/ DownloadBlob \/ StorageFails

Spec == Init /\ [][Next]_vars

-----------------------------------------------------------------------------
TypeOK ==
  /\ blob \in Contents \cup {None}
  /\ has_md5 \in BOOLEAN
  /\ sas_open \in BOOLEAN
  /\ pc \in Phases
  /\ file \in Descriptors \cup {NoFile}
  /\ result \in Results
  /\ seen \subseteq Contents \cup {None}

\* What one look at b, at one moment, would find to be the file described.
Fits(b) == b \in Contents /\ Size[b] = file.size /\ b = file.checksum

\* What a verdict is worth, however the three calls interleave with writes
\* and removals: a VALID file had the size described at some moment of the
\* validation and the checksum described at some moment; a FAILED one was at
\* some moment not the file described.  (The two moments of a VALID file may
\* be different ones.)
VerdictIsBacked ==
  /\ result = "VALID" =>
       /\ \E c \in seen \cap Contents : Size[c] = file.size
       /\ file.checksum \in seen
  /\ result \in Errors => \E b \in seen : ~Fits(b)

\* The error names what really was wrong at some moment, although each call
\* may have met another content.
ErrorIsTruthful ==
  /\ result = "blob not found" => None \in seen
  /\ result = "size mismatch" => \E c \in seen \cap Contents : Size[c] # file.size
  /\ result = "checksum mismatch" =>
       /\ (seen \cap Contents) \ {file.checksum} # {}
       /\ \E c \in seen \cap Contents : Size[c] = file.size

\* The verdict is the one a single look at some moment of the validation
\* would have given.  This is not always so: a file that never fits is VALID
\* if it has the size described at the properties, is overwritten, and has
\* the checksum described, with another size, at the download.
LooksOnce ==
  /\ result = "VALID" => \E b \in seen : Fits(b)
  /\ result \in Errors => \E b \in seen : ~Fits(b)

\* The size and the checksum reported are those of one content.
Coherent == Size[file.checksum] = file.size

\* Nothing else was at the path while the validation ran.
Undisturbed == \A b1, b2 \in seen : b1 = b2

\* UploadComplete takes a whole validation for one look at the blob.  That
\* is right for a descriptor whose size and checksum belong together, and
\* for any descriptor as long as nobody writes or removes the blob meanwhile.
AtomicUnlessMixed ==
  result # "none" /\ (Coherent \/ Undisturbed) => LooksOnce

\* Inductive: while the validation runs, the path's content is among those
\* seen, and the download follows properties with the right size.
IInv ==
  /\ TypeOK
  /\ pc # "idle" => file \in Descriptors
  /\ pc \notin {"idle", "done"} => blob \in seen
  /\ pc = "idle" => result = "none"
  /\ pc = "download" => \E c \in seen \cap Contents : Size[c] = file.size
  /\ VerdictIsBacked
  /\ ErrorIsTruthful
=============================================================================
