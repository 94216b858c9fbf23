------------------------ MODULE FileValidationProofs ------------------------
(***************************************************************************)
(* For any contents, sizes, descriptors and faults: what the verdict of a  *)
(* validation is worth, and when it is that of one look at the blob.       *)
(***************************************************************************)
EXTENDS FileValidation, TLAPS

\* The invariant holds at the start.
LEMMA InvInit == Init => IInv
<1> SUFFICES ASSUME Init PROVE IInv
  OBVIOUS
<1> USE DEF Init
<1>1. TypeOK
  BY DEF TypeOK, Phases, Results
<1>2. VerdictIsBacked
  BY DEF VerdictIsBacked, Errors
<1>3. ErrorIsTruthful
  BY DEF ErrorIsTruthful
<1> QED
  BY <1>1, <1>2, <1>3 DEF IInv

\* A write or a removal keeps what is known of the validation: the path's
\* content joins those seen.
LEMMA InvBecomes ==
  ASSUME IInv, NEW b \in Contents \cup {None}, has_md5' \in BOOLEAN, Becomes(b)
  PROVE  IInv'
<1> USE DEF IInv, TypeOK, Becomes
<1>1. seen \subseteq seen'
  OBVIOUS
<1>2. TypeOK'
  OBVIOUS
<1>3. VerdictIsBacked'
  BY <1>1 DEF VerdictIsBacked, Fits
<1>4. ErrorIsTruthful'
  BY <1>1 DEF ErrorIsTruthful
<1> QED
  BY <1>1, <1>2, <1>3, <1>4

\* A step of the validation itself keeps the invariant.
LEMMA InvValidation ==
  ASSUME IInv, BlobExists \/ GetBlobProperties \/ DownloadBlob \/ StorageFails
  PROVE  IInv'
<1> USE NoneAssumption DEF IInv, TypeOK, Descriptors, Fits, storage, Continue, End, Phases, Results, Errors
<1>1. CASE BlobExists
  BY <1>1 DEF BlobExists, VerdictIsBacked, ErrorIsTruthful
<1>2. CASE GetBlobProperties
  <2>1. file \in Descriptors /\ blob \in seen
    BY <1>2 DEF GetBlobProperties
  <2>2. CASE blob = None /\ End(GoneError)
    BY <1>2, <2>1, <2>2 DEF GetBlobProperties, GoneError, VerdictIsBacked, ErrorIsTruthful
  <2>3. CASE blob # None /\ Size[blob] # file.size /\ End("size mismatch")
    BY <1>2, <2>1, <2>3 DEF GetBlobProperties, VerdictIsBacked, ErrorIsTruthful
  <2>4. CASE blob # None /\ PropertiesMatch /\ End("VALID")
    BY <1>2, <2>1, <2>4 DEF GetBlobProperties, PropertiesMatch, VerdictIsBacked, ErrorIsTruthful
  <2>5. CASE blob # None /\ Size[blob] = file.size /\ Continue("download")
    BY <1>2, <2>1, <2>5 DEF GetBlobProperties, VerdictIsBacked, ErrorIsTruthful
  <2> QED
    BY <1>2, <2>2, <2>3, <2>4, <2>5 DEF GetBlobProperties
<1>3. CASE DownloadBlob
  BY <1>3 DEF DownloadBlob, VerdictIsBacked, ErrorIsTruthful
<1>4. CASE StorageFails
  BY <1>4 DEF StorageFails, VerdictIsBacked, ErrorIsTruthful
<1> QED
  BY <1>1, <1>2, <1>3, <1>4

\* Every step keeps the invariant.
LEMMA InvNext == ASSUME IInv, [Next]_vars PROVE IInv'
<1>1. CASE \E c \in Contents : PutBlob(c)
  BY <1>1, InvBecomes DEF PutBlob
<1>2. CASE \E descriptor \in Descriptors : Begin(descriptor)
  BY <1>2 DEF Begin, storage, Continue, IInv, TypeOK, Phases, VerdictIsBacked, ErrorIsTruthful, Fits, Errors
<1>3. CASE DeleteBlob
  BY <1>3, InvBecomes DEF DeleteBlob
<1>4. CASE ExpireSas
  BY <1>4 DEF ExpireSas, IInv, TypeOK, VerdictIsBacked, ErrorIsTruthful, Fits
<1>5. CASE BlobExists \/ GetBlobProperties \/ DownloadBlob \/ StorageFails
  BY <1>5, InvValidation
<1>6. CASE UNCHANGED vars
  BY <1>6 DEF vars, IInv, TypeOK, VerdictIsBacked, ErrorIsTruthful, Fits
<1> QED
  BY <1>1, <1>2, <1>3, <1>4, <1>5, <1>6 DEF Next

\* The inductive invariant of the validation of a file.
THEOREM FileInvariance == Spec => []IInv
<1>1. Init => IInv
  BY InvInit
<1>2. IInv /\ [Next]_vars => IInv'
  BY InvNext
<1> QED
  BY <1>1, <1>2, PTL DEF Spec

\* Every variable of a validation keeps its type.
THEOREM FileTypeCorrect == Spec => []TypeOK
<1>1. IInv => TypeOK
  BY DEF IInv
<1> QED
  BY <1>1, FileInvariance, PTL

\* A VALID file had the size described and the checksum described at moments
\* of its validation, a FAILED one was at some moment not the file described,
\* whatever is written meanwhile and whatever the descriptor says.
THEOREM VerdictIsBackedAlways == Spec => []VerdictIsBacked
<1>1. IInv => VerdictIsBacked
  BY DEF IInv
<1> QED
  BY <1>1, FileInvariance, PTL

\* Two moments are one when the size described is that of the content with
\* the checksum described, or when there was only one thing to see.
LEMMA TwoMomentsInOne ==
  ASSUME IInv, result # "none", Coherent \/ Undisturbed
  PROVE  LooksOnce
<1>1. CASE result \in Errors
  BY <1>1 DEF IInv, VerdictIsBacked, LooksOnce, Errors
<1>2. CASE result = "VALID"
  <2>1. file \in Descriptors
    BY <1>2 DEF IInv
  <2>2. file.checksum \in seen \cap Contents
    BY <1>2, <2>1 DEF IInv, VerdictIsBacked, Descriptors
  <2>3. PICK c \in seen \cap Contents : Size[c] = file.size
    BY <1>2 DEF IInv, VerdictIsBacked
  <2>4. Size[file.checksum] = file.size
    BY <2>2, <2>3 DEF Coherent, Undisturbed
  <2>5. Fits(file.checksum)
    BY <2>2, <2>4 DEF Fits
  <2> QED
    BY <1>2, <2>2, <2>5 DEF LooksOnce, Errors
<1> QED
  BY <1>1, <1>2 DEF LooksOnce

\* A validation gives the verdict of a single look at the blob at some moment
\* between its first call and its last, if the size and the checksum of the
\* descriptor belong to one content or nobody touches the blob meanwhile.
THEOREM ValidationIsAtomic == Spec => []AtomicUnlessMixed
<1>1. IInv => AtomicUnlessMixed
  BY TwoMomentsInOne DEF AtomicUnlessMixed
<1> QED
  BY <1>1, FileInvariance, PTL

\* The error of a FAILED result names something that was wrong.
THEOREM ErrorsAreTruthful == Spec => []ErrorIsTruthful
<1>1. IInv => ErrorIsTruthful
  BY DEF IInv
<1> QED
  BY <1>1, FileInvariance, PTL
=============================================================================
