-------------------------- MODULE MCUploadComplete --------------------------
(***************************************************************************)
(* Instances of UploadComplete for TLC.                                    *)
(***************************************************************************)
EXTENDS UploadCompleteDocs, UploadCompleteInvariant, TLC

CONSTANTS r1, r2, r3, s1, alice, bob, gps, imu, good, other

\* A full upload, a partial one, and a full one whose second file is described
\* by other content, or by a descriptor no content fits.
RichManifests == {(gps :> good) @@ (imu :> c) : c \in {good, other, Mixed}} \cup {gps :> good}

\* The same without the wrong content.
RetryManifests == {(gps :> good) @@ (imu :> c) : c \in {good, Mixed}} \cup {gps :> good}

\* Two uploads that differ in the sources they name.
TwoManifests == {(gps :> good) @@ (imu :> good), gps :> good}

\* One file.
OneManifest == {gps :> good}

RequestSymmetry == Permutations(Requests)
=============================================================================
