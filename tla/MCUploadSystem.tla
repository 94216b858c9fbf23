--------------------------- MODULE MCUploadSystem ---------------------------
(***************************************************************************)
(* Instances of UploadSystem for TLC.                                      *)
(***************************************************************************)
EXTENDS UploadSystem, TLC

CONSTANTS s1, s2, r1, r2, good, other

OneCaller == {[user |-> <<"a">>, route |-> <<"c">>]}

\* One file each, of either content.
OneFileManifests == [Sources -> {good}]

SystemSymmetry == Permutations(Sessions) \cup Permutations(Requests)
=============================================================================
