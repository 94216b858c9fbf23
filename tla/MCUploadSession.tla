-------------------------- MODULE MCUploadSession --------------------------
(***************************************************************************)
(* Instances of UploadSession for TLC.                                     *)
(***************************************************************************)
EXTENDS UploadSession, TLC

CONSTANTS s1, s2

\* Two of the three callers read the same once joined: a_b with route c, and a
\* with route b_c.
MCCallers ==
  {[user |-> <<"a">>, route |-> <<"b", "c">>],
   [user |-> <<"a", "b">>, route |-> <<"c">>],
   [user |-> <<"a">>, route |-> <<"c">>]}

OneCaller == {[user |-> <<"a">>, route |-> <<"c">>]}

SessionSymmetry == Permutations(Sessions)
=============================================================================
