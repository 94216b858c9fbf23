-------------------------- MODULE MCFileValidation --------------------------
(***************************************************************************)
(* Instances of FileValidation for TLC.                                    *)
(***************************************************************************)
EXTENDS FileValidation, TLC

CONSTANTS good, twin, big

\* twin is as long as good, big is longer.
TwinSizes == (good :> 1) @@ (twin :> 1) @@ (big :> 2)
=============================================================================
