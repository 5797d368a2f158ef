------------------------- MODULE MCBackendPreflight -------------------------
(***************************************************************************)
(* Instances of BackendPreflight for TLC.                                  *)
(***************************************************************************)
EXTENDS BackendPreflight, TLC

Symmetry == Permutations(Tasks)
=============================================================================
