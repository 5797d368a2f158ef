-------------------------- MODULE MCSandboxGateway --------------------------
(***************************************************************************)
(* Instances of SandboxGateway for TLC.                                    *)
(***************************************************************************)
EXTENDS SandboxGateway, TLC

Symmetry == Permutations(Requests) \cup Permutations(Ids)

=============================================================================
