-------------------------- MODULE MCVmOrchestrator --------------------------
(***************************************************************************)
(* Instances of VmOrchestrator for TLC, and what the repository's own      *)
(* comments say about it, to be confronted with what the code does.        *)
(***************************************************************************)
EXTENDS VmOrchestrator, TLC

Symmetry == Permutations(Tasks) \cup Permutations(Snaps) \cup Permutations(Vms \ Foreign)

-----------------------------------------------------------------------------
\* backend.rs says of all methods that dropping their future at any await
\* point "will not leave VM state inconsistent".  Then a VM that no call is
\* working on any more is not left paused (resume requests that failed are
\* set aside: they are not the doing of a dropped future).
CancelSafeSnapshot ==
    \A v \in Vms :
        (machine[v] = "paused" /\ proc[v] = "serving" /\ "refused" \notin cut[v])
            => \E t \in Tasks : vm[t] = v

\* orchestrator.rs says all operations are safe to call concurrently, and
\* firecracker.rs that the VM must be paused before snapshotting.  Then a
\* create request finds the VM paused when nothing was cancelled or failed.
CreateFindsVmPaused ==
    \A t \in Tasks :
        (InFlight(t) /\ req[t] = "create" /\ proc[vm[t]] = "serving" /\ cut[vm[t]] = {})
            => machine[vm[t]] = "paused"
=============================================================================
