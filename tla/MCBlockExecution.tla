-------------------------- MODULE MCBlockExecution --------------------------
(***************************************************************************)
(* Instances of BlockExecution for TLC, and what the repository says about *)
(* executions, to be confronted with what the code does.                   *)
(***************************************************************************)
EXTENDS BlockExecution, TLC

Symmetry == Permutations(Tasks) \cup Permutations(Vms)

-----------------------------------------------------------------------------
\* README.md says that runs of the same block give identical hashes.
SameBlockSameHash ==
    \A v, w \in Vms :
        (results[v].status = "Succeeded" /\ results[w].status = "Succeeded" /\ block[v] = block[w])
            => results[v].outputHash = results[w].outputHash

\* runner.rs gives "30 seconds per VM run".  Then every run ends, also when
\* Firecracker stops answering (TaskFairSpec assumes nothing of it).
TimeoutBoundsEveryRun == \A t \in Tasks : (pc[t] # "idle") ~> (pc[t] = "idle")
=============================================================================
