----------------------------- MODULE VmRegistry -----------------------------
(***************************************************************************)
(* What an orchestrator of microVMs promises to its callers, without       *)
(* tasks, requests or sockets: who has a handle, which VMs are registered, *)
(* which are running, and in which combinations these may change.          *)
(***************************************************************************)
CONSTANTS
    Ids,        \* VM identifiers
    Own         \* those that are started through the orchestrator

VARIABLES
    handle,     \* "absent" (not issued yet), "held", "gone"
    registered, \* identifiers in the registry
    running     \* VMs with a process that has not been stopped

RegistryInit ==
    /\ handle = [v \in Ids |-> "absent"]
    /\ registered = {}
    /\ running = {}

\* A process is started for a VM whose handle does not exist yet.
Start(v) ==
    /\ handle[v] = "absent" /\ v \notin running
    /\ running' = running \cup {v}
    /\ UNCHANGED <<handle, registered>>

\* A VM that never comes up is stopped; no caller and no entry ever sees it.
Miscarry(v) ==
    /\ handle[v] = "absent"
    /\ handle' = [handle EXCEPT ![v] = "gone"]
    /\ running' = running \ {v}
    /\ UNCHANGED registered

\* A handle and the registry entry come into being in one step.
Issue(v) ==
    /\ handle[v] = "absent"
    /\ handle' = [handle EXCEPT ![v] = "held"]
    /\ registered' = registered \cup ({v} \cap Own)
    /\ UNCHANGED running

\* A VM stops by itself or is being terminated.
Stop(v) ==
    /\ running' = running \ {v}
    /\ UNCHANGED <<handle, registered>>

\* A terminated VM leaves the registry, after it has stopped.
Retire(v) ==
    /\ handle[v] = "held" /\ v \notin running /\ v \in registered
    /\ handle' = [handle EXCEPT ![v] = "gone"]
    /\ registered' = registered \ {v}
    /\ UNCHANGED running

\* The handle is lost in any other way: the VM is stopped, the entry stays.
Abandon(v) ==
    /\ handle[v] = "held"
    /\ handle' = [handle EXCEPT ![v] = "gone"]
    /\ running' = running \ {v}
    /\ UNCHANGED registered

RegistryNext ==
    \E v \in Ids : Start(v) \/ Miscarry(v) \/ Issue(v) \/ Stop(v) \/ Retire(v) \/ Abandon(v)

RegistrySpec == RegistryInit /\ [][RegistryNext]_<<handle, registered, running>>
=============================================================================
