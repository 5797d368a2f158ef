--------------------------- MODULE VmOrchestrator ---------------------------
(***************************************************************************)
(* forge-executor/src/orchestrator.rs: the registry of active VMs on top   *)
(* of the Firecracker backend.  The registry's mutex is never held across  *)
(* an await, so each use of it is one step; but taking it is an await of   *)
(* its own, so the registry and the backend change in separate steps.      *)
(***************************************************************************)
EXTENDS FirecrackerBackend

VARIABLE
    active      \* active_vms: identifiers of the registered VMs

vars == <<fcVars, clientVars, backendVars, active>>

TypeOK ==
    /\ VmmTypeOK
    /\ BackendTypeOK
    /\ active \in SUBSET Vms

Init == BackendInit /\ active = {}

-----------------------------------------------------------------------------
\* Mutant: restore forgets to register the VM.
RegisterSpawnedOnly(t) ==
    /\ At(t, Issuing, "lock")
    /\ active' = IF call[t] = "spawn" THEN active \cup {vm[t]} ELSE active
    /\ HandTo(vm[t], "caller")
    /\ Return(t)
    /\ UNCHANGED <<fcVars, known, cut>>

\* spawn and restore insert the identifier, then hand the VM to the caller.
Register(t) ==
    /\ At(t, Issuing, "lock")
    /\ active' = active \cup {vm[t]}
    /\ HandTo(vm[t], "caller")
    /\ Return(t)
    /\ UNCHANGED <<fcVars, known, cut>>

\* The identifier is drawn here rather than after the check, where it is
\* not visible either, so that an instance with few of them never sticks.
Snapshot(t, v, s) ==
    /\ owner[v] = "caller" /\ Fresh(s)
    /\ Begin(t, "snapshot", v, s, "check")
    /\ UNCHANGED <<fcVars, owner, known, cut, active>>

\* terminate takes the handle by value: nobody else may have it borrowed.
Terminate(t, v) ==
    /\ owner[v] = "caller" /\ ~ Lent(v)
    /\ Begin(t, "terminate", v, NoSnap, "check")
    /\ HandTo(v, "terminating")
    /\ UNCHANGED <<fcVars, known, cut, active>>

\* Mutant: terminate removes the entry first.
FoundRemovesFirst(t) ==
    /\ pc[t] = "check" /\ vm[t] \in active
    /\ \/ /\ call[t] = "snapshot"
          /\ Goto(t, "mkdir")
          /\ UNCHANGED <<fcVars, owner, known, cut, active>>
       \/ /\ call[t] = "terminate"
          /\ KillVm(t)
          /\ active' = active \ {vm[t]}

\* Mutant: snapshot does not look the VM up.
FoundUnchecked(t) ==
    /\ pc[t] = "check"
    /\ \/ /\ call[t] = "snapshot"
          /\ Goto(t, "mkdir")
          /\ UNCHANGED <<fcVars, owner, known, cut>>
       \/ call[t] = "terminate" /\ vm[t] \in active /\ KillVm(t)
    /\ UNCHANGED active

Found(t) ==
    /\ pc[t] = "check" /\ vm[t] \in active
    /\ \/ /\ call[t] = "snapshot"
          /\ Goto(t, "mkdir")
          /\ UNCHANGED <<fcVars, owner, known, cut>>
       \/ call[t] = "terminate" /\ KillVm(t)
    /\ UNCHANGED active

\* VmNotFound.  terminate owns the handle, so returning drops it.
NotFound(t) ==
    /\ pc[t] = "check" /\ vm[t] \notin active
    /\ \/ /\ call[t] = "snapshot"
          /\ Return(t)
          /\ UNCHANGED <<fcVars, owner, known, cut>>
       \/ call[t] = "terminate" /\ GiveUp(t)
    /\ UNCHANGED active

Unregister(t) ==
    /\ At(t, {"terminate"}, "lock")
    /\ active' = active \ {vm[t]}
    /\ HandTo(vm[t], "ended")
    /\ Return(t)
    /\ UNCHANGED <<fcVars, known, cut>>

-----------------------------------------------------------------------------
Runs(t) ==
    \/ BackendRuns(t) /\ UNCHANGED active
    \/ Register(t) \/ Found(t) \/ NotFound(t) \/ Unregister(t)

Next ==
    \/ \E t \in Tasks :
          \/ Runs(t)
          \/ BackendCalls(t) /\ UNCHANGED active
          \/ \E v \in Vms : Terminate(t, v) \/ \E s \in Snaps : Snapshot(t, v, s)
    \/ \E v \in Vms : DropHandle(v) /\ UNCHANGED active
    \/ VmmRuns /\ UNCHANGED active

Spec == Init /\ [][Next]_vars

\* The runtime polls every task whose await is over, the kernel delivers
\* SIGKILL, and Firecracker answers (or dies): no request has a timeout.
Fairness ==
    /\ \A t \in Tasks : WF_vars(Runs(t))
    /\ \A t \in Tasks : WF_vars((FcAnswer(t) \/ FcRefuse(t)) /\ UNCHANGED <<backendVars, active>>)
    /\ \A v \in Vms : WF_vars(OsReap(v) /\ UNCHANGED <<backendVars, active>>)

FairSpec == Spec /\ Fairness

-----------------------------------------------------------------------------
(* Safety                                                                  *)

\* A running Firecracker process always has someone who holds its Child and
\* will kill it: the caller of spawn or restore, or exactly the call that is
\* creating or terminating the VM.  Every error return and every dropped
\* future of firecracker.rs has to give that up only by killing.
NoOrphanVm ==
    \A v \in Vms : proc[v] \in Live =>
        \/ owner[v] = "caller"
        \/ \E t \in Tasks : vm[t] = v /\ call[t] \in Issuing \cup {"terminate"}

\* A handle obtained from the orchestrator is registered as long as a caller
\* can use it, up to and including the lookup that terminate makes: spawn,
\* restore, snapshot and terminate may interleave in any way without a
\* legitimate handle ever meeting VmNotFound.
HeldHandleRegistered ==
    \A v \in Vms \ Foreign :
        (owner[v] = "caller" \/ \E t \in Tasks : vm[t] = v /\ call[t] = "terminate" /\ pc[t] = "check")
            => v \in active

\* A VM that the orchestrator did not start is not paused or snapshotted
\* through it: the lookup comes before the first request, every time.
ForeignVmNeverPaused == \A v \in Foreign : machine[v] # "paused"

\* A guest never runs on a VM that was configured only in part, whatever
\* requests failed or were cut short before it was started.
BootedFullyConfigured ==
    \A v \in Vms : machine[v] # "blank" => conf[v] = Resources

\* A snapshot identifier that snapshot has returned stands for two complete
\* files, for ever: a failed create never yields an identifier and no later
\* request overwrites the files.
ReturnedSnapshotComplete == \A s \in known : files[s] = "whole"

\* Task t is inside snapshot and its resume of the VM is still to come.
OwesResume(t) ==
    /\ call[t] = "snapshot" /\ pc[t] = "api"
    /\ \/ req[t] = "pause" /\ wire[t] = "ok"
       \/ req[t] = "create"
       \/ req[t] = "resume" /\ wire[t] # "ok"

\* A guest that is paused is going to be resumed by some snapshot call still
\* in progress, however many of them overlap and fail, unless one of them
\* was cancelled or had its resume request fail.
PausedIsAccounted ==
    \A v \in Vms : (machine[v] = "paused" /\ proc[v] = "serving") =>
        \/ cut[v] # {}
        \/ \E t \in Tasks : vm[t] = v /\ OwesResume(t)

\* When terminate has returned Ok the process has been waited for and the
\* registry has forgotten the VM, and neither comes back.
EndedIsGone ==
    \A v \in Vms : owner[v] = "ended" => proc[v] = "dead" /\ v \notin active

\* The socket file is never pulled from under a process that might still be
\* bound to it: terminate unlinks only what has been waited for.
SocketRemovedOnlyAfterDeath ==
    [][\A v \in Vms : (sockFile[v] /\ ~ sockFile'[v]) => proc[v] = "dead"]_vars

-----------------------------------------------------------------------------
(* Refinement                                                              *)

HandleOf(v) ==
    CASE owner[v] \in {"none", "creating"} -> "absent"
      [] owner[v] \in {"caller", "terminating"} -> "held"
      [] OTHER -> "gone"

Registry == INSTANCE VmRegistry WITH
    Ids <- Vms,
    Own <- Vms \ Foreign,
    handle <- [v \in Vms |-> HandleOf(v)],
    registered <- active,
    running <- {v \in Vms : proc[v] \in Live}

\* The orchestrator, with all its await points, cancellations and crashes,
\* only ever does what the abstract registry allows.
ImplementsRegistry == Registry!RegistrySpec

-----------------------------------------------------------------------------
(* Liveness, under FairSpec                                                *)

\* Every call of the executor comes to an end: the socket poll is bounded,
\* and a Firecracker that dies or is killed resets its connections.
EveryCallReturns == \A t \in Tasks : (pc[t] # "idle") ~> (pc[t] = "idle")

\* A process that spawn or restore has started, or that terminate has taken,
\* does not run on without a caller: the call hands it to its caller, or,
\* whether it ends, fails or is dropped, the process is eventually gone.
\* Nothing is said of a handle that its caller drops, of which handle.rs says
\* that it does not terminate the VM.
LostVmsDie ==
    \A v \in Vms :
        (owner[v] \in {"creating", "terminating"}) ~> (owner[v] = "caller" \/ proc[v] \in {"none", "dead"})
=============================================================================
