------------------------ MODULE VmOrchestratorProofs ------------------------
(***************************************************************************)
(* Proofs about VmOrchestrator, for any number of tasks, VMs and           *)
(* snapshots.                                                              *)
(***************************************************************************)
EXTENDS VmOrchestrator, FirecrackerBackendProofs

-----------------------------------------------------------------------------
(* The inductive invariant.                                                *)

\* A task is idle or inside a method, at one of that method's await points,
\* with a VM to work on and, once something is on the wire, one of that
\* method's requests.
TaskInv ==
    \A t \in Tasks :
        /\ pc[t] = "idle" <=> call[t] = "none"
        /\ call[t] = "none" <=> vm[t] = NoVm
        /\ wire[t] # "none" => req[t] # "none"
        /\ call[t] = "none" => wire[t] = "none" /\ req[t] = "none" /\ snap[t] = NoSnap
        /\ call[t] \in Issuing => pc[t] \in {"mkdir", "wait", "api", "lock"}
        /\ call[t] = "snapshot" => pc[t] \in {"check", "mkdir", "api"}
        /\ call[t] = "terminate" => pc[t] \in {"check", "reap", "unlink", "lock"}
        /\ call[t] = "spawn" => req[t] \in Resources \cup {"InstanceStart", "none"}
        /\ call[t] = "restore" => req[t] \in {"load", "none"}
        /\ call[t] = "snapshot" => req[t] \in {"pause", "create", "resume", "none"}
        /\ call[t] = "terminate" => req[t] = "none"
        /\ call[t] # "execute"

\* Who holds the Child of a VM agrees with what the tasks are doing.
OwnerInv ==
    /\ \A t \in Tasks :
          /\ call[t] \in Issuing => owner[vm[t]] = "creating"
          /\ call[t] = "snapshot" => owner[vm[t]] = "caller"
          /\ call[t] = "terminate" => owner[vm[t]] = "terminating"
    /\ \A t, u \in Tasks :
          (t # u /\ vm[t] = vm[u] /\ call[t] # "none") => call[t] = "snapshot"
    /\ \A v \in Vms :
          /\ owner[v] = "creating" => \E t \in Tasks : vm[t] = v /\ call[t] \in Issuing
          /\ owner[v] = "terminating" => \E t \in Tasks : vm[t] = v /\ call[t] = "terminate"

\* A process exists from its exec to its kill, and is dead once waited for.
ProcInv ==
    /\ \A v \in Vms :
          /\ owner[v] = "none" => proc[v] = "none"
          /\ owner[v] = "dropped" => proc[v] \notin Live
          /\ owner[v] = "ended" => proc[v] = "dead"
    /\ \A t \in Tasks :
          /\ At(t, Issuing, "mkdir") => proc[vm[t]] = "none"
          /\ call[t] = "terminate" /\ pc[t] \in {"unlink", "lock"} => proc[vm[t]] = "dead"

\* The registry holds what the orchestrator has issued, and gives it up only
\* at the end of a terminate.
RegistryInv ==
    /\ \A v \in Vms :
          /\ v \in Foreign => v \notin active
          /\ v \notin Foreign /\ owner[v] = "caller" => v \in active
          /\ owner[v] \in {"none", "creating", "ended"} => v \notin active
    /\ \A t \in Tasks :
          call[t] = "terminate" /\ (pc[t] # "check" \/ vm[t] \notin Foreign) => vm[t] \in active
    /\ \A t \in Tasks : At(t, Issuing, "lock") => vm[t] \notin Foreign

IInv == TypeOK /\ TaskInv /\ OwnerInv /\ ProcInv /\ RegistryInv

-----------------------------------------------------------------------------
(* Type correctness.                                                       *)

\* A step of a Firecracker process keeps every variable in its type.
LEMMA VmmTypeStep ==
    ASSUME TypeOK, VmmRuns, UNCHANGED active
    PROVE  TypeOK'
<1>1. VmmTypeOK'
  BY FcTypeStep DEF TypeOK, VmmRuns
<1>2. BackendTypeOK'
  BY DEF TypeOK, BackendTypeOK, VmmRuns, backendVars
<1> QED
  BY <1>1, <1>2 DEF TypeOK

\* The part of the type invariant that is not about tasks.
VmTypeOK ==
    /\ proc \in [Vms -> ProcStates]
    /\ sockFile \in [Vms -> BOOLEAN]
    /\ conf \in [Vms -> SUBSET Resources]
    /\ machine \in [Vms -> {"blank", "running", "paused"}]
    /\ files \in [Snaps -> {"absent", "torn", "whole"}]
    /\ stray \in SUBSET Strays
    /\ owner \in [Vms -> {"none", "creating", "caller", "terminating", "ended", "dropped"}]
    /\ known \in SUBSET Snaps
    /\ cut \in [Vms -> SUBSET {"cancelled", "refused"}]
    /\ active \in SUBSET Vms

\* The type invariant splits into what belongs to tasks and the rest, in
\* this state and in the next.
LEMMA TypeSplit ==
    /\ TypeOK <=> TaskTypeOK /\ VmTypeOK
    /\ TypeOK' <=> TaskTypeOK' /\ VmTypeOK'
BY DEF TypeOK, VmmTypeOK, BackendTypeOK, TaskTypeOK, VmTypeOK

\* Returning, suspending, asking and beginning keep a task's own state in
\* its type.
LEMMA TaskMoves ==
    ASSUME TypeOK, NEW t \in Tasks
    PROVE  /\ Return(t) => TaskTypeOK'
           /\ \A p \in AwaitPoints : Goto(t, p) => TaskTypeOK'
           /\ \A r \in Requests : Ask(t, r) => TaskTypeOK'
           /\ \A m \in Calls, v \in Vms, s \in Snaps \cup {NoSnap}, p \in AwaitPoints :
                 Begin(t, m, v, s, p) => TaskTypeOK'
BY TaskTypeMoves, TypeSplit

\* Handing a Child on keeps owner in its type.
LEMMA OwnerMoves ==
    ASSUME TypeOK, NEW v,
           NEW who \in {"none", "creating", "caller", "terminating", "ended", "dropped"},
           HandTo(v, who)
    PROVE  owner' \in [Vms -> {"none", "creating", "caller", "terminating", "ended", "dropped"}]
BY FcOwnerMoves DEF TypeOK, BackendOK

\* SIGKILL leaves every process in a state a process may be in.
LEMMA KilledType ==
    ASSUME TypeOK, NEW v
    PROVE  Killed(v) \in [Vms -> ProcStates]
BY FcKilledType DEF TypeOK, BackendOK

\* An error return or a dropped future that takes the Child with it keeps
\* every variable in its type.
LEMMA GiveUpType ==
    ASSUME TypeOK, NEW t \in Tasks, GiveUp(t), UNCHANGED active
    PROVE  TypeOK'
BY FcGiveUpType DEF TypeOK, BackendOK

\* So does a step of the executor by itself.
LEMMA BackendRunsType ==
    ASSUME TypeOK, NEW t \in Tasks, BackendRuns(t), UNCHANGED active
    PROVE  TypeOK'
BY FcRunsType DEF TypeOK, BackendOK

\* So does a step decided outside it, by its caller or by the system.
LEMMA BackendCallsType ==
    ASSUME TypeOK, TaskInv, NEW t \in Tasks, BackendCalls(t), UNCHANGED active
    PROVE  TypeOK'
<1> USE TypeSplit DEF VmTypeOK, fcVars
<1>0. "mkdir" \in AwaitPoints /\ {"spawn", "restore"} \subseteq Calls
  BY DEF AwaitPoints, Calls
<1>1. CASE CancelCreating(t) \/ CancelTerminate(t) \/ KillFails(t)
  BY <1>1, GiveUpType DEF CancelCreating, CancelTerminate, KillFails
<1>2. CASE CancelSnapshot(t)
  <2>1. TaskTypeOK'
    BY <1>2, TaskMoves DEF CancelSnapshot
  <2>2. cut' \in [Vms -> SUBSET {"cancelled", "refused"}]
    BY <1>2 DEF CancelSnapshot
  <2>3. InFlight(t) => [vm |-> vm[t], snap |-> snap[t], req |-> req[t]] \in Strays
    BY <1>2 DEF CancelSnapshot, InFlight, TaskInv, TaskTypeOK, Strays
  <2>4. stray' \in SUBSET Strays
    BY <1>2, <2>3 DEF CancelSnapshot
  <2> QED
    BY <1>2, <2>1, <2>2, <2>4 DEF CancelSnapshot
<1>3. CASE \E v \in Vms : Spawn(t, v)
  <2>1. PICK v \in Vms : Spawn(t, v)
    BY <1>3
  <2>2. TaskTypeOK'
    BY <1>0, <2>1, TaskMoves DEF Spawn
  <2>3. owner' \in [Vms -> {"none", "creating", "caller", "terminating", "ended", "dropped"}]
    BY <2>1, OwnerMoves DEF Spawn
  <2> QED
    BY <2>1, <2>2, <2>3 DEF Spawn
<1>4. CASE \E v \in Vms, s \in Snaps : Restore(t, v, s)
  <2>1. PICK v \in Vms, s \in Snaps : Restore(t, v, s)
    BY <1>4
  <2>2. TaskTypeOK'
    BY <1>0, <2>1, TaskMoves DEF Restore
  <2>3. owner' \in [Vms -> {"none", "creating", "caller", "terminating", "ended", "dropped"}]
    BY <2>1, OwnerMoves DEF Restore
  <2> QED
    BY <2>1, <2>2, <2>3 DEF Restore
<1> QED
  BY <1>1, <1>2, <1>3, <1>4 DEF BackendCalls

\* Every step of the system keeps every variable in its type.
LEMMA TypeStep ==
    ASSUME TypeOK, TaskInv, [Next]_vars
    PROVE  TypeOK'
<1> USE TypeSplit DEF VmTypeOK, fcVars
<1>0. {"check", "mkdir", "reap"} \subseteq AwaitPoints /\ {"snapshot", "terminate"} \subseteq Calls
  BY DEF AwaitPoints, Calls
<1>1. ASSUME NEW t \in Tasks, Register(t) \/ Unregister(t)
      PROVE  TypeOK'
  <2>1. TaskTypeOK'
    BY <1>1, TaskMoves DEF Register, Unregister
  <2>2. owner' \in [Vms -> {"none", "creating", "caller", "terminating", "ended", "dropped"}]
    BY <1>1, OwnerMoves DEF Register, Unregister
  <2>3. vm[t] \in Vms
    BY <1>1 DEF Register, Unregister, At, TaskInv, TaskTypeOK, Issuing
  <2>4. active' \in SUBSET Vms
    BY <1>1, <2>3 DEF Register, Unregister
  <2> QED
    BY <1>1, <2>1, <2>2, <2>4 DEF Register, Unregister
<1>2. ASSUME NEW t \in Tasks, Found(t)
      PROVE  TypeOK'
  <2>1. TaskTypeOK'
    BY <1>0, <1>2, TaskMoves DEF Found, KillVm
  <2>2. proc' \in [Vms -> ProcStates]
    BY <1>2, KilledType DEF Found, KillVm
  <2> QED
    BY <1>2, <2>1, <2>2 DEF Found, KillVm
<1>3. ASSUME NEW t \in Tasks, NotFound(t)
      PROVE  TypeOK'
  <2>1. CASE GiveUp(t)
    BY <1>3, <2>1, GiveUpType DEF NotFound
  <2>2. CASE Return(t) /\ UNCHANGED <<fcVars, owner, known, cut>>
    <3>1. TaskTypeOK'
      BY <2>2, TaskMoves
    <3> QED
      BY <1>3, <2>2, <3>1 DEF NotFound
  <2> QED
    BY <1>3, <2>1, <2>2 DEF NotFound
<1>4. ASSUME NEW t \in Tasks, NEW v \in Vms, Terminate(t, v)
      PROVE  TypeOK'
  <2>1. TaskTypeOK'
    BY <1>0, <1>4, TaskMoves DEF Terminate
  <2>2. owner' \in [Vms -> {"none", "creating", "caller", "terminating", "ended", "dropped"}]
    BY <1>4, OwnerMoves DEF Terminate
  <2> QED
    BY <1>4, <2>1, <2>2 DEF Terminate
<1>5. ASSUME NEW t \in Tasks, NEW v \in Vms, NEW s \in Snaps, Snapshot(t, v, s)
      PROVE  TypeOK'
  <2>1. TaskTypeOK'
    BY <1>0, <1>5, TaskMoves DEF Snapshot
  <2> QED
    BY <1>5, <2>1 DEF Snapshot
<1>6. ASSUME NEW v \in Vms, DropHandle(v), UNCHANGED active
      PROVE  TypeOK'
  <2>1. owner' \in [Vms -> {"none", "creating", "caller", "terminating", "ended", "dropped"}]
    BY <1>6, OwnerMoves DEF DropHandle, DropChild
  <2> QED
    BY <1>6, <2>1, KilledType DEF DropHandle, DropChild, taskVars, TaskTypeOK
<1>7. CASE UNCHANGED vars
  BY <1>7 DEF vars, clientVars, backendVars, TaskTypeOK
<1> QED
  BY <1>1, <1>2, <1>3, <1>4, <1>5, <1>6, <1>7, BackendRunsType, BackendCallsType, VmmTypeStep
  DEF Next, Runs

-----------------------------------------------------------------------------
(* Preservation of the other conjuncts.                                    *)

\* What a step of a Firecracker process leaves alone, and what it can do to
\* a process: it never starts one, and never undoes a kill.
LEMMA VmmEffect ==
    ASSUME TypeOK, VmmRuns
    PROVE  /\ UNCHANGED <<call, pc, polls, vm, snap, req, owner, known, cut>>
           /\ \A v \in Vms :
                 \/ proc'[v] = proc[v]
                 \/ proc[v] \in Live /\ proc'[v] \in Live
                 \/ proc[v] \in Live \cup {"dying"} /\ proc'[v] = "dead"
           /\ \A t \in Tasks : wire'[t] # "none" => wire[t] # "none"
BY FcEffect DEF TypeOK

\* Every step leaves each task idle or at an await point of its method.
LEMMA TaskStep ==
    ASSUME TypeOK, TaskInv, [Next]_vars
    PROVE  TaskInv'
<1> USE TypeSplit, SentinelAssumption DEF TaskTypeOK, TaskInv, Issuing
<1>1. CASE VmmRuns
  BY <1>1, VmmEffect
<1>2. ASSUME NEW t \in Tasks, Return(t) PROVE TaskInv'
  BY <1>2 DEF Return
<1>3. ASSUME NEW t \in Tasks, GiveUp(t) PROVE TaskInv'
  BY <1>2, <1>3 DEF GiveUp
<1>4. ASSUME NEW t \in Tasks, BackendRuns(t) PROVE TaskInv'
  <2>1. CASE ExecVmm(t) \/ SocketMissing(t)
    BY <1>4, <2>1 DEF ExecVmm, SocketMissing, At, Goto, Creating
  <2>2. CASE SocketAppears(t)
    BY <1>4, <2>2 DEF SocketAppears, At, Ask, ApiRequest, Creating, Resources
  <2>3. CASE ConfigureNext(t)
    <3>1. NextConfig(req[t]) \in Resources \cup {"InstanceStart", "none"}
      BY DEF NextConfig, Resources
    <3> QED
      BY <1>4, <2>3, <3>1 DEF ConfigureNext, At, Ask, ApiRequest
  <2>4. CASE Booted(t)
    BY <1>2, <1>4, <2>4 DEF Booted, Goto, Replied
  <2>5. CASE PauseVm(t) \/ PauseDone(t) \/ CreateDone(t)
    BY <1>4, <2>5 DEF PauseVm, PauseDone, CreateDone, At, Replied, Ask, ApiRequest, Resources
  <2>6. CASE Reaped(t) \/ Unlink(t)
    BY <1>4, <2>6 DEF Reaped, Unlink, At, Goto
  <2> QED
    BY <1>2, <1>3, <1>4, <2>1, <2>2, <2>3, <2>4, <2>5, <2>6
    DEF BackendRuns, SetupFails, WaitExpired, BootFails, MkdirFails, PauseFails, ResumeDone
<1>5. ASSUME NEW t \in Tasks, NEW m \in {"spawn", "restore", "snapshot", "terminate"},
             NEW v \in Vms, NEW s, NEW p \in {"mkdir", "check"},
             m \in Issuing => p = "mkdir", m \notin Issuing => p = "check",
             Begin(t, m, v, s, p)
      PROVE  TaskInv'
  BY <1>5 DEF Begin, Idle
<1>6. ASSUME NEW t \in Tasks, BackendCalls(t) PROVE TaskInv'
  BY <1>2, <1>3, <1>5, <1>6
  DEF BackendCalls, Spawn, Restore, CancelCreating, CancelSnapshot, CancelTerminate, KillFails
<1>7. ASSUME NEW t \in Tasks, Register(t) \/ Unregister(t) \/ NotFound(t) PROVE TaskInv'
  BY <1>2, <1>3, <1>7 DEF Register, Unregister, NotFound
<1>8. ASSUME NEW t \in Tasks, Found(t) PROVE TaskInv'
  BY <1>8 DEF Found, KillVm, Goto
<1>9. ASSUME NEW t \in Tasks, NEW v \in Vms, Terminate(t, v) PROVE TaskInv'
  BY <1>5, <1>9 DEF Terminate
<1>10. ASSUME NEW t \in Tasks, NEW v \in Vms, NEW s \in Snaps, Snapshot(t, v, s) PROVE TaskInv'
  BY <1>5, <1>10 DEF Snapshot
<1>11. ASSUME NEW v \in Vms, DropHandle(v) PROVE TaskInv'
  BY <1>11 DEF DropHandle, taskVars
<1>12. CASE UNCHANGED vars
  BY <1>12 DEF vars, clientVars, backendVars
<1> QED
  BY <1>1, <1>4, <1>6, <1>7, <1>8, <1>9, <1>10, <1>11, <1>12 DEF Next, Runs

\* The ways in which the tasks' calls and VMs and the VMs' owners can change
\* together: a call begins, a call ends, a caller drops a handle.
Begins(t, v) ==
    /\ call[t] = "none"
    /\ \E m \in {"spawn", "restore", "snapshot", "terminate"} :
          /\ call' = [call EXCEPT ![t] = m]
          /\ vm' = [vm EXCEPT ![t] = v]
          /\ \/ m \in Issuing /\ owner[v] = "none" /\ owner' = [owner EXCEPT ![v] = "creating"]
             \/ m = "snapshot" /\ owner[v] = "caller" /\ owner' = owner
             \/ /\ m = "terminate" /\ owner[v] = "caller" /\ ~ Lent(v)
                /\ owner' = [owner EXCEPT ![v] = "terminating"]

Ends(t) ==
    /\ call[t] # "none"
    /\ call' = [call EXCEPT ![t] = "none"]
    /\ vm' = [vm EXCEPT ![t] = NoVm]
    /\ \/ call[t] = "snapshot" /\ owner' = owner
       \/ call[t] # "snapshot" /\ \E who \in {"caller", "ended", "dropped"} :
                                     owner' = [owner EXCEPT ![vm[t]] = who]

Drops(v) ==
    /\ owner[v] = "caller" /\ ~ Lent(v)
    /\ owner' = [owner EXCEPT ![v] = "dropped"]
    /\ UNCHANGED <<call, vm>>

\* To the question who holds which Child, every step is one of four: it
\* changes nothing, ends a call, begins a call, or drops a caller's handle.
LEMMA Shapes ==
    ASSUME TypeOK, TaskInv, [Next]_vars
    PROVE  \/ UNCHANGED <<call, vm, owner>>
           \/ \E t \in Tasks : Ends(t) \/ \E v \in Vms : Begins(t, v)
           \/ \E v \in Vms : Drops(v)
<1> USE DEF TaskInv
<1>1. CASE VmmRuns
  BY <1>1, VmmEffect
<1>2. ASSUME NEW t \in Tasks, GiveUp(t), call[t] \notin {"none", "snapshot"}
      PROVE  Ends(t)
  BY <1>2 DEF GiveUp, DropChild, HandTo, Return, Ends
<1>3. ASSUME NEW t \in Tasks, BackendRuns(t)
      PROVE  UNCHANGED <<call, vm, owner>> \/ Ends(t)
  <2>1. CASE SetupFails(t) \/ WaitExpired(t) \/ BootFails(t)
    BY <1>2, <2>1 DEF SetupFails, WaitExpired, BootFails, At, Creating, Issuing
  <2>2. CASE \/ ExecVmm(t) \/ SocketMissing(t) \/ SocketAppears(t) \/ ConfigureNext(t)
             \/ PauseVm(t) \/ PauseDone(t) \/ CreateDone(t) \/ Reaped(t) \/ Unlink(t)
    BY <2>2 DEF ExecVmm, SocketMissing, SocketAppears, ConfigureNext, PauseVm, PauseDone,
                CreateDone, Reaped, Unlink, Goto, Ask
  <2>3. CASE Booted(t)
    BY <2>3 DEF Booted, HandTo, Return, Goto, Ends, Issuing
  <2>4. CASE MkdirFails(t)
    BY <2>4 DEF MkdirFails, At, Return, Ends
  <2>5. CASE PauseFails(t) \/ ResumeDone(t)
    <3>1. call[t] = "snapshot"
      BY <2>5, TypeSplit DEF PauseFails, ResumeDone, Replied, TaskTypeOK, Calls, Resources
    <3> QED
      BY <3>1, <2>5 DEF PauseFails, ResumeDone, Return, Ends
  <2> QED
    BY <1>3, <2>1, <2>2, <2>3, <2>4, <2>5 DEF BackendRuns
<1>4. ASSUME NEW t \in Tasks, BackendCalls(t)
      PROVE  Ends(t) \/ \E v \in Vms : Begins(t, v)
  <2>1. CASE CancelCreating(t) \/ CancelTerminate(t) \/ KillFails(t)
    BY <1>2, <2>1 DEF CancelCreating, CancelTerminate, KillFails, At, Creating, Issuing
  <2>2. CASE CancelSnapshot(t)
    BY <2>2 DEF CancelSnapshot, Return, Ends
  <2>3. CASE \E v \in Vms : Spawn(t, v) \/ \E s \in Snaps : Restore(t, v, s)
    BY <2>3 DEF Spawn, Restore, Begin, Idle, HandTo, Begins, Issuing
  <2> QED
    BY <1>4, <2>1, <2>2, <2>3 DEF BackendCalls
<1>5. ASSUME NEW t \in Tasks, Register(t) \/ Unregister(t)
      PROVE  Ends(t)
  BY <1>5 DEF Register, Unregister, At, Issuing, HandTo, Return, Ends
<1>6. ASSUME NEW t \in Tasks, Found(t)
      PROVE  UNCHANGED <<call, vm, owner>>
  BY <1>6 DEF Found, KillVm, Goto
<1>7. ASSUME NEW t \in Tasks, NotFound(t)
      PROVE  Ends(t)
  BY <1>2, <1>7 DEF NotFound, Return, Ends
<1>8. ASSUME NEW t \in Tasks, NEW v \in Vms, Terminate(t, v)
      PROVE  Begins(t, v)
  BY <1>8 DEF Terminate, Begin, Idle, HandTo, Begins
<1>9. ASSUME NEW t \in Tasks, NEW v \in Vms, NEW s \in Snaps, Snapshot(t, v, s)
      PROVE  Begins(t, v)
  BY <1>9 DEF Snapshot, Begin, Idle, Begins
<1>10. ASSUME NEW v \in Vms, DropHandle(v)
       PROVE  Drops(v)
  BY <1>10 DEF DropHandle, DropChild, HandTo, taskVars, Drops
<1>11. CASE UNCHANGED vars
  BY <1>11 DEF vars, clientVars, backendVars
<1> QED
  BY <1>1, <1>3, <1>4, <1>5, <1>6, <1>7, <1>8, <1>9, <1>10, <1>11 DEF Next, Runs

\* Every step keeps the holders of the Childs in agreement with the calls
\* in progress.
LEMMA OwnerStep ==
    ASSUME TypeOK, TaskInv, OwnerInv, [Next]_vars
    PROVE  OwnerInv'
<1> USE TypeSplit DEF TaskTypeOK, VmTypeOK, OwnerInv, Issuing
<1>1. CASE UNCHANGED <<call, vm, owner>>
  BY <1>1
<1>2. ASSUME NEW t \in Tasks, Ends(t)
      PROVE  OwnerInv'
  BY <1>2, SentinelAssumption DEF Ends, TaskInv
<1>3. ASSUME NEW t \in Tasks, NEW v \in Vms, Begins(t, v)
      PROVE  OwnerInv'
  <2>1. \A u \in Tasks : vm[u] = v => owner[v] = "caller" /\ call[u] = "snapshot"
    BY <1>3, SentinelAssumption DEF Begins, TaskInv, Calls
  <2>2. CASE /\ owner[v] = "none" /\ owner' = [owner EXCEPT ![v] = "creating"]
             /\ \E m \in Issuing : call' = [call EXCEPT ![t] = m]
             /\ vm' = [vm EXCEPT ![t] = v]
    <3>1. \A u \in Tasks : vm[u] # v
      BY <2>1, <2>2
    <3> QED
      BY <1>3, <2>2, <3>1, SentinelAssumption DEF Begins, TaskInv
  <2>3. CASE /\ owner[v] = "caller" /\ owner' = owner
             /\ call' = [call EXCEPT ![t] = "snapshot"]
             /\ vm' = [vm EXCEPT ![t] = v]
    BY <1>3, <2>1, <2>3, SentinelAssumption DEF Begins, TaskInv
  <2>4. CASE /\ owner[v] = "caller" /\ ~ Lent(v) /\ owner' = [owner EXCEPT ![v] = "terminating"]
             /\ call' = [call EXCEPT ![t] = "terminate"]
             /\ vm' = [vm EXCEPT ![t] = v]
    <3>1. \A u \in Tasks : vm[u] # v
      BY <2>1, <2>4 DEF Lent
    <3> QED
      BY <1>3, <2>4, <3>1, SentinelAssumption DEF Begins, TaskInv
  <2> QED
    BY <1>3, <2>2, <2>3, <2>4 DEF Begins
<1>4. ASSUME NEW v \in Vms, Drops(v)
      PROVE  OwnerInv'
  BY <1>4, SentinelAssumption DEF Drops, TaskInv, Lent
<1> QED
  BY <1>1, <1>2, <1>3, <1>4, Shapes

\* Every step keeps the processes in agreement with their holders: a Child
\* is given up only by killing, and terminate goes on only after the exit.
LEMMA ProcStep ==
    ASSUME TypeOK, TaskInv, OwnerInv, ProcInv, [Next]_vars
    PROVE  ProcInv'
<1> USE TypeSplit, SentinelAssumption DEF TaskTypeOK, VmTypeOK, ProcInv, Issuing, At
<1>0. \A t \in Tasks : call[t] # "none" => vm[t] \in Vms
  BY DEF TaskInv
<1>1. CASE VmmRuns
  BY <1>0, <1>1, VmmEffect DEF Live
<1>2. ASSUME NEW t \in Tasks, GiveUp(t), call[t] \notin {"none", "snapshot"}
      PROVE  ProcInv'
  BY <1>0, <1>2 DEF GiveUp, DropChild, HandTo, Return, Killed, Live, TaskInv, OwnerInv
<1>3. ASSUME NEW t \in Tasks, Return(t), call[t] = "snapshot", UNCHANGED <<proc, owner>>
      PROVE  ProcInv'
  BY <1>3 DEF Return
<1>4. ASSUME NEW t \in Tasks, UNCHANGED <<proc, owner, call, vm>>,
             pc' = pc \/ \E p \in {"wait", "api", "lock"} : pc' = [pc EXCEPT ![t] = p],
             call[t] # "terminate"
      PROVE  ProcInv'
  BY <1>4
<1>5. ASSUME NEW t \in Tasks, BackendRuns(t)
      PROVE  ProcInv'
  <2>1. CASE SetupFails(t) \/ WaitExpired(t) \/ BootFails(t)
    BY <1>2, <2>1 DEF SetupFails, WaitExpired, BootFails, Creating
  <2>2. CASE ExecVmm(t)
    <3>1. call[t] \in Issuing /\ vm[t] \in Vms /\ owner[vm[t]] = "creating"
      BY <1>0, <2>2 DEF ExecVmm, Creating, TaskInv, OwnerInv
    <3>2. \A u \in Tasks : u # t => vm[u] # vm[t]
      BY <3>1 DEF OwnerInv
    <3> QED
      BY <2>2, <3>1, <3>2 DEF ExecVmm, Goto
  <2>3. CASE SocketMissing(t) \/ SocketAppears(t) \/ ConfigureNext(t) \/ PauseVm(t)
    BY <1>4, <2>3
    DEF SocketMissing, SocketAppears, ConfigureNext, PauseVm, Ask, fcVars, Creating
  <2>4. CASE PauseDone(t) \/ CreateDone(t)
    <3>1. call[t] # "terminate"
      BY <2>4 DEF PauseDone, CreateDone, Replied, TaskInv
    <3> QED
      BY <1>4, <2>4, <3>1 DEF PauseDone, CreateDone, Ask, fcVars
  <2>5. CASE Booted(t)
    <3>1. CASE UNCHANGED owner /\ Goto(t, "lock")
      BY <1>4, <2>5, <3>1 DEF Booted, Goto, fcVars
    <3>2. CASE HandTo(vm[t], "caller") /\ Return(t)
      BY <2>5, <3>2 DEF Booted, HandTo, Return, fcVars, OwnerInv
    <3> QED
      BY <2>5, <3>1, <3>2 DEF Booted
  <2>6. CASE MkdirFails(t) \/ PauseFails(t) \/ ResumeDone(t)
    <3>1. call[t] = "snapshot"
      BY <2>6 DEF MkdirFails, PauseFails, ResumeDone, Replied, TaskInv, Calls, Resources
    <3> QED
      BY <1>3, <2>6, <3>1 DEF MkdirFails, PauseFails, ResumeDone, fcVars
  <2>7. CASE Reaped(t) \/ Unlink(t)
    BY <2>7 DEF Reaped, Unlink, Goto, fcVars
  <2> QED
    BY <1>5, <2>1, <2>2, <2>3, <2>4, <2>5, <2>6, <2>7 DEF BackendRuns
<1>6. ASSUME NEW t \in Tasks, BackendCalls(t)
      PROVE  ProcInv'
  <2>1. CASE CancelCreating(t) \/ CancelTerminate(t) \/ KillFails(t)
    BY <1>2, <2>1 DEF CancelCreating, CancelTerminate, KillFails, Creating
  <2>2. CASE CancelSnapshot(t)
    BY <1>3, <2>2 DEF CancelSnapshot
  <2>3. CASE \E v \in Vms : Spawn(t, v) \/ \E s \in Snaps : Restore(t, v, s)
    BY <1>0, <2>3 DEF Spawn, Restore, Begin, HandTo, fcVars
  <2> QED
    BY <1>6, <2>1, <2>2, <2>3 DEF BackendCalls
<1>7. ASSUME NEW t \in Tasks, Register(t) \/ Unregister(t)
      PROVE  ProcInv'
  <2>1. CASE Register(t)
    BY <1>0, <2>1 DEF Register, HandTo, Return, fcVars
  <2>2. CASE Unregister(t)
    BY <1>0, <2>2 DEF Unregister, HandTo, Return, fcVars
  <2> QED
    BY <1>7, <2>1, <2>2
<1>8. ASSUME NEW t \in Tasks, Found(t)
      PROVE  ProcInv'
  BY <1>0, <1>8 DEF Found, KillVm, Killed, Goto, fcVars, Live, TaskInv, OwnerInv
<1>9. ASSUME NEW t \in Tasks, NotFound(t)
      PROVE  ProcInv'
  BY <1>2, <1>3, <1>9 DEF NotFound, fcVars
<1>10. ASSUME NEW t \in Tasks, NEW v \in Vms, Terminate(t, v)
       PROVE  ProcInv'
  BY <1>0, <1>10 DEF Terminate, Begin, HandTo, fcVars
<1>11. ASSUME NEW t \in Tasks, NEW v \in Vms, NEW s \in Snaps, Snapshot(t, v, s)
       PROVE  ProcInv'
  BY <1>11 DEF Snapshot, Begin, fcVars
<1>12. ASSUME NEW v \in Vms, DropHandle(v)
       PROVE  ProcInv'
  BY <1>0, <1>12 DEF DropHandle, DropChild, HandTo, Killed, Live, taskVars
<1>13. CASE UNCHANGED vars
  BY <1>13 DEF vars, fcVars, clientVars, backendVars
<1> QED
  BY <1>1, <1>5, <1>6, <1>7, <1>8, <1>9, <1>10, <1>11, <1>12, <1>13 DEF Next, Runs

\* Every step keeps the registry in agreement with the handles issued.
LEMMA RegistryStep ==
    ASSUME TypeOK, TaskInv, OwnerInv, RegistryInv, [Next]_vars
    PROVE  RegistryInv'
<1> USE TypeSplit, SentinelAssumption DEF TaskTypeOK, VmTypeOK, RegistryInv, Issuing, At
<1>0. \A t \in Tasks : call[t] # "none" => vm[t] \in Vms
  BY DEF TaskInv
<1>1. CASE VmmRuns /\ UNCHANGED active
  BY <1>1, VmmEffect
<1>2. ASSUME NEW t \in Tasks, GiveUp(t), call[t] \notin {"none", "snapshot"}, UNCHANGED active
      PROVE  RegistryInv'
  BY <1>0, <1>2 DEF GiveUp, DropChild, HandTo, Return
<1>3. ASSUME NEW t \in Tasks, Return(t), UNCHANGED <<owner, active>>
      PROVE  RegistryInv'
  BY <1>3 DEF Return
<1>4. ASSUME NEW t \in Tasks, UNCHANGED <<owner, call, vm, active>>,
             pc' = pc \/ \E p \in {"wait", "api", "unlink", "mkdir"} : pc' = [pc EXCEPT ![t] = p],
             call[t] = "terminate" => pc[t] # "check"
      PROVE  RegistryInv'
  BY <1>4
<1>5. ASSUME NEW t \in Tasks, BackendRuns(t), UNCHANGED active
      PROVE  RegistryInv'
  <2>1. CASE SetupFails(t) \/ WaitExpired(t) \/ BootFails(t)
    BY <1>2, <1>5, <2>1 DEF SetupFails, WaitExpired, BootFails, Creating
  <2>2. CASE \/ ExecVmm(t) \/ SocketMissing(t) \/ SocketAppears(t) \/ ConfigureNext(t)
             \/ PauseVm(t) \/ PauseDone(t) \/ CreateDone(t) \/ Reaped(t)
    BY <1>4, <1>5, <2>2
    DEF ExecVmm, SocketMissing, SocketAppears, ConfigureNext, PauseVm, PauseDone,
        CreateDone, Reaped, Goto, Ask, Replied, Creating
  <2>3. CASE Unlink(t)
    BY <1>5, <2>3 DEF Unlink, Goto
  <2>4. CASE Booted(t)
    <3>1. CASE vm[t] \notin Foreign /\ UNCHANGED owner /\ Goto(t, "lock")
      BY <1>5, <2>4, <3>1 DEF Booted, Goto
    <3>2. CASE vm[t] \in Foreign /\ HandTo(vm[t], "caller") /\ Return(t)
      BY <1>5, <2>4, <3>2 DEF Booted, HandTo, Return
    <3> QED
      BY <2>4, <3>1, <3>2 DEF Booted
  <2>5. CASE MkdirFails(t) \/ PauseFails(t) \/ ResumeDone(t)
    BY <1>3, <1>5, <2>5 DEF MkdirFails, PauseFails, ResumeDone
  <2> QED
    BY <1>5, <2>1, <2>2, <2>3, <2>4, <2>5 DEF BackendRuns
<1>6. ASSUME NEW t \in Tasks, BackendCalls(t), UNCHANGED active
      PROVE  RegistryInv'
  <2>1. CASE CancelCreating(t) \/ CancelTerminate(t) \/ KillFails(t)
    BY <1>2, <1>6, <2>1 DEF CancelCreating, CancelTerminate, KillFails, Creating
  <2>2. CASE CancelSnapshot(t)
    BY <1>3, <1>6, <2>2 DEF CancelSnapshot
  <2>3. CASE \E v \in Vms : Spawn(t, v) \/ \E s \in Snaps : Restore(t, v, s)
    BY <1>6, <2>3 DEF Spawn, Restore, Begin, HandTo
  <2> QED
    BY <1>6, <2>1, <2>2, <2>3 DEF BackendCalls
<1>7. ASSUME NEW t \in Tasks, Register(t)
      PROVE  RegistryInv'
  BY <1>0, <1>7 DEF Register, HandTo, Return, OwnerInv
<1>8. ASSUME NEW t \in Tasks, Unregister(t)
      PROVE  RegistryInv'
  <2>1. vm[t] \in Vms /\ owner[vm[t]] = "terminating"
    BY <1>0, <1>8 DEF Unregister, OwnerInv
  <2>2. \A u \in Tasks : u # t => vm[u] # vm[t]
    BY <1>8 DEF Unregister, OwnerInv
  <2> QED
    BY <1>8, <2>1, <2>2 DEF Unregister, HandTo, Return
<1>9. ASSUME NEW t \in Tasks, Found(t)
      PROVE  RegistryInv'
  BY <1>9 DEF Found, KillVm, Goto
<1>10. ASSUME NEW t \in Tasks, NotFound(t)
       PROVE  RegistryInv'
  BY <1>2, <1>3, <1>10 DEF NotFound
<1>11. ASSUME NEW t \in Tasks, NEW v \in Vms, Terminate(t, v)
       PROVE  RegistryInv'
  BY <1>11 DEF Terminate, Begin, HandTo
<1>12. ASSUME NEW t \in Tasks, NEW v \in Vms, NEW s \in Snaps, Snapshot(t, v, s)
       PROVE  RegistryInv'
  BY <1>12 DEF Snapshot, Begin
<1>13. ASSUME NEW v \in Vms, DropHandle(v), UNCHANGED active
       PROVE  RegistryInv'
  BY <1>13 DEF DropHandle, DropChild, HandTo, taskVars
<1>14. CASE UNCHANGED vars
  BY <1>14 DEF vars, clientVars, backendVars
<1> QED
  BY <1>1, <1>5, <1>6, <1>7, <1>8, <1>9, <1>10, <1>11, <1>12, <1>13, <1>14 DEF Next, Runs

-----------------------------------------------------------------------------
(* Theorems.                                                               *)

\* The inductive invariant holds before the first call.
LEMMA InvInit == Init => IInv
<1> SUFFICES ASSUME Init PROVE IInv
  OBVIOUS
<1> USE DEF Init, BackendInit, VmmInit
<1>1. TypeOK
  BY BackendAssumption
  DEF TypeOK, VmmTypeOK, BackendTypeOK, ProcStates, Live, AwaitPoints, Calls, Requests
<1>2. TaskInv /\ OwnerInv /\ ProcInv /\ RegistryInv
  BY SentinelAssumption DEF TaskInv, OwnerInv, ProcInv, RegistryInv, Issuing, At
<1> QED
  BY <1>1, <1>2 DEF IInv

\* Every step of the system preserves the inductive invariant.
LEMMA InvStep == IInv /\ [Next]_vars => IInv'
BY TypeStep, TaskStep, OwnerStep, ProcStep, RegistryStep DEF IInv

\* The inductive invariant holds in every reachable state.
THEOREM Invariance == Spec => []IInv
BY InvInit, InvStep, PTL DEF Spec

\* Every variable of the orchestrator and its backend keeps its type, the
\* poll counter of wait_for_socket its bound.
THEOREM TypeCorrect == Spec => []TypeOK
<1>1. IInv => TypeOK
  BY DEF IInv
<1> QED
  BY <1>1, Invariance, PTL

\* No interleaving of calls, errors, cancellations and crashes leaves a
\* Firecracker process without a holder that will kill it.
THEOREM NoOrphans == Spec => []NoOrphanVm
<1>1. IInv => NoOrphanVm
  BY DEF IInv, NoOrphanVm, OwnerInv, ProcInv, TypeOK, BackendTypeOK, Live, Issuing
<1> QED
  BY <1>1, Invariance, PTL

\* A handle the orchestrator has issued is registered for as long as a
\* caller can present it.
THEOREM HeldIsRegistered == Spec => []HeldHandleRegistered
<1>1. IInv => HeldHandleRegistered
  BY DEF IInv, HeldHandleRegistered, RegistryInv
<1> QED
  BY <1>1, Invariance, PTL

\* A VM whose terminate returned Ok is dead and forgotten.
THEOREM EndedStaysGone == Spec => []EndedIsGone
<1>1. IInv => EndedIsGone
  BY DEF IInv, EndedIsGone, ProcInv, RegistryInv
<1> QED
  BY <1>1, Invariance, PTL

\* terminate never unlinks the socket of a process that could still be
\* bound to it, and no other step unlinks a socket.
THEOREM SocketOutlivesProcess == Spec => SocketRemovedOnlyAfterDeath
<1> DEFINE Kept == \A v \in Vms : (sockFile[v] /\ ~ sockFile'[v]) => proc[v] = "dead"
<1>1. ASSUME IInv, [Next]_vars
      PROVE  Kept
  <2> USE <1>1, TypeSplit DEF IInv, VmTypeOK, TaskTypeOK
  <2>1. CASE VmmRuns
    BY <2>1 DEF VmmRuns, FcStep, FcBind, FcListen, FcExit, OsReap, Dies, FcAnswer, FcRefuse, FcStray
  <2>2. ASSUME NEW t \in Tasks, Unlink(t)
        PROVE  Kept
    <3>1. PICK w : w = vm[t]
      OBVIOUS
    <3>2. w \in Vms /\ proc[w] = "dead"
      BY <2>2, <3>1, SentinelAssumption DEF Unlink, At, ProcInv, TaskInv
    <3> QED
      BY <2>2, <3>1, <3>2 DEF Unlink
  <2>3. CASE UNCHANGED sockFile
    BY <2>3
  <2>4. \/ VmmRuns
        \/ \E t \in Tasks : Unlink(t)
        \/ UNCHANGED sockFile
    <3>1. ASSUME NEW t \in Tasks, BackendRuns(t)
          PROVE  Unlink(t) \/ UNCHANGED sockFile
      BY <3>1 DEF BackendRuns, ExecVmm, SetupFails, SocketMissing, SocketAppears, WaitExpired,
           ConfigureNext, BootFails, Booted, MkdirFails, PauseVm, PauseFails, PauseDone, CreateDone,
           ResumeDone, Reaped, GiveUp, DropChild, fcVars
    <3>2. ASSUME NEW t \in Tasks, BackendCalls(t)
          PROVE  UNCHANGED sockFile
      BY <3>2 DEF BackendCalls, Spawn, Restore, CancelCreating, CancelSnapshot, CancelTerminate, KillFails,
           GiveUp, DropChild, fcVars
    <3>3. ASSUME NEW t \in Tasks, Register(t) \/ Found(t) \/ NotFound(t) \/ Unregister(t)
          PROVE  UNCHANGED sockFile
      BY <3>3 DEF Register, Found, NotFound, Unregister, KillVm, GiveUp, DropChild, fcVars
    <3>4. ASSUME NEW t \in Tasks, NEW v \in Vms, Terminate(t, v) \/ \E s \in Snaps : Snapshot(t, v, s)
          PROVE  UNCHANGED sockFile
      BY <3>4 DEF Terminate, Snapshot, fcVars
    <3>5. ASSUME NEW v \in Vms, DropHandle(v)
          PROVE  UNCHANGED sockFile
      BY <3>5 DEF DropHandle, DropChild
    <3>6. CASE UNCHANGED vars
      BY <3>6 DEF vars, fcVars
    <3> QED
      BY <3>1, <3>2, <3>3, <3>4, <3>5, <3>6 DEF Next, Runs
  <2> QED
    BY <2>1, <2>2, <2>3, <2>4
<1>2. IInv /\ [Next]_vars => [Kept]_vars
  BY <1>1
<1> QED
  BY <1>2, Invariance, PTL DEF Spec, SocketRemovedOnlyAfterDeath

-----------------------------------------------------------------------------
(* Snapshots.                                                              *)

\* The identifier a snapshot call is still going to return has its files.
SnapInv ==
    /\ ReturnedSnapshotComplete
    /\ \A t \in Tasks :
          (snap[t] # NoSnap /\ (req[t] = "resume" \/ (req[t] = "create" /\ wire[t] = "ok")))
              => files[snap[t]] = "whole"

\* The executor itself never touches the snapshot files.
LEMMA OnlyVmmWrites ==
    ASSUME [Next]_vars
    PROVE  VmmRuns \/ UNCHANGED files
<1>1. ASSUME NEW t \in Tasks, BackendRuns(t)
      PROVE  UNCHANGED files
  BY <1>1 DEF BackendRuns, ExecVmm, SetupFails, SocketMissing, SocketAppears, WaitExpired,
       ConfigureNext, BootFails, Booted, MkdirFails, PauseVm, PauseFails, PauseDone, CreateDone,
       ResumeDone, Reaped, Unlink, GiveUp, DropChild, fcVars
<1>2. ASSUME NEW t \in Tasks, BackendCalls(t)
      PROVE  UNCHANGED files
  BY <1>2 DEF BackendCalls, Spawn, Restore, CancelCreating, CancelSnapshot, CancelTerminate, KillFails,
       GiveUp, DropChild, fcVars
<1>3. ASSUME NEW t \in Tasks, Register(t) \/ Found(t) \/ NotFound(t) \/ Unregister(t)
      PROVE  UNCHANGED files
  BY <1>3 DEF Register, Found, NotFound, Unregister, KillVm, GiveUp, DropChild, fcVars
<1>4. ASSUME NEW t \in Tasks, NEW v \in Vms, Terminate(t, v) \/ \E s \in Snaps : Snapshot(t, v, s)
      PROVE  UNCHANGED files
  BY <1>4 DEF Terminate, Snapshot, fcVars
<1>5. ASSUME NEW v \in Vms, DropHandle(v)
      PROVE  UNCHANGED files
  BY <1>5 DEF DropHandle, DropChild
<1>6. CASE UNCHANGED vars
  BY <1>6 DEF vars, fcVars
<1> QED
  BY <1>1, <1>2, <1>3, <1>4, <1>5, <1>6 DEF Next, Runs

\* A complete snapshot stays complete: no late, failing or stray request of
\* any task damages its files.
LEMMA WholeFilesStay ==
    ASSUME TypeOK, [Next]_vars, NEW s \in Snaps, files[s] = "whole"
    PROVE  files'[s] = "whole"
<1> USE TypeSplit DEF VmTypeOK
<1>1. ASSUME NEW v, NEW r, NEW q, FcDoes(v, r, q)
      PROVE  files'[s] = "whole"
  BY <1>1 DEF FcDoes, FcConfigure, FcInstanceStart, FcLoad, FcPatch, FcCreate
<1>2. CASE \E v \in Vms : FcExit(v) \/ OsReap(v)
  BY <1>2 DEF FcExit, OsReap, Dies, Writing
<1>3. CASE \E t \in Tasks : FcRefuse(t)
  BY <1>3 DEF FcRefuse, Writing
<1>4. CASE \E t \in Tasks : FcAnswer(t)
  BY <1>4, <1>1 DEF FcAnswer
<1>5. CASE \E m \in stray : FcStray(m)
  BY <1>5, <1>1 DEF FcStray
<1>6. CASE \E v \in Vms : FcBind(v) \/ FcListen(v)
  BY <1>6 DEF FcBind, FcListen
<1>7. CASE UNCHANGED files
  BY <1>7
<1> QED
  BY <1>2, <1>3, <1>4, <1>5, <1>6, <1>7, OnlyVmmWrites DEF VmmRuns, FcStep

\* What a step does to the snapshot a task is working on: it is left as it
\* was, forgotten, newly drawn with nothing asked for yet, or on its way
\* through the pause, create and resume requests.
LEMMA SnapshotProgress ==
    ASSUME TypeOK, TaskInv, [Next]_vars, NEW u \in Tasks
    PROVE  \/ UNCHANGED <<snap[u], req[u], wire[u]>>
           \/ snap'[u] = NoSnap
           \/ req'[u] \notin {"create", "resume"}
           \/ req'[u] = "create" /\ wire'[u] # "ok"
           \/ UNCHANGED <<snap[u], req[u]>> /\ wire'[u] # "ok"
           \/ FcAnswer(u)
           \/ UNCHANGED snap[u] /\ req[u] = "create" /\ wire[u] = "ok"
<1> USE TypeSplit DEF TaskTypeOK
<1>1. CASE VmmRuns
  <2>1. CASE \E v \in Vms : FcExit(v) \/ OsReap(v)
    BY <2>1 DEF FcExit, OsReap, Dies
  <2>2. CASE \E t \in Tasks : FcRefuse(t)
    BY <2>2 DEF FcRefuse
  <2>3. CASE \E t \in Tasks : FcAnswer(t)
    BY <2>3 DEF FcAnswer
  <2>4. CASE \E m \in stray : FcStray(m)
    BY <2>4 DEF FcStray, clientVars
  <2>5. CASE \E v \in Vms : FcBind(v) \/ FcListen(v)
    BY <2>5 DEF FcBind, FcListen, clientVars
  <2> QED
    BY <1>1, <2>1, <2>2, <2>3, <2>4, <2>5 DEF VmmRuns, FcStep
<1>2. ASSUME NEW t \in Tasks, Return(t) \/ GiveUp(t)
      PROVE  snap'[u] = NoSnap \/ UNCHANGED <<snap[u], req[u], wire[u]>>
  BY <1>2 DEF GiveUp, Return
<1>3. ASSUME NEW t \in Tasks, NEW p, Goto(t, p)
      PROVE  UNCHANGED <<snap[u], req[u], wire[u]>>
  BY <1>3 DEF Goto
<1>4. ASSUME NEW t \in Tasks, NEW r, Ask(t, r), r \notin {"create", "resume"}
      PROVE  UNCHANGED <<snap[u], req[u], wire[u]>> \/ req'[u] \notin {"create", "resume"}
  BY <1>4 DEF Ask, ApiRequest
<1>5. ASSUME NEW t \in Tasks, NEW m, NEW v, NEW s, NEW p, Begin(t, m, v, s, p)
      PROVE  UNCHANGED <<snap[u], req[u], wire[u]>> \/ req'[u] \notin {"create", "resume"}
  BY <1>5 DEF Begin, Idle, TaskInv
<1>6. ASSUME NEW t \in Tasks, BackendRuns(t)
      PROVE  \/ UNCHANGED <<snap[u], req[u], wire[u]>>
             \/ snap'[u] = NoSnap
             \/ req'[u] \notin {"create", "resume"}
             \/ req'[u] = "create" /\ wire'[u] # "ok"
             \/ UNCHANGED snap[u] /\ req[u] = "create" /\ wire[u] = "ok"
  <2>1. CASE SetupFails(t) \/ WaitExpired(t) \/ BootFails(t)
    BY <1>2, <2>1 DEF SetupFails, WaitExpired, BootFails
  <2>2. CASE MkdirFails(t) \/ PauseFails(t) \/ ResumeDone(t)
    BY <1>2, <2>2 DEF MkdirFails, PauseFails, ResumeDone
  <2>3. CASE ExecVmm(t) \/ Reaped(t) \/ Unlink(t)
    BY <1>3, <2>3 DEF ExecVmm, Reaped, Unlink
  <2>4. CASE Booted(t)
    BY <1>2, <1>3, <2>4 DEF Booted
  <2>5. CASE SocketMissing(t)
    BY <2>5 DEF SocketMissing
  <2>6. CASE SocketAppears(t) \/ PauseVm(t)
    BY <1>4, <2>6 DEF SocketAppears, PauseVm
  <2>7. CASE ConfigureNext(t)
    <3>1. NextConfig(req[t]) \notin {"create", "resume"}
      BY DEF NextConfig
    <3> QED
      BY <1>4, <2>7, <3>1 DEF ConfigureNext
  <2>8. CASE PauseDone(t)
    BY <2>8 DEF PauseDone, Ask, ApiRequest
  <2>9. CASE CreateDone(t)
    BY <2>9 DEF CreateDone, ApiRequest, Replied
  <2> QED
    BY <1>6, <2>1, <2>2, <2>3, <2>4, <2>5, <2>6, <2>7, <2>8, <2>9 DEF BackendRuns
<1>7. ASSUME NEW t \in Tasks, BackendCalls(t)
      PROVE  \/ UNCHANGED <<snap[u], req[u], wire[u]>>
             \/ snap'[u] = NoSnap
             \/ req'[u] \notin {"create", "resume"}
  BY <1>2, <1>5, <1>7 DEF BackendCalls, Spawn, Restore, CancelCreating, CancelSnapshot, CancelTerminate, KillFails
<1>8. ASSUME NEW t \in Tasks, Register(t) \/ Found(t) \/ NotFound(t) \/ Unregister(t)
      PROVE  snap'[u] = NoSnap \/ UNCHANGED <<snap[u], req[u], wire[u]>>
  BY <1>2, <1>3, <1>8 DEF Register, Found, NotFound, Unregister, KillVm
<1>9. ASSUME NEW t \in Tasks, NEW v \in Vms, Terminate(t, v) \/ \E s \in Snaps : Snapshot(t, v, s)
      PROVE  UNCHANGED <<snap[u], req[u], wire[u]>> \/ req'[u] \notin {"create", "resume"}
  BY <1>5, <1>9 DEF Terminate, Snapshot
<1>10. ASSUME NEW v \in Vms, DropHandle(v)
       PROVE  UNCHANGED <<snap[u], req[u], wire[u]>>
  BY <1>10 DEF DropHandle, taskVars
<1>11. CASE UNCHANGED vars
  BY <1>11 DEF vars, clientVars
<1> QED
  BY <1>1, <1>6, <1>7, <1>8, <1>9, <1>10, <1>11 DEF Next, Runs

\* An identifier becomes known only at the end of the snapshot that drew it.
LEMMA KnownStep ==
    ASSUME TypeOK, [Next]_vars
    PROVE  \/ UNCHANGED known
           \/ \E t \in Tasks : req[t] = "resume" /\ known' = known \cup ({snap[t]} \ {NoSnap})
<1>1. ASSUME NEW t \in Tasks, BackendRuns(t)
      PROVE  \/ UNCHANGED known
             \/ req[t] = "resume" /\ known' = known \cup ({snap[t]} \ {NoSnap})
  BY <1>1 DEF BackendRuns, ExecVmm, SetupFails, SocketMissing, SocketAppears, WaitExpired,
       ConfigureNext, BootFails, Booted, MkdirFails, PauseVm, PauseFails, PauseDone, CreateDone,
       ResumeDone, Replied, Reaped, Unlink, GiveUp
<1>2. ASSUME NEW t \in Tasks, BackendCalls(t)
      PROVE  UNCHANGED known
  BY <1>2 DEF BackendCalls, Spawn, Restore, CancelCreating, CancelSnapshot, CancelTerminate, KillFails, GiveUp
<1>3. ASSUME NEW t \in Tasks, Register(t) \/ Found(t) \/ NotFound(t) \/ Unregister(t)
      PROVE  UNCHANGED known
  BY <1>3 DEF Register, Found, NotFound, Unregister, KillVm, GiveUp
<1>4. ASSUME NEW t \in Tasks, NEW v \in Vms, Terminate(t, v) \/ \E s \in Snaps : Snapshot(t, v, s)
      PROVE  UNCHANGED known
  BY <1>4 DEF Terminate, Snapshot
<1>5. ASSUME NEW v \in Vms, DropHandle(v)
      PROVE  UNCHANGED known
  BY <1>5 DEF DropHandle
<1>6. CASE VmmRuns \/ UNCHANGED vars
  BY <1>6 DEF VmmRuns, vars, backendVars
<1> QED
  BY <1>1, <1>2, <1>3, <1>4, <1>5, <1>6 DEF Next, Runs

\* Every step keeps the promise of the snapshots in progress.
LEMMA SnapStep ==
    ASSUME TypeOK, TaskInv, SnapInv, [Next]_vars
    PROVE  SnapInv'
<1> USE TypeSplit DEF TaskTypeOK, VmTypeOK
<1>1. ASSUME NEW u \in Tasks, snap'[u] # NoSnap,
             req'[u] = "resume" \/ (req'[u] = "create" /\ wire'[u] = "ok")
      PROVE  files'[snap'[u]] = "whole"
  <2>1. ASSUME UNCHANGED snap[u], snap[u] # NoSnap, files[snap[u]] = "whole"
        PROVE  files'[snap'[u]] = "whole"
    <3>1. PICK s \in Snaps : s = snap[u]
      BY <2>1
    <3> QED
      BY <2>1, <3>1, WholeFilesStay
  <2>2. CASE UNCHANGED <<snap[u], req[u], wire[u]>>
    BY <1>1, <2>1, <2>2 DEF SnapInv
  <2>3. CASE UNCHANGED <<snap[u], req[u]>> /\ wire'[u] # "ok"
    BY <1>1, <2>1, <2>3 DEF SnapInv
  <2>4. CASE UNCHANGED snap[u] /\ req[u] = "create" /\ wire[u] = "ok"
    BY <1>1, <2>1, <2>4 DEF SnapInv
  <2>5. CASE FcAnswer(u)
    <3>1. UNCHANGED <<snap, req>> /\ FcDoes(vm[u], req[u], snap[u])
      BY <2>5 DEF FcAnswer
    <3>2. CASE req[u] = "resume"
      BY <1>1, <2>1, <3>1, <3>2 DEF SnapInv
    <3>3. CASE req[u] = "create"
      <4>1. PICK s \in Snaps : s = snap[u]
        BY <1>1, <3>1
      <4>2. files' = [files EXCEPT ![s] = "whole"]
        BY <3>1, <3>3, <4>1
        DEF FcDoes, FcConfigure, FcInstanceStart, FcLoad, FcPatch, FcCreate, Resources
      <4> QED
        BY <3>1, <4>1, <4>2
    <3> QED
      BY <1>1, <3>1, <3>2, <3>3
  <2> QED
    BY <1>1, <2>2, <2>3, <2>4, <2>5, SnapshotProgress
<1>2. ReturnedSnapshotComplete'
  <2>1. ASSUME NEW s \in known', s \in known
        PROVE  files'[s] = "whole"
    BY <2>1, WholeFilesStay DEF SnapInv, ReturnedSnapshotComplete
  <2>2. ASSUME NEW t \in Tasks, req[t] = "resume", snap[t] # NoSnap
        PROVE  files'[snap[t]] = "whole"
    <3>1. PICK s \in Snaps : s = snap[t]
      BY <2>2
    <3> QED
      BY <2>2, <3>1, WholeFilesStay DEF SnapInv
  <2> QED
    BY <2>1, <2>2, KnownStep DEF ReturnedSnapshotComplete
<1> QED
  BY <1>1, <1>2 DEF SnapInv

\* A snapshot identifier is returned only for complete files, and they stay
\* complete whatever other calls, cancelled or not, do to the same VM.
THEOREM SnapshotsComplete == Spec => []ReturnedSnapshotComplete
<1>1. Init => SnapInv
  BY DEF Init, BackendInit, VmmInit, SnapInv, ReturnedSnapshotComplete
<1>2. IInv /\ SnapInv /\ [Next]_vars => SnapInv'
  BY SnapStep DEF IInv
<1>3. SnapInv => ReturnedSnapshotComplete
  BY DEF SnapInv
<1> QED
  BY <1>1, <1>2, <1>3, Invariance, PTL DEF Spec

-----------------------------------------------------------------------------
(* The orchestrator implements the abstract registry.                      *)

\* The orchestrator starts as the abstract registry does.
LEMMA RefinementInit == Init => Registry!RegistryInit
BY DEF Init, BackendInit, VmmInit, Registry!RegistryInit, HandleOf, Live

\* The abstract state, as the refinement mapping computes it.
Handles == [v \in Vms |-> HandleOf(v)]
Running == {v \in Vms : proc[v] \in Live}
abstractVars == <<Handles, active, Running>>

\* How single assignments of the concrete state show in the abstract one.
LEMMA MappedSteps ==
    ASSUME TypeOK, NEW v \in Vms
    PROVE  /\ UNCHANGED owner => Handles' = Handles
           /\ UNCHANGED proc => Running' = Running
           /\ proc' = Killed(v) => Running' = Running \ {v}
           /\ proc' = [proc EXCEPT ![v] = "dead"] => Running' = Running \ {v}
           /\ proc' = [proc EXCEPT ![v] = "starting"] => Running' = Running \cup {v}
           /\ \A who \in {"ended", "dropped"} :
                 HandTo(v, who) => Handles' = [Handles EXCEPT ![v] = "gone"]
           /\ HandTo(v, "caller") => Handles' = [Handles EXCEPT ![v] = "held"]
           /\ owner[v] = "none" /\ HandTo(v, "creating") => Handles' = Handles
           /\ owner[v] = "caller" /\ HandTo(v, "terminating") => Handles' = Handles
<1> USE TypeSplit DEF VmTypeOK
<1>1. UNCHANGED owner => Handles' = Handles
  BY DEF Handles, HandleOf
<1>2. UNCHANGED proc => Running' = Running
  BY DEF Running
<1>3. proc' = Killed(v) => Running' = Running \ {v}
  BY DEF Running, Killed, Live
<1>4. proc' = [proc EXCEPT ![v] = "dead"] => Running' = Running \ {v}
  BY DEF Running, Live
<1>5. proc' = [proc EXCEPT ![v] = "starting"] => Running' = Running \cup {v}
  BY DEF Running, Live
<1>6. ASSUME NEW who \in {"ended", "dropped"}, HandTo(v, who)
      PROVE  Handles' = [Handles EXCEPT ![v] = "gone"]
  BY <1>6 DEF Handles, HandleOf, HandTo
<1>7. HandTo(v, "caller") => Handles' = [Handles EXCEPT ![v] = "held"]
  BY DEF Handles, HandleOf, HandTo
<1>8. owner[v] = "none" /\ HandTo(v, "creating") => Handles' = Handles
  BY DEF Handles, HandleOf, HandTo
<1>9. owner[v] = "caller" /\ HandTo(v, "terminating") => Handles' = Handles
  BY DEF Handles, HandleOf, HandTo
<1> QED
  BY <1>1, <1>2, <1>3, <1>4, <1>5, <1>6, <1>7, <1>8, <1>9

\* The abstract actions over the mapped state.
LEMMA MappedActions ==
    ASSUME NEW v \in Vms
    PROVE  /\ Handles[v] = "absent" /\ v \notin Running /\ Running' = Running \cup {v}
                 /\ UNCHANGED <<Handles, active>> => Registry!Start(v)
           /\ Handles[v] = "absent" /\ Handles' = [Handles EXCEPT ![v] = "gone"]
                 /\ Running' = Running \ {v} /\ UNCHANGED active => Registry!Miscarry(v)
           /\ Handles[v] = "absent" /\ Handles' = [Handles EXCEPT ![v] = "held"]
                 /\ active' = active \cup ({v} \cap (Vms \ Foreign)) /\ UNCHANGED Running => Registry!Issue(v)
           /\ Running' = Running \ {v} /\ UNCHANGED <<Handles, active>> => Registry!Stop(v)
           /\ Handles[v] = "held" /\ v \notin Running /\ v \in active /\ UNCHANGED Running
                 /\ Handles' = [Handles EXCEPT ![v] = "gone"] /\ active' = active \ {v} => Registry!Retire(v)
           /\ Handles[v] = "held" /\ Handles' = [Handles EXCEPT ![v] = "gone"]
                 /\ Running' = Running \ {v} /\ UNCHANGED active => Registry!Abandon(v)
BY DEF Handles, Running, Registry!Start, Registry!Miscarry, Registry!Issue, Registry!Stop,
       Registry!Retire, Registry!Abandon

\* Every step of the orchestrator is, through the refinement mapping, a
\* step of the abstract registry or no change of it.
LEMMA RefinementStep ==
    ASSUME IInv, [Next]_vars
    PROVE  UNCHANGED abstractVars \/ \E v \in Vms :
              \/ Registry!Start(v) \/ Registry!Miscarry(v) \/ Registry!Issue(v)
              \/ Registry!Stop(v) \/ Registry!Retire(v) \/ Registry!Abandon(v)
<1> DEFINE Goal == UNCHANGED abstractVars \/ \E v \in Vms :
              \/ Registry!Start(v) \/ Registry!Miscarry(v) \/ Registry!Issue(v)
              \/ Registry!Stop(v) \/ Registry!Retire(v) \/ Registry!Abandon(v)
<1> SUFFICES Goal
  OBVIOUS
<1>0. TypeOK /\ TaskInv /\ OwnerInv /\ ProcInv /\ RegistryInv
  BY DEF IInv
<1>a. \A v \in Vms :
        /\ owner[v] \in {"none", "creating"} => Handles[v] = "absent"
        /\ owner[v] \in {"caller", "terminating"} => Handles[v] = "held"
  BY DEF Handles, HandleOf
<1>b. \A v \in Vms : v \in Running <=> proc[v] \in Live
  BY DEF Running
<1>c. \A t \in Tasks : call[t] # "none" => vm[t] \in Vms
  BY <1>0, TypeSplit DEF TaskInv, TaskTypeOK
<1>s. ASSUME UNCHANGED <<owner, proc, active>> PROVE Goal
  <2>1. CASE Vms = {}
    BY <2>1, <1>s DEF abstractVars, Handles, Running
  <2>2. CASE \E v \in Vms : TRUE
    BY <1>0, <1>s, <2>2, MappedSteps DEF abstractVars
  <2> QED
    BY <2>1, <2>2
<1>1. CASE VmmRuns /\ UNCHANGED active
  <2>1. UNCHANGED owner
    BY <1>1 DEF VmmRuns, backendVars
  <2>2. ASSUME NEW v \in Vms, FcBind(v) \/ FcListen(v) PROVE Goal
    <3>1. Running' = Running
      BY <2>2, <1>0, TypeSplit DEF FcBind, FcListen, Running, Live, VmTypeOK
    <3> QED
      BY <1>0, <1>1, <2>1, <2>2, <3>1, MappedSteps DEF abstractVars
  <2>3. ASSUME NEW v \in Vms, FcExit(v) \/ OsReap(v) PROVE Goal
    <3>1. Running' = Running \ {v} /\ Handles' = Handles
      BY <1>0, <2>1, <2>3, MappedSteps DEF FcExit, OsReap, Dies
    <3> QED
      BY <1>1, <3>1, MappedActions
  <2>4. CASE (\E t \in Tasks : FcAnswer(t) \/ FcRefuse(t)) \/ \E m \in stray : FcStray(m)
    BY <1>s, <1>1, <2>1, <2>4 DEF FcAnswer, FcRefuse, FcStray
  <2> QED
    BY <1>1, <2>2, <2>3, <2>4 DEF VmmRuns, FcStep
<1>2. ASSUME NEW t \in Tasks, GiveUp(t), call[t] \notin {"none", "snapshot"}, UNCHANGED active
      PROVE  Goal
  <2>1. PICK v \in Vms : v = vm[t] /\ owner[v] \in {"creating", "terminating"}
    BY <1>0, <1>2, <1>c, TypeSplit DEF TaskInv, OwnerInv, TaskTypeOK, Calls, Issuing
  <2>2. Handles' = [Handles EXCEPT ![v] = "gone"] /\ Running' = Running \ {v}
    BY <1>0, <1>2, <2>1, MappedSteps DEF GiveUp, DropChild
  <2> QED
    BY <1>2, <1>a, <2>1, <2>2, MappedActions
<1>3. ASSUME NEW t \in Tasks, BackendRuns(t), UNCHANGED active
      PROVE  Goal
  <2>1. CASE SetupFails(t) \/ WaitExpired(t) \/ BootFails(t)
    BY <1>2, <1>3, <2>1 DEF SetupFails, WaitExpired, BootFails, At, Creating, Issuing
  <2>2. CASE ExecVmm(t)
    <3>1. PICK v \in Vms : v = vm[t] /\ owner[v] = "creating" /\ proc[v] = "none"
      BY <1>0, <1>c, <2>2 DEF ExecVmm, At, Creating, Issuing, TaskInv, OwnerInv, ProcInv
    <3>2. Running' = Running \cup {v} /\ Handles' = Handles
      BY <1>0, <2>2, <3>1, MappedSteps DEF ExecVmm
    <3>3. v \notin Running
      BY <1>b, <3>1 DEF Live
    <3> QED
      BY <1>3, <1>a, <3>1, <3>2, <3>3, MappedActions
  <2>3. CASE Booted(t) /\ vm[t] \in Foreign
    <3>1. PICK v \in Vms : v = vm[t] /\ owner[v] = "creating"
      BY <1>0, <1>c, <2>3 DEF Booted, OwnerInv, Issuing
    <3>2. Handles' = [Handles EXCEPT ![v] = "held"] /\ Running' = Running
      BY <1>0, <2>3, <3>1, MappedSteps DEF Booted, fcVars
    <3>3. active' = active \cup ({v} \cap (Vms \ Foreign))
      BY <1>3, <2>3, <3>1
    <3> QED
      BY <1>a, <3>1, <3>2, <3>3, MappedActions
  <2>4. CASE \/ SocketMissing(t) \/ SocketAppears(t) \/ ConfigureNext(t)
             \/ Booted(t) /\ vm[t] \notin Foreign
             \/ MkdirFails(t) \/ PauseVm(t) \/ PauseFails(t) \/ PauseDone(t)
             \/ CreateDone(t) \/ ResumeDone(t) \/ Reaped(t) \/ Unlink(t)
    BY <1>s, <1>3, <2>4
    DEF SocketMissing, SocketAppears, ConfigureNext, Booted, MkdirFails, PauseVm, PauseFails,
        PauseDone, CreateDone, ResumeDone, Reaped, Unlink, fcVars
  <2> QED
    BY <1>3, <2>1, <2>2, <2>3, <2>4 DEF BackendRuns
<1>4. ASSUME NEW t \in Tasks, BackendCalls(t), UNCHANGED active
      PROVE  Goal
  <2>1. CASE CancelCreating(t) \/ CancelTerminate(t) \/ KillFails(t)
    BY <1>2, <1>4, <2>1 DEF CancelCreating, CancelTerminate, KillFails, At, Creating, Issuing
  <2>2. CASE CancelSnapshot(t)
    BY <1>s, <1>4, <2>2 DEF CancelSnapshot
  <2>3. ASSUME NEW v \in Vms, Spawn(t, v) \/ \E s \in Snaps : Restore(t, v, s)
        PROVE  Goal
    <3>1. owner[v] = "none" /\ HandTo(v, "creating") /\ UNCHANGED proc
      BY <2>3 DEF Spawn, Restore, fcVars
    <3> QED
      BY <1>0, <1>4, <3>1, MappedSteps DEF abstractVars
  <2> QED
    BY <1>4, <2>1, <2>2, <2>3 DEF BackendCalls
<1>5. ASSUME NEW t \in Tasks, Register(t) PROVE Goal
  <2>1. PICK v \in Vms : v = vm[t] /\ owner[v] = "creating" /\ v \notin Foreign
    BY <1>0, <1>5, <1>c DEF Register, At, Issuing, OwnerInv, RegistryInv
  <2>2. Handles' = [Handles EXCEPT ![v] = "held"] /\ Running' = Running
    BY <1>0, <1>5, <2>1, MappedSteps DEF Register, fcVars
  <2>3. active' = active \cup ({v} \cap (Vms \ Foreign))
    BY <1>5, <2>1 DEF Register
  <2> QED
    BY <1>a, <2>1, <2>2, <2>3, MappedActions
<1>6. ASSUME NEW t \in Tasks, Unregister(t) PROVE Goal
  <2>1. PICK v \in Vms : v = vm[t] /\ owner[v] = "terminating" /\ proc[v] = "dead" /\ v \in active
    BY <1>0, <1>6, <1>c DEF Unregister, At, OwnerInv, ProcInv, RegistryInv
  <2>2. Handles' = [Handles EXCEPT ![v] = "gone"] /\ Running' = Running
    BY <1>0, <1>6, <2>1, MappedSteps DEF Unregister, fcVars
  <2>3. v \notin Running
    BY <1>b, <2>1 DEF Live
  <2>4. active' = active \ {v}
    BY <1>6, <2>1 DEF Unregister
  <2> QED
    BY <1>a, <2>1, <2>2, <2>3, <2>4, MappedActions
<1>7. ASSUME NEW t \in Tasks, Found(t) PROVE Goal
  <2>1. CASE call[t] = "snapshot"
    BY <1>s, <1>7, <2>1 DEF Found, fcVars
  <2>2. CASE call[t] = "terminate"
    <3>1. PICK v \in Vms : v = vm[t]
      BY <1>c, <2>2
    <3>2. Running' = Running \ {v} /\ Handles' = Handles
      BY <1>0, <1>7, <2>2, <3>1, MappedSteps DEF Found, KillVm
    <3> QED
      BY <1>7, <3>1, <3>2, MappedActions DEF Found
  <2> QED
    BY <1>7, <2>1, <2>2 DEF Found
<1>8. ASSUME NEW t \in Tasks, NotFound(t) PROVE Goal
  BY <1>2, <1>s, <1>8 DEF NotFound, fcVars
<1>9. ASSUME NEW t \in Tasks, NEW v \in Vms, Terminate(t, v) PROVE Goal
  BY <1>0, <1>9, MappedSteps DEF Terminate, fcVars, abstractVars
<1>10. ASSUME NEW t \in Tasks, NEW v \in Vms, NEW s \in Snaps, Snapshot(t, v, s) PROVE Goal
  BY <1>s, <1>10 DEF Snapshot, fcVars
<1>11. ASSUME NEW v \in Vms, DropHandle(v), UNCHANGED active PROVE Goal
  <2>1. owner[v] = "caller"
    BY <1>11 DEF DropHandle
  <2>2. Handles' = [Handles EXCEPT ![v] = "gone"] /\ Running' = Running \ {v}
    BY <1>0, <1>11, MappedSteps DEF DropHandle, DropChild
  <2> QED
    BY <1>11, <1>a, <2>1, <2>2, MappedActions
<1>12. CASE UNCHANGED vars
  BY <1>s, <1>12 DEF vars, fcVars, backendVars
<1> QED
  BY <1>1, <1>3, <1>4, <1>5, <1>6, <1>7, <1>8, <1>9, <1>10, <1>11, <1>12 DEF Next, Runs

\* With all its await points, the orchestrator is a correct implementation
\* of the abstract registry: a handle and its entry appear in one step, and
\* an entry disappears only after its VM has stopped.
THEOREM Refinement == Spec => ImplementsRegistry
<1>1. IInv /\ [Next]_vars => [Registry!RegistryNext]_abstractVars
  BY RefinementStep DEF Registry!RegistryNext
<1> QED
  BY <1>1, RefinementInit, Invariance, PTL
  DEF Spec, ImplementsRegistry, Registry!RegistrySpec, abstractVars, Handles, Running
=============================================================================
