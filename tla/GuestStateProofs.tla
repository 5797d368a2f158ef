-------------------------- MODULE GuestStateProofs --------------------------
(***************************************************************************)
(* Proofs about VmOrchestrator, continued: what a guest is configured with *)
(* when it runs, and who has it paused.                                    *)
(***************************************************************************)
EXTENDS VmOrchestratorProofs

-----------------------------------------------------------------------------
(* The inductive invariant.                                                *)

\* A request is under way only while its task waits for it, and snapshot
\* waits for requests only on a VM it has found in the registry.
WireInv ==
    \A t \in Tasks :
        /\ wire[t] = "sent" => pc[t] = "api"
        /\ pc[t] = "api" => req[t] # "none"
        /\ call[t] = "snapshot" /\ pc[t] # "check" => vm[t] \notin Foreign

\* Only snapshot leaves requests behind, and then says so.
StrayInv ==
    \A m \in stray :
        /\ m.req \in {"pause", "create", "resume"}
        /\ m.vm \notin Foreign
        /\ cut[m.vm] # {}

\* No guest before Firecracker serves.
BlankInv == \A v \in Vms : proc[v] \in {"none", "starting", "bound"} => machine[v] = "blank"

\* How far configure_and_boot has come is what the process has been told.
ConfInv ==
    \A t \in Tasks : call[t] = "spawn" =>
        /\ req[t] # "none" /\ wire[t] = "ok" /\ req[t] \in Resources => req[t] \in conf[vm[t]]
        /\ req[t] = "drives" => "boot-source" \in conf[vm[t]]
        /\ req[t] = "machine-config" => {"boot-source", "drives"} \subseteq conf[vm[t]]
        /\ req[t] = "InstanceStart" => Resources \subseteq conf[vm[t]]

GuestInv ==
    /\ WireInv /\ StrayInv /\ BlankInv /\ ConfInv
    /\ BootedFullyConfigured /\ ForeignVmNeverPaused /\ PausedIsAccounted

-----------------------------------------------------------------------------
(* What the executor's own steps do to the requests.                       *)

Suspends(t) ==
    /\ UNCHANGED <<call, vm, req, wire, cut, stray>>
    /\ wire[t] # "sent"
    /\ pc' = pc \/ \E p \in AwaitPoints \ {"api"} : pc' = [pc EXCEPT ![t] = p]
    /\ call[t] = "snapshot" => vm[t] \notin Foreign
    /\ ~ OwesResume(t)

Issues(t, r) ==
    /\ UNCHANGED <<call, vm, cut, stray>>
    /\ pc' = [pc EXCEPT ![t] = "api"]
    /\ req' = [req EXCEPT ![t] = r]
    /\ \E w \in {"sent", "err"} : wire' = [wire EXCEPT ![t] = w]
    /\ \/ call[t] \in Issuing /\ r \in {"boot-source", "load"}
       \/ call[t] = "spawn" /\ wire[t] = "ok" /\ r = NextConfig(req[t]) /\ r # "none"
       \/ call[t] = "snapshot" /\ pc[t] = "mkdir" /\ r = "pause"
       \/ call[t] = "snapshot" /\ pc[t] = "api" /\ r \in {"create", "resume"}

Leaves(t) ==
    /\ Return(t)
    /\ \/ UNCHANGED <<cut, stray>> /\ ~ OwesResume(t)
       \/ /\ call[t] = "snapshot" /\ pc[t] = "api"
          /\ \E why : cut' = [cut EXCEPT ![vm[t]] = @ \cup {why}]
          /\ stray' \in {stray, stray \cup {[vm |-> vm[t], snap |-> snap[t], req |-> req[t]]}}

Enters(t) ==
    /\ UNCHANGED <<req, wire, cut, stray>>
    /\ wire[t] = "none" /\ req[t] = "none" /\ call[t] = "none"
    /\ \E m \in Calls, v \in Vms, p \in {"check", "mkdir"} :
          /\ call' = [call EXCEPT ![t] = m] /\ vm' = [vm EXCEPT ![t] = v]
          /\ pc' = [pc EXCEPT ![t] = p]
          /\ m = "snapshot" => p = "check"

\* A step that is not Firecracker's suspends a task, issues a request, ends a
\* call or begins one, or concerns no task at all.
LEMMA ExecutorMoves ==
    ASSUME IInv, WireInv, [Next]_vars, ~ VmmRuns
    PROVE  /\ UNCHANGED <<conf, machine>>
           /\ \/ UNCHANGED <<taskVars, cut, stray>>
              \/ \E t \in Tasks : \/ Suspends(t) \/ Leaves(t) \/ Enters(t)
                                  \/ \E r \in Requests : Issues(t, r)
<1> USE TypeSplit DEF IInv, TaskTypeOK, VmTypeOK, fcVars, At
<1>1. ASSUME NEW t \in Tasks, GiveUp(t), call[t] # "snapshot"
      PROVE  UNCHANGED <<conf, machine>> /\ Leaves(t)
  BY <1>1 DEF GiveUp, DropChild, Leaves, OwesResume
<1>2. ASSUME NEW t \in Tasks, BackendRuns(t)
      PROVE  /\ UNCHANGED <<conf, machine>>
             /\ Suspends(t) \/ Leaves(t) \/ \E r \in Requests : Issues(t, r)
  <2>1. CASE SetupFails(t) \/ WaitExpired(t) \/ BootFails(t)
    BY <1>1, <2>1 DEF SetupFails, WaitExpired, BootFails, Creating, Issuing
  <2>2. CASE ExecVmm(t) \/ SocketMissing(t) \/ Reaped(t) \/ Unlink(t)
    BY <2>2 DEF ExecVmm, SocketMissing, Reaped, Unlink, Goto, Creating, Issuing,
                Suspends, OwesResume, WireInv, AwaitPoints
  <2>3. CASE SocketAppears(t)
    BY <2>3 DEF SocketAppears, Ask, ApiRequest, Creating, Issuing, Issues, Requests, Resources, TaskInv
  <2>4. CASE ConfigureNext(t)
    <3>1. NextConfig(req[t]) \in Requests \cup {"none"}
      BY DEF NextConfig, Requests, Resources
    <3>2. call[t] = "spawn"
      BY <2>4 DEF ConfigureNext, TaskInv
    <3>3. QED
      BY <2>4, <3>1, <3>2 DEF ConfigureNext, Ask, ApiRequest, Issues
  <2>5. CASE Booted(t)
    <3>1. call[t] \in Issuing /\ wire[t] = "ok" /\ UNCHANGED <<conf, machine, cut, stray>>
      BY <2>5 DEF Booted, Replied
    <3>2. Return(t) \/ Goto(t, "lock")
      BY <2>5 DEF Booted
    <3>3. QED
      BY <3>1, <3>2 DEF Issuing, Suspends, Leaves, Goto, OwesResume, AwaitPoints
  <2>6. CASE MkdirFails(t) \/ PauseFails(t)
    BY <2>6 DEF MkdirFails, PauseFails, Replied, Leaves, OwesResume
  <2>7. CASE PauseVm(t)
    BY <2>7 DEF PauseVm, Ask, ApiRequest, Issues, Requests
  <2>8. CASE PauseDone(t) \/ CreateDone(t)
    <3>1. call[t] = "snapshot" /\ pc[t] = "api"
      BY <2>8 DEF PauseDone, CreateDone, Replied, TaskInv, Calls, Issuing, Resources
    <3>2. pc' = [pc EXCEPT ![t] = "api"]
      BY <2>8, <3>1 DEF PauseDone, CreateDone, Ask
    <3>3. QED
      BY <2>8, <3>1, <3>2 DEF PauseDone, CreateDone, Ask, ApiRequest, Issues, Requests
  <2>9. CASE ResumeDone(t)
    <3>1. call[t] = "snapshot" /\ pc[t] = "api" /\ vm[t] \in Vms
      BY <2>9 DEF ResumeDone, Replied, TaskInv, Calls, Issuing, Resources
    <3>2. CASE wire[t] = "err"
      BY <2>9, <3>1, <3>2 DEF ResumeDone, Leaves
    <3>3. CASE wire[t] = "ok"
      BY <2>9, <3>1, <3>3 DEF ResumeDone, Replied, Leaves, OwesResume
    <3>4. QED
      BY <2>9, <3>2, <3>3 DEF ResumeDone
  <2>10. QED
    BY <1>2, <2>1, <2>2, <2>3, <2>4, <2>5, <2>6, <2>7, <2>8, <2>9 DEF BackendRuns
<1>3. ASSUME NEW t \in Tasks, CancelSnapshot(t)
      PROVE  UNCHANGED <<conf, machine>> /\ Leaves(t)
  <2>1. CASE pc[t] = "api"
    BY <1>3, <2>1 DEF CancelSnapshot, Leaves
  <2>2. CASE pc[t] # "api"
    BY <1>3, <2>2 DEF CancelSnapshot, Leaves, InFlight, WireInv, OwesResume
  <2>3. QED
    BY <2>1, <2>2
<1>4. ASSUME NEW t \in Tasks, NEW m \in Calls, NEW v \in Vms, NEW s, NEW p \in {"check", "mkdir"},
             m = "snapshot" => p = "check", Begin(t, m, v, s, p), UNCHANGED <<cut, stray>>
      PROVE  Enters(t)
  BY <1>4 DEF Begin, Idle, Enters, TaskInv
<1>5. ASSUME NEW t \in Tasks, BackendCalls(t)
      PROVE  UNCHANGED <<conf, machine>> /\ (Leaves(t) \/ Enters(t))
  <2>1. CASE \E v \in Vms : Spawn(t, v) \/ \E s \in Snaps : Restore(t, v, s)
    BY <1>4, <2>1 DEF Spawn, Restore, Calls
  <2>2. CASE CancelCreating(t) \/ CancelTerminate(t) \/ KillFails(t)
    BY <1>1, <2>2 DEF CancelCreating, CancelTerminate, KillFails, Creating, Issuing
  <2>3. QED
    BY <1>3, <1>5, <2>1, <2>2 DEF BackendCalls
<1>6. ASSUME NEW t \in Tasks, Register(t) \/ Unregister(t)
      PROVE  UNCHANGED <<conf, machine>> /\ Leaves(t)
  BY <1>6 DEF Register, Unregister, Issuing, Leaves, OwesResume
<1>7. ASSUME NEW t \in Tasks, Found(t)
      PROVE  UNCHANGED <<conf, machine>> /\ Suspends(t)
  BY <1>7 DEF Found, KillVm, Goto, Suspends, OwesResume, WireInv, RegistryInv, AwaitPoints
<1>8. ASSUME NEW t \in Tasks, NotFound(t)
      PROVE  UNCHANGED <<conf, machine>> /\ Leaves(t)
  <2>1. CASE call[t] = "snapshot"
    BY <1>8, <2>1 DEF NotFound, Leaves, OwesResume
  <2>2. CASE call[t] = "terminate"
    BY <1>1, <1>8, <2>2 DEF NotFound
  <2>3. QED
    BY <1>8, <2>1, <2>2 DEF NotFound
<1>9. ASSUME NEW t \in Tasks, NEW v \in Vms, Terminate(t, v)
      PROVE  UNCHANGED <<conf, machine>> /\ Enters(t)
  BY <1>4, <1>9 DEF Terminate, Calls
<1>10. ASSUME NEW t \in Tasks, NEW v \in Vms, NEW s \in Snaps, Snapshot(t, v, s)
       PROVE  UNCHANGED <<conf, machine>> /\ Enters(t)
  BY <1>4, <1>10 DEF Snapshot, Calls
<1>11. ASSUME NEW v \in Vms, DropHandle(v)
       PROVE  UNCHANGED <<conf, machine>> /\ UNCHANGED <<taskVars, cut, stray>>
  BY <1>11 DEF DropHandle, DropChild
<1>12. CASE UNCHANGED vars
  BY <1>12 DEF vars, clientVars, backendVars, taskVars
<1>13. QED
  BY <1>2, <1>5, <1>6, <1>7, <1>8, <1>9, <1>10, <1>11, <1>12 DEF Next, Runs

-----------------------------------------------------------------------------
(* What Firecracker's steps do to the guests.                              *)

Breaks ==
    /\ UNCHANGED <<conf, machine>>
    /\ stray' \subseteq stray
    /\ \A t \in Tasks : wire'[t] = wire[t] \/ (wire[t] = "sent" /\ wire'[t] = "err")
    /\ \A v \in Vms :
          /\ proc'[v] = "serving" => proc[v] \in {"bound", "serving"}
          /\ proc'[v] \in {"none", "starting", "bound"} => proc[v] \in {"none", "starting", "bound"}

Serves(t) ==
    /\ wire[t] = "sent" /\ proc[vm[t]] = "serving"
    /\ FcDoes(vm[t], req[t], snap[t])
    /\ wire' = [wire EXCEPT ![t] = "ok"]
    /\ UNCHANGED <<proc, stray>>

ServesStray(m) ==
    /\ proc[m.vm] = "serving" /\ stray' \subseteq stray
    /\ FcDoes(m.vm, m.req, m.snap)
    /\ UNCHANGED <<proc, wire>>

\* Firecracker carries out a request or a stray one, or loses some.
LEMMA VmmMoves ==
    ASSUME TypeOK, VmmRuns
    PROVE  /\ UNCHANGED <<call, pc, vm, req, cut>>
           /\ Breaks \/ (\E t \in Tasks : Serves(t)) \/ (\E m \in stray : ServesStray(m))
<1> USE DEF TypeOK, VmmTypeOK
<1>0. UNCHANGED <<call, pc, vm, req, cut>>
  BY VmmEffect
<1>1. CASE \E v \in Vms : FcBind(v) \/ FcListen(v)
  BY <1>0, <1>1 DEF FcBind, FcListen, clientVars, Breaks
<1>2. CASE \E v \in Vms : FcExit(v) \/ OsReap(v)
  BY <1>0, <1>2 DEF FcExit, OsReap, Dies, InFlight, Breaks
<1>3. CASE \E t \in Tasks : FcAnswer(t)
  BY <1>0, <1>3 DEF FcAnswer, InFlight, Serves
<1>4. CASE \E t \in Tasks : FcRefuse(t)
  BY <1>0, <1>4 DEF FcRefuse, InFlight, Breaks
<1>5. ASSUME NEW m \in stray, FcStray(m)
      PROVE  Breaks \/ ServesStray(m)
  <2>1. UNCHANGED <<proc, wire>> /\ stray' \subseteq stray /\ proc[m.vm] = "serving"
    BY <1>5 DEF FcStray, clientVars
  <2>2. CASE UNCHANGED <<conf, machine, files>>
    BY <2>1, <2>2 DEF Breaks
  <2>3. CASE FcDoes(m.vm, m.req, m.snap)
    BY <2>1, <2>3 DEF ServesStray
  <2>4. QED
    BY <1>5, <2>2, <2>3 DEF FcStray
<1>6. QED
  BY <1>0, <1>1, <1>2, <1>3, <1>4, <1>5 DEF VmmRuns, FcStep

\* What carrying out a request does to the guests and their configurations.
LEMMA Effects ==
    ASSUME TypeOK, NEW v \in Vms, NEW r, NEW s, FcDoes(v, r, s)
    PROVE  /\ \A w \in Vms : w # v => machine'[w] = machine[w] /\ conf'[w] = conf[w]
           /\ \A w \in Vms : conf[w] \subseteq conf'[w]
           /\ r \in Resources => machine'[v] = machine[v] /\ conf'[v] = conf[v] \cup {r}
           /\ r = "load" => machine'[v] = "running" /\ conf'[v] = Resources
           /\ r \in {"InstanceStart", "resume"} => machine'[v] = "running" /\ conf'[v] = conf[v]
           /\ r = "pause" => machine[v] # "blank" /\ machine'[v] = "paused" /\ conf'[v] = conf[v]
           /\ r \in {"pause", "resume"} => machine[v] # "blank"
           /\ r = "create" => machine'[v] = machine[v] /\ conf'[v] = conf[v]
           /\ r \in Requests
<1> USE DEF TypeOK, VmmTypeOK, Resources, Requests
<1>1. CASE FcConfigure(v, r)
  BY <1>1 DEF FcConfigure
<1>2. CASE FcInstanceStart(v, r) \/ FcPatch(v, r)
  BY <1>2 DEF FcInstanceStart, FcPatch
<1>3. CASE FcLoad(v, r, s)
  BY <1>3 DEF FcLoad
<1>4. CASE FcCreate(v, r, s)
  BY <1>4 DEF FcCreate
<1>5. QED
  BY <1>1, <1>2, <1>3, <1>4 DEF FcDoes

\* A task with a request on the wire has a VM, and the requests of snapshot
\* and spawn are their own.
LEMMA OnTheWire ==
    ASSUME IInv, NEW t \in Tasks, wire[t] = "sent"
    PROVE  /\ vm[t] \in Vms /\ req[t] \in Requests /\ call[t] \in Calls
           /\ req[t] \in {"pause", "create", "resume"} <=> call[t] = "snapshot"
           /\ req[t] \in Resources \cup {"InstanceStart"} <=> call[t] = "spawn"
BY TypeSplit DEF IInv, TaskTypeOK, TaskInv, Calls, Requests, Resources, Issuing

-----------------------------------------------------------------------------
(* Preservation.                                                           *)

\* Requests stay with their waiting tasks, and strays are accounted for.
LEMMA WireStep ==
    ASSUME IInv, WireInv, StrayInv, [Next]_vars
    PROVE  WireInv' /\ StrayInv'
<1> USE TypeSplit DEF IInv, TaskTypeOK, VmTypeOK
<1>1. CASE VmmRuns
  <2>1. UNCHANGED <<call, pc, vm, req, cut>>
    BY <1>1, VmmMoves
  <2>2. stray' \subseteq stray /\ \A t \in Tasks : wire'[t] = "sent" => wire[t] = "sent"
    BY <1>1, VmmMoves DEF Breaks, Serves, ServesStray
  <2>3. QED
    BY <2>1, <2>2 DEF WireInv, StrayInv
<1>2. CASE ~ VmmRuns
  <2>1. CASE UNCHANGED <<taskVars, cut, stray>>
    BY <2>1 DEF taskVars, WireInv, StrayInv
  <2>2. ASSUME NEW t \in Tasks, Suspends(t) PROVE WireInv' /\ StrayInv'
    BY <2>2 DEF Suspends, WireInv, StrayInv
  <2>3. ASSUME NEW t \in Tasks, Leaves(t) PROVE WireInv' /\ StrayInv'
    <3>1. WireInv'
      BY <2>3 DEF Leaves, Return, WireInv
    <3>2. CASE UNCHANGED <<cut, stray>>
      BY <3>1, <3>2 DEF StrayInv
    <3>3. CASE /\ call[t] = "snapshot" /\ pc[t] = "api"
               /\ \E why : cut' = [cut EXCEPT ![vm[t]] = @ \cup {why}]
               /\ stray' \in {stray, stray \cup {[vm |-> vm[t], snap |-> snap[t], req |-> req[t]]}}
      <4>1. vm[t] \in Vms \ Foreign /\ req[t] \in {"pause", "create", "resume"}
        BY <3>3 DEF WireInv, TaskInv
      <4>2. cut'[vm[t]] # {} /\ \A v \in Vms : cut[v] \subseteq cut'[v]
        BY <3>3, <4>1
      <4>3. \A m \in stray : m.vm \in Vms
        BY DEF Strays
      <4>4. \A m \in stray' : m \in stray \/ (m.vm = vm[t] /\ m.req = req[t])
        BY <3>3
      <4>5. \A v \in Vms : cut[v] # {} => cut'[v] # {}
        BY <4>2
      <4>6. ASSUME NEW m \in stray'
            PROVE  m.req \in {"pause", "create", "resume"} /\ m.vm \notin Foreign /\ cut'[m.vm] # {}
        <5>1. CASE m \in stray
          BY <4>3, <4>5, <5>1 DEF StrayInv
        <5>2. CASE m.vm = vm[t] /\ m.req = req[t]
          BY <4>1, <4>2, <5>2
        <5>3. QED
          BY <4>4, <5>1, <5>2
      <4>7. QED
        BY <3>1, <4>6 DEF StrayInv
    <3>4. QED
      BY <2>3, <3>2, <3>3 DEF Leaves
  <2>4. ASSUME NEW t \in Tasks, Enters(t) PROVE WireInv' /\ StrayInv'
    BY <2>4 DEF Enters, WireInv, StrayInv
  <2>5. ASSUME NEW t \in Tasks, NEW r \in Requests, Issues(t, r) PROVE WireInv' /\ StrayInv'
    BY <2>5 DEF Issues, WireInv, StrayInv, Issuing
  <2>6. QED
    BY <1>2, <2>1, <2>2, <2>3, <2>4, <2>5, ExecutorMoves
<1>3. QED
  BY <1>1, <1>2

\* The executor starts only processes that do not exist yet, and kills.
LEMMA ProcMoves ==
    ASSUME IInv, [Next]_vars, ~ VmmRuns
    PROVE  \A v \in Vms :
              /\ proc'[v] = "serving" => proc[v] = "serving"
              /\ proc'[v] \in {"none", "starting", "bound"} => proc[v] \in {"none", "starting", "bound"}
<1> USE TypeSplit DEF IInv, TaskTypeOK, VmTypeOK, fcVars
<1> DEFINE Tame == \A v \in Vms :
              /\ proc'[v] = "serving" => proc[v] = "serving"
              /\ proc'[v] \in {"none", "starting", "bound"} => proc[v] \in {"none", "starting", "bound"}
<1>1. CASE UNCHANGED proc
  BY <1>1
<1>2. ASSUME NEW v, proc' = Killed(v) PROVE Tame
  BY <1>2 DEF Killed, Live
<1>3. ASSUME NEW t \in Tasks, ExecVmm(t) PROVE Tame
  <2>1. call[t] \in Issuing /\ pc[t] = "mkdir"
    BY <1>3 DEF ExecVmm, At, Creating, TaskInv
  <2>2. vm[t] \in Vms /\ proc[vm[t]] = "none"
    BY <2>1, SentinelAssumption DEF TaskInv, ProcInv, At, Issuing
  <2>3. QED
    BY <1>3, <2>2 DEF ExecVmm
<1>4. \/ UNCHANGED proc
      \/ \E v : proc' = Killed(v)
      \/ \E t \in Tasks : ExecVmm(t)
  <2>1. ASSUME NEW t \in Tasks, GiveUp(t) PROVE \E v : proc' = Killed(v)
    BY <2>1 DEF GiveUp, DropChild
  <2>2. ASSUME NEW t \in Tasks, BackendRuns(t)
        PROVE  UNCHANGED proc \/ GiveUp(t) \/ ExecVmm(t)
    BY <2>2 DEF BackendRuns, SetupFails, SocketMissing, SocketAppears, WaitExpired, ConfigureNext,
                BootFails, Booted, MkdirFails, PauseVm, PauseFails, PauseDone, CreateDone,
                ResumeDone, Reaped, Unlink
  <2>3. ASSUME NEW t \in Tasks, BackendCalls(t)
        PROVE  UNCHANGED proc \/ GiveUp(t)
    BY <2>3 DEF BackendCalls, Spawn, Restore, CancelCreating, CancelSnapshot, CancelTerminate, KillFails
  <2>4. ASSUME NEW t \in Tasks, Register(t) \/ Unregister(t) \/ Found(t) \/ NotFound(t)
        PROVE  UNCHANGED proc \/ GiveUp(t) \/ proc' = Killed(vm[t])
    BY <2>4 DEF Register, Unregister, Found, KillVm, NotFound
  <2>5. ASSUME NEW t \in Tasks, NEW v \in Vms, Terminate(t, v) \/ \E s \in Snaps : Snapshot(t, v, s)
        PROVE  UNCHANGED proc
    BY <2>5 DEF Terminate, Snapshot
  <2>6. ASSUME NEW v \in Vms, DropHandle(v) PROVE proc' = Killed(v)
    BY <2>6 DEF DropHandle, DropChild
  <2>7. CASE UNCHANGED vars
    BY <2>7 DEF vars
  <2>8. QED
    BY <2>1, <2>2, <2>3, <2>4, <2>5, <2>6, <2>7 DEF Next, Runs
<1>5. QED
  BY <1>1, <1>2, <1>3, <1>4

\* A guest comes to life only in a process that serves.
LEMMA BlankStep ==
    ASSUME IInv, WireInv, BlankInv, [Next]_vars
    PROVE  BlankInv'
<1>0. TypeOK
  BY DEF IInv
<1>1. CASE ~ VmmRuns
  BY <1>1, ExecutorMoves, ProcMoves DEF BlankInv
<1>2. CASE VmmRuns
  <2>1. CASE Breaks
    BY <2>1 DEF Breaks, BlankInv
  <2>2. ASSUME NEW t \in Tasks, Serves(t) PROVE BlankInv'
    BY <1>0, <2>2, OnTheWire, Effects DEF Serves, BlankInv
  <2>3. ASSUME NEW m \in stray, ServesStray(m) PROVE BlankInv'
    <3>1. m.vm \in Vms
      BY <1>0 DEF TypeOK, VmmTypeOK, Strays
    <3>2. QED
      BY <1>0, <2>3, <3>1, Effects DEF ServesStray, BlankInv
  <2>4. QED
    BY <1>0, <1>2, <2>1, <2>2, <2>3, VmmMoves
<1>3. QED
  BY <1>1, <1>2

\* Each configuration request goes out only after the ones before it have
\* been carried out, and the start only after all of them.
LEMMA ConfStep ==
    ASSUME IInv, WireInv, StrayInv, ConfInv, BootedFullyConfigured, [Next]_vars
    PROVE  ConfInv' /\ BootedFullyConfigured'
<1>0. /\ TypeOK /\ TaskTypeOK /\ \A v \in Vms : conf[v] \subseteq Resources
      /\ \A t \in Tasks : call[t] = "spawn" => vm[t] \in Vms
  BY TypeSplit DEF IInv, VmTypeOK, TaskTypeOK, TaskInv
<1>1. CASE ~ VmmRuns
  <2>0. UNCHANGED <<conf, machine>> /\ BootedFullyConfigured'
    BY <1>1, ExecutorMoves DEF BootedFullyConfigured
  <2>1. CASE UNCHANGED <<taskVars, cut, stray>>
    BY <2>0, <2>1 DEF taskVars, ConfInv
  <2>2. ASSUME NEW t \in Tasks, Suspends(t) PROVE ConfInv'
    BY <2>0, <2>2 DEF Suspends, ConfInv
  <2>3. ASSUME NEW t \in Tasks, Leaves(t) PROVE ConfInv'
    BY <1>0, <2>0, <2>3 DEF Leaves, Return, ConfInv, TaskTypeOK
  <2>4. ASSUME NEW t \in Tasks, Enters(t) PROVE ConfInv'
    BY <1>0, <2>0, <2>4 DEF Enters, ConfInv, TaskTypeOK
  <2>5. ASSUME NEW t \in Tasks, NEW r \in Requests, Issues(t, r) PROVE ConfInv'
    <3>1. ASSUME call[t] = "spawn"
          PROVE  /\ r = "drives" => "boot-source" \in conf[vm[t]]
                 /\ r = "machine-config" => {"boot-source", "drives"} \subseteq conf[vm[t]]
                 /\ r = "InstanceStart" => Resources \subseteq conf[vm[t]]
      <4>1. CASE r \in {"boot-source", "load"}
        BY <4>1
      <4>2. CASE wire[t] = "ok" /\ r = NextConfig(req[t]) /\ r # "none"
        BY <3>1, <4>2 DEF NextConfig, ConfInv, Resources
      <4>3. QED
        BY <2>5, <3>1, <4>1, <4>2 DEF Issues
    <3>2. QED
      BY <1>0, <2>0, <2>5, <3>1 DEF Issues, ConfInv, TaskTypeOK
  <2>6. QED
    BY <1>1, <2>0, <2>1, <2>2, <2>3, <2>4, <2>5, ExecutorMoves
<1>2. CASE VmmRuns
  <2>0. UNCHANGED <<call, vm, req>>
    BY <1>0, <1>2, VmmMoves
  <2>1. CASE Breaks
    BY <2>0, <2>1 DEF Breaks, ConfInv, BootedFullyConfigured
  <2>2. ASSUME NEW t \in Tasks, Serves(t) PROVE ConfInv' /\ BootedFullyConfigured'
    <3>1. /\ vm[t] \in Vms
          /\ req[t] \in Resources => machine'[vm[t]] = machine[vm[t]] /\ conf'[vm[t]] = conf[vm[t]] \cup {req[t]}
          /\ \A v \in Vms : conf[v] \subseteq conf'[v]
          /\ \A v \in Vms : v # vm[t] => machine'[v] = machine[v] /\ conf'[v] = conf[v]
          /\ req[t] = "load" => conf'[vm[t]] = Resources
          /\ req[t] \in {"pause", "resume"} => machine[vm[t]] # "blank" /\ conf'[vm[t]] = conf[vm[t]]
          /\ req[t] = "create" => machine'[vm[t]] = machine[vm[t]] /\ conf'[vm[t]] = conf[vm[t]]
      BY <1>0, <2>2, OnTheWire, Effects DEF Serves
    <3>2. ConfInv'
      BY <1>0, <2>0, <2>2, <3>1 DEF Serves, ConfInv, TaskTypeOK
    <3>3. machine'[vm[t]] # "blank" => conf'[vm[t]] = Resources
      <4>1. CASE req[t] \in Resources
        <5>1. Resources \cup {req[t]} = Resources
          BY <4>1
        <5>2. QED
          BY <3>1, <4>1, <5>1 DEF BootedFullyConfigured
      <4>2. CASE req[t] = "InstanceStart"
        <5>1. conf'[vm[t]] = conf[vm[t]] /\ Resources \subseteq conf[vm[t]]
          BY <1>0, <2>2, <4>2, OnTheWire, Effects DEF Serves, ConfInv
        <5>2. conf[vm[t]] \subseteq Resources
          BY <1>0, <3>1
        <5>3. QED
          BY <5>1, <5>2
      <4>3. CASE req[t] = "load"
        BY <3>1, <4>3
      <4>4. CASE req[t] \in {"pause", "resume", "create"}
        BY <3>1, <4>4 DEF BootedFullyConfigured
      <4>5. QED
        BY <2>2, <4>1, <4>2, <4>3, <4>4, OnTheWire DEF Serves, Requests
    <3>4. QED
      BY <3>1, <3>2, <3>3 DEF BootedFullyConfigured
  <2>3. ASSUME NEW m \in stray, ServesStray(m) PROVE ConfInv' /\ BootedFullyConfigured'
    <3>1. m.vm \in Vms /\ m.req \in {"pause", "create", "resume"}
      BY <1>0 DEF TypeOK, VmmTypeOK, Strays, StrayInv
    <3>2. /\ \A v \in Vms : conf'[v] = conf[v]
          /\ \A v \in Vms : machine'[v] # "blank" => machine[v] # "blank"
      BY <1>0, <2>3, <3>1, Effects DEF ServesStray
    <3>3. QED
      BY <1>0, <2>0, <2>3, <3>2 DEF ServesStray, ConfInv, BootedFullyConfigured
  <2>4. QED
    BY <1>0, <1>2, <2>1, <2>2, <2>3, VmmMoves
<1>3. QED
  BY <1>1, <1>2

\* Only requests of snapshot pause a guest, and they go to registered VMs.
LEMMA ForeignStep ==
    ASSUME IInv, WireInv, StrayInv, ForeignVmNeverPaused, [Next]_vars
    PROVE  ForeignVmNeverPaused'
<1> USE BackendAssumption DEF ForeignVmNeverPaused
<1>0. TypeOK
  BY DEF IInv
<1>1. CASE ~ VmmRuns
  BY <1>1, ExecutorMoves
<1>2. CASE VmmRuns
  <2>1. CASE Breaks
    BY <2>1 DEF Breaks
  <2>2. ASSUME NEW v \in Vms \ Foreign, NEW r, NEW s, FcDoes(v, r, s) PROVE ForeignVmNeverPaused'
    BY <1>0, <2>2, Effects
  <2>3. ASSUME NEW v \in Vms, NEW r, NEW s, r \notin {"pause", "create", "resume"}, FcDoes(v, r, s)
        PROVE  ForeignVmNeverPaused'
    <3>1. r \in Resources \cup {"InstanceStart", "load"}
      BY <1>0, <2>3, Effects DEF Requests
    <3>2. machine'[v] = "paused" => machine[v] = "paused"
      BY <1>0, <2>3, <3>1, Effects
    <3>3. QED
      BY <1>0, <2>3, <3>2, Effects
  <2>4. ASSUME NEW t \in Tasks, Serves(t) PROVE ForeignVmNeverPaused'
    <3>1. vm[t] \in Vms /\ (req[t] \in {"pause", "create", "resume"} => vm[t] \notin Foreign)
      BY <2>4, OnTheWire DEF Serves, WireInv
    <3>2. QED
      BY <2>2, <2>3, <2>4, <3>1 DEF Serves
  <2>5. ASSUME NEW m \in stray, ServesStray(m) PROVE ForeignVmNeverPaused'
    <3>1. m.vm \in Vms \ Foreign
      BY <1>0 DEF TypeOK, VmmTypeOK, Strays, StrayInv
    <3>2. QED
      BY <2>2, <2>5, <3>1 DEF ServesStray
  <2>6. QED
    BY <1>0, <1>2, <2>1, <2>4, <2>5, VmmMoves
<1>3. QED
  BY <1>1, <1>2

\* A pause that succeeds makes its task owe a resume, a resume that is
\* carried out pays all debts of its VM, and a debt is dropped only by
\* leaving a mark in cut.
LEMMA PausedStep ==
    ASSUME IInv, WireInv, StrayInv, BlankInv, PausedIsAccounted, [Next]_vars
    PROVE  PausedIsAccounted'
<1>0. TypeOK /\ TaskTypeOK /\ cut \in [Vms -> SUBSET {"cancelled", "refused"}]
  BY TypeSplit DEF IInv, VmTypeOK
<1>a. \A t \in Tasks : call[t] = "snapshot" => vm[t] \in Vms
  BY <1>0 DEF IInv, TaskInv, TaskTypeOK
<1> SUFFICES ASSUME NEW v \in Vms, machine'[v] = "paused", proc'[v] = "serving"
             PROVE  cut'[v] # {} \/ \E t \in Tasks : vm'[t] = v /\ OwesResume(t)'
  BY DEF PausedIsAccounted
<1>1. CASE ~ VmmRuns
  <2>0. machine[v] = "paused" /\ proc[v] = "serving"
    BY <1>1, ExecutorMoves, ProcMoves
  <2>1. cut[v] # {} \/ \E t \in Tasks : vm[t] = v /\ OwesResume(t)
    BY <2>0 DEF PausedIsAccounted
  <2>2. CASE UNCHANGED <<taskVars, cut, stray>>
    BY <2>1, <2>2 DEF taskVars, OwesResume
  <2>3. ASSUME NEW t \in Tasks, Suspends(t)
        PROVE  cut'[v] # {} \/ \E u \in Tasks : vm'[u] = v /\ OwesResume(u)'
    <3>1. \A u \in Tasks : OwesResume(u) => OwesResume(u)'
      BY <1>0, <2>3 DEF Suspends, OwesResume, TaskTypeOK
    <3>2. QED
      BY <2>1, <2>3, <3>1 DEF Suspends
  <2>4. ASSUME NEW t \in Tasks, Enters(t)
        PROVE  cut'[v] # {} \/ \E u \in Tasks : vm'[u] = v /\ OwesResume(u)'
    <3>1. \A u \in Tasks : OwesResume(u) => OwesResume(u)' /\ vm'[u] = vm[u]
      BY <1>0, <2>4 DEF Enters, OwesResume, TaskTypeOK
    <3>2. QED
      BY <2>1, <2>4, <3>1 DEF Enters
  <2>5. ASSUME NEW t \in Tasks, Leaves(t)
        PROVE  cut'[v] # {} \/ \E u \in Tasks : vm'[u] = v /\ OwesResume(u)'
    <3>1. \A u \in Tasks \ {t} : OwesResume(u) => OwesResume(u)' /\ vm'[u] = vm[u]
      BY <1>0, <2>5 DEF Leaves, Return, OwesResume, TaskTypeOK
    <3>2. CASE UNCHANGED cut /\ ~ OwesResume(t)
      BY <2>1, <3>1, <3>2
    <3>3. CASE call[t] = "snapshot" /\ \E why : cut' = [cut EXCEPT ![vm[t]] = @ \cup {why}]
      <4>1. cut'[vm[t]] # {} /\ (cut[v] # {} => cut'[v] # {})
        BY <1>0, <1>a, <3>3
      <4>2. QED
        BY <2>1, <3>1, <4>1
    <3>4. QED
      BY <2>5, <3>2, <3>3 DEF Leaves
  <2>6. ASSUME NEW t \in Tasks, NEW r \in Requests, Issues(t, r)
        PROVE  cut'[v] # {} \/ \E u \in Tasks : vm'[u] = v /\ OwesResume(u)'
    <3>1. \A u \in Tasks \ {t} : OwesResume(u) => OwesResume(u)'
      BY <1>0, <2>6 DEF Issues, OwesResume, TaskTypeOK
    <3>2. OwesResume(t) => OwesResume(t)'
      BY <1>0, <2>6 DEF Issues, OwesResume, TaskTypeOK, Issuing
    <3>3. QED
      BY <2>1, <2>6, <3>1, <3>2 DEF Issues
  <2>7. QED
    BY <1>1, <2>2, <2>3, <2>4, <2>5, <2>6, ExecutorMoves
<1>2. CASE VmmRuns
  <2>0. UNCHANGED <<call, pc, vm, req, cut>>
    BY <1>0, <1>2, VmmMoves
  <2>1. CASE Breaks
    <3>1. machine[v] = "paused" /\ proc[v] = "serving"
      BY <2>1 DEF Breaks, BlankInv
    <3>2. \A u \in Tasks : OwesResume(u) => OwesResume(u)'
      BY <2>0, <2>1 DEF Breaks, OwesResume
    <3>3. QED
      BY <2>0, <3>1, <3>2 DEF PausedIsAccounted
  <2>2. ASSUME NEW t \in Tasks, Serves(t)
        PROVE  cut'[v] # {} \/ \E u \in Tasks : vm'[u] = v /\ OwesResume(u)'
    <3>0. /\ vm[t] \in Vms /\ wire[t] = "sent" /\ wire' = [wire EXCEPT ![t] = "ok"]
          /\ FcDoes(vm[t], req[t], snap[t]) /\ proc' = proc
          /\ pc[t] = "api"
      BY <2>2, OnTheWire DEF Serves, WireInv
    <3>1. CASE vm[t] = v /\ req[t] = "pause"
      <4>1. call[t] = "snapshot"
        BY <3>0, <3>1, OnTheWire
      <4>2. OwesResume(t)'
        BY <1>0, <2>0, <3>0, <3>1, <4>1 DEF OwesResume, TaskTypeOK
      <4>3. QED
        BY <2>0, <3>1, <4>2
    <3>2. CASE ~ (vm[t] = v /\ req[t] = "pause")
      <4>1. machine[v] = "paused" /\ ~ (vm[t] = v /\ req[t] = "resume")
        <5>1. CASE vm[t] # v
          BY <1>0, <3>0, <5>1, Effects
        <5>2. CASE vm[t] = v /\ req[t] \in Resources \cup {"InstanceStart", "load", "create", "resume"}
          BY <1>0, <3>0, <5>2, Effects DEF Resources
        <5>3. QED
          BY <3>0, <3>2, <5>1, <5>2, OnTheWire DEF Requests
      <4>2. \A u \in Tasks : vm[u] = v /\ OwesResume(u) => OwesResume(u)'
        BY <1>0, <2>0, <3>0, <4>1 DEF OwesResume, TaskTypeOK
      <4>3. QED
        BY <2>0, <3>0, <4>1, <4>2 DEF PausedIsAccounted
    <3>3. QED
      BY <3>1, <3>2
  <2>3. ASSUME NEW m \in stray, ServesStray(m)
        PROVE  cut'[v] # {} \/ \E u \in Tasks : vm'[u] = v /\ OwesResume(u)'
    <3>1. m.vm \in Vms /\ cut[m.vm] # {}
      BY <1>0 DEF TypeOK, VmmTypeOK, Strays, StrayInv
    <3>2. CASE m.vm = v
      BY <2>0, <3>1, <3>2
    <3>3. CASE m.vm # v
      <4>1. machine[v] = "paused" /\ proc[v] = "serving" /\ wire' = wire
        BY <1>0, <2>3, <3>1, <3>3, Effects DEF ServesStray
      <4>2. QED
        BY <2>0, <4>1 DEF PausedIsAccounted, OwesResume
    <3>4. QED
      BY <3>2, <3>3
  <2>4. QED
    BY <1>0, <1>2, <2>1, <2>2, <2>3, VmmMoves
<1>3. QED
  BY <1>1, <1>2

-----------------------------------------------------------------------------
(* Theorems.                                                               *)

\* The guests keep their inductive invariant.
THEOREM GuestInvariance == Spec => []GuestInv
<1>1. Init => GuestInv
  <2> SUFFICES ASSUME Init PROVE GuestInv
    OBVIOUS
  <2> USE DEF Init, BackendInit, VmmInit
  <2>1. WireInv /\ StrayInv /\ ConfInv
    BY DEF WireInv, StrayInv, ConfInv
  <2>2. \A v \in Vms : machine[v] = "blank"
    OBVIOUS
  <2>3. BlankInv /\ BootedFullyConfigured /\ ForeignVmNeverPaused /\ PausedIsAccounted
    BY <2>2, BackendAssumption
    DEF BlankInv, BootedFullyConfigured, ForeignVmNeverPaused, PausedIsAccounted
  <2>4. QED
    BY <2>1, <2>3 DEF GuestInv
<1>2. IInv /\ GuestInv /\ [Next]_vars => GuestInv'
  BY WireStep, BlankStep, ConfStep, ForeignStep, PausedStep DEF GuestInv
<1>3. QED
  BY <1>1, <1>2, Invariance, PTL DEF Spec

\* configure_and_boot starts no guest before all three resources are set,
\* and restore none but whole; whatever is cancelled, refused or lost.
THEOREM BootIsComplete == Spec => []BootedFullyConfigured
<1>1. GuestInv => BootedFullyConfigured
  BY DEF GuestInv
<1>2. QED
  BY <1>1, GuestInvariance, PTL

\* The orchestrator pauses only what it finds in its own registry.
THEOREM ForeignUntouched == Spec => []ForeignVmNeverPaused
<1>1. GuestInv => ForeignVmNeverPaused
  BY DEF GuestInv
<1>2. QED
  BY <1>1, GuestInvariance, PTL

\* Overlapping snapshots of one VM never leave it paused between them: the
\* last pause has a resume to come, or a cancellation or failure on record.
THEOREM PausesAreTemporary == Spec => []PausedIsAccounted
<1>1. GuestInv => PausedIsAccounted
  BY DEF GuestInv
<1>2. QED
  BY <1>1, GuestInvariance, PTL
=============================================================================
