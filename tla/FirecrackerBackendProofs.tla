---------------------- MODULE FirecrackerBackendProofs ----------------------
(***************************************************************************)
(* What the proofs about VmOrchestrator and about BlockExecution have in   *)
(* common: Firecracker's own steps, and the ways in which a task's call    *)
(* moves on.                                                               *)
(***************************************************************************)
EXTENDS FirecrackerBackend, TLAPS

\* The part of the type invariant that is about tasks.
TaskTypeOK ==
    /\ call \in [Tasks -> Calls \cup {"none"}]
    /\ pc \in [Tasks -> AwaitPoints \cup {"idle"}]
    /\ polls \in [Tasks -> 0 .. MaxPolls]
    /\ vm \in [Tasks -> Vms \cup {NoVm}]
    /\ snap \in [Tasks -> Snaps \cup {NoSnap}]
    /\ req \in [Tasks -> Requests \cup {"none"}]
    /\ wire \in [Tasks -> {"none", "sent", "ok", "err"}]

\* A step of a Firecracker process keeps every variable of the processes and
\* of their connections in its type.
LEMMA FcTypeStep ==
    ASSUME VmmTypeOK, FcStep
    PROVE  VmmTypeOK'
<1> USE DEF VmmTypeOK, ProcStates, Live
<1>0. CASE \E v \in Vms : FcBind(v)
  BY <1>0 DEF FcBind, clientVars
<1>1. CASE \E v \in Vms : FcListen(v)
  BY <1>1 DEF FcListen, clientVars
<1>2. CASE \E v \in Vms : FcExit(v) \/ OsReap(v)
  BY <1>2 DEF FcExit, OsReap, Dies
<1>3. CASE \E t \in Tasks : FcRefuse(t)
  BY <1>3 DEF FcRefuse
<1>4. ASSUME NEW v \in Vms \cup {NoVm}, NEW r, NEW s, FcDoes(v, r, s)
      PROVE  /\ conf' \in [Vms -> SUBSET Resources]
             /\ machine' \in [Vms -> {"blank", "running", "paused"}]
             /\ files' \in [Snaps -> {"absent", "torn", "whole"}]
  BY <1>4 DEF FcDoes, FcConfigure, FcInstanceStart, FcLoad, FcPatch, FcCreate
<1>5. CASE \E t \in Tasks : FcAnswer(t)
  <2>1. PICK t \in Tasks : FcAnswer(t)
    BY <1>5
  <2>2. FcDoes(vm[t], req[t], snap[t]) /\ vm[t] \in Vms \cup {NoVm}
    BY <2>1 DEF FcAnswer
  <2> QED
    BY <2>1, <2>2, <1>4 DEF FcAnswer
<1>6. CASE \E m \in stray : FcStray(m)
  <2>1. PICK m \in stray : FcStray(m)
    BY <1>6
  <2>2. m.vm \in Vms
    BY <2>1 DEF Strays
  <2>3. FcDoes(m.vm, m.req, m.snap) \/ UNCHANGED <<conf, machine, files>>
    BY <2>1 DEF FcStray
  <2> QED
    BY <2>1, <2>2, <2>3, <1>4 DEF FcStray, clientVars
<1> QED
  BY <1>0, <1>1, <1>2, <1>3, <1>5, <1>6 DEF FcStep

\* What a step of a Firecracker process leaves alone, and what it can do to
\* a process: it never starts one, and never undoes a kill.
LEMMA FcEffect ==
    ASSUME VmmTypeOK, VmmRuns
    PROVE  /\ UNCHANGED <<call, pc, polls, vm, snap, req, owner, known, cut>>
           /\ \A v \in Vms :
                 \/ proc'[v] = proc[v]
                 \/ proc[v] \in Live /\ proc'[v] \in Live
                 \/ proc[v] \in Live \cup {"dying"} /\ proc'[v] = "dead"
           /\ \A t \in Tasks : wire'[t] # "none" => wire[t] # "none"
<1> USE DEF VmmRuns, backendVars, VmmTypeOK
<1>1. CASE \E v \in Vms : FcBind(v) \/ FcListen(v)
  BY <1>1 DEF FcBind, FcListen, Live, clientVars
<1>2. CASE \E v \in Vms : FcExit(v) \/ OsReap(v)
  BY <1>2 DEF FcExit, OsReap, Dies, Live, InFlight
<1>3. CASE \E t \in Tasks : FcAnswer(t) \/ FcRefuse(t)
  BY <1>3 DEF FcAnswer, FcRefuse, InFlight
<1>4. CASE \E m \in stray : FcStray(m)
  BY <1>4 DEF FcStray, clientVars
<1> QED
  BY <1>1, <1>2, <1>3, <1>4 DEF FcStep

\* Returning, suspending, asking and beginning keep a task's own state in
\* its type.
LEMMA TaskTypeMoves ==
    ASSUME TaskTypeOK, NEW t \in Tasks
    PROVE  /\ Return(t) => TaskTypeOK'
           /\ \A p \in AwaitPoints : Goto(t, p) => TaskTypeOK'
           /\ \A r \in Requests : Ask(t, r) => TaskTypeOK'
           /\ \A m \in Calls, v \in Vms, s \in Snaps \cup {NoSnap}, p \in AwaitPoints :
                 Begin(t, m, v, s, p) => TaskTypeOK'
<1> USE DEF TaskTypeOK
<1>1. Return(t) => TaskTypeOK'
  <2>1. 0 \in 0 .. MaxPolls
    BY BackendAssumption
  <2> QED
    BY <2>1 DEF Return
<1>2. ASSUME NEW p \in AwaitPoints, Goto(t, p) PROVE TaskTypeOK'
  BY <1>2 DEF Goto
<1>3. ASSUME NEW r \in Requests, Ask(t, r) PROVE TaskTypeOK'
  BY <1>3 DEF Ask, ApiRequest, AwaitPoints
<1>4. ASSUME NEW m \in Calls, NEW v \in Vms, NEW s \in Snaps \cup {NoSnap}, NEW p \in AwaitPoints,
             Begin(t, m, v, s, p)
      PROVE  TaskTypeOK'
  BY <1>4 DEF Begin
<1> QED
  BY <1>1, <1>2, <1>3, <1>4

-----------------------------------------------------------------------------
(* The types of the executor's variables.                                  *)

BackendOK == VmmTypeOK /\ BackendTypeOK

\* The part of them that is not about tasks.
HolderTypeOK ==
    /\ proc \in [Vms -> ProcStates]
    /\ sockFile \in [Vms -> BOOLEAN]
    /\ conf \in [Vms -> SUBSET Resources]
    /\ machine \in [Vms -> {"blank", "running", "paused"}]
    /\ files \in [Snaps -> {"absent", "torn", "whole"}]
    /\ stray \in SUBSET Strays
    /\ owner \in [Vms -> {"none", "creating", "caller", "terminating", "ended", "dropped"}]
    /\ known \in SUBSET Snaps
    /\ cut \in [Vms -> SUBSET {"cancelled", "refused"}]

\* The two parts together, in this state and in the next.
LEMMA FcTypeSplit ==
    /\ BackendOK <=> TaskTypeOK /\ HolderTypeOK
    /\ BackendOK' <=> TaskTypeOK' /\ HolderTypeOK'
BY DEF BackendOK, VmmTypeOK, BackendTypeOK, TaskTypeOK, HolderTypeOK

\* Handing a Child on keeps owner in its type.
LEMMA FcOwnerMoves ==
    ASSUME BackendOK, NEW v,
           NEW who \in {"none", "creating", "caller", "terminating", "ended", "dropped"},
           HandTo(v, who)
    PROVE  owner' \in [Vms -> {"none", "creating", "caller", "terminating", "ended", "dropped"}]
BY FcTypeSplit DEF HolderTypeOK, HandTo

\* SIGKILL leaves every process in a state a process may be in.
LEMMA FcKilledType ==
    ASSUME BackendOK, NEW v
    PROVE  Killed(v) \in [Vms -> ProcStates]
BY FcTypeSplit DEF HolderTypeOK, Killed, ProcStates, Live

\* An error return or a dropped future that takes the Child with it keeps
\* every variable in its type.
LEMMA FcGiveUpType ==
    ASSUME BackendOK, NEW t \in Tasks, GiveUp(t)
    PROVE  BackendOK'
<1>1. TaskTypeOK'
  BY TaskTypeMoves, FcTypeSplit DEF GiveUp
<1>2. owner' \in [Vms -> {"none", "creating", "caller", "terminating", "ended", "dropped"}]
  BY FcOwnerMoves DEF GiveUp, DropChild
<1> QED
  BY <1>1, <1>2, FcKilledType, FcTypeSplit DEF GiveUp, DropChild, HolderTypeOK

\* A step of the executor by itself keeps every variable in its type.
LEMMA FcRunsType ==
    ASSUME BackendOK, NEW t \in Tasks, BackendRuns(t)
    PROVE  BackendOK'
<1> USE FcTypeSplit DEF HolderTypeOK, fcVars
<1>0. {"mkdir", "wait", "api", "reap", "unlink", "lock"} \subseteq AwaitPoints
  BY DEF AwaitPoints
<1>1. CASE SetupFails(t) \/ WaitExpired(t) \/ BootFails(t)
  BY <1>1, FcGiveUpType DEF SetupFails, WaitExpired, BootFails
<1>2. CASE ExecVmm(t)
  <2>1. TaskTypeOK'
    BY <1>0, <1>2, TaskTypeMoves DEF ExecVmm
  <2> QED
    BY <1>2, <2>1 DEF ExecVmm, ProcStates, Live
<1>3. CASE SocketMissing(t)
  <2>1. polls' \in [Tasks -> 0 .. MaxPolls]
    BY <1>3, BackendAssumption DEF SocketMissing, TaskTypeOK
  <2> QED
    BY <1>3, <2>1 DEF SocketMissing, TaskTypeOK
<1>4. CASE SocketAppears(t)
  <2>1. TaskTypeOK'
    BY <1>4, TaskTypeMoves DEF SocketAppears, Requests, Resources
  <2> QED
    BY <1>4, <2>1 DEF SocketAppears
<1>5. CASE ConfigureNext(t)
  <2>1. NextConfig(req[t]) # "none" => NextConfig(req[t]) \in Requests
    BY DEF NextConfig, Requests, Resources
  <2>2. TaskTypeOK'
    BY <1>5, <2>1, TaskTypeMoves DEF ConfigureNext
  <2> QED
    BY <1>5, <2>2 DEF ConfigureNext
<1>6. CASE Booted(t)
  <2>1. TaskTypeOK'
    BY <1>0, <1>6, TaskTypeMoves DEF Booted
  <2>2. owner' \in [Vms -> {"none", "creating", "caller", "terminating", "ended", "dropped"}]
    BY <1>6, FcOwnerMoves DEF Booted
  <2> QED
    BY <1>6, <2>1, <2>2 DEF Booted
<1>7. CASE MkdirFails(t) \/ PauseFails(t)
  <2>1. TaskTypeOK'
    BY <1>7, TaskTypeMoves DEF MkdirFails, PauseFails
  <2> QED
    BY <1>7, <2>1 DEF MkdirFails, PauseFails
<1>8. CASE PauseVm(t) \/ PauseDone(t)
  <2>1. TaskTypeOK'
    BY <1>8, TaskTypeMoves DEF PauseVm, PauseDone, Requests
  <2> QED
    BY <1>8, <2>1 DEF PauseVm, PauseDone
<1>9. CASE CreateDone(t)
  <2>1. TaskTypeOK'
    BY <1>9 DEF CreateDone, TaskTypeOK, ApiRequest, Requests
  <2> QED
    BY <1>9, <2>1 DEF CreateDone
<1>10. CASE ResumeDone(t)
  <2>1. TaskTypeOK'
    BY <1>10, TaskTypeMoves DEF ResumeDone
  <2>2. known' \in SUBSET Snaps
    BY <1>10 DEF ResumeDone, TaskTypeOK
  <2>3. cut' \in [Vms -> SUBSET {"cancelled", "refused"}]
    BY <1>10 DEF ResumeDone
  <2> QED
    BY <1>10, <2>1, <2>2, <2>3 DEF ResumeDone
<1>11. CASE Reaped(t)
  <2>1. TaskTypeOK'
    BY <1>0, <1>11, TaskTypeMoves DEF Reaped
  <2> QED
    BY <1>11, <2>1 DEF Reaped
<1>12. CASE Unlink(t)
  <2>1. TaskTypeOK'
    BY <1>0, <1>12, TaskTypeMoves DEF Unlink
  <2>2. sockFile' \in [Vms -> BOOLEAN]
    BY <1>12 DEF Unlink
  <2> QED
    BY <1>12, <2>1, <2>2 DEF Unlink
<1> QED
  BY <1>1, <1>2, <1>3, <1>4, <1>5, <1>6, <1>7, <1>8, <1>9, <1>10, <1>11, <1>12 DEF BackendRuns
=============================================================================
