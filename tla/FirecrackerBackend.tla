------------------------- MODULE FirecrackerBackend -------------------------
(***************************************************************************)
(* The methods spawn, snapshot, restore and terminate of                   *)
(* forge-executor/src/firecracker.rs, and what execute_command has in      *)
(* common with them: one action for each stretch of code between two await *)
(* points.  Every method is an async fn and may be cancelled (its future   *)
(* dropped) at each of those points.                                       *)
(***************************************************************************)
EXTENDS FirecrackerVmm

CONSTANTS
    Foreign,    \* VMs whose handle comes from a backend of its own, not
                \* from the orchestrator it will be shown to
    MaxPolls    \* looks at the socket path before wait_for_socket gives up; 50 in the code

ASSUME BackendAssumption == Foreign \subseteq Vms /\ MaxPolls \in Nat \ {0}

VARIABLES
    call,       \* method each task is executing
    pc,         \* await point at which the task is suspended
    polls,      \* unsuccessful looks at the socket path so far
    owner,      \* who holds the Child (and so the VmHandle) of each VM
    known,      \* snapshot ids that some caller has been given
    cut         \* why a snapshot of the VM did not get to resume it

taskVars == <<call, pc, polls, vm, snap, req, wire>>
backendVars == <<call, pc, polls, owner, known, cut>>

Calls == {"spawn", "restore", "snapshot", "terminate", "execute"}
AwaitPoints == {"check", "mkdir", "wait", "api", "read", "reap", "unlink", "lock"}
Issuing == {"spawn", "restore"}             \* calls that return a handle
Creating == Issuing \cup {"execute"}         \* calls that start a VM

BackendTypeOK ==
    /\ call \in [Tasks -> Calls \cup {"none"}]
    /\ pc \in [Tasks -> AwaitPoints \cup {"idle"}]
    /\ polls \in [Tasks -> 0 .. MaxPolls]
    /\ owner \in [Vms -> {"none", "creating", "caller", "terminating", "ended", "dropped"}]
    /\ known \in SUBSET Snaps
    /\ cut \in [Vms -> SUBSET {"cancelled", "refused"}]

BackendInit ==
    /\ VmmInit
    /\ call = [t \in Tasks |-> "none"]
    /\ pc = [t \in Tasks |-> "idle"]
    /\ polls = [t \in Tasks |-> 0]
    /\ owner = [v \in Vms |-> "none"]
    /\ known = {}
    /\ cut = [v \in Vms |-> {}]

-----------------------------------------------------------------------------
Idle(t) == pc[t] = "idle"
At(t, m, p) == call[t] \in m /\ pc[t] = p

\* The reply task t was waiting for has arrived (or its connection failed).
Replied(t, r, w) == pc[t] = "api" /\ req[t] = r /\ wire[t] = w

\* A handle lent to a snapshot in progress; &VmHandle may be lent many times.
Lent(v) == \E t \in Tasks : call[t] = "snapshot" /\ vm[t] = v

Begin(t, m, v, s, p) ==
    /\ Idle(t)
    /\ call' = [call EXCEPT ![t] = m]
    /\ pc' = [pc EXCEPT ![t] = p]
    /\ vm' = [vm EXCEPT ![t] = v]
    /\ snap' = [snap EXCEPT ![t] = s]
    /\ UNCHANGED <<polls, req, wire>>

\* The call is over and its future is gone.
Return(t) ==
    /\ call' = [call EXCEPT ![t] = "none"]
    /\ pc' = [pc EXCEPT ![t] = "idle"]
    /\ polls' = [polls EXCEPT ![t] = 0]
    /\ vm' = [vm EXCEPT ![t] = NoVm]
    /\ snap' = [snap EXCEPT ![t] = NoSnap]
    /\ req' = [req EXCEPT ![t] = "none"]
    /\ wire' = [wire EXCEPT ![t] = "none"]

\* Suspend at the next await point of the same call.
Goto(t, p) ==
    /\ pc' = [pc EXCEPT ![t] = p]
    /\ UNCHANGED <<call, polls, vm, snap, req, wire>>

\* Issue API request r and wait for its reply.
Ask(t, r) ==
    /\ pc' = [pc EXCEPT ![t] = "api"]
    /\ ApiRequest(t, vm[t], r)
    /\ UNCHANGED <<call, polls, vm, snap>>

HandTo(v, who) == owner' = [owner EXCEPT ![v] = who]

\* Mutant: the command was built without kill_on_drop.
DropChildUnkilled(v) ==
    /\ HandTo(v, "dropped")
    /\ UNCHANGED fcVars

\* The Child of v is dropped: kill_on_drop(true) kills the process.
DropChild(v) ==
    /\ HandTo(v, "dropped")
    /\ proc' = Killed(v)
    /\ UNCHANGED <<sockFile, conf, machine, files, stray>>

-----------------------------------------------------------------------------
(* spawn, restore, and the part of execute_command up to the boot          *)

\* A missing /dev/kvm or binary makes spawn return before anything happens,
\* and missing files do the same to restore: no step of the model.
Spawn(t, v) ==
    /\ owner[v] = "none"
    /\ Begin(t, "spawn", v, NoSnap, "mkdir")
    /\ HandTo(v, "creating")
    /\ UNCHANGED <<fcVars, known, cut>>

Restore(t, v, s) ==
    /\ owner[v] = "none"
    /\ files[s] # "absent"
    /\ Begin(t, "restore", v, s, "mkdir")
    /\ HandTo(v, "creating")
    /\ UNCHANGED <<fcVars, known, cut>>

ExecVmm(t) ==
    /\ At(t, Creating, "mkdir")
    /\ proc' = [proc EXCEPT ![vm[t]] = "starting"]
    /\ Goto(t, "wait")
    /\ UNCHANGED <<sockFile, conf, machine, files, stray, owner, known, cut>>

\* Where the local `process` of a method goes out of scope, on an
\* error return as well as when the future is dropped.
GiveUp(t) ==
    /\ DropChild(vm[t])
    /\ Return(t)
    /\ UNCHANGED <<known, cut>>

\* create_dir_all or the exec of the binary fails.
SetupFails(t) == At(t, Creating, "mkdir") /\ GiveUp(t)

\* Mutant: a poll loop without an upper bound.
SocketMissingUnbounded(t) ==
    /\ At(t, Creating, "wait")
    /\ ~ sockFile[vm[t]]
    /\ polls' = [polls EXCEPT ![t] = @ + 1]
    /\ UNCHANGED <<fcVars, call, pc, vm, snap, req, wire, owner, known, cut>>

\* Mutant: the loop polls without counting.
SocketMissingUncounted(t) ==
    /\ At(t, Creating, "wait")
    /\ ~ sockFile[vm[t]]
    /\ UNCHANGED <<fcVars, taskVars, owner, known, cut>>

SocketMissing(t) ==
    /\ At(t, Creating, "wait") /\ polls[t] < MaxPolls
    /\ ~ sockFile[vm[t]]
    /\ polls' = [polls EXCEPT ![t] = @ + 1]
    /\ UNCHANGED <<fcVars, call, pc, vm, snap, req, wire, owner, known, cut>>

SocketAppears(t) ==
    /\ At(t, Creating, "wait") /\ polls[t] < MaxPolls
    /\ sockFile[vm[t]]
    /\ Ask(t, IF call[t] = "restore" THEN "load" ELSE "boot-source")
    /\ UNCHANGED <<fcVars, owner, known, cut>>

WaitExpired(t) ==
    /\ At(t, Creating, "wait") /\ polls[t] = MaxPolls
    /\ GiveUp(t)

\* Mutant: the machine configuration is forgotten.
NextConfigShort(r) ==
    CASE r = "boot-source" -> "drives"
      [] r = "drives" -> "InstanceStart"
      [] OTHER -> "none"

\* configure_and_boot: four requests, each sent when the one before succeeded.
NextConfig(r) ==
    CASE r = "boot-source" -> "drives"
      [] r = "drives" -> "machine-config"
      [] r = "machine-config" -> "InstanceStart"
      [] OTHER -> "none"

ConfigureNext(t) ==
    /\ At(t, {"spawn", "execute"}, "api") /\ wire[t] = "ok"
    /\ NextConfig(req[t]) # "none"
    /\ Ask(t, NextConfig(req[t]))
    /\ UNCHANGED <<fcVars, owner, known, cut>>

BootFails(t) ==
    /\ At(t, Creating, "api") /\ wire[t] = "err"
    /\ GiveUp(t)

\* The backend returns the handle.  The orchestrator's caller only gets it
\* once it is registered; a foreign one is in its caller's hands right away.
Booted(t) ==
    /\ call[t] \in Issuing
    /\ Replied(t, "InstanceStart", "ok") \/ Replied(t, "load", "ok")
    /\ IF vm[t] \in Foreign
       THEN HandTo(vm[t], "caller") /\ Return(t)
       ELSE UNCHANGED owner /\ Goto(t, "lock")
    /\ UNCHANGED <<fcVars, known, cut>>

CancelCreating(t) == call[t] \in Creating /\ GiveUp(t)

-----------------------------------------------------------------------------
(* snapshot                                                                *)

\* An identifier nothing refers to is as good as one never drawn.
Fresh(s) ==
    /\ files[s] = "absent"
    /\ \A t \in Tasks : snap[t] # s
    /\ \A m \in stray : m.snap # s

MkdirFails(t) ==
    /\ At(t, {"snapshot"}, "mkdir")
    /\ Return(t)
    /\ UNCHANGED <<fcVars, owner, known, cut>>

PauseVm(t) ==
    /\ At(t, {"snapshot"}, "mkdir")
    /\ Ask(t, "pause")
    /\ UNCHANGED <<fcVars, owner, known, cut>>

PauseFails(t) ==
    /\ Replied(t, "pause", "err")
    /\ Return(t)
    /\ UNCHANGED <<fcVars, owner, known, cut>>

PauseDone(t) ==
    /\ Replied(t, "pause", "ok")
    /\ Ask(t, "create")
    /\ UNCHANGED <<fcVars, owner, known, cut>>

\* Mutant: `?` on the create request, before the resume.
CreateDoneNoResume(t) ==
    /\ Replied(t, "create", wire[t]) /\ wire[t] \in {"ok", "err"}
    /\ IF wire[t] = "ok" THEN Ask(t, "resume") ELSE Return(t)
    /\ UNCHANGED <<fcVars, owner, known, cut>>

\* Mutant: the result of the create request is ignored.
CreateDoneUnchecked(t) ==
    /\ Replied(t, "create", wire[t]) /\ wire[t] \in {"ok", "err"}
    /\ Ask(t, "resume")
    /\ UNCHANGED <<fcVars, owner, known, cut>>

\* `result` is kept while the resume request runs: the identifier survives
\* in snap exactly when there is one to return.
CreateDone(t) ==
    /\ Replied(t, "create", wire[t]) /\ wire[t] \in {"ok", "err"}
    /\ snap' = [snap EXCEPT ![t] = IF wire[t] = "ok" THEN @ ELSE NoSnap]
    /\ ApiRequest(t, vm[t], "resume")
    /\ UNCHANGED <<fcVars, call, pc, polls, vm, owner, known, cut>>

\* The outcome of the resume is ignored.
ResumeDone(t) ==
    /\ Replied(t, "resume", wire[t]) /\ wire[t] \in {"ok", "err"}
    /\ known' = known \cup ({snap[t]} \ {NoSnap})
    /\ cut' = [cut EXCEPT ![vm[t]] = IF wire[t] = "err" THEN @ \cup {"refused"} ELSE @]
    /\ Return(t)
    /\ UNCHANGED <<fcVars, owner>>

\* Dropping the future at a request leaves the rest of the method undone.
\* The request itself may already be on its way.
CancelSnapshot(t) ==
    /\ call[t] = "snapshot"
    /\ Return(t)
    /\ stray' \in {stray} \cup
         (IF InFlight(t)
          THEN {stray \cup {[vm |-> vm[t], snap |-> snap[t], req |-> req[t]]}}
          ELSE {})
    /\ cut' = [cut EXCEPT ![vm[t]] = IF pc[t] = "api" THEN @ \cup {"cancelled"} ELSE @]
    /\ UNCHANGED <<proc, sockFile, conf, machine, files, owner, known>>

-----------------------------------------------------------------------------
(* terminate, and the handle's own end                                     *)

\* Child::kill: the signal is sent, then the exit is awaited.
KillVm(t) ==
    /\ proc' = Killed(vm[t])
    /\ Goto(t, "reap")
    /\ UNCHANGED <<sockFile, conf, machine, files, stray, owner, known, cut>>

\* Mutant: start_kill, without waiting for the exit.
ReapedUnwaited(t) ==
    /\ At(t, {"terminate"}, "reap")
    /\ Goto(t, "unlink")
    /\ UNCHANGED <<fcVars, owner, known, cut>>

Reaped(t) ==
    /\ At(t, {"terminate"}, "reap") /\ proc[vm[t]] = "dead"
    /\ Goto(t, "unlink")
    /\ UNCHANGED <<fcVars, owner, known, cut>>

\* kill().await? fails: the handle goes out of scope.
KillFails(t) == At(t, {"terminate"}, "reap") /\ GiveUp(t)

\* The error of remove_file is ignored.
Unlink(t) ==
    /\ At(t, {"terminate"}, "unlink")
    /\ sockFile' \in {sockFile, [sockFile EXCEPT ![vm[t]] = FALSE]}
    /\ Goto(t, "lock")
    /\ UNCHANGED <<proc, conf, machine, files, stray, owner, known, cut>>

CancelTerminate(t) == call[t] = "terminate" /\ GiveUp(t)

\* The caller lets go of the handle without terminating the VM.
DropHandle(v) ==
    /\ owner[v] = "caller" /\ ~ Lent(v)
    /\ DropChild(v)
    /\ UNCHANGED <<taskVars, known, cut>>

-----------------------------------------------------------------------------
\* Steps a task takes by itself once a method has been called.
BackendRuns(t) ==
    \/ ExecVmm(t) \/ SetupFails(t) \/ SocketMissing(t) \/ SocketAppears(t)
    \/ WaitExpired(t) \/ ConfigureNext(t) \/ BootFails(t) \/ Booted(t)
    \/ MkdirFails(t) \/ PauseVm(t) \/ PauseFails(t) \/ PauseDone(t)
    \/ CreateDone(t) \/ ResumeDone(t)
    \/ Reaped(t) \/ Unlink(t)

\* Steps that need not come: a call, a dropped future, a kill that fails.
BackendCalls(t) ==
    \/ \E v \in Vms : Spawn(t, v) \/ \E s \in Snaps : Restore(t, v, s)
    \/ CancelCreating(t) \/ CancelSnapshot(t) \/ CancelTerminate(t) \/ KillFails(t)

\* Firecracker's steps do not touch the executor's own state.
VmmRuns == FcStep /\ UNCHANGED backendVars
=============================================================================
