--------------------------- MODULE FirecrackerVmm ---------------------------
(***************************************************************************)
(* The Firecracker processes that forge-executor drives, one per VM, and   *)
(* the HTTP client of unix_client.rs that talks to them over a Unix        *)
(* socket.  Firecracker itself is not part of the repository: its side is  *)
(* modelled from how firecracker.rs uses it.                               *)
(***************************************************************************)
EXTENDS Integers, FiniteSets

CONSTANTS
    Tasks,      \* concurrent async tasks calling the executor
    Vms,        \* VM identifiers, each drawn at most once (Uuid::new_v4)
    Snaps,      \* snapshot identifiers, each drawn at most once
    NoVm,       \* a task that works on no VM
    NoSnap      \* a task that works on no snapshot

ASSUME SentinelAssumption == NoVm \notin Vms /\ NoSnap \notin Snaps

VARIABLES
    proc,       \* life of the Firecracker child process of each VM
    sockFile,   \* does the API socket file of the VM exist; it outlives the process
    conf,       \* resources the process has been configured with
    machine,    \* the guest: not started, running or paused
    files,      \* the two snapshot files: absent, torn (half written) or whole
    stray,      \* requests whose future was dropped after they were sent
    vm,         \* VM each task works on
    snap,       \* snapshot each task works on
    req,        \* API request each task has issued
    wire        \* where that request is: in flight, answered, failed

fcVars == <<proc, sockFile, conf, machine, files, stray>>
clientVars == <<vm, snap, req, wire>>

Live == {"starting", "bound", "serving"}
ProcStates == Live \cup {"none", "dying", "dead"}
Resources == {"boot-source", "drives", "machine-config"}
Requests == Resources \cup {"InstanceStart", "pause", "create", "resume", "load"}
Strays == [vm : Vms, snap : Snaps \cup {NoSnap}, req : Requests]

VmmTypeOK ==
    /\ proc \in [Vms -> ProcStates]
    /\ sockFile \in [Vms -> BOOLEAN]
    /\ conf \in [Vms -> SUBSET Resources]
    /\ machine \in [Vms -> {"blank", "running", "paused"}]
    /\ files \in [Snaps -> {"absent", "torn", "whole"}]
    /\ stray \in SUBSET Strays
    /\ vm \in [Tasks -> Vms \cup {NoVm}]
    /\ snap \in [Tasks -> Snaps \cup {NoSnap}]
    /\ req \in [Tasks -> Requests \cup {"none"}]
    /\ wire \in [Tasks -> {"none", "sent", "ok", "err"}]

VmmInit ==
    /\ proc = [v \in Vms |-> "none"]
    /\ sockFile = [v \in Vms |-> FALSE]
    /\ conf = [v \in Vms |-> {}]
    /\ machine = [v \in Vms |-> "blank"]
    /\ files = [s \in Snaps |-> "absent"]
    /\ stray = {}
    /\ vm = [t \in Tasks |-> NoVm]
    /\ snap = [t \in Tasks |-> NoSnap]
    /\ req = [t \in Tasks |-> "none"]
    /\ wire = [t \in Tasks |-> "none"]

-----------------------------------------------------------------------------
(* unix_client.rs: one request on a fresh connection.  A socket file that  *)
(* exists while nobody listens behind it refuses the connection.           *)

Connects(v) == sockFile[v] /\ proc[v] = "serving"

ApiRequest(t, v, r) ==
    /\ req' = [req EXCEPT ![t] = r]
    /\ wire' = [wire EXCEPT ![t] = IF Connects(v) THEN "sent" ELSE "err"]

InFlight(t) == wire[t] = "sent"

-----------------------------------------------------------------------------
(* The Firecracker process.                                                *)

\* SIGKILL, from Child::kill or from kill_on_drop.
Killed(v) == [proc EXCEPT ![v] = IF @ \in Live THEN "dying" ELSE @]

\* bind(2) creates the socket file, listen(2) opens it for connections.
FcBind(v) ==
    /\ proc[v] = "starting"
    /\ proc' = [proc EXCEPT ![v] = "bound"]
    /\ sockFile' = [sockFile EXCEPT ![v] = TRUE]
    /\ UNCHANGED <<conf, machine, files, stray, clientVars>>

FcListen(v) ==
    /\ proc[v] = "bound"
    /\ proc' = [proc EXCEPT ![v] = "serving"]
    /\ UNCHANGED <<sockFile, conf, machine, files, stray, clientVars>>

\* Snapshots that the process of v may be writing right now.
Writing(v) ==
    IF machine[v] # "paused" THEN {}
    ELSE {s \in Snaps : files[s] = "absent"
            /\ \/ \E t \in Tasks : InFlight(t) /\ vm[t] = v /\ req[t] = "create" /\ snap[t] = s
               \/ \E m \in stray : m.vm = v /\ m.req = "create" /\ m.snap = s}

\* Every connection of a process that goes away is reset.
Dies(v) ==
    /\ proc' = [proc EXCEPT ![v] = "dead"]
    /\ wire' = [t \in Tasks |-> IF vm[t] = v /\ InFlight(t) THEN "err" ELSE wire[t]]
    /\ stray' = {m \in stray : m.vm # v}
    /\ \E torn \in SUBSET Writing(v) :
          files' = [s \in Snaps |-> IF s \in torn THEN "torn" ELSE files[s]]
    /\ UNCHANGED <<sockFile, conf, machine, vm, snap, req>>

\* The guest powers off, or Firecracker crashes.
FcExit(v) == proc[v] \in Live /\ Dies(v)

\* A killed process is gone once the kernel has delivered the signal.
OsReap(v) == proc[v] = "dying" /\ Dies(v)

-----------------------------------------------------------------------------
(* What a request does when Firecracker carries it out.                    *)

FcConfigure(v, r) ==
    /\ r \in Resources /\ machine[v] = "blank"
    /\ conf' = [conf EXCEPT ![v] = @ \cup {r}]
    /\ UNCHANGED <<machine, files>>

\* Only the kernel is mandatory for Firecracker; the rest has defaults.
FcInstanceStart(v, r) ==
    /\ r = "InstanceStart" /\ machine[v] = "blank" /\ "boot-source" \in conf[v]
    /\ machine' = [machine EXCEPT ![v] = "running"]
    /\ UNCHANGED <<conf, files>>

\* resume_vm is set, so the restored guest runs, configured as it was saved.
FcLoad(v, r, s) ==
    /\ r = "load" /\ machine[v] = "blank" /\ files[s] = "whole"
    /\ machine' = [machine EXCEPT ![v] = "running"]
    /\ conf' = [conf EXCEPT ![v] = Resources]
    /\ UNCHANGED files

FcPatch(v, r) ==
    /\ r \in {"pause", "resume"} /\ machine[v] # "blank"
    /\ machine' = [machine EXCEPT ![v] = IF r = "pause" THEN "paused" ELSE "running"]
    /\ UNCHANGED <<conf, files>>

FcCreate(v, r, s) ==
    /\ r = "create" /\ machine[v] = "paused"
    /\ files' = [files EXCEPT ![s] = "whole"]
    /\ UNCHANGED <<conf, machine>>

FcDoes(v, r, s) ==
    \/ FcConfigure(v, r)
    \/ FcInstanceStart(v, r)
    \/ FcLoad(v, r, s)
    \/ FcPatch(v, r)
    \/ FcCreate(v, r, s)

FcAnswer(t) ==
    /\ InFlight(t) /\ proc[vm[t]] = "serving"
    /\ FcDoes(vm[t], req[t], snap[t])
    /\ wire' = [wire EXCEPT ![t] = "ok"]
    /\ UNCHANGED <<proc, sockFile, stray, vm, snap, req>>

\* An error status: nothing happened, except that a failed snapshot may
\* have left half-written files behind.
FcRefuse(t) ==
    /\ InFlight(t) /\ proc[vm[t]] = "serving"
    /\ wire' = [wire EXCEPT ![t] = "err"]
    /\ \E torn \in SUBSET (Writing(vm[t]) \cap {snap[t]}) :
          files' = [s \in Snaps |-> IF s \in torn THEN "torn" ELSE files[s]]
    /\ UNCHANGED <<proc, sockFile, conf, machine, stray, vm, snap, req>>

\* The connection driver spawned by api_request outlives the future that
\* asked for it: a request already written is still carried out, or refused.
FcStray(m) ==
    /\ m \in stray /\ proc[m.vm] = "serving"
    /\ FcDoes(m.vm, m.req, m.snap) \/ UNCHANGED <<conf, machine, files>>
    /\ stray' = stray \ {m}
    /\ UNCHANGED <<proc, sockFile, clientVars>>

FcStep ==
    \/ \E v \in Vms : FcBind(v) \/ FcListen(v) \/ FcExit(v) \/ OsReap(v)
    \/ \E t \in Tasks : FcAnswer(t) \/ FcRefuse(t)
    \/ \E m \in stray : FcStray(m)
=============================================================================
