# TLA+ verification of Apeiron

Apeiron ("forge") runs blocks of work in Firecracker microVMs.  This directory
models the parts of it that have behaviour over time, checks them with TLC on
small instances and proves the main results with TLAPS for instances of any
size.  Paths below are relative to the repository.

## The system

| Part | State | Operations | Hard because |
|---|---|---|---|
| `forge-executor/src/orchestrator.rs` `VmOrchestrator` | `active_vms`, a set behind an async mutex | spawn, snapshot, restore, terminate, active_count | the lock is released before the backend is awaited; every future may be dropped |
| `forge-executor/src/firecracker.rs` `FirecrackerBackend` | none of its own: child processes, socket files, snapshot files, the `Child` inside each `VmHandle` | spawn, snapshot, restore, terminate, execute_command, health_check | up to seven awaits per method, each may fail, be cancelled or race |
| `forge-executor/src/unix_client.rs` `api_request` | one connection per request, driven by a task of its own | request/response | a request that was sent outlives its sender; there is no timeout |
| Firecracker (external) | process, socket, configuration, guest state, snapshot files | HTTP API | starts slowly, refuses, crashes, powers off |
| `forge-executor/src/runner.rs` `BlockRunner` | none | execute, build_command, compute_hash | turns whatever the console held into a record |
| console parsing in `firecracker.rs` | none | parse_execution_output and helpers | the console may stop anywhere, and the kernel prints to it too |
| root file system image | one file per configuration, attached to every VM | boot, guest writes | shared by concurrent and successive guests |
| `forge-gateway` pool and routes | `SandboxPool`, a map behind a lock; one child per command | create, destroy, shell, execute, health | handlers run in parallel and are dropped, or their replies lost, when a client hangs up |
| `forge-core` | values only | constructors, formatting | - |
| `forge-auditor`, `forge-nix` | empty crates | - | - |

The orchestrator calls the backend; the backend calls `api_request` and starts
and kills processes; `BlockRunner` calls `execute_command` of the same backend.
The gateway does not use the executor yet: it starts `sh`, `node` and
`python3` on the host.

What makes each part correct:

* backend and orchestrator: no process without a holder; the registry agrees
  with the handles in circulation; a guest runs only when configured and does
  not stay paused; an identifier returned stands for complete files; calls end;
* console and runner: what is recorded is what was printed, all of it, or
  recognisably something else; a run leaves no VM behind and ends;
* checks before a start: health_check, spawn and execute_command agree on
  whether the host is ready;
* gateway: one winner per destruction; nothing accepted after it, nothing
  refused before it; truthful replies; every request settled.

## Modules

    FirecrackerVmm            the external process and api_request
      FirecrackerBackend      the backend's methods, await point by await point
        FirecrackerBackendProofs  lemmas about the backend's steps
        VmOrchestrator        the registry on top; properties; refines VmRegistry
          MCVmOrchestrator    instances; statements of the repository's comments
          VmOrchestratorProofs  processes, handles, registry, snapshots; refinement
            GuestStateProofs  what a guest is configured with, who has it paused
        BlockExecution        execute_command and BlockRunner (with SerialConsole);
                              refines BlockRun
          MCBlockExecution
          BlockExecutionProofs  executions and their records; refinement
                              (with FirecrackerBackendProofs, SerialConsoleProofs)
          RootImage           the image that all guests of a runner write to
    BlockRun                  abstract specification of a block execution
    BackendPreflight          the checks before a process is started
      MCBackendPreflight
      BackendPreflightProofs
    SerialConsole             init script, parser and hash, as operators
      SerialConsoleProofs     what the parser makes of a console
      GuestConsole            a guest and a kernel that print to a console
        MCSerialConsole
        GuestConsoleProofs    what is made of it (with SerialConsoleProofs)
    VmRegistry                abstract specification of the orchestrator
    SandboxGateway            pool and handlers
      MCSandboxGateway
      SandboxGatewayProofs

Definitions whose comment begins with "Mutant:" are faulty versions of the
definition that follows; no specification uses them.  They exist to show that
each property notices the fault.

### FirecrackerVmm

One process per VM: `proc` goes none, starting (exec), bound (socket file
exists), serving (listening), dying (SIGKILL sent), dead.  `sockFile` outlives
the process.  `conf` and `machine` are the VM's configuration and guest state,
`files` the pair of snapshot files.  A task has at most one request, `req`, with
`wire` telling where it is: sent, ok, err.  `stray` holds requests whose future
was dropped after they had been sent: the connection task of `api_request`
still drives them.  All `Fc*` actions, and the delivery of SIGKILL, are
external.  Firecracker is assumed to demand a kernel before InstanceStart, a
paused VM for a snapshot, complete files for a load, and nothing else; it may
refuse or crash at any time, and may leave half-written files when it does.

### FirecrackerBackend

`call[t]` is the method a task is in and `pc[t]` the await at which it is
suspended; an action is the code from one await to the next.

| Code | Actions |
|---|---|
| `spawn`, `restore` up to the first await | `Spawn`, `Restore` |
| create_dir_all, exec | `ExecVmm`, `SetupFails` |
| `wait_for_socket` | `SocketMissing`, `SocketAppears`, `WaitExpired` |
| `configure_and_boot`, `/snapshot/load` | `ConfigureNext`, `BootFails`, `Booted` |
| `snapshot` | `MkdirFails`, `PauseVm`, `PauseFails`, `PauseDone`, `CreateDone`, `ResumeDone` |
| `terminate` | `KillVm`, `Reaped`, `KillFails`, `Unlink` |
| a dropped future | `CancelCreating`, `CancelSnapshot`, `CancelTerminate` |
| a dropped handle | `DropHandle` |

`owner[v]` says who holds the `Child` of v.  The `Child` is a local variable of
spawn and restore, so every `?` after the exec and every dropped future end in
`GiveUp`, which drops it; with `kill_on_drop(true)` that is a SIGKILL
(`DropChild`).  Rust's ownership gives two guards: snapshot borrows the handle,
so any number of snapshots may run on one VM (`Lent`), while terminate and
dropping need it unborrowed.

`known` (identifiers that were returned) and `cut` (VMs with a snapshot that
was cancelled, or whose resume failed) are history variables.

Left out: the checks for `/dev/kvm` and the binary at the head of spawn and
execute_command, which return before anything has happened and have a module of
their own (BackendPreflight), and restore's for the snapshot files; tracing; the
contents of requests; timestamps.

### BackendPreflight

One action per look at the host (`LookForKvm`, `KvmMetadata`, `LookAtGiven`,
`WhichBinary`, `ExecVmm`), with `HostChanges` between any two.  What tells the
calls apart is where they look: `GivenPlaces` is `Path::exists`, `WhichPlaces`
is `which_binary`, `ExecPlaces` what `Command::spawn` finds, for an absolute
path, a bare name and a relative path with a slash, and for a PATH with and
without an empty entry and for none at all (`unwrap_or_default` turns the last
into the working directory).  `version`, `began`, `ended` and `kept` are history
variables that say which calls saw the same host.  A file that is found is
taken to be executable.

### VmOrchestrator

Adds `active`.  `Found`/`NotFound` are the lookup, `Register` and `Unregister`
the insertions and the removal; each is one acquisition of the mutex.
`Foreign` are VMs whose handle was made by a backend used directly, which the
type system allows to be passed to the orchestrator.  They go through the same
`Spawn` and `Restore` but are handed to their caller without being registered.

`VmRegistry` is what the callers see: handles, entries and running VMs.  A
handle and its entry come into being in one step although the code takes
several awaits to get there; a VM is retired from the registry only when it has
stopped; a handle lost in any other way stops the VM and leaves the entry.
The mapping: `handle` from `owner` (`HandleOf`), `registered` is `active`,
`running` are the VMs whose process is alive and not killed.

### SerialConsole and GuestConsole

The console is a sequence of tokens (marker, line end, base64 group, digit,
noise, a torn piece of one).  `InitScript` is what the boot arguments make the guest print,
`ExtractB64Section`, `ExtractExitCode` and `ParseExecutionOutput` are the
parser with its `windows().position()` searches (`Position`), its filtering of
line ends (`StripLineEnds`), its number up to the end of the line (`NumberAt`)
and its fallback.  An `Option` is a set with at most one element.  SHA-256 is
taken to be injective, so `ComputeHash` is the concatenation it is fed.

The guest's kernel prints to the same console (`Messages`).  A message may come
at any time, also inside a marker or group (`Divisible`) or behind the script,
and may begin or end with a line end.  It is assumed to hold a character that is
not base64 (a space or a bracket will do); a message made of base64 letters
alone and printed inside a section would be decoded with it.  Line ends are not
torn.

In `GuestConsole` a guest prints any stdout, stderr and exit code token by token
(`GuestPrints`), with kernel messages in between (`KernelPrints`); each state is
a console at which the VM may have stopped, in the middle of a marker or group
too (`StopsHalfway`, `Torn`).  The history variable `at` tells which tokens of
the console are the script's; no action looks at it.

### BlockExecution

`Execute` begins a run; boot is shared with spawn (`Boots`, `StartFails`).
Then `ReadConsole`, and a race between `ConsoleClosed` (the pipe ends because
the process is gone), `Timeout`, `ReadFails` and `CancelExecute`.  `RecordRun`
is everything from `remove_file` to the `ExecutionRecord`: it contains no
other await.

Each VM has a console with both its writers, as in `GuestConsole`: the guest
prints what is `left` of its script token by token (`GuestPrints`), may stop at
any point for ever, in the middle of a token too (`StopsHalfway`), and may go
away at any point (`FcExit`); its kernel may break in at any point
(`KernelPrints`).  `at` is the history variable of GuestConsole, per VM, and
`noises` counts the messages on all consoles.

`ConsoleClosed` stands for two awaits: read_to_end, inside the timeout, and
`process.wait()` (line 385), which has none.  It is assumed that Firecracker
keeps its stdout open until it exits and hands it to nobody, so that the pipe
ends when the process does and wait has nothing to wait for.  A Firecracker
that closed its stdout and lived on would block execute at that line.

`BlockRun` is what the caller sees: a run is given a block, its VM is switched
on and off, and it ends once, with a record, an error or a drop.  Only a VM that
is off has a record made of it, and the record's digest is that of all it
printed; an error or a drop switches the VM off in the same step.  While the VM
is on its console may grow, by anything, and nothing already on it changes.  The mapping:
`Power` from `proc` (a process that has been sent SIGKILL counts as off),
`Verdict` from `results`.

`RootImage` adds to BlockExecution which guests have written to the image file
and what each guest found in it at its boot.

### SandboxGateway

`PoolCreate`, `PoolContains` and `PoolRemove` are atomic (one lock each).
A request arrives (`Arrives`), its handler runs, and its reply is delivered
(`Deliver`), with other requests in between.  create and destroy have no await
and are one action.  shell and execute consult the pool (`LookUp`) and then await
`output()`, which starts a process (`StartChild`) and completes (`Respond`) when
two things have happened in either order: the process has ended (`ChildEnds`),
and both its pipes have (`PipesEnd`).  A command may leave something behind that
holds them open (`sh -c 'sleep infinity &'`).  `output()` may fail for want of a
process (`StartFails`) or later, waiting or reading (`OutputFails`); the handlers
answer both with 400.  `HangUp` is the client going away: before the handler
runs, while its command runs (the child is not killed), or before the reply has
been sent, which is then lost.  `heard` is what clients know of a sandbox, and
`told` what they knew when a request arrived; a client may name an identifier
before it was told of it.  A request id is used once.

## Runs

| Run | Checks | Instance | States, time |
|---|---|---|---|
| `orchestrator_safety` | type, no orphans, registration, configuration, snapshots, pausing, termination, order of the socket's removal | 2 tasks, 2 VMs, 2 snapshots, 1 poll | 1.1 M, 2 min |
| `orchestrator_liveness` | refinement of VmRegistry, a VM from elsewhere is refused, every call returns, VMs whose call fails or is dropped die | 2 tasks, 1+1 VMs, 1 snapshot, 1 poll | 130 k, 2 min |
| `console` | parser against what was printed | stdout of up to 2 groups, stderr of 1, over 2 letters, codes 0 and 127, 2 kernel messages | 1.0 M, 30 s |
| `execution_safety` | nothing left running, records tell the run and are final, refinement of BlockRun | 2 tasks, 2 VMs, 2 blocks, no kernel messages | 200 k, 40 s |
| `execution_liveness` | records tell the run and refinement of BlockRun on a disturbed console; executions return, their VMs die | 1 task, 1 VM, 2 polls, 2 kernel messages | 250 k, 2 min |
| `gateway` | one destroy wins, late requests refused, others not, replies truthful, requests settled | 3 requests, 2 sandboxes, a supported and an unsupported runtime | 610 k, 3 min |
| `preflight` | health_check agrees with spawn and execute_command, spawn refuses nothing startable | 2 calls, 2 changes of the host, all forms of path and PATH | 440 k, 10 s |

Bounds.  Identifiers (VMs, snapshots, requests, sandboxes) are used at most
once, as UUIDs are; an instance stops when they are used up, which is why
deadlock is not checked.  Two tasks are enough for every overlap of two calls,
which is what the races are made of: no action looks at more than one other
task.  Two VMs and two snapshots allow a restore beside the VM it was taken
from and two snapshots of one VM.  `MaxPolls` is 50 in the code; 1 or 2 already
gives a poll before, at and after the moment the socket appears.  Three
requests are a creation, a destruction and whatever runs beside them; the
gateway's `node` and `python` are treated alike, so one of them is enough.  Two
changes of the host let a file move between two looks.  Two groups
are enough for a line end between groups and for streams that differ in length
and order.  Two kernel messages can fall into both sections, or into one token
and behind another.  Executions share no console, so concurrent ones are checked
without messages and messages with one execution; the theorems cover both
together.  Symmetry is used for interchangeable identifiers
in runs without liveness.

Fairness.  Weak fairness of a task's own steps is what the tokio runtime gives
to a future that has been woken; of `OsReap`, that the kernel delivers SIGKILL;
of `Timeout`, that timers fire.  Of Firecracker it is assumed only that a
process that lives answers a request, with success or failure; the code has no
timeout for that, and `claim_bound` shows what happens without the assumption.
Nothing is assumed of starting up (binding the socket) or of the guest.  In the
gateway the handlers and the delivery of replies are fair; commands, what holds
their pipes open, errors of `output()` and clients are not.  RequestsSettle
therefore exempts a command that runs for ever and output that stays open for ever.
Starting or cancelling a call, dropping a handle, and errors of the operating
system that no other step competes with (`KillFails`, `ReadFails`) are never
fair.

### Where the code and its comments disagree

Each of these runs checks one sentence of the repository and fails; the
counterexample is a behaviour of the code.

| Run | Sentence | Behaviour found |
|---|---|---|
| `claim_cancel` | `backend.rs:28`: methods are cancel safe | snapshot dropped after its pause: VM paused for good |
| `claim_race` | `orchestrator.rs:16`: safe to call concurrently | a second snapshot finds the VM resumed by the first, and fails |
| `claim_hash` | `README.md:69`: same block, same hash | a truncated console is hashed and recorded as a success |
| `claim_disk` | `THREAT_MODEL.md:64`: the VM's disk is ephemeral | a guest boots from an image that another has written to |
| `claim_bound` | `runner.rs:20`: 30 seconds per VM run | a request without an answer blocks for ever |

Smaller disagreements, visible in the models but without a run of their own:

* `handle.rs:10` says that dropping a handle does not terminate the VM;
  `DropHandle` kills the process, as the command is built with `kill_on_drop`.
  NoOrphanVm counts on the kill; LostVmsDie is about calls that fail or are
  dropped and says nothing of a handle dropped by its caller;
* `firecracker.rs:301` says "Check KVM is readable" and line 303 suggests
  "permission denied?"; `metadata()` only stats the file, so a `/dev/kvm` that
  exists and cannot be opened passes (`KvmMetadata`);
* `routes.rs:127` and `:149`, and the messages at lines 174 and 200, say of the 400
  that the process cannot be spawned; `output()` may also fail when it has been
  (`OutputFails`);
* `orchestrator.rs:76` calls active_count the number of currently active VMs;
  an entry leaves the registry only by a terminate that returns Ok, so those of
  VMs whose handle was dropped remain (`Unregister`);
* `firecracker.rs:397` says that which_binary accepts a binary "either at the
  given path or in PATH"; a relative path is looked up in PATH only
  (`WhichPlaces`), so that health_check and execute_command refuse one that
  spawn starts, and accept one that exec then does not find;
* `backend.rs:19` calls exit_code the one "returned by the guest command"; a
  console that ends, or a kernel line that begins, inside its digits gives another number
  (`ExtractExitCode`; StreamsWholeOrRaw states the exception);
* `runner.rs:197` says that swapping two different streams must change the
  hash; streams that commute under concatenation, `a` and `aa`, do not
  (`ComputeHash`);
* `execution.rs:79` says "Completed successfully." of a status that
  `RecordRun` gives to every exit code;
* `backend.rs:74` announces `Io` for a timeout; `Timeout` returns `SpawnFailed`;
* `routes.rs:144` says that code runs "in the sandbox runtime"; `StartChild`
  takes the runtime of the request, and the pool's is never read.

## Proofs

Every safety invariant, action property and refinement that the runs check on
small instances has a theorem for instances of any size.

| Module | Theorems and the properties they state |
|---|---|
| `VmOrchestratorProofs` | `TypeCorrect`; `NoOrphans` (NoOrphanVm), `HeldIsRegistered` (HeldHandleRegistered), `EndedStaysGone` (EndedIsGone), `SnapshotsComplete` (ReturnedSnapshotComplete), `SocketOutlivesProcess` (the action property SocketRemovedOnlyAfterDeath); `Refinement` of VmRegistry |
| `GuestStateProofs` | `BootIsComplete` (BootedFullyConfigured), `PausesAreTemporary` (PausedIsAccounted), `ForeignUntouched` (ForeignVmNeverPaused) |
| `SerialConsoleProofs` | `AllOrNothing`, `TruncatedConsole` and `NoisyConsole`, about the operators of the parser; lemmas on how a console grows |
| `GuestConsoleProofs` | `StreamsComplete` (StreamsWholeOrRaw), `CleanRuns` (CleanRunUnderstood) |
| `BlockExecutionProofs` | `ParsedConsole`, about the consoles of blocks; `TypeCorrect`; `NoProcessLeft` (NothingLeftRunning), `RecordsTellTheirRun` (RecordTellsTheRun), `FinalRecords` (the action property RecordsAreFinal); `Refinement` of BlockRun |
| `BackendPreflightProofs` | `TypeCorrect`; `HealthCheckHonest` (HealthAgrees), `NothingRefused` (SpawnRefusesNothingStartable) |
| `SandboxGatewayProofs` | `TypeCorrect`; `OneDestruction` (OneDestroyWins), `LateRequests` (LateRequestsRefused), `RefusalsJustified` (RefusedOnlyIfDestroyed), `TruthfulReplies` (RepliesTellTheOutcome) |

`FirecrackerBackendProofs` holds lemmas that both users of the backend need:
what a step of Firecracker may change, and that the backend's steps keep the
types.

Assumptions, each named in the module that declares the constants and evaluated
by TLC on the runs of that module: `NoVm`, `NoSnap`, `NoId` and `Nothing` stand for the
absence of an identifier or a block and are none themselves; `Foreign` is a
subset of the VMs; `MaxPolls` is a positive number (50 in the code) and
`MaxChanges` and, in `BlockExecution`, `MaxNoise` natural ones; the gateway's
supported runtimes are runtime names and none of them is called `"none"`; an exit code is written with at least one
digit, and `MaxOut` and `MaxErr` are natural numbers.  Nothing is assumed to be
finite.

### Orchestrator

None of the properties is inductive alone.  That a process has a holder depends
on the holder's call being in progress, so on which call each task is in; that
depends on two calls never working on one VM unless both are snapshots; and that
on the handle being owned by one of them.  The inductive invariant `IInv` states
this agreement layer by layer, each proved from the ones before:

1. `TypeOK`;
2. `TaskInv`: a task is idle or at an await of its method, with that method's
   requests;
3. `OwnerInv`: who holds each `Child` agrees with the calls in progress, and
   only snapshots share a VM;
4. `ProcInv`: processes agree with their holders (given up means killed,
   waited for means dead);
5. `RegistryInv`: the registry agrees with the handles issued.

Layer 3 rests on the lemma `Shapes`: to the question who holds what, every
step either changes nothing, ends a call, begins one, or drops a handle.
`SnapshotsComplete` adds `SnapInv` (an identifier on its way to being returned
has its files) and two lemmas, that only Firecracker writes snapshot files and
that no step damages complete ones.  The refinement proof shows how each
assignment to `owner`, `proc` and `active` appears in the abstract state
(`MappedSteps`), and then names the abstract action of every concrete one.

`GuestStateProofs` goes on from `IInv` with the requests.  Its invariant
`GuestInv` adds that a request is under way only while its task waits for it
(`WireInv`), that only snapshot leaves requests behind, on VMs it has marked as
cut short (`StrayInv`), that there is no guest before Firecracker serves
(`BlankInv`), and that how far `configure_and_boot` has come is what the process
has been told (`ConfInv`).  `ExecutorMoves` reduces the executor's steps to four
kinds (a task suspends, issues a request, leaves, enters), `VmmMoves` and
`Effects` do so for Firecracker's.  For pausing the point is that two snapshots
may resume each other's VM: a guest that is paused still has a call that owes it
a resume, because the call whose pause was carried out last has not had a resume
answered since.

### Console and executions

`windows().position()` is a search for a first occurrence; what it finds on a
console of unknown length cannot be had by induction over the console, which is
out of the prover's reach.  The lemmas `FirstToken` and `FirstTwo` give it
instead from an occurrence before which the tokens differ, and `OnePosition`
that there is never a second.  `AllOrNothing` is then true of every console
whatever: both streams and the exit code, each readable in one way only, or the
console as it is.

The other two theorems are about streams and exit codes of any length, and three
things stand in for the induction.  `Layout` says at which place of the script
each token stands, as a function of the lengths of the streams, so nothing is
followed from one token to the next (`ScriptLayout`, and `ScriptSections` for
the places of the two sections and of the code).  `StripInOrder` says what is
left of a section without its line ends: an increasing sequence of positions has
as many members as there are groups, so counting them by cardinality
(`ImageOfInterval`, `Contiguous`) tells which group each is.  And `Carries` says
that a console holds tokens of a script at positions `at`, in order, each whole
or torn, and that everything else on it is the kernel's (`KernelToken`: noise, a
line end next to noise, or the second half of a torn token).  How a
console came to carry its script is then an induction over the steps of
`GuestConsole` and `BlockExecution`, of the usual kind, with `at` as the witness.

* `TruncatedConsole`: a console that stops within the script, without kernel
  messages, gives both streams and the digits of the code so far once it ends
  behind one of them (`SectionFound`, `DigitsRead`), and the raw console before
  that.
* `NoisyConsole`: on a console that carries a script, what lies between two
  markers that the parser finds is the whole stream or is not base64
  (`SectionIsStream`: a torn group or a message inside it makes `Decode` fail, a
  torn marker is not found), and the digits behind the last marker are those of
  the code unless they are cut (`CodeIsPrinted`).

The invariant of both is `Printing`: the console carries the script, and what the
guest still has to print follows what it has printed (`Follows`).  In
`SerialConsoleProofs` one lemma shows that a kernel message preserves it
(`CarriesMessage`) and one that the next token does, whole, torn or broken by a
message (`CarriesToken`, `TakesToken`).  In `GuestConsoleProofs` it is the
inductive invariant, `ConsoleInv`; `StreamsComplete` is then `NoisyConsole`, and
`CleanRuns` is `TruncatedConsole` at the script's full length.  In
`BlockExecutionProofs` it holds of every VM (`PrintInv`, kept by `PrintStep`).

`ParsedConsole` is about every console that carries `BuildCommand(b)`, with any
messages.  One direction is `NoisyConsole`: what is understood is the block's
output, and the console got as far as the digit of the code; the code is one
digit, so it cannot be cut.  The other is that a console without noise and torn
tokens is a prefix of the script (`CleanConsole`), so that `TruncatedConsole`
applies: only a script that is unfinished or broken into falls back.
`RecordsTellTheirRun` follows from it and `PrintInv` once it is known that a
record was made of the console of its own VM.

That is the last layer, `RunInv`, of the invariant of `BlockExecutionProofs`: a
VM was never asked for, or its call is running, or its `Child` was dropped and
it has an error, or it is dead and its result is the record of its console.  It
needs that a VM belongs to one call at a time and that its process is dead by
the time the record is made (`CallInv`).  The steps of a call are reduced to
three: it moves to the next await (`Advances`), it errs (`Errs`) or it makes its
record.  The refinement uses the same kinds: the first is PowerOn or a stutter,
the second EndWithout, the third MakeRecord; a guest or a kernel that prints is
Prints, a process that goes away PowerOff.

### Checks before a start, gateway

HealthAgrees compares two calls that may be arbitrarily far apart in time, which
`version` says saw the same host.  `SeenInv` is what makes it inductive: while
the host is as it was when a call began, what the call has seen and returned is
true of the host; so when the second call returns, both are compared with the
host and not with each other.  SpawnRefusesNothingStartable has to survive a
host that does change, and is carried by `SpawnInv`: the places that `kept`
speaks of have not been given up since the call began.

The gateway's properties relate requests to each other through the pool.
`PoolInv` says how: every identifier drawn has exactly one creation to its name,
and its entry is gone exactly if one destruction has been answered 204.
OneDestroyWins compares cardinalities, which follow from the uniqueness.
`KnowledgeInv` says that what clients know of a sandbox is true of the pool and
stays true for the requests made with that knowledge, which is the content of
LateRequestsRefused and RefusedOnlyIfDestroyed.  RepliesTellTheOutcome needs that
a process exists only for a request that was accepted with a runtime that can be
run, and that a handler which has sent a result has read its pipes to the end.

### Only model-checked

Everything under fairness, which is out of the prover's reach: EveryCallReturns,
LostVmsDie, EveryExecutionReturns, FinishedVmsDie, RequestsSettle.  The five
runs on sentences of the repository show counterexamples and have nothing to
prove.

## Not modelled

* The data types of `forge-core`: identifiers, manifests, trust scores and their
  formatting are values without behaviour over time; they appear as model
  values.  Serialisation, the gateway's request decoding and `GET /health`.
* Contents of disks, and the image under VMs started by spawn and restore.
* Shell quoting inside the boot arguments, and their length limit.
* The death of the process that holds the handles: `kill_on_drop` does nothing
  then, no state is kept from which a new process could find the VMs, and the
  code does not try.
* `forge-auditor` and `forge-nix`, which are empty, and the fuzz targets.

## Plan

Done: the modules above, in this order: process and client, backend,
orchestrator with its abstract specification and proofs, console, execution
with its abstract specification, gateway, the checks before a start, the shared
image; then the proofs of the orchestrator's guests, the gateway, the checks,
the executions and the console.  What is left to model is under "Not modelled".

Next: `ForeignVmNeverPaused` and `NoOrphanVm` for a backend used without an
orchestrator; the shared image under VMs started by spawn and restore.
