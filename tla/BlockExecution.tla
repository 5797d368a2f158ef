--------------------------- MODULE BlockExecution ---------------------------
(***************************************************************************)
(* BlockRunner::execute (runner.rs) over execute_command (firecracker.rs): *)
(* a block's command becomes the init process of a VM of its own, its      *)
(* console is read until the VM is gone or the timeout fires, and the      *)
(* outcome is written into an ExecutionRecord.  The way up to the boot is  *)
(* that of FirecrackerBackend.                                             *)
(***************************************************************************)
EXTENDS FirecrackerBackend, SerialConsole

CONSTANTS
    Blocks,     \* block names; block b runs `echo 'b'`
    MaxNoise    \* most kernel messages, over all consoles

VARIABLES
    block,      \* block whose command the VM was given; Nothing before that
    console,    \* what is on each console, in the pipe or already read
    left,       \* what the guest of each VM still has to print
    at,         \* history: where on the console each token of the script begins
    noises,     \* kernel messages so far
    results     \* what each finished execute has returned, by VM

consoleVars == <<console, left, at, noises>>
execVars == <<block, consoleVars, results>>
vars == <<fcVars, clientVars, backendVars, execVars>>

Nothing == "nothing"

ASSUME ExecutionAssumption == Nothing \notin Blocks /\ MaxNoise \in Nat

\* build_command: the command prints its name and exits with 0.
Echoed(b) == <<Text(b)>>
BuildCommand(b) == InitScript(Echoed(b), <<>>, <<"0">>)

\* The tokens on the console of a block.
BlockTokens(b) == Tokens({b, "0"})

TypeOK ==
    /\ VmmTypeOK /\ BackendTypeOK
    /\ block \in [Vms -> Blocks \cup {Nothing}]
    /\ \A v \in Vms :
          console[v] \in Seq(BlockTokens(block[v])) /\ left[v] \in Seq(BlockTokens(block[v]))
    /\ noises \in 0 .. MaxNoise
    /\ \A v \in Vms : results[v].status \in {"none", "Succeeded", "SpawnFailed", "Io", "dropped"}

NoResult == [status |-> "none", cause |-> "none", outputHash |-> <<>>, exitCode |-> <<>>]
Failed(error, cause) == [NoResult EXCEPT !.status = error, !.cause = cause]

Init ==
    /\ BackendInit
    /\ block = [v \in Vms |-> Nothing]
    /\ console = [v \in Vms |-> <<>>]
    /\ left = [v \in Vms |-> <<>>]
    /\ at = [v \in Vms |-> <<>>]
    /\ noises = 0
    /\ results = [v \in Vms |-> NoResult]

-----------------------------------------------------------------------------
\* The configuration is cloned with boot_args that carry the command.
Execute(t, v, b) ==
    /\ owner[v] = "none"
    /\ Begin(t, "execute", v, NoSnap, "mkdir")
    /\ HandTo(v, "creating")
    /\ block' = [block EXCEPT ![v] = b]
    /\ left' = [left EXCEPT ![v] = BuildCommand(b)]
    /\ UNCHANGED <<fcVars, known, cut, console, at, noises, results>>

\* Steps shared with spawn.
Boots(t) ==
    /\ call[t] = "execute"
    /\ ExecVmm(t) \/ SocketMissing(t) \/ SocketAppears(t) \/ ConfigureNext(t)
    /\ UNCHANGED execVars

\* Every `?` up to the boot, as the error the caller sees.
StartFails(t) ==
    /\ call[t] = "execute"
    /\ \/ /\ SetupFails(t)
          /\ \E error \in {"Io", "SpawnFailed"} :
                results' = [results EXCEPT ![vm[t]] = Failed(error, "start")]
       \/ /\ WaitExpired(t) \/ BootFails(t)
          /\ results' = [results EXCEPT ![vm[t]] = Failed("SpawnFailed", "start")]
    /\ UNCHANGED <<block, consoleVars>>

ReadConsole(t) ==
    /\ call[t] = "execute" /\ Replied(t, "InstanceStart", "ok")
    /\ Goto(t, "read")
    /\ UNCHANGED <<fcVars, owner, known, cut, execVars>>

\* A VM that runs prints to its console: the guest its script, which may hang
\* or stop at any point, and the kernel its messages.  FcExit covers the
\* power-off at the end as well as a crash.
Prints(v, tokens) ==
    /\ proc[v] = "serving" /\ machine[v] = "running" /\ block[v] # Nothing
    /\ console' = [console EXCEPT ![v] = @ \o tokens]
    /\ UNCHANGED <<fcVars, clientVars, backendVars, block, results>>

\* The next token of the script, whole or torn, begins here; then comes the
\* rest.
Takes(v, rest) ==
    /\ left[v] # <<>>
    /\ at' = [at EXCEPT ![v] = Append(@, Len(console[v]) + 1)]
    /\ left' = [left EXCEPT ![v] = rest]

Breakable(v) == left[v] # <<>> /\ Divisible(Head(left[v]))

GuestPrints(v) ==
    Takes(v, Tail(left[v])) /\ Prints(v, <<Head(left[v])>>) /\ UNCHANGED noises

\* The guest is stopped in the middle of a token.
StopsHalfway(v) ==
    Breakable(v) /\ Takes(v, <<>>) /\ Prints(v, <<Torn>>) /\ UNCHANGED noises

KernelPrints(v) ==
    /\ noises < MaxNoise /\ noises' = noises + 1
    /\ \E m \in Messages :
          \/ Prints(v, m) /\ UNCHANGED <<left, at>>
          \/ Breakable(v) /\ Takes(v, Tail(left[v])) /\ Prints(v, <<Torn>> \o m \o <<Torn>>)

\* Mutant: reading stops at the end of the script.
ConsoleClosedEarly(t) ==
    /\ At(t, {"execute"}, "read")
    /\ proc[vm[t]] = "dead" \/ left[vm[t]] = <<>>
    /\ Goto(t, "unlink")
    /\ UNCHANGED <<fcVars, owner, known, cut, execVars>>

\* read_to_end, then wait(), which has no timeout.  Firecracker is taken to
\* keep its stdout open until it exits, so that the pipe ends when the
\* process is gone and wait() has nothing left to wait for: one step.
ConsoleClosed(t) ==
    /\ At(t, {"execute"}, "read") /\ proc[vm[t]] = "dead"
    /\ Goto(t, "unlink")
    /\ UNCHANGED <<fcVars, owner, known, cut, execVars>>

ReadFails(t) ==
    /\ At(t, {"execute"}, "read")
    /\ GiveUp(t)
    /\ results' = [results EXCEPT ![vm[t]] = Failed("Io", "read")]
    /\ UNCHANGED <<block, consoleVars>>

\* Mutant: read_to_end without a deadline.
TimeoutNever(t) == FALSE

\* Mutant: on a timeout the process is moved to a background task to end
\* by itself.
TimeoutDetaches(t) ==
    /\ At(t, {"execute"}, "read")
    /\ HandTo(vm[t], "dropped")
    /\ Return(t)
    /\ results' = [results EXCEPT ![vm[t]] = Failed("SpawnFailed", "timeout")]
    /\ UNCHANGED <<fcVars, known, cut, block, consoleVars>>

\* The deadline passes first: the error drops `process`, which kills it.
Timeout(t) ==
    /\ At(t, {"execute"}, "read")
    /\ GiveUp(t)
    /\ results' = [results EXCEPT ![vm[t]] = Failed("SpawnFailed", "timeout")]
    /\ UNCHANGED <<block, consoleVars>>

HashOf(raw) ==
    LET output == ParseExecutionOutput(raw)
    IN  ComputeHash(output.stdout, output.stderr)

\* The record the runner makes of a result: the status is always Succeeded.
\* The exit code, which ExecutionRecord leaves out, is kept for the properties.
RecordOf(raw) ==
    [status |-> "Succeeded", cause |-> "exit",
     outputHash |-> HashOf(raw), exitCode |-> ParseExecutionOutput(raw).exitCode]

\* remove_file, the parser, and the record.
RecordRun(t) ==
    /\ At(t, {"execute"}, "unlink")
    /\ sockFile' \in {sockFile, [sockFile EXCEPT ![vm[t]] = FALSE]}
    /\ results' = [results EXCEPT ![vm[t]] = RecordOf(console[vm[t]])]
    /\ HandTo(vm[t], "ended")
    /\ Return(t)
    /\ UNCHANGED <<proc, conf, machine, files, stray, known, cut, block, consoleVars>>

CancelExecute(t) ==
    /\ call[t] = "execute" /\ CancelCreating(t)
    /\ results' = [results EXCEPT ![vm[t]] = Failed("dropped", "cancel")]
    /\ UNCHANGED <<block, consoleVars>>

-----------------------------------------------------------------------------
Runs(t) ==
    \/ Boots(t) \/ StartFails(t) \/ ReadConsole(t)
    \/ ConsoleClosed(t) \/ RecordRun(t)

Next ==
    \/ \E t \in Tasks :
          \/ Runs(t) \/ Timeout(t) \/ ReadFails(t) \/ CancelExecute(t)
          \/ \E v \in Vms, b \in Blocks : Execute(t, v, b)
    \/ \E v \in Vms : GuestPrints(v) \/ StopsHalfway(v) \/ KernelPrints(v)
    \/ VmmRuns /\ UNCHANGED execVars

Spec == Init /\ [][Next]_vars

\* The runtime polls tasks and fires timers; nothing is assumed of the guest
\* and of Firecracker.
FairTasks ==
    /\ \A t \in Tasks : WF_vars(Runs(t))
    /\ \A t \in Tasks : WF_vars(Timeout(t))

\* Firecracker answers and the kernel kills.
FairVmm ==
    /\ \A t \in Tasks : WF_vars((FcAnswer(t) \/ FcRefuse(t)) /\ UNCHANGED <<backendVars, execVars>>)
    /\ \A v \in Vms : WF_vars(OsReap(v) /\ UNCHANGED <<backendVars, execVars>>)

TaskFairSpec == Spec /\ FairTasks
FairSpec == Spec /\ FairTasks /\ FairVmm

-----------------------------------------------------------------------------
(* What the caller of BlockRunner sees.                                    *)

Power(v) ==
    CASE proc[v] = "none" -> "new" [] proc[v] \in Live -> "on" [] OTHER -> "off"

Verdict(v) ==
    [end |-> CASE results[v].status = "none" -> "open"
               [] results[v].status = "Succeeded" -> "record"
               [] results[v].status = "dropped" -> "drop"
               [] OTHER -> "error",
     digest |-> results[v].outputHash]

Powers == [v \in Vms |-> Power(v)]
Verdicts == [v \in Vms |-> Verdict(v)]

Run == INSTANCE BlockRun WITH
    NoBlock <- Nothing,
    Digest <- HashOf,
    given <- block,
    power <- Powers,
    printed <- console,
    verdict <- Verdicts

-----------------------------------------------------------------------------
Finished(v) == results[v].status # "none"

\* No process outlives its call: a run that has returned, failed, timed out
\* or been cancelled has no VM left that is not already killed, and a run
\* that returned a record has seen its process exit.
NothingLeftRunning ==
    \A v \in Vms : Finished(v) =>
        /\ proc[v] \in {"none", "dying", "dead"}
        /\ results[v].status = "Succeeded" => proc[v] = "dead"

\* The guest has printed its script up to the digit of the exit code; only
\* the line end may be missing.
CodePrinted(v) == Len(at[v]) >= Len(BuildCommand(block[v])) - 1

\* Neither the kernel nor the end of the guest broke into the script.
Undisturbed(v) == \A i \in DOMAIN console[v] : console[v][i] \notin {Noise, Torn}

\* A record is made of the console of its own VM, read to the end.  It holds
\* the block's whole output and exit code, and then the guest did get as far
\* as printing the code; or else the hash of exactly what was on the console,
\* and then the script was not finished or something broke into it.
RecordTellsTheRun ==
    \A v \in Vms : results[v].status = "Succeeded" =>
        \/ /\ results[v].outputHash = ComputeHash(Echoed(block[v]), <<>>) /\ results[v].exitCode = <<"0">>
           /\ CodePrinted(v)
        \/ /\ results[v].outputHash = console[v] /\ results[v].exitCode = <<"-1">>
           /\ ~ (CodePrinted(v) /\ Undisturbed(v))

\* A record, once returned, never changes (execution.rs calls it immutable),
\* and neither does the console it was made from.
RecordsAreFinal ==
    [][\A v \in Vms : Finished(v) => results'[v] = results[v] /\ console'[v] = console[v]]_vars

\* Seen by its caller an execution is one run of BlockRun, whatever fails,
\* hangs, is cancelled or runs beside it: it ends once, its VM is off from
\* that moment on, and its record is made of all that its own VM has printed.
ImplementsBlockRun == Run!RunSpec

\* Every execution comes to an end even if the guest hangs for ever.
EveryExecutionReturns == \A t \in Tasks : (pc[t] # "idle") ~> (pc[t] = "idle")

\* A VM whose run is over, however it ended, is eventually not running.
FinishedVmsDie == \A v \in Vms : Finished(v) ~> (proc[v] \in {"none", "dead"})
=============================================================================
