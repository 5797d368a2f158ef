------------------------ MODULE BlockExecutionProofs ------------------------
(***************************************************************************)
(* Proofs about BlockExecution: its type invariant, that no process        *)
(* outlives the call that started it, that a record tells its run and      *)
(* never changes, and that every execution is a run of BlockRun.           *)
(***************************************************************************)
EXTENDS FirecrackerBackendProofs, BlockExecution, SerialConsoleProofs

-----------------------------------------------------------------------------
(* The consoles of a block.                                                *)

\* The init script of a block.
LEMMA BlockScript ==
    ASSUME NEW b
    PROVE  /\ Echoed(b) \in Streams({b, "0"}) /\ <<>> \in Streams({b, "0"}) /\ <<"0">> \in Seq({b, "0"})
           /\ Len(Echoed(b)) = 1 /\ BuildCommand(b) \in Seq(BlockTokens(b)) /\ Len(BuildCommand(b)) = 13
<1> DEFINE L == {b, "0"}
           B == {Text(x) : x \in L}
           s == BuildCommand(b)
<1>1. Text(b) \in B
  OBVIOUS
<1>2. Echoed(b) \in Seq(B) /\ Len(Echoed(b)) = 1 /\ <<>> \in Seq(B)
  <2> HIDE DEF B
  <2> QED
    BY <1>1 DEF Echoed
<1>3. Echoed(b) \in Streams(L) /\ <<>> \in Streams(L)
  BY <1>2 DEF Streams
<1>4. <<"0">> \in Seq(L) /\ Len(<<"0">>) = 1 /\ Len(<<>>) = 0
  OBVIOUS
<1> HIDE DEF L
<1>5. s \in Seq(Tokens(L)) /\ Layout(s, Echoed(b), <<>>, <<"0">>)
  BY <1>3, <1>4, ScriptLayout DEF BuildCommand
<1> HIDE DEF s
<1>6. Len(s) = 2 * Len(Echoed(b)) + 2 * Len(<<>>) + Len(<<"0">>) + 10
  BY <1>5 DEF Layout
<1>7. Len(s) = 13
  BY <1>2, <1>4, <1>6
<1> QED
  BY <1>2, <1>3, <1>4, <1>5, <1>7 DEF s, L, BlockTokens

\* Every console that a VM running a block can leave behind, with kernel
\* messages anywhere and wherever the guest stopped, is understood as the
\* block's own output and exit code, and only if the guest got as far as
\* printing the code, or else taken as it is with -1.  A console that nothing
\* broke into is understood as soon as the code is on it.
THEOREM ParsedConsole ==
    ASSUME NEW b, NEW c \in Seq(BlockTokens(b)), NEW a, Carries(c, a, BuildCommand(b))
    PROVE  LET understood == ParseExecutionOutput(c) = Output(Echoed(b), <<>>, <<"0">>)
               printed == Len(a) >= Len(BuildCommand(b)) - 1
           IN  /\ (understood /\ printed) \/ ParseExecutionOutput(c) = Fallback(c)
               /\ printed /\ (\A i \in DOMAIN c : c[i] \notin {Noise, Torn}) => understood
<1> DEFINE L == {b, "0"}
           out == Echoed(b)
           none == <<>>
           code == <<"0">>
           x == 2 * Len(out) + 2 * Len(none) + 9
           s == InitScript(out, none, code)
           n == Len(c)
<1>1. /\ out \in Streams(L) /\ none \in Streams(L) /\ code \in Seq(L)
      /\ Len(out) = 1 /\ s \in Seq(Tokens(L)) /\ Len(s) = 13
  BY BlockScript DEF BuildCommand, BlockTokens
<1>2. Len(code) = 1 /\ code # <<>> /\ code[1] = "0" /\ Len(none) = 0
  OBVIOUS
<1>3. c \in Seq(Tokens(L)) /\ Carries(c, a, s) /\ n \in Nat /\ s = BuildCommand(b)
  BY DEF BuildCommand, BlockTokens
<1>4. [i \in 1 .. 1 |-> code[i]] = code
  BY DEF code
<1> HIDE DEF L, out, code, none
<1>5. x = 11 /\ Len(a) \in Nat
  <2>1. Len(a) \in 0 .. Len(s)
    BY <1>3 DEF Carries
  <2> QED
    BY <1>1, <1>2, <2>1
<1>6. \/ ParseExecutionOutput(c) = Fallback(c)
      \/ StreamsRead(c, out, none, code) /\ 2 * Len(out) + 2 * Len(none) + 9 < Len(a)
  BY <1>1, <1>3, NoisyConsole
<1>7. StreamsRead(c, out, none, code) => ParseExecutionOutput(c) = Output(out, none, code)
  <2>1. \A r \in 1 .. Len(code) : r = 1
    BY <1>2
  <2> QED
    BY <1>4, <2>1 DEF StreamsRead
<1>8. ASSUME Len(a) >= 12, \A i \in DOMAIN c : c[i] \notin {Noise, Torn}
      PROVE  ParseExecutionOutput(c) = Output(out, none, code)
  <2> DEFINE r == IF n <= x + Len(code) THEN n - x ELSE Len(code)
  <2>1. \A i \in 1 .. Len(c) : c[i] \notin {Noise, Torn}
    BY <1>3, <1>8, LenProperties
  <2>2. Len(a) = n /\ n <= Len(s) /\ c = SubSeq(s, 1, n)
    <3> HIDE DEF s
    <3> QED
      BY <1>1, <1>3, <2>1, CleanConsole
  <2>3. n \in 0 .. Len(InitScript(out, none, code))
    <3>1. n \in 0 .. Len(s)
      <4> HIDE DEF s, n
      <4> QED
        BY <1>1, <1>3, <2>2
    <3> QED
      BY <3>1 DEF s
  <2> HIDE DEF n
  <2>4. ParseExecutionOutput(SubSeq(s, 1, n)) =
           IF n <= x THEN Fallback(SubSeq(s, 1, n)) ELSE Output(out, none, [i \in 1 .. r |-> code[i]])
    <3>1. out \in Streams(L) /\ none \in Streams(L) /\ code \in Seq(L) /\ code # <<>>
      BY <1>1, <1>2
    <3> QED
      BY <2>3, <3>1, TruncatedConsole
  <2>5. ~ (n <= x) /\ r = 1
    BY <1>1, <1>2, <1>3, <1>5, <1>8, <2>2
  <2> HIDE DEF x, r, s
  <2> QED
    BY <1>4, <2>2, <2>4, <2>5
<1>9. Len(a) >= Len(BuildCommand(b)) - 1 <=> Len(a) >= 12
  <2>1. Len(BuildCommand(b)) = 13
    BY BlockScript
  <2> QED
    BY <1>5, <2>1
<1>10. 2 * Len(out) + 2 * Len(none) + 9 < Len(a) => Len(a) >= 12
  BY <1>5
<1> HIDE DEF x, s, n
<1>11. /\ \/ ParseExecutionOutput(c) = Output(out, none, code) /\ Len(a) >= 12
          \/ ParseExecutionOutput(c) = Fallback(c)
       /\ Len(a) >= 12 /\ (\A i \in DOMAIN c : c[i] \notin {Noise, Torn})
             => ParseExecutionOutput(c) = Output(out, none, code)
  BY <1>6, <1>7, <1>8, <1>10
<1> QED
  BY <1>9, <1>11 DEF code, none, out

-----------------------------------------------------------------------------
(* The inductive invariant.                                                *)

\* Consoles and results are tables with one entry per VM.
Tables ==
    /\ console = [v \in Vms |-> console[v]]
    /\ left = [v \in Vms |-> left[v]]
    /\ at = [v \in Vms |-> at[v]]
    /\ results = [v \in Vms |-> results[v]]

\* A task is idle or in execute, at one of its await points.
TaskInv ==
    \A t \in Tasks :
        \/ call[t] = "none" /\ pc[t] = "idle" /\ vm[t] = NoVm
        \/ call[t] = "execute" /\ pc[t] \in {"mkdir", "wait", "api", "read", "unlink"} /\ vm[t] \in Vms

\* The VM of a call is its own.  Before the exec there is no process; behind
\* the reading there is none any more.
CallInv ==
    /\ \A t \in Tasks : call[t] = "execute" =>
          /\ owner[vm[t]] = "creating"
          /\ pc[t] = "mkdir" => proc[vm[t]] = "none"
          /\ pc[t] = "unlink" => proc[vm[t]] = "dead"
    /\ \A t, u \in Tasks : call[t] = "execute" /\ vm[t] = vm[u] => t = u

\* What is known of a VM from who holds its process: a VM that was never
\* asked for, one whose call is running, one that was killed by the drop of
\* its process, and one whose call has made a record.
RunInv ==
    \A v \in Vms :
        \/ /\ owner[v] = "none" /\ block[v] = Nothing
           /\ proc[v] = "none" /\ results[v] = NoResult
           /\ console[v] = <<>> /\ left[v] = <<>> /\ at[v] = <<>>
        \/ /\ owner[v] = "creating" /\ block[v] \in Blocks
           /\ results[v] = NoResult
        \/ /\ owner[v] = "dropped" /\ block[v] \in Blocks
           /\ proc[v] \in {"none", "dying", "dead"}
           /\ \E error \in {"SpawnFailed", "Io", "dropped"}, cause \in {"start", "read", "timeout", "cancel"} :
                 results[v] = Failed(error, cause)
        \/ /\ owner[v] = "ended" /\ block[v] \in Blocks
           /\ proc[v] = "dead"
           /\ results[v] = RecordOf(console[v])

\* The console of a VM carries the script of its block, as far as the guest
\* has printed it, with the kernel's messages in it.
PrintInv ==
    \A v \in Vms : block[v] # Nothing =>
        Printing(BlockTokens(block[v]), console[v], left[v], at[v], BuildCommand(block[v]))

IInv == TypeOK /\ Tables /\ TaskInv /\ CallInv /\ RunInv /\ PrintInv

-----------------------------------------------------------------------------
(* The kinds of steps an execution takes.                                  *)

\* The call suspends at its next await point; at the first one it has just
\* started the process.
Advances(t) ==
    /\ call[t] = "execute"
    /\ \E q \in {"wait", "api", "read", "unlink"} :
          /\ pc' = [pc EXCEPT ![t] = q]
          /\ q = "unlink" => proc[vm[t]] = "dead"
    /\ \/ UNCHANGED proc
       \/ pc[t] = "mkdir" /\ pc'[t] = "wait" /\ proc' = [proc EXCEPT ![vm[t]] = "starting"]
    /\ UNCHANGED <<call, vm, owner, execVars>>

\* The call ends without a record: its process is dropped.
Errs(t) ==
    /\ call[t] = "execute" /\ GiveUp(t)
    /\ \E error \in {"SpawnFailed", "Io", "dropped"}, cause \in {"start", "read", "timeout", "cancel"} :
          results' = [results EXCEPT ![vm[t]] = Failed(error, cause)]
    /\ UNCHANGED <<block, consoleVars>>

\* Every step of a call that is under way is of one of these kinds, or makes
\* its record.
LEMMA StepOfACall ==
    ASSUME TypeOK, NEW t \in Tasks,
           Runs(t) \/ Timeout(t) \/ ReadFails(t) \/ CancelExecute(t)
    PROVE  Advances(t) \/ Errs(t) \/ RecordRun(t)
<1>0. pc \in [Tasks -> AwaitPoints \cup {"idle"}]
  BY DEF TypeOK, BackendTypeOK
<1>1. CASE Boots(t)
  <2>1. CASE ExecVmm(t)
    BY <1>0, <1>1, <2>1 DEF Boots, Advances, ExecVmm, At, Goto
  <2>2. CASE SocketMissing(t)
    <3>1. pc' = [pc EXCEPT ![t] = "wait"]
      BY <1>0, <2>2 DEF SocketMissing, At
    <3> QED
      BY <1>1, <2>2, <3>1 DEF Boots, Advances, SocketMissing, fcVars
  <2>3. CASE SocketAppears(t) \/ ConfigureNext(t)
    BY <1>1, <2>3 DEF Boots, Advances, SocketAppears, ConfigureNext, Ask, fcVars
  <2> QED
    BY <1>1, <2>1, <2>2, <2>3 DEF Boots
<1>2. CASE ReadConsole(t) \/ ConsoleClosed(t)
  BY <1>2 DEF ReadConsole, ConsoleClosed, Advances, Goto, At, fcVars
<1>3. CASE StartFails(t)
  <2>1. GiveUp(t)
    BY <1>3 DEF StartFails, SetupFails, WaitExpired, BootFails
  <2> QED
    BY <1>3, <2>1 DEF StartFails, Errs
<1>4. CASE Timeout(t) \/ ReadFails(t) \/ CancelExecute(t)
  BY <1>4 DEF Timeout, ReadFails, CancelExecute, CancelCreating, Errs, At
<1> QED
  BY <1>1, <1>2, <1>3, <1>4 DEF Runs

\* Something comes on the console of a VM.
Speaks(v) == GuestPrints(v) \/ StopsHalfway(v) \/ KernelPrints(v)

\* The kinds of steps of the whole system.
LEMMA Steps ==
    ASSUME TypeOK, [Next]_vars
    PROVE  \/ \E t \in Tasks : Advances(t) \/ Errs(t) \/ RecordRun(t)
           \/ \E t \in Tasks, v \in Vms, b \in Blocks : Execute(t, v, b)
           \/ \E v \in Vms : Speaks(v)
           \/ VmmRuns /\ UNCHANGED execVars
           \/ UNCHANGED vars
BY StepOfACall DEF Next, Speaks

\* Only a VM that runs speaks, and that changes nothing but consoles.
LEMMA SpeaksOnly ==
    ASSUME NEW v \in Vms, Speaks(v)
    PROVE  /\ proc[v] = "serving" /\ block[v] # Nothing
           /\ UNCHANGED <<fcVars, clientVars, backendVars, block, results>>
BY DEF Speaks, GuestPrints, StopsHalfway, KernelPrints, Prints

\* Only the console of the VM that speaks changes: it gets longer, and goes on
\* carrying the script.
LEMMA ConsoleStep ==
    ASSUME TypeOK, Tables, PrintInv, NEW v \in Vms, Speaks(v)
    PROVE  /\ \E tokens \in Seq(BlockTokens(block[v])) : console'[v] = console[v] \o tokens
           /\ Tables'
           /\ \A w \in Vms \ {v} : console'[w] = console[w] /\ left'[w] = left[w] /\ at'[w] = at[w]
           /\ Printing(BlockTokens(block[v]), console'[v], left'[v], at'[v], BuildCommand(block[v]))
           /\ noises' \in 0 .. MaxNoise
<1> DEFINE T == BlockTokens(block[v])
           script == BuildCommand(block[v])
           c == console[v]
           l == left[v]
           next == Append(at[v], Len(c) + 1)
           P(d, rest, a) == Printing(T, d, rest, a, script)
           Goal ==
             /\ \E tokens \in Seq(T) : console'[v] = c \o tokens
             /\ Tables'
             /\ \A w \in Vms \ {v} : console'[w] = console[w] /\ left'[w] = left[w] /\ at'[w] = at[w]
             /\ P(console'[v], left'[v], at'[v])
<1>0. ASSUME NEW tokens \in Seq(T), Prints(v, tokens), NEW rest, NEW a, P(c \o tokens, rest, a),
             left' = [left EXCEPT ![v] = rest], at' = [at EXCEPT ![v] = a]
      PROVE  Goal
  <2> HIDE DEF P, T
  <2>1. console' = [console EXCEPT ![v] = c \o tokens] /\ UNCHANGED results
    BY <1>0 DEF Prints
  <2>2. /\ console'[v] = c \o tokens /\ left'[v] = rest /\ at'[v] = a /\ Tables'
        /\ \A w \in Vms \ {v} : console'[w] = console[w] /\ left'[w] = left[w] /\ at'[w] = at[w]
    BY <1>0, <2>1 DEF Tables
  <2> QED
    BY <1>0, <2>1, <2>2
<1>1. CrLf \in T /\ Noise \in T /\ Torn \in T /\ script \in Seq(T)
  BY TypesOfTokens, BlockScript DEF BlockTokens
<1>2. block[v] # Nothing
  BY SpeaksOnly
<1>3. P(c, l, at[v]) /\ c \in Seq(T)
  BY <1>2 DEF PrintInv, Printing
<1> HIDE DEF T, script
<1>4. /\ l # <<>> => P(c \o <<Head(l)>>, Tail(l), next)
      /\ l # <<>> /\ Divisible(Head(l)) => P(c \o <<Torn>>, <<>>, next)
      /\ \A m \in Messages :
            /\ P(c \o m, l, at[v])
            /\ l # <<>> /\ Divisible(Head(l)) => P(c \o (<<Torn>> \o m \o <<Torn>>), Tail(l), next)
  BY <1>1, <1>3, PrintingGoesOn
<1>5. noises \in 0 .. MaxNoise /\ MaxNoise \in Nat
  BY ExecutionAssumption DEF TypeOK
<1> HIDE DEF Goal
<1>6. CASE GuestPrints(v)
  <2>1. /\ l # <<>> /\ Prints(v, <<Head(l)>>) /\ noises' = noises
        /\ left' = [left EXCEPT ![v] = Tail(l)] /\ at' = [at EXCEPT ![v] = next]
    BY <1>6 DEF GuestPrints, Takes
  <2>2. <<Head(l)>> \in Seq(T)
    <3>1. Head(l) \in T
      BY <1>1, <1>3, <2>1, NextToken
    <3> QED
      BY <3>1
  <2>3. Goal
    BY <1>0, <1>4, <2>1, <2>2
  <2> QED
    BY <1>5, <2>1, <2>3 DEF Goal, T, script
<1>7. CASE StopsHalfway(v)
  <2>1. /\ l # <<>> /\ Divisible(Head(l)) /\ Prints(v, <<Torn>>) /\ noises' = noises
        /\ left' = [left EXCEPT ![v] = <<>>] /\ at' = [at EXCEPT ![v] = next]
    BY <1>7 DEF StopsHalfway, Breakable, Takes
  <2>2. <<Torn>> \in Seq(T)
    BY <1>1
  <2>3. Goal
    BY <1>0, <1>4, <2>1, <2>2
  <2> QED
    BY <1>5, <2>1, <2>3 DEF Goal, T, script
<1>8. CASE KernelPrints(v)
  <2>1. noises < MaxNoise /\ noises' = noises + 1
    BY <1>8 DEF KernelPrints
  <2>2. PICK m \in Messages :
           \/ Prints(v, m) /\ UNCHANGED <<left, at>>
           \/ Breakable(v) /\ Takes(v, Tail(l)) /\ Prints(v, <<Torn>> \o m \o <<Torn>>)
    BY <1>8 DEF KernelPrints
  <2>3. m \in Seq(T) /\ <<Torn>> \o m \o <<Torn>> \in Seq(T)
    BY <1>1, <1>3, MessageTokens
  <2>4. ASSUME Prints(v, m) /\ UNCHANGED <<left, at>> PROVE Goal
    <3>1. left' = [left EXCEPT ![v] = l] /\ at' = [at EXCEPT ![v] = at[v]]
      BY <2>4 DEF Tables
    <3> QED
      BY <1>0, <1>4, <2>3, <2>4, <3>1
  <2>5. ASSUME Breakable(v) /\ Takes(v, Tail(l)) /\ Prints(v, <<Torn>> \o m \o <<Torn>>) PROVE Goal
    <3>1. /\ l # <<>> /\ Divisible(Head(l))
          /\ left' = [left EXCEPT ![v] = Tail(l)] /\ at' = [at EXCEPT ![v] = next]
      BY <2>5 DEF Breakable, Takes
    <3> QED
      BY <1>0, <1>4, <2>3, <2>5, <3>1
  <2>6. Goal
    BY <2>2, <2>4, <2>5
  <2>7. noises' \in 0 .. MaxNoise
    BY <1>5, <2>1
  <2> QED
    BY <2>6, <2>7 DEF Goal, T, script
<1> QED
  BY <1>6, <1>7, <1>8 DEF Speaks

-----------------------------------------------------------------------------
(* Type correctness.                                                       *)

\* A step of a call keeps the variables of the executor in their types.
LEMMA BackendStep ==
    ASSUME BackendOK, [Next]_vars
    PROVE  BackendOK'
<1> USE FcTypeSplit DEF fcVars
<1>0. {"mkdir", "read", "unlink"} \subseteq AwaitPoints /\ "execute" \in Calls
  BY DEF AwaitPoints, Calls
<1>1. ASSUME NEW t \in Tasks, Boots(t) PROVE BackendOK'
  BY <1>1, FcRunsType DEF Boots, BackendRuns
<1>2. ASSUME NEW t \in Tasks, GiveUp(t) PROVE BackendOK'
  BY <1>2, FcGiveUpType
<1>3. ASSUME NEW t \in Tasks, ReadConsole(t) \/ ConsoleClosed(t) PROVE BackendOK'
  <2>1. TaskTypeOK'
    BY <1>0, <1>3, TaskTypeMoves DEF ReadConsole, ConsoleClosed
  <2> QED
    BY <1>3, <2>1 DEF ReadConsole, ConsoleClosed, HolderTypeOK
<1>4. ASSUME NEW t \in Tasks, RecordRun(t) PROVE BackendOK'
  <2>1. TaskTypeOK'
    BY <1>4, TaskTypeMoves DEF RecordRun
  <2>2. sockFile' \in [Vms -> BOOLEAN]
    BY <1>4 DEF RecordRun, HolderTypeOK
  <2>3. owner' \in [Vms -> {"none", "creating", "caller", "terminating", "ended", "dropped"}]
    BY <1>4, FcOwnerMoves DEF RecordRun
  <2> QED
    BY <1>4, <2>1, <2>2, <2>3 DEF RecordRun, HolderTypeOK
<1>5. ASSUME NEW t \in Tasks, NEW v \in Vms, NEW b \in Blocks, Execute(t, v, b) PROVE BackendOK'
  <2>1. TaskTypeOK'
    BY <1>0, <1>5, TaskTypeMoves DEF Execute
  <2>2. owner' \in [Vms -> {"none", "creating", "caller", "terminating", "ended", "dropped"}]
    BY <1>5, FcOwnerMoves DEF Execute
  <2> QED
    BY <1>5, <2>1, <2>2 DEF Execute, HolderTypeOK
<1>6. ASSUME NEW v \in Vms, Speaks(v) PROVE BackendOK'
  <2>1. UNCHANGED <<fcVars, clientVars, backendVars>>
    BY <1>6, SpeaksOnly
  <2> QED
    BY <2>1 DEF clientVars, backendVars, BackendOK, VmmTypeOK, BackendTypeOK
<1>7. CASE VmmRuns
  BY <1>7, FcTypeStep DEF VmmRuns, BackendOK, BackendTypeOK, backendVars
<1>8. CASE UNCHANGED vars
  BY <1>8 DEF vars, clientVars, backendVars, BackendOK, VmmTypeOK, BackendTypeOK
<1> QED
  BY <1>1, <1>2, <1>3, <1>4, <1>5, <1>6, <1>7, <1>8
  DEF Next, Runs, StartFails, SetupFails, WaitExpired, BootFails, Timeout, ReadFails,
      CancelExecute, CancelCreating, Speaks

-----------------------------------------------------------------------------
(* Preservation of the invariant.                                          *)

\* The parts of the type invariant that are used below.
LEMMA Typed ==
    ASSUME TypeOK
    PROVE  /\ BackendOK /\ VmmTypeOK
           /\ proc \in [Vms -> ProcStates]
           /\ owner \in [Vms -> {"none", "creating", "caller", "terminating", "ended", "dropped"}]
           /\ call \in [Tasks -> Calls \cup {"none"}]
           /\ pc \in [Tasks -> AwaitPoints \cup {"idle"}]
           /\ vm \in [Tasks -> Vms \cup {NoVm}]
           /\ block \in [Vms -> Blocks \cup {Nothing}]
BY DEF TypeOK, BackendOK, VmmTypeOK, BackendTypeOK

\* Consoles and results stay tables.
LEMMA TablesStep ==
    ASSUME TypeOK, Tables, PrintInv, [Next]_vars
    PROVE  Tables'
<1> USE DEF Tables
<1>1. ASSUME NEW t \in Tasks, Advances(t) \/ Errs(t) \/ RecordRun(t) PROVE Tables'
  BY <1>1 DEF Advances, Errs, RecordRun, execVars, consoleVars
<1>2. ASSUME NEW t \in Tasks, NEW v \in Vms, NEW b \in Blocks, Execute(t, v, b) PROVE Tables'
  BY <1>2 DEF Execute
<1>3. ASSUME NEW v \in Vms, Speaks(v) PROVE Tables'
  BY <1>3, ConsoleStep
<1>4. CASE UNCHANGED execVars
  BY <1>4 DEF execVars, consoleVars
<1> QED
  BY <1>1, <1>2, <1>3, <1>4, Steps DEF vars

\* A task keeps to the await points of execute.
LEMMA TaskStep ==
    ASSUME TypeOK, TaskInv, [Next]_vars
    PROVE  TaskInv'
<1> USE Typed DEF TaskInv
<1>1. ASSUME NEW t \in Tasks, Advances(t) PROVE TaskInv'
  BY <1>1 DEF Advances
<1>2. ASSUME NEW t \in Tasks, Errs(t) \/ RecordRun(t) PROVE TaskInv'
  BY <1>2 DEF Errs, RecordRun, GiveUp, Return
<1>3. ASSUME NEW t \in Tasks, NEW v \in Vms, NEW b \in Blocks, Execute(t, v, b) PROVE TaskInv'
  BY <1>3 DEF Execute, Begin
<1>4. CASE UNCHANGED <<call, pc, vm>>
  BY <1>4
<1>5. VmmRuns => UNCHANGED <<call, pc, vm>>
  BY FcEffect
<1> QED
  BY <1>1, <1>2, <1>3, <1>4, <1>5, Steps, SpeaksOnly DEF vars, clientVars, backendVars

\* Every VM stays with its call.
LEMMA CallStep ==
    ASSUME TypeOK, TaskInv, CallInv, RunInv, [Next]_vars
    PROVE  CallInv'
<1> USE Typed DEF CallInv, TaskInv
<1>1. ASSUME NEW t \in Tasks, Advances(t) PROVE CallInv'
  <2>1. \A u \in Tasks : call[u] = "execute" /\ u # t => vm[u] # vm[t]
    OBVIOUS
  <2>2. \A u \in Tasks \ {t} : pc'[u] = pc[u] /\ (call[u] = "execute" => proc'[vm[u]] = proc[vm[u]])
    BY <1>1, <2>1 DEF Advances
  <2>3. pc'[t] # "mkdir" /\ (pc'[t] = "unlink" => proc'[vm[t]] = "dead")
    BY <1>1 DEF Advances
  <2> QED
    BY <1>1, <2>2, <2>3 DEF Advances
<1>2. ASSUME NEW t \in Tasks, Errs(t) \/ RecordRun(t) PROVE CallInv'
  <2>1. /\ call' = [call EXCEPT ![t] = "none"] /\ vm' = [vm EXCEPT ![t] = NoVm]
        /\ pc' = [pc EXCEPT ![t] = "idle"]
    BY <1>2 DEF Errs, RecordRun, GiveUp, Return
  <2>2. call[t] = "execute"
    BY <1>2 DEF Errs, RecordRun, At
  <2>3. \A u \in Tasks : call'[u] = "execute" => u # t /\ vm[u] \in Vms /\ vm[u] # vm[t]
    BY <2>1, <2>2
  <2>4. \A v \in Vms : v # vm[t] => owner'[v] = owner[v] /\ proc'[v] = proc[v]
    BY <1>2 DEF Errs, RecordRun, GiveUp, DropChild, HandTo, Killed
  <2> QED
    BY <2>1, <2>3, <2>4, SentinelAssumption
<1>3. ASSUME NEW t \in Tasks, NEW v \in Vms, NEW b \in Blocks, Execute(t, v, b) PROVE CallInv'
  <2>1. /\ call' = [call EXCEPT ![t] = "execute"] /\ vm' = [vm EXCEPT ![t] = v]
        /\ pc' = [pc EXCEPT ![t] = "mkdir"] /\ owner' = [owner EXCEPT ![v] = "creating"]
        /\ UNCHANGED proc /\ owner[v] = "none"
    BY <1>3 DEF Execute, Begin, HandTo, fcVars
  <2>2. proc[v] = "none"
    BY <2>1 DEF RunInv
  <2>3. \A u \in Tasks : call[u] = "execute" => vm[u] # v /\ vm[u] \in Vms
    BY <2>1
  <2>4. \A u \in Tasks : u # t => vm[u] # v
    BY <2>3, SentinelAssumption
  <2> QED
    BY <2>1, <2>2, <2>3, <2>4
<1>4. CASE UNCHANGED <<call, pc, vm, owner, proc>>
  BY <1>4
<1>5. CASE VmmRuns
  <2>1. UNCHANGED <<call, pc, vm, owner>>
    BY <1>5, FcEffect
  <2>2. \A v \in Vms : (proc[v] = "none" => proc'[v] = "none") /\ (proc[v] = "dead" => proc'[v] = "dead")
    BY <1>5, FcEffect DEF Live
  <2> QED
    BY <2>1, <2>2
<1> QED
  BY <1>1, <1>2, <1>3, <1>4, <1>5, Steps, SpeaksOnly DEF vars, fcVars, clientVars, backendVars

\* What a run has come to agrees with who holds its VM.
LEMMA RunStep ==
    ASSUME TypeOK, Tables, TaskInv, CallInv, RunInv, PrintInv, [Next]_vars
    PROVE  RunInv'
<1> USE Typed DEF Tables
<1> DEFINE Same(v) == /\ owner'[v] = owner[v] /\ block'[v] = block[v]
                      /\ console'[v] = console[v] /\ left'[v] = left[v] /\ at'[v] = at[v]
                      /\ results'[v] = results[v] /\ proc'[v] = proc[v]
<1>0. ASSUME NEW v \in Vms, \A w \in Vms \ {v} : Same(w),
             \/ /\ owner'[v] = "creating" /\ block'[v] \in Blocks /\ results'[v] = NoResult
             \/ /\ owner'[v] = "dropped" /\ block'[v] \in Blocks
                /\ proc'[v] \in {"none", "dying", "dead"}
                /\ \E error \in {"SpawnFailed", "Io", "dropped"}, cause \in {"start", "read", "timeout", "cancel"} :
                      results'[v] = Failed(error, cause)
             \/ /\ owner'[v] = "ended" /\ block'[v] \in Blocks
                /\ proc'[v] = "dead" /\ results'[v] = RecordOf(console'[v])
      PROVE  RunInv'
  BY <1>0 DEF RunInv
<1>r. ASSUME NEW v \in Vms, owner[v] = "creating"
      PROVE  block[v] \in Blocks /\ results[v] = NoResult
  BY <1>r DEF RunInv
<1>c. ASSUME NEW t \in Tasks, call[t] = "execute"
      PROVE  vm[t] \in Vms /\ owner[vm[t]] = "creating" /\ block[vm[t]] \in Blocks /\ results[vm[t]] = NoResult
  BY <1>c, <1>r DEF TaskInv, CallInv
<1>1. ASSUME NEW t \in Tasks, Advances(t) PROVE RunInv'
  BY <1>0, <1>1, <1>c DEF Advances, execVars, consoleVars
<1>2. ASSUME NEW t \in Tasks, Errs(t) PROVE RunInv'
  <2>1. /\ owner' = [owner EXCEPT ![vm[t]] = "dropped"] /\ proc' = Killed(vm[t])
        /\ UNCHANGED <<block, console, left, at>> /\ call[t] = "execute"
    BY <1>2 DEF Errs, GiveUp, DropChild, HandTo, consoleVars
  <2>2. proc'[vm[t]] \in {"none", "dying", "dead"} /\ \A w \in Vms \ {vm[t]} : proc'[w] = proc[w]
    BY <1>c, <2>1 DEF Killed, ProcStates, Live
  <2>3. \E error \in {"SpawnFailed", "Io", "dropped"}, cause \in {"start", "read", "timeout", "cancel"} :
           results' = [results EXCEPT ![vm[t]] = Failed(error, cause)]
    BY <1>2 DEF Errs
  <2>4. vm[t] \in Vms /\ block'[vm[t]] \in Blocks /\ owner'[vm[t]] = "dropped"
    BY <1>c, <2>1
  <2>5. \A w \in Vms \ {vm[t]} : Same(w)
    BY <1>c, <2>1, <2>2, <2>3
  <2>6. \E error \in {"SpawnFailed", "Io", "dropped"}, cause \in {"start", "read", "timeout", "cancel"} :
           results'[vm[t]] = Failed(error, cause)
    BY <2>3, <2>4
  <2> QED
    BY <1>0, <2>2, <2>4, <2>5, <2>6
<1>3. ASSUME NEW t \in Tasks, RecordRun(t) PROVE RunInv'
  <2>1. proc[vm[t]] = "dead" /\ call[t] = "execute"
    BY <1>3 DEF RecordRun, At, CallInv
  <2> QED
    BY <1>0, <1>3, <1>c, <2>1 DEF RecordRun, HandTo, consoleVars
<1>4. ASSUME NEW t \in Tasks, NEW v \in Vms, NEW b \in Blocks, Execute(t, v, b) PROVE RunInv'
  <2>1. results[v] = NoResult
    BY <1>4 DEF Execute, RunInv
  <2> QED
    BY <1>0, <1>4, <2>1 DEF Execute, HandTo, fcVars
<1>5. ASSUME NEW v \in Vms, Speaks(v) PROVE RunInv'
  <2>0. proc[v] = "serving" /\ UNCHANGED <<fcVars, backendVars, block, results>>
    BY <1>5, SpeaksOnly
  <2>1. owner[v] = "creating"
    BY <2>0 DEF RunInv
  <2>2. \A w \in Vms \ {v} : console'[w] = console[w] /\ left'[w] = left[w] /\ at'[w] = at[w]
    BY <1>5, ConsoleStep
  <2> QED
    BY <1>0, <1>r, <2>0, <2>1, <2>2 DEF fcVars, backendVars
<1>6. CASE VmmRuns /\ UNCHANGED execVars
  <2>1. UNCHANGED <<owner, block, console, left, at, results>>
    BY <1>6, FcEffect DEF execVars, consoleVars
  <2>2. \A v \in Vms :
           /\ proc[v] = "none" => proc'[v] = "none"
           /\ proc[v] = "dead" => proc'[v] = "dead"
           /\ proc[v] = "dying" => proc'[v] \in {"dying", "dead"}
    BY <1>6, FcEffect DEF Live
  <2>3. \A v \in Vms : proc[v] \in {"none", "dying", "dead"} => proc'[v] \in {"none", "dying", "dead"}
    BY <2>2
  <2> QED
    BY <2>1, <2>2, <2>3 DEF RunInv
<1>7. CASE UNCHANGED vars
  BY <1>7 DEF vars, fcVars, backendVars, execVars, consoleVars, RunInv
<1> QED
  BY <1>1, <1>2, <1>3, <1>4, <1>5, <1>6, <1>7, Steps

\* A console goes on carrying the script of its block.
LEMMA PrintStep ==
    ASSUME TypeOK, Tables, RunInv, PrintInv, [Next]_vars
    PROVE  PrintInv' /\ block' \in [Vms -> Blocks \cup {Nothing}] /\ noises' \in 0 .. MaxNoise
<1> DEFINE Typing == block' \in [Vms -> Blocks \cup {Nothing}] /\ noises' \in 0 .. MaxNoise
<1>0. block \in [Vms -> Blocks \cup {Nothing}] /\ noises \in 0 .. MaxNoise
  BY DEF TypeOK
<1>1. ASSUME UNCHANGED <<block, consoleVars>> PROVE PrintInv' /\ Typing
  BY <1>0, <1>1 DEF PrintInv, consoleVars
<1>2. ASSUME NEW t \in Tasks, NEW v \in Vms, NEW b \in Blocks, Execute(t, v, b) PROVE PrintInv' /\ Typing
  <2>1. console[v] = <<>> /\ at[v] = <<>>
    BY <1>2 DEF Execute, RunInv
  <2>2. /\ block' = [block EXCEPT ![v] = b] /\ left' = [left EXCEPT ![v] = BuildCommand(b)]
        /\ UNCHANGED <<console, at, noises>>
    BY <1>2 DEF Execute
  <2>3. Printing(BlockTokens(b), <<>>, BuildCommand(b), <<>>, BuildCommand(b))
    BY BlockScript, PrintingBegins
  <2>4. block'[v] = b /\ left'[v] = BuildCommand(b) /\ \A w \in Vms \ {v} : block'[w] = block[w] /\ left'[w] = left[w]
    BY <1>0, <2>2 DEF Tables
  <2>5. ASSUME NEW w \in Vms, block'[w] # Nothing
        PROVE  Printing(BlockTokens(block'[w]), console'[w], left'[w], at'[w], BuildCommand(block'[w]))
    <3>1. CASE w = v
      BY <2>1, <2>2, <2>3, <2>4, <3>1
    <3>2. CASE w # v
      BY <2>2, <2>4, <2>5, <3>2 DEF PrintInv
    <3> QED
      BY <3>1, <3>2
  <2> QED
    BY <1>0, <2>2, <2>5 DEF PrintInv
<1>3. ASSUME NEW v \in Vms, Speaks(v) PROVE PrintInv' /\ Typing
  <2>1. UNCHANGED block
    BY <1>3, SpeaksOnly
  <2>2. /\ \A w \in Vms \ {v} : console'[w] = console[w] /\ left'[w] = left[w] /\ at'[w] = at[w]
        /\ Printing(BlockTokens(block[v]), console'[v], left'[v], at'[v], BuildCommand(block[v]))
        /\ noises' \in 0 .. MaxNoise
    BY <1>3, ConsoleStep
  <2>3. ASSUME NEW w \in Vms, block[w] # Nothing
        PROVE  Printing(BlockTokens(block[w]), console'[w], left'[w], at'[w], BuildCommand(block[w]))
    <3>1. CASE w = v
      BY <2>2, <3>1
    <3>2. CASE w # v
      BY <2>2, <2>3, <3>2 DEF PrintInv
    <3> QED
      BY <3>1, <3>2
  <2> QED
    BY <1>0, <2>1, <2>2, <2>3 DEF PrintInv
<1>4. \A t \in Tasks : Advances(t) \/ Errs(t) \/ RecordRun(t) => UNCHANGED <<block, consoleVars>>
  BY DEF Advances, Errs, RecordRun, execVars
<1> HIDE DEF Typing
<1>5. PrintInv' /\ Typing
  BY <1>1, <1>2, <1>3, <1>4, Steps DEF execVars, vars
<1> QED
  BY <1>5 DEF Typing

\* Every variable keeps its type.
LEMMA TypeStep ==
    ASSUME IInv, [Next]_vars
    PROVE  TypeOK'
<1>0. TypeOK /\ Tables /\ RunInv /\ PrintInv
  BY DEF IInv
<1>1. BackendOK'
  BY <1>0, Typed, BackendStep
<1>2. RunInv'
  BY RunStep DEF IInv
<1>3. \A v \in Vms : results'[v].status \in {"none", "Succeeded", "SpawnFailed", "Io", "dropped"}
  <2>1. NoResult.status = "none" /\ \A raw : RecordOf(raw).status = "Succeeded"
    BY DEF NoResult, RecordOf
  <2>2. \A error, cause : Failed(error, cause).status = error
    BY DEF Failed, NoResult
  <2> QED
    BY <1>2, <2>1, <2>2 DEF RunInv
<1>4. PrintInv' /\ block' \in [Vms -> Blocks \cup {Nothing}] /\ noises' \in 0 .. MaxNoise
  BY <1>0, PrintStep
<1>5. ASSUME NEW v \in Vms
      PROVE  console'[v] \in Seq(BlockTokens(block'[v])) /\ left'[v] \in Seq(BlockTokens(block'[v]))
  <2>1. CASE block'[v] = Nothing
    <3>1. console'[v] = <<>> /\ left'[v] = <<>>
      BY <1>2, <2>1, ExecutionAssumption DEF RunInv
    <3>2. \A S : <<>> \in Seq(S)
      OBVIOUS
    <3> QED
      BY <3>1, <3>2
  <2>2. CASE block'[v] # Nothing
    BY <1>4, <2>2 DEF PrintInv, Printing
  <2> QED
    BY <2>1, <2>2
<1> QED
  BY <1>1, <1>3, <1>4, <1>5 DEF TypeOK, BackendOK

\* Initially there is no process and no run.
LEMMA InvInit == Init => IInv
<1> SUFFICES ASSUME Init PROVE IInv
  OBVIOUS
<1> USE DEF Init, BackendInit, VmmInit
<1>1. VmmTypeOK /\ BackendTypeOK
  BY BackendAssumption DEF VmmTypeOK, BackendTypeOK, ProcStates
<1>2. Tables /\ RunInv
  BY DEF Tables, RunInv
<1>3. TaskInv /\ CallInv
  BY DEF TaskInv, CallInv
<1>4. NoResult.status = "none" /\ PrintInv
  BY DEF NoResult, PrintInv
<1>5. noises \in 0 .. MaxNoise /\ \A S : <<>> \in Seq(S)
  BY ExecutionAssumption
<1>6. TypeOK
  BY <1>1, <1>4, <1>5 DEF TypeOK
<1> QED
  BY <1>2, <1>3, <1>4, <1>6 DEF IInv

\* Every step of an execution preserves the invariant.
LEMMA InvStep == IInv /\ [Next]_vars => IInv'
BY TypeStep, TablesStep, TaskStep, CallStep, RunStep, PrintStep DEF IInv

-----------------------------------------------------------------------------
(* The theorems.                                                           *)

\* The invariant holds in every reachable state.
THEOREM Invariance == Spec => []IInv
BY InvInit, InvStep, PTL DEF Spec

\* Every variable of BlockExecution keeps its type in every reachable state.
THEOREM TypeCorrect == Spec => []TypeOK
<1>1. IInv => TypeOK
  BY DEF IInv
<1> QED
  BY <1>1, Invariance, PTL

\* No Firecracker process outlives the execute call that started it, whether
\* the call returned a record, failed, timed out or was dropped by its caller.
THEOREM NoProcessLeft == Spec => []NothingLeftRunning
<1>1. IInv => NothingLeftRunning
  <2>1. NoResult.status = "none" /\ \A raw : RecordOf(raw).status = "Succeeded"
    BY DEF NoResult, RecordOf
  <2>2. \A error, cause : Failed(error, cause).status = error
    BY DEF Failed, NoResult
  <2> QED
    BY <2>1, <2>2 DEF IInv, RunInv, NothingLeftRunning, Finished
<1> QED
  BY <1>1, Invariance, PTL

\* A record holds the block's whole output and exit code, and then the guest
\* got as far as printing the code, or the hash of exactly what was on the
\* console, and then the code was not printed or something broke into the
\* script: for any set of blocks run by any number of concurrent calls, with
\* any number of kernel messages.
THEOREM RecordsTellTheirRun == Spec => []RecordTellsTheRun
<1>1. ASSUME IInv, NEW v \in Vms, results[v].status = "Succeeded"
      PROVE  \/ /\ results[v].outputHash = ComputeHash(Echoed(block[v]), <<>>) /\ results[v].exitCode = <<"0">>
                /\ CodePrinted(v)
             \/ /\ results[v].outputHash = console[v] /\ results[v].exitCode = <<"-1">>
                /\ ~ (CodePrinted(v) /\ Undisturbed(v))
  <2> DEFINE c == console[v]
             b == block[v]
             result == ParseExecutionOutput(c)
             own == Output(Echoed(b), <<>>, <<"0">>)
  <2>1. NoResult.status = "none" /\ \A error, cause : Failed(error, cause).status = error
    BY DEF NoResult, Failed
  <2>2. results[v] = RecordOf(c) /\ b \in Blocks
    BY <1>1, <2>1 DEF IInv, RunInv
  <2>3. c \in Seq(BlockTokens(b)) /\ Carries(c, at[v], BuildCommand(b))
    BY <1>1, <2>2, ExecutionAssumption DEF IInv, PrintInv, Printing
  <2>4. results[v].outputHash = ComputeHash(result.stdout, result.stderr) /\ results[v].exitCode = result.exitCode
    BY <2>2 DEF RecordOf, HashOf
  <2>5. /\ (result = own /\ CodePrinted(v)) \/ result = Fallback(c)
        /\ CodePrinted(v) /\ Undisturbed(v) => result = own
    BY <2>3, ParsedConsole DEF CodePrinted, Undisturbed
  <2>6. \A o, e, code : /\ Output(o, e, code).stdout = o /\ Output(o, e, code).stderr = e
                        /\ Output(o, e, code).exitCode = code
    BY DEF Output
  <2>7. ComputeHash(c, <<>>) = c
    BY <2>3, ConcatEmptySeq DEF ComputeHash
  <2> HIDE DEF c, b, result
  <2>8. CASE result = own /\ CodePrinted(v)
    BY <2>4, <2>6, <2>8 DEF b
  <2>9. CASE result = Fallback(c)
    <3>1. result.stdout = c /\ result.stderr = <<>> /\ result.exitCode = <<"-1">>
      BY <2>6, <2>9 DEF Fallback
    <3>2. own.exitCode = <<"0">> /\ <<"0">> # <<"-1">>
      BY <2>6
    <3>3. ~ (CodePrinted(v) /\ Undisturbed(v))
      BY <2>5, <3>1, <3>2
    <3> QED
      BY <2>4, <2>7, <3>1, <3>3 DEF c
  <2> QED
    BY <2>5, <2>8, <2>9
<1>2. IInv => RecordTellsTheRun
  BY <1>1 DEF RecordTellsTheRun
<1> QED
  BY <1>2, Invariance, PTL

\* Once a call has returned, neither the record it returned nor the console
\* behind it changes any more.
THEOREM FinalRecords == Spec => RecordsAreFinal
<1> DEFINE Kept == \A v \in Vms : Finished(v) => results'[v] = results[v] /\ console'[v] = console[v]
<1>1. ASSUME IInv, [Next]_vars PROVE Kept
  <2>0. TypeOK /\ Tables /\ TaskInv /\ CallInv /\ RunInv /\ PrintInv
    BY <1>1 DEF IInv
  <2>1. \A v \in Vms : Finished(v) => owner[v] \in {"dropped", "ended"} /\ proc[v] # "serving"
    <3>1. NoResult.status = "none"
      BY DEF NoResult
    <3> QED
      BY <2>0, <3>1 DEF RunInv, Finished
  <2>2. \A t \in Tasks : call[t] = "execute" => vm[t] \in Vms /\ ~ Finished(vm[t])
    BY <2>0, <2>1 DEF TaskInv, CallInv
  <2>3. ASSUME NEW t \in Tasks, Advances(t) \/ Errs(t) \/ RecordRun(t) PROVE Kept
    BY <2>0, <2>2, <2>3 DEF Advances, Errs, RecordRun, At, execVars, consoleVars, Tables
  <2>4. ASSUME NEW v \in Vms, Speaks(v) PROVE Kept
    <3>1. proc[v] = "serving" /\ UNCHANGED results
      BY <2>4, SpeaksOnly
    <3>2. \A w \in Vms \ {v} : console'[w] = console[w]
      BY <2>0, <2>4, ConsoleStep
    <3> QED
      BY <2>1, <3>1, <3>2
  <2>5. CASE UNCHANGED <<console, results>>
    BY <2>5
  <2> HIDE DEF Kept
  <2> QED
    BY <1>1, <2>0, <2>3, <2>4, <2>5, Steps DEF Execute, vars, execVars, consoleVars
<1>2. IInv /\ [Next]_vars => [Kept]_vars
  BY <1>1
<1> QED
  BY <1>2, Invariance, PTL DEF Spec, RecordsAreFinal

-----------------------------------------------------------------------------
(* BlockExecution implements BlockRun.                                     *)

abstractVars == <<block, Powers, console, Verdicts>>

\* How a process shows to the caller, now and in the next state.
LEMMA PowerOf ==
    ASSUME NEW v \in Vms
    PROVE  /\ proc[v] = "none" => Powers[v] = "new"
           /\ proc[v] \in Live => Powers[v] = "on"
           /\ proc[v] \in {"dying", "dead"} => Powers[v] = "off"
           /\ proc'[v] = "none" => Powers'[v] = "new"
           /\ proc'[v] \in Live => Powers'[v] = "on"
           /\ proc'[v] \in {"dying", "dead"} => Powers'[v] = "off"
BY DEF Powers, Power, Live

\* How a result shows to the caller, now and in the next state.
LEMMA VerdictOf ==
    ASSUME NEW v \in Vms
    PROVE  /\ results[v] = NoResult => Verdicts[v] = Run!Open
           /\ \A cause :
                 /\ results'[v] = Failed("dropped", cause) => Verdicts'[v] = [end |-> "drop", digest |-> Run!Silence]
                 /\ \A error \in {"SpawnFailed", "Io"} :
                       results'[v] = Failed(error, cause) => Verdicts'[v] = [end |-> "error", digest |-> Run!Silence]
           /\ \A raw : results'[v] = RecordOf(raw) => Verdicts'[v] = [end |-> "record", digest |-> HashOf(raw)]
<1>1. NoResult.status = "none" /\ NoResult.outputHash = <<>>
  BY DEF NoResult
<1>2. \A error, cause : Failed(error, cause).status = error /\ Failed(error, cause).outputHash = <<>>
  BY DEF Failed, NoResult
<1>3. \A raw : RecordOf(raw).status = "Succeeded" /\ RecordOf(raw).outputHash = HashOf(raw)
  BY DEF RecordOf
<1> QED
  BY <1>1, <1>2, <1>3 DEF Verdicts, Verdict, Run!Open, Run!Silence

\* What does not change in the executor does not change for the caller, and a
\* change of one VM shows as a change of that VM only.
LEMMA Unseen ==
    ASSUME NEW v \in Vms
    PROVE  /\ UNCHANGED proc => UNCHANGED Powers
           /\ UNCHANGED results => UNCHANGED Verdicts
           /\ (\A w \in Vms \ {v} : proc'[w] = proc[w]) => Powers' = [Powers EXCEPT ![v] = Powers'[v]]
           /\ (\A w \in Vms \ {v} : results'[w] = results[w]) => Verdicts' = [Verdicts EXCEPT ![v] = Verdicts'[v]]
<1>1. \A w \in Vms : proc'[w] = proc[w] => Powers'[w] = Powers[w]
  BY DEF Powers, Power
<1>2. \A w \in Vms : results'[w] = results[w] => Verdicts'[w] = Verdicts[w]
  BY DEF Verdicts, Verdict
<1>3. /\ Powers = [w \in Vms |-> Powers[w]] /\ Powers' = [w \in Vms |-> Powers'[w]]
      /\ Verdicts = [w \in Vms |-> Verdicts[w]] /\ Verdicts' = [w \in Vms |-> Verdicts'[w]]
  BY DEF Powers, Verdicts
<1>4. UNCHANGED proc => UNCHANGED Powers
  BY <1>1, <1>3
<1>5. UNCHANGED results => UNCHANGED Verdicts
  BY <1>2, <1>3
<1>6. (\A w \in Vms \ {v} : proc'[w] = proc[w]) => Powers' = [Powers EXCEPT ![v] = Powers'[v]]
  BY <1>1, <1>3
<1>7. (\A w \in Vms \ {v} : results'[w] = results[w]) => Verdicts' = [Verdicts EXCEPT ![v] = Verdicts'[v]]
  BY <1>2, <1>3
<1> QED
  BY <1>4, <1>5, <1>6, <1>7

\* The processes and the results of the first state are those of a VM that is
\* new and of a run that has no verdict.
LEMMA RefinementInit == Init => Run!RunInit
<1> SUFFICES ASSUME Init PROVE Run!RunInit
  OBVIOUS
<1>1. block = [v \in Vms |-> Nothing] /\ console = [v \in Vms |-> <<>>]
  BY DEF Init
<1>2. Powers = [v \in Vms |-> "new"]
  <2>1. \A v \in Vms : Powers[v] = "new"
    BY PowerOf DEF Init, BackendInit, VmmInit
  <2> QED
    BY <2>1 DEF Powers
<1>3. \A v \in Vms : Verdicts[v] = Run!Open
  <2>1. \A v \in Vms : results[v] = NoResult
    BY DEF Init
  <2> QED
    BY <2>1, VerdictOf
<1>4. Verdicts = [v \in Vms |-> Run!Open]
  BY <1>3 DEF Verdicts
<1> QED
  BY <1>1, <1>2, <1>4 DEF Run!RunInit, Run!Silence

\* What is on a console stays there.
LEMMA PrefixStays ==
    ASSUME NEW T, NEW c \in Seq(T), NEW v \in Seq(T)
    PROVE  Len(c) <= Len(c \o v) /\ SubSeq(c \o v, 1, Len(c)) = c
<1> DEFINE u == c \o v
           b == SubSeq(u, 1, Len(c))
<1>0. Len(c) \in Nat /\ Len(v) \in Nat
  OBVIOUS
<1>1. u \in Seq(T) /\ Len(u) = Len(c) + Len(v) /\ \A i \in 1 .. Len(c) : u[i] = c[i]
  BY Grown
<1> HIDE DEF u
<1>2. Len(c) \in 0 .. Len(u)
  BY <1>0, <1>1
<1>3. b \in Seq(T) /\ Len(b) = Len(c) /\ \A i \in 1 .. Len(c) : b[i] = u[i]
  BY <1>1, <1>2, Prefix
<1> HIDE DEF b
<1>4. b = c
  BY <1>1, <1>3, SeqEqual
<1> QED
  BY <1>2, <1>4 DEF u, b

\* Every step of an execution is, for its caller, a step of a run or none.
LEMMA RefinementStep ==
    ASSUME IInv, [Next]_vars
    PROVE  UNCHANGED abstractVars \/ Run!RunNext
<1> DEFINE Goal == UNCHANGED abstractVars \/ Run!RunNext
<1> SUFFICES Goal
  OBVIOUS
<1> USE DEF abstractVars
<1>0. TypeOK /\ Tables /\ TaskInv /\ CallInv /\ RunInv /\ PrintInv
  BY DEF IInv
<1>l. ASSUME NEW v \in Vms, owner[v] = "creating" PROVE Run!Lasts(v)
  <2>1. block[v] # Nothing /\ results[v] = NoResult
    BY <1>0, <1>l, ExecutionAssumption DEF RunInv
  <2> QED
    BY <2>1, VerdictOf DEF Run!Lasts
<1>c. ASSUME NEW t \in Tasks, call[t] = "execute" PROVE vm[t] \in Vms /\ owner[vm[t]] = "creating"
  BY <1>0, <1>c DEF TaskInv, CallInv
<1>u. ASSUME UNCHANGED <<block, console>>, UNCHANGED proc, UNCHANGED results PROVE Goal
  <2>1. UNCHANGED Powers /\ UNCHANGED Verdicts
    BY <1>u DEF Powers, Power, Verdicts, Verdict
  <2> QED
    BY <1>u, <2>1
<1>1. ASSUME NEW t \in Tasks, Advances(t) PROVE Goal
  <2> DEFINE v == vm[t]
  <2>1. v \in Vms /\ Run!Lasts(v) /\ UNCHANGED <<block, console, results>>
    BY <1>1, <1>c, <1>l DEF Advances, execVars, consoleVars
  <2>2. CASE pc[t] = "mkdir" /\ proc' = [proc EXCEPT ![v] = "starting"]
    <3>1. proc[v] = "none" /\ proc'[v] = "starting" /\ \A w \in Vms \ {v} : proc'[w] = proc[w]
      BY <1>0, <1>1, <2>1, <2>2, Typed DEF Advances, CallInv
    <3>2. Powers[v] = "new" /\ Powers' = [Powers EXCEPT ![v] = "on"] /\ UNCHANGED Verdicts
      BY <2>1, <3>1, PowerOf, Unseen DEF Live
    <3>3. Run!PowerOn(v)
      BY <2>1, <3>2 DEF Run!PowerOn
    <3> QED
      BY <2>1, <3>3 DEF Run!RunNext
  <2> QED
    BY <1>1, <1>u, <2>1, <2>2 DEF Advances
<1>2. ASSUME NEW t \in Tasks, Errs(t) PROVE Goal
  <2> DEFINE v == vm[t]
  <2>1. v \in Vms /\ Run!Lasts(v) /\ UNCHANGED <<block, console>>
    BY <1>2, <1>c, <1>l DEF Errs, consoleVars
  <2>2. proc' = Killed(v)
    BY <1>2 DEF Errs, GiveUp, DropChild
  <2>3. Powers' = [Powers EXCEPT ![v] = IF Powers[v] = "on" THEN "off" ELSE Powers[v]]
    <3>1. \A w \in Vms \ {v} : proc'[w] = proc[w]
      BY <1>0, <2>1, <2>2, Typed DEF Killed
    <3>2. proc[v] \in Live => proc'[v] = "dying"
      BY <1>0, <2>1, <2>2, Typed DEF Killed
    <3>3. proc[v] \notin Live => proc'[v] = proc[v] /\ proc[v] \in {"none", "dying", "dead"}
      BY <1>0, <2>1, <2>2, Typed DEF Killed, ProcStates
    <3>4. Powers'[v] = IF Powers[v] = "on" THEN "off" ELSE Powers[v]
      BY <2>1, <3>2, <3>3, PowerOf
    <3> QED
      BY <2>1, <3>1, <3>4, Unseen
  <2>4. PICK error \in {"SpawnFailed", "Io", "dropped"}, cause \in {"start", "read", "timeout", "cancel"} :
           results' = [results EXCEPT ![v] = Failed(error, cause)]
    BY <1>2 DEF Errs
  <2>5. results'[v] = Failed(error, cause) /\ \A w \in Vms \ {v} : results'[w] = results[w]
    BY <1>0, <2>1, <2>4 DEF Tables
  <2>6. Verdicts' = [Verdicts EXCEPT ![v] = Verdicts'[v]]
    BY <2>1, <2>5, Unseen
  <2>7. \E end \in {"error", "drop"} : Verdicts'[v] = [end |-> end, digest |-> Run!Silence]
    BY <2>1, <2>5, VerdictOf
  <2>8. Run!EndWithout(v, "error") \/ Run!EndWithout(v, "drop")
    BY <2>1, <2>3, <2>6, <2>7 DEF Run!EndWithout
  <2> QED
    BY <2>1, <2>8 DEF Run!RunNext
<1>3. ASSUME NEW t \in Tasks, RecordRun(t) PROVE Goal
  <2> DEFINE v == vm[t]
  <2>1. v \in Vms /\ Run!Lasts(v) /\ proc[v] = "dead"
    BY <1>0, <1>3, <1>c, <1>l DEF RecordRun, At, CallInv
  <2>2. /\ UNCHANGED <<proc, block, console>>
        /\ results'[v] = RecordOf(console[v]) /\ \A w \in Vms \ {v} : results'[w] = results[w]
    BY <1>0, <1>3, <2>1 DEF RecordRun, Tables, consoleVars
  <2>3. Verdicts' = [Verdicts EXCEPT ![v] = [end |-> "record", digest |-> HashOf(console[v])]]
    BY <2>1, <2>2, Unseen, VerdictOf
  <2>4. Powers[v] = "off" /\ UNCHANGED Powers
    BY <2>1, <2>2, PowerOf, Unseen
  <2>5. Run!MakeRecord(v)
    BY <2>1, <2>2, <2>3, <2>4 DEF Run!MakeRecord
  <2> QED
    BY <2>1, <2>5 DEF Run!RunNext
<1>4. ASSUME NEW t \in Tasks, NEW v \in Vms, NEW b \in Blocks, Execute(t, v, b) PROVE Goal
  <2>1. block[v] = Nothing
    BY <1>0, <1>4 DEF Execute, RunInv
  <2>2. UNCHANGED Powers /\ UNCHANGED Verdicts
    BY <1>4, Unseen DEF Execute, fcVars
  <2>3. Run!BeginRun(v, b)
    BY <1>4, <2>1, <2>2 DEF Execute, Run!BeginRun
  <2> QED
    BY <2>3 DEF Run!RunNext
<1>5. ASSUME NEW v \in Vms, Speaks(v) PROVE Goal
  <2>0. proc[v] = "serving" /\ block[v] # Nothing /\ UNCHANGED <<fcVars, block, results>>
    BY <1>5, SpeaksOnly
  <2>1. Powers[v] = "on" /\ UNCHANGED Powers /\ UNCHANGED Verdicts /\ UNCHANGED block
    BY <2>0, PowerOf, Unseen DEF fcVars, Live
  <2>2. PICK tokens \in Seq(BlockTokens(block[v])) : console'[v] = console[v] \o tokens
    BY <1>0, <1>5, ConsoleStep
  <2>3. Len(console[v]) <= Len(console'[v]) /\ SubSeq(console'[v], 1, Len(console[v])) = console[v]
    <3>1. console[v] \in Seq(BlockTokens(block[v]))
      BY <1>0, <2>0 DEF PrintInv, Printing
    <3> QED
      BY <2>2, <3>1, PrefixStays
  <2>4. console' = [console EXCEPT ![v] = console'[v]]
    <3>1. Tables' /\ \A w \in Vms \ {v} : console'[w] = console[w]
      BY <1>0, <1>5, ConsoleStep
    <3>2. console = [w \in Vms |-> console[w]] /\ console' = [w \in Vms |-> console'[w]]
      BY <1>0, <3>1 DEF Tables
    <3> QED
      BY <3>1, <3>2
  <2>5. Run!Prints(v)
    BY <2>1, <2>3, <2>4 DEF Run!Prints
  <2> QED
    BY <2>5 DEF Run!RunNext
<1>6. ASSUME VmmRuns, UNCHANGED execVars PROVE Goal
  <2>0. UNCHANGED <<block, console, results>>
    BY <1>6 DEF execVars, consoleVars
  <2>1. ASSUME NEW v \in Vms, FcBind(v) \/ FcListen(v) \/ FcExit(v) \/ OsReap(v) PROVE Goal
    <3>1. \A w \in Vms \ {v} : proc'[w] = proc[w]
      BY <1>0, <2>1, Typed DEF FcBind, FcListen, FcExit, OsReap, Dies
    <3>2. Powers' = [Powers EXCEPT ![v] = Powers'[v]] /\ UNCHANGED Verdicts
      BY <2>0, <3>1, Unseen
    <3>3. CASE FcExit(v)
      <4>1. Powers[v] = "on" /\ Powers'[v] = "off"
        BY <1>0, <3>3, PowerOf, Typed DEF FcExit, Dies
      <4>2. Run!PowerOff(v)
        BY <2>0, <3>2, <4>1 DEF Run!PowerOff
      <4> QED
        BY <4>2 DEF Run!RunNext
    <3>4. CASE FcBind(v) \/ FcListen(v) \/ OsReap(v)
      <4>1. Powers'[v] = Powers[v]
        BY <1>0, <3>4, PowerOf, Typed DEF FcBind, FcListen, OsReap, Dies, Live
      <4>2. UNCHANGED Powers
        BY <3>2, <4>1 DEF Powers
      <4> QED
        BY <2>0, <3>2, <4>2
    <3> QED
      BY <2>1, <3>3, <3>4
  <2>2. CASE (\E t \in Tasks : FcAnswer(t) \/ FcRefuse(t)) \/ \E m \in stray : FcStray(m)
    BY <1>u, <2>0, <2>2 DEF FcAnswer, FcRefuse, FcStray
  <2> QED
    BY <1>6, <2>1, <2>2 DEF VmmRuns, FcStep
<1>7. CASE UNCHANGED vars
  BY <1>u, <1>7 DEF vars, fcVars, execVars, consoleVars
<1> HIDE DEF Goal
<1> QED
  BY <1>0, <1>1, <1>2, <1>3, <1>4, <1>5, <1>6, <1>7, Steps

\* Seen by its caller, every execution is a run of BlockRun: it ends once,
\* its VM is off from that moment on, and a record is made of all that its own
\* VM printed.
THEOREM Refinement == Spec => ImplementsBlockRun
<1>1. IInv /\ [Next]_vars => [Run!RunNext]_abstractVars
  BY RefinementStep
<1> QED
  BY <1>1, RefinementInit, Invariance, PTL
  DEF Spec, ImplementsBlockRun, Run!RunSpec, Run!runVars, abstractVars
=============================================================================
