----------------------- MODULE BackendPreflightProofs -----------------------
(***************************************************************************)
(* Proofs about BackendPreflight, for any number of callers and of changes *)
(* of the host.                                                            *)
(***************************************************************************)
EXTENDS BackendPreflight, TLAPS

\* A call by itself: where it is, and that it has a result when it is over.
CallInv ==
    /\ pc \in [Tasks -> {"idle", "kvm", "metadata", "given", "which", "mkdir"}]
    /\ \A t \in Tasks :
          /\ call[t] = "none" => pc[t] = "idle" /\ outcome[t] = "none"
          /\ pc[t] # "idle" => outcome[t] = "none"
          /\ began[t] <= version /\ ended[t] <= version

\* What spawn has seen so far of the places that kept speaks of.
SpawnInv ==
    \A t \in Tasks :
        /\ kept[t] \subseteq files
        /\ call[t] = "spawn" /\ pc[t] = "which" => kept[t] \cap GivenPlaces = {}
        /\ call[t] = "spawn" /\ outcome[t] = "BinaryNotFound" =>
              kept[t] \cap (GivenPlaces \cup WhichPlaces) = {}

\* While the host is as it was when a call began, what the call has seen
\* and what it returned are true of the host.
SeenInv ==
    \A t \in Tasks : began[t] = version =>
        /\ pc[t] \in {"metadata", "given", "which"} => kvm
        /\ pc[t] = "mkdir" /\ call[t] # "restore" => kvm
        /\ Returned(t, {"health"}) => (outcome[t] = "Ok" <=> kvm /\ At(WhichPlaces))
        /\ Returned(t, {"spawn", "execute"}) /\ outcome[t] # "Io" /\ LooksAlike =>
              (outcome[t] = "Started" <=> kvm /\ At(ExecPlaces))

IInv == TypeOK /\ CallInv /\ SpawnInv /\ SeenInv /\ HealthAgrees

-----------------------------------------------------------------------------
\* A look of t moves it on, or ends its call with what it saw.
Moves(t) ==
    \/ pc[t] = "kvm" /\ kvm /\ call[t] = "health" /\ Goto(t, "metadata")
    \/ pc[t] = "kvm" /\ kvm /\ call[t] = "spawn" /\ Goto(t, "given")
    \/ pc[t] = "kvm" /\ kvm /\ call[t] = "execute" /\ Goto(t, "which")
    \/ pc[t] = "metadata" /\ kvm /\ Goto(t, "which")
    \/ pc[t] = "given" /\ At(GivenPlaces) /\ Goto(t, "mkdir")
    \/ pc[t] = "given" /\ ~ At(GivenPlaces) /\ Goto(t, "which")
    \/ pc[t] = "which" /\ At(WhichPlaces) /\ call[t] # "health" /\ Goto(t, "mkdir")

Settles(t) ==
    \/ pc[t] \in {"kvm", "metadata"} /\ ~ kvm /\ Returns(t, "KvmUnavailable")
    \/ pc[t] = "which" /\ ~ At(WhichPlaces) /\ Returns(t, "BinaryNotFound")
    \/ pc[t] = "which" /\ At(WhichPlaces) /\ call[t] = "health" /\ Returns(t, "Ok")
    \/ pc[t] = "mkdir" /\ At(ExecPlaces) /\ Returns(t, "Started")
    \/ pc[t] = "mkdir" /\ ~ At(ExecPlaces) /\ Returns(t, "NoEntry")
    \/ pc[t] = "mkdir" /\ Returns(t, "Io")

\* Where the looks of a call are.
LEMMA LooksOfCalls ==
    ASSUME TypeOK, NEW t \in Tasks
    PROVE  /\ call[t] \in Calls \cup {"none"}
           /\ call[t] = "none" => pc[t] = "idle"
           /\ call[t] = "health" => pc[t] \in {"idle", "kvm", "metadata", "which"}
           /\ call[t] = "spawn" => pc[t] \in {"idle", "kvm", "given", "which", "mkdir"}
           /\ call[t] = "execute" => pc[t] \in {"idle", "kvm", "which", "mkdir"}
           /\ call[t] = "restore" => pc[t] \in {"idle", "mkdir"}
<1>1. call[t] \in Calls \cup {"none"} /\ pc[t] \in LooksOf(call[t]) \cup {"idle"}
  BY DEF TypeOK
<1>2. QED
  BY <1>1 DEF LooksOf, Calls

\* Every step begins a call, is a look of a call, or changes the host.
LEMMA StepOfATask ==
    ASSUME TypeOK, Next
    PROVE  \/ HostChanges
           \/ \E t \in Tasks, c \in Calls : Begin(t, c)
           \/ \E t \in Tasks :
                 (Moves(t) \/ Settles(t)) /\ UNCHANGED <<hostVars, call, began, kept>>
<1>1. ASSUME NEW t \in Tasks, LookForKvm(t)
      PROVE  (Moves(t) \/ Settles(t)) /\ UNCHANGED <<hostVars, call, began, kept>>
  <2>1. call[t] \in {"health", "spawn", "execute"}
    BY <1>1, LooksOfCalls DEF LookForKvm, Calls
  <2>2. AfterKvm(call[t]) = IF call[t] = "health" THEN "metadata"
                            ELSE IF call[t] = "spawn" THEN "given" ELSE "which"
    BY <2>1 DEF AfterKvm
  <2>3. CASE kvm
    BY <1>1, <2>1, <2>2, <2>3 DEF LookForKvm, Moves
  <2>4. CASE ~kvm
    BY <1>1, <2>4 DEF LookForKvm, Settles
  <2>5. QED
    BY <2>3, <2>4
<1>2. ASSUME NEW t \in Tasks, KvmMetadata(t)
      PROVE  (Moves(t) \/ Settles(t)) /\ UNCHANGED <<hostVars, call, began, kept>>
  BY <1>2, Zenon DEF KvmMetadata, Moves, Settles
<1>3. ASSUME NEW t \in Tasks, LookAtGiven(t)
      PROVE  (Moves(t) \/ Settles(t)) /\ UNCHANGED <<hostVars, call, began, kept>>
  BY <1>3, Zenon DEF LookAtGiven, Moves
<1>4. ASSUME NEW t \in Tasks, WhichBinary(t)
      PROVE  (Moves(t) \/ Settles(t)) /\ UNCHANGED <<hostVars, call, began, kept>>
  BY <1>4, Zenon DEF WhichBinary, Moves, Settles
<1>5. ASSUME NEW t \in Tasks, ExecVmm(t)
      PROVE  (Moves(t) \/ Settles(t)) /\ UNCHANGED <<hostVars, call, began, kept>>
  BY <1>5, Zenon DEF ExecVmm, Settles
<1>6. QED
  BY <1>1, <1>2, <1>3, <1>4, <1>5, Zenon DEF Next

\* The places to look at depend on the configuration alone.
LEMMA PlacesFixed ==
    ASSUME UNCHANGED <<style, searchPath>>
    PROVE  /\ GivenPlaces' = GivenPlaces /\ WhichPlaces' = WhichPlaces
           /\ ExecPlaces' = ExecPlaces /\ Places' = Places
           /\ LooksAlike' <=> LooksAlike
BY DEF GivenPlaces, WhichPlaces, ExecPlaces, Places, LooksAlike

\* The host, the calls and their results stay of their types.
LEMMA TypeStep ==
    ASSUME TypeOK, CallInv, [Next]_vars
    PROVE  TypeOK' /\ CallInv'
<1> DEFINE Pcs == {"idle", "kvm", "metadata", "given", "which", "mkdir"}
<1>a. /\ call \in [Tasks -> Calls \cup {"none"}] /\ outcome \in [Tasks -> Outcomes \cup {"none"}]
      /\ pc \in [Tasks -> Pcs] /\ version \in Nat /\ version <= MaxChanges
      /\ began \in [Tasks -> 0 .. MaxChanges] /\ ended \in [Tasks -> 0 .. MaxChanges]
      /\ kept \in [Tasks -> SUBSET Places] /\ files \in SUBSET Places
  BY PreflightAssumption DEF TypeOK, CallInv
<1>1. CASE UNCHANGED vars
  BY <1>1, PlacesFixed DEF TypeOK, CallInv, vars, hostVars
<1>2. CASE HostChanges
  <2>1. UNCHANGED <<style, searchPath, call, pc, outcome, began, ended>>
    BY <1>2 DEF HostChanges
  <2>2. version' = version + 1 /\ version' \in 0 .. MaxChanges
    BY <1>2, <1>a, PreflightAssumption DEF HostChanges
  <2>3. files' \in SUBSET Places /\ kvm' \in BOOLEAN
    BY <1>2 DEF HostChanges, TypeOK
  <2>4. kept' \in [Tasks -> SUBSET Places]
    BY <1>2, <1>a DEF HostChanges
  <2>5. QED
    BY <2>1, <2>2, <2>3, <2>4, <1>a, PlacesFixed DEF TypeOK, CallInv
<1>3. ASSUME NEW t \in Tasks, NEW c \in Calls, Begin(t, c) PROVE TypeOK' /\ CallInv'
  <2>1. /\ UNCHANGED <<hostVars, outcome, ended>>
        /\ call' = [call EXCEPT ![t] = c]
        /\ pc' = [pc EXCEPT ![t] = IF c = "restore" THEN "mkdir" ELSE "kvm"]
        /\ began' = [began EXCEPT ![t] = version] /\ kept' = [kept EXCEPT ![t] = files]
        /\ call[t] = "none"
    BY <1>3 DEF Begin, Goto
  <2>2. \A q \in Tasks : pc'[q] \in LooksOf(call'[q]) \cup {"idle"}
    BY <2>1, <1>a DEF TypeOK, LooksOf, Calls
  <2>3. TypeOK'
    BY <2>1, <2>2, <1>a, PlacesFixed, PreflightAssumption DEF TypeOK, hostVars
  <2>4. CallInv'
    BY <2>1, <1>a, PreflightAssumption DEF CallInv, hostVars, Calls
  <2>5. QED
    BY <2>3, <2>4
<1>4. ASSUME NEW t \in Tasks, Moves(t), UNCHANGED <<hostVars, call, began, kept>>
      PROVE  TypeOK' /\ CallInv'
  <2>1. PICK p \in Pcs \ {"idle", "kvm"} : Goto(t, p) /\ p \in LooksOf(call[t])
    BY <1>4, LooksOfCalls DEF Moves, LooksOf, Calls
  <2>2. pc[t] # "idle"
    BY <1>4 DEF Moves
  <2>3. \A q \in Tasks : pc'[q] \in LooksOf(call'[q]) \cup {"idle"}
    BY <1>4, <2>1, <1>a DEF TypeOK, Goto
  <2>4. TypeOK'
    BY <1>4, <2>1, <2>3, PlacesFixed DEF TypeOK, hostVars, Goto
  <2>5. CallInv'
    BY <1>4, <2>1, <2>2, <1>a DEF CallInv, hostVars, Goto
  <2>6. QED
    BY <2>4, <2>5
<1>5. ASSUME NEW t \in Tasks, Settles(t), UNCHANGED <<hostVars, call, began, kept>>
      PROVE  TypeOK' /\ CallInv'
  <2>1. PICK o \in Outcomes : Returns(t, o) /\ pc[t] # "idle"
    BY <1>5 DEF Settles, Outcomes
  <2>2. call[t] # "none"
    BY <2>1, LooksOfCalls
  <2>3. \A q \in Tasks : pc'[q] \in LooksOf(call'[q]) \cup {"idle"}
    BY <1>5, <2>1, <1>a DEF TypeOK, Returns
  <2>4. TypeOK'
    BY <1>5, <2>1, <2>3, <1>a, PlacesFixed, PreflightAssumption DEF TypeOK, hostVars, Returns
  <2>5. CallInv'
    BY <1>5, <2>1, <2>2, <1>a, PreflightAssumption DEF CallInv, hostVars, Returns
  <2>6. QED
    BY <2>4, <2>5
<1>6. QED
  BY <1>1, <1>2, <1>3, <1>4, <1>5, StepOfATask

\* spawn has looked at a place itself, or has skipped it for which_binary.
LEMMA SpawnStep ==
    ASSUME TypeOK, CallInv, SpawnInv, [Next]_vars
    PROVE  SpawnInv'
<1> USE DEF SpawnInv
<1>1. CASE UNCHANGED vars
  BY <1>1, PlacesFixed DEF vars, hostVars
<1>2. CASE HostChanges
  BY <1>2, PlacesFixed DEF HostChanges
<1>3. ASSUME NEW t \in Tasks, NEW c \in Calls, Begin(t, c) PROVE SpawnInv'
  BY <1>3, PlacesFixed DEF Begin, Goto, TypeOK, CallInv, hostVars
<1>4. ASSUME NEW t \in Tasks, Moves(t), UNCHANGED <<hostVars, call, began, kept>>
      PROVE  SpawnInv'
  <2>1. UNCHANGED outcome /\ \E p : pc' = [pc EXCEPT ![t] = p]
    BY <1>4 DEF Moves, Goto
  <2>2. call[t] = "spawn" /\ pc'[t] = "which" => files \cap GivenPlaces = {}
    BY <1>4, LooksOfCalls DEF Moves, Goto, At, CallInv
  <2>3. QED
    BY <1>4, <2>1, <2>2, PlacesFixed DEF hostVars, CallInv
<1>5. ASSUME NEW t \in Tasks, Settles(t), UNCHANGED <<hostVars, call, began, kept>>
      PROVE  SpawnInv'
  <2>1. \E o : pc' = [pc EXCEPT ![t] = "idle"] /\ outcome' = [outcome EXCEPT ![t] = o]
    BY <1>5 DEF Settles, Returns
  <2>2. outcome'[t] = "BinaryNotFound" => files \cap WhichPlaces = {} /\ pc[t] = "which"
    BY <1>5 DEF Settles, Returns, At, TypeOK
  <2>3. QED
    BY <1>5, <2>1, <2>2, PlacesFixed DEF hostVars, CallInv, TypeOK
<1>6. QED
  BY <1>1, <1>2, <1>3, <1>4, <1>5, StepOfATask

\* A look at an unchanged host sees what is there.
LEMMA SeenStep ==
    ASSUME TypeOK, CallInv, SeenInv, [Next]_vars
    PROVE  SeenInv'
<1>1. CASE UNCHANGED vars
  BY <1>1, PlacesFixed DEF SeenInv, Returned, At, vars, hostVars
<1>2. CASE HostChanges
  <2>1. \A t \in Tasks : began'[t] # version'
    BY <1>2, PreflightAssumption DEF HostChanges, CallInv, TypeOK
  <2>2. QED
    BY <2>1 DEF SeenInv
<1>3. ASSUME NEW t \in Tasks, NEW c \in Calls, Begin(t, c) PROVE SeenInv'
  <2>1. /\ UNCHANGED <<hostVars, outcome, ended>>
        /\ call' = [call EXCEPT ![t] = c]
        /\ pc' = [pc EXCEPT ![t] = IF c = "restore" THEN "mkdir" ELSE "kvm"]
        /\ began' = [began EXCEPT ![t] = version]
        /\ outcome[t] = "none"
    BY <1>3 DEF Begin, Goto, CallInv
  <2>2. QED
    BY <2>1, PlacesFixed DEF SeenInv, Returned, At, hostVars, TypeOK, CallInv
<1>4. ASSUME NEW t \in Tasks, Moves(t), UNCHANGED <<hostVars, call, began, kept>>
      PROVE  SeenInv'
  <2>1. UNCHANGED <<outcome, ended>> /\ \E p : pc' = [pc EXCEPT ![t] = p]
    BY <1>4 DEF Moves, Goto
  <2>2. pc[t] # "kvm" => pc[t] \in {"metadata", "given", "which"}
    BY <1>4 DEF Moves
  <2>3. began[t] = version => kvm
    BY <1>4, <2>2 DEF Moves, SeenInv
  <2>4. QED
    BY <1>4, <2>1, <2>3, PlacesFixed DEF SeenInv, Returned, At, hostVars, CallInv
<1>5. ASSUME NEW t \in Tasks, Settles(t), UNCHANGED <<hostVars, call, began, kept>>
      PROVE  SeenInv'
  <2>1. \E o : /\ pc' = [pc EXCEPT ![t] = "idle"] /\ outcome' = [outcome EXCEPT ![t] = o]
               /\ ended' = [ended EXCEPT ![t] = version]
    BY <1>5 DEF Settles, Returns
  <2>2. ASSUME began[t] = version, call[t] = "health"
        PROVE  outcome'[t] = "Ok" <=> kvm /\ At(WhichPlaces)
    BY <1>5, <2>2, LooksOfCalls DEF Settles, Returns, SeenInv, TypeOK
  <2>3. ASSUME began[t] = version, call[t] \in {"spawn", "execute"}, outcome'[t] # "Io", LooksAlike
        PROVE  outcome'[t] = "Started" <=> kvm /\ At(ExecPlaces)
    BY <1>5, <2>3 DEF Settles, Returns, SeenInv, TypeOK, LooksAlike
  <2>4. QED
    BY <1>5, <2>1, <2>2, <2>3, PlacesFixed DEF SeenInv, Returned, At, hostVars, CallInv, TypeOK
<1>6. QED
  BY <1>1, <1>2, <1>3, <1>4, <1>5, StepOfATask

\* Calls that end now saw the host as it is, so they agree; calls that ended
\* on an earlier host have agreed before.
LEMMA AgreementStep ==
    ASSUME IInv, SeenInv', [Next]_vars
    PROVE  HealthAgrees'
<1> USE DEF IInv
<1> SUFFICES ASSUME LooksAlike', NEW q \in Tasks, NEW t \in Tasks,
                    Returned(q, {"health"})', Returned(t, {"spawn", "execute"})',
                    began'[q] = began'[t], outcome'[t] # "Io"
             PROVE  outcome'[q] = "Ok" <=> outcome'[t] = "Started"
  BY DEF HealthAgrees
<1>1. CASE began'[q] = version'
  BY <1>1 DEF SeenInv, LooksAlike
<1>2. CASE began'[q] # version'
  <2>1. /\ UNCHANGED <<style, searchPath>>
        /\ \A x \in {q, t} : /\ UNCHANGED call[x] /\ UNCHANGED outcome[x]
                             /\ UNCHANGED began[x] /\ UNCHANGED ended[x]
    <3>1. CASE UNCHANGED vars
      BY <3>1 DEF vars, hostVars
    <3>2. CASE HostChanges
      BY <3>2 DEF HostChanges
    <3>3. ASSUME NEW x \in Tasks, NEW c \in Calls, Begin(x, c)
          PROVE  /\ UNCHANGED <<style, searchPath, version, outcome, ended>>
                 /\ \A y \in Tasks : /\ y # x => UNCHANGED call[y] /\ UNCHANGED began[y]
                                     /\ y = x => began'[y] = version
      BY <3>3 DEF Begin, Goto, hostVars, TypeOK
    <3>4. ASSUME NEW x \in Tasks, Moves(x) \/ Settles(x), UNCHANGED <<hostVars, call, began, kept>>
          PROVE  /\ UNCHANGED <<style, searchPath, version, call, began>>
                 /\ \A y \in Tasks : /\ y # x => UNCHANGED outcome[y] /\ UNCHANGED ended[y]
                                     /\ y = x => \/ UNCHANGED outcome[y] /\ UNCHANGED ended[y]
                                                 \/ ended'[y] = version
      BY <3>4 DEF Moves, Settles, Goto, Returns, hostVars, TypeOK
    <3>5. QED
      BY <1>2, <3>1, <3>2, <3>3, <3>4, StepOfATask DEF Returned
  <2>2. QED
    BY <2>1, PlacesFixed DEF HealthAgrees, Returned
<1>3. QED
  BY <1>1, <1>2

\* The checks keep their inductive invariant, however the host changes.
THEOREM Invariance == Spec => []IInv
<1>1. Init => IInv
  <2> SUFFICES ASSUME Init PROVE IInv
    OBVIOUS
  <2>1. TypeOK /\ CallInv
    BY PreflightAssumption DEF Init, TypeOK, CallInv
  <2>2. SpawnInv /\ SeenInv /\ HealthAgrees
    BY DEF Init, SpawnInv, SeenInv, HealthAgrees, Returned
  <2>3. QED
    BY <2>1, <2>2 DEF IInv
<1>2. IInv /\ [Next]_vars => IInv'
  BY TypeStep, SpawnStep, SeenStep, AgreementStep DEF IInv
<1>3. QED
  BY <1>1, <1>2, PTL DEF Spec

\* The host, the calls and their results stay of their types.
THEOREM TypeCorrect == Spec => []TypeOK
<1>1. IInv => TypeOK
  BY DEF IInv
<1>2. QED
  BY <1>1, Invariance, PTL

\* health_check and the heads of spawn and execute_command come to the same
\* result on the same host, wherever their looks interleave.
THEOREM HealthCheckHonest == Spec => []HealthAgrees
<1>1. IInv => HealthAgrees
  BY DEF IInv
<1>2. QED
  BY <1>1, Invariance, PTL

\* spawn does not report BinaryNotFound of a binary that exec would find,
\* though the looks of one call are spread over changes of the host.
THEOREM NothingRefused == Spec => []SpawnRefusesNothingStartable
<1>1. IInv => SpawnRefusesNothingStartable
  BY DEF IInv, SpawnInv, SpawnRefusesNothingStartable
<1>2. QED
  BY <1>1, Invariance, PTL
=============================================================================
