------------------------- MODULE GuestConsoleProofs -------------------------
(***************************************************************************)
(* Proofs about the console of a guest: what is made of it, for streams    *)
(* and exit codes of any length, any number of kernel messages and any     *)
(* place at which it stops.                                                *)
(***************************************************************************)
EXTENDS GuestConsole, SerialConsoleProofs

\* What the tokens of a console may hold.
Alphabet == Letters \cup STRING

ConsoleType ==
    /\ out \in Streams(Alphabet) /\ err \in Streams(Alphabet)
    /\ code \in Seq(Alphabet) /\ code # <<>>

\* The inductive invariant.
ConsoleInv == ConsoleType /\ Printing(Tokens(Alphabet), raw, left, at, Script)

-----------------------------------------------------------------------------
(* The invariant.                                                          *)

\* The script is made of such tokens.
LEMMA ScriptType ==
    ASSUME ConsoleType
    PROVE  Script \in Seq(Tokens(Alphabet)) /\ Len(Script) \in Nat
<1>1. out \in Streams(Alphabet) /\ err \in Streams(Alphabet) /\ code \in Seq(Alphabet)
  BY DEF ConsoleType
<1>2. Script \in Seq(Tokens(Alphabet))
  BY <1>1, ScriptLayout DEF Script
<1> QED
  BY <1>2, LenProperties

\* An empty console carries none of the script yet.
LEMMA InitConsole == Init => ConsoleInv
<1> SUFFICES ASSUME Init PROVE ConsoleInv
  OBVIOUS
<1>1. ASSUME NEW max \in Nat, NEW t \in Texts(max) PROVE t \in Streams(Alphabet)
  <2> DEFINE A == {Text(c) : c \in Letters}
             B == {Text(c) : c \in Alphabet}
  <2>1. A \subseteq B
    BY DEF Alphabet
  <2>2. PICK n \in 0 .. max : t \in [1 .. n -> A]
    BY DEF Texts
  <2>3. Streams(Alphabet) = Seq(B)
    BY DEF Streams
  <2> HIDE DEF A, B
  <2>4. t \in [1 .. n -> B] /\ n \in Nat
    BY <2>1, <2>2
  <2> QED
    BY <2>3, <2>4, SeqDef
<1>2. out \in Streams(Alphabet) /\ err \in Streams(Alphabet)
  BY <1>1, ConsoleAssumption DEF Init
<1>3. code \in Seq(Alphabet) /\ code # <<>>
  <2>1. code \in Seq(STRING) /\ code # <<>>
    BY ConsoleAssumption DEF Init
  <2>2. STRING \subseteq Alphabet
    BY DEF Alphabet
  <2> QED
    BY <2>1, <2>2, SeqMonotonic
<1>4. raw = <<>> /\ at = <<>> /\ left = Script
  BY DEF Init
<1>5. ConsoleType
  BY <1>2, <1>3 DEF ConsoleType
<1>6. Printing(Tokens(Alphabet), <<>>, Script, <<>>, Script)
  BY <1>5, ScriptType, PrintingBegins
<1> QED
  BY <1>4, <1>5, <1>6 DEF ConsoleInv

\* Every step keeps the console a script with kernel messages in it.
LEMMA NextConsole == ConsoleInv /\ [Next]_consoleVars => ConsoleInv'
<1> SUFFICES ASSUME ConsoleInv, [Next]_consoleVars PROVE ConsoleInv'
  OBVIOUS
<1> DEFINE T == Tokens(Alphabet)
           P(r, l, a) == Printing(T, r, l, a, Script)
           next == Append(at, Len(raw) + 1)
<1>0. ConsoleType /\ P(raw, left, at)
  BY DEF ConsoleInv
<1>1. CrLf \in T /\ Noise \in T /\ Torn \in T
  BY TypesOfTokens
<1>2. /\ left # <<>> => P(raw \o <<Head(left)>>, Tail(left), next)
      /\ left # <<>> /\ Divisible(Head(left)) => P(raw \o <<Torn>>, <<>>, next)
      /\ \A m \in Messages :
            /\ P(raw \o m, left, at)
            /\ left # <<>> /\ Divisible(Head(left)) => P(raw \o (<<Torn>> \o m \o <<Torn>>), Tail(left), next)
  <2>1. Script \in Seq(T)
    BY <1>0, ScriptType
  <2> HIDE DEF T
  <2> QED
    BY <1>0, <1>1, <2>1, PrintingGoesOn
<1>3. ASSUME UNCHANGED <<out, err, code>>, P(raw', left', at') PROVE ConsoleInv'
  <2>1. Script' = Script
    BY <1>3 DEF Script
  <2> QED
    BY <1>0, <1>3, <2>1 DEF ConsoleInv, ConsoleType
<1> HIDE DEF P, next
<1>4. CASE GuestPrints
  <2>1. /\ left # <<>> /\ UNCHANGED <<out, err, code>>
        /\ raw' = raw \o <<Head(left)>> /\ left' = Tail(left) /\ at' = next
    BY <1>4 DEF GuestPrints, Prints, Takes, next
  <2> QED
    BY <1>2, <1>3, <2>1
<1>5. CASE StopsHalfway
  <2>1. /\ left # <<>> /\ Divisible(Head(left)) /\ UNCHANGED <<out, err, code>>
        /\ raw' = raw \o <<Torn>> /\ left' = <<>> /\ at' = next
    BY <1>5 DEF StopsHalfway, Breakable, Prints, Takes, next
  <2> QED
    BY <1>2, <1>3, <2>1
<1>6. CASE KernelPrints
  <2>1. PICK m \in Messages : \/ Prints(m) /\ UNCHANGED <<left, at>>
                              \/ Breakable /\ Takes(Tail(left)) /\ Prints(<<Torn>> \o m \o <<Torn>>)
    BY <1>6 DEF KernelPrints
  <2>2. CASE Prints(m) /\ UNCHANGED <<left, at>>
    BY <1>2, <1>3, <2>2 DEF Prints
  <2>3. CASE Breakable /\ Takes(Tail(left)) /\ Prints(<<Torn>> \o m \o <<Torn>>)
    <3>1. /\ left # <<>> /\ Divisible(Head(left)) /\ UNCHANGED <<out, err, code>>
          /\ raw' = raw \o (<<Torn>> \o m \o <<Torn>>) /\ left' = Tail(left) /\ at' = next
      BY <2>3 DEF Breakable, Prints, Takes, next
    <3> QED
      BY <1>2, <1>3, <3>1
  <2> QED
    BY <2>1, <2>2, <2>3
<1>7. CASE UNCHANGED consoleVars
  BY <1>0, <1>3, <1>7 DEF consoleVars
<1> QED
  BY <1>4, <1>5, <1>6, <1>7 DEF Next

\* At every moment the console is a beginning of the script, with kernel
\* messages between and within its tokens.
LEMMA ConsoleInvariant == Spec => []ConsoleInv
<1>1. Init => ConsoleInv
  BY InitConsole
<1>2. ConsoleInv /\ [Next]_consoleVars => ConsoleInv'
  BY NextConsole
<1> QED
  BY <1>1, <1>2, PTL DEF Spec

\* The beginning of a code, as a sequence.
LEMMA BeginningOfCode ==
    ASSUME NEW S, NEW c \in Seq(S), NEW r \in 1 .. Len(c)
    PROVE  LET d == [i \in 1 .. r |-> c[i]]
           IN  Len(d) = r /\ d = SubSeq(c, 1, r) /\ (r = Len(c) => d = c)
<1> DEFINE d == [i \in 1 .. r |-> c[i]]
           b == SubSeq(c, 1, r)
<1>1. b \in Seq(S) /\ Len(b) = r /\ \A i \in 1 .. r : b[i] = c[i]
  <2>1. r \in 0 .. Len(c)
    OBVIOUS
  <2> QED
    BY <2>1, Prefix
<1>2. r = Len(c) => b = c
  BY SubSeqFull
<1> HIDE DEF b
<1>3. b \in [1 .. r -> S]
  BY <1>1, LenProperties
<1>4. d = b
  BY <1>1, <1>3
<1> QED
  BY <1>1, <1>2, <1>4 DEF b

\* Wherever the console stops and whatever the kernel prints in between, for
\* streams and codes of any length and any number of messages: the parser of
\* execute_command returns the command's stdout and stderr, complete, or the
\* whole console as it is, and cuts an exit code only where the console or a
\* kernel message cuts it.
THEOREM StreamsComplete == Spec => []StreamsWholeOrRaw
<1>1. ASSUME ConsoleInv PROVE StreamsWholeOrRaw
  <2> DEFINE T == Tokens(Alphabet)
  <2>0. /\ out \in Streams(Alphabet) /\ err \in Streams(Alphabet) /\ code \in Seq(Alphabet)
        /\ raw \in Seq(T) /\ Carries(raw, at, InitScript(out, err, code)) /\ Len(raw) \in Nat
    BY <1>1 DEF ConsoleInv, ConsoleType, Printing, Script
  <2>1. ParseExecutionOutput(raw) = Fallback(raw) \/ StreamsRead(raw, out, err, code)
    BY <2>0, NoisyConsole
  <2>2. ASSUME NEW i \in 1 .. Len(raw), DigitsCut(raw, i) PROVE CodeIsCut
    <3> DEFINE z == raw \o <<Torn, Torn>>
    <3>1. i \in DOMAIN raw /\ raw[i].kind = "digit"
      BY <2>0, <2>2, LenProperties DEF DigitsCut
    <3>2. CASE i = Len(raw)
      BY <3>1, <3>2 DEF CodeIsCut
    <3>3. CASE i + 2 <= Len(raw) /\ raw[i + 1] = CrLf /\ raw[i + 2] = Noise
      <4>1. CrLf \in T /\ Noise \in T /\ Torn \in T
        BY TypesOfTokens
      <4>2. <<Torn, Torn>> \in Seq(T) /\ Len(<<Torn, Torn>>) = 2
        <5> HIDE DEF T
        <5> QED
          BY <4>1
      <4>3. z \in Seq(T) /\ Len(z) = Len(raw) + 2 /\ \A j \in 1 .. Len(raw) : z[j] = raw[j]
        BY <2>0, <4>2, Grown
      <4> HIDE DEF z, T
      <4>4. i + 1 \in 1 .. Len(raw) /\ i + 2 \in 1 .. Len(raw) /\ i + 1 \in 1 .. Len(z) - 1 /\ i + 1 + 1 = i + 2
        BY <2>0, <3>3, <4>3
      <4>5. z[i + 1] = CrLf /\ z[i + 1 + 1] = Noise
        BY <3>3, <4>3, <4>4
      <4>6. OccursAt(z, <<CrLf, Noise>>, i + 1)
        BY <4>1, <4>3, <4>4, <4>5, TwoTokens
      <4> QED
        BY <3>1, <4>6 DEF CodeIsCut, z
    <3> QED
      BY <2>2, <3>2, <3>3 DEF DigitsCut
  <2>3. ASSUME NEW r \in 1 .. Len(code),
               ParseExecutionOutput(raw) = Output(out, err, [i \in 1 .. r |-> code[i]]),
               r = Len(code) \/ \E i \in 1 .. Len(raw) : DigitsCut(raw, i)
        PROVE  StreamsWholeOrRaw
    <3> DEFINE d == [i \in 1 .. r |-> code[i]]
    <3>1. Len(d) = r /\ d = SubSeq(code, 1, r) /\ (r = Len(code) => d = code)
      BY <2>0, BeginningOfCode
    <3>2. Result = Output(out, err, d)
      BY <2>3 DEF Result
    <3> HIDE DEF d
    <3>3. Result.stdout = out /\ Result.stderr = err /\ Result.exitCode = d
      BY <3>2 DEF Output
    <3>4. Result.exitCode = code \/ (CodeIsCut /\ Result.exitCode = SubSeq(code, 1, Len(Result.exitCode)))
      <4>1. CASE r = Len(code)
        BY <3>1, <3>3, <4>1
      <4>2. CASE \E i \in 1 .. Len(raw) : DigitsCut(raw, i)
        <5>1. CodeIsCut
          BY <2>2, <4>2
        <5> QED
          BY <3>1, <3>3, <5>1
      <4> QED
        BY <2>3, <4>1, <4>2
    <3> QED
      BY <3>3, <3>4 DEF StreamsWholeOrRaw
  <2>4. CASE ParseExecutionOutput(raw) = Fallback(raw)
    BY <2>4 DEF StreamsWholeOrRaw, Result
  <2>5. CASE StreamsRead(raw, out, err, code)
    BY <2>3, <2>5 DEF StreamsRead
  <2> QED
    BY <2>1, <2>4, <2>5
<1> QED
  BY <1>1, ConsoleInvariant, PTL

\* A console that is complete and free of kernel messages is understood,
\* however long the streams and the code are: what the init script prints is
\* what parse_execution_output reads.
THEOREM CleanRuns == Spec => []CleanRunUnderstood
<1>1. ASSUME ConsoleInv PROVE CleanRunUnderstood
  <2> DEFINE s == InitScript(out, err, code)
             l == Len(s)
             x == 2 * Len(out) + 2 * Len(err) + 9
             r == IF l <= x + Len(code) THEN l - x ELSE Len(code)
  <2>0. out \in Streams(Alphabet) /\ err \in Streams(Alphabet) /\ code \in Seq(Alphabet) /\ code # <<>>
    BY <1>1 DEF ConsoleInv, ConsoleType
  <2>1. s \in Seq(Tokens(Alphabet)) /\ Layout(s, out, err, code)
    BY <2>0, ScriptLayout
  <2>2. Len(out) \in Nat /\ Len(err) \in Nat /\ Len(code) \in Nat /\ Len(code) # 0 /\ l \in Nat
    <3>1. Len(out) \in Nat /\ Len(err) \in Nat
      BY <2>0 DEF Streams
    <3>2. Len(code) \in Nat /\ Len(code) # 0
      BY <2>0, EmptySeq
    <3>3. l \in Nat
      <4> HIDE DEF s
      <4> QED
        BY <2>1, LenProperties
    <3> QED
      BY <3>1, <3>2, <3>3
  <2>3. l = 2 * Len(out) + 2 * Len(err) + Len(code) + 10
    <3> HIDE DEF s
    <3> QED
      BY <2>1 DEF Layout
  <2>4. l \in 0 .. l /\ SubSeq(s, 1, l) = s
    <3> HIDE DEF s
    <3> QED
      BY <2>1, <2>2, SubSeqFull
  <2>5. ParseExecutionOutput(SubSeq(s, 1, l)) =
           IF l <= x THEN Fallback(SubSeq(s, 1, l)) ELSE Output(out, err, [i \in 1 .. r |-> code[i]])
    BY <2>0, <2>4, TruncatedConsole
  <2> HIDE DEF s, l
  <2>6. ~ (l <= x) /\ r = Len(code) /\ Len(code) \in 1 .. Len(code)
    BY <2>2, <2>3
  <2>7. [i \in 1 .. Len(code) |-> code[i]] = code
    BY <2>0, <2>6, BeginningOfCode
  <2>8. ParseExecutionOutput(s) = Output(out, err, code)
    <3> HIDE DEF r, x
    <3> QED
      BY <2>4, <2>5, <2>6, <2>7
  <2> QED
    BY <2>8 DEF CleanRunUnderstood, Result, Script, s
<1> QED
  BY <1>1, ConsoleInvariant, PTL
=============================================================================
