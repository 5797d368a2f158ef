---------------------------- MODULE GuestConsole ----------------------------
(***************************************************************************)
(* A guest that runs some command under the init script and prints its     *)
(* console token by token, with kernel messages anywhere, also in the      *)
(* middle of a marker.  Every state is a console at which the VM may have  *)
(* stopped.                                                                *)
(***************************************************************************)
EXTENDS SerialConsole

CONSTANTS
    Letters,    \* what a base64 group may encode
    MaxOut,     \* longest stdout, in groups
    MaxErr,     \* longest stderr, in groups
    Codes,      \* exit codes, as strings of digits
    MaxNoise    \* most kernel messages in one run

ASSUME ConsoleAssumption ==
    /\ MaxOut \in Nat /\ MaxErr \in Nat
    /\ \A c \in Codes : c \in Seq(STRING) /\ c # <<>>

VARIABLES
    out, err, code,     \* what the command wrote and returned
    raw,                \* the console
    left,               \* what the guest still has to print
    noises,             \* kernel messages so far
    at                  \* history: where on the console each token of the script begins

consoleVars == <<out, err, code, raw, left, noises, at>>

Texts(max) == UNION {[1 .. n -> {Text(c) : c \in Letters}] : n \in 0 .. max}
Script == InitScript(out, err, code)

Init ==
    /\ out \in Texts(MaxOut) /\ err \in Texts(MaxErr) /\ code \in Codes
    /\ raw = <<>> /\ left = Script /\ noises = 0 /\ at = <<>>

Prints(tokens) == raw' = raw \o tokens /\ UNCHANGED <<out, err, code>>

\* The guest's next token, whole or torn, begins here; then comes the rest.
Takes(rest) ==
    /\ left # <<>>
    /\ at' = Append(at, Len(raw) + 1) /\ left' = rest

Breakable == left # <<>> /\ Divisible(Head(left))

GuestPrints == Takes(Tail(left)) /\ Prints(<<Head(left)>>) /\ UNCHANGED noises

\* The guest is stopped in the middle of a token.
StopsHalfway == Breakable /\ Takes(<<>>) /\ Prints(<<Torn>>) /\ UNCHANGED noises

\* Also behind the script, when the guest has stopped or is powered off.
KernelPrints ==
    /\ noises < MaxNoise /\ noises' = noises + 1
    /\ \E m \in Messages :
          \/ Prints(m) /\ UNCHANGED <<left, at>>
          \/ Breakable /\ Takes(Tail(left)) /\ Prints(<<Torn>> \o m \o <<Torn>>)

Next == GuestPrints \/ StopsHalfway \/ KernelPrints

Spec == Init /\ [][Next]_consoleVars

-----------------------------------------------------------------------------
\* What is made of the console if it stops here.
Result == ParseExecutionOutput(raw)

\* The console stops within the digits of the exit code, or a kernel message
\* breaks their line.
CodeIsCut ==
    \E i \in DOMAIN raw :
        /\ raw[i].kind = "digit"
        /\ i = Len(raw) \/ OccursAt(raw \o <<Torn, Torn>>, <<CrLf, Noise>>, i + 1)

\* Wherever the console stops and whatever the kernel prints in between,
\* parse_execution_output returns either the command's own stdout, stderr
\* and exit code, complete, or the whole console as it is: never a part of a
\* stream, or one stream for the other.  The exit code alone may be cut
\* short, by the end of the console or by a line end of the kernel's.
StreamsWholeOrRaw ==
    \/ Result = Fallback(raw)
    \/ /\ Result.stdout = out /\ Result.stderr = err
       /\ \/ Result.exitCode = code
          \/ CodeIsCut /\ Result.exitCode = SubSeq(code, 1, Len(Result.exitCode))

\* A console that is complete and free of kernel messages is understood.
CleanRunUnderstood == raw = Script => Result = Output(out, err, code)
=============================================================================
