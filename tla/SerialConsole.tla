---------------------------- MODULE SerialConsole ----------------------------
(***************************************************************************)
(* What execute_command reads from a guest's serial console, and what      *)
(* parse_execution_output makes of it.  The console is a sequence of       *)
(* tokens: a marker, the end of a line (\r\n), a base64 group, a digit, or *)
(* something else the kernel printed.  An optional value is a set with at  *)
(* most one element.                                                       *)
(***************************************************************************)
EXTENDS Integers, Sequences, FiniteSets

Mark(m) == [kind |-> "mark", val |-> m]
Group(c) == [kind |-> "b64", val |-> c]         \* one base64 group, encoding text c
Text(c) == [kind |-> "text", val |-> c]         \* decoded text
Digit(d) == [kind |-> "digit", val |-> d]
CrLf == [kind |-> "crlf", val |-> "crlf"]
Noise == [kind |-> "noise", val |-> "noise"]    \* holds a character that is not base64
Torn == [kind |-> "torn", val |-> "torn"]       \* a part of a marker or of a group

\* The tokens that may be on a console, over the letters and digits L.
Names == {"OUT_START", "OUT_END", "ERR_START", "ERR_END", "EXIT"}
Tokens(L) ==
    [kind : {"mark", "b64", "digit", "crlf", "noise", "torn"}, val : L \cup Names \cup {"crlf", "noise", "torn"}]

\* What the guest's kernel prints on the same console.  A message may or may
\* not end its line, and may begin with a line end.  It may come in the
\* middle of a marker or a group.
Messages == {<<Noise>>, <<Noise, CrLf>>, <<CrLf, Noise>>}
Divisible(token) == token.kind \in {"mark", "b64"}

-----------------------------------------------------------------------------
(* The init script: stdout and stderr in base64, one group per line, then  *)
(* the exit code.                                                          *)

Base64Lines(text) ==
    [i \in 1 .. 2 * Len(text) |-> IF i % 2 = 1 THEN Group(text[(i + 1) \div 2].val) ELSE CrLf]

InitScript(out, err, code) ==
    <<Mark("OUT_START"), CrLf>> \o Base64Lines(out) \o <<Mark("OUT_END"), CrLf>>
    \o <<Mark("ERR_START"), CrLf>> \o Base64Lines(err) \o <<Mark("ERR_END"), CrLf>>
    \o <<Mark("EXIT")>> \o [i \in 1 .. Len(code) |-> Digit(code[i])] \o <<CrLf>>

-----------------------------------------------------------------------------
(* windows(..).position(..): where pattern pat first occurs in raw, at     *)
(* position from or later.                                                 *)

OccursAt(raw, pat, i) == SubSeq(raw, i, i + Len(pat) - 1) = pat

Position(raw, pat, from) ==
    {i \in from .. Len(raw) - Len(pat) + 1 :
        OccursAt(raw, pat, i) /\ \A j \in from .. i - 1 : ~ OccursAt(raw, pat, j)}

\* The text without its line ends: its k-th token is the one with k tokens
\* left up to it.
StripLineEnds(text) ==
    LET kept == {i \in DOMAIN text : text[i] # CrLf}
    IN  [k \in 1 .. Cardinality(kept) |->
            text[CHOOSE i \in kept : Cardinality({j \in kept : j <= i}) = k]]

\* STANDARD.decode: every group decodes, anything else is an error.
Decode(groups) ==
    IF \A i \in DOMAIN groups : groups[i].kind = "b64"
    THEN {[i \in DOMAIN groups |-> Text(groups[i].val)]}
    ELSE {}

\* Mutant: line ends are left in the base64 text.
ExtractB64SectionUnstripped(raw, start, end) ==
    UNION {UNION {Decode(SubSeq(raw, p + 2, q - 1)) : q \in Position(raw, <<Mark(end)>>, p + 2)}
           : p \in Position(raw, <<Mark(start), CrLf>>, 1)}

ExtractB64Section(raw, start, end) ==
    UNION {UNION {Decode(StripLineEnds(SubSeq(raw, p + 2, q - 1)))
                  : q \in Position(raw, <<Mark(end)>>, p + 2)}
           : p \in Position(raw, <<Mark(start), CrLf>>, 1)}

\* The number that starts at position i, up to the end of the line or of the
\* console.
NumberAt(raw, i) ==
    LET ends == Position(raw, <<CrLf>>, i)
        last == IF ends = {} THEN Len(raw) ELSE (CHOOSE q \in ends : TRUE) - 1
        value == SubSeq(raw, i, last)
    IN  IF value # <<>> /\ \A k \in DOMAIN value : value[k].kind = "digit"
        THEN {[k \in DOMAIN value |-> value[k].val]}
        ELSE {}

ExtractExitCode(raw) ==
    UNION {NumberAt(raw, p + 1) : p \in Position(raw, <<Mark("EXIT")>>, 1)}

Output(out, err, code) == [stdout |-> out, stderr |-> err, exitCode |-> code]

\* The console as it is, with exit code -1.
Fallback(raw) == Output(raw, <<>>, <<"-1">>)

\* Mutant: the sections are taken one by one, missing ones as empty.
ParseExecutionOutputPartial(raw) ==
    LET outs == ExtractB64Section(raw, "OUT_START", "OUT_END")
        errs == ExtractB64Section(raw, "ERR_START", "ERR_END")
        codes == ExtractExitCode(raw)
    IN  IF outs = {} THEN Fallback(raw)
        ELSE Output(CHOOSE o \in outs : TRUE,
                    IF errs = {} THEN <<>> ELSE CHOOSE e \in errs : TRUE,
                    IF codes = {} THEN <<"-1">> ELSE CHOOSE c \in codes : TRUE)

ParseExecutionOutput(raw) ==
    LET parsed == {Output(o, e, c) :
                     o \in ExtractB64Section(raw, "OUT_START", "OUT_END"),
                     e \in ExtractB64Section(raw, "ERR_START", "ERR_END"),
                     c \in ExtractExitCode(raw)}
    IN  IF parsed = {} THEN Fallback(raw) ELSE CHOOSE r \in parsed : TRUE

\* compute_hash feeds both streams to one SHA-256, taken to be injective.
ComputeHash(out, err) == out \o err
=============================================================================
