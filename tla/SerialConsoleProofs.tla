------------------------ MODULE SerialConsoleProofs ------------------------
(***************************************************************************)
(* Proofs about the console parser of SerialConsole: what it returns for   *)
(* any console, for an init script that is cut off anywhere, and for one   *)
(* with kernel messages in it, with streams and codes of any length.       *)
(***************************************************************************)
EXTENDS SerialConsole, FiniteSetTheorems, FunctionTheorems, SequenceTheorems, TLAPS

-----------------------------------------------------------------------------
(* The parser on any console.                                              *)

\* A search finds at most one place, so the parser never has a choice.
LEMMA OnePosition ==
    ASSUME NEW raw, NEW pat, NEW from \in Int,
           Len(raw) \in Nat, Len(pat) \in Nat,
           NEW i \in Position(raw, pat, from), NEW j \in Position(raw, pat, from)
    PROVE  i = j
BY DEF Position

\* The beginning of a sequence.
LEMMA Prefix ==
    ASSUME NEW T, NEW s \in Seq(T), NEW n \in 0 .. Len(s)
    PROVE  /\ SubSeq(s, 1, n) \in Seq(T) /\ Len(SubSeq(s, 1, n)) = n
           /\ \A i \in 1 .. n : SubSeq(s, 1, n)[i] = s[i]
<1>1. \A i \in 1 .. n : s[i] \in T
  <2>1. \A i \in 1 .. Len(s) : s[i] \in T
    BY ElementOfSeq
  <2>2. Len(s) \in Nat /\ \A i \in 1 .. n : i \in 1 .. Len(s)
    OBVIOUS
  <2> QED
    BY <2>1, <2>2
<1>2. /\ SubSeq(s, 1, n) \in Seq(T) /\ Len(SubSeq(s, 1, n)) = IF 1 <= n THEN n - 1 + 1 ELSE 0
      /\ \A i \in 1 .. n - 1 + 1 : SubSeq(s, 1, n)[i] = s[1 + i - 1]
  BY <1>1, SubSeqProperties
<1>3. (IF 1 <= n THEN n - 1 + 1 ELSE 0) = n /\ n - 1 + 1 = n /\ \A i \in 1 .. n : 1 + i - 1 = i
  OBVIOUS
<1>4. SubSeq(s, 1, n) \in Seq(T) /\ Len(SubSeq(s, 1, n)) = n
  BY <1>2, <1>3
<1>5. \A i \in 1 .. n : SubSeq(s, 1, n)[i] = s[i]
  BY <1>2, <1>3
<1> QED
  BY <1>4, <1>5

\* A pattern of one token occurs where that token stands.
LEMMA OneToken ==
    ASSUME NEW T, NEW raw \in Seq(T), NEW x \in T, NEW i \in 1 .. Len(raw)
    PROVE  OccursAt(raw, <<x>>, i) <=> raw[i] = x
<1> DEFINE piece == SubSeq(raw, i, i)
<1>1. piece \in Seq(T) /\ Len(piece) = 1 /\ piece[1] = raw[i]
  OBVIOUS
<1>2. Len(<<x>>) = 1 /\ <<x>> \in Seq(T) /\ <<x>>[1] = x
  OBVIOUS
<1>3. OccursAt(raw, <<x>>, i) <=> piece = <<x>>
  BY <1>2 DEF OccursAt
<1>4. piece = <<x>> <=> piece[1] = x
  <2> HIDE DEF piece
  <2> QED
    BY <1>1, <1>2
<1> QED
  BY <1>1, <1>3, <1>4

\* A pattern of two tokens occurs where both stand.
LEMMA TwoTokens ==
    ASSUME NEW T, NEW raw \in Seq(T), NEW x \in T, NEW y \in T, NEW i \in 1 .. Len(raw) - 1
    PROVE  OccursAt(raw, <<x, y>>, i) <=> raw[i] = x /\ raw[i + 1] = y
<1> DEFINE piece == SubSeq(raw, i, i + 1)
<1>1. piece \in Seq(T) /\ Len(piece) = 2 /\ piece[1] = raw[i] /\ piece[2] = raw[i + 1]
  <2>1. i \in 1 .. Len(raw) /\ i + 1 \in 1 .. Len(raw)
    OBVIOUS
  <2>2. piece \in Seq(T) /\ Len(piece) = 2
    BY <2>1, SubSeqProperties
  <2>3. piece[1] = raw[i] /\ piece[2] = raw[i + 1]
    BY <2>1, SubSeqProperties
  <2> QED
    BY <2>2, <2>3
<1>2. Len(<<x, y>>) = 2 /\ <<x, y>> \in Seq(T) /\ <<x, y>>[1] = x /\ <<x, y>>[2] = y
  OBVIOUS
<1>3. OccursAt(raw, <<x, y>>, i) <=> piece = <<x, y>>
  BY <1>2 DEF OccursAt
<1>4. piece = <<x, y>> <=> piece[1] = x /\ piece[2] = y
  <2> HIDE DEF piece
  <2> QED
    BY <1>1, <1>2
<1> QED
  BY <1>1, <1>3, <1>4

\* A search for one token finds the first place at which it stands.
LEMMA FirstToken ==
    ASSUME NEW T, NEW raw \in Seq(T), NEW x \in T, NEW from \in Nat \ {0}
    PROVE  Position(raw, <<x>>, from) =
              {i \in from .. Len(raw) : raw[i] = x /\ \A j \in from .. i - 1 : raw[j] # x}
<1>1. Len(<<x>>) = 1 /\ Len(raw) \in Nat
  OBVIOUS
<1>2. \A i \in from .. Len(raw) : OccursAt(raw, <<x>>, i) <=> raw[i] = x
  BY OneToken
<1>3. Position(raw, <<x>>, from) =
        {i \in from .. Len(raw) : OccursAt(raw, <<x>>, i) /\ \A j \in from .. i - 1 : ~ OccursAt(raw, <<x>>, j)}
  BY <1>1 DEF Position
<1> QED
  BY <1>1, <1>2, <1>3

\* A search for two tokens finds the first place at which they stand.
LEMMA FirstTwo ==
    ASSUME NEW T, NEW raw \in Seq(T), NEW x \in T, NEW y \in T
    PROVE  Position(raw, <<x, y>>, 1) =
              {i \in 1 .. Len(raw) - 1 :
                  /\ raw[i] = x /\ raw[i + 1] = y
                  /\ \A j \in 1 .. i - 1 : ~ (raw[j] = x /\ raw[j + 1] = y)}
<1>1. Len(<<x, y>>) = 2 /\ Len(raw) \in Nat
  OBVIOUS
<1>2. \A i \in 1 .. Len(raw) - 1 : OccursAt(raw, <<x, y>>, i) <=> raw[i] = x /\ raw[i + 1] = y
  BY TwoTokens
<1>3. Position(raw, <<x, y>>, 1) =
        {i \in 1 .. Len(raw) - 1 :
            OccursAt(raw, <<x, y>>, i) /\ \A j \in 1 .. i - 1 : ~ OccursAt(raw, <<x, y>>, j)}
  BY <1>1 DEF Position
<1>4. ASSUME NEW i \in 1 .. Len(raw) - 1
      PROVE  (\A j \in 1 .. i - 1 : ~ OccursAt(raw, <<x, y>>, j))
                <=> (\A j \in 1 .. i - 1 : ~ (raw[j] = x /\ raw[j + 1] = y))
  <2>1. \A j \in 1 .. i - 1 : j \in 1 .. Len(raw) - 1
    BY <1>1
  <2> QED
    BY <1>2, <2>1
<1> QED
  BY <1>2, <1>3, <1>4, Zenon

\* No exit code, no parsed result: the raw console is returned.
LEMMA NoCodeNoResult ==
    ASSUME NEW raw, ExtractExitCode(raw) = {}
    PROVE  ParseExecutionOutput(raw) = Fallback(raw)
BY DEF ParseExecutionOutput

\* All three parts are there: they are the result.
LEMMA ThreeParts ==
    ASSUME NEW raw, NEW o, NEW e, NEW c,
           ExtractB64Section(raw, "OUT_START", "OUT_END") = {o},
           ExtractB64Section(raw, "ERR_START", "ERR_END") = {e},
           ExtractExitCode(raw) = {c}
    PROVE  ParseExecutionOutput(raw) = Output(o, e, c)
BY DEF ParseExecutionOutput

\* Whatever is on the console, parse_execution_output returns the raw console
\* or all three parts, and there is only one way to read each of them.
THEOREM AllOrNothing ==
    ASSUME NEW T, NEW raw \in Seq(T)
    PROVE  /\ \/ ParseExecutionOutput(raw) = Fallback(raw)
              \/ \E o \in ExtractB64Section(raw, "OUT_START", "OUT_END"),
                    e \in ExtractB64Section(raw, "ERR_START", "ERR_END"),
                    c \in ExtractExitCode(raw) : ParseExecutionOutput(raw) = Output(o, e, c)
           /\ \A start, end : \A x, y \in ExtractB64Section(raw, start, end) : x = y
           /\ \A x, y \in ExtractExitCode(raw) : x = y
<1>0. /\ Len(raw) \in Nat
      /\ \A m : Len(<<Mark(m)>>) \in Nat /\ Len(<<Mark(m), CrLf>>) \in Nat
  OBVIOUS
<1>1. ASSUME NEW start, NEW end,
             NEW x \in ExtractB64Section(raw, start, end), NEW y \in ExtractB64Section(raw, start, end)
      PROVE  x = y
  <2> DEFINE Starts == Position(raw, <<Mark(start), CrLf>>, 1)
             Ends(p) == Position(raw, <<Mark(end)>>, p + 2)
             Section(p, q) == Decode(StripLineEnds(SubSeq(raw, p + 2, q - 1)))
  <2>a. PICK p \in Starts : \E q \in Ends(p) : x \in Section(p, q)
    BY <1>1 DEF ExtractB64Section
  <2>1. PICK q \in Ends(p) : x \in Section(p, q)
    BY <2>a
  <2>b. PICK r \in Starts : \E s \in Ends(r) : y \in Section(r, s)
    BY <1>1 DEF ExtractB64Section
  <2>2. PICK s \in Ends(r) : y \in Section(r, s)
    BY <2>b
  <2>3. p = r
    BY <1>0, <2>1, <2>2, OnePosition
  <2>4. p + 2 \in Int
    BY <1>0, <2>1 DEF Position
  <2>5. q = s
    BY <1>0, <2>1, <2>2, <2>3, <2>4, OnePosition
  <2>6. \A g : \A u, w \in Decode(g) : u = w
    BY DEF Decode
  <2> QED
    BY <2>1, <2>2, <2>3, <2>5, <2>6
<1>2. ASSUME NEW x \in ExtractExitCode(raw), NEW y \in ExtractExitCode(raw)
      PROVE  x = y
  <2>1. PICK p \in Position(raw, <<Mark("EXIT")>>, 1) : x \in NumberAt(raw, p + 1)
    BY <1>2 DEF ExtractExitCode
  <2>2. PICK q \in Position(raw, <<Mark("EXIT")>>, 1) : y \in NumberAt(raw, q + 1)
    BY <1>2 DEF ExtractExitCode
  <2>3. p = q
    BY <1>0, <2>1, <2>2, OnePosition
  <2>4. \A i : \A u, w \in NumberAt(raw, i) : u = w
    BY DEF NumberAt
  <2> QED
    BY <2>1, <2>2, <2>3, <2>4
<1>3. \/ ParseExecutionOutput(raw) = Fallback(raw)
      \/ \E o \in ExtractB64Section(raw, "OUT_START", "OUT_END"),
            e \in ExtractB64Section(raw, "ERR_START", "ERR_END"),
            c \in ExtractExitCode(raw) : ParseExecutionOutput(raw) = Output(o, e, c)
  <2> DEFINE parsed == {Output(o, e, c) :
                          o \in ExtractB64Section(raw, "OUT_START", "OUT_END"),
                          e \in ExtractB64Section(raw, "ERR_START", "ERR_END"),
                          c \in ExtractExitCode(raw)}
  <2>1. ParseExecutionOutput(raw) = IF parsed = {} THEN Fallback(raw) ELSE CHOOSE r \in parsed : TRUE
    BY DEF ParseExecutionOutput
  <2>2. parsed # {} => (CHOOSE r \in parsed : TRUE) \in parsed
    OBVIOUS
  <2>3. \A r \in parsed :
           \E o \in ExtractB64Section(raw, "OUT_START", "OUT_END"),
              e \in ExtractB64Section(raw, "ERR_START", "ERR_END"),
              c \in ExtractExitCode(raw) : r = Output(o, e, c)
    OBVIOUS
  <2> HIDE DEF parsed
  <2> QED
    BY <2>1, <2>2, <2>3
<1> QED
  BY <1>1, <1>2, <1>3

\* Without its marker there is no exit code; behind the marker it is the
\* number that starts there.
LEMMA CodeByMarker ==
    ASSUME NEW raw
    PROVE  /\ Position(raw, <<Mark("EXIT")>>, 1) = {} => ExtractExitCode(raw) = {}
           /\ \A p : Position(raw, <<Mark("EXIT")>>, 1) = {p} => ExtractExitCode(raw) = NumberAt(raw, p + 1)
BY DEF ExtractExitCode

-----------------------------------------------------------------------------
(* Increasing functions, counted instead of followed step by step.         *)

Increasing(f) == \A j, k \in DOMAIN f : j < k => f[j] < f[k]

\* An increasing function takes as many values as it has arguments.
LEMMA ImageOfInterval ==
    ASSUME NEW a \in Int, NEW b \in Int, NEW f, a .. b \subseteq DOMAIN f, Increasing(f),
           \A k \in a .. b : f[k] \in Int
    PROVE  /\ IsFiniteSet({f[k] : k \in a .. b})
           /\ Cardinality({f[k] : k \in a .. b}) = IF a > b THEN 0 ELSE b - a + 1
<1> DEFINE T == {f[k] : k \in a .. b}
           F == [k \in a .. b |-> f[k]]
<1>1. F \in [a .. b -> T] /\ \A t \in T : \E k \in a .. b : F[k] = t
  OBVIOUS
<1>2. \A j, k \in a .. b : F[j] = F[k] => j = k
  <2> SUFFICES ASSUME NEW j \in a .. b, NEW k \in a .. b, f[j] = f[k] PROVE j = k
    OBVIOUS
  <2>1. j \in DOMAIN f /\ k \in DOMAIN f /\ f[j] \in Int /\ f[k] \in Int
    OBVIOUS
  <2>2. ~ (j < k) /\ ~ (k < j)
    BY <2>1 DEF Increasing
  <2> QED
    BY <2>2
<1> HIDE DEF F, T
<1>3. ExistsBijection(a .. b, T)
  BY <1>1, <1>2, Fun_IsBij, Fun_ExistsBij
<1>4. IsFiniteSet(a .. b) /\ Cardinality(a .. b) = IF a > b THEN 0 ELSE b - a + 1
  BY FS_Interval
<1>5. IsFiniteSet(T) /\ Cardinality(T) = Cardinality(a .. b)
  BY <1>3, <1>4, FS_Bijection
<1> QED
  BY <1>4, <1>5 DEF T

Covers(f, d, first, last) == \A i \in first .. last : \E j \in 1 .. d : f[j] = i

\* An increasing function that takes every value of an interval takes them
\* one after the other.
LEMMA Contiguous ==
    ASSUME NEW d \in Nat, NEW f \in [1 .. d -> Int], Increasing(f),
           NEW x \in 1 .. d, NEW r \in Nat,
           Covers(f, d, f[x], f[x] + r)
    PROVE  x + r <= d /\ f[x + r] = f[x] + r
<1> DEFINE p == f[x]
<1>0. p \in Int
  OBVIOUS
<1>c. \A i \in p .. p + r : \E j \in 1 .. d : f[j] = i
  BY DEF Covers
<1>1. PICK j \in 1 .. d : f[j] = p + r
  BY <1>0, <1>c
<1>2. \A m, k \in 1 .. d : (m < k => f[m] < f[k]) /\ (f[m] < f[k] => m < k) /\ f[m] \in Int
  <2>1. \A m, k \in 1 .. d : m < k => f[m] < f[k]
    BY DEF Increasing
  <2>2. \A m \in 1 .. d : f[m] \in Int
    OBVIOUS
  <2> QED
    BY <2>1, <2>2
<1>3. x <= j
  BY <1>0, <1>1, <1>2
<1>4. {f[k] : k \in x .. j} = p .. p + r
  <2>1. ASSUME NEW k \in x .. j PROVE f[k] \in p .. p + r
    <3>1. k \in 1 .. d /\ (k = x \/ x < k) /\ (k = j \/ k < j)
      OBVIOUS
    <3> QED
      BY <1>0, <1>1, <1>2, <3>1
  <2>2. ASSUME NEW i \in p .. p + r PROVE \E k \in x .. j : f[k] = i
    <3>1. PICK k \in 1 .. d : f[k] = i
      BY <1>c, <2>2
    <3>2. x <= k /\ k <= j
      BY <1>0, <1>1, <1>2, <3>1
    <3> QED
      BY <3>1, <3>2
  <2> QED
    BY <2>1, <2>2
<1>5. x .. j \subseteq DOMAIN f /\ \A k \in x .. j : f[k] \in Int
  OBVIOUS
<1>6. Cardinality(p .. p + r) = j - x + 1
  <2> DEFINE V == {f[k] : k \in x .. j}
  <2>1. x \in Int /\ j \in Int
    OBVIOUS
  <2>2. Cardinality(V) = IF x > j THEN 0 ELSE j - x + 1
    BY <1>5, <2>1, ImageOfInterval
  <2>3. V = p .. p + r
    BY <1>4
  <2> HIDE DEF V, p
  <2> QED
    BY <1>3, <2>1, <2>2, <2>3
<1>7. Cardinality(p .. p + r) = r + 1
  <2>1. p + r \in Int /\ ~ (p > p + r) /\ p + r - p + 1 = r + 1
    BY <1>0
  <2> QED
    BY <1>0, <2>1, FS_Interval
<1>8. j = x + r
  BY <1>6, <1>7
<1> QED
  BY <1>1, <1>8

-----------------------------------------------------------------------------
(* The text without its line ends.                                         *)

\* g lists, in order, the positions of the tokens of a text that are not
\* line ends.
Lists(g, n, text) ==
    /\ n \in Nat /\ g \in [1 .. n -> Int] /\ Increasing(g)
    /\ \A k \in 1 .. n : g[k] \in DOMAIN text /\ text[g[k]] # CrLf
    /\ \A i \in DOMAIN text : text[i] = CrLf \/ \E k \in 1 .. n : g[k] = i

\* If the tokens to be kept are known one after the other, they are what is
\* left.
LEMMA StripInOrder ==
    ASSUME NEW text, NEW n, NEW g, Lists(g, n, text)
    PROVE  StripLineEnds(text) = [k \in 1 .. n |-> text[g[k]]]
<1> DEFINE kept == {i \in DOMAIN text : text[i] # CrLf}
           Rank(i) == Cardinality({j \in kept : j <= i})
<1>n. n \in Nat /\ g \in [1 .. n -> Int] /\ Increasing(g)
  BY DEF Lists
<1>0. kept = {g[k] : k \in 1 .. n}
  BY DEF Lists
<1>1. \A m, k \in 1 .. n : (m < k <=> g[m] < g[k]) /\ g[m] \in Int
  <2>1. \A m, k \in 1 .. n : m < k => g[m] < g[k]
    BY <1>n DEF Increasing
  <2>2. \A m \in 1 .. n : g[m] \in Int
    BY <1>n
  <2> QED
    BY <2>1, <2>2
<1>2. ASSUME NEW k \in 0 .. n PROVE Cardinality({g[m] : m \in 1 .. k}) = k
  <2>1. 1 .. k \subseteq DOMAIN g /\ (\A m \in 1 .. k : g[m] \in Int) /\ k \in Int /\ 1 \in Int
    BY <1>n
  <2>2. Cardinality({g[m] : m \in 1 .. k}) = IF 1 > k THEN 0 ELSE k - 1 + 1
    BY <1>n, <2>1, ImageOfInterval
  <2> QED
    BY <1>n, <2>2
<1>3. ASSUME NEW k \in 1 .. n PROVE Rank(g[k]) = k
  <2>1. {j \in kept : j <= g[k]} = {g[m] : m \in 1 .. k}
    <3>1. ASSUME NEW m \in 1 .. n PROVE g[m] <= g[k] <=> m \in 1 .. k
      BY <1>n, <1>1, <3>1
    <3>2. \A m \in 1 .. k : m \in 1 .. n
      BY <1>n
    <3>3. kept = {g[m] : m \in 1 .. n}
      BY <1>0
    <3> HIDE DEF kept
    <3> QED
      BY <3>1, <3>2, <3>3
  <2>2. k \in 0 .. n
    BY <1>n
  <2> QED
    BY <1>2, <2>1, <2>2
<1>4. kept = {g[k] : k \in 1 .. n} /\ Cardinality(kept) = n
  <2>1. n \in 0 .. n
    BY <1>n
  <2> HIDE DEF kept
  <2> QED
    BY <1>0, <1>2, <2>1
<1>5. ASSUME NEW k \in 1 .. n PROVE (CHOOSE i \in kept : Rank(i) = k) = g[k]
  <2> HIDE DEF kept, Rank
  <2>1. g[k] \in kept /\ Rank(g[k]) = k
    BY <1>3, <1>4
  <2>2. \A i \in kept : Rank(i) = k => i = g[k]
    BY <1>3, <1>4
  <2> QED
    BY <2>1, <2>2
<1>6. StripLineEnds(text) = [k \in 1 .. Cardinality(kept) |-> text[CHOOSE i \in kept : Rank(i) = k]]
  BY DEF StripLineEnds
<1> HIDE DEF kept, Rank
<1> QED
  BY <1>4, <1>5, <1>6

\* No token is lost but line ends.
LEMMA StripKeeps ==
    ASSUME NEW text, NEW n \in Nat, DOMAIN text = 1 .. n,
           NEW i \in 1 .. n, text[i] # CrLf
    PROVE  \E k \in DOMAIN StripLineEnds(text) : StripLineEnds(text)[k] = text[i]
<1> DEFINE kept == {j \in DOMAIN text : text[j] # CrLf}
           Rank(j) == Cardinality({m \in kept : m <= j})
<1>1. kept \subseteq 1 .. n /\ i \in kept
  OBVIOUS
<1>2. IsFiniteSet(kept)
  <2>1. IsFiniteSet(1 .. n)
    BY FS_Interval
  <2> QED
    BY <1>1, <2>1, FS_Subset
<1>s. StripLineEnds(text) = [k \in 1 .. Cardinality(kept) |-> text[CHOOSE j \in kept : Rank(j) = k]]
  BY DEF StripLineEnds
<1> HIDE DEF kept
<1>3. ASSUME NEW S \in SUBSET kept
      PROVE  IsFiniteSet(S) /\ Cardinality(S) \in Nat /\ Cardinality(S) <= Cardinality(kept)
  BY <1>2, FS_Subset, FS_CardinalityType
<1>4. ASSUME NEW j \in kept, NEW k \in kept, j < k PROVE Rank(j) < Rank(k)
  <2> DEFINE A == {m \in kept : m <= j}
             B == {m \in kept : m <= k}
  <2>0. j \in Int /\ k \in Int /\ k <= k /\ ~ (k <= j) /\ \A m \in kept : m \in Int /\ (m <= j => m <= k)
    BY <1>1, <1>4
  <2>1. A \subseteq B /\ k \in B /\ k \notin A
    BY <2>0
  <2>2. IsFiniteSet(B) /\ Cardinality(A) \in Nat /\ Cardinality(B) \in Nat
    BY <1>3
  <2> HIDE DEF A, B
  <2>3. Cardinality(A) <= Cardinality(B) /\ (Cardinality(B) = Cardinality(A) => B = A)
    BY <2>1, <2>2, FS_Subset
  <2>4. Cardinality(A) < Cardinality(B)
    BY <2>1, <2>2, <2>3
  <2> QED
    BY <2>4 DEF A, B
<1>5. \A j \in kept : Rank(j) \in Nat
  BY <1>3
<1>6. ASSUME NEW j \in kept, Rank(j) = Rank(i) PROVE j = i
  <2> HIDE DEF Rank
  <2>1. j \in Int /\ i \in Int /\ i \in kept /\ Rank(i) \in Nat /\ Rank(j) \in Nat
    BY <1>1, <1>5
  <2>2. (j < i => Rank(j) < Rank(i)) /\ (i < j => Rank(i) < Rank(j))
    BY <1>4, <2>1
  <2> QED
    BY <1>6, <2>1, <2>2
<1>7. Rank(i) \in 1 .. Cardinality(kept)
  <2> DEFINE A == {m \in kept : m <= i}
  <2>1. i \in A /\ A \subseteq kept
    BY <1>1
  <2> HIDE DEF A
  <2>2. IsFiniteSet(A) /\ Cardinality(A) \in Nat /\ Cardinality(A) <= Cardinality(kept)
    BY <1>3, <2>1
  <2>3. Cardinality(A) # 0
    BY <2>1, <2>2, FS_EmptySet
  <2>4. Cardinality(kept) \in Nat
    BY <1>2, FS_CardinalityType
  <2> QED
    BY <2>2, <2>3, <2>4 DEF A
<1> HIDE DEF Rank
<1>8. (CHOOSE j \in kept : Rank(j) = Rank(i)) = i
  BY <1>1, <1>6
<1> QED
  BY <1>s, <1>7, <1>8

-----------------------------------------------------------------------------
(* A script on a console with kernel messages: at says where each token of *)
(* the script begins.  A token is whole, or torn if it can be; all else is *)
(* what the kernel printed, whose line ends have its text beside them.     *)

KernelToken(raw, i) ==
    \/ raw[i] \in {Noise, Torn}
    \/ raw[i] = CrLf /\ i > 1 /\ raw[i - 1] = Noise
    \/ raw[i] = CrLf /\ i < Len(raw) /\ raw[i + 1] = Noise

Carries(raw, at, script) ==
    /\ Len(at) \in 0 .. Len(script) /\ at \in [1 .. Len(at) -> 1 .. Len(raw)]
    /\ Increasing(at)
    /\ \A j \in 1 .. Len(at) :
          \/ raw[at[j]] = script[j]
          \/ raw[at[j]] = Torn /\ script[j].kind \in {"mark", "b64"}
    /\ \A i \in 1 .. Len(raw) : (\E j \in 1 .. Len(at) : at[j] = i) \/ KernelToken(raw, i)

\* Decoded streams over the letters L.
Streams(L) == Seq({Text(c) : c \in L})

\* The script s has at b the section of one stream, and its markers nowhere
\* else.
HasSection(s, b, start, end, text) ==
    /\ s[b + 1] = CrLf
    /\ \A k \in 1 .. Len(text) : s[b + 2 * k] = Group(text[k].val) /\ s[b + 2 * k + 1] = CrLf
    /\ \A j \in 1 .. Len(s) :
          /\ s[j] = Mark(start) <=> j = b
          /\ s[j] = Mark(end) <=> j = b + 2 * Len(text) + 2

\* What kind of token is what.
LEMMA KindsOfTokens ==
    /\ CrLf.kind = "crlf" /\ Noise.kind = "noise" /\ Torn.kind = "torn"
    /\ \A m : Mark(m).kind = "mark" /\ Mark(m).val = m
    /\ \A c : Group(c).kind = "b64" /\ Group(c).val = c
    /\ \A d : Digit(d).kind = "digit" /\ Digit(d).val = d
BY DEF CrLf, Noise, Torn, Mark, Group, Digit

\* Whatever is neither a line end, nor torn, nor noise is the script's.
LEMMA FromScript ==
    ASSUME NEW raw, NEW at, NEW script, Carries(raw, at, script),
           NEW i \in 1 .. Len(raw), raw[i].kind \in {"mark", "b64", "digit"}
    PROVE  \E j \in 1 .. Len(at) : at[j] = i /\ raw[i] = script[j]
<1>1. raw[i] \notin {CrLf, Noise, Torn}
  BY KindsOfTokens
<1>2. ~ KernelToken(raw, i)
  BY <1>1 DEF KernelToken
<1>3. PICK j \in 1 .. Len(at) : at[j] = i
  BY <1>2 DEF Carries
<1>4. raw[at[j]] = script[j] \/ raw[at[j]] = Torn
  BY DEF Carries
<1> QED
  BY <1>1, <1>3, <1>4

\* The order on the console is that of the script.
LEMMA InOrder ==
    ASSUME NEW raw, NEW at, NEW script, Carries(raw, at, script), Len(raw) \in Nat, Len(script) \in Nat
    PROVE  \A j, k \in 1 .. Len(at) : (j < k <=> at[j] < at[k]) /\ at[j] \in Int
<1>1. Len(at) \in Nat /\ at \in [1 .. Len(at) -> 1 .. Len(raw)]
  BY DEF Carries
<1>2. \A j, k \in 1 .. Len(at) : j < k => at[j] < at[k]
  BY <1>1 DEF Carries, Increasing
<1>3. \A j \in 1 .. Len(at) : at[j] \in Int
  BY <1>1
<1> QED
  BY <1>2, <1>3

\* Where the console has nothing but the script, it has its tokens one after
\* the other.
LEMMA RunOfTokens ==
    ASSUME NEW raw, NEW at, NEW script, Carries(raw, at, script), Len(raw) \in Nat, Len(script) \in Nat,
           NEW x \in 1 .. Len(at), NEW r \in Nat, Covers(at, Len(at), at[x], at[x] + r)
    PROVE  x + r <= Len(at) /\ at[x + r] = at[x] + r
<1>1. Len(at) \in Nat /\ at \in [1 .. Len(at) -> Int] /\ Increasing(at)
  BY DEF Carries
<1> QED
  BY <1>1, Contiguous

\* A line end of the kernel's that does not end a message begins one.
LEMMA KernelLineEnd ==
    ASSUME NEW raw, NEW i, KernelToken(raw, i), raw[i] = CrLf, raw[i - 1] # Noise
    PROVE  i < Len(raw) /\ raw[i + 1] = Noise
<1>1. CrLf \notin {Noise, Torn}
  BY KindsOfTokens
<1> QED
  BY <1>1 DEF KernelToken

\* A search for one token ends at that token.
LEMMA EndsAtMarker ==
    ASSUME NEW T, NEW raw \in Seq(T), NEW x \in T, NEW from \in Nat \ {0}, NEW q \in Position(raw, <<x>>, from)
    PROVE  q \in from .. Len(raw) /\ raw[q] = x
BY FirstToken

\* A section that was read has its markers.
LEMMA SectionHasMarkers ==
    ASSUME NEW raw, NEW start, NEW end, NEW o \in ExtractB64Section(raw, start, end)
    PROVE  \E p \in Position(raw, <<Mark(start), CrLf>>, 1) :
              \E q \in Position(raw, <<Mark(end)>>, p + 2) : o \in Decode(StripLineEnds(SubSeq(raw, p + 2, q - 1)))
<1> DEFINE D(p, q) == Decode(StripLineEnds(SubSeq(raw, p + 2, q - 1)))
           P == Position(raw, <<Mark(start), CrLf>>, 1)
           Q(p) == Position(raw, <<Mark(end)>>, p + 2)
<1>1. o \in UNION {UNION {D(p, q) : q \in Q(p)} : p \in P}
  BY DEF ExtractB64Section
<1> HIDE DEF D, P, Q
<1>2. \E p \in P : \E q \in Q(p) : o \in D(p, q)
  BY <1>1
<1> QED
  BY <1>2 DEF D, P, Q

\* Groups with line ends between them decode to the text they encode.
LEMMA DecodeInOrder ==
    ASSUME NEW t, NEW L, NEW text \in Streams(L), NEW g, Lists(g, Len(text), t),
           \A k \in 1 .. Len(text) : t[g[k]] = Group(text[k].val)
    PROVE  Decode(StripLineEnds(t)) = {text}
<1> DEFINE n == Len(text)
           s == StripLineEnds(t)
<1>1. n \in Nat /\ text = [k \in 1 .. n |-> text[k]]
  BY LenProperties DEF Streams
<1>2. \A k \in 1 .. n : Text(text[k].val) = text[k]
  <2>1. \A k \in 1 .. n : \E c \in L : text[k] = Text(c)
    BY ElementOfSeq DEF Streams
  <2>2. \A c : Text(c).val = c
    BY DEF Text
  <2> QED
    BY <2>1, <2>2
<1>3. s = [k \in 1 .. n |-> t[g[k]]]
  BY StripInOrder
<1> HIDE DEF n, s
<1>4. DOMAIN s = 1 .. n /\ \A k \in 1 .. n : s[k].kind = "b64" /\ s[k].val = text[k].val
  BY <1>3, KindsOfTokens DEF n
<1>5. Decode(s) = {[k \in 1 .. n |-> Text(s[k].val)]}
  BY <1>4 DEF Decode
<1>6. [k \in 1 .. n |-> Text(s[k].val)] = [k \in 1 .. n |-> text[k]]
  BY <1>2, <1>4
<1> QED
  BY <1>1, <1>5, <1>6 DEF s

\* What can be decoded from between the markers is the stream that the
\* script had there: a kernel message would be in the way.
LEMMA BetweenMarkers ==
    ASSUME NEW T, NEW raw \in Seq(T), NEW script \in Seq(T), NEW at, Carries(raw, at, script),
           NEW start, NEW end,
           NEW L, NEW text \in Streams(L), NEW b \in Nat,
           HasSection(script, b, start, end, text),
           NEW p \in Nat \ {0}, NEW q \in Nat, p + 2 <= q, q <= Len(raw),
           raw[p] = Mark(start), raw[p + 1] = CrLf, raw[q] = Mark(end),
           NEW o \in Decode(StripLineEnds(SubSeq(raw, p + 2, q - 1)))
    PROVE  o = text
<1> DEFINE n == Len(text)
           e == b + 2 * n + 2
<1>0. Len(raw) \in Nat /\ Len(script) \in Nat /\ n \in Nat /\ Len(at) \in Nat
  BY DEF Carries, Streams
<1> DEFINE t == SubSeq(raw, p + 2, q - 1)
           len == q - p - 2
<1>5. /\ len \in Nat /\ DOMAIN t = 1 .. len
      /\ \A i \in 1 .. len : t[i] = raw[p + 1 + i] /\ p + 1 + i \in 1 .. Len(raw)
  <2>1. \A i \in p + 2 .. q - 1 : i \in 1 .. Len(raw)
    BY <1>0
  <2>2. \A i \in p + 2 .. q - 1 : raw[i] \in T
    BY <2>1, ElementOfSeq
  <2>3. p + 2 \in Int /\ q - 1 \in Int
    BY <1>0
  <2>4. /\ t \in Seq(T) /\ Len(t) = IF p + 2 <= q - 1 THEN q - 1 - (p + 2) + 1 ELSE 0
        /\ \A i \in 1 .. q - 1 - (p + 2) + 1 : t[i] = raw[p + 2 + i - 1]
    BY <2>2, <2>3, SubSeqProperties
  <2>5. len \in Nat /\ Len(t) = len
    BY <1>0, <2>4
  <2>6. DOMAIN t = 1 .. len
    BY <2>4, <2>5, LenProperties
  <2> HIDE DEF t
  <2>7. \A i \in 1 .. len : i \in 1 .. q - 1 - (p + 2) + 1 /\ p + 2 + i - 1 = p + 1 + i /\ p + 1 + i \in 1 .. Len(raw)
    BY <1>0
  <2> QED
    BY <2>4, <2>5, <2>6, <2>7
<1>6. \A i \in 1 .. len : t[i] # CrLf => t[i].kind = "b64"
  <2> DEFINE g == StripLineEnds(t)
  <2>1. \A k \in DOMAIN g : g[k].kind = "b64"
    BY DEF Decode
  <2> HIDE DEF g, t, len
  <2>2. ASSUME NEW i \in 1 .. len, t[i] # CrLf PROVE \E k \in DOMAIN g : g[k] = t[i]
    BY <1>5, <2>2, StripKeeps DEF g
  <2> QED
    BY <2>1, <2>2
<1>7. b \in 1 .. Len(at) /\ at[b] = p /\ e \in 1 .. Len(at) /\ at[e] = q
  <2>1. /\ p \in 1 .. Len(raw) /\ q \in 1 .. Len(raw)
        /\ raw[p].kind \in {"mark", "b64", "digit"} /\ raw[q].kind \in {"mark", "b64", "digit"}
    BY <1>0, KindsOfTokens
  <2>2. PICK j \in 1 .. Len(at) : at[j] = p /\ raw[p] = script[j]
    BY <2>1, FromScript
  <2>3. PICK k \in 1 .. Len(at) : at[k] = q /\ raw[q] = script[k]
    BY <2>1, FromScript
  <2>4. j \in 1 .. Len(script) /\ k \in 1 .. Len(script)
    BY <1>0 DEF Carries
  <2>5. j = b /\ k = e
    BY <2>2, <2>3, <2>4 DEF HasSection
  <2> QED
    BY <2>2, <2>3, <2>5
<1>8. \A j, k \in 1 .. Len(at) : (j < k <=> at[j] < at[k]) /\ at[j] \in Int
  BY <1>0, InOrder
<1> DEFINE g == [k \in 1 .. n |-> at[b + 2 * k] - (p + 1)]
<1>9. ASSUME NEW k \in 1 .. n
      PROVE  /\ b + 2 * k \in 1 .. Len(at) /\ at[b + 2 * k] \in Int
             /\ g[k] = at[b + 2 * k] - (p + 1) /\ g[k] \in 1 .. len
             /\ t[g[k]] = Group(text[k].val)
  <2> DEFINE j == b + 2 * k
  <2>1. j \in 1 .. Len(at) /\ b < j /\ j < e
    BY <1>0, <1>7
  <2>2. at[j] \in Int /\ p < at[j] /\ at[j] < q
    BY <1>7, <1>8, <2>1
  <2>3. script[j] = Group(text[k].val)
    BY DEF HasSection
  <2>4. raw[at[j]] = Group(text[k].val) \/ raw[at[j]] = Torn
    BY <2>1, <2>3 DEF Carries
  <2>5. raw[at[j]] # CrLf
    BY <2>4, KindsOfTokens
  <2>6. at[j] # p + 1
    BY <2>5
  <2> HIDE DEF j
  <2>7. at[j] - (p + 1) \in 1 .. len /\ p + 1 + (at[j] - (p + 1)) = at[j]
    <3>1. \A w \in Int : p < w /\ w < q /\ w # p + 1 =>
             w - (p + 1) \in 1 .. len /\ p + 1 + (w - (p + 1)) = w
      OBVIOUS
    <3> QED
      BY <2>2, <2>6, <3>1
  <2> HIDE DEF t, len
  <2>8. t[at[j] - (p + 1)] = raw[at[j]]
    BY <1>5, <2>7
  <2>9. raw[at[j]].kind = "b64"
    BY <1>6, <2>5, <2>7, <2>8
  <2>10. raw[at[j]] = Group(text[k].val)
    BY <2>4, <2>9, KindsOfTokens
  <2> QED
    BY <2>1, <2>2, <2>7, <2>8, <2>10 DEF j
<1>10. g \in [1 .. n -> Int] /\ Increasing(g)
  <2>1. \A k \in 1 .. n : g[k] \in Int
    BY <1>0, <1>9
  <2>2. ASSUME NEW j \in 1 .. n, NEW k \in 1 .. n, j < k PROVE g[j] < g[k]
    <3>1. b + 2 * j < b + 2 * k
      BY <2>2, <1>0
    <3>2. at[b + 2 * j] < at[b + 2 * k] /\ at[b + 2 * j] \in Int /\ at[b + 2 * k] \in Int
      BY <1>8, <1>9, <3>1
    <3>3. g[j] = at[b + 2 * j] - (p + 1) /\ g[k] = at[b + 2 * k] - (p + 1)
      BY <1>9
    <3>4. \A v, w \in Int : v < w => v - (p + 1) < w - (p + 1)
      OBVIOUS
    <3> QED
      BY <3>2, <3>3, <3>4
  <2> QED
    BY <2>1, <2>2 DEF Increasing
<1>11. ASSUME NEW i \in 1 .. len, t[i] # CrLf PROVE \E k \in 1 .. n : g[k] = i
  <2>1. p + 1 + i \in 1 .. Len(raw) /\ p + 1 + i \in Int /\ t[i] = raw[p + 1 + i]
    BY <1>0, <1>5
  <2> HIDE DEF t
  <2>2. raw[p + 1 + i].kind = "b64" /\ raw[p + 1 + i].kind \in {"mark", "b64", "digit"}
    BY <1>6, <1>11, <2>1
  <2>3. PICK j \in 1 .. Len(at) : at[j] = p + 1 + i /\ raw[p + 1 + i] = script[j]
    BY <2>1, <2>2, FromScript
  <2>4. p < p + 1 + i /\ p + 1 + i < q
    OBVIOUS
  <2>5. b < j /\ j < e /\ j \in 1 .. Len(script)
    BY <1>0, <1>7, <1>8, <2>3, <2>4 DEF Carries
  <2>6. script[j].kind = "b64"
    BY <2>2, <2>3
  <2>7. j # b + 1 /\ \A k \in 1 .. n : j # b + 2 * k + 1
    BY <2>6, KindsOfTokens DEF HasSection
  <2>8. PICK h \in Int : j - b = 2 * h \/ j - b = 2 * h + 1
    <3>1. j - b \in Int
      BY <1>0
    <3>2. (j - b) \div 2 \in Int /\ (j - b = 2 * ((j - b) \div 2) \/ j - b = 2 * ((j - b) \div 2) + 1)
      BY <3>1
    <3> QED
      BY <3>2
  <2>9. h \in 1 .. n /\ j = b + 2 * h
    <3>1. 0 < j - b /\ j - b < 2 * n + 2
      BY <1>0, <2>5
    <3>2. CASE j - b = 2 * h + 1
      <4>1. h = 0 \/ h \in 1 .. n
        BY <1>0, <3>1, <3>2
      <4>2. j = b + 2 * h + 1
        BY <3>2
      <4> QED
        BY <2>7, <4>1, <4>2
    <3>3. CASE j - b = 2 * h
      BY <1>0, <3>1, <3>3
    <3> QED
      BY <2>8, <3>2, <3>3
  <2>10. g[h] = i
    <3>1. g[h] = p + 1 + i - (p + 1)
      BY <1>9, <2>3, <2>9
    <3> QED
      BY <3>1
  <2> QED
    BY <2>9, <2>10
<1>12. \A i \in DOMAIN t : t[i] = CrLf \/ \E k \in 1 .. n : g[k] = i
  <2> HIDE DEF t, g
  <2> QED
    BY <1>5, <1>11
<1>13. \A k \in 1 .. n : g[k] \in DOMAIN t /\ t[g[k]] = Group(text[k].val) /\ t[g[k]] # CrLf
  <2>1. ASSUME NEW k \in 1 .. n
        PROVE  g[k] \in DOMAIN t /\ t[g[k]] = Group(text[k].val) /\ t[g[k]] # CrLf
    <3>1. g[k] \in 1 .. len /\ t[g[k]] = Group(text[k].val)
      BY <1>9
    <3>2. Group(text[k].val) # CrLf
      BY KindsOfTokens
    <3> HIDE DEF t, g, len
    <3> QED
      BY <1>5, <3>1, <3>2
  <2> HIDE DEF t, g, len, n
  <2> QED
    BY <2>1
<1>14. Decode(StripLineEnds(t)) = {text}
  <2> HIDE DEF t, g
  <2>1. Lists(g, Len(text), t)
    BY <1>0, <1>10, <1>12, <1>13 DEF Lists
  <2> QED
    BY <1>13, <2>1, DecodeInOrder
<1> QED
  BY <1>14

\* If a section can be read at all from such a console it is the stream that
\* the script had there.
LEMMA SectionIsStream ==
    ASSUME NEW T, NEW raw \in Seq(T), NEW script \in Seq(T), NEW at, Carries(raw, at, script),
           NEW start, NEW end, Mark(start) \in T, Mark(end) \in T, CrLf \in T,
           NEW L, NEW text \in Streams(L), NEW b \in Nat,
           HasSection(script, b, start, end, text),
           NEW o \in ExtractB64Section(raw, start, end)
    PROVE  o = text
<1>0. Len(raw) \in Nat
  OBVIOUS
<1>1. PICK p \in Position(raw, <<Mark(start), CrLf>>, 1) :
         \E q \in Position(raw, <<Mark(end)>>, p + 2) : o \in Decode(StripLineEnds(SubSeq(raw, p + 2, q - 1)))
  BY SectionHasMarkers
<1>2. PICK q \in Position(raw, <<Mark(end)>>, p + 2) : o \in Decode(StripLineEnds(SubSeq(raw, p + 2, q - 1)))
  BY <1>1
<1>3. p \in 1 .. Len(raw) - 1 /\ raw[p] = Mark(start) /\ raw[p + 1] = CrLf
  BY FirstTwo
<1>4. p \in Nat \ {0} /\ p + 2 \in Nat \ {0}
  BY <1>0, <1>3
<1>5. q \in p + 2 .. Len(raw) /\ raw[q] = Mark(end)
  BY <1>4, EndsAtMarker
<1>6. q \in Nat /\ p + 2 <= q /\ q <= Len(raw)
  BY <1>0, <1>4, <1>5
<1> QED
  BY <1>2, <1>3, <1>4, <1>5, <1>6, BetweenMarkers

-----------------------------------------------------------------------------
(* The exit code.                                                          *)

\* The number c is the r digits behind position p, up to a line end or the
\* end of the console.
DigitsBehind(raw, p, r, c) ==
    /\ p + r <= Len(raw) /\ (p + r = Len(raw) \/ raw[p + r + 1] = CrLf)
    /\ \A k \in 1 .. r : raw[p + k].kind = "digit"
    /\ c = [k \in 1 .. r |-> raw[p + k].val]

\* A number that was read is such a run of digits.
LEMMA NumberIsDigits ==
    ASSUME NEW T, NEW raw \in Seq(T), CrLf \in T, NEW p \in 0 .. Len(raw), NEW c \in NumberAt(raw, p + 1)
    PROVE  \E r \in Nat \ {0} : DigitsBehind(raw, p, r, c)
<1> DEFINE ends == Position(raw, <<CrLf>>, p + 1)
           last == IF ends = {} THEN Len(raw) ELSE (CHOOSE q \in ends : TRUE) - 1
           value == SubSeq(raw, p + 1, last)
           r == last - p
<1>0. Len(raw) \in Nat /\ p + 1 \in Nat \ {0}
  OBVIOUS
<1>1. \A q \in ends : q \in p + 1 .. Len(raw) /\ raw[q] = CrLf
  BY <1>0, EndsAtMarker
<1>2. last \in p .. Len(raw) /\ (last = Len(raw) \/ raw[last + 1] = CrLf)
  <2> HIDE DEF ends
  <2>1. CASE ends = {}
    BY <1>0, <2>1
  <2>2. CASE ends # {}
    <3>1. PICK q \in ends : q = CHOOSE z \in ends : TRUE
      BY <2>2
    <3>2. last = q - 1
      BY <2>2, <3>1
    <3> HIDE DEF last
    <3>3. q - 1 + 1 = q /\ q - 1 \in p .. Len(raw)
      BY <1>0, <1>1
    <3> QED
      BY <1>1, <3>2, <3>3
  <2> QED
    BY <2>1, <2>2
<1>3. /\ value # <<>> /\ (\A k \in DOMAIN value : value[k].kind = "digit")
      /\ c = [k \in DOMAIN value |-> value[k].val]
  <2>1. NumberAt(raw, p + 1) = IF value # <<>> /\ \A k \in DOMAIN value : value[k].kind = "digit"
                               THEN {[k \in DOMAIN value |-> value[k].val]} ELSE {}
    BY DEF NumberAt
  <2> HIDE DEF value
  <2> QED
    BY <2>1
<1> HIDE DEF ends, last
<1>4. last \in Int /\ p + 1 \in Int /\ \A k \in p + 1 .. last : raw[k] \in T
  <2>1. \A k \in p + 1 .. last : k \in 1 .. Len(raw)
    BY <1>0, <1>2
  <2> QED
    BY <1>0, <1>2, <2>1, ElementOfSeq
<1>5. /\ value \in Seq(T) /\ Len(value) = IF p + 1 <= last THEN r ELSE 0
      /\ \A k \in 1 .. r : value[k] = raw[p + k]
  <2>1. /\ value \in Seq(T) /\ Len(value) = IF p + 1 <= last THEN last - (p + 1) + 1 ELSE 0
        /\ \A k \in 1 .. last - (p + 1) + 1 : value[k] = raw[p + 1 + k - 1]
    BY <1>4, SubSeqProperties
  <2>2. last - (p + 1) + 1 = r /\ \A k \in Int : p + 1 + k - 1 = p + k
    BY <1>2
  <2> HIDE DEF value, r
  <2> QED
    BY <2>1, <2>2
<1> HIDE DEF value
<1>6. p + 1 <= last
  <2>1. Len(value) # 0
    BY <1>3, <1>5, EmptySeq
  <2> QED
    BY <1>5, <2>1
<1>7. DOMAIN value = 1 .. r
  BY <1>5, <1>6, LenProperties
<1>8. r \in Nat \ {0} /\ p + r = last
  BY <1>0, <1>2, <1>6
<1> HIDE DEF r
<1>9. c = [k \in 1 .. r |-> raw[p + k].val]
  BY <1>3, <1>5, <1>7
<1>10. \A k \in 1 .. r : raw[p + k].kind = "digit"
  BY <1>3, <1>5, <1>7
<1>11. p + r <= Len(raw) /\ (p + r = Len(raw) \/ raw[p + r + 1] = CrLf)
  BY <1>0, <1>2, <1>8
<1> QED
  BY <1>8, <1>9, <1>10, <1>11 DEF DigitsBehind

\* The script s has at x the exit code, behind the only marker of its kind,
\* on its last line.
HasCode(s, x, code) ==
    /\ \A j \in 1 .. Len(s) : s[j] = Mark("EXIT") <=> j = x
    /\ \A i \in 1 .. Len(code) : s[x + i] = Digit(code[i])
    /\ \A j \in 1 .. Len(s) : s[j].kind = "digit" => j \in x + 1 .. x + Len(code)

\* The digits of a code end too early: the console ends there, or the kernel
\* ends the line.
DigitsCut(raw, i) ==
    /\ i \in 1 .. Len(raw) /\ raw[i].kind = "digit"
    /\ i = Len(raw) \/ (i + 2 <= Len(raw) /\ raw[i + 1] = CrLf /\ raw[i + 2] = Noise)

\* If an exit code can be read at all from such a console, it is the code
\* that the script had or the beginning of it, and only the beginning if the
\* digits are cut.
LEMMA CodeIsPrinted ==
    ASSUME NEW T, NEW raw \in Seq(T), NEW script \in Seq(T), NEW at, Carries(raw, at, script),
           Mark("EXIT") \in T, CrLf \in T,
           NEW code, Len(code) \in Nat, NEW x \in Nat, HasCode(script, x, code),
           NEW c \in ExtractExitCode(raw)
    PROVE  \E r \in 1 .. Len(code) :
              /\ c = [k \in 1 .. r |-> code[k]] /\ x + r <= Len(at)
              /\ r = Len(code) \/ \E i \in 1 .. Len(raw) : DigitsCut(raw, i)
<1>0. Len(raw) \in Nat /\ Len(script) \in Nat /\ Len(at) \in Nat /\ Len(at) <= Len(script)
  BY DEF Carries
<1>1. PICK p \in Position(raw, <<Mark("EXIT")>>, 1) : c \in NumberAt(raw, p + 1)
  BY DEF ExtractExitCode
<1>2. p \in 1 .. Len(raw) /\ raw[p] = Mark("EXIT")
  BY EndsAtMarker
<1>3. p \in 0 .. Len(raw) /\ p \in Int
  BY <1>0, <1>2
<1>4. PICK r \in Nat \ {0} : DigitsBehind(raw, p, r, c)
  BY <1>1, <1>3, NumberIsDigits
<1>5. /\ p + r <= Len(raw) /\ (p + r = Len(raw) \/ raw[p + r + 1] = CrLf)
      /\ \A k \in 1 .. r : raw[p + k].kind = "digit"
  BY <1>4 DEF DigitsBehind
<1>6. c = [k \in 1 .. r |-> raw[p + k].val]
  BY <1>4 DEF DigitsBehind
<1>7. x \in 1 .. Len(at) /\ at[x] = p
  <2>1. raw[p].kind \in {"mark", "b64", "digit"}
    BY <1>2, KindsOfTokens
  <2>2. PICK j \in 1 .. Len(at) : at[j] = p /\ raw[p] = script[j]
    BY <1>2, <2>1, FromScript
  <2>3. j \in 1 .. Len(script)
    BY <1>0
  <2>4. j = x
    BY <1>2, <2>2, <2>3 DEF HasCode
  <2> QED
    BY <2>2, <2>4
<1>9. ASSUME NEW k \in 1 .. r
      PROVE  \E j \in 1 .. Len(at) : at[j] = p + k /\ raw[p + k] = script[j]
  <2>1. p + k \in 1 .. Len(raw)
    BY <1>0, <1>2, <1>5
  <2>2. raw[p + k].kind \in {"mark", "b64", "digit"}
    BY <1>5
  <2> QED
    BY <2>1, <2>2, FromScript
<1>10. ASSUME NEW k \in 1 .. r + 1, k = r + 1 => \E j \in 1 .. Len(at) : at[j] = p + r + 1
       PROVE  x + k \in 1 .. Len(at) /\ at[x + k] = p + k
  <2>1. ASSUME NEW i \in at[x] .. at[x] + k PROVE \E j \in 1 .. Len(at) : at[j] = i
    <3>1. PICK h \in 0 .. k : i = p + h
      <4>1. i - p \in 0 .. k /\ i = p + (i - p)
        BY <1>3, <1>7
      <4> QED
        BY <4>1
    <3>2. CASE h = 0
      <4>1. i = p
        BY <1>3, <3>1, <3>2
      <4> QED
        BY <1>7, <4>1
    <3>3. CASE h \in 1 .. r
      BY <1>9, <3>1, <3>3
    <3>4. CASE h = r + 1
      <4>1. k = r + 1 /\ i = p + r + 1
        BY <1>3, <3>1, <3>4
      <4> QED
        BY <1>10, <4>1
    <3> QED
      BY <3>1, <3>2, <3>3, <3>4
  <2>2. x + k <= Len(at) /\ at[x + k] = at[x] + k
    <3>1. k \in Nat
      OBVIOUS
    <3>2. Covers(at, Len(at), at[x], at[x] + k)
      BY <2>1 DEF Covers
    <3> QED
      BY <1>0, <1>7, <3>1, <3>2, RunOfTokens
  <2> QED
    BY <1>0, <1>7, <2>2
<1>11. ASSUME NEW k \in 1 .. r
       PROVE  k \in 1 .. Len(code) /\ raw[p + k].val = code[k]
  <2>1. k \in 1 .. r + 1 /\ k # r + 1
    OBVIOUS
  <2>2. x + k \in 1 .. Len(at) /\ at[x + k] = p + k
    BY <1>10, <2>1
  <2>3. PICK j \in 1 .. Len(at) : at[j] = p + k /\ raw[p + k] = script[j]
    BY <1>9
  <2>4. j = x + k
    <3>1. ~ (j < x + k) /\ ~ (x + k < j)
      BY <1>0, <2>2, <2>3, InOrder
    <3> QED
      BY <1>0, <2>2, <3>1
  <2>5. raw[p + k] = script[x + k] /\ x + k \in 1 .. Len(script)
    BY <1>0, <2>2, <2>3, <2>4
  <2>6. x + k \in x + 1 .. x + Len(code)
    BY <1>5, <2>5 DEF HasCode
  <2>7. k \in 1 .. Len(code)
    BY <2>6
  <2>8. raw[p + k] = Digit(code[k])
    BY <2>5, <2>7 DEF HasCode
  <2> QED
    BY <2>7, <2>8, KindsOfTokens
<1>12. r \in 1 .. Len(code)
  BY <1>11
<1>13. c = [k \in 1 .. r |-> code[k]] /\ x + r <= Len(at)
  <2>1. r \in 1 .. r + 1 /\ r # r + 1
    OBVIOUS
  <2>2. x + r \in 1 .. Len(at)
    BY <1>10, <2>1
  <2>3. c = [k \in 1 .. r |-> code[k]]
    BY <1>6, <1>11
  <2> QED
    BY <1>0, <2>2, <2>3
<1>14. ASSUME r # Len(code) PROVE DigitsCut(raw, p + r) /\ p + r \in 1 .. Len(raw)
  <2>1. p + r \in 1 .. Len(raw) /\ raw[p + r].kind = "digit"
    <3>1. r \in 1 .. r /\ p + r \in 1 .. Len(raw)
      BY <1>0, <1>2, <1>5
    <3> QED
      BY <1>5, <3>1
  <2>2. ASSUME p + r # Len(raw)
        PROVE  p + r + 2 <= Len(raw) /\ raw[p + r + 1] = CrLf /\ raw[p + r + 2] = Noise
    <3>0. \A n \in Nat : p + r <= n /\ p + r # n => p + r + 1 \in 1 .. n
      BY <1>2
    <3>1. raw[p + r + 1] = CrLf /\ p + r + 1 \in 1 .. Len(raw)
      BY <1>0, <1>5, <2>2, <3>0
    <3>2. ~ \E j \in 1 .. Len(at) : at[j] = p + r + 1
      <4> SUFFICES ASSUME \E j \in 1 .. Len(at) : at[j] = p + r + 1 PROVE FALSE
        OBVIOUS
      <4>1. r + 1 \in 1 .. r + 1
        OBVIOUS
      <4>2. x + (r + 1) \in 1 .. Len(at) /\ at[x + (r + 1)] = p + (r + 1)
        BY <1>10, <4>1
      <4>3. r + 1 \in 1 .. Len(code) /\ p + (r + 1) = p + r + 1
        BY <1>12, <1>3, <1>14
      <4>4. script[x + (r + 1)] = Digit(code[r + 1])
        BY <4>3 DEF HasCode
      <4>5. raw[p + r + 1] = Digit(code[r + 1]) \/ raw[p + r + 1] = Torn
        BY <4>2, <4>3, <4>4 DEF Carries
      <4> QED
        BY <3>1, <4>5, KindsOfTokens
    <3>3. KernelToken(raw, p + r + 1)
      BY <3>1, <3>2 DEF Carries
    <3>4. p + r + 1 - 1 = p + r /\ p + r + 1 + 1 = p + r + 2
      BY <1>3
    <3>5. raw[p + r] # Noise
      BY <2>1, KindsOfTokens
    <3>6. p + r + 1 < Len(raw) /\ raw[p + r + 2] = Noise
      <4> DEFINE i == p + r + 1
      <4>1. KernelToken(raw, i) /\ raw[i] = CrLf /\ i - 1 = p + r /\ i + 1 = p + r + 2
        BY <1>3, <3>1, <3>3, <3>4
      <4> HIDE DEF i
      <4>2. i < Len(raw) /\ raw[i + 1] = Noise
        BY <3>5, <4>1, KernelLineEnd
      <4> QED
        BY <1>3, <4>1, <4>2 DEF i
    <3> QED
      BY <1>0, <1>2, <3>1, <3>6
  <2> QED
    BY <2>1, <2>2 DEF DigitsCut
<1> QED
  BY <1>12, <1>13, <1>14

-----------------------------------------------------------------------------
(* Where the init script has what.                                         *)

\* All tokens of a console are such tokens.
LEMMA TypesOfTokens ==
    ASSUME NEW L
    PROVE  /\ CrLf \in Tokens(L) /\ Noise \in Tokens(L) /\ Torn \in Tokens(L)
           /\ \A m \in Names : Mark(m) \in Tokens(L)
           /\ \A c \in L : Group(c) \in Tokens(L) /\ Digit(c) \in Tokens(L)
<1> DEFINE K == {"mark", "b64", "digit", "crlf", "noise", "torn"}
           V == L \cup Names \cup {"crlf", "noise", "torn"}
<1>1. ASSUME NEW k \in K, NEW v \in V PROVE [kind |-> k, val |-> v] \in Tokens(L)
  <2>1. Tokens(L) = [kind : K, val : V]
    BY DEF Tokens
  <2> HIDE DEF K, V
  <2> QED
    BY <2>1
<1>2. \A k \in K : \A v \in V : [kind |-> k, val |-> v] \in Tokens(L)
  BY <1>1
<1>3. /\ {"crlf", "noise", "torn", "mark", "digit", "b64"} \subseteq K
      /\ L \subseteq V /\ Names \subseteq V /\ {"crlf", "noise", "torn"} \subseteq V
  OBVIOUS
<1> HIDE DEF K, V
<1>4. /\ \A m \in Names : Mark(m) \in Tokens(L)
      /\ \A c \in L : Group(c) \in Tokens(L) /\ Digit(c) \in Tokens(L)
  BY <1>2, <1>3 DEF Mark, Digit, Group
<1>5. CrLf \in Tokens(L) /\ Noise \in Tokens(L) /\ Torn \in Tokens(L)
  BY <1>2, <1>3 DEF CrLf, Noise, Torn
<1> QED
  BY <1>4, <1>5

\* The sequence s has w behind its first o tokens.
Part(s, o, w) == o + Len(w) <= Len(s) /\ \A i \in 1 .. Len(w) : s[o + i] = w[i]

\* What has been printed stays where it is, and what is printed next comes
\* behind it.
LEMMA Joined ==
    ASSUME NEW T, NEW s \in Seq(T), NEW v \in Seq(T)
    PROVE  /\ s \o v \in Seq(T) /\ Len(s \o v) = Len(s) + Len(v)
           /\ Part(s \o v, Len(s), v)
           /\ \A o \in Nat : \A w \in Seq(T) : Part(s, o, w) => Part(s \o v, o, w)
<1> DEFINE u == s \o v
<1>0. Len(s) \in Nat /\ Len(v) \in Nat
  OBVIOUS
<1>1. u \in Seq(T) /\ Len(u) = Len(s) + Len(v)
  OBVIOUS
<1>2. /\ \A i \in 1 .. Len(s) : u[i] = s[i]
      /\ \A i \in 1 .. Len(v) : u[Len(s) + i] = v[i]
  BY <1>0, ConcatProperties
<1> HIDE DEF u
<1>3. Part(u, Len(s), v)
  BY <1>0, <1>1, <1>2 DEF Part
<1>4. ASSUME NEW o \in Nat, NEW w \in Seq(T), Part(s, o, w) PROVE Part(u, o, w)
  <2>1. Len(w) \in Nat /\ o + Len(w) <= Len(s)
    BY <1>4 DEF Part
  <2>2. \A i \in 1 .. Len(w) : o + i \in 1 .. Len(s)
    BY <1>0, <2>1
  <2>3. \A i \in 1 .. Len(w) : u[o + i] = w[i]
    BY <1>2, <1>4, <2>2 DEF Part
  <2> QED
    BY <1>0, <1>1, <2>1, <2>3 DEF Part
<1> QED
  BY <1>1, <1>3, <1>4 DEF u

\* The lines that hold a stream.
LEMMA LinesOfStream ==
    ASSUME NEW L, NEW text \in Streams(L)
    PROVE  /\ Base64Lines(text) \in Seq(Tokens(L)) /\ Len(Base64Lines(text)) = 2 * Len(text)
           /\ \A k \in 1 .. Len(text) : Base64Lines(text)[2 * k - 1] = Group(text[k].val)
           /\ \A k \in 1 .. Len(text) : Base64Lines(text)[2 * k] = CrLf
<1> DEFINE n == Len(text)
           E(i) == IF i % 2 = 1 THEN Group(text[(i + 1) \div 2].val) ELSE CrLf
<1>0. n \in Nat
  BY DEF Streams
<1>1. \A k \in 1 .. n : text[k].val \in L
  <2>1. \A k \in 1 .. n : \E c \in L : text[k] = Text(c)
    BY ElementOfSeq DEF Streams
  <2>2. \A c : Text(c).val = c
    BY DEF Text
  <2> QED
    BY <2>1, <2>2
<1>2. Base64Lines(text) = [i \in 1 .. 2 * n |-> E(i)]
  BY DEF Base64Lines
<1>3. CrLf \in Tokens(L) /\ \A c \in L : Group(c) \in Tokens(L)
  BY TypesOfTokens
<1>4. ASSUME NEW i \in 1 .. 2 * n PROVE E(i) \in Tokens(L)
  <2>1. i % 2 = 1 => (i + 1) \div 2 \in 1 .. n
    BY <1>0
  <2> QED
    BY <1>1, <1>3, <2>1
<1>5. ASSUME NEW k \in 1 .. n
      PROVE  2 * k - 1 \in 1 .. 2 * n /\ E(2 * k - 1) = Group(text[k].val)
  <2>1. 2 * k - 1 \in 1 .. 2 * n /\ (2 * k - 1) % 2 = 1 /\ (2 * k - 1 + 1) \div 2 = k
    BY <1>0
  <2> QED
    BY <2>1
<1>6. ASSUME NEW k \in 1 .. n PROVE 2 * k \in 1 .. 2 * n /\ E(2 * k) = CrLf
  <2>1. 2 * k \in 1 .. 2 * n /\ (2 * k) % 2 # 1
    BY <1>0
  <2> QED
    BY <2>1
<1> HIDE DEF E
<1> DEFINE B == Base64Lines(text)
<1>7. \A i \in 1 .. 2 * n : B[i] = E(i)
  BY <1>2
<1>8. B \in [1 .. 2 * n -> Tokens(L)] /\ 2 * n \in Nat
  BY <1>0, <1>2, <1>4
<1>9. B \in Seq(Tokens(L)) /\ Len(B) = 2 * n
  <2> HIDE DEF B, n
  <2> QED
    BY <1>8, SeqDef
<1>10. \A k \in 1 .. n : B[2 * k - 1] = Group(text[k].val)
  <2> HIDE DEF B, n
  <2> QED
    BY <1>5, <1>7
<1>11. \A k \in 1 .. n : B[2 * k] = CrLf
  <2> HIDE DEF B, n
  <2> QED
    BY <1>6, <1>7
<1> QED
  BY <1>9, <1>10, <1>11

\* What the init script prints, place by place.
Layout(s, out, err, code) ==
    LET n == Len(out)
        m == Len(err)
        k == Len(code)
    IN  /\ Len(s) = 2 * n + 2 * m + k + 10
        /\ Part(s, 0, <<Mark("OUT_START"), CrLf>>) /\ Part(s, 2, Base64Lines(out))
        /\ Part(s, 2 * n + 2, <<Mark("OUT_END"), CrLf>>)
        /\ Part(s, 2 * n + 4, <<Mark("ERR_START"), CrLf>>) /\ Part(s, 2 * n + 6, Base64Lines(err))
        /\ Part(s, 2 * n + 2 * m + 6, <<Mark("ERR_END"), CrLf>>)
        /\ Part(s, 2 * n + 2 * m + 8, <<Mark("EXIT")>>)
        /\ Part(s, 2 * n + 2 * m + 9, [i \in 1 .. k |-> Digit(code[i])])
        /\ Part(s, 2 * n + 2 * m + k + 9, <<CrLf>>)

\* The init script has this layout.
LEMMA ScriptLayout ==
    ASSUME NEW L, NEW out \in Streams(L), NEW err \in Streams(L), NEW code \in Seq(L)
    PROVE  InitScript(out, err, code) \in Seq(Tokens(L)) /\ Layout(InitScript(out, err, code), out, err, code)
<1> DEFINE T == Tokens(L)
           n == Len(out)
           m == Len(err)
           k == Len(code)
           D == [i \in 1 .. k |-> Digit(code[i])]
           B == Base64Lines(out)
           C == Base64Lines(err)
           Two(a) == <<Mark(a), CrLf>>
<1>0. n \in Nat /\ m \in Nat /\ k \in Nat
  BY DEF Streams
<1>1. B \in Seq(T) /\ Len(B) = 2 * n /\ C \in Seq(T) /\ Len(C) = 2 * m
  BY LinesOfStream
<1>2. D \in Seq(T) /\ Len(D) = k
  <2>1. \A i \in 1 .. k : code[i] \in L
    BY ElementOfSeq
  <2>2. \A c \in L : Digit(c) \in T
    BY TypesOfTokens
  <2> HIDE DEF T
  <2>3. D \in [1 .. k -> T]
    BY <2>1, <2>2
  <2> HIDE DEF k, D
  <2> QED
    BY <1>0, <2>3, SeqDef
<1>3. /\ \A a \in Names : Two(a) \in Seq(T) /\ Len(Two(a)) = 2
      /\ <<Mark("EXIT")>> \in Seq(T) /\ Len(<<Mark("EXIT")>>) = 1
      /\ <<CrLf>> \in Seq(T) /\ Len(<<CrLf>>) = 1
  <2>1. CrLf \in T /\ \A a \in Names : Mark(a) \in T
    BY TypesOfTokens
  <2>2. "EXIT" \in Names
    BY DEF Names
  <2> HIDE DEF T
  <2> QED
    BY <2>1, <2>2
<1>4. "OUT_START" \in Names /\ "OUT_END" \in Names /\ "ERR_START" \in Names /\ "ERR_END" \in Names
  BY DEF Names
<1> DEFINE s1 == Two("OUT_START")
           s2 == s1 \o B
           s3 == s2 \o Two("OUT_END")
           s4 == s3 \o Two("ERR_START")
           s5 == s4 \o C
           s6 == s5 \o Two("ERR_END")
           s7 == s6 \o <<Mark("EXIT")>>
           s8 == s7 \o D
           s9 == s8 \o <<CrLf>>
<1>s. s9 = InitScript(out, err, code)
  BY DEF InitScript
<1> HIDE DEF T, n, m, k, B, C, D, Two
<1>10. s1 \in Seq(T) /\ Len(s1) = 2 /\ Part(s1, 0, Two("OUT_START"))
  BY <1>3, <1>4 DEF Part
<1> HIDE DEF s1
<1>11. s2 \in Seq(T) /\ Len(s2) = 2 * n + 2 /\ Part(s2, 0, Two("OUT_START")) /\ Part(s2, 2, B)
  <2>1. s2 \in Seq(T) /\ Len(s2) = 2 + 2 * n
    BY <1>1, <1>10, Joined
  <2>2. Part(s2, 0, Two("OUT_START")) /\ Part(s2, 2, B)
    BY <1>1, <1>3, <1>4, <1>10, Joined
  <2> QED
    BY <1>0, <2>1, <2>2
<1> HIDE DEF s2
<1>12. /\ s3 \in Seq(T) /\ Len(s3) = 2 * n + 4 /\ Part(s3, 0, Two("OUT_START")) /\ Part(s3, 2, B)
       /\ Part(s3, 2 * n + 2, Two("OUT_END"))
  <2>0. s3 \in Seq(T) /\ Len(s3) = Len(s2) + Len(Two("OUT_END"))
    BY <1>3, <1>4, <1>11, Joined
  <2>1. s3 \in Seq(T) /\ Len(s3) = 2 * n + 2 + 2
    <3> HIDE DEF s3
    <3> QED
      BY <1>3, <1>4, <1>11, <2>0
  <2>2. Part(s3, 0, Two("OUT_START")) /\ Part(s3, 2, B) /\ Part(s3, 2 * n + 2, Two("OUT_END"))
    BY <1>1, <1>3, <1>4, <1>11, Joined
  <2> QED
    BY <1>0, <2>1, <2>2
<1> HIDE DEF s3
<1>13. /\ s4 \in Seq(T) /\ Len(s4) = 2 * n + 6 /\ Part(s4, 0, Two("OUT_START")) /\ Part(s4, 2, B)
       /\ Part(s4, 2 * n + 2, Two("OUT_END")) /\ Part(s4, 2 * n + 4, Two("ERR_START"))
  <2>0. s4 \in Seq(T) /\ Len(s4) = Len(s3) + Len(Two("ERR_START"))
    BY <1>3, <1>4, <1>12, Joined
  <2>1. s4 \in Seq(T) /\ Len(s4) = 2 * n + 4 + 2 /\ 2 * n + 2 \in Nat
    <3>1. Len(s3) = 2 * n + 4 /\ Len(Two("ERR_START")) = 2
      BY <1>3, <1>4, <1>12
    <3>2. 2 * n + 2 \in Nat
      BY <1>0
    <3>3. Len(s4) = 2 * n + 4 + 2
      BY <2>0, <3>1
    <3> QED
      BY <2>0, <3>2, <3>3
  <2>2. /\ Part(s4, 0, Two("OUT_START")) /\ Part(s4, 2, B) /\ Part(s4, 2 * n + 2, Two("OUT_END"))
        /\ Part(s4, 2 * n + 4, Two("ERR_START"))
    BY <1>1, <1>3, <1>4, <1>12, <2>1, Joined
  <2> QED
    BY <1>0, <2>1, <2>2
<1> HIDE DEF s4
<1>14. /\ s5 \in Seq(T) /\ Len(s5) = 2 * n + 2 * m + 6 /\ Part(s5, 0, Two("OUT_START")) /\ Part(s5, 2, B)
       /\ Part(s5, 2 * n + 2, Two("OUT_END")) /\ Part(s5, 2 * n + 4, Two("ERR_START")) /\ Part(s5, 2 * n + 6, C)
  <2>1. s5 \in Seq(T) /\ Len(s5) = 2 * n + 6 + 2 * m /\ 2 * n + 2 \in Nat /\ 2 * n + 4 \in Nat
    <3>1. s5 \in Seq(T) /\ Len(s5) = Len(s4) + Len(C)
      BY <1>1, <1>13, Joined
    <3> HIDE DEF s5
    <3> QED
      BY <1>0, <1>1, <1>13, <3>1
  <2>2. /\ Part(s5, 0, Two("OUT_START")) /\ Part(s5, 2, B) /\ Part(s5, 2 * n + 2, Two("OUT_END"))
        /\ Part(s5, 2 * n + 4, Two("ERR_START")) /\ Part(s5, 2 * n + 6, C)
    BY <1>1, <1>3, <1>4, <1>13, <2>1, Joined
  <2> QED
    BY <1>0, <2>1, <2>2
<1> HIDE DEF s5
<1> DEFINE x == 2 * n + 2 * m + 9
           Streamed(s) == /\ Part(s, 0, Two("OUT_START")) /\ Part(s, 2, B)
                          /\ Part(s, 2 * n + 2, Two("OUT_END")) /\ Part(s, 2 * n + 4, Two("ERR_START"))
                          /\ Part(s, 2 * n + 6, C)
<1>15. ASSUME NEW s \in Seq(T), NEW v \in Seq(T), Streamed(s) PROVE Streamed(s \o v)
  <2>1. 2 * n + 2 \in Nat /\ 2 * n + 4 \in Nat /\ 2 * n + 6 \in Nat /\ 0 \in Nat /\ 2 \in Nat
    BY <1>0
  <2>2. \A o \in Nat : \A w \in Seq(T) : Part(s, o, w) => Part(s \o v, o, w)
    BY Joined
  <2> QED
    BY <1>1, <1>3, <1>4, <1>15, <2>1, <2>2
<1>16. Streamed(s5)
  BY <1>14
<1> HIDE DEF Streamed
<1>17. /\ s6 \in Seq(T) /\ Len(s6) = 2 * n + 2 * m + 8 /\ Streamed(s6) /\ Part(s6, 2 * n + 2 * m + 6, Two("ERR_END"))
  <2>0. s6 \in Seq(T) /\ Len(s6) = Len(s5) + Len(Two("ERR_END"))
    BY <1>3, <1>4, <1>14, Joined
  <2>1. s6 \in Seq(T) /\ Len(s6) = 2 * n + 2 * m + 6 + 2
    <3> HIDE DEF s6
    <3> QED
      BY <1>3, <1>4, <1>14, <2>0
  <2>2. Streamed(s6) /\ Part(s6, 2 * n + 2 * m + 6, Two("ERR_END"))
    BY <1>3, <1>4, <1>14, <1>15, <1>16, Joined
  <2> QED
    BY <1>0, <2>1, <2>2
<1> HIDE DEF s6
<1>18. /\ s7 \in Seq(T) /\ Len(s7) = x /\ Streamed(s7) /\ Part(s7, 2 * n + 2 * m + 6, Two("ERR_END"))
       /\ Part(s7, 2 * n + 2 * m + 8, <<Mark("EXIT")>>)
  <2>1. s7 \in Seq(T) /\ Len(s7) = 2 * n + 2 * m + 8 + 1 /\ 2 * n + 2 * m + 6 \in Nat
    BY <1>0, <1>3, <1>17, Joined
  <2>2. /\ Streamed(s7) /\ Part(s7, 2 * n + 2 * m + 6, Two("ERR_END"))
        /\ Part(s7, 2 * n + 2 * m + 8, <<Mark("EXIT")>>)
    BY <1>3, <1>4, <1>15, <1>17, <2>1, Joined
  <2> QED
    BY <1>0, <2>1, <2>2
<1> HIDE DEF s7
<1>19. /\ s8 \in Seq(T) /\ Len(s8) = x + k /\ Streamed(s8) /\ Part(s8, 2 * n + 2 * m + 6, Two("ERR_END"))
       /\ Part(s8, 2 * n + 2 * m + 8, <<Mark("EXIT")>>) /\ Part(s8, x, D)
  <2>1. 2 * n + 2 * m + 6 \in Nat /\ 2 * n + 2 * m + 8 \in Nat
    BY <1>0
  <2>2. s8 \in Seq(T) /\ Len(s8) = x + k
    BY <1>2, <1>18, Joined
  <2>3. /\ Streamed(s8) /\ Part(s8, 2 * n + 2 * m + 6, Two("ERR_END"))
        /\ Part(s8, 2 * n + 2 * m + 8, <<Mark("EXIT")>>) /\ Part(s8, x, D)
    BY <1>2, <1>3, <1>4, <1>15, <1>18, <2>1, Joined
  <2> QED
    BY <2>2, <2>3
<1> HIDE DEF s8
<1>20. /\ s9 \in Seq(T) /\ Len(s9) = x + k + 1 /\ Streamed(s9) /\ Part(s9, 2 * n + 2 * m + 6, Two("ERR_END"))
       /\ Part(s9, 2 * n + 2 * m + 8, <<Mark("EXIT")>>) /\ Part(s9, x, D) /\ Part(s9, x + k, <<CrLf>>)
  <2>1. 2 * n + 2 * m + 6 \in Nat /\ 2 * n + 2 * m + 8 \in Nat /\ x \in Nat
    BY <1>0
  <2>2. s9 \in Seq(T) /\ Len(s9) = x + k + 1
    BY <1>3, <1>19, Joined
  <2>3. /\ Streamed(s9) /\ Part(s9, 2 * n + 2 * m + 6, Two("ERR_END"))
        /\ Part(s9, 2 * n + 2 * m + 8, <<Mark("EXIT")>>) /\ Part(s9, x, D) /\ Part(s9, x + k, <<CrLf>>)
    BY <1>2, <1>3, <1>4, <1>15, <1>19, <2>1, Joined
  <2> QED
    BY <2>2, <2>3
<1>21. x + k = 2 * n + 2 * m + k + 9 /\ x + k + 1 = 2 * n + 2 * m + k + 10
  BY <1>0
<1>22. Layout(s9, out, err, code) <=>
          /\ Len(s9) = 2 * n + 2 * m + k + 10 /\ Streamed(s9)
          /\ Part(s9, 2 * n + 2 * m + 6, Two("ERR_END")) /\ Part(s9, 2 * n + 2 * m + 8, <<Mark("EXIT")>>)
          /\ Part(s9, x, D) /\ Part(s9, 2 * n + 2 * m + k + 9, <<CrLf>>)
  <2> HIDE DEF s9
  <2> QED
    BY DEF Layout, Streamed, Two, B, C, D, n, m, k, x
<1> HIDE DEF s9, x
<1>23. s9 \in Seq(T) /\ Layout(s9, out, err, code)
  BY <1>20, <1>21, <1>22
<1> QED
  BY <1>s, <1>23 DEF T

\* A part of two tokens.
LEMMA PartOfTwo ==
    ASSUME NEW s, NEW o \in Nat, NEW a, NEW b, Part(s, o, <<a, b>>)
    PROVE  s[o + 1] = a /\ s[o + 2] = b
<1>1. Len(<<a, b>>) = 2 /\ <<a, b>>[1] = a /\ <<a, b>>[2] = b
  OBVIOUS
<1>2. \A i \in 1 .. 2 : s[o + i] = <<a, b>>[i]
  BY <1>1 DEF Part
<1> QED
  BY <1>1, <1>2

\* Every group of a stream is followed by a line end.
LEMMA PartOfLines ==
    ASSUME NEW s, NEW o \in Nat, NEW L, NEW text \in Streams(L), Part(s, o, Base64Lines(text))
    PROVE  /\ \A k \in 1 .. Len(text) : s[o + 2 * k - 1] = Group(text[k].val) /\ s[o + 2 * k] = CrLf
           /\ \A j \in o + 1 .. o + 2 * Len(text) : s[j].kind \in {"b64", "crlf"}
<1> DEFINE n == Len(text)
           B == Base64Lines(text)
<1>0. n \in Nat
  BY DEF Streams
<1>1. /\ Len(B) = 2 * n
      /\ \A k \in 1 .. n : B[2 * k - 1] = Group(text[k].val)
      /\ \A k \in 1 .. n : B[2 * k] = CrLf
  BY LinesOfStream
<1>2. \A i \in 1 .. 2 * n : s[o + i] = B[i]
  BY <1>1 DEF Part
<1> HIDE DEF n, B
<1>3. ASSUME NEW k \in 1 .. n PROVE s[o + 2 * k - 1] = Group(text[k].val) /\ s[o + 2 * k] = CrLf
  <2>1. 2 * k - 1 \in 1 .. 2 * n /\ 2 * k \in 1 .. 2 * n /\ o + (2 * k - 1) = o + 2 * k - 1
    BY <1>0
  <2> QED
    BY <1>1, <1>2, <2>1
<1>4. ASSUME NEW j \in o + 1 .. o + 2 * n PROVE s[j].kind \in {"b64", "crlf"}
  <2>1. PICK h \in 1 .. n : j = o + 2 * h - 1 \/ j = o + 2 * h
    <3>1. (j - o + 1) \div 2 \in 1 .. n
      BY <1>0
    <3>2. j = o + 2 * ((j - o + 1) \div 2) - 1 \/ j = o + 2 * ((j - o + 1) \div 2)
      BY <1>0
    <3> QED
      BY <3>1, <3>2
  <2> QED
    BY <1>3, <2>1, KindsOfTokens
<1> QED
  BY <1>3, <1>4 DEF n

\* The init script has the sections of both streams and the exit code, each
\* behind its own markers.
LEMMA ScriptSections ==
    ASSUME NEW L, NEW out \in Streams(L), NEW err \in Streams(L), NEW code \in Seq(L),
           NEW s, Layout(s, out, err, code)
    PROVE  /\ HasSection(s, 1, "OUT_START", "OUT_END", out)
           /\ HasSection(s, 2 * Len(out) + 5, "ERR_START", "ERR_END", err)
           /\ HasCode(s, 2 * Len(out) + 2 * Len(err) + 9, code)
<1> DEFINE n == Len(out)
           m == Len(err)
           k == Len(code)
           x == 2 * n + 2 * m + 9
           D == [i \in 1 .. k |-> Digit(code[i])]
<1>0. n \in Nat /\ m \in Nat /\ k \in Nat
  BY DEF Streams
<1>1. /\ Len(s) = 2 * n + 2 * m + k + 10
      /\ Part(s, 0, <<Mark("OUT_START"), CrLf>>) /\ Part(s, 2, Base64Lines(out))
      /\ Part(s, 2 * n + 2, <<Mark("OUT_END"), CrLf>>)
      /\ Part(s, 2 * n + 4, <<Mark("ERR_START"), CrLf>>) /\ Part(s, 2 * n + 6, Base64Lines(err))
      /\ Part(s, 2 * n + 2 * m + 6, <<Mark("ERR_END"), CrLf>>)
      /\ Part(s, 2 * n + 2 * m + 8, <<Mark("EXIT")>>)
      /\ Part(s, x, D) /\ Part(s, 2 * n + 2 * m + k + 9, <<CrLf>>)
  BY DEF Layout
<1> HIDE DEF n, m, k, D
<1>2. s[1] = Mark("OUT_START") /\ s[2] = CrLf
  <2>1. s[0 + 1] = Mark("OUT_START") /\ s[0 + 2] = CrLf
    BY <1>1, PartOfTwo
  <2> QED
    BY <2>1
<1>3. s[2 * n + 3] = Mark("OUT_END") /\ s[2 * n + 4] = CrLf
  <2>1. 2 * n + 2 \in Nat /\ 2 * n + 2 + 1 = 2 * n + 3 /\ 2 * n + 2 + 2 = 2 * n + 4
    BY <1>0
  <2> DEFINE o == 2 * n + 2
  <2>2. o \in Nat /\ Part(s, o, <<Mark("OUT_END"), CrLf>>)
    BY <1>1, <2>1
  <2> HIDE DEF o
  <2>3. s[o + 1] = Mark("OUT_END") /\ s[o + 2] = CrLf
    BY <2>2, PartOfTwo
  <2> QED
    BY <2>1, <2>3 DEF o
<1>4. s[2 * n + 5] = Mark("ERR_START") /\ s[2 * n + 6] = CrLf
  <2>1. 2 * n + 4 \in Nat /\ 2 * n + 4 + 1 = 2 * n + 5 /\ 2 * n + 4 + 2 = 2 * n + 6
    BY <1>0
  <2> QED
    BY <1>1, <2>1, PartOfTwo
<1>5. s[2 * n + 2 * m + 7] = Mark("ERR_END") /\ s[2 * n + 2 * m + 8] = CrLf
  <2>1. /\ 2 * n + 2 * m + 6 \in Nat /\ 2 * n + 2 * m + 6 + 1 = 2 * n + 2 * m + 7
        /\ 2 * n + 2 * m + 6 + 2 = 2 * n + 2 * m + 8
    BY <1>0
  <2>2. s[2 * n + 2 * m + 6 + 1] = Mark("ERR_END") /\ s[2 * n + 2 * m + 6 + 2] = CrLf
    BY <1>1, <2>1, PartOfTwo
  <2> QED
    BY <2>1, <2>2
<1>6. s[x] = Mark("EXIT")
  <2>1. Len(<<Mark("EXIT")>>) = 1 /\ <<Mark("EXIT")>>[1] = Mark("EXIT") /\ 2 * n + 2 * m + 8 + 1 = x /\ 1 \in 1 .. 1
    BY <1>0
  <2>2. s[2 * n + 2 * m + 8 + 1] = <<Mark("EXIT")>>[1]
    BY <1>1, <2>1 DEF Part
  <2> QED
    BY <2>1, <2>2
<1>7. s[x + k + 1] = CrLf
  <2>1. Len(<<CrLf>>) = 1 /\ <<CrLf>>[1] = CrLf /\ 2 * n + 2 * m + k + 9 + 1 = x + k + 1 /\ 1 \in 1 .. 1
    BY <1>0
  <2>2. s[2 * n + 2 * m + k + 9 + 1] = <<CrLf>>[1]
    BY <1>1, <2>1 DEF Part
  <2> QED
    BY <2>1, <2>2
<1>8. \A i \in 1 .. k : s[x + i] = Digit(code[i])
  <2>1. D \in [1 .. k -> {D[i] : i \in 1 .. k}] /\ \A i \in 1 .. k : D[i] = Digit(code[i])
    BY DEF D
  <2>2. Len(D) = k
    BY <1>0, <2>1, SeqDef
  <2> QED
    BY <1>1, <2>1, <2>2 DEF Part
<1>9. /\ \A i \in 1 .. n : s[2 + 2 * i - 1] = Group(out[i].val) /\ s[2 + 2 * i] = CrLf
      /\ \A j \in 2 + 1 .. 2 + 2 * n : s[j].kind \in {"b64", "crlf"}
  BY <1>1, PartOfLines DEF n
<1>10. /\ \A i \in 1 .. m : s[2 * n + 6 + 2 * i - 1] = Group(err[i].val) /\ s[2 * n + 6 + 2 * i] = CrLf
       /\ \A j \in 2 * n + 6 + 1 .. 2 * n + 6 + 2 * m : s[j].kind \in {"b64", "crlf"}
  <2>1. 2 * n + 6 \in Nat
    BY <1>0
  <2> QED
    BY <1>1, <2>1, PartOfLines DEF m
<1>11. ASSUME NEW j \in 1 .. Len(s)
       PROVE  \/ j = 1 \/ j = 2 * n + 3 \/ j = 2 * n + 5 \/ j = 2 * n + 2 * m + 7 \/ j = x
              \/ s[j].kind \in {"b64", "crlf"}
              \/ j \in x + 1 .. x + k /\ s[j].kind = "digit"
  <2>1. \/ j \in {1, 2 * n + 3, 2 * n + 5, 2 * n + 2 * m + 7, x}
        \/ j \in {2, 2 * n + 4, 2 * n + 6, 2 * n + 2 * m + 8, x + k + 1}
        \/ j \in 2 + 1 .. 2 + 2 * n \/ j \in 2 * n + 6 + 1 .. 2 * n + 6 + 2 * m
        \/ j \in x + 1 .. x + k
    BY <1>0, <1>1
  <2>2. j \in {2, 2 * n + 4, 2 * n + 6, 2 * n + 2 * m + 8, x + k + 1} => s[j].kind = "crlf"
    BY <1>2, <1>3, <1>4, <1>5, <1>7, KindsOfTokens
  <2>3. j \in x + 1 .. x + k => s[j].kind = "digit"
    <3> SUFFICES ASSUME j \in x + 1 .. x + k PROVE s[j].kind = "digit"
      OBVIOUS
    <3>1. j - x \in 1 .. k /\ j = x + (j - x)
      BY <1>0
    <3> QED
      BY <1>8, <3>1, KindsOfTokens
  <2> QED
    BY <1>9, <1>10, <2>1, <2>2, <2>3
<1>12. /\ \A j \in 1 .. Len(s) : s[j] = Mark("OUT_START") <=> j = 1
       /\ \A j \in 1 .. Len(s) : s[j] = Mark("OUT_END") <=> j = 2 * n + 3
       /\ \A j \in 1 .. Len(s) : s[j] = Mark("ERR_START") <=> j = 2 * n + 5
       /\ \A j \in 1 .. Len(s) : s[j] = Mark("ERR_END") <=> j = 2 * n + 2 * m + 7
       /\ \A j \in 1 .. Len(s) : s[j] = Mark("EXIT") <=> j = x
  <2>1. /\ Mark("OUT_START") # Mark("OUT_END") /\ Mark("OUT_START") # Mark("ERR_START")
        /\ Mark("OUT_START") # Mark("ERR_END") /\ Mark("OUT_START") # Mark("EXIT")
        /\ Mark("OUT_END") # Mark("ERR_START") /\ Mark("OUT_END") # Mark("ERR_END")
        /\ Mark("OUT_END") # Mark("EXIT") /\ Mark("ERR_START") # Mark("ERR_END")
        /\ Mark("ERR_START") # Mark("EXIT") /\ Mark("ERR_END") # Mark("EXIT")
    BY KindsOfTokens
  <2>2. ASSUME NEW j \in 1 .. Len(s), NEW a, s[j] = Mark(a)
        PROVE  j = 1 \/ j = 2 * n + 3 \/ j = 2 * n + 5 \/ j = 2 * n + 2 * m + 7 \/ j = x
    BY <1>11, <2>2, KindsOfTokens
  <2> QED
    BY <1>2, <1>3, <1>4, <1>5, <1>6, <2>1, <2>2
<1>13. ASSUME NEW j \in 1 .. Len(s), s[j].kind = "digit" PROVE j \in x + 1 .. x + k
  <2>1. /\ s[1].kind = "mark" /\ s[2 * n + 3].kind = "mark" /\ s[2 * n + 5].kind = "mark"
        /\ s[2 * n + 2 * m + 7].kind = "mark" /\ s[x].kind = "mark"
    <3> HIDE DEF x
    <3> QED
      BY <1>2, <1>3, <1>4, <1>5, <1>6, KindsOfTokens
  <2>2. j # 1 /\ j # 2 * n + 3 /\ j # 2 * n + 5 /\ j # 2 * n + 2 * m + 7 /\ j # x
    BY <1>13, <2>1
  <2> QED
    BY <1>11, <1>13, <2>2
<1>14. HasCode(s, x, code)
  BY <1>8, <1>12, <1>13 DEF HasCode, k
<1>15. HasSection(s, 1, "OUT_START", "OUT_END", out)
  <2>1. \A i \in 1 .. n : s[1 + 2 * i] = Group(out[i].val) /\ s[1 + 2 * i + 1] = CrLf
    <3>1. \A i \in 1 .. n : 2 + 2 * i - 1 = 1 + 2 * i /\ 2 + 2 * i = 1 + 2 * i + 1
      BY <1>0
    <3> QED
      BY <1>9, <3>1
  <2>2. 1 + 2 * n + 2 = 2 * n + 3 /\ 1 + 1 = 2
    BY <1>0
  <2> QED
    BY <1>2, <1>12, <2>1, <2>2 DEF HasSection, n
<1>16. HasSection(s, 2 * n + 5, "ERR_START", "ERR_END", err)
  <2>1. \A i \in 1 .. m : s[2 * n + 5 + 2 * i] = Group(err[i].val) /\ s[2 * n + 5 + 2 * i + 1] = CrLf
    <3>1. \A i \in 1 .. m : 2 * n + 6 + 2 * i - 1 = 2 * n + 5 + 2 * i /\ 2 * n + 6 + 2 * i = 2 * n + 5 + 2 * i + 1
      BY <1>0
    <3> QED
      BY <1>10, <3>1
  <2>2. 2 * n + 5 + 2 * m + 2 = 2 * n + 2 * m + 7 /\ 2 * n + 5 + 1 = 2 * n + 6
    BY <1>0
  <2> QED
    BY <1>4, <1>12, <2>1, <2>2 DEF HasSection, m
<1> QED
  BY <1>14, <1>15, <1>16 DEF n, m

-----------------------------------------------------------------------------
(* A console without kernel messages, cut off anywhere.                    *)

\* A section that stands on the console as the script printed it is read.
LEMMA SectionFound ==
    ASSUME NEW T, NEW raw \in Seq(T), NEW start, NEW end, Mark(start) \in T, Mark(end) \in T, CrLf \in T,
           NEW L, NEW text \in Streams(L), NEW b \in Nat \ {0},
           HasSection(raw, b, start, end, text), b + 2 * Len(text) + 2 <= Len(raw)
    PROVE  ExtractB64Section(raw, start, end) = {text}
<1> DEFINE n == Len(text)
           e == b + 2 * n + 2
           t == SubSeq(raw, b + 2, e - 1)
           g == [k \in 1 .. n |-> 2 * k - 1]
<1>0. n \in Nat /\ Len(raw) \in Nat /\ e \in Nat /\ e <= Len(raw)
  BY DEF Streams
<1>1. /\ raw[b + 1] = CrLf
      /\ \A k \in 1 .. n : raw[b + 2 * k] = Group(text[k].val) /\ raw[b + 2 * k + 1] = CrLf
      /\ \A j \in 1 .. Len(raw) : (raw[j] = Mark(start) <=> j = b) /\ (raw[j] = Mark(end) <=> j = e)
  BY DEF HasSection
<1>2. Position(raw, <<Mark(start), CrLf>>, 1) = {b}
  <2>1. Position(raw, <<Mark(start), CrLf>>, 1) =
           {i \in 1 .. Len(raw) - 1 :
               /\ raw[i] = Mark(start) /\ raw[i + 1] = CrLf
               /\ \A j \in 1 .. i - 1 : ~ (raw[j] = Mark(start) /\ raw[j + 1] = CrLf)}
    BY FirstTwo
  <2>2. \A i \in 1 .. Len(raw) - 1 : i \in 1 .. Len(raw) /\ \A j \in 1 .. i - 1 : j \in 1 .. Len(raw) /\ j # i
    BY <1>0
  <2>3. b \in 1 .. Len(raw) - 1
    BY <1>0
  <2> HIDE DEF e, n
  <2> QED
    BY <1>1, <2>1, <2>2, <2>3
<1>3. Position(raw, <<Mark(end)>>, b + 2) = {e}
  <2>0. b + 2 \in Nat \ {0}
    OBVIOUS
  <2>1. Position(raw, <<Mark(end)>>, b + 2) =
           {i \in b + 2 .. Len(raw) : raw[i] = Mark(end) /\ \A j \in b + 2 .. i - 1 : raw[j] # Mark(end)}
    BY <2>0, FirstToken
  <2>2. \A i \in b + 2 .. Len(raw) : i \in 1 .. Len(raw) /\ \A j \in b + 2 .. i - 1 : j \in 1 .. Len(raw) /\ j # i
    BY <1>0
  <2>3. e \in b + 2 .. Len(raw)
    BY <1>0
  <2> HIDE DEF e, n
  <2> QED
    BY <1>1, <2>1, <2>2, <2>3
<1>4. DOMAIN t = 1 .. 2 * n /\ \A i \in 1 .. 2 * n : t[i] = raw[b + 1 + i]
  <2>1. \A i \in b + 2 .. e - 1 : i \in 1 .. Len(raw)
    BY <1>0
  <2>2. b + 2 \in Int /\ e - 1 \in Int /\ \A i \in b + 2 .. e - 1 : raw[i] \in T
    BY <1>0, <2>1, ElementOfSeq
  <2>3. /\ t \in Seq(T) /\ Len(t) = IF b + 2 <= e - 1 THEN e - 1 - (b + 2) + 1 ELSE 0
        /\ \A i \in 1 .. e - 1 - (b + 2) + 1 : t[i] = raw[b + 2 + i - 1]
    BY <2>2, SubSeqProperties
  <2>4. e - 1 - (b + 2) + 1 = 2 * n /\ (b + 2 <= e - 1 \/ 2 * n = 0) /\ \A i \in Int : b + 2 + i - 1 = b + 1 + i
    BY <1>0
  <2>5. Len(t) = 2 * n
    BY <2>3, <2>4
  <2>6. DOMAIN t = 1 .. 2 * n
    BY <2>3, <2>5, LenProperties
  <2> HIDE DEF t, e
  <2> QED
    BY <2>3, <2>4, <2>6
<1> HIDE DEF t
<1>5. ASSUME NEW k \in 1 .. n
      PROVE  /\ g[k] \in Int /\ g[k] \in DOMAIN t /\ t[g[k]] = Group(text[k].val) /\ t[g[k]] # CrLf
             /\ t[2 * k] = CrLf
  <2>1. /\ 2 * k - 1 \in 1 .. 2 * n /\ 2 * k \in 1 .. 2 * n
        /\ b + 1 + (2 * k - 1) = b + 2 * k /\ b + 1 + 2 * k = b + 2 * k + 1
    BY <1>0
  <2>2. Group(text[k].val) # CrLf
    BY KindsOfTokens
  <2>3. g[k] = 2 * k - 1
    OBVIOUS
  <2>4. t[2 * k - 1] = raw[b + 2 * k] /\ t[2 * k] = raw[b + 2 * k + 1]
    BY <1>4, <2>1
  <2> QED
    BY <1>1, <1>4, <2>1, <2>2, <2>3, <2>4
<1>6. g \in [1 .. n -> Int] /\ Increasing(g)
  BY <1>0 DEF Increasing
<1>7. ASSUME NEW i \in 1 .. 2 * n PROVE t[i] = CrLf \/ \E k \in 1 .. n : g[k] = i
  <2>1. PICK h \in 1 .. n : i = 2 * h - 1 \/ i = 2 * h
    <3>1. (i + 1) \div 2 \in 1 .. n
      BY <1>0
    <3>2. i = 2 * ((i + 1) \div 2) - 1 \/ i = 2 * ((i + 1) \div 2)
      BY <1>0
    <3> QED
      BY <3>1, <3>2
  <2>2. g[h] = 2 * h - 1
    OBVIOUS
  <2> QED
    BY <1>5, <2>1, <2>2
<1> HIDE DEF g
<1>8. Lists(g, n, t)
  BY <1>0, <1>4, <1>5, <1>6, <1>7 DEF Lists
<1>9. Decode(StripLineEnds(t)) = {text}
  <2>1. \A k \in 1 .. n : t[g[k]] = Group(text[k].val)
    BY <1>5
  <2> QED
    BY <1>8, <2>1, DecodeInOrder
<1> HIDE DEF e
<1>10. ExtractB64Section(raw, start, end) = Decode(StripLineEnds(SubSeq(raw, b + 2, e - 1)))
  <2> DEFINE D(p, q) == Decode(StripLineEnds(SubSeq(raw, p + 2, q - 1)))
             P == Position(raw, <<Mark(start), CrLf>>, 1)
             Q(p) == Position(raw, <<Mark(end)>>, p + 2)
  <2>1. ExtractB64Section(raw, start, end) = UNION {UNION {D(p, q) : q \in Q(p)} : p \in P}
    BY DEF ExtractB64Section
  <2>2. P = {b} /\ Q(b) = {e}
    BY <1>2, <1>3
  <2> HIDE DEF D, P, Q
  <2>3. ExtractB64Section(raw, start, end) = D(b, e)
    BY <2>1, <2>2
  <2> QED
    BY <2>3 DEF D
<1> QED
  BY <1>9, <1>10, Zenon DEF t

\* A run of digits that ends with its line or with the console is read.
LEMMA DigitsRead ==
    ASSUME NEW T, NEW raw \in Seq(T), CrLf \in T, NEW p \in Nat, NEW r \in Nat \ {0}, NEW d,
           DigitsBehind(raw, p, r, d)
    PROVE  NumberAt(raw, p + 1) = {d}
<1> DEFINE ends == Position(raw, <<CrLf>>, p + 1)
           last == IF ends = {} THEN Len(raw) ELSE (CHOOSE q \in ends : TRUE) - 1
           value == SubSeq(raw, p + 1, last)
<1>0. Len(raw) \in Nat /\ p + 1 \in Nat \ {0} /\ p + r <= Len(raw)
  BY DEF DigitsBehind
<1>1. /\ p + r = Len(raw) \/ raw[p + r + 1] = CrLf
      /\ \A k \in 1 .. r : raw[p + k].kind = "digit"
  BY DEF DigitsBehind
<1>2. d = [k \in 1 .. r |-> raw[p + k].val]
  BY DEF DigitsBehind
<1>3. ends = {i \in p + 1 .. Len(raw) : raw[i] = CrLf /\ \A j \in p + 1 .. i - 1 : raw[j] # CrLf}
  BY <1>0, FirstToken
<1>4. ASSUME NEW i \in p + 1 .. p + r PROVE raw[i] # CrLf
  <2>1. i - p \in 1 .. r /\ i = p + (i - p)
    OBVIOUS
  <2>2. raw[p + (i - p)].kind = "digit"
    BY <1>1, <2>1
  <2> QED
    BY <2>1, <2>2, KindsOfTokens
<1>5. last = p + r
  <2>1. CASE p + r = Len(raw)
    <3>1. ends = {}
      BY <1>3, <1>4, <2>1
    <3> HIDE DEF ends
    <3> QED
      BY <2>1, <3>1
  <2>2. CASE p + r # Len(raw)
    <3> DEFINE q == p + r + 1
    <3>1. q \in p + 1 .. Len(raw) /\ raw[q] = CrLf /\ q - 1 = p + r
      BY <1>0, <1>1, <2>2
    <3>2. q \in ends
      BY <1>3, <1>4, <3>1
    <3>3. ASSUME NEW i \in ends PROVE i = q
      <4>1. Len(<<CrLf>>) \in Nat /\ p + 1 \in Int
        OBVIOUS
      <4> HIDE DEF q
      <4> QED
        BY <1>0, <3>2, <4>1, OnePosition
    <3> HIDE DEF ends, q
    <3>4. ends # {} /\ (CHOOSE z \in ends : TRUE) = q
      BY <3>2, <3>3
    <3> QED
      BY <3>1, <3>4
  <2> QED
    BY <2>1, <2>2
<1>v. NumberAt(raw, p + 1) = IF value # <<>> /\ \A k \in DOMAIN value : value[k].kind = "digit"
                             THEN {[k \in DOMAIN value |-> value[k].val]} ELSE {}
  BY DEF NumberAt
<1> HIDE DEF ends, last
<1>6. DOMAIN value = 1 .. r /\ value # <<>> /\ \A k \in 1 .. r : value[k] = raw[p + k]
  <2>1. \A i \in p + 1 .. last : i \in 1 .. Len(raw)
    BY <1>0, <1>5
  <2>2. p + 1 \in Int /\ last \in Int /\ \A i \in p + 1 .. last : raw[i] \in T
    BY <1>0, <1>5, <2>1, ElementOfSeq
  <2>3. /\ value \in Seq(T) /\ Len(value) = IF p + 1 <= last THEN last - (p + 1) + 1 ELSE 0
        /\ \A i \in 1 .. last - (p + 1) + 1 : value[i] = raw[p + 1 + i - 1]
    BY <2>2, SubSeqProperties
  <2>4. p + 1 <= last /\ last - (p + 1) + 1 = r /\ \A i \in Int : p + 1 + i - 1 = p + i
    BY <1>5
  <2> HIDE DEF value
  <2>5. Len(value) = r
    BY <2>3, <2>4
  <2>6. DOMAIN value = 1 .. r
    BY <2>3, <2>5, LenProperties
  <2>7. value # <<>>
    BY <2>5
  <2> QED
    BY <2>3, <2>4, <2>6, <2>7
<1> HIDE DEF value
<1>7. NumberAt(raw, p + 1) = {[k \in 1 .. r |-> value[k].val]}
  BY <1>1, <1>6, <1>v
<1>8. [k \in 1 .. r |-> value[k].val] = d
  BY <1>2, <1>6
<1> QED
  BY <1>7, <1>8

\* Of a script that is cut off, the sections that are complete stay what they
\* are.
LEMMA PrefixHasSection ==
    ASSUME NEW T, NEW s \in Seq(T), NEW c \in Seq(T), Len(c) <= Len(s),
           \A i \in 1 .. Len(c) : c[i] = s[i],
           NEW start, NEW end, NEW L, NEW text \in Streams(L), NEW b \in Nat \ {0},
           HasSection(s, b, start, end, text), b + 2 * Len(text) + 2 <= Len(c)
    PROVE  HasSection(c, b, start, end, text)
<1> DEFINE n == Len(text)
           e == b + 2 * n + 2
<1>0. n \in Nat /\ Len(s) \in Nat /\ Len(c) \in Nat
  BY DEF Streams
<1>1. /\ s[b + 1] = CrLf
      /\ \A k \in 1 .. n : s[b + 2 * k] = Group(text[k].val) /\ s[b + 2 * k + 1] = CrLf
      /\ \A j \in 1 .. Len(s) : (s[j] = Mark(start) <=> j = b) /\ (s[j] = Mark(end) <=> j = e)
  BY DEF HasSection
<1>2. c[b + 1] = s[b + 1]
  <2>1. b + 1 \in 1 .. Len(c)
    BY <1>0
  <2> QED
    BY <2>1
<1>3. ASSUME NEW k \in 1 .. n
      PROVE  c[b + 2 * k] = s[b + 2 * k] /\ c[b + 2 * k + 1] = s[b + 2 * k + 1]
  <2>1. b + 2 * k \in 1 .. Len(c) /\ b + 2 * k + 1 \in 1 .. Len(c)
    BY <1>0
  <2> QED
    BY <2>1
<1>4. \A j \in 1 .. Len(c) : j \in 1 .. Len(s)
  BY <1>0
<1>5. /\ c[b + 1] = CrLf
      /\ \A k \in 1 .. n : c[b + 2 * k] = Group(text[k].val) /\ c[b + 2 * k + 1] = CrLf
      /\ \A j \in 1 .. Len(c) : (c[j] = Mark(start) <=> j = b) /\ (c[j] = Mark(end) <=> j = e)
  <2> HIDE DEF n, e
  <2> QED
    BY <1>1, <1>2, <1>3, <1>4
<1> QED
  BY <1>5 DEF HasSection

\* However long the streams are, and wherever a console without kernel
\* messages is cut off: up to the EXIT marker parse_execution_output returns
\* the raw console, and from the first digit of the exit code on both streams,
\* complete, and the digits that are there.  A console that ends within the
\* exit code is not told from one with a shorter code.
THEOREM TruncatedConsole ==
    ASSUME NEW L, NEW out \in Streams(L), NEW err \in Streams(L), NEW code \in Seq(L), code # <<>>,
           NEW l \in 0 .. Len(InitScript(out, err, code))
    PROVE  LET c == SubSeq(InitScript(out, err, code), 1, l)
               x == 2 * Len(out) + 2 * Len(err) + 9
               r == IF l <= x + Len(code) THEN l - x ELSE Len(code)
           IN  ParseExecutionOutput(c) = IF l <= x THEN Fallback(c)
                                         ELSE Output(out, err, [i \in 1 .. r |-> code[i]])
<1> DEFINE T == Tokens(L)
           s == InitScript(out, err, code)
           n == Len(out)
           m == Len(err)
           k == Len(code)
           x == 2 * n + 2 * m + 9
           c == SubSeq(s, 1, l)
           r == IF l <= x + k THEN l - x ELSE k
<1>0. n \in Nat /\ m \in Nat /\ k \in Nat \ {0}
  <2>1. n \in Nat /\ m \in Nat
    BY DEF Streams
  <2>2. k \in Nat /\ k # 0
    BY EmptySeq
  <2> QED
    BY <2>1, <2>2
<1>1. s \in Seq(T) /\ Layout(s, out, err, code)
  BY ScriptLayout
<1>2. /\ HasSection(s, 1, "OUT_START", "OUT_END", out)
      /\ HasSection(s, 2 * n + 5, "ERR_START", "ERR_END", err)
      /\ HasCode(s, x, code)
  BY <1>1, ScriptSections
<1>3. Len(s) = x + k + 1 /\ s[x + k + 1] = CrLf
  <2> HIDE DEF s, n, m, k
  <2>1. Len(s) = 2 * n + 2 * m + k + 10 /\ Part(s, 2 * n + 2 * m + k + 9, <<CrLf>>)
    BY <1>1 DEF Layout, n, m, k
  <2>2. Len(<<CrLf>>) = 1 /\ <<CrLf>>[1] = CrLf /\ 2 * n + 2 * m + k + 9 + 1 = x + k + 1 /\ 1 \in 1 .. 1
    BY <1>0
  <2>3. s[2 * n + 2 * m + k + 9 + 1] = <<CrLf>>[1]
    BY <2>1, <2>2 DEF Part
  <2> QED
    BY <1>0, <2>1, <2>2, <2>3
<1>4. c \in Seq(T) /\ Len(c) = l /\ \A i \in 1 .. l : c[i] = s[i]
  <2>1. l \in 0 .. Len(s)
    OBVIOUS
  <2> HIDE DEF s, T
  <2> QED
    BY <1>1, <2>1, Prefix
<1>5. /\ CrLf \in T /\ Mark("OUT_START") \in T /\ Mark("OUT_END") \in T
      /\ Mark("ERR_START") \in T /\ Mark("ERR_END") \in T /\ Mark("EXIT") \in T
  BY TypesOfTokens DEF Names
<1> HIDE DEF s, c, T, n, m, k
<1>6. x \in Nat \ {0} /\ l \in Nat /\ l <= x + k + 1
  BY <1>0, <1>3 DEF s
<1>7. /\ \A j \in 1 .. Len(s) : s[j] = Mark("EXIT") <=> j = x
      /\ \A i \in 1 .. k : s[x + i] = Digit(code[i])
  BY <1>2 DEF HasCode, k
<1>8. Position(c, <<Mark("EXIT")>>, 1) = IF l < x THEN {} ELSE {x}
  <2>1. Position(c, <<Mark("EXIT")>>, 1) =
           {i \in 1 .. l : c[i] = Mark("EXIT") /\ \A j \in 1 .. i - 1 : c[j] # Mark("EXIT")}
    BY <1>4, <1>5, FirstToken
  <2>2. ASSUME NEW i \in 1 .. l PROVE c[i] = Mark("EXIT") <=> i = x
    <3>1. i \in 1 .. Len(s)
      BY <1>3, <1>6, <1>0
    <3> QED
      BY <1>4, <1>7, <3>1
  <2>3. \A i \in 1 .. l : \A j \in 1 .. i - 1 : j \in 1 .. l /\ j # i
    BY <1>6
  <2>4. (l < x => x \notin 1 .. l) /\ (~ (l < x) => x \in 1 .. l)
    BY <1>6
  <2> HIDE DEF x
  <2> QED
    BY <2>1, <2>2, <2>3, <2>4
<1>9. CASE l <= x
  <2>1. ExtractExitCode(c) = {}
    <3>1. CASE l < x
      BY <1>8, <3>1, CodeByMarker
    <3>2. CASE l = x
      <4>1. ExtractExitCode(c) = NumberAt(c, x + 1)
        <5>1. Position(c, <<Mark("EXIT")>>, 1) = {x}
          BY <1>6, <1>8, <3>2
        <5> QED
          BY <5>1, CodeByMarker
      <4>2. ASSUME NEW d \in NumberAt(c, x + 1) PROVE FALSE
        <5>1. x \in 0 .. Len(c)
          BY <1>4, <1>6, <3>2
        <5>2. PICK h \in Nat \ {0} : DigitsBehind(c, x, h, d)
          BY <1>4, <1>5, <5>1, NumberIsDigits
        <5>3. x + h <= Len(c)
          BY <5>2 DEF DigitsBehind
        <5> QED
          BY <1>4, <1>6, <3>2, <5>3
      <4> QED
        BY <4>1, <4>2
    <3> QED
      BY <1>6, <1>9, <3>1, <3>2
  <2>2. ParseExecutionOutput(c) = Fallback(c)
    BY <2>1, NoCodeNoResult
  <2> QED
    BY <1>9, <2>2 DEF c, s, n, m
<1>10. CASE ~ (l <= x)
  <2> DEFINE d == [i \in 1 .. r |-> code[i]]
  <2>1. r \in Nat \ {0} /\ r <= k /\ x + r <= l /\ (x + r = l \/ (r = k /\ l = x + k + 1))
    BY <1>0, <1>6, <1>10
  <2>2. ExtractB64Section(c, "OUT_START", "OUT_END") = {out}
    <3>1. Len(c) <= Len(s) /\ 1 + 2 * n + 2 <= Len(c) /\ 1 \in Nat \ {0} /\ \A i \in 1 .. Len(c) : c[i] = s[i]
      BY <1>0, <1>3, <1>4, <1>6, <1>10
    <3>2. HasSection(c, 1, "OUT_START", "OUT_END", out)
      BY <1>1, <1>2, <1>4, <3>1, PrefixHasSection DEF n
    <3> QED
      BY <1>4, <1>5, <3>1, <3>2, SectionFound DEF n
  <2>3. ExtractB64Section(c, "ERR_START", "ERR_END") = {err}
    <3> DEFINE b == 2 * n + 5
    <3>1. /\ Len(c) <= Len(s) /\ b + 2 * m + 2 <= Len(c) /\ b \in Nat \ {0}
          /\ \A i \in 1 .. Len(c) : c[i] = s[i]
      BY <1>0, <1>3, <1>4, <1>6, <1>10
    <3>a. HasSection(s, b, "ERR_START", "ERR_END", err)
      BY <1>2
    <3> HIDE DEF b
    <3>2. HasSection(c, b, "ERR_START", "ERR_END", err)
      BY <1>1, <1>4, <3>1, <3>a, PrefixHasSection DEF m
    <3> QED
      BY <1>4, <1>5, <3>1, <3>2, SectionFound DEF m
  <2>4. ExtractExitCode(c) = {d}
    <3>1. ASSUME NEW i \in 1 .. r PROVE c[x + i].kind = "digit" /\ c[x + i].val = code[i]
      <4>1. x + i \in 1 .. l /\ i \in 1 .. k
        BY <1>0, <1>6, <2>1
      <4>2. c[x + i] = Digit(code[i])
        BY <1>4, <1>7, <4>1
      <4> QED
        BY <4>2, KindsOfTokens
    <3>2. x + r <= Len(c) /\ (x + r = Len(c) \/ c[x + r + 1] = CrLf)
      <4>1. CASE x + r = l
        BY <1>4, <4>1, <1>6
      <4>2. CASE r = k /\ l = x + k + 1
        <5>1. x + k + 1 \in 1 .. l
          BY <1>0, <1>6, <4>2
        <5>2. c[x + k + 1] = CrLf
          BY <1>3, <1>4, <5>1
        <5> QED
          BY <1>4, <2>1, <4>2, <5>2
      <4> QED
        BY <2>1, <4>1, <4>2
    <3> HIDE DEF r, x
    <3>3. d = [i \in 1 .. r |-> c[x + i].val]
      BY <3>1
    <3>4. DigitsBehind(c, x, r, d)
      <4> HIDE DEF d
      <4> QED
        BY <3>1, <3>2, <3>3 DEF DigitsBehind
    <3>5. NumberAt(c, x + 1) = {d}
      <4> HIDE DEF d
      <4> QED
        BY <1>4, <1>5, <1>6, <2>1, <3>4, DigitsRead
    <3>6. Position(c, <<Mark("EXIT")>>, 1) = {x}
      BY <1>6, <1>8, <1>10
    <3>7. ExtractExitCode(c) = NumberAt(c, x + 1)
      BY <3>6, CodeByMarker
    <3> QED
      BY <3>5, <3>7
  <2>5. ParseExecutionOutput(c) = Output(out, err, d)
    <3> HIDE DEF d
    <3> QED
      BY <2>2, <2>3, <2>4, ThreeParts
  <2> QED
    BY <1>10, <2>5 DEF c, s, n, m, k
<1> QED
  BY <1>9, <1>10

\* The console is read: both streams, complete, with the exit code or with
\* the digits in front of a cut in it.
StreamsRead(raw, out, err, code) ==
    \E r \in 1 .. Len(code) :
        /\ ParseExecutionOutput(raw) = Output(out, err, [i \in 1 .. r |-> code[i]])
        /\ r = Len(code) \/ \E i \in 1 .. Len(raw) : DigitsCut(raw, i)

\* However long the streams are, and whatever the kernel prints into the
\* script: parse_execution_output returns the raw console, or both streams,
\* complete, with the exit code or the digits in front of a cut in it, and
\* those only if the script was printed as far as the first digit of the code.
THEOREM NoisyConsole ==
    ASSUME NEW L, NEW out \in Streams(L), NEW err \in Streams(L), NEW code \in Seq(L),
           NEW raw \in Seq(Tokens(L)), NEW at, Carries(raw, at, InitScript(out, err, code))
    PROVE  \/ ParseExecutionOutput(raw) = Fallback(raw)
           \/ StreamsRead(raw, out, err, code) /\ 2 * Len(out) + 2 * Len(err) + 9 < Len(at)
<1> DEFINE T == Tokens(L)
           s == InitScript(out, err, code)
           x == 2 * Len(out) + 2 * Len(err) + 9
           b == 2 * Len(out) + 5
<1>1. s \in Seq(T) /\ Layout(s, out, err, code)
  BY ScriptLayout
<1>2. /\ HasSection(s, 1, "OUT_START", "OUT_END", out)
      /\ HasSection(s, b, "ERR_START", "ERR_END", err) /\ HasCode(s, x, code)
  BY <1>1, ScriptSections
<1>3. x \in Nat /\ b \in Nat /\ 1 \in Nat /\ Len(code) \in Nat
  BY DEF Streams
<1>4. /\ CrLf \in T /\ Mark("OUT_START") \in T /\ Mark("OUT_END") \in T
      /\ Mark("ERR_START") \in T /\ Mark("ERR_END") \in T /\ Mark("EXIT") \in T
  BY TypesOfTokens DEF Names
<1>5. raw \in Seq(T) /\ Carries(raw, at, s)
  OBVIOUS
<1>6. \/ ParseExecutionOutput(raw) = Fallback(raw)
      \/ \E o \in ExtractB64Section(raw, "OUT_START", "OUT_END"),
            e \in ExtractB64Section(raw, "ERR_START", "ERR_END"),
            c \in ExtractExitCode(raw) : ParseExecutionOutput(raw) = Output(o, e, c)
  BY AllOrNothing
<1> HIDE DEF T, s, x, b
<1>7. ASSUME NEW o \in ExtractB64Section(raw, "OUT_START", "OUT_END"),
             NEW e \in ExtractB64Section(raw, "ERR_START", "ERR_END"),
             NEW c \in ExtractExitCode(raw), ParseExecutionOutput(raw) = Output(o, e, c)
      PROVE  StreamsRead(raw, out, err, code) /\ x < Len(at)
  <2>1. o = out
    BY <1>1, <1>2, <1>3, <1>4, <1>5, SectionIsStream
  <2>2. e = err
    BY <1>1, <1>2, <1>3, <1>4, <1>5, SectionIsStream
  <2>3. PICK r \in 1 .. Len(code) :
           /\ c = [i \in 1 .. r |-> code[i]] /\ x + r <= Len(at)
           /\ r = Len(code) \/ \E i \in 1 .. Len(raw) : DigitsCut(raw, i)
    BY <1>1, <1>2, <1>3, <1>4, <1>5, CodeIsPrinted
  <2>4. ParseExecutionOutput(raw) = Output(out, err, [i \in 1 .. r |-> code[i]])
    BY <1>7, <2>1, <2>2, <2>3
  <2>5. x < Len(at)
    <3>1. Len(at) \in Nat
      BY <1>1, <1>5 DEF Carries
    <3> QED
      BY <1>3, <2>3, <3>1
  <2> QED
    BY <2>3, <2>4, <2>5 DEF StreamsRead
<1> QED
  BY <1>6, <1>7 DEF x

-----------------------------------------------------------------------------
(* How the console grows.                                                  *)

\* What is on the console stays there; new text comes behind it.
LEMMA Grown ==
    ASSUME NEW T, NEW s \in Seq(T), NEW v \in Seq(T)
    PROVE  /\ s \o v \in Seq(T) /\ Len(s \o v) = Len(s) + Len(v)
           /\ \A i \in 1 .. Len(s) : (s \o v)[i] = s[i]
           /\ \A i \in 1 .. Len(v) : (s \o v)[Len(s) + i] = v[i]
<1>0. Len(s) \in Nat /\ Len(v) \in Nat
  OBVIOUS
<1>1. /\ s \o v \in Seq(T) /\ Len(s \o v) = Len(s) + Len(v)
      /\ \A i \in 1 .. Len(s) + Len(v) : (s \o v)[i] = IF i <= Len(s) THEN s[i] ELSE v[i - Len(s)]
  BY ConcatProperties
<1>2. \A i \in 1 .. Len(s) : i \in 1 .. Len(s) + Len(v) /\ i <= Len(s)
  BY <1>0
<1>3. \A i \in 1 .. Len(v) :
         Len(s) + i \in 1 .. Len(s) + Len(v) /\ ~ (Len(s) + i <= Len(s)) /\ Len(s) + i - Len(s) = i
  BY <1>0
<1> DEFINE u == s \o v
<1> HIDE DEF u
<1>4. /\ u \in Seq(T) /\ Len(u) = Len(s) + Len(v)
      /\ \A i \in 1 .. Len(s) + Len(v) : u[i] = IF i <= Len(s) THEN s[i] ELSE v[i - Len(s)]
  BY <1>1 DEF u
<1>5. (\A i \in 1 .. Len(s) : u[i] = s[i]) /\ \A i \in 1 .. Len(v) : u[Len(s) + i] = v[i]
  BY <1>2, <1>3, <1>4
<1> QED
  BY <1>4, <1>5 DEF u

\* A token of the kernel's stays one.
LEMMA KernelTokenStays ==
    ASSUME NEW T, NEW s \in Seq(T), NEW v \in Seq(T), NEW i \in 1 .. Len(s), KernelToken(s, i)
    PROVE  KernelToken(s \o v, i)
<1> DEFINE u == s \o v
<1>0. Len(s) \in Nat /\ Len(v) \in Nat
  OBVIOUS
<1>1. Len(u) = Len(s) + Len(v) /\ \A j \in 1 .. Len(s) : u[j] = s[j]
  BY Grown
<1> HIDE DEF u
<1>2. u[i] = s[i] /\ (i > 1 => u[i - 1] = s[i - 1]) /\ (i < Len(s) => i < Len(u) /\ u[i + 1] = s[i + 1])
  <2>1. (i > 1 => i - 1 \in 1 .. Len(s)) /\ (i < Len(s) => i < Len(u) /\ i + 1 \in 1 .. Len(s))
    BY <1>0, <1>1
  <2> QED
    BY <1>1, <2>1
<1>3. KernelToken(u, i)
  BY <1>2 DEF KernelToken
<1> QED
  BY <1>3 DEF u

\* The tokens of v are the kernel's, from the first-th one on, when they are
\* printed behind s.
KernelFrom(s, v, first) == \A i \in first .. Len(v) : KernelToken(s \o v, Len(s) + i)

\* A message of the kernel's does not touch the script.
LEMMA CarriesMessage ==
    ASSUME NEW T, NEW s \in Seq(T), NEW v \in Seq(T), NEW a, NEW script, Len(script) \in Nat,
           Carries(s, a, script), KernelFrom(s, v, 1)
    PROVE  Carries(s \o v, a, script)
<1> DEFINE u == s \o v
           d == Len(a)
<1>0. Len(s) \in Nat /\ Len(v) \in Nat
  OBVIOUS
<1>1. Len(u) = Len(s) + Len(v) /\ \A j \in 1 .. Len(s) : u[j] = s[j]
  BY Grown
<1>2. \A i \in 1 .. Len(v) : KernelToken(u, Len(s) + i)
  BY DEF KernelFrom
<1>3. \A i \in 1 .. Len(s) : KernelToken(s, i) => KernelToken(u, i)
  BY KernelTokenStays
<1>4. /\ d \in 0 .. Len(script) /\ a \in [1 .. d -> 1 .. Len(s)] /\ Increasing(a)
      /\ \A j \in 1 .. d : s[a[j]] = script[j] \/ (s[a[j]] = Torn /\ script[j].kind \in {"mark", "b64"})
      /\ \A i \in 1 .. Len(s) : (\E j \in 1 .. d : a[j] = i) \/ KernelToken(s, i)
  BY DEF Carries
<1> HIDE DEF u
<1>5. a \in [1 .. d -> 1 .. Len(u)] /\ \A j \in 1 .. d : u[a[j]] = s[a[j]]
  <2>1. \A i \in 1 .. Len(s) : i \in 1 .. Len(u)
    BY <1>0, <1>1
  <2> QED
    BY <1>1, <1>4, <2>1
<1>6. ASSUME NEW i \in 1 .. Len(u) PROVE (\E j \in 1 .. d : a[j] = i) \/ KernelToken(u, i)
  <2>1. CASE i \in 1 .. Len(s)
    BY <1>3, <1>4, <2>1
  <2>2. CASE i \notin 1 .. Len(s)
    <3>1. i - Len(s) \in 1 .. Len(v) /\ i = Len(s) + (i - Len(s))
      BY <1>0, <1>1, <2>2
    <3> QED
      BY <1>2, <3>1
  <2> QED
    BY <2>1, <2>2
<1>7. Carries(u, a, script)
  <2>1. \A j \in 1 .. d : u[a[j]] = script[j] \/ (u[a[j]] = Torn /\ script[j].kind \in {"mark", "b64"})
    BY <1>4, <1>5
  <2> QED
    BY <1>4, <1>5, <1>6, <2>1 DEF Carries
<1> QED
  BY <1>7 DEF u

\* The next token of the script, whole or torn, with what the kernel prints
\* into it.
LEMMA CarriesToken ==
    ASSUME NEW T, NEW s \in Seq(T), NEW v \in Seq(T), NEW a, NEW script, Len(script) \in Nat,
           Carries(s, a, script), Len(a) < Len(script), Len(v) > 0,
           v[1] = script[Len(a) + 1] \/ (v[1] = Torn /\ script[Len(a) + 1].kind \in {"mark", "b64"}),
           KernelFrom(s, v, 2)
    PROVE  Carries(s \o v, Append(a, Len(s) + 1), script)
<1> DEFINE u == s \o v
           d == Len(a)
           p == Len(s) + 1
           z == Append(a, p)
<1>0. Len(s) \in Nat /\ Len(v) \in Nat
  OBVIOUS
<1>1. Len(u) = Len(s) + Len(v) /\ (\A j \in 1 .. Len(s) : u[j] = s[j]) /\ u[p] = v[1]
  <2>1. 1 \in 1 .. Len(v)
    BY <1>0
  <2>2. Len(u) = Len(s) + Len(v) /\ \A j \in 1 .. Len(s) : u[j] = s[j]
    BY Grown
  <2>3. u[Len(s) + 1] = v[1]
    BY <2>1, Grown
  <2> QED
    BY <2>2, <2>3
<1>2. \A i \in 2 .. Len(v) : KernelToken(u, Len(s) + i)
  BY DEF KernelFrom
<1>3. \A i \in 1 .. Len(s) : KernelToken(s, i) => KernelToken(u, i)
  BY KernelTokenStays
<1>4. /\ d \in 0 .. Len(script) /\ a \in [1 .. d -> 1 .. Len(s)] /\ Increasing(a)
      /\ \A j \in 1 .. d : s[a[j]] = script[j] \/ (s[a[j]] = Torn /\ script[j].kind \in {"mark", "b64"})
      /\ \A i \in 1 .. Len(s) : (\E j \in 1 .. d : a[j] = i) \/ KernelToken(s, i)
  BY DEF Carries
<1>5. /\ Len(z) = d + 1 /\ z \in [1 .. d + 1 -> 1 .. Len(u)] /\ z[d + 1] = p
      /\ \A j \in 1 .. d : z[j] = a[j] /\ a[j] \in 1 .. Len(s)
  <2> HIDE DEF d, u
  <2>1. a \in Seq(1 .. Len(s)) /\ d \in Nat /\ Len(a) = d
    <3>1. d \in Nat /\ a \in [1 .. d -> 1 .. Len(s)]
      BY <1>4
    <3>2. Len(a) = d
      BY DEF d
    <3> QED
      BY <3>1, <3>2, SeqDef
  <2>2. \A i \in 1 .. Len(s) : i \in 1 .. Len(u)
    BY <1>0, <1>1
  <2>3. a \in Seq(1 .. Len(u)) /\ p \in 1 .. Len(u)
    <3>1. a \in [1 .. d -> 1 .. Len(u)]
      BY <1>4, <2>2
    <3> QED
      BY <1>0, <1>1, <2>1, <3>1, SeqDef
  <2> HIDE DEF p
  <2>4. z \in Seq(1 .. Len(u)) /\ Len(z) = d + 1 /\ z[d + 1] = p /\ \A j \in 1 .. d : z[j] = a[j]
    BY <2>1, <2>3, AppendProperties
  <2>5. z \in [1 .. d + 1 -> 1 .. Len(u)]
    <3> HIDE DEF z
    <3> QED
      BY <2>4, LenProperties
  <2> QED
    BY <1>4, <2>4, <2>5
<1> HIDE DEF u, z
<1>6. Increasing(z)
  <2> SUFFICES ASSUME NEW j \in 1 .. d + 1, NEW k \in 1 .. d + 1, j < k PROVE z[j] < z[k]
    BY <1>5 DEF Increasing
  <2>1. j \in 1 .. d /\ (k \in 1 .. d \/ k = d + 1)
    BY <1>4
  <2>2. CASE k \in 1 .. d
    BY <1>4, <1>5, <2>1, <2>2 DEF Increasing
  <2>3. CASE k = d + 1
    <3>1. z[j] \in 1 .. Len(s) /\ z[k] = p
      BY <1>5, <2>1, <2>3
    <3> QED
      BY <1>0, <3>1
  <2> QED
    BY <2>1, <2>2, <2>3
<1>7. ASSUME NEW j \in 1 .. d + 1
      PROVE  u[z[j]] = script[j] \/ (u[z[j]] = Torn /\ script[j].kind \in {"mark", "b64"})
  <2>1. CASE j \in 1 .. d
    BY <1>1, <1>4, <1>5, <2>1
  <2>2. CASE j = d + 1
    BY <1>1, <1>5, <2>2
  <2> QED
    BY <1>4, <2>1, <2>2
<1>8. ASSUME NEW i \in 1 .. Len(u) PROVE (\E j \in 1 .. d + 1 : z[j] = i) \/ KernelToken(u, i)
  <2>1. CASE i \in 1 .. Len(s)
    <3>1. \A j \in 1 .. d : j \in 1 .. d + 1 /\ z[j] = a[j]
      BY <1>4, <1>5
    <3> QED
      BY <1>3, <1>4, <2>1, <3>1
  <2>2. CASE i = p
    <3>1. d + 1 \in 1 .. d + 1
      BY <1>4
    <3> QED
      BY <1>5, <2>2, <3>1
  <2>3. CASE i \notin 1 .. Len(s) /\ i # p
    <3>1. i - Len(s) \in 2 .. Len(v) /\ i = Len(s) + (i - Len(s))
      BY <1>0, <1>1, <2>3
    <3> QED
      BY <1>2, <3>1
  <2> QED
    BY <2>1, <2>2, <2>3
<1>9. d + 1 \in 0 .. Len(script)
  BY <1>4
<1>10. Carries(u, z, script)
  BY <1>5, <1>6, <1>7, <1>8, <1>9 DEF Carries
<1> QED
  BY <1>10 DEF u, z

\* A token is the kernel's wherever its message is printed.
LEMMA KernelTokenShifted ==
    ASSUME NEW T, NEW s \in Seq(T), NEW v \in Seq(T), NEW i \in 1 .. Len(v), KernelToken(v, i)
    PROVE  KernelToken(s \o v, Len(s) + i)
<1> DEFINE u == s \o v
           p == Len(s) + i
<1>0. Len(s) \in Nat /\ Len(v) \in Nat
  OBVIOUS
<1>1. Len(u) = Len(s) + Len(v) /\ \A j \in 1 .. Len(v) : u[Len(s) + j] = v[j]
  BY Grown
<1> HIDE DEF u
<1>2. u[p] = v[i]
  BY <1>1
<1>3. i > 1 => p > 1 /\ u[p - 1] = v[i - 1]
  <2> SUFFICES ASSUME i > 1 PROVE p > 1 /\ u[p - 1] = v[i - 1]
    OBVIOUS
  <2>1. p > 1 /\ i - 1 \in 1 .. Len(v) /\ p - 1 = Len(s) + (i - 1)
    BY <1>0
  <2> QED
    BY <1>1, <2>1
<1>4. i < Len(v) => p < Len(u) /\ u[p + 1] = v[i + 1]
  <2> SUFFICES ASSUME i < Len(v) PROVE p < Len(u) /\ u[p + 1] = v[i + 1]
    OBVIOUS
  <2>1. p < Len(u) /\ i + 1 \in 1 .. Len(v) /\ p + 1 = Len(s) + (i + 1)
    BY <1>0, <1>1
  <2> QED
    BY <1>1, <2>1
<1> HIDE DEF p
<1>5. KernelToken(u, p)
  BY <1>2, <1>3, <1>4 DEF KernelToken
<1> QED
  BY <1>5 DEF u, p

\* All of a message is the kernel's, also in the middle of a token.
LEMMA MessageTokens ==
    ASSUME NEW T, CrLf \in T, Noise \in T, Torn \in T, NEW s \in Seq(T), NEW m \in Messages
    PROVE  LET v == <<Torn>> \o m \o <<Torn>>
           IN  /\ m \in Seq(T) /\ KernelFrom(s, m, 1)
               /\ v \in Seq(T) /\ Len(v) > 0 /\ v[1] = Torn /\ KernelFrom(s, v, 2)
<1> DEFINE w == <<Torn>> \o m
           v == w \o <<Torn>>
<1>1. ASSUME NEW z \in Seq(T), NEW first \in 1 .. 2, \A i \in first .. Len(z) : KernelToken(z, i)
      PROVE  KernelFrom(s, z, first)
  <2>1. ASSUME NEW i \in first .. Len(z) PROVE KernelToken(s \o z, Len(s) + i)
    <3>1. i \in 1 .. Len(z) /\ KernelToken(z, i)
      BY <1>1
    <3> QED
      BY <3>1, KernelTokenShifted
  <2> QED
    BY <2>1 DEF KernelFrom
<1>2. m \in Seq(T) /\ \A i \in 1 .. Len(m) : KernelToken(m, i)
  <2>1. CASE m = <<Noise>>
    <3>1. m \in Seq(T) /\ Len(m) = 1 /\ m[1] = Noise
      BY <2>1
    <3> QED
      BY <3>1 DEF KernelToken
  <2>2. CASE m = <<Noise, CrLf>>
    <3>1. m \in Seq(T) /\ Len(m) = 2 /\ m[1] = Noise /\ m[2] = CrLf
      BY <2>2
    <3> QED
      BY <3>1 DEF KernelToken
  <2>3. CASE m = <<CrLf, Noise>>
    <3>1. m \in Seq(T) /\ Len(m) = 2 /\ m[1] = CrLf /\ m[2] = Noise
      BY <2>3
    <3> QED
      BY <3>1 DEF KernelToken
  <2> QED
    BY <2>1, <2>2, <2>3 DEF Messages
<1>3. <<Torn>> \in Seq(T) /\ Len(<<Torn>>) = 1 /\ <<Torn>>[1] = Torn /\ Len(m) \in Nat
  BY <1>2
<1>4. w \in Seq(T) /\ Len(w) = 1 + Len(m) /\ w[1] = Torn
  <2>1. w \in Seq(T) /\ Len(w) = Len(<<Torn>>) + Len(m) /\ \A i \in 1 .. Len(<<Torn>>) : w[i] = <<Torn>>[i]
    BY <1>2, <1>3, Grown
  <2> HIDE DEF w
  <2> QED
    BY <1>3, <2>1
<1>5. \A i \in 1 .. Len(m) : KernelToken(w, 1 + i)
  <2>1. \A i \in 1 .. Len(m) : KernelToken(w, Len(<<Torn>>) + i)
    BY <1>2, <1>3, KernelTokenShifted
  <2> QED
    BY <1>3, <2>1
<1> HIDE DEF w
<1>6. /\ v \in Seq(T) /\ Len(v) = Len(w) + 1
      /\ (\A i \in 1 .. Len(w) : v[i] = w[i]) /\ v[Len(w) + 1] = Torn
  <2>1. /\ v \in Seq(T) /\ Len(v) = Len(w) + Len(<<Torn>>)
        /\ \A i \in 1 .. Len(w) : v[i] = w[i]
        /\ \A i \in 1 .. Len(<<Torn>>) : v[Len(w) + i] = <<Torn>>[i]
    BY <1>3, <1>4, Grown
  <2> HIDE DEF v
  <2> QED
    BY <1>3, <2>1
<1>7. \A i \in 1 .. Len(w) : KernelToken(w, i) => KernelToken(v, i)
  BY <1>3, <1>4, KernelTokenStays
<1> HIDE DEF v
<1>8. v[1] = Torn /\ Len(v) > 0
  <2>1. 1 \in 1 .. Len(w)
    BY <1>3, <1>4
  <2> QED
    BY <1>3, <1>4, <1>6, <2>1
<1>9. ASSUME NEW i \in 2 .. Len(v) PROVE KernelToken(v, i)
  <2>1. CASE i \in 2 .. Len(w)
    <3>1. i - 1 \in 1 .. Len(m) /\ i = 1 + (i - 1) /\ i \in 1 .. Len(w)
      BY <1>3, <1>4, <2>1
    <3> QED
      BY <1>5, <1>7, <3>1
  <2>2. CASE i = Len(w) + 1
    BY <1>6, <2>2 DEF KernelToken
  <2> QED
    BY <1>3, <1>4, <1>6, <2>1, <2>2
<1>10. KernelFrom(s, m, 1) /\ KernelFrom(s, v, 2)
  BY <1>1, <1>2, <1>6, <1>9
<1> QED
  BY <1>2, <1>6, <1>8, <1>10 DEF v, w

\* What is left to print is the script behind the tokens that are on the
\* console.
Follows(rest, done, script) ==
    rest # <<>> =>
        /\ Len(done) + Len(rest) = Len(script)
        /\ \A i \in 1 .. Len(rest) : rest[i] = script[Len(done) + i]

\* A console over the tokens T that carries a script as far as it has been
\* printed.
Printing(T, raw, left, at, script) ==
    /\ raw \in Seq(T) /\ left \in Seq(T)
    /\ Carries(raw, at, script) /\ Follows(left, at, script)

\* An empty console carries none of the script yet.
LEMMA PrintingBegins ==
    ASSUME NEW T, NEW script \in Seq(T)
    PROVE  Printing(T, <<>>, script, <<>>, script)
<1>1. Carries(<<>>, <<>>, script)
  <2>1. Len(script) \in Nat /\ 0 \in 0 .. Len(script)
    OBVIOUS
  <2>2. \A S : Len(<<>>) = 0 /\ <<>> \in [1 .. 0 -> S] /\ 1 .. 0 = {} /\ DOMAIN <<>> = {}
    OBVIOUS
  <2>3. Increasing(<<>>)
    BY DEF Increasing
  <2> QED
    BY <2>1, <2>2, <2>3 DEF Carries
<1>2. Follows(script, <<>>, script)
  <2>1. Len(<<>>) = 0 /\ Len(script) \in Nat /\ 0 + Len(script) = Len(script) /\ \A i \in 1 .. Len(script) : 0 + i = i
    OBVIOUS
  <2> QED
    BY <2>1 DEF Follows
<1>3. <<>> \in Seq(T)
  OBVIOUS
<1> QED
  BY <1>1, <1>2, <1>3 DEF Printing

\* What comes next in the script is what is left to print.
LEMMA NextToken ==
    ASSUME NEW T, NEW script \in Seq(T), NEW raw, NEW left, NEW at,
           Printing(T, raw, left, at, script), left # <<>>
    PROVE  /\ Len(at) \in Nat /\ Len(at) < Len(script) /\ Head(left) = script[Len(at) + 1]
           /\ Head(left) \in T /\ Tail(left) \in Seq(T)
           /\ Len(at) + 1 + Len(Tail(left)) = Len(script)
           /\ \A i \in 1 .. Len(Tail(left)) : Tail(left)[i] = script[Len(at) + 1 + i]
<1> DEFINE rest == Tail(left)
<1>0. left \in Seq(T) /\ Len(script) \in Nat /\ Len(at) \in Nat
  BY DEF Printing, Carries
<1>1. Len(at) + Len(left) = Len(script) /\ \A i \in 1 .. Len(left) : left[i] = script[Len(at) + i]
  BY DEF Printing, Follows
<1>2. Len(left) \in Nat \ {0}
  <2>1. Len(left) \in Nat /\ Len(left) # 0
    BY <1>0, EmptySeq
  <2> QED
    BY <2>1
<1>3. /\ Head(left) \in T /\ Head(left) = left[1] /\ rest \in Seq(T) /\ Len(rest) = Len(left) - 1
      /\ \A i \in 1 .. Len(rest) : rest[i] = left[i + 1]
  BY <1>0, HeadTailProperties
<1> HIDE DEF rest
<1>4. 1 \in 1 .. Len(left) /\ \A i \in 1 .. Len(rest) : i + 1 \in 1 .. Len(left) /\ Len(at) + (i + 1) = Len(at) + 1 + i
  BY <1>0, <1>2, <1>3
<1>5. Head(left) = script[Len(at) + 1]
  BY <1>1, <1>3, <1>4
<1>6. \A i \in 1 .. Len(rest) : rest[i] = script[Len(at) + 1 + i]
  BY <1>1, <1>3, <1>4
<1>7. Len(at) < Len(script) /\ Len(at) + 1 + Len(rest) = Len(script)
  <2>1. \A k, l \in Nat : l # 0 => k < k + l /\ k + 1 + (l - 1) = k + l
    OBVIOUS
  <2>2. Len(rest) = Len(left) - 1 /\ Len(at) + Len(left) = Len(script)
    BY <1>1, <1>3
  <2> QED
    BY <1>0, <1>2, <2>1, <2>2
<1> QED
  BY <1>0, <1>3, <1>5, <1>6, <1>7 DEF rest

\* The guest takes its next token.
LEMMA TakesToken ==
    ASSUME NEW T, NEW script \in Seq(T), NEW raw, NEW left, NEW at,
           Printing(T, raw, left, at, script), left # <<>>,
           NEW v \in Seq(T), Len(v) > 0,
           v[1] = Head(left) \/ (v[1] = Torn /\ Divisible(Head(left))),
           KernelFrom(raw, v, 2), NEW rest \in {Tail(left), <<>>}
    PROVE  Printing(T, raw \o v, rest, Append(at, Len(raw) + 1), script)
<1> DEFINE u == raw \o v
           a == Append(at, Len(raw) + 1)
<1>0. raw \in Seq(T) /\ Carries(raw, at, script) /\ Len(script) \in Nat /\ Len(raw) \in Nat
  BY DEF Printing
<1>1. /\ Len(at) \in Nat /\ Len(at) < Len(script) /\ Head(left) = script[Len(at) + 1]
      /\ Tail(left) \in Seq(T) /\ Len(at) + 1 + Len(Tail(left)) = Len(script)
      /\ \A i \in 1 .. Len(Tail(left)) : Tail(left)[i] = script[Len(at) + 1 + i]
  BY NextToken
<1>2. Carries(u, a, script)
  <2>1. v[1] = script[Len(at) + 1] \/ (v[1] = Torn /\ script[Len(at) + 1].kind \in {"mark", "b64"})
    BY <1>1 DEF Divisible
  <2> QED
    BY <1>0, <1>1, <2>1, CarriesToken
<1>3. u \in Seq(T)
  BY <1>0, Grown
<1>4. Len(a) = Len(at) + 1
  <2>1. at \in [1 .. Len(at) -> 1 .. Len(raw)]
    BY <1>0 DEF Carries
  <2>2. at \in Seq(Nat)
    <3> DEFINE d == Len(at)
    <3>1. at \in [1 .. d -> Nat] /\ d \in Nat
      BY <1>0, <1>1, <2>1
    <3> HIDE DEF d
    <3> QED
      BY <3>1, SeqDef
  <2>3. Len(raw) + 1 \in Nat
    BY <1>0
  <2> QED
    BY <2>2, <2>3, AppendProperties
<1>5. rest \in Seq(T)
  <2>1. <<>> \in Seq(T) /\ Tail(left) \in Seq(T)
    BY <1>1
  <2>2. rest = Tail(left) \/ rest = <<>>
    OBVIOUS
  <2> QED
    BY <2>1, <2>2
<1> HIDE DEF u, a
<1>6. Follows(rest, a, script)
  <2>1. CASE rest = <<>>
    BY <2>1 DEF Follows
  <2>2. CASE rest = Tail(left)
    BY <1>1, <1>4, <2>2 DEF Follows
  <2> QED
    BY <2>1, <2>2
<1>7. Printing(T, u, rest, a, script)
  BY <1>2, <1>3, <1>5, <1>6 DEF Printing
<1> QED
  BY <1>7 DEF u, a

\* Everything the guest and the kernel may print next leaves a console that
\* carries the script: the next token whole, a torn one with which the guest
\* stops, and a message between or within the tokens.
LEMMA PrintingGoesOn ==
    ASSUME NEW T, CrLf \in T, Noise \in T, Torn \in T, NEW script \in Seq(T),
           NEW raw, NEW left, NEW at, Printing(T, raw, left, at, script)
    PROVE  LET a == Append(at, Len(raw) + 1)
           IN  /\ left # <<>> => Printing(T, raw \o <<Head(left)>>, Tail(left), a, script)
               /\ left # <<>> /\ Divisible(Head(left)) => Printing(T, raw \o <<Torn>>, <<>>, a, script)
               /\ \A m \in Messages :
                     /\ Printing(T, raw \o m, left, at, script)
                     /\ left # <<>> /\ Divisible(Head(left)) =>
                           Printing(T, raw \o (<<Torn>> \o m \o <<Torn>>), Tail(left), a, script)
<1> DEFINE a == Append(at, Len(raw) + 1)
<1>0. raw \in Seq(T) /\ left \in Seq(T) /\ Carries(raw, at, script) /\ Follows(left, at, script) /\ Len(script) \in Nat
  BY DEF Printing
<1>1. ASSUME left # <<>> PROVE Printing(T, raw \o <<Head(left)>>, Tail(left), a, script)
  <2> DEFINE v == <<Head(left)>>
  <2>1. v \in Seq(T) /\ Len(v) = 1 /\ v[1] = Head(left)
    <3>1. Head(left) \in T
      BY <1>1, NextToken
    <3> QED
      BY <3>1
  <2>2. KernelFrom(raw, v, 2) /\ Len(v) > 0
    BY <2>1 DEF KernelFrom
  <2> HIDE DEF v
  <2>3. Printing(T, raw \o v, Tail(left), a, script)
    BY <1>1, <2>1, <2>2, TakesToken
  <2> QED
    BY <2>3 DEF v
<1>2. ASSUME left # <<>>, Divisible(Head(left)) PROVE Printing(T, raw \o <<Torn>>, <<>>, a, script)
  <2> DEFINE v == <<Torn>>
  <2>1. v \in Seq(T) /\ Len(v) = 1 /\ v[1] = Torn
    OBVIOUS
  <2>2. KernelFrom(raw, v, 2) /\ Len(v) > 0
    BY <2>1 DEF KernelFrom
  <2> HIDE DEF v
  <2>3. Printing(T, raw \o v, <<>>, a, script)
    BY <1>2, <2>1, <2>2, TakesToken
  <2> QED
    BY <2>3 DEF v
<1>3. ASSUME NEW m \in Messages
      PROVE  /\ Printing(T, raw \o m, left, at, script)
             /\ left # <<>> /\ Divisible(Head(left)) =>
                   Printing(T, raw \o (<<Torn>> \o m \o <<Torn>>), Tail(left), a, script)
  <2> DEFINE v == <<Torn>> \o m \o <<Torn>>
  <2>1. /\ m \in Seq(T) /\ KernelFrom(raw, m, 1)
        /\ v \in Seq(T) /\ Len(v) > 0 /\ v[1] = Torn /\ KernelFrom(raw, v, 2)
    BY <1>0, MessageTokens
  <2>2. Carries(raw \o m, at, script) /\ raw \o m \in Seq(T)
    BY <1>0, <2>1, CarriesMessage, Grown
  <2>3. Printing(T, raw \o m, left, at, script)
    BY <1>0, <2>2 DEF Printing
  <2> HIDE DEF v
  <2>4. left # <<>> /\ Divisible(Head(left)) => Printing(T, raw \o v, Tail(left), a, script)
    BY <2>1, TakesToken
  <2> QED
    BY <2>3, <2>4 DEF v
<1> QED
  BY <1>1, <1>2, <1>3

\* A console on which neither the kernel nor the end of the guest broke into
\* the script is the script up to where the guest stopped.
LEMMA CleanConsole ==
    ASSUME NEW T, NEW script \in Seq(T), NEW raw \in Seq(T), NEW at, Carries(raw, at, script),
           \A i \in 1 .. Len(raw) : raw[i] \notin {Noise, Torn}
    PROVE  Len(at) = Len(raw) /\ Len(raw) <= Len(script) /\ raw = SubSeq(script, 1, Len(raw))
<1> DEFINE d == Len(at)
           l == Len(raw)
<1>0. l \in Nat /\ Len(script) \in Nat
  OBVIOUS
<1>1. /\ d \in 0 .. Len(script) /\ at \in [1 .. d -> 1 .. l] /\ Increasing(at)
      /\ \A j \in 1 .. d : raw[at[j]] = script[j] \/ raw[at[j]] = Torn
      /\ \A i \in 1 .. l : (\E j \in 1 .. d : at[j] = i) \/ KernelToken(raw, i)
  BY DEF Carries
<1>2. ASSUME NEW i \in 1 .. l PROVE \E j \in 1 .. d : at[j] = i
  <2>1. (i > 1 => i - 1 \in 1 .. l) /\ (i < Len(raw) => i + 1 \in 1 .. l)
    BY <1>0
  <2>2. ~ KernelToken(raw, i)
    BY <2>1 DEF KernelToken
  <2> QED
    BY <1>1, <2>2
<1> HIDE DEF d, l
<1>3. d \in Nat /\ d <= Len(script) /\ at \in [1 .. d -> Int]
  BY <1>0, <1>1
<1>4. ASSUME NEW i \in 1 .. l PROVE i \in 1 .. d /\ at[i] = i
  <2>1. 1 \in 1 .. l
    BY <1>0
  <2>2. PICK j \in 1 .. d : at[j] = 1
    BY <1>2, <2>1
  <2>3. 1 \in 1 .. d /\ at[1] \in 1 .. l
    BY <1>1, <1>3
  <2>4. at[1] = 1
    <3>1. CASE j = 1
      BY <2>2, <3>1
    <3>2. CASE j # 1
      <4>1. 1 < j /\ 1 \in DOMAIN at /\ j \in DOMAIN at
        BY <1>3, <2>3, <3>2
      <4>2. at[1] < at[j]
        BY <1>1, <4>1 DEF Increasing
      <4> QED
        BY <1>0, <2>2, <2>3, <4>2
    <3> QED
      BY <3>1, <3>2
  <2>5. i - 1 \in Nat /\ 1 + (i - 1) = i /\ \A h \in at[1] .. at[1] + (i - 1) : h \in 1 .. l
    BY <1>0, <2>4
  <2> DEFINE r == i - 1
  <2>6. Covers(at, d, at[1], at[1] + r)
    BY <1>2, <2>5 DEF Covers
  <2>7. r \in Nat /\ Increasing(at)
    BY <1>1, <2>5
  <2> HIDE DEF r
  <2>8. 1 + r <= d /\ at[1 + r] = at[1] + r
    BY <1>3, <2>3, <2>6, <2>7, Contiguous
  <2>9. 1 + r = i
    BY <2>5 DEF r
  <2> QED
    BY <1>0, <1>3, <2>4, <2>8, <2>9
<1>5. d = l
  <2>1. l <= d
    <3>1. CASE l = 0
      BY <1>3, <3>1
    <3>2. CASE l # 0
      <4>1. l \in 1 .. l
        BY <1>0, <3>2
      <4>2. l \in 1 .. d
        BY <1>4, <4>1
      <4> QED
        BY <4>2
    <3> QED
      BY <3>1, <3>2
  <2>2. ~ (l < d)
    <3> SUFFICES ASSUME l < d PROVE FALSE
      OBVIOUS
    <3>1. l + 1 \in 1 .. d /\ at[l + 1] \in 1 .. l
      BY <1>0, <1>1, <1>3
    <3>2. at[l + 1] \in 1 .. d /\ at[at[l + 1]] = at[l + 1] /\ at[l + 1] < l + 1
      BY <1>0, <1>4, <3>1
    <3>3. at[at[l + 1]] < at[l + 1]
      <4>1. at[l + 1] \in DOMAIN at /\ l + 1 \in DOMAIN at
        BY <1>3, <3>1, <3>2
      <4> QED
        BY <1>1, <3>2, <4>1 DEF Increasing
    <3> QED
      BY <1>0, <3>1, <3>2, <3>3
  <2> QED
    BY <1>0, <1>3, <2>1, <2>2
<1>6. \A i \in 1 .. l : raw[i] = script[i]
  BY <1>1, <1>4 DEF l
<1>7. raw = SubSeq(script, 1, l)
  <2> DEFINE b == SubSeq(script, 1, l)
  <2>1. l \in 0 .. Len(script)
    BY <1>0, <1>3, <1>5
  <2>2. b \in Seq(T) /\ Len(b) = l /\ \A i \in 1 .. l : b[i] = script[i]
    BY <2>1, Prefix
  <2> HIDE DEF b
  <2>3. raw \in Seq(T) /\ Len(raw) = l
    BY DEF l
  <2>4. raw = b
    BY <1>6, <2>2, <2>3, SeqEqual
  <2> QED
    BY <2>4 DEF b
<1> QED
  BY <1>0, <1>3, <1>5, <1>7 DEF d, l
=============================================================================
