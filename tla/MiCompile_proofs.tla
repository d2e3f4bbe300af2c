-------------------------- MODULE MiCompile_proofs --------------------------
(***************************************************************************)
(* Machine-checked proofs about MiCompile: for every set of projects and   *)
(* every include path, what is compiled has been found, in the order of    *)
(* the text, and what the check for unreachable functions says is so.      *)
(***************************************************************************)
EXTENDS MiCompile, SeqLemmas

Main == Input(MainFile, FALSE)

IsSeq(s) == s \in Seq(ToSet(s))

-----------------------------------------------------------------------------
(* The inductive invariant *)

\* Whatever trap the main file is in, the stack of files is never without a file of it.
StackLeads ==
    /\ IsSeq(pending) /\ IsSeq(functions)
    /\ \A W \in Traps : Main \in W => ToSet(pending) \cap W # {}
    /\ step \notin {"read", "fatal"} => pending = <<>>

\* Before the check, nothing is marked.
Unmarked ==
    step = "read" => reachedTypes = {} /\ reachedFunctions = {} /\ at = 1 /\ ~changed

\* Types that have been reached are made outside of every set of functions that
\* block each other: those in it come too late.
MadeOutside(fs, types, As) ==
    \A S \in Blocking(fs, As) : \A t \in types : \E g \in fs \ S : As[g.ret] = As[t]

NoneUnblocked ==
    \A As \in {Declared(Functions), Compiled(Functions)} :
        MadeOutside(Functions, reachedTypes, As)

\* f needs no visit, as things are.
Settled(f) == f.name \in reachedFunctions \/ ~HasArgs(f)

\* As long as a pass has changed nothing, the functions it has passed are settled.
PassSettles ==
    step = "check" /\ ~changed =>
        \A k \in 1 .. at - 1 : functions[k].kind = "function" => Settled(functions[k])

\* What the check has ended with
VerdictTrue ==
    /\ step = "unreachable" =>
          reachedFunctions # FunctionNames /\ \A f \in Functions : Settled(f)
    /\ step \in {"compile", "written"} /\ warn => reachedFunctions = FunctionNames

MiInv == MiTypeOK /\ StackLeads /\ Unmarked /\ NoneUnblocked /\ PassSettles /\ VerdictTrue

-----------------------------------------------------------------------------
(* Declarations of a kind, and the list of the parser *)

\* What is kept of the declarations up to each one
Picks(T, s, kind, a) ==
    /\ a \in [0 .. Len(s) -> Seq(T)] /\ a[0] = <<>>
    /\ \A k \in 1 .. Len(s) :
          a[k] = IF s[k].kind = kind THEN Append(a[k - 1], s[k]) ELSE a[k - 1]

OfKind(S, kind) == {d \in S : d.kind = kind}

\* Of goes through the declarations from the first to the last.
LEMMA OfPicks ==
    ASSUME NEW S, NEW s \in Seq(S), NEW kind
    PROVE  /\ \E a : Picks(OfKind(S, kind), s, kind, a)
           /\ \A a : Picks(OfKind(S, kind), s, kind, a) => Of(s, kind) = a[Len(s)]
  <1> PICK T : T = OfKind(S, kind)
    OBVIOUS
  <1> DEFINE N == Len(s)
             Then(r, k) == IF s[k].kind = kind THEN Append(r, s[k]) ELSE r
             Good(n, a) == a[0] = <<>> /\ \A i \in 1 .. n : a[i] = Then(a[i - 1], i)
             of[k \in 0 .. N] ==
                 IF k = 0 THEN <<>>
                 ELSE IF s[k].kind = kind THEN Append(of[k - 1], s[k]) ELSE of[k - 1]
  <1>1. N \in Nat /\ \A i \in 1 .. N : s[i] \in S
    BY LenProperties
  <1>f. Of(s, kind) = of[N]
    BY Zenon DEF Of
  <1> HIDE DEF N, of
  <1>t. ASSUME NEW r \in Seq(T), NEW k \in 1 .. N PROVE Then(r, k) \in Seq(T)
    <2>1. CASE s[k].kind = kind
      <3>1. s[k] \in T
        BY <2>1, <1>1 DEF OfKind
      <3> QED BY <2>1, <3>1, AppendProperties
    <2> QED BY <2>1
  <1> HIDE DEF Then
  <1>2. PICK V : V = Seq(T)
    OBVIOUS
  <1>3. PICK F : F = [k \in 1 .. N |-> [r \in V |-> Then(r, k)]]
    OBVIOUS
  <1>4. \A k \in 1 .. N : \A r \in V : F[k][r] = Then(r, k) /\ Then(r, k) \in V
    <2>1. ASSUME NEW k \in 1 .. N, NEW r \in V PROVE Then(r, k) \in V
      BY <1>2, <1>t, <2>1, Zenon
    <2>2. \A k \in 1 .. N : \A r \in V : F[k][r] = Then(r, k)
      BY <1>3, Zenon
    <2> QED BY <2>1, <2>2, Zenon
  <1>5. PICK a \in [0 .. N -> Seq(T)] : Good(N, a)
    <2>1. <<>> \in V
      BY <1>2
    <2>2. PICK a : Iteration(N, V, <<>>, F, a)
      <3>1. \A k \in 1 .. N : \A r \in V : F[k][r] \in V
        BY <1>4, Zenon
      <3>2. PICK e : e = <<>>
        OBVIOUS
      <3>3. \E a : Iteration(N, V, e, F, a)
        BY <1>1, <2>1, <3>1, <3>2, Iterates, Zenon
      <3> QED BY <3>2, <3>3, Zenon
    <2>3. \A k \in 1 .. N : k - 1 \in 0 .. N
      BY <1>1
    <2>4. Good(N, a)
      BY <1>4, <2>2, <2>3, Zenon DEF Iteration
    <2> QED BY <1>2, <2>2, <2>4, Zenon DEF Iteration
  <1>10. Picks(T, s, kind, a)
    BY <1>5, Zenon DEF Picks, N, Then
  <1>6. a = [k \in 0 .. N |-> IF k = 0 THEN <<>> ELSE Then(a[k - 1], k)]
    <2>1. \A k \in 0 .. N : a[k] = IF k = 0 THEN <<>> ELSE Then(a[k - 1], k)
      BY <1>5, <1>1
    <2> QED BY <2>1, Zenon
  <1>7. of = [k \in 0 .. N |-> IF k = 0 THEN <<>> ELSE Then(of[k - 1], k)]
    <2>1. a = [k \in 0 .. N |->
                 IF k = 0 THEN <<>>
                 ELSE IF s[k].kind = kind THEN Append(a[k - 1], s[k]) ELSE a[k - 1]]
      BY <1>6, Zenon DEF Then
    <2>2. of = [k \in 0 .. N |->
                 IF k = 0 THEN <<>>
                 ELSE IF s[k].kind = kind THEN Append(of[k - 1], s[k]) ELSE of[k - 1]]
      BY <2>1, Zenon DEF of
    <2> QED BY <2>2, Zenon DEF Then
  <1>8. ASSUME NEW c, Picks(T, s, kind, c) PROVE of[N] = c[N]
    <2>0. c[0] = <<>> /\ \A i \in 1 .. N : c[i] = Then(c[i - 1], i)
      BY <1>8, Zenon DEF Picks, N, Then
    <2> DEFINE Q == {i \in 0 .. N : of[i] = c[i]}
    <2>1. 0 \in Q
      BY <2>0, <1>7, <1>1
    <2>2. ASSUME NEW i \in 0 .. N - 1, i \in Q PROVE i + 1 \in Q
      <3>1. i + 1 \in 1 .. N /\ (i + 1) - 1 = i /\ i + 1 # 0 /\ i + 1 \in 0 .. N
        BY <1>1
      <3>2. of[i + 1] = Then(of[i], i + 1) /\ c[i + 1] = Then(c[i], i + 1)
        BY <3>1, <2>0, <1>7
      <3> QED BY <3>1, <3>2, <2>2
    <2>3. 0 .. N \subseteq Q
      <3> HIDE DEF Q
      <3> QED BY <1>1, <2>1, <2>2, UpTo, Zenon
    <2> QED BY <2>3, <1>1
  <1> QED
    BY <1>f, <1>8, <1>10, Zenon DEF N

\* What Of returns
LEMMA OfType ==
    ASSUME NEW S, NEW s \in Seq(S), NEW kind
    PROVE  Of(s, kind) \in Seq(OfKind(S, kind)) /\ Of(s, kind) \in Seq(S)
  <1>1. PICK a : Picks(OfKind(S, kind), s, kind, a)
    BY OfPicks
  <1>2. Of(s, kind) = a[Len(s)] /\ Len(s) \in 0 .. Len(s)
    BY <1>1, OfPicks
  <1>3. Of(s, kind) \in Seq(OfKind(S, kind))
    BY <1>1, <1>2, Zenon DEF Picks
  <1>4. ASSUME NEW T, T = OfKind(S, kind), NEW u \in Seq(T) PROVE u \in Seq(S)
    <2>1. T \subseteq S
      BY <1>4 DEF OfKind
    <2> QED BY <2>1
  <1> QED
    BY <1>3, <1>4, Zenon

\* No declaration
LEMMA OfNone ==
    ASSUME NEW kind
    PROVE  Of(<<>>, kind) = <<>>
  <1>1. <<>> \in Seq({}) /\ Len(<<>>) = 0
    OBVIOUS
  <1>2. PICK a : Picks(OfKind({}, kind), <<>>, kind, a)
    BY <1>1, OfPicks
  <1>3. Of(<<>>, kind) = a[0]
    BY <1>1, <1>2, OfPicks
  <1> QED
    BY <1>2, <1>3 DEF Picks

\* One declaration
LEMMA OfOne ==
    ASSUME NEW S, NEW d \in S, NEW kind
    PROVE  Of(<<d>>, kind) = IF d.kind = kind THEN <<d>> ELSE <<>>
  <1>1. PICK s : s = <<d>>
    OBVIOUS
  <1>2. s \in Seq(S) /\ Len(s) = 1 /\ s[1] = d
    BY <1>1
  <1>3. PICK a : Picks(OfKind(S, kind), s, kind, a)
    BY <1>2, OfPicks
  <1>4. Of(s, kind) = a[1]
    BY <1>2, <1>3, OfPicks
  <1>5. a[0] = <<>> /\ a[1] = IF s[1].kind = kind THEN Append(a[1 - 1], s[1]) ELSE a[1 - 1]
    BY <1>2, <1>3 DEF Picks
  <1>6. a[1] = IF d.kind = kind THEN Append(<<>>, d) ELSE <<>>
    <2>1. 1 - 1 = 0
      OBVIOUS
    <2> QED BY <1>2, <1>5, <2>1, Zenon
  <1>7. Append(<<>>, d) = <<d>>
    OBVIOUS
  <1> QED
    BY <1>1, <1>4, <1>6, <1>7

\* Appending to the second of two sequences
LEMMA AppendConcat ==
    ASSUME NEW S, NEW s \in Seq(S), NEW t \in Seq(S), NEW d \in S
    PROVE  s \o Append(t, d) = Append(s \o t, d)
  <1>1. <<d>> \in Seq(S)
    OBVIOUS
  <1>2. Append(t, d) = t \o <<d>> /\ s \o t \in Seq(S)
    BY AppendIsConcat, ConcatProperties
  <1>3. Append(s \o t, d) = (s \o t) \o <<d>>
    BY <1>2, AppendIsConcat
  <1>4. (s \o t) \o <<d>> = s \o (t \o <<d>>)
    BY <1>1, ConcatAssociative, SMTT(60)
  <1> QED
    BY <1>2, <1>3, <1>4, Zenon

\* Declarations after other declarations
LEMMA OfConcat ==
    ASSUME NEW S, NEW s \in Seq(S), NEW t \in Seq(S), NEW kind
    PROVE  Of(s \o t, kind) = Of(s, kind) \o Of(t, kind)
  <1> DEFINE m == Len(s)
             n == Len(t)
  <1> PICK u : u = s \o t
    OBVIOUS
  <1> PICK T : T = OfKind(S, kind)
    OBVIOUS
  <1>1. /\ u \in Seq(S) /\ m \in Nat /\ n \in Nat /\ Len(u) = m + n
        /\ \A i \in 1 .. m : u[i] = s[i]
        /\ \A i \in 1 .. n : u[m + i] = t[i]
    OBVIOUS
  <1>2. PICK a : Picks(T, s, kind, a)
    BY OfPicks
  <1>3. PICK b : Picks(T, t, kind, b)
    BY OfPicks
  <1>4. Of(s, kind) = a[m] /\ Of(t, kind) = b[n]
    BY <1>2, <1>3, OfPicks
  <1>s. \A i \in 1 .. n : t[i] \in S
    OBVIOUS
  <1>5. /\ a \in [0 .. m -> Seq(T)] /\ a[0] = <<>>
        /\ \A i \in 1 .. m : a[i] = IF s[i].kind = kind THEN Append(a[i - 1], s[i]) ELSE a[i - 1]
        /\ b \in [0 .. n -> Seq(T)] /\ b[0] = <<>>
        /\ \A i \in 1 .. n : b[i] = IF t[i].kind = kind THEN Append(b[i - 1], t[i]) ELSE b[i - 1]
    BY <1>2, <1>3, Zenon DEF Picks
  <1> HIDE DEF m, n
  <1> DEFINE c == [i \in 0 .. m + n |-> IF i <= m THEN a[i] ELSE a[m] \o b[i - m]]
  <1>a. a[m] \in Seq(T) /\ m \in 0 .. m
    BY <1>1, <1>5
  <1>6. c \in [0 .. m + n -> Seq(T)]
    <2> SUFFICES ASSUME NEW i \in 0 .. m + n PROVE c[i] \in Seq(T)
      BY Zenon
    <2>1. CASE i <= m
      BY <2>1, <1>1, <1>5
    <2>2. CASE i > m
      <3>1. b[i - m] \in Seq(T)
        BY <2>2, <1>1, <1>5
      <3>2. a[m] \o b[i - m] \in Seq(T)
        BY <3>1, <1>a, ConcatProperties
      <3> QED BY <3>2, <2>2, <1>1
    <2> QED BY <2>1, <2>2, <1>1
  <1>7. c[0] = <<>>
    BY <1>1, <1>5
  <1>8. ASSUME NEW i \in 1 .. m + n
        PROVE  c[i] = IF u[i].kind = kind THEN Append(c[i - 1], u[i]) ELSE c[i - 1]
    <2>1. CASE i <= m
      <3>1. c[i] = a[i] /\ c[i - 1] = a[i - 1] /\ i \in 1 .. m
        BY <2>1, <1>1
      <3>2. u[i] = s[i] /\ a[i] = IF s[i].kind = kind THEN Append(a[i - 1], s[i]) ELSE a[i - 1]
        BY <3>1, <1>1, <1>5
      <3> QED BY <3>1, <3>2, Zenon
    <2>2. CASE i > m
      <3> PICK j : j = i - m
        OBVIOUS
      <3>1. j \in 1 .. n /\ i = m + j
        BY <2>2, <1>1
      <3>2. c[i] = a[m] \o b[j]
        <4>1. i \in 0 .. m + n /\ ~(i <= m)
          BY <2>2, <3>1, <1>1
        <4>2. c[i] = a[m] \o b[i - m]
          BY <4>1, Zenon
        <4>3. i - m = j
          BY <3>1, <1>1
        <4> QED BY <4>2, <4>3, Zenon
      <3>3. c[i - 1] = a[m] \o b[j - 1]
        <4>1. CASE j = 1
          <5>1. c[i - 1] = a[m] /\ b[j - 1] = <<>>
            BY <4>1, <3>1, <1>1, <1>5
          <5> QED BY <5>1, <1>a, ConcatEmptySeq
        <4>2. CASE j > 1
          <5>1. i - 1 \in 0 .. m + n /\ ~(i - 1 <= m) /\ (i - 1) - m = j - 1
            BY <4>2, <3>1, <1>1
          <5>2. c[i - 1] = a[m] \o b[(i - 1) - m]
            BY <5>1, Zenon
          <5> QED BY <5>1, <5>2, Zenon
        <4>3. j = 1 \/ j > 1
          BY <3>1, <1>1
        <4> QED BY <4>1, <4>2, <4>3, Zenon
      <3>4. u[i] = t[j] /\ b[j] = IF t[j].kind = kind THEN Append(b[j - 1], t[j]) ELSE b[j - 1]
        BY <3>1, <1>1, <1>5
      <3>5. CASE t[j].kind = kind
        <4>1. t[j] \in T /\ b[j - 1] \in Seq(T)
          <5>1. j \in 1 .. n /\ j - 1 \in 0 .. n
            BY <3>1, <1>1
          <5>2. b[j - 1] \in Seq(T)
            BY <5>1, <1>5
          <5> QED BY <5>1, <5>2, <3>5, <1>s DEF OfKind
        <4>2. a[m] \o Append(b[j - 1], t[j]) = Append(a[m] \o b[j - 1], t[j])
          <5> PICK x : x = a[m]
            OBVIOUS
          <5> PICK y : y = b[j - 1]
            OBVIOUS
          <5>1. x \in Seq(T) /\ y \in Seq(T) /\ t[j] \in T
            BY <4>1, <1>a
          <5>2. x \o Append(y, t[j]) = Append(x \o y, t[j])
            BY ONLY <5>1, AppendConcat
          <5> QED BY <5>2
        <4> QED BY <3>2, <3>3, <3>4, <3>5, <4>2, Zenon
      <3>6. CASE t[j].kind # kind
        BY <3>2, <3>3, <3>4, <3>6, Zenon
      <3> QED BY <3>5, <3>6, Zenon
    <2>3. i <= m \/ i > m
      BY <1>1
    <2> QED BY <2>1, <2>2, <2>3, Zenon
  <1>9. Picks(T, u, kind, c)
    <2> HIDE DEF c
    <2> QED BY <1>1, <1>6, <1>7, <1>8, Zenon DEF Picks
  <1>10. c[m + n] = a[m] \o b[n]
    <2>1. CASE n = 0
      <3>1. c[m + n] = a[m] /\ b[n] = <<>>
        BY <2>1, <1>1, <1>5
      <3> QED BY <3>1, <1>a, ConcatEmptySeq
    <2>2. CASE n # 0
      <3>1. m + n \in 0 .. m + n /\ ~(m + n <= m) /\ (m + n) - m = n
        BY <2>2, <1>1
      <3>2. c[m + n] = a[m] \o b[(m + n) - m]
        BY <3>1, Zenon
      <3> QED BY <3>1, <3>2, Zenon
    <2> QED BY <2>1, <2>2, Zenon
  <1>11. Of(u, kind) = c[Len(u)]
    <2> HIDE DEF c
    <2>1. u \in Seq(S)
      BY <1>1
    <2> QED BY <2>1, <1>9, OfPicks, Zenon
  <1> HIDE DEF c
  <1> QED
    BY <1>1, <1>4, <1>10, <1>11

\* The parser's list, from behind: what it makes of the declarations from each one on
Parses(text, f) ==
    /\ f[Len(text) + 1] = <<>>
    /\ \A k \in 1 .. Len(text) :
          f[k] = IF text[k].kind = "comment" THEN f[k + 1] ELSE Append(f[k + 1], text[k])

\* Parsed goes through them from the last to the first.
LEMMA ParsedFrom ==
    ASSUME NEW S, NEW text \in Seq(S)
    PROVE  \E f \in [1 .. Len(text) + 1 -> Seq(S)] : Parses(text, f) /\ Parsed(text) = f[1]
  <1> DEFINE N == Len(text)
             Then(r, k) == IF text[k].kind = "comment" THEN r ELSE Append(r, text[k])
             Good(n, a) == a[0] = <<>> /\ \A i \in 1 .. n : a[i] = Then(a[i - 1], (N - i) + 1)
             from[k \in 1 .. N + 1] ==
                 IF k > N THEN <<>>
                 ELSE IF text[k].kind = "comment" THEN from[k + 1] ELSE Append(from[k + 1], text[k])
  <1>1. N \in Nat /\ \A i \in 1 .. N : text[i] \in S
    BY LenProperties
  <1>f. Parsed(text) = from[1]
    BY Zenon DEF Parsed
  <1> HIDE DEF N, from
  <1>t. ASSUME NEW r \in Seq(S), NEW k \in 1 .. N PROVE Then(r, k) \in Seq(S)
    <2>1. text[k] \in S
      BY <1>1
    <2> QED BY <2>1, AppendProperties
  <1> HIDE DEF Then
  <1>2. PICK V : V = Seq(S)
    OBVIOUS
  <1>3. PICK F : F = [k \in 1 .. N |-> [r \in V |-> Then(r, (N - k) + 1)]]
    OBVIOUS
  <1>4. \A k \in 1 .. N : \A r \in V : F[k][r] = Then(r, (N - k) + 1) /\ Then(r, (N - k) + 1) \in V
    <2>1. ASSUME NEW k \in 1 .. N, NEW r \in V PROVE Then(r, (N - k) + 1) \in V
      <3>1. (N - k) + 1 \in 1 .. N
        BY <1>1
      <3> QED BY <1>2, <1>t, <2>1, <3>1, Zenon
    <2>2. \A k \in 1 .. N : \A r \in V : F[k][r] = Then(r, (N - k) + 1)
      BY <1>3, Zenon
    <2> QED BY <2>1, <2>2, Zenon
  <1>5. PICK a \in [0 .. N -> Seq(S)] : Good(N, a)
    <2>1. <<>> \in V
      BY <1>2
    <2>2. PICK a : Iteration(N, V, <<>>, F, a)
      <3>1. \A k \in 1 .. N : \A r \in V : F[k][r] \in V
        BY <1>4, Zenon
      <3>2. PICK e : e = <<>>
        OBVIOUS
      <3>3. \E a : Iteration(N, V, e, F, a)
        BY <1>1, <2>1, <3>1, <3>2, Iterates, Zenon
      <3> QED BY <3>2, <3>3, Zenon
    <2>3. \A k \in 1 .. N : k - 1 \in 0 .. N
      BY <1>1
    <2>4. Good(N, a)
      BY <1>4, <2>2, <2>3, Zenon DEF Iteration
    <2> QED BY <1>2, <2>2, <2>4, Zenon DEF Iteration
  <1> DEFINE f == [k \in 1 .. N + 1 |-> a[(N + 1) - k]]
             After(g, k) == IF k > N THEN <<>> ELSE Then(g[k + 1], k)
  <1>6. f \in [1 .. N + 1 -> Seq(S)] /\ f[N + 1] = <<>> /\ \A k \in 1 .. N : f[k] = Then(f[k + 1], k)
    <2>1. f \in [1 .. N + 1 -> Seq(S)]
      BY <1>1, <1>5
    <2>2. f[N + 1] = <<>>
      <3>1. N + 1 \in 1 .. N + 1 /\ (N + 1) - (N + 1) = 0
        BY <1>1
      <3> QED BY <3>1, <1>5
    <2>3. ASSUME NEW k \in 1 .. N PROVE f[k] = Then(f[k + 1], k)
      <3>1. /\ (N + 1) - k \in 1 .. N /\ ((N + 1) - k) - 1 = (N + 1) - (k + 1)
            /\ (N - ((N + 1) - k)) + 1 = k /\ k \in 1 .. N + 1 /\ k + 1 \in 1 .. N + 1
        BY <1>1
      <3>2. a[(N + 1) - k] = Then(a[(N + 1) - (k + 1)], k)
        BY <3>1, <1>5, Zenon
      <3>3. f[k] = a[(N + 1) - k] /\ f[k + 1] = a[(N + 1) - (k + 1)]
        BY <3>1, Zenon
      <3> QED BY <3>2, <3>3, Zenon
    <2> QED BY <2>1, <2>2, <2>3
  <1>7. f = [k \in 1 .. N + 1 |-> After(f, k)]
    <2>1. ASSUME NEW k \in 1 .. N + 1 PROVE f[k] = After(f, k)
      <3>1. CASE k > N
        <4>1. k = N + 1
          BY <3>1, <1>1
        <4> HIDE DEF f
        <4> QED BY <3>1, <4>1, <1>6
      <3>2. CASE ~(k > N)
        <4>1. k \in 1 .. N
          BY <3>2, <1>1
        <4> HIDE DEF f
        <4> QED BY <3>2, <4>1, <1>6, Zenon
      <3> QED BY <3>1, <3>2
    <2> HIDE DEF After
    <2>2. f = [k \in 1 .. N + 1 |-> f[k]]
      BY Zenon
    <2> HIDE DEF f
    <2> QED BY <2>1, <2>2, Zenon
  <1> HIDE DEF f
  <1>8. from = [k \in 1 .. N + 1 |-> After(from, k)]
    BY <1>7, Zenon DEF from, Then
  <1>9. \A k \in 0 .. N : from[(N + 1) - k] = f[(N + 1) - k]
    <2> DEFINE Q == {k \in 0 .. N : from[(N + 1) - k] = f[(N + 1) - k]}
    <2>1. 0 \in Q
      <3>1. N + 1 \in 1 .. N + 1 /\ N + 1 > N /\ (N + 1) - 0 = N + 1 /\ 0 \in 0 .. N
        BY <1>1
      <3>2. from[N + 1] = <<>>
        BY <3>1, <1>8, Zenon
      <3> QED BY <3>1, <3>2, <1>6, Zenon
    <2>2. ASSUME NEW i \in 0 .. N - 1, i \in Q PROVE i + 1 \in Q
      <3> PICK k : k = (N + 1) - (i + 1)
        OBVIOUS
      <3>1. k \in 1 .. N /\ k \in 1 .. N + 1 /\ ~(k > N) /\ k + 1 = (N + 1) - i /\ i + 1 \in 0 .. N
        BY <1>1
      <3>2. from[k] = Then(from[k + 1], k) /\ f[k] = Then(f[k + 1], k)
        BY <3>1, <1>6, <1>8, Zenon
      <3>3. from[k + 1] = f[k + 1]
        BY <3>1, <2>2, Zenon
      <3> QED BY <3>1, <3>2, <3>3, Zenon
    <2>3. 0 .. N \subseteq Q
      <3> HIDE DEF Q
      <3> QED BY <1>1, <2>1, <2>2, UpTo, Zenon
    <2> QED BY <2>3, Zenon
  <1>10. from[1] = f[1]
    <2>1. N \in 0 .. N /\ (N + 1) - N = 1
      BY <1>1
    <2>2. from[(N + 1) - N] = f[(N + 1) - N]
      BY <1>9, <2>1, Zenon
    <2> QED BY <2>1, <2>2
  <1>11. Parses(text, f)
    BY <1>6, Zenon DEF Parses, N, Then
  <1> QED
    BY <1>f, <1>6, <1>10, <1>11, Zenon DEF N

\* What is kept of the parser's list is what is kept of the text, from behind.
LEMMA OfParsed ==
    ASSUME NEW S, NEW text \in Seq(S), NEW kind, kind # "comment"
    PROVE  /\ Parsed(text) \in Seq(S)
           /\ Of(Parsed(text), kind) = Reverse(Of(text, kind))
  <1>o. \A u, v \in Seq(S) : Of(u \o v, kind) = Of(u, kind) \o Of(v, kind)
    BY OfConcat
  <1> PICK N : N = Len(text)
    OBVIOUS
  <1> PICK T : T = OfKind(S, kind)
    OBVIOUS
  <1>1. PICK f \in [1 .. N + 1 -> Seq(S)] : Parses(text, f) /\ Parsed(text) = f[1]
    BY ParsedFrom
  <1>2. PICK a : Picks(T, text, kind, a)
    BY OfPicks
  <1>3. Of(text, kind) = a[N]
    BY <1>2, OfPicks
  <1>4. N \in Nat /\ \A k \in 1 .. N : text[k] \in S
    BY LenProperties
  <1>5. /\ f[N + 1] = <<>>
        /\ \A k \in 1 .. N : f[k] = IF text[k].kind = "comment" THEN f[k + 1]
                                    ELSE Append(f[k + 1], text[k])
        /\ a \in [0 .. N -> Seq(T)] /\ a[0] = <<>>
        /\ \A k \in 1 .. N : a[k] = IF text[k].kind = kind THEN Append(a[k - 1], text[k])
                                    ELSE a[k - 1]
    BY <1>1, <1>2, Zenon DEF Parses, Picks
  <1> DEFINE Q == {i \in 0 .. N : Reverse(a[N]) = Of(f[(N - i) + 1], kind) \o Reverse(a[N - i])}
  <1>6. \A k \in 0 .. N : a[k] \in Seq(T) /\ Reverse(a[k]) \in Seq(T)
    <2>1. \A k \in 0 .. N : a[k] \in Seq(T)
      BY <1>5, Zenon
    <2> QED BY <2>1, ReverseElements, Zenon
  <1>7. \A k \in 1 .. N + 1 : f[k] \in Seq(S) /\ Of(f[k], kind) \in Seq(T)
    <2>1. \A k \in 1 .. N + 1 : f[k] \in Seq(S)
      BY <1>1, Zenon
    <2> QED BY <2>1, OfType, Zenon
  <1>8. 0 \in Q
    <2>1. N - 0 = N /\ 0 \in 0 .. N /\ N \in 0 .. N
      BY <1>4
    <2>2. Of(f[N + 1], kind) = <<>>
      BY <1>5, OfNone, Zenon
    <2>3. Reverse(a[N]) = <<>> \o Reverse(a[N])
      BY <1>6, <2>1, ConcatEmptySeq, Zenon
    <2> QED BY <2>1, <2>2, <2>3, Zenon
  <1>9. ASSUME NEW i \in 0 .. N - 1, i \in Q PROVE i + 1 \in Q
    <2> PICK k : k = N - i
      OBVIOUS
    <2>1. /\ k \in 1 .. N /\ k \in 0 .. N /\ k - 1 \in 0 .. N /\ k - 1 = N - (i + 1)
          /\ (N - (i + 1)) + 1 = k /\ k \in 1 .. N + 1 /\ k + 1 \in 1 .. N + 1
          /\ (N - i) + 1 = k + 1 /\ i + 1 \in 0 .. N
      BY <1>4
    <2> PICK d : d = text[k]
      OBVIOUS
    <2> PICK x : x = Of(f[k + 1], kind)
      OBVIOUS
    <2> PICK y : y = Reverse(a[k - 1])
      OBVIOUS
    <2> PICK g : g = f[k + 1]
      OBVIOUS
    <2> PICK b : b = a[k - 1]
      OBVIOUS
    <2>g. g \in Seq(S) /\ b \in Seq(T)
      BY <1>6, <1>7, <2>1
    <2>2. d \in S /\ x \in Seq(T) /\ y \in Seq(T) /\ f[k + 1] \in Seq(S) /\ a[k - 1] \in Seq(T)
      BY <1>4, <1>6, <1>7, <2>1
    <2>3. Reverse(a[N]) = x \o Reverse(a[k])
      BY <1>9, <2>1, Zenon
    <2>4. Reverse(a[N]) = Of(f[k], kind) \o y
      <3>1. CASE d.kind = kind
        <4>1. f[k] = Append(f[k + 1], d) /\ a[k] = Append(a[k - 1], d) /\ d \in T
          <5>1. d \in T
            BY <2>2, <3>1 DEF OfKind
          <5> QED BY <1>5, <2>1, <3>1, <5>1, Zenon
        <4>2. f[k] = f[k + 1] \o <<d>> /\ a[k] = a[k - 1] \o <<d>>
          <5>1. f[k] = Append(g, d) /\ a[k] = Append(b, d) /\ g = f[k + 1] /\ b = a[k - 1]
            BY <4>1, Zenon
          <5>2. d \in S /\ d \in T
            BY <2>2, <4>1, Zenon
          <5>3. Append(g, d) = g \o <<d>> /\ Append(b, d) = b \o <<d>>
            BY ONLY <2>g, <5>2, AppendIsConcat, SMTT(60)
          <5> QED BY <5>1, <5>3, Zenon
        <4>3. <<d>> \in Seq(S) /\ <<d>> \in Seq(T) /\ Reverse(<<d>>) = <<d>>
          <5>1. <<d>> \in Seq(S) /\ <<d>> \in Seq(T)
            BY <2>2, <4>1
          <5>2. Reverse(<<d>>) = <<d>>
            BY <4>1, ReverseOne
          <5> QED BY <5>1, <5>2
        <4>4. Of(f[k], kind) = x \o <<d>>
          <5>1. Of(<<d>>, kind) = <<d>>
            BY <2>2, <3>1, OfOne, Zenon
          <5>2. Of(g \o <<d>>, kind) = Of(g, kind) \o Of(<<d>>, kind)
            <6> PICK e : e = <<d>>
              OBVIOUS
            <6>1. e \in Seq(S)
              BY <4>3
            <6>2. Of(g \o e, kind) = Of(g, kind) \o Of(e, kind)
              BY <2>g, <6>1, <1>o, Zenon
            <6> QED BY <6>2, Zenon
          <5> QED BY <4>2, <5>1, <5>2, Zenon
        <4>5. Reverse(a[k]) = <<d>> \o y
          <5>1. Reverse(b \o <<d>>) = Reverse(<<d>>) \o Reverse(b)
            BY <2>g, <4>3, ReverseConcat, Zenon
          <5> QED BY <4>2, <4>3, <5>1, Zenon
        <4>6. x \o (<<d>> \o y) = (x \o <<d>>) \o y
          BY ONLY <2>2, <4>3, ConcatAssociative, SMTT(60)
        <4> QED BY <2>3, <4>4, <4>5, <4>6, Zenon
      <3>2. CASE d.kind # kind
        <4>1. a[k] = a[k - 1]
          BY <1>5, <2>1, <3>2, Zenon
        <4>2. Of(f[k], kind) = x
          <5>1. CASE d.kind = "comment"
            BY <1>5, <2>1, <5>1, Zenon
          <5>2. CASE d.kind # "comment"
            <6>1. f[k] = Append(f[k + 1], d)
              BY <1>5, <2>1, <5>2, Zenon
            <6>2. f[k] = f[k + 1] \o <<d>> /\ <<d>> \in Seq(S)
              <7>1. Append(g, d) = g \o <<d>> /\ <<d>> \in Seq(S)
                BY ONLY <2>g, d \in S, AppendIsConcat, SMTT(60)
              <7> QED BY <2>2, <6>1, <7>1
            <6>3. Of(<<d>>, kind) = <<>>
              BY <2>2, <3>2, OfOne, Zenon
            <6>4. Of(f[k], kind) = x \o <<>>
              <7>1. Of(g \o <<d>>, kind) = Of(g, kind) \o Of(<<d>>, kind)
                <8> PICK e : e = <<d>>
                  OBVIOUS
                <8>1. e \in Seq(S)
                  BY <6>2
                <8>2. Of(g \o e, kind) = Of(g, kind) \o Of(e, kind)
                  BY ONLY <2>g, <8>1, <1>o
                <8> QED BY <8>2, Zenon
              <7> QED BY <6>2, <6>3, <7>1, Zenon
            <6> QED BY <2>2, <6>4, ConcatEmptySeq
          <5> QED BY <5>1, <5>2
        <4> QED BY <2>3, <4>1, <4>2, Zenon
      <3> QED BY <3>1, <3>2
    <2> QED BY <2>1, <2>4, Zenon
  <1>10. N \in Q
    <2> HIDE DEF Q
    <2>1. 0 .. N \subseteq Q
      BY <1>4, <1>8, <1>9, UpTo, Zenon
    <2>2. N \in 0 .. N
      BY <1>4
    <2> QED BY <2>1, <2>2, Zenon
  <1>11. Reverse(a[N]) = Of(f[1], kind)
    <2>1. N - N = 0 /\ 0 + 1 = 1 /\ N \in 0 .. N /\ 1 \in 1 .. N + 1
      BY <1>4
    <2>2. Reverse(a[N]) = Of(f[(N - N) + 1], kind) \o Reverse(a[N - N])
      BY <1>10, Zenon
    <2>3. (N - N) + 1 = 1 /\ a[N - N] = <<>>
      BY <2>1, <1>5
    <2>4. Reverse(<<>>) = <<>>
      BY DEF Reverse
    <2>5. Reverse(a[N]) = Of(f[1], kind) \o <<>>
      BY <2>2, <2>3, <2>4, Zenon
    <2> QED BY <2>1, <2>5, <1>7, ConcatEmptySeq
  <1>12. f[1] \in Seq(S)
    <2>1. 1 \in 1 .. N + 1
      BY <1>4
    <2> QED BY <2>1, <1>7, Zenon
  <1> QED
    BY <1>1, <1>3, <1>11, <1>12, Zenon

-----------------------------------------------------------------------------
(* Sequences of declarations and inputs *)

\* A function on an interval from 1 is a sequence of its elements.
LEMMA CountedIsSeq ==
    ASSUME NEW n \in Nat, NEW s, s = [k \in 1 .. n |-> s[k]]
    PROVE  IsSeq(s) /\ DOMAIN s = 1 .. n
  <1>1. DOMAIN s = 1 .. n
    BY Zenon
  <1>2. s \in [1 .. n -> ToSet(s)]
    BY <1>1, Zenon DEF ToSet
  <1> QED
    BY <1>1, <1>2, SeqDef, Zenon DEF IsSeq

\* What is concatenated is a sequence, and has the elements of both.
LEMMA Joined ==
    ASSUME NEW s, NEW u, IsSeq(s), IsSeq(u)
    PROVE  IsSeq(s \o u) /\ ToSet(s \o u) = ToSet(s) \cup ToSet(u)
  <1>1. s \o u \in Seq(ToSet(s) \cup ToSet(u))
    BY DEF IsSeq
  <1>2. /\ Len(s) \in Nat /\ DOMAIN s = 1 .. Len(s) /\ Len(u) \in Nat /\ DOMAIN u = 1 .. Len(u)
        /\ DOMAIN (s \o u) = 1 .. Len(s) + Len(u)
        /\ \A k \in 1 .. Len(s) : (s \o u)[k] = s[k]
        /\ \A k \in 1 .. Len(u) : (s \o u)[Len(s) + k] = u[k]
    BY DEF IsSeq
  <1>3. ToSet(s \o u) = ToSet(s) \cup ToSet(u)
    <2>1. ASSUME NEW k \in DOMAIN (s \o u) PROVE (s \o u)[k] \in ToSet(s) \cup ToSet(u)
      BY <1>1
    <2>2. ASSUME NEW k \in DOMAIN s PROVE s[k] \in ToSet(s \o u)
      <3>1. k \in DOMAIN (s \o u) /\ (s \o u)[k] = s[k]
        BY <1>2
      <3> QED BY <3>1, Zenon DEF ToSet
    <2>3. ASSUME NEW k \in DOMAIN u PROVE u[k] \in ToSet(s \o u)
      <3>1. Len(s) + k \in DOMAIN (s \o u) /\ (s \o u)[Len(s) + k] = u[k]
        BY <1>2
      <3> QED BY <3>1, Zenon DEF ToSet
    <2> QED BY <2>1, <2>2, <2>3, Zenon DEF ToSet
  <1> QED
    BY <1>1, <1>3 DEF IsSeq

\* Popping loses the last element, and no other.
LEMMA Popped ==
    ASSUME NEW s, IsSeq(s), s # <<>>
    PROVE  IsSeq(Front(s)) /\ ToSet(s) = ToSet(Front(s)) \cup {Last(s)}
  <1>1. Len(s) \in Nat \ {0} /\ DOMAIN s = 1 .. Len(s)
    BY DEF IsSeq
  <1>2. /\ Front(s) \in Seq(ToSet(s)) /\ Len(Front(s)) = Len(s) - 1
        /\ DOMAIN Front(s) = 1 .. Len(s) - 1
        /\ \A k \in 1 .. Len(s) - 1 : Front(s)[k] = s[k]
    BY <1>1 DEF Front, IsSeq
  <1>3. IsSeq(Front(s))
    BY <1>2, SeqOfElements DEF ToSet, IsSeq
  <1>4. \A k \in DOMAIN s : k \in DOMAIN Front(s) \/ k = Len(s)
    BY <1>1, <1>2
  <1>5. Len(s) \in DOMAIN s /\ DOMAIN Front(s) \subseteq DOMAIN s
    BY <1>1, <1>2
  <1>6. ToSet(s) = ToSet(Front(s)) \cup {Last(s)}
    BY <1>2, <1>4, <1>5, Zenon DEF ToSet, Last
  <1> QED
    BY <1>3, <1>6

\* The parser's list is a sequence.
LEMMA ParsedIsSeq ==
    ASSUME NEW text, IsSeq(text)
    PROVE  IsSeq(Parsed(text))
  <1>1. Parsed(text) \in Seq(ToSet(text))
    <2> PICK S : S = ToSet(text)
      OBVIOUS
    <2>1. text \in Seq(S) /\ "miinclude" # "comment"
      BY DEF IsSeq
    <2> QED BY <2>1, OfParsed, Zenon
  <1> QED
    BY <1>1, SeqOfElements DEF ToSet, IsSeq

-----------------------------------------------------------------------------
(* Files *)

\* What is found is a file of the project.
LEMMA TextIsFile ==
    ASSUME project \in Projects, NEW i, Found(i)
    PROVE  \E file \in DOMAIN project : TextOf(i) = project[file]
  <1>1. DOMAIN Places(i) \subseteq Nat
    <2>1. \E n \in Nat : DOMAIN IncludePath = 1 .. n
      BY MiConstants
    <2>2. DOMAIN <<Head(IncludePath)>> = 1 .. 1
      OBVIOUS
    <2>3. \A n \in Nat : 1 .. n \subseteq Nat
      OBVIOUS
    <2>4. DOMAIN IncludePath \subseteq Nat /\ DOMAIN <<Head(IncludePath)>> \subseteq Nat
      BY <2>1, <2>2, <2>3, Zenon
    <2> QED BY <2>4, Zenon DEF Places
  <1>2. Hits(i) \subseteq Nat /\ Hits(i) # {}
    BY <1>1, Zenon DEF Hits, Found
  <1> DEFINE IsFirst(k) == \A j \in Hits(i) : k <= j
             first == CHOOSE k \in Hits(i) : IsFirst(k)
  <1>3. \E k \in Hits(i) : IsFirst(k)
    BY <1>2, MinElement, Zenon
  <1>4. first \in Hits(i)
    BY <1>3, Zenon
  <1>5. Places(i)[first] \in DOMAIN project
    <2> HIDE DEF first
    <2> QED BY <1>4, Zenon DEF Hits
  <1>6. TextOf(i) = project[Places(i)[first]]
    BY Zenon DEF TextOf
  <1> HIDE DEF first
  <1> QED
    BY <1>5, <1>6, Zenon

\* It is a sequence of declarations.
LEMMA TextIsSeq ==
    ASSUME project \in Projects, NEW i, Found(i)
    PROVE  IsSeq(TextOf(i))
  <1>1. \A file \in DOMAIN project : IsSeq(project[file])
    BY MiConstants, Zenon DEF IsSeq
  <1> QED
    BY <1>1, TextIsFile, Zenon

\* What a text includes, it includes in its order, although the parser turns it round.
LEMMA IncludesInOrder ==
    ASSUME NEW text, IsSeq(text)
    PROVE  LET lines == Of(text, "miinclude") IN
           /\ IsSeq(lines) /\ ToSet(lines) \subseteq ToSet(text)
           /\ IncludesIn(text) = [k \in DOMAIN lines |-> Input(lines[k].name, lines[k].local)]
  <1> PICK S : S = ToSet(text)
    OBVIOUS
  <1> PICK m : m = Of(text, "miinclude")
    OBVIOUS
  <1>1. text \in Seq(S) /\ "miinclude" # "comment"
    BY DEF IsSeq
  <1>2. m \in Seq(S)
    BY <1>1, OfType, Zenon
  <1>3. Of(Parsed(text), "miinclude") = Reverse(m)
    BY <1>1, OfParsed, Zenon
  <1>4. Reverse(Of(Parsed(text), "miinclude")) = m
    BY <1>2, <1>3, ReverseTwice, Zenon
  <1>5. IncludesIn(text) = [k \in DOMAIN m |-> Input(m[k].name, m[k].local)]
    BY <1>4, Zenon DEF IncludesIn
  <1>6. IsSeq(m) /\ ToSet(m) \subseteq S
    BY <1>2, SeqOfElements DEF ToSet, IsSeq
  <1> QED
    BY <1>5, <1>6, Zenon

\* So are the inputs it includes.
LEMMA IncludesAreSeq ==
    ASSUME project \in Projects, NEW i, Found(i)
    PROVE  IsSeq(IncludesOf(i))
  <1> PICK m : m = Of(TextOf(i), "miinclude")
    OBVIOUS
  <1>1. IsSeq(m) /\ IncludesOf(i) = [k \in DOMAIN m |-> Input(m[k].name, m[k].local)]
    BY TextIsSeq, IncludesInOrder, Zenon DEF IncludesOf
  <1>2. PICK n \in Nat : DOMAIN m = 1 .. n
    BY <1>1 DEF IsSeq
  <1>3. IncludesOf(i) = [k \in 1 .. n |-> IncludesOf(i)[k]]
    BY <1>1, <1>2, Zenon
  <1> QED
    BY <1>3, CountedIsSeq, Zenon

-----------------------------------------------------------------------------
(* What has been read *)

\* The project stays as it is, with all that is found in it.
LEMMA ProjectStays ==
    ASSUME project' = project
    PROVE  /\ Inputs' = Inputs
           /\ \A i : /\ Readable(i)' = Readable(i) /\ TextOf(i)' = TextOf(i)
                     /\ IncludesOf(i)' = IncludesOf(i)
  <1>1. Inputs' = Inputs
    BY Zenon DEF Inputs, Input
  <1>2. ASSUME NEW i PROVE /\ Found(i)' = Found(i) /\ TextOf(i)' = TextOf(i)
    <2>1. Hits(i)' = Hits(i)
      BY Zenon DEF Hits, Places
    <2> QED BY <2>1, Zenon DEF Found, TextOf, Places
  <1>3. ASSUME NEW i PROVE Readable(i)' = Readable(i)
    BY <1>2, Zenon DEF Readable
  <1>4. ASSUME NEW i PROVE IncludesOf(i)' = IncludesOf(i)
    <2>1. PICK text : text = TextOf(i)
      OBVIOUS
    <2>2. text = TextOf(i)'
      BY <1>2, <2>1, Zenon
    <2> QED BY <2>1, <2>2, Zenon DEF IncludesOf
  <1> QED
    BY <1>1, <1>2, <1>3, <1>4, Zenon

\* So do its traps.
LEMMA TrapsStay ==
    ASSUME project' = project
    PROVE  Traps' = Traps
  <1>1. ASSUME NEW i, NEW W PROVE Includes(i, W)' = Includes(i, W)
    <2>1. PICK inc : inc = IncludesOf(i)
      OBVIOUS
    <2>2. inc = IncludesOf(i)'
      BY ProjectStays, <2>1, Zenon
    <2> QED BY <2>1, <2>2, Zenon DEF Includes
  <1> QED
    BY <1>1, ProjectStays, Zenon DEF Traps

\* Taking the next input from the stack: if it is in the trap, one that it includes is.
LEMMA ReadLeads ==
    ASSUME MiTypeOK, StackLeads, ReadFile
    PROVE  StackLeads'
  <1>1. /\ step = "read" /\ step' = step /\ pending # <<>> /\ Readable(Next1)
        /\ pending' = Front(pending) \o IncludesOf(Next1)
        /\ functions' = functions \o Parsed(TextOf(Next1))
        /\ project' = project
    BY DEF ReadFile
  <1>2. PICK i : i = Next1
    OBVIOUS
  <1>3. /\ project \in Projects /\ Found(i) /\ Readable(i)
        /\ IsSeq(pending) /\ IsSeq(functions)
        /\ \A W \in Traps : Main \in W => ToSet(pending) \cap W # {}
    BY <1>1, <1>2 DEF MiTypeOK, StackLeads, Readable
  <1>4. IsSeq(IncludesOf(i)) /\ IsSeq(Parsed(TextOf(i)))
    BY <1>3, IncludesAreSeq, TextIsSeq, ParsedIsSeq
  <1>5. /\ IsSeq(Front(pending))
        /\ ToSet(pending) = ToSet(Front(pending)) \cup {i}
    BY <1>1, <1>2, <1>3, Popped DEF Next1
  <1>6. /\ IsSeq(pending') /\ IsSeq(functions')
        /\ ToSet(pending') = ToSet(Front(pending)) \cup ToSet(IncludesOf(i))
    BY <1>1, <1>2, <1>3, <1>4, <1>5, Joined
  <1>7. Traps' = Traps
    BY <1>1, TrapsStay
  <1>8. ASSUME NEW W \in Traps, Main \in W
        PROVE  ToSet(pending') \cap W # {}
    <2>1. CASE i \in W
      <3>1. ToSet(IncludesOf(i)) \cap W # {}
        BY <1>3, <2>1, Zenon DEF Traps, Includes
      <3> QED BY <1>6, <3>1
    <2>2. CASE i \notin W
      BY <1>3, <1>5, <1>6, <1>8, <2>2
    <2> QED BY <2>1, <2>2
  <1>9. step' = "read"
    BY <1>1
  <1> QED
    BY <1>6, <1>7, <1>8, <1>9, Zenon DEF StackLeads, IsSeq, Main, Input

\* A step that reads nothing, and goes on only when the stack is empty.
LEMMA StackStays ==
    ASSUME StackLeads, UNCHANGED <<project, pending, functions>>,
           step' \notin {"read", "fatal"} => pending = <<>>
    PROVE  StackLeads'
  <1>1. Traps' = Traps
    BY TrapsStay
  <1> QED
    BY <1>1, Zenon DEF StackLeads, IsSeq, Main, Input

-----------------------------------------------------------------------------
(* What has been marked *)

\* The functions read, and what is asked of them, depend on what was read only.
LEMMA FunctionsStay ==
    ASSUME functions' = functions
    PROVE  /\ Functions' = Functions /\ FunctionNames' = FunctionNames
           /\ Declared(Functions)' = Declared(Functions)
           /\ Compiled(Functions)' = Compiled(Functions)
  <1>1. Functions' = Functions
    BY DEF Functions
  <1>2. FunctionNames' = FunctionNames
    BY <1>1, Zenon DEF FunctionNames
  <1> QED
    BY <1>1, <1>2, Zenon

\* A step of main that leaves the marks alone.
LEMMA MarksStay ==
    ASSUME MiTypeOK, NoneUnblocked, UNCHANGED <<project, warn, functions, check>>,
           step' \in {"read", "check", "compile"} \cup Stopped, reads' \in 0 .. MaxReads
    PROVE  MiTypeOK' /\ NoneUnblocked'
  <1>1. UNCHANGED <<reachedTypes, reachedFunctions, at, changed>>
    BY DEF check
  <1>2. \A f : HasArgs(f)' = HasArgs(f)
    BY <1>1 DEF HasArgs
  <1>3. MiTypeOK'
    BY <1>1, <1>2, FunctionsStay, Zenon DEF MiTypeOK
  <1>4. NoneUnblocked'
    BY <1>1, FunctionsStay, Zenon DEF NoneUnblocked
  <1> QED
    BY <1>3, <1>4

\* Reading happens before anything is marked.
LEMMA ReadMarks ==
    ASSUME MiInv, ReadFile, StackLeads'
    PROVE  MiInv'
  <1>1. /\ step = "read" /\ reads < MaxReads /\ reads' = reads + 1
        /\ UNCHANGED <<project, warn, step, check>>
    BY DEF ReadFile
  <1>2. /\ reachedTypes' = {} /\ reachedFunctions' = {} /\ at' = 1 /\ changed' = FALSE
        /\ step' = "read" /\ reads \in 0 .. MaxReads /\ warn \in BOOLEAN /\ project \in Projects
    BY <1>1 DEF MiInv, MiTypeOK, Unmarked, check
  <1>3. reads' \in 0 .. MaxReads
    BY <1>1, <1>2, MiConstants
  <1>4. at' \in 1 .. Len(functions') + 1
    <2>1. \A k \in Nat : 1 \in 1 .. k + 1
      OBVIOUS
    <2>2. Len(functions') \in Nat
      BY DEF StackLeads, IsSeq
    <2> QED BY <1>2, <2>1, <2>2, Zenon
  <1>5. MiTypeOK'
    BY <1>1, <1>2, <1>3, <1>4, Zenon DEF MiTypeOK
  <1>6. NoneUnblocked'
    BY <1>2, Zenon DEF NoneUnblocked, MadeOutside
  <1>7. Unmarked' /\ PassSettles' /\ VerdictTrue'
    BY <1>2 DEF Unmarked, PassSettles, VerdictTrue
  <1> QED
    BY <1>5, <1>6, <1>7 DEF MiInv

\* A file that is missing ends the compiler.
LEMMA FailMarks ==
    ASSUME MiInv, ReadFails
    PROVE  MiInv'
  <1>1. /\ step' = "fatal" /\ UNCHANGED <<project, warn, pending, functions, reads, check>>
    BY DEF ReadFails
  <1>2. MiTypeOK' /\ NoneUnblocked'
    BY <1>1, MarksStay DEF MiInv, MiTypeOK, Stopped
  <1>3. StackLeads'
    BY <1>1, StackStays DEF MiInv
  <1>4. Unmarked' /\ PassSettles' /\ VerdictTrue'
    BY <1>1 DEF Unmarked, PassSettles, VerdictTrue
  <1> QED
    BY <1>2, <1>3, <1>4 DEF MiInv

\* The check begins with nothing marked.
LEMMA AllReadMarks ==
    ASSUME MiInv, AllRead
    PROVE  MiInv'
  <1>1. /\ step = "read" /\ pending = <<>> /\ step' = IF warn THEN "check" ELSE "compile"
        /\ UNCHANGED <<project, warn, pending, functions, reads, check>>
    BY DEF AllRead
  <1>2. MiTypeOK' /\ NoneUnblocked'
    BY <1>1, MarksStay DEF MiInv, MiTypeOK, Stopped
  <1>3. StackLeads'
    BY <1>1, StackStays DEF MiInv
  <1>4. at' = 1 /\ step' \in {"check", "compile"} /\ (step' = "compile" => ~warn')
    BY <1>1 DEF MiInv, Unmarked, check
  <1>5. Unmarked' /\ PassSettles' /\ VerdictTrue'
    BY <1>4 DEF Unmarked, PassSettles, VerdictTrue
  <1> QED
    BY <1>2, <1>3, <1>5 DEF MiInv

\* Compiling what has been checked changes nothing that was found.
LEMMA CompileMarks ==
    ASSUME MiInv, Compile
    PROVE  MiInv'
  <1>1. /\ step = "compile" /\ step' = "written"
        /\ UNCHANGED <<project, warn, pending, functions, reads, check>>
    BY DEF Compile
  <1>2. MiTypeOK' /\ NoneUnblocked'
    BY <1>1, MarksStay DEF MiInv, MiTypeOK, Stopped
  <1>3. StackLeads'
    BY <1>1, StackStays DEF MiInv, StackLeads
  <1>4. FunctionNames' = FunctionNames /\ reachedFunctions' = reachedFunctions
    BY <1>1, FunctionsStay DEF check
  <1>5. Unmarked' /\ PassSettles' /\ VerdictTrue'
    BY <1>1, <1>4 DEF MiInv, Unmarked, PassSettles, VerdictTrue
  <1> QED
    BY <1>2, <1>3, <1>5 DEF MiInv

\* A function that is marked is in no set of functions that block each other, so
\* that the type it returns is made outside of them.
LEMMA MarkedIsOutside ==
    ASSUME NEW fs, NEW types, NEW As, NEW f \in fs,
           ArgTypes(f) \subseteq types, MadeOutside(fs, types, As)
    PROVE  MadeOutside(fs, types \cup {f.ret}, As)
  <1> SUFFICES ASSUME NEW S \in Blocking(fs, As), NEW t \in types \cup {f.ret}
               PROVE  \E g \in fs \ S : As[g.ret] = As[t]
    BY Zenon DEF MadeOutside
  <1>1. CASE t \in types
    BY <1>1, Zenon DEF MadeOutside
  <1>2. CASE t = f.ret
    <2>1. ASSUME f \in S PROVE FALSE
      <3>1. PICK a \in ArgTypes(f) : \A g \in fs \ S : As[g.ret] # As[a]
        BY <2>1, Zenon DEF Blocking
      <3>2. \E g \in fs \ S : As[g.ret] = As[a]
        BY <3>1, Zenon DEF MadeOutside
      <3> QED BY <3>1, <3>2, Zenon
    <2> QED BY <1>2, <2>1, Zenon
  <1> QED
    BY <1>1, <1>2, Zenon

\* The for loop marks a function whose arguments can be had.
LEMMA TurnMarks ==
    ASSUME MiInv, CheckFunction
    PROVE  MiInv'
  <1> DEFINE f == functions[at]
             marks == f.kind = "function" /\ f.name \notin reachedFunctions /\ HasArgs(f)
  <1>1. /\ step = "check" /\ step' = "check" /\ at <= Len(functions) /\ at' = at + 1
        /\ UNCHANGED <<project, warn, pending, functions, reads>>
        /\ marks => /\ reachedTypes' = reachedTypes \cup {f.ret}
                    /\ reachedFunctions' = reachedFunctions \cup {f.name}
                    /\ changed' = TRUE
        /\ ~marks => UNCHANGED <<reachedTypes, reachedFunctions, changed>>
    BY DEF CheckFunction
  <1>2. /\ step' \in {"read", "check", "compile"} \cup Stopped /\ reads' \in 0 .. MaxReads
        /\ project' \in Projects /\ {warn', changed'} \subseteq BOOLEAN
    BY <1>1, Zenon DEF MiInv, MiTypeOK
  <1>3. /\ at \in Nat \ {0} /\ at \in DOMAIN functions
        /\ at' \in 1 .. Len(functions') + 1
    <2>1. Len(functions) \in Nat /\ DOMAIN functions = 1 .. Len(functions)
      BY DEF MiInv, StackLeads, IsSeq
    <2>2. at \in 1 .. Len(functions) + 1
      BY DEF MiInv, MiTypeOK
    <2>3. Len(functions') = Len(functions)
      BY <1>1
    <2> QED BY <1>1, <2>1, <2>2, <2>3
  <1>4. StackLeads'
    BY <1>1, StackStays DEF MiInv, StackLeads
  <1>5. Unmarked' /\ VerdictTrue'
    BY <1>1 DEF Unmarked, VerdictTrue
  <1>6. Functions' = Functions
    BY <1>1, FunctionsStay
  <1>7. CASE marks
    <2> DEFINE T == reachedTypes
               N == reachedFunctions
    <2>1. PICK g : g = f
      OBVIOUS
    <2>2. g \in Functions /\ ArgTypes(g) \subseteq T
      BY <1>3, <1>7, <2>1, Zenon DEF Functions, ToSet, HasArgs
    <2>3. reachedTypes' = T \cup {g.ret} /\ reachedFunctions' = N \cup {g.name}
      BY <1>1, <1>7, <2>1
    <2>4. \A h : HasArgs(h)' <=> ArgTypes(h) \subseteq T \cup {g.ret}
      BY <2>3 DEF HasArgs
    <2>5. ASSUME NEW n \in reachedFunctions'
          PROVE  \E h \in Functions' : h.name = n /\ ArgTypes(h) \cup {h.ret} \subseteq reachedTypes'
      <3>1. CASE n = g.name
        BY <1>6, <2>2, <2>3, <2>4, <3>1
      <3>2. CASE n \in N
        <4>1. PICK h \in Functions : h.name = n /\ ArgTypes(h) \cup {h.ret} \subseteq T
          BY <3>2, Zenon DEF MiInv, MiTypeOK
        <4> QED BY <1>6, <2>3, <4>1
      <3> QED BY <2>3, <2>5, <3>1, <3>2
    <2>6. ASSUME NEW t \in reachedTypes'
          PROVE  \E h \in Functions' : h.ret = t /\ h.name \in reachedFunctions'
      <3>1. CASE t = g.ret
        BY <1>6, <2>2, <2>3, <3>1
      <3>2. CASE t \in T
        <4>1. PICK h \in Functions : h.ret = t /\ h.name \in N
          BY <3>2, Zenon DEF MiInv, MiTypeOK
        <4> QED BY <1>6, <2>3, <4>1
      <3> QED BY <2>3, <2>6, <3>1, <3>2
    <2>7. MiTypeOK'
      BY <1>2, <1>3, <2>5, <2>6, Zenon DEF MiTypeOK
    <2>8. NoneUnblocked'
      <3>1. \A As \in {Declared(Functions), Compiled(Functions)} :
               MadeOutside(Functions, T \cup {g.ret}, As)
        BY <2>2, MarkedIsOutside, Zenon DEF MiInv, NoneUnblocked
      <3> QED BY <1>1, <2>3, <3>1, FunctionsStay, Zenon DEF NoneUnblocked
    <2>9. PassSettles'
      BY <1>1, <1>7 DEF PassSettles
    <2> QED BY <1>4, <1>5, <2>7, <2>8, <2>9 DEF MiInv
  <1>8. CASE ~marks
    <2>1. UNCHANGED <<reachedTypes, reachedFunctions, changed>>
      BY <1>1, <1>8
    <2>2. \A h : (HasArgs(h)' <=> HasArgs(h)) /\ (Settled(h)' <=> Settled(h))
      BY <2>1 DEF HasArgs, Settled
    <2>3. MiTypeOK'
      BY <1>2, <1>3, <1>6, <2>1, <2>2, Zenon DEF MiInv, MiTypeOK
    <2>4. NoneUnblocked'
      BY <1>1, <2>1, FunctionsStay, Zenon DEF MiInv, NoneUnblocked
    <2>5. ASSUME ~changed, NEW k \in 1 .. at, functions[k].kind = "function"
          PROVE  Settled(functions[k])
      <3>1. CASE k = at
        BY <1>8, <2>5, <3>1 DEF Settled
      <3>2. CASE k # at
        <4>1. k \in 1 .. at - 1
          BY <1>3, <3>2
        <4> QED BY <1>1, <2>5, <4>1, Zenon DEF MiInv, PassSettles
      <3> QED BY <3>1, <3>2
    <2>6. PassSettles'
      <3> SUFFICES ASSUME ~changed', NEW k \in 1 .. at' - 1, functions'[k].kind = "function"
                   PROVE  Settled(functions[k])'
        BY Zenon DEF PassSettles
      <3>1. k \in 1 .. at /\ functions' = functions
        BY <1>1, <1>3
      <3>2. Settled(functions[k])
        BY <2>1, <2>5, <3>1
      <3> QED BY <1>1, <2>1, <3>1, <3>2 DEF Settled, HasArgs
    <2> QED BY <1>4, <1>5, <2>3, <2>4, <2>6 DEF MiInv
  <1> QED
    BY <1>7, <1>8

\* The while loop ends with a pass that has settled everything.
LEMMA RoundMarks ==
    ASSUME MiInv, CheckRound
    PROVE  MiInv'
  <1>1. /\ step = "check" /\ at > Len(functions) /\ at' = 1 /\ changed' = FALSE
        /\ step' = IF changed THEN "check" ELSE Verdict
        /\ UNCHANGED <<project, warn, pending, functions, reads, reachedTypes,
                       reachedFunctions>>
    BY DEF CheckRound
  <1>2. step' \in {"check", "compile", "unreachable"}
    BY <1>1 DEF Verdict
  <1>3. Len(functions) \in Nat /\ DOMAIN functions = 1 .. Len(functions)
    BY DEF MiInv, StackLeads, IsSeq
  <1>4. at' \in 1 .. Len(functions') + 1
    BY <1>1, <1>3
  <1>5. /\ \A h : (HasArgs(h)' <=> HasArgs(h)) /\ (Settled(h)' <=> Settled(h))
        /\ Functions' = Functions /\ FunctionNames' = FunctionNames
    BY <1>1, FunctionsStay DEF HasArgs, Settled
  <1>6. MiTypeOK'
    <2>1. step' \in {"read", "check", "compile"} \cup Stopped /\ {warn', changed'} \subseteq BOOLEAN
      BY <1>1, <1>2, Zenon DEF Stopped, MiInv, MiTypeOK
    <2> QED BY <1>1, <1>4, <1>5, <2>1, Zenon DEF MiInv, MiTypeOK
  <1>7. NoneUnblocked'
    BY <1>1, FunctionsStay, Zenon DEF MiInv, NoneUnblocked
  <1>8. StackLeads'
    BY <1>1, <1>2, StackStays DEF MiInv, StackLeads
  <1>9. Unmarked' /\ PassSettles'
    BY <1>1, <1>2 DEF Unmarked, PassSettles
  <1>10. VerdictTrue'
    <2>1. ASSUME step' = "unreachable"
          PROVE  reachedFunctions # FunctionNames /\ \A f \in Functions : Settled(f)
      <3>1. ~changed /\ reachedFunctions # FunctionNames
        BY <1>1, <2>1 DEF Verdict
      <3>2. ASSUME NEW k \in DOMAIN functions, functions[k].kind = "function"
            PROVE  Settled(functions[k])
        <4>1. k \in 1 .. at - 1
          BY <1>1, <1>3 DEF MiInv, MiTypeOK
        <4> QED BY <1>1, <3>1, <3>2, <4>1, Zenon DEF MiInv, PassSettles
      <3> QED BY <3>1, <3>2, Zenon DEF Functions, ToSet
    <2>2. step' = "compile" => reachedFunctions = FunctionNames
      BY <1>1 DEF Verdict
    <2> QED BY <1>1, <1>2, <1>5, <2>1, <2>2 DEF VerdictTrue
  <1> QED
    BY <1>6, <1>7, <1>8, <1>9, <1>10 DEF MiInv

-----------------------------------------------------------------------------
(* The theorems *)

LEMMA MiInvInit == MiInit => MiInv
  <1> SUFFICES ASSUME MiInit PROVE MiInv
    OBVIOUS
  <1>1. /\ project \in Projects /\ warn \in BOOLEAN /\ step = "read"
        /\ pending = <<Main>> /\ functions = <<>> /\ reads = 0
        /\ reachedTypes = {} /\ reachedFunctions = {} /\ at = 1 /\ changed = FALSE
    BY DEF MiInit, Main
  <1>2. Len(functions) = 0 /\ IsSeq(functions) /\ reads \in 0 .. MaxReads
    BY <1>1, MiConstants DEF IsSeq
  <1>3. MiTypeOK
    <2>1. at \in 1 .. Len(functions) + 1
      BY <1>1, <1>2
    <2> QED BY <1>1, <1>2, <2>1, Zenon DEF MiTypeOK
  <1>4. StackLeads
    <2>1. IsSeq(pending) /\ Main \in ToSet(pending)
      <3>1. pending \in Seq({Main}) /\ 1 \in DOMAIN pending /\ pending[1] = Main
        BY <1>1
      <3>2. Main \in ToSet(pending)
        BY <3>1, Zenon DEF ToSet
      <3> QED BY <3>1, <3>2, SeqOfElements DEF IsSeq, ToSet
    <2> QED BY <1>1, <1>2, <2>1 DEF StackLeads
  <1> QED
    BY <1>1, <1>3, <1>4 DEF MiInv, Unmarked, NoneUnblocked, MadeOutside, PassSettles, VerdictTrue

LEMMA MiInvNext == MiInv /\ [MiNext]_miVars => MiInv'
  <1> SUFFICES ASSUME MiInv, [MiNext]_miVars PROVE MiInv'
    OBVIOUS
  <1>1. CASE ReadFile
    BY <1>1, ReadLeads, ReadMarks DEF MiInv
  <1>2. CASE ReadFails
    BY <1>2, FailMarks
  <1>3. CASE AllRead
    BY <1>3, AllReadMarks
  <1>4. CASE CheckFunction
    BY <1>4, TurnMarks
  <1>5. CASE CheckRound
    BY <1>5, RoundMarks
  <1>6. CASE Compile
    BY <1>6, CompileMarks
  <1>7. CASE UNCHANGED miVars
    <2>1. UNCHANGED <<project, warn, step, pending, functions, reads, check>>
      BY <1>7 DEF miVars
    <2>2. MiTypeOK' /\ NoneUnblocked' /\ StackLeads'
      BY <2>1, MarksStay, StackStays DEF MiInv, MiTypeOK, StackLeads
    <2>3. /\ \A h : Settled(h)' <=> Settled(h)
          /\ Functions' = Functions /\ FunctionNames' = FunctionNames
      BY <2>1, FunctionsStay DEF check, Settled, HasArgs
    <2>4. UNCHANGED <<reachedTypes, reachedFunctions, at, changed>>
      BY <2>1 DEF check
    <2>5. Unmarked' /\ VerdictTrue'
      BY <2>1, <2>3, <2>4, Zenon DEF MiInv, Unmarked, VerdictTrue
    <2>6. PassSettles'
      BY <2>1, <2>4 DEF MiInv, PassSettles, Settled, HasArgs
    <2> QED BY <2>2, <2>5, <2>6 DEF MiInv
  <1> QED
    BY <1>1, <1>2, <1>3, <1>4, <1>5, <1>6, <1>7 DEF MiNext, MiStep, MiHalted

THEOREM MiInvariant == MiSpec => []MiInv
  BY MiInvInit, MiInvNext, PTL DEF MiSpec

\* What is marked can be had: in every state of every run, each marked function has all
\* its argument types among those reached, and each of these is made by a marked
\* function (mi2c.py:60-82).
THEOREM MiTypeCorrect == MiSpec => []MiTypeOK
  BY MiInvariant, PTL DEF MiInv

\* An empty stack holds no file of a trap, so the main file is in none.
LEMMA WrittenIsComplete == MiInv => OutputIsComplete
  <1> SUFFICES ASSUME MiInv, step = "written", NEW W \in Traps, Main \in W
               PROVE  FALSE
    BY Zenon DEF OutputIsComplete, Main
  <1>1. pending = <<>> /\ ToSet(pending) \cap W # {}
    BY DEF MiInv, StackLeads
  <1> QED
    BY <1>1 DEF ToSet

\* A table is only written when every file that is included, directly or not, has been
\* found and none includes itself, whatever the projects and the include path,
\* although no test for a cycle ever holds (mi2c.py:107-140).
THEOREM OutputComplete == MiSpec => []OutputIsComplete
  BY MiInvariant, WrittenIsComplete, PTL

\* A function in a set of functions that block each other is never marked: it would
\* need a type that is made outside of the set.
LEMMA BlockedIsUnmarked ==
    ASSUME MiInv, Consistent(Functions),
           NEW As \in {Declared(Functions), Compiled(Functions)},
           NEW S \in Blocking(Functions, As), NEW f \in S
    PROVE  f \in Functions /\ f.name \notin reachedFunctions
  <1>1. f \in Functions
    BY Zenon DEF Blocking
  <1>2. ASSUME f.name \in reachedFunctions PROVE FALSE
    <2>1. PICK g \in Functions : g.name = f.name /\ ArgTypes(g) \cup {g.ret} \subseteq reachedTypes
      BY <1>2, Zenon DEF MiInv, MiTypeOK
    <2>2. g = f
      BY <1>1, <2>1, Zenon DEF Consistent
    <2>3. PICK a \in ArgTypes(f) : \A h \in Functions \ S : As[h.ret] # As[a]
      BY Zenon DEF Blocking
    <2>4. a \in reachedTypes
      BY <2>1, <2>2, <2>3
    <2>5. \E h \in Functions \ S : As[h.ret] = As[a]
      <3>1. MadeOutside(Functions, reachedTypes, As)
        BY DEF MiInv, NoneUnblocked
      <3> QED BY <2>4, <3>1, Zenon DEF MadeOutside
    <2> QED BY <2>3, <2>5, Zenon
  <1> QED
    BY <1>1, <1>2

\* When nothing more can be marked, the functions that are left block each other.
LEMMA LeftOverBlocks ==
    ASSUME MiInv, Consistent(Functions), step = "unreachable"
    PROVE  {f \in Functions : f.name \notin reachedFunctions}
               \in Blocking(Functions, Declared(Functions))
  <1> DEFINE S == {f \in Functions : f.name \notin reachedFunctions}
             As == Declared(Functions)
  <1> SUFFICES ASSUME NEW f \in S
               PROVE  \E t \in ArgTypes(f) : \A g \in Functions \ S : As[g.ret] # As[t]
    BY Zenon DEF Blocking
  <1>1. ~HasArgs(f)
    BY Zenon DEF MiInv, VerdictTrue, Settled
  <1>2. PICK t \in ArgTypes(f) : t \notin reachedTypes
    BY <1>1, Zenon DEF HasArgs
  <1>3. ASSUME NEW g \in Functions \ S PROVE As[g.ret] # As[t]
    <2>1. g \in Functions /\ g.name \in reachedFunctions
      OBVIOUS
    <2>2. PICK h \in Functions : h.name = g.name /\ ArgTypes(h) \cup {h.ret} \subseteq reachedTypes
      BY <2>1, Zenon DEF MiInv, MiTypeOK
    <2>3. g.ret # t
      BY <1>2, <2>1, <2>2, Zenon DEF Consistent
    <2>4. g.ret \in Types(Functions) /\ t \in Types(Functions)
      BY <1>2, <2>1 DEF Types
    <2> QED BY <2>3, <2>4, Zenon DEF Declared
  <1> QED
    BY <1>2, <1>3, Zenon

LEMMA VerdictIsRight == MiInv => UnreachableFound
  <1> SUFFICES ASSUME MiInv, Consistent(Functions)
               PROVE  LET uncallable == Uncallable(Functions, Declared(Functions)) IN
                      /\ step = "unreachable" =>
                            uncallable # {} /\ FunctionNames \ reachedFunctions = uncallable
                      /\ step = "written" /\ warn =>
                            uncallable = {} /\ Uncallable(Functions, Compiled(Functions)) = {}
    BY Zenon DEF UnreachableFound
  <1>1. ASSUME NEW As \in {Declared(Functions), Compiled(Functions)}
        PROVE  Uncallable(Functions, As) \subseteq FunctionNames \ reachedFunctions
    BY BlockedIsUnmarked, Zenon DEF Uncallable, FunctionNames
  <1>2. ASSUME step = "unreachable"
        PROVE  /\ FunctionNames \ reachedFunctions \subseteq Uncallable(Functions, Declared(Functions))
               /\ FunctionNames \ reachedFunctions # {}
    <2>1. FunctionNames \ reachedFunctions \subseteq Uncallable(Functions, Declared(Functions))
      BY <1>2, LeftOverBlocks, ZenonT(60) DEF Uncallable, FunctionNames
    <2>2. reachedFunctions \subseteq FunctionNames /\ reachedFunctions # FunctionNames
      BY <1>2, Zenon DEF MiInv, MiTypeOK, VerdictTrue, FunctionNames
    <2> QED BY <2>1, <2>2, Zenon
  <1>3. step = "written" /\ warn => FunctionNames \ reachedFunctions = {}
    BY Zenon DEF MiInv, VerdictTrue
  <1>4. PICK U : U = Uncallable(Functions, Declared(Functions))
    OBVIOUS
  <1>5. PICK V : V = Uncallable(Functions, Compiled(Functions))
    OBVIOUS
  <1>6. U \subseteq FunctionNames \ reachedFunctions /\ V \subseteq FunctionNames \ reachedFunctions
    BY <1>1, <1>4, <1>5, Zenon
  <1> QED
    BY <1>2, <1>3, <1>4, <1>5, <1>6, Zenon

\* The check is sound and complete, for every set of projects in which no function is
\* declared with two types: it ends with an error exactly if there are
\* functions that block each other, and names all of them and no other; what it lets
\* through can be called in the table that is compiled as well, because dropping
\* qualifiers only ever makes types equal (mi2c.py:60-82, compiler.py:6-20).
THEOREM CheckIsExact == MiSpec => []UnreachableFound
  BY MiInvariant, VerdictIsRight, PTL

-----------------------------------------------------------------------------
(* The inputs of a project *)

\* A sequence has finitely many elements.
LEMMA ElementsAreFinite ==
    ASSUME NEW s, IsSeq(s)
    PROVE  IsFiniteSet(ToSet(s))
  <1>1. Len(s) \in Nat /\ DOMAIN s = 1 .. Len(s) /\ s = [k \in DOMAIN s |-> s[k]]
    BY DEF IsSeq
  <1>2. IsFiniteSet(DOMAIN s)
    BY <1>1, FS_Interval
  <1>3. IsFiniteSet({s[k] : k \in DOMAIN s})
    <2>1. s \in [DOMAIN s -> ToSet(s)]
      BY <1>1, Zenon DEF ToSet
    <2> QED BY <1>2, <2>1, ImageIsFinite, Zenon
  <1> QED
    BY <1>3, Zenon DEF ToSet

\* The %include lines of all files
Lines == UNION {ToSet(Of(project[file], "miinclude")) : file \in DOMAIN project}

\* A project names finitely many inputs.
LEMMA InputsAreFinite ==
    ASSUME project \in Projects
    PROVE  IsFiniteSet(Inputs)
  <1>1. IsFiniteSet(DOMAIN project) /\ \A file \in DOMAIN project : IsSeq(project[file])
    BY MiConstants, Zenon DEF IsSeq
  <1> DEFINE g == [file \in DOMAIN project |-> ToSet(Of(project[file], "miinclude"))]
  <1>2. \A file \in DOMAIN project : IsFiniteSet(g[file])
    <2>1. \A file \in DOMAIN project : IsFiniteSet(ToSet(Of(project[file], "miinclude")))
      BY <1>1, IncludesInOrder, ElementsAreFinite, Zenon
    <2> QED BY <2>1, Zenon
  <1>3. g \in [DOMAIN project -> {g[file] : file \in DOMAIN project}]
    BY Zenon
  <1>4. Lines = UNION {g[file] : file \in DOMAIN project}
    BY Zenon DEF Lines
  <1> HIDE DEF g
  <1>5. IsFiniteSet({g[file] : file \in DOMAIN project})
    <2>1. PICK R : g \in [DOMAIN project -> R]
      BY <1>3
    <2> QED BY <1>1, <2>1, ImageIsFinite, Zenon
  <1>6. IsFiniteSet(Lines)
    <2> PICK G : G = {g[file] : file \in DOMAIN project}
      OBVIOUS
    <2>1. \A x \in G : IsFiniteSet(x)
      BY <1>2, Zenon
    <2>2. IsFiniteSet(UNION G)
      BY <1>5, <2>1, FS_UNION, Zenon
    <2> QED BY <1>4, <2>2, Zenon
  <1> DEFINE h == [l \in Lines |-> Input(l.name, l.local)]
  <1>7. h \in [Lines -> {h[l] : l \in Lines}]
    BY Zenon
  <1>8. Inputs = {Main} \cup {h[l] : l \in Lines}
    BY Zenon DEF Inputs, Lines, Main
  <1> HIDE DEF h
  <1>9. IsFiniteSet({h[l] : l \in Lines})
    <2>1. PICK R : h \in [Lines -> R]
      BY <1>7
    <2> QED BY <1>6, <2>1, ImageIsFinite, Zenon
  <1>10. IsFiniteSet({h[l] : l \in Lines} \cup {Main})
    BY <1>9, FS_AddElement, Zenon
  <1>11. {h[l] : l \in Lines} \cup {Main} = Inputs
    BY <1>8, Zenon
  <1> QED
    BY <1>10, <1>11, Zenon

\* What an input includes are inputs.
LEMMA IncludesAreInputs ==
    ASSUME project \in Projects, NEW i, Found(i)
    PROVE  IncludesOf(i) \in Seq(Inputs)
  <1> PICK file \in DOMAIN project : TextOf(i) = project[file]
    BY TextIsFile
  <1> PICK m : m = Of(project[file], "miinclude")
    OBVIOUS
  <1>1. IsSeq(m) /\ IncludesOf(i) = [k \in DOMAIN m |-> Input(m[k].name, m[k].local)]
    <2> PICK text : text = project[file]
      OBVIOUS
    <2>1. IsSeq(text) /\ IncludesOf(i) = IncludesIn(text) /\ m = Of(text, "miinclude")
      BY TextIsSeq, Zenon DEF IncludesOf
    <2>2. /\ IsSeq(Of(text, "miinclude"))
          /\ IncludesIn(text) = [k \in DOMAIN Of(text, "miinclude") |->
                                    Input(Of(text, "miinclude")[k].name, Of(text, "miinclude")[k].local)]
      BY <2>1, IncludesInOrder, ZenonT(60)
    <2> QED BY <2>1, <2>2
  <1>2. \A k \in DOMAIN m : m[k] \in Lines
    <2>1. \A k \in DOMAIN m : m[k] \in ToSet(m)
      BY Zenon DEF ToSet
    <2>2. ToSet(m) \subseteq Lines
      BY Zenon DEF Lines
    <2> QED BY <2>1, <2>2, Zenon
  <1>3. \A k \in DOMAIN m : Input(m[k].name, m[k].local) \in Inputs
    BY <1>2, Zenon DEF Inputs, Lines
  <1>4. \A k \in DOMAIN IncludesOf(i) : IncludesOf(i)[k] \in Inputs
    BY <1>1, <1>3, Zenon
  <1> QED
    BY <1>4, IncludesAreSeq, SeqOfElements, Zenon DEF IsSeq

\* Inputs in no trap: they can be read, and so can all that they lead to.
Untrapped == {i \in Inputs : \A W \in Traps : i \notin W}

\* An input in no trap can be read, and what it includes is in no trap.
LEMMA UntrappedIsRead ==
    ASSUME project \in Projects, NEW i \in Untrapped
    PROVE  Readable(i) /\ IncludesOf(i) \in Seq(Untrapped)
  <1>1. i \in Inputs /\ \A W \in Traps : i \notin W
    BY DEF Untrapped
  <1>2. Readable(i)
    <2>1. SUFFICES ASSUME ~Readable(i) PROVE FALSE
      OBVIOUS
    <2>2. {i} \in Traps
      BY <1>1, <2>1, Zenon DEF Traps
    <2> QED BY <1>1, <2>2
  <1>3. IncludesOf(i) \in Seq(Inputs)
    BY <1>2, IncludesAreInputs, Zenon DEF Readable
  <1>4. ASSUME NEW k \in DOMAIN IncludesOf(i) PROVE IncludesOf(i)[k] \in Untrapped
    <2> PICK j : j = IncludesOf(i)[k]
      OBVIOUS
    <2>1. j \in Inputs
      BY <1>3
    <2>2. ASSUME NEW W \in Traps, j \in W PROVE FALSE
      <3>1. W \in SUBSET Inputs /\ \A x \in W : Readable(x) => Includes(x, W)
        BY DEF Traps
      <3> PICK V : V = W \cup {i}
        OBVIOUS
      <3>2. V \in SUBSET Inputs
        BY <1>1, <3>1
      <3>3. j \in ToSet(IncludesOf(i)) \cap V
        BY <2>2, Zenon DEF ToSet
      <3>4. ASSUME NEW x \in V, Readable(x) PROVE Includes(x, V)
        <4>1. CASE x = i
          BY <3>3, <4>1, Zenon DEF Includes
        <4>2. CASE x \in W
          BY <3>1, <3>4, <4>2, Zenon DEF Includes
        <4> QED BY <4>1, <4>2
      <3>5. V \in Traps
        BY <3>2, <3>4, Zenon DEF Traps
      <3> QED BY <1>1, <3>5
    <2> QED BY <2>1, <2>2, Zenon DEF Untrapped
  <1> QED
    BY <1>2, <1>3, <1>4, SeqOfElements, Zenon

-----------------------------------------------------------------------------
(* The expanded text *)

\* The declarations of the project
Declarations == UNION {ToSet(project[file]) : file \in DOMAIN project}

\* A text for each of S
TextOfEach(S, D) == [S -> Seq(D)]
Meanings == TextOfEach(Inputs, Declarations)

\* What a list of inputs stands for, if e says it of each
Texts(e, s) == [k \in DOMAIN s |-> e[s[k]]]

\* One round of the expansion: the includes are put in front of each text.
Unfold(e) ==
    [i \in Inputs |-> IF Readable(i) THEN FlattenSeq(Texts(e, IncludesOf(i))) \o TextOf(i)
                      ELSE <<>>]

\* The texts of a list of inputs
LEMMA TextsType ==
    ASSUME NEW S, NEW D, NEW e \in TextOfEach(S, D), NEW s \in Seq(S)
    PROVE  /\ Texts(e, s) \in Seq(Seq(D)) /\ Len(Texts(e, s)) = Len(s)
           /\ \A k \in 1 .. Len(s) : Texts(e, s)[k] = e[s[k]]
           /\ FlattenSeq(Texts(e, s)) \in Seq(D)
  <1> PICK t : t = Texts(e, s)
    OBVIOUS
  <1>1. Len(s) \in Nat /\ DOMAIN s = 1 .. Len(s) /\ \A k \in 1 .. Len(s) : s[k] \in S
    BY LenProperties
  <1>2. t = [k \in 1 .. Len(s) |-> e[s[k]]] /\ \A k \in 1 .. Len(s) : e[s[k]] \in Seq(D)
    BY <1>1 DEF Texts, TextOfEach
  <1>3. t \in [1 .. Len(s) -> Seq(D)] /\ \A k \in 1 .. Len(s) : t[k] = e[s[k]]
    BY <1>2, Zenon
  <1> PICK Q : Q = Seq(D)
    OBVIOUS
  <1>4. t \in Seq(Q) /\ Len(t) = Len(s)
    <2>1. t \in [1 .. Len(s) -> Q]
      BY <1>3
    <2> QED BY <2>1, <1>1, IntervalIsSeq, Zenon
  <1> QED
    BY <1>3, <1>4, FlattenType, Zenon

\* A text is made of the declarations of the project.
LEMMA TextHasType ==
    ASSUME project \in Projects, NEW i, Found(i)
    PROVE  TextOf(i) \in Seq(Declarations)
  <1> PICK file \in DOMAIN project : TextOf(i) = project[file]
    BY TextIsFile
  <1>1. ToSet(TextOf(i)) \subseteq Declarations
    BY Zenon DEF Declarations
  <1>2. IsSeq(TextOf(i))
    BY TextIsSeq
  <1> QED
    BY <1>1, <1>2, SeqOfElements DEF IsSeq, ToSet

\* A round of the expansion gives each input a text.
LEMMA UnfoldType ==
    ASSUME project \in Projects, NEW e \in Meanings
    PROVE  Unfold(e) \in Meanings
  <1>1. ASSUME NEW i \in Inputs, Readable(i)
        PROVE  FlattenSeq(Texts(e, IncludesOf(i))) \o TextOf(i) \in Seq(Declarations)
    <2>1. Found(i)
      BY <1>1 DEF Readable
    <2>2. IncludesOf(i) \in Seq(Inputs) /\ TextOf(i) \in Seq(Declarations)
      BY <2>1, IncludesAreInputs, TextHasType
    <2>3. FlattenSeq(Texts(e, IncludesOf(i))) \in Seq(Declarations)
      BY <2>2, TextsType, Zenon DEF Meanings
    <2> QED BY <2>2, <2>3, ConcatProperties, Zenon
  <1>2. <<>> \in Seq(Declarations)
    OBVIOUS
  <1>3. \A i \in Inputs : Unfold(e)[i] \in Seq(Declarations)
    BY <1>1, <1>2, Zenon DEF Unfold
  <1>4. Unfold(e) = [i \in Inputs |-> Unfold(e)[i]]
    BY Zenon DEF Unfold
  <1> QED
    BY <1>3, <1>4, Zenon DEF Meanings, TextOfEach

\* The rounds of the expansion
Nothing == [i \in Inputs |-> <<>>]

Expands(M, a) ==
    /\ a \in [0 .. M -> Meanings] /\ a[0] = Nothing
    /\ \A n \in 1 .. M : a[n] = Unfold(a[n - 1])

\* The rounds exist.
LEMMA ExpansionExists ==
    ASSUME project \in Projects, NEW M \in Nat
    PROVE  \E a : Expands(M, a)
  <1>1. PICK V : V = Meanings
    OBVIOUS
  <1>2. PICK v : v = Nothing
    OBVIOUS
  <1>3. PICK G : G = [e \in V |-> Unfold(e)]
    OBVIOUS
  <1>4. PICK F : F = [k \in 1 .. M |-> G]
    OBVIOUS
  <1>5. v \in V
    <2>1. <<>> \in Seq(Declarations)
      OBVIOUS
    <2> QED BY <1>1, <1>2, <2>1, Zenon DEF Nothing, Meanings, TextOfEach
  <1>6. \A e \in V : G[e] = Unfold(e) /\ Unfold(e) \in V
    <2>1. \A e \in V : Unfold(e) \in V
      BY <1>1, UnfoldType, Zenon
    <2> QED BY <1>3, <2>1, Zenon
  <1>7. \A k \in 1 .. M : F[k] = G
    BY <1>4, <1>6, Zenon
  <1>8. PICK a : Iteration(M, V, v, F, a)
    <2>1. \A k \in 1 .. M : \A x \in V : F[k][x] \in V
      BY <1>6, <1>7, Zenon
    <2> QED BY <1>5, <2>1, Iterates, Zenon
  <1>9. ASSUME NEW k \in 1 .. M PROVE a[k] = Unfold(a[k - 1])
    <2>1. k - 1 \in 0 .. M
      OBVIOUS
    <2>2. a[k - 1] \in V
      BY <1>8, <2>1, Zenon DEF Iteration
    <2> QED BY <1>6, <1>7, <1>8, <2>2, Zenon DEF Iteration
  <1> QED
    BY <1>1, <1>2, <1>8, <1>9, Zenon DEF Expands, Iteration

\* The round of Expanded that follows f[n - 1]
Given(f, n) ==
    [i \in Inputs |->
        IF n = 0 \/ ~Readable(i) THEN <<>>
        ELSE FlattenSeq([k \in DOMAIN IncludesOf(i) |-> f[n - 1][IncludesOf(i)[k]]]) \o TextOf(i)]

\* Expanded goes through these rounds.
LEMMA GivenIs ==
    ASSUME NEW f, NEW n
    PROVE  Given(f, n) = IF n = 0 THEN Nothing ELSE Unfold(f[n - 1])
  <1> DEFINE x(i) == FlattenSeq([k \in DOMAIN IncludesOf(i) |-> f[n - 1][IncludesOf(i)[k]]]) \o TextOf(i)
  <1>1. Given(f, n) = [i \in Inputs |-> IF n = 0 \/ ~Readable(i) THEN <<>> ELSE x(i)]
    BY Zenon DEF Given
  <1>2. Unfold(f[n - 1]) = [i \in Inputs |-> IF Readable(i) THEN x(i) ELSE <<>>]
    BY Zenon DEF Unfold, Texts
  <1> HIDE DEF x
  <1>3. CASE n = 0
    <2>1. \A i \in Inputs : Given(f, n)[i] = <<>>
      BY <1>1, <1>3, Zenon
    <2>2. Given(f, n) = [i \in Inputs |-> Given(f, n)[i]]
      BY <1>1, Zenon
    <2>3. Given(f, n) = Nothing
      BY <2>1, <2>2, Zenon DEF Nothing
    <2> QED BY <1>3, <2>3, Zenon
  <1>4. CASE n # 0
    <2>1. \A i \in Inputs : Given(f, n)[i] = Unfold(f[n - 1])[i]
      <3>1. \A i \in Inputs : Given(f, n)[i] = IF Readable(i) THEN x(i) ELSE <<>>
        BY <1>1, <1>4, Zenon
      <3> QED BY <1>2, <3>1, Zenon
    <2>2. Given(f, n) = [i \in Inputs |-> Given(f, n)[i]]
      BY <1>1, Zenon
    <2>3. Unfold(f[n - 1]) = [i \in Inputs |-> Unfold(f[n - 1])[i]]
      BY <1>2, Zenon
    <2>4. Given(f, n) = Unfold(f[n - 1])
      BY <2>1, <2>2, <2>3, Zenon
    <2> QED BY <1>4, <2>4, Zenon
  <1> QED
    BY <1>3, <1>4, Zenon

\* Its result is what the main file has become.
LEMMA ExpandedIs ==
    ASSUME NEW N, N = Cardinality(Inputs), N \in Nat, NEW M \in Nat, N <= M, NEW a, Expands(M, a)
    PROVE  Expanded = a[N][Main]
  <1> DEFINE upTo[n \in 0 .. N] ==
                 [i \in Inputs |->
                     IF n = 0 \/ ~Readable(i) THEN <<>>
                     ELSE FlattenSeq([k \in DOMAIN IncludesOf(i) |-> upTo[n - 1][IncludesOf(i)[k]]])
                              \o TextOf(i)]
  <1>1. Expanded = upTo[N][Main]
    BY Zenon DEF Expanded, Main
  <1> HIDE DEF upTo
  <1>2. PICK b : b = [n \in 0 .. N |-> a[n]]
    OBVIOUS
  <1>3. \A n \in 0 .. N : b[n] = Given(b, n)
    <2>1. ASSUME NEW n \in 0 .. N PROVE b[n] = IF n = 0 THEN Nothing ELSE Unfold(b[n - 1])
      <3>1. CASE n = 0
        BY <1>2, <3>1 DEF Expands
      <3>2. CASE n # 0
        <4>1. n \in 1 .. M /\ n - 1 \in 0 .. N
          BY <3>2
        <4>2. b[n] = a[n] /\ b[n - 1] = a[n - 1]
          BY <1>2, <4>1, Zenon
        <4> QED BY <3>2, <4>1, <4>2, Zenon DEF Expands
      <3> QED BY <3>1, <3>2
    <2> QED BY <2>1, GivenIs, Zenon
  <1>4. b = [n \in 0 .. N |-> Given(b, n)]
    BY <1>2, <1>3, Zenon
  <1>5. upTo = [n \in 0 .. N |-> Given(upTo, n)]
    <2>1. b = [n \in 0 .. N |->
                 [i \in Inputs |->
                     IF n = 0 \/ ~Readable(i) THEN <<>>
                     ELSE FlattenSeq([k \in DOMAIN IncludesOf(i) |-> b[n - 1][IncludesOf(i)[k]]])
                              \o TextOf(i)]]
      BY <1>4, Zenon DEF Given
    <2>2. upTo = [n \in 0 .. N |->
                 [i \in Inputs |->
                     IF n = 0 \/ ~Readable(i) THEN <<>>
                     ELSE FlattenSeq([k \in DOMAIN IncludesOf(i) |-> upTo[n - 1][IncludesOf(i)[k]]])
                              \o TextOf(i)]]
      BY <2>1, ZenonT(60) DEF upTo
    <2> QED BY <2>2, Zenon DEF Given
  <1> DEFINE Q == {n \in 0 .. N : upTo[n] = b[n]}
  <1>6. \A n \in 0 .. N : upTo[n] = IF n = 0 THEN Nothing ELSE Unfold(upTo[n - 1])
    <2>1. \A n \in 0 .. N : upTo[n] = Given(upTo, n)
      BY <1>5, Zenon
    <2> QED BY <2>1, GivenIs, Zenon
  <1>7. \A n \in 0 .. N : b[n] = IF n = 0 THEN Nothing ELSE Unfold(b[n - 1])
    BY <1>3, GivenIs, Zenon
  <1>8. 0 \in Q
    BY <1>6, <1>7
  <1>9. ASSUME NEW n \in 0 .. N - 1, n \in Q PROVE n + 1 \in Q
    <2>1. n + 1 \in 0 .. N /\ n + 1 # 0 /\ (n + 1) - 1 = n
      OBVIOUS
    <2>2. upTo[n] = b[n]
      BY <1>9, Zenon
    <2>3. upTo[n + 1] = Unfold(upTo[(n + 1) - 1]) /\ b[n + 1] = Unfold(b[(n + 1) - 1])
      BY <1>6, <1>7, <2>1, Zenon
    <2>4. upTo[(n + 1) - 1] = b[(n + 1) - 1]
      BY <2>1, <2>2, Zenon
    <2> QED BY <2>1, <2>3, <2>4, Zenon
  <1>10. upTo[N] = b[N]
    <2> HIDE DEF Q
    <2>1. 0 .. N \subseteq Q
      BY <1>8, <1>9, UpTo, Zenon
    <2>2. N \in 0 .. N
      OBVIOUS
    <2>3. N \in Q
      BY <2>1, <2>2, Zenon
    <2> QED BY <2>3, Zenon DEF Q
  <1>11. b[N] = a[N]
    BY <1>2
  <1> QED
    BY <1>1, <1>10, <1>11, Zenon

\* A meaning of the inputs that one more round does not change, where it matters
Solves(e) == e \in Meanings /\ \A i \in Untrapped : e[i] = Unfold(e)[i]

\* What has its meaning after n rounds, and keeps it
Stable(a, M, n) == {i \in Inputs : \A m \in n .. M : a[m][i] = a[n][i]}

\* Unfolding reads the meaning of the includes only.
LEMMA UnfoldReads ==
    ASSUME project \in Projects, NEW i \in Inputs, Readable(i), NEW d, NEW e,
           \A j \in ToSet(IncludesOf(i)) : d[j] = e[j]
    PROVE  Unfold(d)[i] = Unfold(e)[i]
  <1>1. \A k \in DOMAIN IncludesOf(i) : d[IncludesOf(i)[k]] = e[IncludesOf(i)[k]]
    BY Zenon DEF ToSet
  <1>2. Texts(d, IncludesOf(i)) = Texts(e, IncludesOf(i))
    BY <1>1, Zenon DEF Texts
  <1> QED
    BY <1>2, Zenon DEF Unfold

\* A round keeps what is stable, and makes one more input stable, unless all are that
\* matter: what is left over is not a trap, so that one of its members includes none.
LEMMA RoundStabilizes ==
    ASSUME project \in Projects, NEW M \in Nat, NEW a, Expands(M, a), NEW n \in 0 .. M - 1
    PROVE  /\ Untrapped \subseteq Stable(a, M, n) => Untrapped \subseteq Stable(a, M, n + 1)
           /\ Stable(a, M, n) \subseteq Stable(a, M, n + 1)
           /\ ~(Untrapped \subseteq Stable(a, M, n)) =>
                 \E i \in Inputs \ Stable(a, M, n) : i \in Stable(a, M, n + 1)
  <1>1. /\ \A m \in 1 .. M : a[m] = Unfold(a[m - 1])
        /\ n + 1 \in n .. M /\ n + 1 \in 1 .. M /\ (n + 1) - 1 = n
        /\ \A m \in n + 1 .. M : m \in n .. M /\ m - 1 \in n .. M /\ m \in 1 .. M
    BY DEF Expands
  <1>2. Stable(a, M, n) \subseteq Stable(a, M, n + 1)
    <2>1. ASSUME NEW i \in Inputs, \A m \in n .. M : a[m][i] = a[n][i]
          PROVE  \A m \in n + 1 .. M : a[m][i] = a[n + 1][i]
      <3>1. a[n + 1][i] = a[n][i]
        BY <1>1, <2>1, Zenon
      <3> QED BY <1>1, <2>1, <3>1, Zenon
    <2> QED BY <2>1, Zenon DEF Stable
  <1>3. ASSUME NEW u \in Untrapped, u \notin Stable(a, M, n)
        PROVE  \E i \in Inputs \ Stable(a, M, n) : i \in Stable(a, M, n + 1)
    <2> PICK W : W = Inputs \ Stable(a, M, n)
      OBVIOUS
    <2>1. u \in W /\ W \notin Traps
      BY <1>3, Zenon DEF Untrapped
    <2>2. W \in SUBSET Inputs
      OBVIOUS
    <2>3. PICK i \in W : Readable(i) /\ ~Includes(i, W)
      BY <2>1, <2>2, Zenon DEF Traps
    <2>4. i \in Inputs /\ Found(i)
      BY <2>3 DEF Readable
    <2>5. \A j \in ToSet(IncludesOf(i)) : j \in Inputs /\ j \notin W
      <3>1. IncludesOf(i) \in Seq(Inputs)
        BY <2>4, IncludesAreInputs
      <3>2. \A k \in DOMAIN IncludesOf(i) : IncludesOf(i)[k] \in Inputs
        BY <3>1
      <3> QED BY <3>2, <2>3, Zenon DEF Includes, ToSet
    <2>6. \A j \in ToSet(IncludesOf(i)) : j \in Stable(a, M, n)
      BY <2>5, Zenon
    <2>7. ASSUME NEW m \in n + 1 .. M PROVE a[m][i] = a[n + 1][i]
      <3>1. \A j \in ToSet(IncludesOf(i)) : a[m - 1][j] = a[n][j]
        BY <1>1, <2>6, Zenon DEF Stable
      <3>2. Unfold(a[m - 1])[i] = Unfold(a[n])[i]
        BY <2>3, <2>4, <3>1, UnfoldReads, Zenon
      <3>3. a[n + 1] = Unfold(a[(n + 1) - 1])
        BY <1>1, Zenon
      <3>4. a[n + 1] = Unfold(a[n])
        BY <1>1, <3>3, Zenon
      <3> QED BY <1>1, <3>2, <3>4, Zenon
    <2>8. i \in Stable(a, M, n + 1)
      BY <2>4, <2>7, Zenon DEF Stable
    <2> QED BY <2>8, Zenon
  <1> QED
    BY <1>2, <1>3, Zenon

\* As many rounds as there are inputs are enough.
LEMMA ExpandedSolves ==
    ASSUME project \in Projects
    PROVE  \E e : Solves(e) /\ Expanded = e[Main]
  <1> PICK N : N = Cardinality(Inputs)
    OBVIOUS
  <1>1. IsFiniteSet(Inputs) /\ N \in Nat
    BY InputsAreFinite, FS_CardinalityType
  <1> PICK M : M = N + 1
    OBVIOUS
  <1>2. M \in Nat /\ N <= M /\ N \in 0 .. M /\ M \in N .. M /\ M \in 1 .. M /\ M - 1 = N
    BY <1>1
  <1>3. PICK a : Expands(M, a)
    BY <1>2, ExpansionExists
  <1> DEFINE P(n) == Untrapped \subseteq Stable(a, M, n) \/ n <= Cardinality(Stable(a, M, n))
             Q == {n \in 0 .. N : P(n)}
  <1>4. \A n : /\ Stable(a, M, n) \in SUBSET Inputs /\ IsFiniteSet(Stable(a, M, n))
               /\ Cardinality(Stable(a, M, n)) \in Nat
    <2>1. ASSUME NEW n PROVE /\ Stable(a, M, n) \in SUBSET Inputs /\ IsFiniteSet(Stable(a, M, n))
                             /\ Cardinality(Stable(a, M, n)) \in Nat
      <3>1. Stable(a, M, n) \in SUBSET Inputs
        BY Zenon DEF Stable
      <3> QED BY <1>1, <3>1, FS_Subset, FS_CardinalityType
    <2> QED BY <2>1
  <1>5. 0 \in Q
    <2>1. 0 <= Cardinality(Stable(a, M, 0)) /\ 0 \in 0 .. N
      BY <1>1, <1>4
    <2> QED BY <2>1, Zenon
  <1>6. ASSUME NEW n \in 0 .. N - 1, n \in Q PROVE n + 1 \in Q
    <2> PICK X : X = Stable(a, M, n)
      OBVIOUS
    <2> PICK Y : Y = Stable(a, M, n + 1)
      OBVIOUS
    <2>1. n \in 0 .. M - 1 /\ n + 1 \in 0 .. N
      BY <1>1, <1>2
    <2>2. /\ Untrapped \subseteq X => Untrapped \subseteq Y
          /\ X \subseteq Y
          /\ ~(Untrapped \subseteq X) => \E i \in Inputs \ X : i \in Y
      BY <1>2, <1>3, <2>1, RoundStabilizes, Zenon
    <2>3. Untrapped \subseteq X \/ n <= Cardinality(X)
      BY <1>6, Zenon
    <2>4. Untrapped \subseteq Y \/ n + 1 <= Cardinality(Y)
      <3>1. CASE Untrapped \subseteq X
        BY <2>2, <3>1
      <3>2. CASE ~(Untrapped \subseteq X)
        <4>1. PICK i : i \notin X /\ i \in Y
          BY <2>2, <3>2, Zenon
        <4>2. /\ IsFiniteSet(X) /\ IsFiniteSet(Y) /\ Cardinality(X) \in Nat /\ Cardinality(Y) \in Nat
          BY <1>4, Zenon
        <4>3. X \cup {i} \in SUBSET Y
          BY <2>2, <4>1
        <4>4. Cardinality(X \cup {i}) = Cardinality(X) + 1
          BY <4>1, <4>2, FS_AddElement, Zenon
        <4>5. Cardinality(X \cup {i}) <= Cardinality(Y)
          BY <4>2, <4>3, FS_Subset, Zenon
        <4>6. n <= Cardinality(X)
          BY <2>3, <3>2, Zenon
        <4>7. n + 1 <= Cardinality(Y)
          BY <4>2, <4>4, <4>5, <4>6
        <4> QED BY <4>7
      <3> QED BY <3>1, <3>2
    <2> QED BY <2>1, <2>4, Zenon
  <1>7. Untrapped \subseteq Stable(a, M, N)
    <2> HIDE DEF Q
    <2>1. 0 .. N \subseteq Q
      BY <1>1, <1>5, <1>6, UpTo, Zenon
    <2>2. N \in 0 .. N
      BY <1>1
    <2>3. N \in Q
      BY <2>1, <2>2, Zenon
    <2>4. Untrapped \subseteq Stable(a, M, N) \/ N <= Cardinality(Stable(a, M, N))
      BY <2>3, Zenon DEF Q
    <2>5. CASE N <= Cardinality(Stable(a, M, N))
      <3> PICK X : X = Stable(a, M, N)
        OBVIOUS
      <3>1. X \in SUBSET Inputs /\ Cardinality(X) \in Nat /\ N <= Cardinality(X)
        BY <1>4, <2>5, Zenon
      <3>2. Cardinality(X) <= Cardinality(Inputs) /\ (Cardinality(Inputs) = Cardinality(X) => Inputs = X)
        BY <1>1, <3>1, FS_Subset, Zenon
      <3>3. Cardinality(Inputs) = Cardinality(X)
        BY <1>1, <3>1, <3>2
      <3>4. Inputs = X
        BY <3>2, <3>3, Zenon
      <3> QED BY <3>4, Zenon DEF Untrapped
    <2> QED BY <2>4, <2>5
  <1>8. a[N] \in Meanings
    BY <1>2, <1>3, Zenon DEF Expands
  <1>9. ASSUME NEW i \in Untrapped PROVE a[N][i] = Unfold(a[N])[i]
    <2>1. i \in Stable(a, M, N)
      BY <1>7, Zenon
    <2>2. a[M][i] = a[N][i]
      BY <1>2, <2>1, Zenon DEF Stable
    <2>3. a[M] = Unfold(a[M - 1])
      BY <1>2, <1>3, Zenon DEF Expands
    <2>4. a[M] = Unfold(a[N])
      BY <1>2, <2>3, Zenon
    <2> QED BY <2>2, <2>4, Zenon
  <1>10. Expanded = a[N][Main]
    BY <1>1, <1>2, <1>3, ExpandedIs, Zenon
  <1> QED
    BY <1>8, <1>9, <1>10, Zenon DEF Solves

-----------------------------------------------------------------------------
(* What is read, and in which order *)

\* The text that a list of inputs stands for
Whole(e, s) == FlattenSeq(Texts(e, s))

\* Inputs after other inputs
LEMMA WholeConcat ==
    ASSUME NEW S, NEW D, NEW e \in TextOfEach(S, D), NEW s \in Seq(S), NEW t \in Seq(S)
    PROVE  /\ Whole(e, s) \in Seq(D) /\ Whole(e, t) \in Seq(D)
           /\ Whole(e, s \o t) = Whole(e, s) \o Whole(e, t)
  <1>0. \A w \in Seq(S) : /\ Texts(e, w) \in Seq(Seq(D)) /\ Len(Texts(e, w)) = Len(w)
                          /\ \A k \in 1 .. Len(w) : Texts(e, w)[k] = e[w[k]]
    <2>1. ASSUME NEW w \in Seq(S)
          PROVE  /\ Texts(e, w) \in Seq(Seq(D)) /\ Len(Texts(e, w)) = Len(w)
                 /\ \A k \in 1 .. Len(w) : Texts(e, w)[k] = e[w[k]]
      <3>1. PICK x : x = Texts(e, w)
        OBVIOUS
      <3>2. x \in Seq(Seq(D))
        BY <3>1, TextsType, Zenon
      <3>3. Len(w) \in Nat /\ DOMAIN w = 1 .. Len(w)
        OBVIOUS
      <3>4. DOMAIN x = 1 .. Len(w) /\ \A k \in 1 .. Len(w) : x[k] = e[w[k]]
        BY <3>1, <3>3, Zenon DEF Texts
      <3>5. Len(x) = Len(w)
        BY <3>2, <3>3, <3>4
      <3> QED BY <3>1, <3>2, <3>4, <3>5, Zenon
    <2> QED BY <2>1, Zenon
  <1>1. PICK x : x = Texts(e, s)
    OBVIOUS
  <1>2. PICK y : y = Texts(e, t)
    OBVIOUS
  <1>3. PICK u : u = s \o t
    OBVIOUS
  <1>4. PICK z : z = Texts(e, u)
    OBVIOUS
  <1>5. PICK Q : Q = Seq(D)
    OBVIOUS
  <1>6. /\ u \in Seq(S) /\ Len(u) = Len(s) + Len(t) /\ Len(s) \in Nat /\ Len(t) \in Nat
        /\ \A k \in 1 .. Len(s) : u[k] = s[k]
        /\ \A k \in 1 .. Len(t) : u[Len(s) + k] = t[k]
    BY <1>3
  <1>7. /\ x \in Seq(Q) /\ Len(x) = Len(s) /\ \A k \in 1 .. Len(s) : x[k] = e[s[k]]
        /\ y \in Seq(Q) /\ Len(y) = Len(t) /\ \A k \in 1 .. Len(t) : y[k] = e[t[k]]
        /\ z \in Seq(Q) /\ Len(z) = Len(u) /\ \A k \in 1 .. Len(u) : z[k] = e[u[k]]
    <2> QED BY <1>0, <1>1, <1>2, <1>4, <1>5, <1>6, Zenon
  <1>8. z = x \o y
    <2>1. PICK c : c = x \o y
      OBVIOUS
    <2>2. /\ c \in Seq(Q) /\ Len(c) = Len(s) + Len(t)
          /\ \A k \in 1 .. Len(s) : c[k] = x[k]
          /\ \A k \in 1 .. Len(t) : c[Len(s) + k] = y[k]
      <3>1. x \in Seq(Q) /\ y \in Seq(Q)
        BY <1>7
      <3>2. /\ c \in Seq(Q) /\ Len(c) = Len(x) + Len(y)
            /\ \A k \in 1 .. Len(x) : c[k] = x[k]
            /\ \A k \in 1 .. Len(y) : c[Len(x) + k] = y[k]
        BY ONLY <2>1, <3>1
      <3>3. Len(x) = Len(s) /\ Len(y) = Len(t)
        BY <1>7
      <3> QED BY ONLY <3>2, <3>3
    <2>3. ASSUME NEW k \in 1 .. Len(z) PROVE z[k] = c[k]
      <3>0. k \in 1 .. Len(u)
        BY <1>7
      <3>1. CASE k <= Len(s)
        <4>1. k \in 1 .. Len(s)
          BY <3>1, <1>6
        <4>3. e[u[k]] = e[s[k]]
          BY <4>1, <1>6, Zenon
        <4> QED BY <4>1, <4>3, <3>0, <1>7, <2>2, Zenon
      <3>2. CASE ~(k <= Len(s))
        <4>1. PICK j : j = k - Len(s)
          OBVIOUS
        <4>2. j \in 1 .. Len(t) /\ k = Len(s) + j
          BY <4>1, <3>0, <3>2, <1>6
        <4>3. e[u[k]] = e[t[j]]
          BY <4>2, <1>6, Zenon
        <4> QED BY <4>2, <4>3, <3>0, <1>7, <2>2, Zenon
      <3> QED BY <3>1, <3>2
    <2>4. Len(z) = Len(c)
      BY <1>6, <1>7, <2>2, Zenon
    <2>5. z = c
      BY <1>7, <2>2, <2>3, <2>4, SeqEqual
    <2> QED BY <2>1, <2>5, Zenon
  <1>9. /\ FlattenSeq(x \o y) = FlattenSeq(x) \o FlattenSeq(y)
        /\ FlattenSeq(x) \in Seq(D) /\ FlattenSeq(y) \in Seq(D)
    BY <1>5, <1>7, FlattenConcat, FlattenType, Zenon
  <1>10. FlattenSeq(z) = FlattenSeq(x) \o FlattenSeq(y)
    BY <1>8, <1>9, Zenon
  <1> QED
    BY <1>1, <1>2, <1>3, <1>4, <1>9, <1>10, Zenon DEF Whole

\* One input
LEMMA WholeOne ==
    ASSUME NEW S, NEW D, NEW e \in TextOfEach(S, D), NEW i \in S
    PROVE  Whole(e, <<i>>) = e[i]
  <1>1. PICK x : x = e[i]
    OBVIOUS
  <1>2. x \in Seq(D)
    BY <1>1 DEF TextOfEach
  <1>3. Texts(e, <<i>>) = <<x>>
    BY <1>1 DEF Texts
  <1> QED
    BY <1>1, <1>2, <1>3, FlattenOne, Zenon DEF Whole

\* No input
LEMMA WholeNone ==
    ASSUME NEW e
    PROVE  Whole(e, <<>>) = <<>>
  <1>1. Texts(e, <<>>) = <<>>
    BY DEF Texts
  <1> QED
    BY <1>1, FlattenNone, Zenon DEF Whole

\* Solutions depend on the project only.
LEMMA SolutionsStay ==
    ASSUME project' = project
    PROVE  /\ Untrapped' = Untrapped /\ Declarations' = Declarations
           /\ \A e : Solves(e)' <=> Solves(e)
  <1>1. Untrapped' = Untrapped /\ Declarations' = Declarations /\ Meanings' = Meanings
    <2>1. Untrapped' = Untrapped
      BY ProjectStays, TrapsStay, Zenon DEF Untrapped
    <2>2. Declarations' = Declarations
      BY Zenon DEF Declarations
    <2>3. Meanings' = Meanings
      BY <2>2, ProjectStays, Zenon DEF Meanings, TextOfEach
    <2> QED BY <2>1, <2>2, <2>3
  <1>2. ASSUME NEW e PROVE Unfold(e)' = Unfold(e)
    <2>1. ASSUME NEW i PROVE /\ Texts(e, IncludesOf(i))' = Texts(e, IncludesOf(i))
      <3>1. PICK inc : inc = IncludesOf(i)
        OBVIOUS
      <3>2. inc = IncludesOf(i)'
        BY ProjectStays, <3>1, Zenon
      <3> QED BY <3>1, <3>2, Zenon DEF Texts
    <2>2. ASSUME NEW i PROVE (IF Readable(i) THEN FlattenSeq(Texts(e, IncludesOf(i))) \o TextOf(i) ELSE <<>>)'
                              = IF Readable(i) THEN FlattenSeq(Texts(e, IncludesOf(i))) \o TextOf(i) ELSE <<>>
      <3>1. PICK w : w = FlattenSeq(Texts(e, IncludesOf(i))) \o TextOf(i)
        OBVIOUS
      <3>2. w = (FlattenSeq(Texts(e, IncludesOf(i))) \o TextOf(i))'
        BY <2>1, ProjectStays, <3>1, Zenon
      <3> QED BY <3>1, <3>2, ProjectStays, Zenon
    <2> QED BY <2>2, ProjectStays, Zenon DEF Unfold
  <1>3. ASSUME NEW e PROVE Solves(e)' <=> Solves(e)
    BY <1>1, <1>2, Zenon DEF Solves
  <1> QED
    BY <1>1, <1>3, Zenon

\* The declarations of a kind in the expanded main file are those of the files still
\* to read, then, the last one read first, those of the files read.
Tells(e, kind, todo, read) ==
    Of(e[Main], kind) = Of(Whole(e, todo), kind) \o Reverse(Of(read, kind))

TextKept ==
    /\ functions \in Seq(Declarations)
    /\ Main \in Untrapped =>
          /\ pending \in Seq(Untrapped)
          /\ \A e : Solves(e) => /\ Tells(e, "include", pending, functions)
                                 /\ Tells(e, "function", pending, functions)

\* Reading a file: its includes take its place, and its text is added to what is read.
LEMMA ReadTells ==
    ASSUME project \in Projects, NEW e, Solves(e), NEW p \in Seq(Untrapped), p # <<>>,
           NEW f \in Seq(Declarations), NEW kind, kind # "comment", Tells(e, kind, p, f)
    PROVE  Tells(e, kind, Front(p) \o IncludesOf(Last(p)), f \o Parsed(TextOf(Last(p))))
  <1>1. PICK D : D = Declarations
    OBVIOUS
  <1>2. PICK I : I = Inputs
    OBVIOUS
  <1>3. PICK i : i = Last(p)
    OBVIOUS
  <1>4. PICK b : b = Front(p)
    OBVIOUS
  <1>5. PICK m : m = IncludesOf(i)
    OBVIOUS
  <1>6. PICK x : x = TextOf(i)
    OBVIOUS
  <1>7. PICK y : y = Parsed(x)
    OBVIOUS
  <1>8. i \in Untrapped /\ b \in Seq(Untrapped) /\ p = b \o <<i>>
    <2> QED BY <1>3, <1>4, FrontAndLast, Zenon
  <1>9. Untrapped \subseteq I
    BY <1>2 DEF Untrapped
  <1>10. b \in Seq(I) /\ i \in I /\ m \in Seq(I) /\ Readable(i)
    <2>1. m \in Seq(Untrapped) /\ Readable(i)
      BY <1>5, <1>8, UntrappedIsRead
    <2>2. b \in Seq(I) /\ m \in Seq(I)
      BY <1>8, <1>9, <2>1, SeqMonotonic
    <2> QED BY <1>8, <1>9, <2>1, <2>2
  <1>11. e \in TextOfEach(I, D)
    BY <1>1, <1>2, Zenon DEF Solves, Meanings
  <1>12. x \in Seq(D) /\ f \in Seq(D)
    BY <1>1, <1>6, <1>10, TextHasType, Zenon DEF Readable
  <1>13. e[i] = Whole(e, m) \o x
    <2>1. e[i] = Unfold(e)[i]
      BY <1>8, Zenon DEF Solves
    <2>2. Unfold(e)[i] = FlattenSeq(Texts(e, IncludesOf(i))) \o TextOf(i)
      BY <1>2, <1>10, Zenon DEF Unfold
    <2> QED BY <1>5, <1>6, <2>1, <2>2, Zenon DEF Whole
  <1>14. PICK w : w = Whole(e, b)
    OBVIOUS
  <1>15. PICK v : v = Whole(e, m)
    OBVIOUS
  <1>16. w \in Seq(D) /\ v \in Seq(D) /\ Whole(e, b \o m) = w \o v
    <2>1. /\ Whole(e, b) \in Seq(D) /\ Whole(e, m) \in Seq(D)
          /\ Whole(e, b \o m) = Whole(e, b) \o Whole(e, m)
      BY ONLY <1>10, <1>11, WholeConcat
    <2> QED BY <1>14, <1>15, <2>1, Zenon
  <1>17. Whole(e, p) = w \o (v \o x)
    <2>1. <<i>> \in Seq(I)
      BY <1>10
    <2>2. Whole(e, b \o <<i>>) = Whole(e, b) \o Whole(e, <<i>>)
      <3>1. PICK s : s = <<i>>
        OBVIOUS
      <3>2. Whole(e, b \o s) = Whole(e, b) \o Whole(e, s)
        <4>1. s \in Seq(I)
          BY <2>1, <3>1, Zenon
        <4> QED BY ONLY <1>10, <1>11, <4>1, WholeConcat
      <3> QED BY <3>1, <3>2, Zenon
    <2>3. Whole(e, <<i>>) = e[i]
      BY <1>10, <1>11, WholeOne
    <2> QED BY <1>8, <1>13, <1>14, <1>15, <2>2, <2>3, Zenon
  <1>18. \A s, t \in Seq(D) : Of(s \o t, kind) = Of(s, kind) \o Of(t, kind)
    BY OfConcat
  <1>19. \A s \in Seq(D) : Of(s, kind) \in Seq(D)
    BY OfType
  <1>20. v \o x \in Seq(D)
    BY <1>12, <1>16, ConcatProperties
  <1>21. Of(Whole(e, p), kind) = Of(w, kind) \o (Of(v, kind) \o Of(x, kind))
    BY <1>12, <1>16, <1>17, <1>18, <1>20, Zenon
  <1>22. Of(Whole(e, b \o m), kind) = Of(w, kind) \o Of(v, kind)
    BY <1>16, <1>18, Zenon
  <1>23. y \in Seq(D) /\ Of(y, kind) = Reverse(Of(x, kind))
    BY <1>7, <1>12, OfParsed, Zenon
  <1>24. Reverse(Of(f \o y, kind)) = Of(x, kind) \o Reverse(Of(f, kind))
    <2>1. Of(f \o y, kind) = Of(f, kind) \o Of(y, kind)
      BY <1>12, <1>18, <1>23, Zenon
    <2>2. PICK g : g = Of(f, kind)
      OBVIOUS
    <2>3. PICK h : h = Of(x, kind)
      OBVIOUS
    <2>4. PICK r : r = Reverse(h)
      OBVIOUS
    <2>5. g \in Seq(D) /\ h \in Seq(D)
      BY <1>12, <1>19, <2>2, <2>3, Zenon
    <2>6. r \in Seq(D) /\ Reverse(r) = h
      BY <2>4, <2>5, ReverseElements, ReverseTwice, Zenon
    <2>7. Reverse(g \o r) = Reverse(r) \o Reverse(g)
      BY <2>5, <2>6, ReverseConcat, Zenon
    <2> QED BY <1>23, <2>1, <2>2, <2>3, <2>4, <2>6, <2>7, Zenon
  <1>25. PICK A : A = Of(w, kind)
    OBVIOUS
  <1>26. PICK B : B = Of(v, kind)
    OBVIOUS
  <1>27. PICK C : C = Of(x, kind)
    OBVIOUS
  <1>28. PICK R : R = Reverse(Of(f, kind))
    OBVIOUS
  <1>29. A \in Seq(D) /\ B \in Seq(D) /\ C \in Seq(D)
    BY <1>12, <1>16, <1>19, <1>25, <1>26, <1>27, Zenon
  <1>30. R \in Seq(D)
    <2>1. Of(f, kind) \in Seq(D)
      BY <1>12, <1>19, Zenon
    <2> QED BY <1>28, <2>1, ReverseElements, Zenon
  <1>31. (A \o (B \o C)) \o R = (A \o B) \o (C \o R)
    <2>1. (A \o B) \o C = A \o (B \o C)
      BY ONLY <1>29, ConcatAssociative, SMTT(60)
    <2>2. PICK X : X = A \o B
      OBVIOUS
    <2>3. X \in Seq(D)
      BY <1>29, <2>2, ConcatProperties
    <2>4. (X \o C) \o R = X \o (C \o R)
      <3>1. C \in Seq(D)
        BY <1>29
      <3> QED BY ONLY <1>30, <2>3, <3>1, ConcatAssociative, SMTT(60)
    <2> QED BY <2>1, <2>2, <2>4, Zenon
  <1>32. Of(e[Main], kind) = (A \o (B \o C)) \o R
    BY <1>21, <1>25, <1>26, <1>27, <1>28, Zenon DEF Tells
  <1>33. Of(Whole(e, b \o m), kind) \o Reverse(Of(f \o y, kind)) = (A \o B) \o (C \o R)
    BY <1>22, <1>24, <1>25, <1>26, <1>27, <1>28, Zenon
  <1>34. Tells(e, kind, b \o m, f \o y)
    BY <1>31, <1>32, <1>33, Zenon DEF Tells
  <1> QED
    BY <1>3, <1>4, <1>5, <1>6, <1>7, <1>34, Zenon

\* What is written is made from what was read.
Written ==
    step = "written" =>
        LET fs == Of(functions, "function") IN
        /\ headers = Reverse(Of(functions, "include"))
        /\ table = [k \in DOMAIN fs |-> Row(fs[k])]

TextInv == MiInv /\ TextKept /\ Written

\* At first, the main file is all there is to read.
LEMMA TextInit == MiInit => TextKept /\ Written
  <1> SUFFICES ASSUME MiInit PROVE TextKept /\ Written
    OBVIOUS
  <1>1. pending = <<Main>> /\ functions = <<>> /\ step = "read"
    BY Zenon DEF MiInit, Main
  <1>2. functions \in Seq(Declarations)
    BY <1>1
  <1>3. ASSUME Main \in Untrapped PROVE pending \in Seq(Untrapped)
    BY <1>1, <1>3
  <1>4. ASSUME Main \in Untrapped, NEW e, Solves(e), NEW kind
        PROVE  Tells(e, kind, <<Main>>, <<>>)
    <2>1. e \in TextOfEach(Inputs, Declarations) /\ Main \in Inputs
      BY <1>4, Zenon DEF Solves, Meanings, Untrapped
    <2>2. Whole(e, <<Main>>) = e[Main]
      BY <2>1, WholeOne, Zenon
    <2>3. e[Main] \in Seq(Declarations)
      BY <2>1, Zenon DEF TextOfEach
    <2>4. PICK x : x = Of(e[Main], kind)
      OBVIOUS
    <2>5. x \in Seq(Declarations)
      BY <2>3, <2>4, OfType, Zenon
    <2>6. Reverse(Of(<<>>, kind)) = <<>>
      <3>1. Of(<<>>, kind) = <<>>
        BY OfNone, Zenon
      <3>2. Reverse(<<>>) = <<>>
        BY DEF Reverse
      <3> QED BY <3>1, <3>2, Zenon
    <2>7. x = x \o <<>>
      BY <2>5, ConcatEmptySeq
    <2> QED BY <2>2, <2>4, <2>6, <2>7, Zenon DEF Tells
  <1>5. TextKept
    BY <1>1, <1>2, <1>3, <1>4, Zenon DEF TextKept
  <1>6. Written
    BY <1>1 DEF Written
  <1> QED
    BY <1>5, <1>6

\* Reading a file keeps the order.
LEMMA ReadKeeps ==
    ASSUME TextInv, ReadFile
    PROVE  TextKept'
  <1>1. /\ step = "read" /\ pending # <<>> /\ Readable(Last(pending))
        /\ pending' = Front(pending) \o IncludesOf(Last(pending))
        /\ functions' = functions \o Parsed(TextOf(Last(pending)))
        /\ project' = project
    BY Zenon DEF ReadFile, Next1
  <1>2. project \in Projects
    BY DEF TextInv, MiInv, MiTypeOK
  <1>3. /\ functions \in Seq(Declarations)
        /\ Main \in Untrapped =>
              /\ pending \in Seq(Untrapped)
              /\ \A e : Solves(e) => /\ Tells(e, "include", pending, functions)
                                     /\ Tells(e, "function", pending, functions)
    BY Zenon DEF TextInv, TextKept
  <1>4. functions' \in Seq(Declarations)
    <2>1. TextOf(Last(pending)) \in Seq(Declarations)
      BY <1>1, <1>2, TextHasType, Zenon DEF Readable
    <2>2. "include" # "comment"
      OBVIOUS
    <2>3. Parsed(TextOf(Last(pending))) \in Seq(Declarations)
      BY <2>1, <2>2, OfParsed, Zenon
    <2> QED BY <1>1, <1>3, <2>3, ConcatProperties
  <1>5. ASSUME Main \in Untrapped
        PROVE  /\ pending' \in Seq(Untrapped)
               /\ \A e : Solves(e) => /\ Tells(e, "include", pending', functions')
                                      /\ Tells(e, "function", pending', functions')
    <2>1. pending \in Seq(Untrapped)
      BY <1>3, <1>5
    <2>2. pending' \in Seq(Untrapped)
      <3>1. Last(pending) \in Untrapped /\ Front(pending) \in Seq(Untrapped)
        BY <1>1, <2>1, FrontAndLast, Zenon
      <3>2. IncludesOf(Last(pending)) \in Seq(Untrapped)
        BY <1>2, <3>1, UntrappedIsRead, Zenon
      <3> QED BY <1>1, <3>1, <3>2, ConcatProperties
    <2>3. "include" # "comment" /\ "function" # "comment"
      OBVIOUS
    <2>4. ASSUME NEW e, Solves(e)
          PROVE  /\ Tells(e, "include", pending', functions')
                 /\ Tells(e, "function", pending', functions')
      <3>1. Tells(e, "include", pending, functions) /\ Tells(e, "function", pending, functions)
        BY <1>3, <1>5, <2>4, Zenon
      <3> QED BY <1>1, <1>2, <1>3, <2>1, <2>3, <2>4, <3>1, ReadTells, Zenon
    <2> QED BY <2>2, <2>4, Zenon
  <1>6. /\ Untrapped' = Untrapped /\ Declarations' = Declarations
        /\ \A e : Solves(e)' <=> Solves(e)
    BY <1>1, SolutionsStay, Zenon
  <1> QED
    BY <1>4, <1>5, <1>6, Zenon DEF TextKept, Main, Input, Tells

\* Where nothing is read, the order stays.
LEMMA TextStays ==
    ASSUME TextKept, UNCHANGED <<project, pending, functions>>
    PROVE  TextKept'
  <1>1. /\ Untrapped' = Untrapped /\ Declarations' = Declarations
        /\ \A e : Solves(e)' <=> Solves(e)
    BY SolutionsStay
  <1> QED
    BY <1>1, Zenon DEF TextKept, Main, Input, Tells

\* Every step keeps the order.
LEMMA TextNext == TextInv /\ [MiNext]_miVars => TextInv'
  <1> SUFFICES ASSUME TextInv, [MiNext]_miVars PROVE TextInv'
    OBVIOUS
  <1>1. MiInv'
    BY MiInvNext DEF TextInv
  <1>2. TextKept' /\ Written'
    <2>1. CASE ReadFile
      <3>1. step' = "read"
        BY <2>1 DEF ReadFile
      <3> QED BY <2>1, <3>1, ReadKeeps DEF Written
    <2>2. CASE ReadFails
      BY <2>2, TextStays DEF ReadFails, TextInv, Written
    <2>3. CASE AllRead
      BY <2>3, TextStays DEF AllRead, TextInv, Written
    <2>4. CASE CheckFunction
      <3>1. UNCHANGED <<project, step, pending, functions>> /\ step = "check"
        BY <2>4 DEF CheckFunction
      <3> QED BY <3>1, TextStays DEF TextInv, Written
    <2>5. CASE CheckRound
      <3>1. UNCHANGED <<project, pending, functions>> /\ step' # "written"
        BY <2>5 DEF CheckRound, Verdict
      <3> QED BY <3>1, TextStays DEF TextInv, Written
    <2>6. CASE Compile
      <3>1. UNCHANGED <<project, pending, functions>>
        BY <2>6 DEF Compile
      <3>2. Written'
        <4>1. /\ headers' = Reverse(Of(functions, "include"))
              /\ table' = LET fs == Of(functions, "function") IN [k \in DOMAIN fs |-> Row(fs[k])]
          BY <2>6, Zenon DEF Compile
        <4> QED BY <3>1, <4>1, Zenon DEF Written
      <3> QED BY <3>1, <3>2, TextStays DEF TextInv
    <2>7. CASE UNCHANGED miVars
      <3>1. UNCHANGED <<project, step, pending, functions, headers, table>>
        BY <2>7 DEF miVars
      <3>2. Written'
        BY <3>1, Zenon DEF TextInv, Written
      <3> QED BY <3>1, <3>2, TextStays DEF TextInv
    <2> QED
      BY <2>1, <2>2, <2>3, <2>4, <2>5, <2>6, <2>7 DEF MiNext, MiStep, MiHalted
  <1> QED
    BY <1>1, <1>2 DEF TextInv

\* The rows of the table keep the names of the functions.
LEMMA RowKeepsName ==
    ASSUME NEW f, "name" \in DOMAIN f
    PROVE  Row(f).name = f.name
  BY DEF Row

\* When all is read, the declarations read are those of the expanded text, from behind.
LEMMA OrderIsKept == TextInv => IncludedComeFirst
  <1> SUFFICES ASSUME TextInv, step = "written"
               PROVE  /\ headers = Of(Expanded, "include")
                      /\ [k \in DOMAIN table |-> table[k].name]
                             = LET fs == Reverse(Of(Expanded, "function"))
                               IN  [k \in DOMAIN fs |-> fs[k].name]
    BY Zenon DEF IncludedComeFirst
  <1>1. project \in Projects /\ pending = <<>> /\ functions \in Seq(Declarations)
    BY DEF TextInv, MiInv, MiTypeOK, StackLeads, TextKept
  <1>2. Main \in Untrapped
    <2>1. Main \notin UNION Traps
      BY WrittenIsComplete, Zenon DEF TextInv, OutputIsComplete, Main
    <2>2. Main \in Inputs
      BY Zenon DEF Inputs, Main
    <2> QED BY <2>1, <2>2, Zenon DEF Untrapped
  <1>3. PICK e : Solves(e) /\ Expanded = e[Main]
    BY <1>1, ExpandedSolves
  <1>4. ASSUME NEW kind, Tells(e, kind, <<>>, functions)
        PROVE  Of(Expanded, kind) = Reverse(Of(functions, kind))
    <2>1. Of(Whole(e, <<>>), kind) = <<>>
      <3>1. Whole(e, <<>>) = <<>>
        BY WholeNone
      <3> QED BY <3>1, OfNone, Zenon
    <2>2. PICK r : r = Reverse(Of(functions, kind))
      OBVIOUS
    <2>3. r \in Seq(Declarations)
      <3>1. Of(functions, kind) \in Seq(Declarations)
        BY <1>1, OfType, Zenon
      <3> QED BY <2>2, <3>1, ReverseElements, Zenon
    <2>4. <<>> \o r = r
      BY <2>3, ConcatEmptySeq
    <2> QED BY <1>3, <1>4, <2>1, <2>2, <2>4, Zenon DEF Tells
  <1>5. /\ Of(Expanded, "include") = Reverse(Of(functions, "include"))
        /\ Of(Expanded, "function") = Reverse(Of(functions, "function"))
    <2>1. Tells(e, "include", pending, functions) /\ Tells(e, "function", pending, functions)
      BY <1>2, <1>3, Zenon DEF TextInv, TextKept
    <2>2. Tells(e, "include", <<>>, functions) /\ Tells(e, "function", <<>>, functions)
      BY <1>1, <2>1, Zenon
    <2> QED BY <1>4, <2>2, Zenon
  <1>6. PICK g : g = Of(functions, "function")
    OBVIOUS
  <1>7. /\ headers = Reverse(Of(functions, "include"))
        /\ table = [k \in DOMAIN g |-> Row(g[k])]
    BY <1>6, Zenon DEF TextInv, Written
  <1>8. g \in Seq(Declarations) /\ g \in Seq(OfKind(Declarations, "function"))
    BY <1>1, <1>6, OfType, Zenon
  <1>9. Reverse(Of(Expanded, "function")) = g
    BY <1>5, <1>6, <1>8, ReverseTwice, Zenon
  <1>10. ASSUME NEW k \in DOMAIN g PROVE Row(g[k]).name = g[k].name
    <2>1. g[k] \in OfKind(Declarations, "function")
      BY <1>8
    <2>2. g[k] \in Declarations /\ g[k].kind = "function"
      BY <2>1, Zenon DEF OfKind
    <2>3. PICK file \in DOMAIN project : g[k] \in ToSet(project[file])
      BY <2>2, Zenon DEF Declarations
    <2>4. "name" \in DOMAIN g[k]
      BY <1>1, <2>2, <2>3, MiConstants, Zenon
    <2> QED BY <2>4, RowKeepsName, Zenon
  <1>11. [k \in DOMAIN table |-> table[k].name] = [k \in DOMAIN g |-> g[k].name]
    <2>1. DOMAIN table = DOMAIN g /\ \A k \in DOMAIN g : table[k].name = g[k].name
      BY <1>7, <1>10, Zenon
    <2> QED BY <2>1, Zenon
  <1> QED
    BY <1>5, <1>7, <1>9, <1>11, Zenon

\* For every set of projects and every include path, the #include lines and the
\* functions come out in the order that the main file has with each file's includes
\* put in front of it: the parser, the stack of files and the compiler turn the order round
\* an even number of times (mi2c.py:124-140, parser.py, compiler.py:127-132).
THEOREM OrderKept == MiSpec => []IncludedComeFirst
  <1>1. MiInit => TextInv
    BY MiInvInit, TextInit DEF TextInv
  <1> QED
    BY <1>1, TextNext, OrderIsKept, PTL DEF MiSpec
=============================================================================
