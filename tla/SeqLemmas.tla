----------------------------- MODULE SeqLemmas ------------------------------
(***************************************************************************)
(* What the operators on sequences that the models are built from return:  *)
(* RemoveAt, SelectInSeq, Reverse and FlattenSeq; and induction on an       *)
(* interval, with sequences of values each made from the one before it.    *)
(***************************************************************************)
EXTENDS SequencesExt, Integers, FiniteSetTheorems, SequenceTheorems, TLAPS

\* A sequence is a function on an interval.
LEMMA SeqIsFunction ==
    ASSUME NEW S, NEW s \in Seq(S)
    PROVE  /\ Len(s) \in Nat /\ DOMAIN s = 1 .. Len(s)
           /\ \A i \in DOMAIN s : s[i] \in S
  OBVIOUS

\* A sequence is the function of its elements.
LEMMA SeqEntries ==
    ASSUME NEW S, NEW s \in Seq(S)
    PROVE  s = [i \in 1 .. Len(s) |-> s[i]]
  <1>1. s \in [1 .. Len(s) -> S]
    BY LenProperties
  <1> QED
    BY <1>1, Zenon

\* The empty sequence is a function without arguments.
LEMMA EmptyIsFunction ==
    ASSUME NEW S
    PROVE  <<>> \in [1 .. 0 -> S]
  <1>1. <<>> \in Seq(S) /\ Len(<<>>) = 0
    BY EmptySeq
  <1> QED
    BY <1>1, LenProperties

\* Append puts an element behind the others.
LEMMA AppendElements ==
    ASSUME NEW S, NEW s \in Seq(S), NEW x \in S
    PROVE  LET u == Append(s, x) IN
           /\ u \in Seq(S) /\ Len(u) = Len(s) + 1 /\ DOMAIN u = 1 .. Len(s) + 1
           /\ u[Len(s) + 1] = x /\ \A k \in DOMAIN s : u[k] = s[k]
           /\ DOMAIN u = DOMAIN s \cup {Len(s) + 1} /\ Len(s) + 1 \notin DOMAIN s
  OBVIOUS

\* A sequence of elements of S may be a sequence of elements of a smaller set.
LEMMA SeqOfElements ==
    ASSUME NEW S, NEW T, NEW s \in Seq(S), \A i \in DOMAIN s : s[i] \in T
    PROVE  s \in Seq(T)
  OBVIOUS

\* EXCEPT replaces one element.
LEMMA ExceptElements ==
    ASSUME NEW S, NEW s \in Seq(S), NEW i \in DOMAIN s, NEW x \in S
    PROVE  LET u == [s EXCEPT ![i] = x] IN
           /\ u \in Seq(S) /\ Len(u) = Len(s) /\ DOMAIN u = DOMAIN s
           /\ u[i] = x /\ \A k \in DOMAIN s : k # i => u[k] = s[k]
  OBVIOUS

\* RemoveAt takes one element out and closes the gap.
LEMMA RemoveAtElements ==
    ASSUME NEW S, NEW s \in Seq(S), NEW n \in DOMAIN s
    PROVE  LET r == RemoveAt(s, n) IN
           /\ r \in Seq(S) /\ Len(r) = Len(s) - 1 /\ DOMAIN r = 1 .. Len(s) - 1
           /\ \A i \in DOMAIN r : r[i] = IF i < n THEN s[i] ELSE s[i + 1]
  <1> DEFINE a == SubSeq(s, 1, n - 1)
             b == SubSeq(s, n + 1, Len(s))
  <1>1. n \in Int /\ 1 <= n /\ n <= Len(s) /\ Len(s) \in Nat
    OBVIOUS
  <1>2. a \in Seq(S) /\ Len(a) = n - 1 /\ \A i \in 1 .. n - 1 : a[i] = s[i]
    BY <1>1
  <1>3. b \in Seq(S) /\ Len(b) = Len(s) - n /\ \A i \in 1 .. Len(s) - n : b[i] = s[n + i]
    BY <1>1
  <1>4. RemoveAt(s, n) = a \o b
    BY DEF RemoveAt
  <1> HIDE DEF a, b
  <1> QED
    BY <1>1, <1>2, <1>3, <1>4, SMTT(60)

\* What is left when one element of a sequence without duplicates is taken out.
LEMMA RemoveAtSet ==
    ASSUME NEW S, NEW s \in Seq(S), NEW n \in DOMAIN s, IsInjective(s)
    PROVE  LET r == RemoveAt(s, n) IN
           /\ r \in Seq(S) /\ IsInjective(r)
           /\ ToSet(r) = ToSet(s) \ {s[n]}
  <1> DEFINE r == RemoveAt(s, n)
  <1>1. /\ r \in Seq(S) /\ DOMAIN r = 1 .. Len(s) - 1
        /\ \A i \in DOMAIN r : r[i] = IF i < n THEN s[i] ELSE s[i + 1]
    BY RemoveAtElements
  <1>2. DOMAIN s = 1 .. Len(s) /\ Len(s) \in Nat
    OBVIOUS
  <1>3. \A i, j \in DOMAIN s : s[i] = s[j] => i = j
    BY DEF IsInjective
  <1> HIDE DEF r
  <1>4. IsInjective(r)
    BY <1>1, <1>2, <1>3 DEF IsInjective
  <1>5. ASSUME NEW i \in DOMAIN r PROVE r[i] \in ToSet(s) \ {s[n]}
    BY <1>1, <1>2, <1>3 DEF ToSet
  <1>6. ASSUME NEW i \in DOMAIN s, i # n PROVE s[i] \in ToSet(r)
    <2>1. CASE i < n
      BY <1>1, <1>2, <2>1 DEF ToSet
    <2>2. CASE i > n
      <3>1. i - 1 \in DOMAIN r /\ r[i - 1] = s[i]
        BY <1>1, <1>2, <2>2
      <3> QED BY <3>1 DEF ToSet
    <2> QED BY <1>6, <1>2, <2>1, <2>2
  <1>7. ToSet(r) = ToSet(s) \ {s[n]}
    BY <1>5, <1>6 DEF ToSet
  <1> QED
    BY <1>1, <1>4, <1>7 DEF r

\* Min picks an element of a set of numbers that is not empty.
LEMMA MinElement ==
    ASSUME NEW S \in SUBSET Nat, S # {}
    PROVE  Min(S) \in S /\ \A y \in S : Min(S) <= y
  <1>1. \E x \in S : \A y \in S : ~ (<<y, x>> \in OpToRel(<, Nat))
    BY NatLessThanWellFounded, WFMin, Zenon
  <1>2. \E x \in S : \A y \in S : ~ (y < x)
    BY <1>1 DEF OpToRel
  <1>3. \E x \in S : \A y \in S : x <= y
    BY <1>2
  <1> QED
    BY <1>3, Zenon DEF Min

\* A function on an interval from 1 is a sequence.
LEMMA IntervalIsSeq ==
    ASSUME NEW n \in Nat, NEW S, NEW t \in [1 .. n -> S]
    PROVE  t \in Seq(S) /\ Len(t) = n
  OBVIOUS

\* A sequence is its front and its last element.
LEMMA FrontAndLast ==
    ASSUME NEW S, NEW p \in Seq(S), p # <<>>
    PROVE  Last(p) \in S /\ Front(p) \in Seq(S) /\ p = Front(p) \o <<Last(p)>>
  <1> PICK i : i = Last(p)
    OBVIOUS
  <1> PICK b : b = Front(p)
    OBVIOUS
  <1> PICK n : n = Len(p)
    OBVIOUS
  <1>1. n \in Nat \ {0} /\ \A k \in 1 .. n : p[k] \in S
    OBVIOUS
  <1>2. i = p[n] /\ i \in S
    BY <1>1 DEF Last
  <1>3. b = SubSeq(p, 1, n - 1)
    BY DEF Front
  <1>4. b \in Seq(S) /\ Len(b) = n - 1 /\ \A k \in 1 .. n - 1 : b[k] = p[k]
    BY <1>1, <1>3
  <1> PICK q : q = b \o <<i>>
    OBVIOUS
  <1>5. q \in Seq(S) /\ Len(q) = n /\ \A k \in 1 .. n : q[k] = p[k]
    BY <1>1, <1>2, <1>4
  <1>6. p = q
    BY <1>5, SeqEqual
  <1> QED
    BY <1>2, <1>4, <1>6, Zenon

\* The image of a finite set is finite.
LEMMA ImageIsFinite ==
    ASSUME NEW S, IsFiniteSet(S), NEW R, NEW f \in [S -> R]
    PROVE  IsFiniteSet({f[x] : x \in S})
  <1> PICK T : T = {f[x] : x \in S}
    OBVIOUS
  <1>1. f \in [S -> T] /\ \A y \in T : \E x \in S : f[x] = y
    OBVIOUS
  <1>2. f \in Surjection(S, T)
    BY <1>1, Zenon DEF Surjection
  <1>3. IsFiniteSet(T)
    BY <1>2, FS_Surjection, Zenon
  <1> QED
    BY <1>3

-----------------------------------------------------------------------------
(* Induction on an interval *)

\* Induction on an interval, over a set
LEMMA UpTo ==
    ASSUME NEW n \in Nat, NEW S, 0 \in S, \A i \in 0 .. n - 1 : i \in S => i + 1 \in S
    PROVE  0 .. n \subseteq S
  <1> SUFFICES ASSUME ~(0 .. n \subseteq S) PROVE FALSE
    OBVIOUS
  <1> DEFINE B == {i \in 0 .. n : i \notin S}
  <1>1. B \in SUBSET Nat /\ B # {}
    OBVIOUS
  <1> PICK m : m = Min(B)
    OBVIOUS
  <1>2. m \in B /\ \A y \in B : m <= y
    BY <1>1, MinElement, Zenon
  <1>3. m # 0
    BY <1>2
  <1>4. m - 1 \in 0 .. n - 1 /\ m - 1 \notin B
    BY <1>2, <1>3
  <1> QED
    BY <1>2, <1>4

\* A sequence of n values, each made from the one before it
Iteration(n, V, v, F, a) ==
    /\ a \in [0 .. n -> V] /\ a[0] = v
    /\ \A k \in 1 .. n : a[k] = F[k][a[k - 1]]

\* It exists.
LEMMA Iterates ==
    ASSUME NEW N \in Nat, NEW V, NEW v \in V, NEW F,
           \A k \in 1 .. N : \A x \in V : F[k][x] \in V
    PROVE  \E a : Iteration(N, V, v, F, a)
  <1> DEFINE Good(n, a) == a[0] = v /\ \A k \in 1 .. n : a[k] = F[k][a[k - 1]]
             G == {n \in 0 .. N : \E a \in [0 .. n -> V] : Good(n, a)}
  <1>1. 0 \in G
    <2> DEFINE a == [k \in 0 .. 0 |-> v]
    <2>1. a \in [0 .. 0 -> V] /\ Good(0, a)
      OBVIOUS
    <2>2. 0 \in 0 .. N
      OBVIOUS
    <2> HIDE DEF a
    <2> QED BY <2>1, <2>2, Zenon
  <1>2. ASSUME NEW n \in 0 .. N - 1, n \in G PROVE n + 1 \in G
    <2>1. PICK a \in [0 .. n -> V] : Good(n, a)
      BY <1>2, Zenon
    <2>2. PICK x : x = F[n + 1][a[n]]
      OBVIOUS
    <2>3. x \in V
      <3>1. n + 1 \in 1 .. N /\ n \in 0 .. n
        OBVIOUS
      <3> QED BY <2>2, <3>1
    <2> DEFINE b == [k \in 0 .. n + 1 |-> IF k <= n THEN a[k] ELSE x]
    <2>4. b \in [0 .. n + 1 -> V]
      BY <2>3
    <2>5. Good(n + 1, b)
      <3>1. b[0] = v
        BY <2>1
      <3>2. ASSUME NEW k \in 1 .. n + 1 PROVE b[k] = F[k][b[k - 1]]
        <4>1. CASE k <= n
          <5>1. b[k] = a[k] /\ b[k - 1] = a[k - 1] /\ k \in 1 .. n
            BY <4>1
          <5> QED BY <5>1, <2>1
        <4>2. CASE k = n + 1
          <5>1. b[k] = x /\ b[k - 1] = a[n]
            BY <4>2
          <5> QED BY <5>1, <4>2, <2>2, Zenon
        <4>3. k <= n \/ k = n + 1
          OBVIOUS
        <4> QED BY <4>1, <4>2, <4>3, Zenon
      <3> QED BY <3>1, <3>2
    <2> HIDE DEF b
    <2>6. n + 1 \in 0 .. N
      OBVIOUS
    <2> QED BY <2>4, <2>5, <2>6, Zenon
  <1>3. N \in G
    <2> HIDE DEF G
    <2>1. 0 .. N \subseteq G
      BY <1>1, <1>2, UpTo, Zenon
    <2> QED BY <2>1
  <1> QED
    BY <1>3, Zenon DEF Iteration

-----------------------------------------------------------------------------
(* Reverse *)

\* Reverse turns a sequence round.
LEMMA ReverseElements ==
    ASSUME NEW S, NEW s \in Seq(S)
    PROVE  /\ Reverse(s) \in Seq(S) /\ Len(Reverse(s)) = Len(s)
           /\ \A i \in 1 .. Len(s) : Reverse(s)[i] = s[(Len(s) - i) + 1]
  BY DEF Reverse

\* A sequence of one element is its own reverse.
LEMMA ReverseOne ==
    ASSUME NEW S, NEW d \in S
    PROVE  Reverse(<<d>>) = <<d>>
  <1>1. PICK s : s = <<d>>
    OBVIOUS
  <1>2. s \in Seq(S) /\ Len(s) = 1 /\ s[1] = d
    BY <1>1
  <1>3. PICK r : r = Reverse(s)
    OBVIOUS
  <1>4. r \in Seq(S) /\ Len(r) = Len(s) /\ \A i \in 1 .. Len(s) : r[i] = s[(Len(s) - i) + 1]
    BY <1>2, <1>3, ReverseElements
  <1>5. Len(r) = 1 /\ r[1] = d
    BY <1>2, <1>4
  <1>6. r = s
    BY <1>2, <1>4, <1>5, SeqEqual
  <1> QED
    BY <1>1, <1>3, <1>6

\* Reversing twice changes nothing.
LEMMA ReverseTwice ==
    ASSUME NEW S, NEW s \in Seq(S)
    PROVE  Reverse(Reverse(s)) = s
  <1>1. PICK r : r = Reverse(s)
    OBVIOUS
  <1>2. PICK u : u = Reverse(r)
    OBVIOUS
  <1>3. r \in Seq(S) /\ Len(r) = Len(s) /\ \A i \in 1 .. Len(s) : r[i] = s[(Len(s) - i) + 1]
    BY <1>1, ReverseElements
  <1>4. u \in Seq(S) /\ Len(u) = Len(s) /\ \A i \in 1 .. Len(s) : u[i] = r[(Len(s) - i) + 1]
    BY <1>2, <1>3, ReverseElements
  <1>5. ASSUME NEW i \in 1 .. Len(s) PROVE u[i] = s[i]
    <2>1. /\ (Len(s) - i) + 1 \in 1 .. Len(s)
          /\ (Len(s) - ((Len(s) - i) + 1)) + 1 = i
      BY LenProperties
    <2>2. r[(Len(s) - i) + 1] = s[(Len(s) - ((Len(s) - i) + 1)) + 1]
      BY <2>1, <1>3, Zenon
    <2> QED BY <2>1, <2>2, <1>4, <1>5, Zenon
  <1> QED
    BY <1>1, <1>2, <1>4, <1>5, SeqEqual

\* The reverse of two sequences is their reverses, in the other order.
LEMMA ReverseConcat ==
    ASSUME NEW S, NEW s \in Seq(S), NEW t \in Seq(S)
    PROVE  Reverse(s \o t) = Reverse(t) \o Reverse(s)
  <1>1. PICK u : u = s \o t
    OBVIOUS
  <1>2. PICK r : r = Reverse(u)
    OBVIOUS
  <1>3. PICK x : x = Reverse(t)
    OBVIOUS
  <1>4. PICK y : y = Reverse(s)
    OBVIOUS
  <1>5. PICK z : z = x \o y
    OBVIOUS
  <1>u. /\ u \in Seq(S) /\ Len(u) = Len(s) + Len(t)
        /\ \A i \in 1 .. Len(u) : u[i] = IF i <= Len(s) THEN s[i] ELSE t[i - Len(s)]
    BY <1>1, ConcatProperties
  <1>r. /\ r \in Seq(S) /\ Len(r) = Len(u)
        /\ \A i \in 1 .. Len(u) : r[i] = u[(Len(u) - i) + 1]
    BY <1>2, <1>u, ReverseElements
  <1>x. /\ x \in Seq(S) /\ Len(x) = Len(t)
        /\ \A i \in 1 .. Len(t) : x[i] = t[(Len(t) - i) + 1]
    BY <1>3, ReverseElements
  <1>y. /\ y \in Seq(S) /\ Len(y) = Len(s)
        /\ \A i \in 1 .. Len(s) : y[i] = s[(Len(s) - i) + 1]
    BY <1>4, ReverseElements
  <1>z. /\ z \in Seq(S) /\ Len(z) = Len(t) + Len(s)
        /\ \A i \in 1 .. Len(z) : z[i] = IF i <= Len(t) THEN x[i] ELSE y[i - Len(t)]
    <2>1. /\ z \in Seq(S) /\ Len(z) = Len(x) + Len(y)
          /\ \A i \in 1 .. Len(x) + Len(y) : z[i] = IF i <= Len(x) THEN x[i] ELSE y[i - Len(x)]
      <3>1. x \in Seq(S) /\ y \in Seq(S)
        BY <1>x, <1>y
      <3>2. /\ x \o y \in Seq(S) /\ Len(x \o y) = Len(x) + Len(y)
            /\ \A i \in 1 .. Len(x) + Len(y) :
                  (x \o y)[i] = IF i <= Len(x) THEN x[i] ELSE y[i - Len(x)]
        BY ONLY <3>1, ConcatProperties, Zenon
      <3> QED BY <3>2, <1>5, Zenon
    <2> QED BY ONLY <2>1, <1>x, <1>y
  <1>l. Len(s) \in Nat /\ Len(t) \in Nat
    BY LenProperties
  <1>6. ASSUME NEW i \in 1 .. Len(r) PROVE r[i] = z[i]
    <2>1. CASE i <= Len(t)
      <3>1. z[i] = t[(Len(t) - i) + 1]
        <4>1. i \in 1 .. Len(z) /\ i \in 1 .. Len(t)
          BY <2>1, <1>6, <1>r, <1>u, <1>z, <1>l
        <4>2. z[i] = x[i]
          BY <4>1, <2>1, <1>z, Zenon
        <4> QED BY <4>1, <4>2, <1>x, Zenon
      <3>2. r[i] = u[(Len(u) - i) + 1] /\ (Len(u) - i) + 1 > Len(s)
            /\ (Len(u) - i) + 1 \in 1 .. Len(u) /\ ((Len(u) - i) + 1) - Len(s) = (Len(t) - i) + 1
        BY <2>1, <1>6, <1>r, <1>u, <1>l
      <3> QED BY <3>1, <3>2, <1>u, <1>l
    <2>2. CASE i > Len(t)
      <3>1. z[i] = s[(Len(s) - (i - Len(t))) + 1]
        <4>1. i \in 1 .. Len(z) /\ i - Len(t) \in 1 .. Len(s)
          BY <2>2, <1>6, <1>r, <1>u, <1>z, <1>l
        <4>2. z[i] = y[i - Len(t)]
          BY ONLY <2>2, <4>1, <1>z, <1>l, i \in Nat
        <4> QED BY ONLY <4>1, <4>2, <1>y
      <3>2. r[i] = u[(Len(u) - i) + 1] /\ (Len(u) - i) + 1 <= Len(s)
            /\ (Len(u) - i) + 1 \in 1 .. Len(u)
            /\ (Len(u) - i) + 1 = (Len(s) - (i - Len(t))) + 1
        BY <2>2, <1>6, <1>r, <1>u, <1>l
      <3> QED BY <3>1, <3>2, <1>u, <1>l
    <2> QED BY <2>1, <2>2, <1>6, <1>r, <1>u, <1>l
  <1>7. r = z
    <2>1. Len(r) = Len(z)
      BY <1>r, <1>z, <1>u, <1>l
    <2> QED BY <1>6, <1>r, <1>z, <2>1, SeqEqual, Zenon
  <1> QED
    BY <1>1, <1>2, <1>3, <1>4, <1>5, <1>7

-----------------------------------------------------------------------------
(* FlattenSeq *)

\* What the sequences up to each one make together
Sums(S, s, a) ==
    /\ a \in [0 .. Len(s) -> Seq(S)] /\ a[0] = <<>>
    /\ \A i \in 1 .. Len(s) : a[i] = a[i - 1] \o s[i]

\* Sequences are flattened one after the other.
LEMMA FlattenSums ==
    ASSUME NEW S, NEW s \in Seq(Seq(S))
    PROVE  /\ \E a : Sums(S, s, a)
           /\ \A a : Sums(S, s, a) => FlattenSeq(s) = a[Len(s)]
  <1> DEFINE N == Len(s)
             Good(n, a) == a[0] = <<>> /\ \A i \in 1 .. n : a[i] = a[i - 1] \o s[i]
             flatten[i \in 1 .. N] == IF i = 1 THEN s[i] ELSE flatten[i - 1] \o s[i]
  <1>1. N \in Nat /\ \A i \in 1 .. N : s[i] \in Seq(S)
    BY LenProperties
  <1>f. FlattenSeq(s) = IF N = 0 THEN s ELSE flatten[N]
    BY Zenon DEF FlattenSeq
  <1>e. N = 0 => s = <<>>
    OBVIOUS
  <1> HIDE DEF N, flatten
  <1>2. PICK V : V = Seq(S)
    OBVIOUS
  <1>3. PICK F : F = [k \in 1 .. N |-> [r \in V |-> r \o s[k]]]
    OBVIOUS
  <1>4. \A k \in 1 .. N : \A r \in V : F[k][r] = r \o s[k] /\ r \o s[k] \in V
    <2>1. ASSUME NEW k \in 1 .. N, NEW r \in V PROVE r \o s[k] \in V
      <3>1. r \in Seq(S) /\ s[k] \in Seq(S)
        BY <1>1, <1>2
      <3> QED BY <1>2, <3>1, ConcatProperties
    <2>2. \A k \in 1 .. N : \A r \in V : F[k][r] = r \o s[k]
      BY <1>3, Zenon
    <2> QED BY <2>1, <2>2, Zenon
  <1>5. PICK a \in [0 .. N -> Seq(S)] : Good(N, a)
    <2>1. <<>> \in V
      BY <1>2
    <2>2. PICK a : Iteration(N, V, <<>>, F, a)
      <3>1. \A k \in 1 .. N : \A r \in V : F[k][r] \in V
        BY <1>4, Zenon
      <3>2. PICK e : e = <<>>
        OBVIOUS
      <3>3. \E a : Iteration(N, V, e, F, a)
        BY <1>1, <2>1, <3>1, <3>2, Iterates, Zenon
      <3> QED BY <3>2, <3>3, Zenon
    <2>3. \A k \in 1 .. N : k - 1 \in 0 .. N
      BY <1>1
    <2>4. Good(N, a)
      BY <1>4, <2>2, <2>3, Zenon DEF Iteration
    <2> QED BY <1>2, <2>2, <2>4, Zenon DEF Iteration
  <1>10. Sums(S, s, a)
    BY <1>5, Zenon DEF Sums, N
  <1> DEFINE b == [i \in 1 .. N |-> a[i]]
  <1>6. b = [i \in 1 .. N |-> IF i = 1 THEN s[i] ELSE b[i - 1] \o s[i]]
    <2>1. ASSUME NEW i \in 1 .. N PROVE b[i] = IF i = 1 THEN s[i] ELSE b[i - 1] \o s[i]
      <3>1. b[i] = a[i] /\ a[i] = a[i - 1] \o s[i] /\ s[i] \in Seq(S)
        BY <1>5, <1>1
      <3>2. CASE i = 1
        <4>1. a[i - 1] = <<>>
          BY <3>2, <1>5
        <4> QED BY <3>1, <3>2, <4>1, ConcatEmptySeq
      <3>3. CASE i # 1
        <4>1. b[i - 1] = a[i - 1]
          BY <3>3, <1>1
        <4> QED BY <3>1, <3>3, <4>1
      <3> QED BY <3>2, <3>3
    <2> HIDE DEF b
    <2>2. \A i \in 1 .. N : b[i] = IF i = 1 THEN s[i] ELSE b[i - 1] \o s[i]
      BY <2>1
    <2>3. b = [i \in 1 .. N |-> b[i]]
      BY Zenon DEF b
    <2> QED BY <2>2, <2>3, Zenon
  <1>7. flatten = [i \in 1 .. N |-> IF i = 1 THEN s[i] ELSE flatten[i - 1] \o s[i]]
    <2> HIDE DEF b
    <2> QED BY <1>6, Zenon DEF flatten
  <1> HIDE DEF b
  <1>8. ASSUME NEW c, Sums(S, s, c) PROVE FlattenSeq(s) = c[N]
    <2>0. c \in [0 .. N -> Seq(S)] /\ c[0] = <<>> /\ \A i \in 1 .. N : c[i] = c[i - 1] \o s[i]
      BY <1>8, Zenon DEF Sums, N
    <2> DEFINE Q == {i \in 0 .. N : i # 0 => flatten[i] = c[i]}
    <2>1. 0 \in Q
      BY <1>1
    <2>2. ASSUME NEW i \in 0 .. N - 1, i \in Q PROVE i + 1 \in Q
      <3>1. i + 1 \in 1 .. N /\ (i + 1) - 1 = i /\ i + 1 \in 0 .. N
        BY <1>1
      <3>2. c[i + 1] = c[i] \o s[i + 1] /\ s[i + 1] \in Seq(S)
        BY <2>0, <3>1, <1>1
      <3>3. CASE i = 0
        <4>1. flatten[i + 1] = s[i + 1]
          BY <1>7, <3>1, <3>3
        <4>2. c[i + 1] = s[i + 1]
          BY <2>0, <3>2, <3>3, ConcatEmptySeq
        <4> QED BY <3>1, <4>1, <4>2
      <3>4. CASE i # 0
        <4>1. flatten[i + 1] = flatten[i] \o s[i + 1]
          <5>1. i + 1 # 1
            BY <3>4, <1>1
          <5> QED BY <1>7, <3>1, <5>1, Zenon
        <4> QED BY <3>1, <3>2, <3>4, <4>1, <2>2
      <3> QED BY <3>3, <3>4
    <2>3. 0 .. N \subseteq Q
      <3> HIDE DEF Q
      <3> QED BY <1>1, <2>1, <2>2, UpTo, Zenon
    <2>4. N # 0 => flatten[N] = c[N]
      BY <2>3, <1>1
    <2> QED BY <1>f, <1>e, <2>0, <2>4
  <1> QED
    BY <1>8, <1>10, Zenon DEF N

\* What FlattenSeq returns
LEMMA FlattenType ==
    ASSUME NEW S, NEW s \in Seq(Seq(S))
    PROVE  FlattenSeq(s) \in Seq(S)
  <1>1. PICK a : Sums(S, s, a)
    BY FlattenSums
  <1>2. FlattenSeq(s) = a[Len(s)] /\ Len(s) \in 0 .. Len(s)
    BY <1>1, FlattenSums
  <1> QED
    BY <1>1, <1>2, Zenon DEF Sums

\* No sequence
LEMMA FlattenNone == FlattenSeq(<<>>) = <<>>
  BY Zenon, EmptySeq DEF FlattenSeq

\* One sequence
LEMMA FlattenOne ==
    ASSUME NEW S, NEW x \in Seq(S)
    PROVE  FlattenSeq(<<x>>) = x
  <1>1. PICK s : s = <<x>>
    OBVIOUS
  <1>2. s \in Seq(Seq(S)) /\ Len(s) = 1 /\ s[1] = x
    BY <1>1
  <1>3. PICK a : Sums(S, s, a)
    BY <1>2, FlattenSums
  <1>4. FlattenSeq(s) = a[1]
    BY <1>2, <1>3, FlattenSums
  <1>5. a[0] = <<>> /\ a[1] = a[1 - 1] \o s[1]
    BY <1>2, <1>3 DEF Sums
  <1>6. a[1] = <<>> \o x
    BY <1>2, <1>5
  <1> QED
    BY <1>1, <1>4, <1>6, ConcatEmptySeq

\* Sequences after other sequences
LEMMA FlattenConcat ==
    ASSUME NEW S, NEW s \in Seq(Seq(S)), NEW t \in Seq(Seq(S))
    PROVE  FlattenSeq(s \o t) = FlattenSeq(s) \o FlattenSeq(t)
  <1> DEFINE m == Len(s)
             n == Len(t)
  <1> PICK u : u = s \o t
    OBVIOUS
  <1>1. /\ u \in Seq(Seq(S)) /\ m \in Nat /\ n \in Nat /\ Len(u) = m + n
        /\ \A i \in 1 .. m : u[i] = s[i]
        /\ \A i \in 1 .. n : u[m + i] = t[i]
    OBVIOUS
  <1>2. PICK a : Sums(S, s, a)
    BY FlattenSums
  <1>3. PICK b : Sums(S, t, b)
    BY FlattenSums
  <1>4. FlattenSeq(s) = a[m] /\ FlattenSeq(t) = b[n]
    BY <1>2, <1>3, FlattenSums
  <1>5. /\ a \in [0 .. m -> Seq(S)] /\ a[0] = <<>>
        /\ \A i \in 1 .. m : a[i] = a[i - 1] \o s[i]
        /\ b \in [0 .. n -> Seq(S)] /\ b[0] = <<>>
        /\ \A i \in 1 .. n : b[i] = b[i - 1] \o t[i]
        /\ \A i \in 1 .. n : t[i] \in Seq(S)
    <2>1. \A i \in 1 .. n : t[i] \in Seq(S)
      OBVIOUS
    <2> QED BY <2>1, <1>2, <1>3, Zenon DEF Sums
  <1> HIDE DEF m, n
  <1> DEFINE c == [i \in 0 .. m + n |-> IF i <= m THEN a[i] ELSE a[m] \o b[i - m]]
  <1>6. c \in [0 .. m + n -> Seq(S)]
    <2> SUFFICES ASSUME NEW i \in 0 .. m + n PROVE c[i] \in Seq(S)
      BY Zenon
    <2>1. CASE i <= m
      BY <2>1, <1>1, <1>5
    <2>2. CASE i > m
      <3>1. a[m] \in Seq(S) /\ b[i - m] \in Seq(S)
        BY <2>2, <1>1, <1>5
      <3>2. a[m] \o b[i - m] \in Seq(S)
        BY <3>1, ConcatProperties
      <3> QED BY <3>2, <2>2, <1>1
    <2> QED BY <2>1, <2>2, <1>1
  <1>7. c[0] = <<>>
    BY <1>1, <1>5
  <1>8. ASSUME NEW i \in 1 .. m + n PROVE c[i] = c[i - 1] \o u[i]
    <2>1. CASE i <= m
      <3>1. c[i] = a[i] /\ c[i - 1] = a[i - 1] /\ i \in 1 .. m
        BY <2>1, <1>1
      <3>2. u[i] = s[i] /\ a[i] = a[i - 1] \o s[i]
        BY <3>1, <1>1, <1>5
      <3> QED BY <3>1, <3>2
    <2>2. CASE i > m
      <3> PICK j : j = i - m
        OBVIOUS
      <3>1. j \in 1 .. n /\ i = m + j
        BY <2>2, <1>1
      <3>2. c[i] = a[m] \o b[j]
        <4>1. i \in 0 .. m + n /\ ~(i <= m)
          BY <2>2, <3>1, <1>1
        <4>2. c[i] = a[m] \o b[i - m]
          BY <4>1, Zenon
        <4>3. i - m = j
          BY <3>1, <1>1
        <4> QED BY <4>2, <4>3, Zenon
      <3>3. c[i - 1] = a[m] \o b[j - 1]
        <4>1. CASE j = 1
          <5>1. c[i - 1] = a[m] /\ b[j - 1] = <<>> /\ a[m] \in Seq(S)
            BY <4>1, <3>1, <1>1, <1>5
          <5> QED BY <5>1, ConcatEmptySeq
        <4>2. CASE j > 1
          <5>1. i - 1 \in 0 .. m + n /\ ~(i - 1 <= m) /\ (i - 1) - m = j - 1
            BY <4>2, <3>1, <1>1
          <5>2. c[i - 1] = a[m] \o b[(i - 1) - m]
            BY <5>1, Zenon
          <5> QED BY <5>1, <5>2, Zenon
        <4>3. j = 1 \/ j > 1
          BY <3>1, <1>1
        <4> QED BY <4>1, <4>2, <4>3, Zenon
      <3>4. u[i] = t[j] /\ b[j] = b[j - 1] \o t[j]
        BY <3>1, <1>1, <1>5
      <3>5. a[m] \in Seq(S) /\ b[j - 1] \in Seq(S) /\ t[j] \in Seq(S)
        BY <3>1, <1>1, <1>5, SMTT(60)
      <3>6. (a[m] \o b[j - 1]) \o t[j] = a[m] \o (b[j - 1] \o t[j])
        <4> PICK x : x = a[m]
          OBVIOUS
        <4> PICK y : y = b[j - 1]
          OBVIOUS
        <4> PICK z : z = t[j]
          OBVIOUS
        <4>1. x \in Seq(S) /\ y \in Seq(S) /\ z \in Seq(S)
          BY <3>5
        <4>2. (x \o y) \o z = x \o (y \o z)
          BY ONLY <4>1, ConcatAssociative, SMTT(60)
        <4> QED BY <4>2
      <3> QED BY <3>2, <3>3, <3>4, <3>6
    <2>3. i <= m \/ i > m
      BY <1>1
    <2> QED BY <2>1, <2>2, <2>3, Zenon
  <1>9. Sums(S, u, c)
    <2> HIDE DEF c
    <2> QED BY <1>1, <1>6, <1>7, <1>8 DEF Sums
  <1>10. c[m + n] = a[m] \o b[n]
    <2>1. CASE n = 0
      <3>1. c[m + n] = a[m] /\ b[n] = <<>> /\ a[m] \in Seq(S)
        BY <2>1, <1>1, <1>5
      <3> QED BY <3>1, ConcatEmptySeq
    <2>2. CASE n # 0
      <3>1. m + n \in 0 .. m + n /\ ~(m + n <= m) /\ (m + n) - m = n
        BY <2>2, <1>1
      <3>2. c[m + n] = a[m] \o b[(m + n) - m]
        BY <3>1, Zenon
      <3> QED BY <3>1, <3>2, Zenon
    <2> QED BY <2>1, <2>2, Zenon
  <1>11. FlattenSeq(u) = c[Len(u)]
    <2> HIDE DEF c
    <2>1. u \in Seq(Seq(S))
      BY <1>1
    <2> QED BY ONLY <2>1, <1>9, FlattenSums, Zenon
  <1> HIDE DEF c
  <1> QED
    BY <1>1, <1>4, <1>10, <1>11
=============================================================================
