-------------------------- MODULE TaskaFoldProofs ---------------------------
(***************************************************************************)
(* What replay computes, for logs of every length, and what the write gate *)
(* does, for commands of every length: each takes its events or drafts one *)
(* after the other, and replay can be interrupted anywhere, the state      *)
(* reached being the baseline of the rest.                                 *)
(*                                                                         *)
(* Materialize is a fold, that is a function on the subsets of 1..n defined *)
(* by recursion.  That such a function exists, and that its values on the  *)
(* intervals 1..k depend on the first k events only, is shown by the least *)
(* counterexample (NatMin).                                                *)
(***************************************************************************)
EXTENDS TaskaGate, TLAPS, WellFoundedInduction, FiniteSetTheorems

IsSeq(s) == \E S : s \in Seq(S)

----------------------------------------------------------------------------
(* Numbers and sequences.                                                  *)

\* A set of natural numbers that has an element has a least one.
LEMMA NatMin ==
    ASSUME NEW T, T \subseteq Nat, T # {}
    PROVE  \E x \in T : \A y \in T : x <= y
<1> DEFINE R == OpToRel(<, Nat)
<1>1. IsWellFoundedOn(R, Nat)
  BY NatLessThanWellFounded
<1>2. \E x \in T : \A y \in T : ~ (<<y, x>> \in R)
  BY <1>1, WFMin
<1>3. \A x, y \in Nat : <<y, x>> \in R <=> y < x
  BY DEF OpToRel
<1> HIDE DEF R
<1>4. PICK x \in T : \A y \in T : ~ (<<y, x>> \in R)
  BY <1>2
<1>5. ASSUME NEW y \in T PROVE x <= y
  <2>1. x \in Nat /\ y \in Nat
    OBVIOUS
  <2>2. ~ (y < x)
    BY <1>3, <1>4, <2>1
  <2> QED BY <2>1, <2>2
<1> QED BY <1>5

\* What holds of 0, and of every number up to n when it holds of the one before,
\* holds up to n: induction, for a property given as the set of those it holds of.
LEMMA UpTo ==
    ASSUME NEW n \in Nat, NEW G, 0 \in G, \A k \in 1..n : k - 1 \in G => k \in G
    PROVE  \A k \in 0..n : k \in G
<1> DEFINE T == {k \in 0..n : k \notin G}
<1>1. SUFFICES ASSUME T # {} PROVE FALSE
  OBVIOUS
<1>2. PICK k \in T : \A y \in T : k <= y
  <2>1. T \subseteq Nat
    OBVIOUS
  <2> QED BY <1>1, <2>1, NatMin
<1>3. k \in 1..n /\ k - 1 \in 0..n /\ ~ (k <= k - 1)
  <2>1. k \in 0..n /\ k # 0
    OBVIOUS
  <2> QED BY <2>1
<1>4. k - 1 \in G
  BY <1>2, <1>3
<1> QED BY <1>3, <1>4

\* Max is the greatest element.
LEMMA MaxOf ==
    ASSUME NEW s, NEW n \in s, \A y \in s : y \in Int /\ n >= y
    PROVE  Max(s) = n
<1>1. \A x \in s : (\A y \in s : x >= y) => x = n
  OBVIOUS
<1> QED BY <1>1 DEF Max

\* A set of natural numbers that has an element has a least one, and Min is it.
LEMMA MinOf ==
    ASSUME NEW s, NEW n \in s, \A y \in s : y \in Int /\ n <= y
    PROVE  Min(s) = n
<1>1. \A x \in s : (\A y \in s : x <= y) => x = n
  OBVIOUS
<1> QED BY <1>1 DEF Min

\* A set of positions that has an element has a first and a last one.
LEMMA MinAndMaxIn ==
    ASSUME NEW n \in Nat, NEW s, \A i \in s : i \in 1..n, s # {}
    PROVE  Min(s) \in s /\ Max(s) \in s /\ \A i \in s : Min(s) <= i /\ i <= Max(s)
<1>1. Min(s) \in s /\ \A i \in s : Min(s) <= i
  <2>1. s \subseteq Nat
    OBVIOUS
  <2>2. PICK first \in s : \A y \in s : first <= y
    BY <2>1, NatMin
  <2>3. \A y \in s : y \in Int /\ first <= y
    BY <2>1, <2>2
  <2> QED BY <2>2, <2>3, MinOf
<1>2. Max(s) \in s /\ \A i \in s : i <= Max(s)
  <2> DEFINE T == {n - i : i \in s}
  <2>1. T \subseteq Nat /\ T # {}
    OBVIOUS
  <2>2. PICK t \in T : \A y \in T : t <= y
    BY <2>1, NatMin
  <2>3. PICK last \in s : t = n - last
    OBVIOUS
  <2>4. \A y \in s : y \in Int /\ last >= y
    <3>1. ASSUME NEW y \in s PROVE y \in Int /\ last >= y
      <4>1. y \in 1..n /\ last \in 1..n
        OBVIOUS
      <4>2. n - last <= n - y
        BY <2>2, <2>3
      <4> QED BY <4>1, <4>2
    <3> QED BY <3>1
  <2>5. Max(s) = last
    BY <2>4, MaxOf
  <2> QED BY <2>4, <2>5
<1> QED BY <1>1, <1>2

\* The greater of a number and zero.
LEMMA MaxWithZero ==
    ASSUME NEW a \in Int
    PROVE  Max({a, 0}) = IF a >= 0 THEN a ELSE 0
<1>1. CASE a >= 0
  <2>1. \A y \in {a, 0} : y \in Int /\ a >= y
    BY <1>1
  <2> QED BY <1>1, <2>1, MaxOf
<1>2. CASE ~ (a >= 0)
  <2>1. \A y \in {a, 0} : y \in Int /\ 0 >= y
    BY <1>2
  <2> QED BY <1>2, <2>1, MaxOf
<1> QED BY <1>1, <1>2

\* What exceeds the least of three numbers exceeds one of them.
LEMMA OverMinOfThree ==
    ASSUME NEW a \in Int, NEW b \in Int, NEW c \in Int, NEW i \in Int
    PROVE  i > Min({a, b, c}) <=> i > a \/ i > b \/ i > c
<1>1. \E m \in {a, b, c} : m <= a /\ m <= b /\ m <= c
  OBVIOUS
<1>2. PICK m \in {a, b, c} : m <= a /\ m <= b /\ m <= c
  BY <1>1
<1>3. \A y \in {a, b, c} : y \in Int /\ m <= y
  BY <1>2
<1>4. Min({a, b, c}) = m
  BY <1>3, MinOf
<1> QED BY <1>2, <1>4

\* The length and the domain of a sequence.
LEMMA SeqBasics ==
    ASSUME NEW s, IsSeq(s)
    PROVE  Len(s) \in Nat /\ DOMAIN s = 1..Len(s)
BY DEF IsSeq

\* The empty sequence is one.
LEMMA SeqEmpty == IsSeq(<< >>) /\ Len(<< >>) = 0
BY DEF IsSeq

\* Sequences with the same elements are the same.
LEMMA SameElements ==
    ASSUME NEW s, IsSeq(s), NEW t, IsSeq(t), Len(s) = Len(t),
           \A i \in 1..Len(s) : s[i] = t[i]
    PROVE  s = t
<1>1. PICK S : s \in Seq(S)
  BY DEF IsSeq
<1>2. PICK T : t \in Seq(T)
  BY DEF IsSeq
<1>3. s = [i \in 1..Len(s) |-> s[i]] /\ t = [i \in 1..Len(t) |-> t[i]]
  BY <1>1, <1>2
<1> QED BY <1>3

\* One element more.
LEMMA SeqAppend ==
    ASSUME NEW s, IsSeq(s), NEW e
    PROVE  /\ IsSeq(Append(s, e)) /\ Len(Append(s, e)) = Len(s) + 1
           /\ \A i \in 1..Len(s) : Append(s, e)[i] = s[i]
           /\ Append(s, e)[Len(s) + 1] = e
<1>1. PICK S : s \in Seq(S)
  BY DEF IsSeq
<1>2. s \in Seq(S \cup {e})
  BY <1>1
<1>3. Append(s, e) \in Seq(S \cup {e})
  BY <1>2
<1> QED BY <1>1, <1>2, <1>3 DEF IsSeq

\* The elements from the first to one of them.
LEMMA SeqPrefix ==
    ASSUME NEW s, IsSeq(s), NEW k \in 0..Len(s)
    PROVE  /\ IsSeq(SubSeq(s, 1, k)) /\ Len(SubSeq(s, 1, k)) = k
           /\ \A i \in 1..k : SubSeq(s, 1, k)[i] = s[i]
<1>1. PICK S : s \in Seq(S)
  BY DEF IsSeq
<1>2. SubSeq(s, 1, k) \in Seq(S)
  BY <1>1
<1> QED BY <1>1, <1>2 DEF IsSeq

\* The elements from one of them to the last.
LEMMA SeqSuffix ==
    ASSUME NEW s, IsSeq(s), NEW k \in 0..Len(s)
    PROVE  /\ IsSeq(SubSeq(s, k + 1, Len(s))) /\ Len(SubSeq(s, k + 1, Len(s))) = Len(s) - k
           /\ \A i \in 1..(Len(s) - k) : SubSeq(s, k + 1, Len(s))[i] = s[k + i]
<1>1. PICK S : s \in Seq(S)
  BY DEF IsSeq
<1>2. Len(s) \in Nat /\ k \in Nat /\ k <= Len(s)
  BY <1>1
<1>3. SubSeq(s, k + 1, Len(s)) \in Seq(S)
  BY <1>1, <1>2
<1>4. Len(SubSeq(s, k + 1, Len(s))) = Len(s) - k
  BY <1>1, <1>2
<1>5. \A i \in 1..(Len(s) - k) : SubSeq(s, k + 1, Len(s))[i] = s[k + i]
  BY <1>1, <1>2
<1> QED BY <1>3, <1>4, <1>5 DEF IsSeq

\* Two sequences after each other.
LEMMA SeqConcat ==
    ASSUME NEW s, IsSeq(s), NEW t, IsSeq(t)
    PROVE  /\ IsSeq(s \o t) /\ Len(s \o t) = Len(s) + Len(t)
           /\ \A i \in 1..Len(s) : (s \o t)[i] = s[i]
           /\ \A i \in 1..Len(t) : (s \o t)[Len(s) + i] = t[i]
<1>1. PICK S : s \in Seq(S)
  BY DEF IsSeq
<1>2. PICK T : t \in Seq(T)
  BY DEF IsSeq
<1>3. s \in Seq(S \cup T) /\ t \in Seq(S \cup T)
  BY <1>1, <1>2
<1>4. s \o t \in Seq(S \cup T)
  BY <1>3
<1> QED BY <1>1, <1>2, <1>4 DEF IsSeq

\* One event more changes no earlier prefix of a log.
LEMMA AppendKeepsPrefix ==
    ASSUME NEW s, IsSeq(s), NEW e, NEW k \in 0..Len(s)
    PROVE  SubSeq(Append(s, e), 1, k) = SubSeq(s, 1, k)
<1> DEFINE longer == Append(s, e)
           a == SubSeq(longer, 1, k)
           b == SubSeq(s, 1, k)
<1>1. Len(s) \in Nat
  BY SeqBasics
<1>2. IsSeq(longer) /\ Len(longer) = Len(s) + 1 /\ \A i \in 1..Len(s) : longer[i] = s[i]
  BY SeqAppend
<1> HIDE DEF longer
<1>3. IsSeq(b) /\ Len(b) = k /\ \A i \in 1..k : b[i] = s[i]
  BY SeqPrefix
<1>4. k \in 0..Len(longer)
  BY <1>1, <1>2
<1>5. IsSeq(a) /\ Len(a) = k /\ \A i \in 1..k : a[i] = longer[i]
  BY <1>2, <1>4, SeqPrefix
<1> HIDE DEF a, b
<1>6. \A i \in 1..k : a[i] = b[i]
  BY <1>1, <1>2, <1>3, <1>5
<1>7. a = b
  BY <1>3, <1>5, <1>6, SameElements
<1> QED BY <1>7 DEF a, b, longer

\* Sequences that begin alike have the same prefix.
LEMMA SamePrefix ==
    ASSUME NEW s, IsSeq(s), NEW t, IsSeq(t), NEW k \in Nat, k <= Len(s), k <= Len(t),
           \A i \in 1..k : s[i] = t[i]
    PROVE  SubSeq(s, 1, k) = SubSeq(t, 1, k)
<1>1. k \in 0..Len(s) /\ k \in 0..Len(t)
  BY SeqBasics
<1>2. /\ IsSeq(SubSeq(s, 1, k)) /\ Len(SubSeq(s, 1, k)) = k
      /\ \A i \in 1..k : SubSeq(s, 1, k)[i] = s[i]
  BY <1>1, SeqPrefix
<1>3. /\ IsSeq(SubSeq(t, 1, k)) /\ Len(SubSeq(t, 1, k)) = k
      /\ \A i \in 1..k : SubSeq(t, 1, k)[i] = t[i]
  BY <1>1, SeqPrefix
<1>4. \A i \in 1..k : SubSeq(s, 1, k)[i] = SubSeq(t, 1, k)[i]
  BY <1>2, <1>3
<1> QED BY <1>2, <1>3, <1>4, SameElements

\* The whole of a log is a prefix of it.
LEMMA WholePrefix ==
    ASSUME NEW s, IsSeq(s)
    PROVE  SubSeq(s, 1, Len(s)) = s
<1> DEFINE a == SubSeq(s, 1, Len(s))
<1>1. Len(s) \in Nat
  BY SeqBasics
<1>2. IsSeq(a) /\ Len(a) = Len(s) /\ \A i \in 1..Len(s) : a[i] = s[i]
  BY <1>1, SeqPrefix
<1> HIDE DEF a
<1>3. a = s
  BY <1>2, SameElements
<1> QED BY <1>3 DEF a

----------------------------------------------------------------------------
(* Sets and sequences of sequences as sequences.                           *)

\* The values a function takes on a finite set are finitely many.
LEMMA FiniteImage ==
    ASSUME NEW S, IsFiniteSet(S), NEW f
    PROVE  IsFiniteSet({f[x] : x \in S})
<1> DEFINE T == {f[x] : x \in S}
           g == [x \in S |-> f[x]]
<1>1. g \in Surjection(S, T)
  BY DEF Surjection
<1> QED BY <1>1, FS_Surjection

\* A finite set, put in some order, is a sequence of its elements.
LEMMA SetInOrder ==
    ASSUME NEW S, IsFiniteSet(S)
    PROVE  /\ IsSeq(SetToSeq(S))
           /\ \A i \in 1..Len(SetToSeq(S)) : SetToSeq(S)[i] \in S
<1> DEFINE n == Cardinality(S)
           s == SetToSeq(S)
<1>1. n \in Nat /\ ExistsBijection(1..n, S)
  BY FS_CardinalityType
<1>2. PICK f \in [1..n -> S] : IsInjective(f)
  BY <1>1 DEF ExistsBijection, Bijection, Injection
<1>3. s \in [1..n -> S]
  BY <1>2 DEF SetToSeq
<1> HIDE DEF s
<1>4. s \in Seq(S)
  BY <1>1, <1>3
<1> QED BY <1>4 DEF IsSeq, s

\* A sequence of sequences, one after the other, holds nothing but their elements.
IsFlat(f, n, seqs) ==
    f = [i \in 1..n |-> IF i = 1 THEN seqs[i] ELSE f[i - 1] \o seqs[i]]

LEMMA FlatExists ==
    ASSUME NEW seqs, NEW n \in Nat
    PROVE  \E f : IsFlat(f, n, seqs)
<1> DEFINE G == {m \in 0..n : \E f : IsFlat(f, m, seqs)}
<1>1. 0 \in G
  <2> DEFINE f == [i \in 1..0 |-> << >>]
  <2>1. f = [i \in 1..0 |-> IF i = 1 THEN seqs[i] ELSE f[i - 1] \o seqs[i]]
    OBVIOUS
  <2>2. IsFlat(f, 0, seqs)
    BY <2>1 DEF IsFlat
  <2> QED BY <2>2
<1>2. ASSUME NEW m \in 1..n, m - 1 \in G PROVE m \in G
  <2>1. PICK g : IsFlat(g, m - 1, seqs)
    BY <1>2
  <2> DEFINE last == IF m = 1 THEN seqs[m] ELSE g[m - 1] \o seqs[m]
             f == [i \in 1..m |-> IF i = m THEN last ELSE g[i]]
             next == [i \in 1..m |-> IF i = 1 THEN seqs[i] ELSE f[i - 1] \o seqs[i]]
  <2>2. ASSUME NEW i \in 1..m PROVE f[i] = next[i]
    <3>1. i # 1 => i - 1 \in 1..m /\ i - 1 # m
      OBVIOUS
    <3>2. CASE i = m
      <4>1. f[i] = last
        BY <3>2
      <4>2. m # 1 => f[m - 1] = g[m - 1]
        BY <3>1, <3>2
      <4> QED BY <3>2, <4>1, <4>2
    <3>3. CASE i # m
      <4>1. i \in 1..(m - 1)
        BY <3>3
      <4>2. g[i] = IF i = 1 THEN seqs[i] ELSE g[i - 1] \o seqs[i]
        BY <2>1, <4>1 DEF IsFlat
      <4>3. f[i] = g[i] /\ (i # 1 => f[i - 1] = g[i - 1])
        BY <3>1, <3>3, <4>1
      <4> QED BY <4>2, <4>3
    <3> QED BY <3>2, <3>3
  <2>3. f = next
    BY <2>2
  <2>4. IsFlat(f, m, seqs)
    BY <2>3 DEF IsFlat
  <2> QED BY <2>4
<1> HIDE DEF G
<1>3. n \in G
  BY <1>1, <1>2, UpTo
<1> QED BY <1>3 DEF G

LEMMA FlattenedElements ==
    ASSUME NEW seqs, IsSeq(seqs), \A i \in 1..Len(seqs) : IsSeq(seqs[i])
    PROVE  /\ IsSeq(FlattenSeq(seqs))
           /\ \A j \in 1..Len(FlattenSeq(seqs)) :
                 \E i \in 1..Len(seqs) : \E k \in 1..Len(seqs[i]) :
                     FlattenSeq(seqs)[j] = seqs[i][k]
<1> DEFINE n == Len(seqs)
           Among(s) == /\ IsSeq(s)
                       /\ \A j \in 1..Len(s) : \E i \in 1..n : \E k \in 1..Len(seqs[i]) :
                             s[j] = seqs[i][k]
<1>1. n \in Nat
  BY SeqBasics
<1>2. CASE n = 0
  <2>1. FlattenSeq(seqs) = seqs
    BY <1>2 DEF FlattenSeq
  <2> QED BY <1>2, <2>1
<1>3. CASE n # 0
  <2> DEFINE f == CHOOSE g : IsFlat(g, n, seqs)
  <2>1. IsFlat(f, n, seqs)
    BY <1>1, FlatExists
  <2>2. FlattenSeq(seqs) = f[n]
    BY <1>3 DEF FlattenSeq, IsFlat
  <2> HIDE DEF f
  <2> DEFINE G == {m \in 0..n : m # 0 => Among(f[m])}
  <2>3. 0 \in G
    BY <1>1
  <2>4. ASSUME NEW m \in 1..n, m - 1 \in G PROVE m \in G
    <3>1. f[m] = IF m = 1 THEN seqs[m] ELSE f[m - 1] \o seqs[m]
      BY <2>1 DEF IsFlat
    <3>2. Among(seqs[m])
      OBVIOUS
    <3>3. CASE m = 1
      BY <1>1, <3>1, <3>2, <3>3
    <3>4. CASE m # 1
      <4> DEFINE s == f[m - 1]
                 t == seqs[m]
                 u == s \o t
      <4>1. Among(s)
        BY <1>1, <2>4, <3>4
      <4> HIDE DEF s, t
      <4>2. /\ IsSeq(u) /\ Len(u) = Len(s) + Len(t)
            /\ \A j \in 1..Len(s) : u[j] = s[j]
            /\ \A j \in 1..Len(t) : u[Len(s) + j] = t[j]
        BY <3>2, <4>1, SeqConcat DEF t
      <4>3. Len(s) \in Nat /\ Len(t) \in Nat
        BY <3>2, <4>1, SeqBasics DEF t
      <4> HIDE DEF u
      <4>4. \A j \in 1..Len(u) :
                j \in 1..Len(s) \/ (j - Len(s) \in 1..Len(t) /\ Len(s) + (j - Len(s)) = j)
        BY <4>2, <4>3
      <4>5. \A j \in 1..Len(u) : \E i \in 1..n : \E k \in 1..Len(seqs[i]) : u[j] = seqs[i][k]
        <5>1. ASSUME NEW j \in 1..Len(u)
              PROVE  \E i \in 1..n : \E k \in 1..Len(seqs[i]) : u[j] = seqs[i][k]
          <6>1. CASE j \in 1..Len(s)
            BY <4>1, <4>2, <6>1, ZenonT(60)
          <6>2. CASE j - Len(s) \in 1..Len(t) /\ Len(s) + (j - Len(s)) = j
            <7>1. u[j] = t[j - Len(s)]
              BY <4>2, <6>2
            <7> QED BY <6>2, <7>1 DEF t
          <6> QED BY <4>4, <6>1, <6>2
        <5> QED BY <5>1
      <4>6. f[m] = u
        BY <3>1, <3>4 DEF s, t, u
      <4> HIDE DEF Among
      <4>7. Among(u)
        BY <4>2, <4>5 DEF Among
      <4> QED BY <1>1, <4>6, <4>7
    <3> QED BY <3>3, <3>4
  <2> HIDE DEF G
  <2>5. \A m \in 1..n : m - 1 \in G => m \in G
    BY <2>4
  <2>6. \A m \in 0..n : m \in G
    BY <1>1, <2>3, <2>5, UpTo
  <2>7. Among(f[n])
    BY <1>1, <1>3, <2>6 DEF G
  <2> QED BY <2>2, <2>7
<1> QED BY <1>2, <1>3

----------------------------------------------------------------------------
(* The fold.                                                               *)

IsFold(f, n, base, events) ==
    f = [s \in SUBSET (1..n) |->
            IF s = {} THEN base ELSE Applied(f[s \ {Max(s)}], events[Max(s)])]

\* The function replay is defined by exists.
LEMMA FoldExists ==
    ASSUME NEW base, NEW events, NEW n \in Nat
    PROVE  \E f : IsFold(f, n, base, events)
<1> DEFINE T == {k \in Nat : ~ \E f : IsFold(f, k, base, events)}
<1>1. SUFFICES ASSUME T # {} PROVE FALSE
  OBVIOUS
<1>2. PICK k \in T : \A y \in T : k <= y
  BY <1>1, NatMin
<1>3. CASE k = 0
  <2> DEFINE f == [s \in SUBSET (1..k) |-> base]
  <2>1. \A s \in SUBSET (1..k) : s = {}
    BY <1>3
  <2>2. IsFold(f, k, base, events)
    BY <2>1 DEF IsFold
  <2> QED BY <2>2
<1>4. CASE k # 0
  <2>1. k - 1 \in Nat /\ k - 1 \notin T
    BY <1>2, <1>4
  <2>2. PICK g : IsFold(g, k - 1, base, events)
    BY <2>1
  <2> DEFINE f == [s \in SUBSET (1..k) |->
                     IF k \in s THEN Applied(g[s \ {k}], events[k]) ELSE g[s]]
  <2>3. ASSUME NEW s \in SUBSET (1..k)
        PROVE  f[s] = IF s = {} THEN base ELSE Applied(f[s \ {Max(s)}], events[Max(s)])
    <3>1. CASE k \in s
      <4>1. Max(s) = k
        <5>1. \A y \in s : y \in Int /\ k >= y
          OBVIOUS
        <5> QED BY <3>1, <5>1, MaxOf
      <4>2. s \ {k} \in SUBSET (1..k) /\ k \notin s \ {k}
        OBVIOUS
      <4>3. f[s \ {k}] = g[s \ {k}]
        BY <4>2
      <4> QED BY <3>1, <4>1, <4>3
    <3>2. CASE k \notin s
      <4>1. s \ {Max(s)} \in SUBSET (1..k) /\ k \notin s \ {Max(s)}
        BY <3>2
      <4>2. s \in SUBSET (1..(k - 1))
        <5>1. \A i \in s : i \in 1..k /\ i # k
          BY <3>2
        <5>2. \A i \in 1..k : i # k => i \in 1..(k - 1)
          BY <2>1
        <5> QED BY <5>1, <5>2
      <4>3. f[s] = g[s] /\ f[s \ {Max(s)}] = g[s \ {Max(s)}]
        BY <3>2, <4>1
      <4>4. g[s] = IF s = {} THEN base ELSE Applied(g[s \ {Max(s)}], events[Max(s)])
        BY <2>2, <4>2 DEF IsFold
      <4> QED BY <4>3, <4>4
    <3> QED BY <3>1, <3>2
  <2> DEFINE h == [s \in SUBSET (1..k) |->
                     IF s = {} THEN base ELSE Applied(f[s \ {Max(s)}], events[Max(s)])]
  <2>4. \A s \in SUBSET (1..k) : f[s] = h[s]
    BY <2>3
  <2>5. f = h
    BY <2>4
  <2>6. IsFold(f, k, base, events)
    BY <2>5 DEF IsFold
  <2> QED BY <2>6
<1> QED BY <1>3, <1>4

\* Replay goes from state to state: states[k] is what the first k events lead to.
IsRun(states, base, events) ==
    /\ states[0] = base
    /\ \A k \in 1..Len(events) : states[k] = Applied(states[k - 1], events[k])

\* Taking the log for a value first is the fold over it.
LEMMA MaterializeIsFold ==
    ASSUME NEW base, NEW events
    PROVE  Materialize(base, events) = FoldLeft(Applied, base, events)
<1> DEFINE F(es) == FoldLeft(Applied, base, es)
<1>1. Materialize(base, events) = CHOOSE t \in {F(es) : es \in {events}} : TRUE
  BY DEF Materialize
<1> HIDE DEF F
<1>2. {F(es) : es \in {events}} = {F(events)}
  OBVIOUS
<1>3. Materialize(base, events) = F(events)
  BY <1>1, <1>2
<1> QED BY <1>3 DEF F

\* Replay is the last state of a run.
LEMMA MaterializeIsRun ==
    ASSUME NEW base, NEW events, IsSeq(events)
    PROVE  \E states : /\ IsRun(states, base, events)
                       /\ Materialize(base, events) = states[Len(events)]
<1> DEFINE n == Len(events)
           f == CHOOSE g : IsFold(g, n, base, events)
           states == [k \in 0..n |-> f[1..k]]
<1>1. n \in Nat /\ DOMAIN events = 1..n
  BY SeqBasics
<1>2. IsFold(f, n, base, events)
  BY <1>1, FoldExists
<1>3. Materialize(base, events) = f[1..n]
  BY <1>1, MaterializeIsFold DEF FoldLeft, MapThenFoldSet, IsFold
<1> HIDE DEF f
<1>4. states[0] = base
  <2>1. 1..0 = {} /\ {} \in SUBSET (1..n)
    OBVIOUS
  <2>2. f[{}] = base
    BY <1>2, <2>1 DEF IsFold
  <2> QED BY <1>1, <2>1, <2>2
<1>5. ASSUME NEW k \in 1..n PROVE states[k] = Applied(states[k - 1], events[k])
  <2>1. 1..k \in SUBSET (1..n) /\ k \in 1..k /\ \A y \in 1..k : y \in Int /\ k >= y
    BY <1>1
  <2>2. Max(1..k) = k
    BY <2>1, MaxOf
  <2>3. (1..k) \ {k} = 1..(k - 1)
    BY <1>1
  <2>4. f[1..k] = Applied(f[(1..k) \ {Max(1..k)}], events[Max(1..k)])
    BY <1>2, <2>1 DEF IsFold
  <2>5. k \in 0..n /\ k - 1 \in 0..n
    BY <1>1
  <2> QED BY <2>2, <2>3, <2>4, <2>5
<1>6. states[n] = f[1..n]
  BY <1>1
<1> HIDE DEF states
<1> QED BY <1>3, <1>4, <1>5, <1>6 DEF IsRun

\* Runs over logs that begin alike agree as far as the logs do.
LEMMA RunsAgree ==
    ASSUME NEW base, NEW events, NEW others, NEW f, NEW g,
           IsRun(f, base, events), IsRun(g, base, others),
           Len(events) \in Nat, Len(others) \in Nat,
           NEW len \in Nat, len <= Len(events), len <= Len(others),
           \A i \in 1..len : events[i] = others[i]
    PROVE  f[len] = g[len]
<1> DEFINE T == {k \in 0..len : f[k] # g[k]}
<1>1. SUFFICES ASSUME T # {} PROVE FALSE
  OBVIOUS
<1>2. PICK k \in T : \A y \in T : k <= y
  <2>1. T \subseteq Nat
    OBVIOUS
  <2> HIDE DEF T
  <2> QED BY <1>1, <2>1, NatMin
<1>3. k \in 0..len /\ k # 0 /\ f[k] # g[k]
  BY DEF IsRun
<1>4. k - 1 \in 0..len /\ f[k - 1] = g[k - 1]
  BY <1>2, <1>3
<1>5. k \in 1..Len(events) /\ k \in 1..Len(others) /\ events[k] = others[k]
  BY <1>3
<1>6. f[k] = Applied(f[k - 1], events[k]) /\ g[k] = Applied(g[k - 1], others[k])
  BY <1>5 DEF IsRun
<1> QED BY <1>3, <1>4, <1>5, <1>6

----------------------------------------------------------------------------
(* Replay, event by event.                                                 *)

\* The states of a run are replay of the events so far.
LEMMA RunStates ==
    ASSUME NEW base, NEW events, IsSeq(events), NEW f, IsRun(f, base, events),
           NEW k \in 0..Len(events)
    PROVE  Materialize(base, SubSeq(events, 1, k)) = f[k]
<1> DEFINE start == SubSeq(events, 1, k)
<1>1. Len(events) \in Nat /\ k \in Nat /\ k <= Len(events)
  BY SeqBasics
<1>2. IsSeq(start) /\ Len(start) = k /\ \A i \in 1..k : start[i] = events[i]
  BY SeqPrefix
<1> HIDE DEF start
<1>3. PICK g : IsRun(g, base, start) /\ Materialize(base, start) = g[k]
  BY <1>2, MaterializeIsRun
<1>4. g[k] = f[k]
  BY <1>1, <1>2, <1>3, RunsAgree
<1> QED BY <1>3, <1>4 DEF start

\* An empty log leaves the baseline as it is.
LEMMA MaterializeEmpty ==
    ASSUME NEW base
    PROVE  Materialize(base, << >>) = base
<1>1. IsSeq(<< >>) /\ Len(<< >>) = 0
  BY DEF IsSeq
<1>2. PICK f : IsRun(f, base, << >>) /\ Materialize(base, << >>) = f[0]
  BY <1>1, MaterializeIsRun
<1> QED BY <1>2 DEF IsRun

\* Taking the state for a value first is Apply.
LEMMA AppliedIsApply ==
    ASSUME NEW state, NEW e
    PROVE  Applied(state, e) = Apply(state, e)
<1>1. {Apply(s, e) : s \in {state}} = {Apply(state, e)}
  OBVIOUS
<1> QED BY <1>1 DEF Applied

\* The k-th event is applied to what the ones before it lead to.
LEMMA MaterializeStep ==
    ASSUME NEW base, NEW events, IsSeq(events), NEW k \in 1..Len(events)
    PROVE  Materialize(base, SubSeq(events, 1, k))
               = Apply(Materialize(base, SubSeq(events, 1, k - 1)), events[k])
<1>1. Len(events) \in Nat
  BY SeqBasics
<1>2. PICK f : IsRun(f, base, events)
  BY MaterializeIsRun
<1>3. k \in 0..Len(events) /\ k - 1 \in 0..Len(events)
  BY <1>1
<1>4. Materialize(base, SubSeq(events, 1, k)) = f[k]
  BY <1>2, <1>3, RunStates
<1>5. Materialize(base, SubSeq(events, 1, k - 1)) = f[k - 1]
  BY <1>2, <1>3, RunStates
<1>6. f[k] = Applied(f[k - 1], events[k])
  BY <1>2 DEF IsRun
<1> QED BY <1>4, <1>5, <1>6, AppliedIsApply

\* A log that grows by an event changes the state by that event.
LEMMA MaterializeAppend ==
    ASSUME NEW base, NEW events, IsSeq(events), NEW e
    PROVE  Materialize(base, Append(events, e)) = Apply(Materialize(base, events), e)
<1> DEFINE n == Len(events)
           longer == Append(events, e)
<1>1. n \in Nat
  BY SeqBasics
<1>2. /\ IsSeq(longer) /\ Len(longer) = n + 1 /\ longer[n + 1] = e
      /\ \A i \in 1..n : longer[i] = events[i]
  BY SeqAppend
<1> HIDE DEF longer
<1>3. SubSeq(longer, 1, n + 1) = longer
  <2>1. n + 1 \in 0..Len(longer)
    BY <1>1, <1>2
  <2>2. /\ IsSeq(SubSeq(longer, 1, n + 1)) /\ Len(SubSeq(longer, 1, n + 1)) = n + 1
        /\ \A i \in 1..(n + 1) : SubSeq(longer, 1, n + 1)[i] = longer[i]
    BY <1>2, <2>1, SeqPrefix
  <2> QED BY <1>2, <2>2, SameElements
<1>4. SubSeq(longer, 1, n) = events
  <2>1. n \in 0..Len(longer)
    BY <1>1, <1>2
  <2>2. /\ IsSeq(SubSeq(longer, 1, n)) /\ Len(SubSeq(longer, 1, n)) = n
        /\ \A i \in 1..n : SubSeq(longer, 1, n)[i] = longer[i]
    BY <1>2, <2>1, SeqPrefix
  <2> QED BY <1>2, <2>2, SameElements
<1>5. n + 1 \in 1..Len(longer) /\ (n + 1) - 1 = n
  BY <1>1, <1>2
<1>6. Materialize(base, SubSeq(longer, 1, n + 1))
          = Apply(Materialize(base, SubSeq(longer, 1, n)), longer[n + 1])
  BY <1>2, <1>5, MaterializeStep, ZenonT(60)
<1> QED BY <1>2, <1>3, <1>4, <1>6 DEF longer

\* Replay over the state its beginning leads to is replay of the whole log: folding
\* any number of events into the baseline changes no task (compact, and every load
\* of a compacted store).
THEOREM FoldingChangesNothing ==
    ASSUME NEW base, NEW events, IsSeq(events), NEW k \in 0..Len(events)
    PROVE  Materialize(Materialize(base, SubSeq(events, 1, k)),
                       SubSeq(events, k + 1, Len(events)))
               = Materialize(base, events)
<1> DEFINE n    == Len(events)
           rest == SubSeq(events, k + 1, n)
<1>1. n \in Nat /\ k \in Nat /\ k <= n
  BY SeqBasics
<1>2. IsSeq(rest) /\ Len(rest) = n - k /\ \A i \in 1..(n - k) : rest[i] = events[k + i]
  BY SeqSuffix
<1>3. PICK f : IsRun(f, base, events) /\ Materialize(base, events) = f[n]
  BY MaterializeIsRun
<1>4. Materialize(base, SubSeq(events, 1, k)) = f[k]
  BY <1>3, RunStates
<1> HIDE DEF rest
<1>5. PICK g : IsRun(g, f[k], rest) /\ Materialize(f[k], rest) = g[n - k]
  BY <1>2, MaterializeIsRun
<1> DEFINE h == [i \in 0..(n - k) |-> f[k + i]]
<1>6. IsRun(h, f[k], rest)
  <2>1. h[0] = f[k]
    BY <1>1
  <2>2. ASSUME NEW i \in 1..(n - k) PROVE h[i] = Applied(h[i - 1], rest[i])
    <3>1. k + i \in 1..n /\ i \in 0..(n - k) /\ i - 1 \in 0..(n - k) /\ k + (i - 1) = (k + i) - 1
      BY <1>1
    <3>2. f[k + i] = Applied(f[(k + i) - 1], events[k + i])
      BY <1>3, <3>1 DEF IsRun
    <3> QED BY <1>2, <3>1, <3>2
  <2> HIDE DEF h
  <2> QED BY <1>2, <2>1, <2>2 DEF IsRun
<1>7. h[n - k] = f[n]
  BY <1>1
<1> HIDE DEF h
<1>8. g[n - k] = h[n - k]
  <2>1. n - k \in Nat /\ Len(rest) = n - k
    BY <1>1, <1>2
  <2> QED BY <1>5, <1>6, <2>1, RunsAgree
<1> QED BY <1>3, <1>4, <1>5, <1>7, <1>8 DEF rest

----------------------------------------------------------------------------
(* Logs after each other, and logs that say the same.                      *)

\* Replay of one log after another.
LEMMA MaterializeConcat ==
    ASSUME NEW base, NEW a, IsSeq(a), NEW b, IsSeq(b)
    PROVE  Materialize(base, a \o b) = Materialize(Materialize(base, a), b)
<1> DEFINE all == a \o b
           m == Len(a)
           n == Len(b)
<1>1. m \in Nat /\ n \in Nat
  BY SeqBasics
<1>2. /\ IsSeq(all) /\ Len(all) = m + n
      /\ \A i \in 1..m : all[i] = a[i]
      /\ \A i \in 1..n : all[m + i] = b[i]
  BY SeqConcat
<1> HIDE DEF all
<1>3. m \in 0..Len(all) /\ Len(all) - m = n
  BY <1>1, <1>2
<1>4. SubSeq(all, 1, m) = a
  <2> DEFINE start == SubSeq(all, 1, m)
  <2>1. IsSeq(start) /\ Len(start) = m /\ \A i \in 1..m : start[i] = all[i]
    BY <1>2, <1>3, SeqPrefix
  <2> HIDE DEF start
  <2>2. start = a
    BY <1>2, <2>1, SameElements
  <2> QED BY <2>2 DEF start
<1>5. SubSeq(all, m + 1, Len(all)) = b
  <2> DEFINE rest == SubSeq(all, m + 1, Len(all))
  <2>1. IsSeq(rest) /\ Len(rest) = n /\ \A i \in 1..n : rest[i] = all[m + i]
    BY <1>2, <1>3, SeqSuffix, ZenonT(60)
  <2> HIDE DEF rest
  <2>2. rest = b
    BY <1>2, <2>1, SameElements
  <2> QED BY <2>2 DEF rest
<1>6. Materialize(Materialize(base, SubSeq(all, 1, m)), SubSeq(all, m + 1, Len(all)))
          = Materialize(base, all)
  BY <1>2, <1>3, FoldingChangesNothing
<1> QED BY <1>4, <1>5, <1>6 DEF all

\* Replay looks at neither the seq of an event nor the mark of what it undoes.
SameEffect(d, e) == d.op = e.op /\ d.id = e.id /\ d.payload = e.payload /\ d.ts = e.ts

LEMMA ApplySameEffect ==
    ASSUME NEW state, NEW d, NEW e, SameEffect(d, e)
    PROVE  Apply(state, d) = Apply(state, e)
BY DEF SameEffect, Apply, IsOrphan, Touched, SetFields

\* Logs whose events have the same effects lead to the same state.
LEMMA MaterializeSameEffects ==
    ASSUME NEW base, NEW a, IsSeq(a), NEW b, IsSeq(b), Len(a) = Len(b),
           \A i \in 1..Len(a) : SameEffect(a[i], b[i])
    PROVE  Materialize(base, a) = Materialize(base, b)
<1> DEFINE n == Len(a)
<1>1. n \in Nat /\ n \in 0..n
  BY SeqBasics
<1>2. PICK f : IsRun(f, base, a) /\ Materialize(base, a) = f[n]
  BY MaterializeIsRun
<1>3. PICK g : IsRun(g, base, b) /\ Materialize(base, b) = g[n]
  BY MaterializeIsRun
<1> DEFINE G == {k \in 0..n : f[k] = g[k]}
<1>4. 0 \in G
  BY <1>1, <1>2, <1>3 DEF IsRun
<1>5. ASSUME NEW k \in 1..n, k - 1 \in G PROVE k \in G
  <2>1. f[k] = Apply(f[k - 1], a[k]) /\ g[k] = Apply(g[k - 1], b[k])
    BY <1>2, <1>3, AppliedIsApply DEF IsRun
  <2>2. f[k - 1] = g[k - 1] /\ SameEffect(a[k], b[k]) /\ k \in 0..n
    BY <1>1, <1>5
  <2> QED BY <2>1, <2>2, ApplySameEffect
<1>6. \A k \in 1..n : k - 1 \in G => k \in G
  BY <1>5
<1> HIDE DEF G
<1>7. \A k \in 0..n : k \in G
  BY <1>1, <1>4, <1>6, UpTo
<1> QED BY <1>1, <1>2, <1>3, <1>7 DEF G

\* A task map is a function, and stays one.
IsFcn(f) == f = [x \in DOMAIN f |-> f[x]]

LEMMA MaterializeKeepsFcn ==
    ASSUME NEW base, IsFcn(base), NEW events, IsSeq(events)
    PROVE  IsFcn(Materialize(base, events))
<1> DEFINE n == Len(events)
<1>1. n \in Nat /\ n \in 0..n
  BY SeqBasics
<1>2. PICK f : IsRun(f, base, events) /\ Materialize(base, events) = f[n]
  BY MaterializeIsRun
<1> DEFINE G == {k \in 0..n : IsFcn(f[k])}
<1>3. 0 \in G
  BY <1>1, <1>2 DEF IsRun
<1>4. ASSUME NEW k \in 1..n, k - 1 \in G PROVE k \in G
  <2>1. f[k] = Apply(f[k - 1], events[k])
    BY <1>2, AppliedIsApply DEF IsRun
  <2>2. IsFcn(f[k - 1]) /\ k \in 0..n
    BY <1>1, <1>4
  <2>3. \/ f[k] = f[k - 1]
        \/ f[k] = Without(f[k - 1], {events[k].id})
        \/ \E t : f[k] = Put(f[k - 1], events[k].id, t)
    BY <2>1 DEF Apply
  <2>4. IsFcn(f[k])
    BY <2>2, <2>3 DEF IsFcn, Without, Restrict, Put
  <2> QED BY <2>2, <2>4
<1>5. \A k \in 1..n : k - 1 \in G => k \in G
  BY <1>4
<1> HIDE DEF G
<1>6. \A k \in 0..n : k \in G
  BY <1>1, <1>3, <1>5, UpTo
<1> QED BY <1>1, <1>2, <1>6 DEF G

\* Compaction folds some beginning of the log, and never its last event.
LEMMA SplitIsInLog ==
    ASSUME NEW events, IsSeq(events), NEW keep \in Nat, NEW now
    PROVE  /\ RetentionSplit(events, keep, 0, now) \in 0..Len(events)
           /\ Len(events) # 0 => RetentionSplit(events, keep, 0, now) < Len(events)
<1> DEFINE n == Len(events)
           byCount == Max({n - keep, 0})
           byLast == Max({n - 1, 0})
<1>1. n \in Nat
  BY SeqBasics
<1>2. RetentionSplit(events, keep, 0, now) = Min({byCount, n, byLast})
  BY DEF RetentionSplit
<1>3. byCount \in 0..n /\ byLast \in 0..n
  <2>1. \A a \in Int : a <= n => Max({a, 0}) \in 0..n
    BY <1>1, MaxWithZero
  <2> QED BY <1>1, <2>1
<1> HIDE DEF byCount, byLast
<1> DEFINE three == {byCount, n, byLast}
<1>4. PICK m \in three : \A y \in three : y \in Int /\ m <= y
  BY <1>1, <1>3
<1>5. m \in 0..n /\ (n # 0 => m < n)
  <2>1. n # 0 => byLast = n - 1
    <3>1. \A a \in Int : a >= 0 => Max({a, 0}) = a
      BY MaxWithZero
    <3> QED BY <1>1, <3>1 DEF byLast
  <2>2. m <= byLast
    BY <1>4
  <2> QED BY <1>1, <1>3, <2>1, <2>2
<1> HIDE DEF three
<1>6. Min(three) = m
  BY <1>4, MinOf
<1> QED BY <1>2, <1>5, <1>6 DEF three

----------------------------------------------------------------------------
(* Leaving events out.                                                     *)

IsPick(kept, n, events, places) ==
    kept = [i \in 0..n |->
               IF i = 0 THEN << >>
               ELSE IF i \in places THEN Append(kept[i - 1], events[i]) ELSE kept[i - 1]]

\* The function it is defined by exists.
LEMMA PickExists ==
    ASSUME NEW events, NEW places, NEW n \in Nat
    PROVE  \E kept : IsPick(kept, n, events, places)
<1> DEFINE G == {m \in 0..n : \E kept : IsPick(kept, m, events, places)}
<1>1. 0 \in G
  <2> DEFINE kept == [i \in 0..0 |-> << >>]
  <2>1. IsPick(kept, 0, events, places)
    BY DEF IsPick
  <2> QED BY <2>1
<1>2. ASSUME NEW m \in 1..n, m - 1 \in G PROVE m \in G
  <2>1. PICK g : IsPick(g, m - 1, events, places)
    BY <1>2
  <2> DEFINE last == IF m \in places THEN Append(g[m - 1], events[m]) ELSE g[m - 1]
             kept == [i \in 0..m |-> IF i = m THEN last ELSE g[i]]
             next == [i \in 0..m |->
                         IF i = 0 THEN << >>
                         ELSE IF i \in places THEN Append(kept[i - 1], events[i])
                         ELSE kept[i - 1]]
  <2>2. ASSUME NEW i \in 0..m PROVE kept[i] = next[i]
    <3>1. CASE i = m
      <4>1. m - 1 \in 0..m /\ m - 1 # m /\ m # 0
        OBVIOUS
      <4> QED BY <3>1, <4>1
    <3>2. CASE i # m
      <4>1. i \in 0..(m - 1) /\ (i # 0 => i - 1 \in 0..m /\ i - 1 # m)
        BY <3>2
      <4>2. g[i] = IF i = 0 THEN << >>
                   ELSE IF i \in places THEN Append(g[i - 1], events[i]) ELSE g[i - 1]
        BY <2>1, <4>1 DEF IsPick
      <4> QED BY <3>2, <4>1, <4>2
    <3> QED BY <3>1, <3>2
  <2>3. kept = next
    BY <2>2
  <2>4. IsPick(kept, m, events, places)
    BY <2>3 DEF IsPick
  <2> QED BY <2>4
<1> HIDE DEF G
<1>3. n \in G
  BY <1>1, <1>2, UpTo
<1> QED BY <1>3 DEF G

\* kept[k] is what is picked of the first k events.
Picks(kept, events, places) ==
    /\ kept[0] = << >>
    /\ \A k \in 1..Len(events) :
          kept[k] = IF k \in places THEN Append(kept[k - 1], events[k]) ELSE kept[k - 1]

LEMMA PickedIsRun ==
    ASSUME NEW events, Len(events) \in Nat, NEW places
    PROVE  \E kept : /\ Picks(kept, events, places)
                     /\ Picked(events, places) = kept[Len(events)]
<1> DEFINE n == Len(events)
           kept == CHOOSE f : IsPick(f, n, events, places)
<1>1. IsPick(kept, n, events, places)
  BY PickExists
<1>2. Picked(events, places) = kept[n]
  BY DEF Picked, IsPick
<1> HIDE DEF kept
<1>3. kept[0] = << >>
  BY <1>1 DEF IsPick
<1>4. ASSUME NEW k \in 1..n
      PROVE  kept[k] = IF k \in places THEN Append(kept[k - 1], events[k]) ELSE kept[k - 1]
  <2>1. k \in 0..n /\ k # 0
    OBVIOUS
  <2> QED BY <1>1, <2>1 DEF IsPick
<1> QED BY <1>2, <1>3, <1>4 DEF Picks

\* What is picked is a sequence of events from those places, in their order.
LEMMA PickedEvents ==
    ASSUME NEW events, IsSeq(events), NEW places
    PROVE  /\ IsSeq(Picked(events, places))
           /\ \E at : /\ \A i \in 1..Len(Picked(events, places)) :
                            /\ at[i] \in 1..Len(events) /\ at[i] \in places
                            /\ Picked(events, places)[i] = events[at[i]]
                      /\ \A i, j \in 1..Len(Picked(events, places)) : i < j => at[i] < at[j]
<1> DEFINE n == Len(events)
           From(s, at, k) ==
               /\ \A i \in 1..Len(s) :
                     at[i] \in 1..k /\ at[i] \in places /\ s[i] = events[at[i]]
               /\ \A i, j \in 1..Len(s) : i < j => at[i] < at[j]
<1>1. n \in Nat /\ n \in 0..n
  BY SeqBasics
<1>2. PICK kept : Picks(kept, events, places) /\ Picked(events, places) = kept[n]
  BY <1>1, PickedIsRun
<1> DEFINE G == {k \in 0..n : IsSeq(kept[k]) /\ \E at : From(kept[k], at, k)}
<1>3. 0 \in G
  <2>1. kept[0] = << >> /\ 1..0 = {} /\ 0 \in 0..n
    BY <1>1, <1>2 DEF Picks
  <2>2. IsSeq(kept[0]) /\ Len(kept[0]) = 0
    BY <2>1, SeqEmpty
  <2> QED BY <2>1, <2>2
<1>4. ASSUME NEW k \in 1..n, k - 1 \in G PROVE k \in G
  <2>1. k \in 0..n /\ k \in Int /\ \A i : i \in 1..(k - 1) => i \in 1..k /\ i < k
    BY <1>1
  <2> DEFINE s == kept[k - 1]
             m == Len(s)
  <2>2. PICK at : IsSeq(s) /\ From(s, at, k - 1)
    BY <1>4
  <2>3. m \in Nat
    BY <2>2, SeqBasics
  <2>4. CASE k \notin places
    <3>1. kept[k] = s
      BY <1>2, <2>4 DEF Picks
    <3> HIDE DEF s
    <3>2. From(kept[k], at, k)
      BY <2>1, <2>2, <3>1
    <3> QED BY <2>1, <2>2, <3>1, <3>2
  <2>5. CASE k \in places
    <3>1. kept[k] = Append(s, events[k])
      BY <1>2, <2>5 DEF Picks
    <3> HIDE DEF s
    <3>2. /\ IsSeq(kept[k]) /\ Len(kept[k]) = m + 1 /\ kept[k][m + 1] = events[k]
          /\ \A i \in 1..m : kept[k][i] = s[i]
      BY <2>2, <3>1, SeqAppend
    <3> DEFINE to == [i \in 1..(m + 1) |-> IF i = m + 1 THEN k ELSE at[i]]
    <3>3. \A i \in 1..(m + 1) : i = m + 1 \/ i \in 1..m
      BY <2>3
    <3>4. /\ to[m + 1] = k
          /\ \A i \in 1..m : to[i] = at[i]
      BY <2>3
    <3> HIDE DEF to
    <3>5. \A i \in 1..(m + 1) :
             to[i] \in 1..k /\ to[i] \in places /\ kept[k][i] = events[to[i]]
      BY <2>1, <2>2, <2>5, <3>2, <3>3, <3>4
    <3>6. ASSUME NEW i \in 1..(m + 1), NEW j \in 1..(m + 1), i < j PROVE to[i] < to[j]
      <4>1. i \in 1..m
        BY <2>3, <3>6
      <4>2. CASE j = m + 1
        BY <2>1, <2>2, <3>4, <4>1, <4>2
      <4>3. CASE j \in 1..m
        BY <2>2, <3>4, <3>6, <4>1, <4>3
      <4> QED BY <3>3, <4>2, <4>3
    <3>7. From(kept[k], to, k)
      BY <3>2, <3>5, <3>6
    <3> QED BY <2>1, <3>2, <3>7
  <2> QED BY <2>4, <2>5
<1>5. \A k \in 1..n : k - 1 \in G => k \in G
  BY <1>4
<1> HIDE DEF G
<1>6. \A k \in 0..n : k \in G
  BY <1>1, <1>3, <1>5, UpTo
<1>7. n \in G
  BY <1>1, <1>6
<1> QED BY <1>2, <1>7 DEF G

\* The first events are the ones at the first places.
LEMMA PickedPrefix ==
    ASSUME NEW events, IsSeq(events), NEW m \in 0..Len(events), NEW places,
           \A i \in 1..Len(events) : i \in places <=> i <= m
    PROVE  Picked(events, places) = SubSeq(events, 1, m)
<1>1. PICK n \in Nat : n = Len(events)
  BY SeqBasics
<1>2. PICK kept : Picks(kept, events, places) /\ Picked(events, places) = kept[n]
  BY <1>1, PickedIsRun
<1> DEFINE Least(k) == IF k <= m THEN k ELSE m
           IsFirst(s, k) == IsSeq(s) /\ Len(s) = Least(k) /\ \A i \in 1..Least(k) : s[i] = events[i]
           G == {k \in 0..n : IsFirst(kept[k], k)}
<1>3. 0 \in G
  <2>1. kept[0] = << >> /\ Least(0) = 0
    BY <1>2 DEF Picks
  <2> HIDE DEF Least
  <2> QED BY <1>1, <2>1, SeqEmpty
<1>4. ASSUME NEW k \in 1..n, k - 1 \in G PROVE k \in G
  <2>1. PICK s : s = kept[k - 1]
    OBVIOUS
  <2>2. IsFirst(s, k - 1)
    BY <1>4, <2>1
  <2>3. CASE k <= m
    <3>1. kept[k] = Append(s, events[k])
      BY <1>1, <1>2, <2>1, <2>3 DEF Picks
    <3>2. Least(k - 1) = k - 1 /\ Least(k) = k
      BY <1>1, <2>3
    <3>3. /\ IsSeq(kept[k]) /\ Len(kept[k]) = k /\ kept[k][k] = events[k]
          /\ \A i \in 1..(k - 1) : kept[k][i] = s[i]
      <4>1. Len(s) = k - 1
        BY <2>2, <3>2
      <4> QED BY <2>2, <3>1, <4>1, SeqAppend
    <3>4. \A i \in 1..k : i = k \/ i \in 1..(k - 1)
      OBVIOUS
    <3>5. \A i \in 1..k : kept[k][i] = events[i]
      BY <2>2, <3>2, <3>3, <3>4
    <3> QED BY <3>2, <3>3, <3>5
  <2>4. CASE ~ (k <= m)
    <3>1. kept[k] = s
      BY <1>1, <1>2, <2>1, <2>4 DEF Picks
    <3>2. Least(k - 1) = Least(k)
      BY <1>1, <2>4
    <3> QED BY <2>2, <3>1, <3>2
  <2> QED BY <2>3, <2>4
<1> HIDE DEF G
<1>5. n \in 0..n /\ \A k \in 0..n : k \in G
  BY <1>3, <1>4, UpTo
<1>6. Least(n) = m
  BY <1>1
<1>7. IsSeq(kept[n]) /\ Len(kept[n]) = m /\ \A i \in 1..m : kept[n][i] = events[i]
  BY <1>5, <1>6 DEF G
<1>8. IsSeq(SubSeq(events, 1, m)) /\ Len(SubSeq(events, 1, m)) = m
      /\ \A i \in 1..m : SubSeq(events, 1, m)[i] = events[i]
  BY SeqPrefix
<1>9. kept[n] = SubSeq(events, 1, m)
  BY <1>7, <1>8, SameElements
<1> QED BY <1>2, <1>9

\* Every event at one of the places is picked.
LEMMA PickedHolds ==
    ASSUME NEW events, IsSeq(events), NEW places, NEW j \in 1..Len(events), j \in places
    PROVE  \E i \in 1..Len(Picked(events, places)) : Picked(events, places)[i] = events[j]
<1>1. PICK n \in Nat : n = Len(events)
  BY SeqBasics
<1>2. PICK kept : Picks(kept, events, places) /\ Picked(events, places) = kept[n]
  BY <1>1, PickedIsRun
<1> DEFINE Has(s) == \E i \in 1..Len(s) : s[i] = events[j]
           G == {k \in 0..n : IsSeq(kept[k]) /\ (k >= j => Has(kept[k]))}
<1>3. 0 \in G
  <2>1. IsSeq(kept[0]) /\ ~ (0 >= j)
    BY <1>1, <1>2, SeqEmpty DEF Picks
  <2> QED BY <1>1, <2>1
<1>4. ASSUME NEW k \in 1..n, k - 1 \in G PROVE k \in G
  <2>1. PICK s : s = kept[k - 1]
    OBVIOUS
  <2>2. IsSeq(s) /\ (k - 1 >= j => Has(s))
    BY <1>4, <2>1
  <2>3. CASE k \in places
    <3>1. kept[k] = Append(s, events[k])
      BY <1>1, <1>2, <2>1, <2>3 DEF Picks
    <3>2. /\ IsSeq(kept[k]) /\ Len(kept[k]) = Len(s) + 1 /\ Len(s) \in Nat
          /\ \A i \in 1..Len(s) : kept[k][i] = s[i]
          /\ kept[k][Len(s) + 1] = events[k]
      BY <2>2, <3>1, SeqAppend, SeqBasics
    <3>3. CASE k = j
      <4>1. Len(s) + 1 \in 1..Len(kept[k])
        BY <3>2
      <4>2. Has(kept[k])
        BY <3>2, <3>3, <4>1
      <4> QED BY <3>2, <4>2
    <3>4. CASE k # j
      <4>1. k >= j => k - 1 >= j
        BY <1>1, <3>4
      <4>2. \A i \in 1..Len(s) : i \in 1..Len(kept[k])
        BY <3>2
      <4>3. k >= j => Has(kept[k])
        BY <2>2, <3>2, <4>1, <4>2
      <4> QED BY <3>2, <4>3
    <3> QED BY <3>3, <3>4
  <2>4. CASE k \notin places
    <3>1. kept[k] = s
      BY <1>1, <1>2, <2>1, <2>4 DEF Picks
    <3>2. k >= j => k - 1 >= j
      <4>1. k # j
        BY <2>4
      <4> QED BY <1>1, <4>1
    <3> QED BY <2>2, <3>1, <3>2
  <2> QED BY <2>3, <2>4
<1> HIDE DEF G
<1>5. \A k \in 0..n : k \in G
  BY <1>3, <1>4, UpTo
<1>6. n \in 0..n /\ n >= j
  BY <1>1
<1>7. Has(kept[n])
  BY <1>5, <1>6 DEF G
<1> QED BY <1>2, <1>7

\* kept[k] is what is left of the first k events without some seqs.
Keeps(kept, events, seqs) ==
    /\ kept[0] = << >>
    /\ \A k \in 1..Len(events) :
          kept[k] = IF events[k].seq \in seqs THEN kept[k - 1]
                    ELSE Append(kept[k - 1], events[k])

LEMMA DropKeeps ==
    ASSUME NEW events, Len(events) \in Nat, NEW seqs
    PROVE  \E kept : /\ Keeps(kept, events, seqs)
                     /\ DropSeqs(events, seqs) = kept[Len(events)]
<1> DEFINE places == {i \in 1..Len(events) : events[i].seq \notin seqs}
<1>1. PICK kept : Picks(kept, events, places) /\ Picked(events, places) = kept[Len(events)]
  BY PickedIsRun
<1>2. Keeps(kept, events, seqs)
  BY <1>1 DEF Picks, Keeps
<1> QED BY <1>1, <1>2 DEF DropSeqs

\* What is left of two logs that begin alike is the same as far as they do.
LEMMA KeepsAgree ==
    ASSUME NEW events, NEW others, NEW seqs, NEW f, NEW g,
           Keeps(f, events, seqs), Keeps(g, others, seqs),
           Len(events) \in Nat, Len(others) \in Nat,
           NEW len \in Nat, len <= Len(events), len <= Len(others),
           \A i \in 1..len : events[i] = others[i]
    PROVE  f[len] = g[len]
<1> DEFINE G == {k \in 0..len : f[k] = g[k]}
<1>1. 0 \in G
  BY DEF Keeps
<1>2. ASSUME NEW k \in 1..len, k - 1 \in G PROVE k \in G
  <2>1. k \in 1..Len(events) /\ k \in 1..Len(others) /\ events[k] = others[k]
    OBVIOUS
  <2> QED BY <1>2, <2>1 DEF Keeps
<1> HIDE DEF G
<1>3. \A k \in 1..len : k - 1 \in G => k \in G
  BY <1>2
<1>4. \A k \in 0..len : k \in G
  BY <1>1, <1>3, UpTo
<1>5. len \in 0..len
  OBVIOUS
<1> QED BY <1>4, <1>5 DEF G

\* What is left of the beginning of a log.
LEMMA DropPrefix ==
    ASSUME NEW events, IsSeq(events), NEW seqs, NEW kept, Keeps(kept, events, seqs),
           NEW k \in 0..Len(events)
    PROVE  DropSeqs(SubSeq(events, 1, k), seqs) = kept[k]
<1> DEFINE start == SubSeq(events, 1, k)
<1>1. Len(events) \in Nat /\ k \in Nat /\ k <= Len(events)
  BY SeqBasics
<1>2. IsSeq(start) /\ Len(start) = k /\ \A i \in 1..k : start[i] = events[i]
  BY SeqPrefix
<1> HIDE DEF start
<1>3. PICK g : Keeps(g, start, seqs) /\ DropSeqs(start, seqs) = g[k]
  BY <1>1, <1>2, DropKeeps
<1>4. g[k] = kept[k]
  BY <1>1, <1>2, <1>3, KeepsAgree
<1> QED BY <1>3, <1>4 DEF start

\* The k-th event is left out, or comes after what is left of those before it.
LEMMA DropStep ==
    ASSUME NEW events, IsSeq(events), NEW seqs, NEW k \in 1..Len(events)
    PROVE  DropSeqs(SubSeq(events, 1, k), seqs) =
               IF events[k].seq \in seqs THEN DropSeqs(SubSeq(events, 1, k - 1), seqs)
               ELSE Append(DropSeqs(SubSeq(events, 1, k - 1), seqs), events[k])
<1>1. Len(events) \in Nat
  BY SeqBasics
<1>2. PICK kept : Keeps(kept, events, seqs)
  BY <1>1, DropKeeps
<1>3. k \in 0..Len(events) /\ k - 1 \in 0..Len(events)
  BY <1>1
<1>4. DropSeqs(SubSeq(events, 1, k), seqs) = kept[k]
  BY <1>2, <1>3, DropPrefix
<1>5. DropSeqs(SubSeq(events, 1, k - 1), seqs) = kept[k - 1]
  BY <1>2, <1>3, DropPrefix
<1> QED BY <1>2, <1>4, <1>5 DEF Keeps

\* Nothing is left of nothing, and what is left of a log is a log.
LEMMA DropIsSeq ==
    ASSUME NEW events, IsSeq(events), NEW seqs
    PROVE  /\ DropSeqs(SubSeq(events, 1, 0), seqs) = << >>
           /\ \A k \in 0..Len(events) : IsSeq(DropSeqs(SubSeq(events, 1, k), seqs))
           /\ IsSeq(DropSeqs(events, seqs))
<1> DEFINE n == Len(events)
<1>1. n \in Nat /\ 0 \in 0..n /\ n \in 0..n
  BY SeqBasics
<1>2. PICK kept : Keeps(kept, events, seqs)
  BY <1>1, DropKeeps
<1>3. kept[0] = << >>
  BY <1>2 DEF Keeps
<1>4. \A k \in 0..n : DropSeqs(SubSeq(events, 1, k), seqs) = kept[k]
  BY <1>2, DropPrefix
<1>5. DropSeqs(SubSeq(events, 1, 0), seqs) = << >>
  BY <1>1, <1>3, <1>4
<1> DEFINE G == {k \in 0..n : IsSeq(kept[k])}
<1>6. 0 \in G
  BY <1>1, <1>3, SeqEmpty
<1>7. \A k \in 1..n : k - 1 \in G => k \in G
  BY <1>1, <1>2, SeqAppend DEF Keeps
<1> HIDE DEF G
<1>8. \A k \in 0..n : k \in G
  BY <1>1, <1>6, <1>7, UpTo
<1>9. \A k \in 0..n : IsSeq(DropSeqs(SubSeq(events, 1, k), seqs))
  BY <1>4, <1>8 DEF G
<1> QED BY <1>1, <1>5, <1>9, WholePrefix

\* Only the seqs that occur decide what is left.
LEMMA DropSame ==
    ASSUME NEW events, IsSeq(events), NEW a, NEW b,
           \A i \in 1..Len(events) : events[i].seq \in a <=> events[i].seq \in b
    PROVE  DropSeqs(events, a) = DropSeqs(events, b)
<1> DEFINE n == Len(events)
<1>1. n \in Nat /\ n \in 0..n
  BY SeqBasics
<1>2. PICK f : Keeps(f, events, a) /\ DropSeqs(events, a) = f[n]
  BY <1>1, DropKeeps
<1>3. PICK g : Keeps(g, events, b) /\ DropSeqs(events, b) = g[n]
  BY <1>1, DropKeeps
<1> DEFINE G == {k \in 0..n : f[k] = g[k]}
<1>4. 0 \in G
  BY <1>1, <1>2, <1>3 DEF Keeps
<1>5. \A k \in 1..n : k - 1 \in G => k \in G
  BY <1>1, <1>2, <1>3 DEF Keeps
<1> HIDE DEF G
<1>6. \A k \in 0..n : k \in G
  BY <1>1, <1>4, <1>5, UpTo
<1> QED BY <1>1, <1>2, <1>3, <1>6 DEF G

\* A log none of whose events is left out.
LEMMA DropNone ==
    ASSUME NEW events, IsSeq(events), NEW seqs, \A i \in 1..Len(events) : events[i].seq \notin seqs
    PROVE  DropSeqs(events, seqs) = events
<1> DEFINE n == Len(events)
<1>1. n \in Nat /\ n \in 0..n
  BY SeqBasics
<1>2. PICK f : Keeps(f, events, seqs) /\ DropSeqs(events, seqs) = f[n]
  BY <1>1, DropKeeps
<1> DEFINE G == {k \in 0..n : /\ IsSeq(f[k]) /\ Len(f[k]) = k
                              /\ \A i \in 1..k : f[k][i] = events[i]}
<1>3. 0 \in G
  <2>1. f[0] = << >>
    BY <1>2 DEF Keeps
  <2>2. 0 \in 0..n /\ 1..0 = {}
    BY <1>1
  <2> QED BY <2>1, <2>2, SeqEmpty
<1>4. ASSUME NEW k \in 1..n, k - 1 \in G PROVE k \in G
  <2>1. f[k] = Append(f[k - 1], events[k])
    BY <1>1, <1>2 DEF Keeps
  <2>2. /\ IsSeq(f[k - 1]) /\ Len(f[k - 1]) = k - 1
        /\ \A i \in 1..(k - 1) : f[k - 1][i] = events[i]
    BY <1>4
  <2>3. /\ IsSeq(f[k]) /\ Len(f[k]) = (k - 1) + 1 /\ f[k][(k - 1) + 1] = events[k]
        /\ \A i \in 1..(k - 1) : f[k][i] = f[k - 1][i]
    BY <2>1, <2>2, SeqAppend
  <2>4. (k - 1) + 1 = k /\ \A i \in 1..k : i = k \/ i \in 1..(k - 1)
    OBVIOUS
  <2>5. \A i \in 1..k : f[k][i] = events[i]
    BY <2>2, <2>3, <2>4
  <2> QED BY <1>1, <2>3, <2>4, <2>5
<1>5. \A k \in 1..n : k - 1 \in G => k \in G
  BY <1>4
<1> HIDE DEF G
<1>6. \A k \in 0..n : k \in G
  BY <1>1, <1>3, <1>5, UpTo
<1>7. IsSeq(f[n]) /\ Len(f[n]) = n /\ \A i \in 1..n : f[n][i] = events[i]
  BY <1>1, <1>6 DEF G
<1> QED BY <1>2, <1>7, SameElements

\* Leaving out a beginning of the log, and after it events that change nothing,
\* leaves the state: over what the beginning led to, the rest leads where it did.
LEMMA DropKeepsState ==
    ASSUME NEW base, NEW events, IsSeq(events), NEW f, IsRun(f, base, events), NEW seqs,
           NEW split \in 0..Len(events),
           \A i \in 1..Len(events) :
              IF i <= split THEN events[i].seq \in seqs
              ELSE events[i].seq \in seqs => f[i] = f[i - 1]
    PROVE  \A k \in split..Len(events) :
              Materialize(f[split], DropSeqs(SubSeq(events, 1, k), seqs)) = f[k]
<1> DEFINE n == Len(events)
           left(k) == DropSeqs(SubSeq(events, 1, k), seqs)
           from(k) == IF k <= split THEN f[split] ELSE f[k]
<1>1. n \in Nat /\ split \in Nat /\ split <= n
  BY SeqBasics
<1> DEFINE G == {k \in 0..n : /\ k <= split => left(k) = << >>
                              /\ Materialize(f[split], left(k)) = from(k)}
<1>2. 0 \in G
  <2>1. left(0) = << >>
    BY DropIsSeq
  <2> QED BY <1>1, <2>1, MaterializeEmpty
<1>3. ASSUME NEW k \in 1..n, k - 1 \in G PROVE k \in G
  <2>1. k - 1 \in 0..n /\ k \in 0..n
    BY <1>1
  <2>2. left(k) = IF events[k].seq \in seqs THEN left(k - 1) ELSE Append(left(k - 1), events[k])
    BY DropStep
  <2>3. IsSeq(left(k - 1))
    BY <2>1, DropIsSeq
  <2>4. Materialize(f[split], left(k - 1)) = from(k - 1)
    BY <1>3
  <2>5. CASE k <= split
    <3>1. left(k) = left(k - 1) /\ k - 1 <= split
      BY <1>1, <2>2, <2>5
    <3>2. left(k - 1) = << >>
      BY <1>3, <3>1
    <3> QED BY <2>1, <2>4, <2>5, <3>1, <3>2
  <2>6. CASE ~ (k <= split)
    <3>1. from(k - 1) = f[k - 1] /\ from(k) = f[k]
      <4>1. k - 1 <= split => k - 1 = split
        BY <1>1, <2>6
      <4> QED BY <2>6, <4>1
    <3>2. f[k] = Apply(f[k - 1], events[k])
      BY AppliedIsApply DEF IsRun
    <3>3. CASE events[k].seq \in seqs
      BY <2>1, <2>2, <2>4, <2>6, <3>1, <3>3
    <3>4. CASE events[k].seq \notin seqs
      <4>1. left(k) = Append(left(k - 1), events[k])
        BY <2>2, <3>4
      <4> HIDE DEF left
      <4>2. Materialize(f[split], left(k)) = Apply(Materialize(f[split], left(k - 1)), events[k])
        BY <2>3, <4>1, MaterializeAppend
      <4> QED BY <2>1, <2>4, <2>6, <3>1, <3>2, <4>2
    <3> QED BY <3>3, <3>4
  <2> QED BY <2>5, <2>6
<1>4. \A k \in 1..n : k - 1 \in G => k \in G
  BY <1>3
<1> HIDE DEF G
<1>5. \A k \in 0..n : k \in G
  BY <1>1, <1>2, <1>4, UpTo
<1>6. ASSUME NEW k \in split..n PROVE Materialize(f[split], left(k)) = f[k]
  <2>1. k \in 0..n /\ (k <= split => k = split)
    BY <1>1
  <2>2. Materialize(f[split], left(k)) = from(k)
    BY <1>5, <2>1 DEF G
  <2> QED BY <2>1, <2>2
<1> QED BY <1>6

----------------------------------------------------------------------------
(* Orphans.                                                                *)

\* An event is an orphan if its task is not there when its turn comes.
LEMMA OrphansOfRun ==
    ASSUME NEW base, NEW events, IsSeq(events), NEW f, IsRun(f, base, events)
    PROVE  Orphans(base, events) =
               {events[i].seq : i \in {j \in 1..Len(events) : IsOrphan(f[j - 1], events[j])}}
<1>1. Len(events) \in Nat /\ DOMAIN events = 1..Len(events)
  BY SeqBasics
<1>2. \A j \in 1..Len(events) : j - 1 \in 0..Len(events)
  BY <1>1
<1>3. \A j \in 1..Len(events) : Materialize(base, SubSeq(events, 1, j - 1)) = f[j - 1]
  BY <1>2, RunStates
<1> QED BY <1>1, <1>3 DEF Orphans

\* One event more may be one orphan more.
LEMMA OrphansAppend ==
    ASSUME NEW base, NEW events, IsSeq(events), NEW e
    PROVE  Orphans(base, Append(events, e)) =
               Orphans(base, events)
                   \cup IF IsOrphan(Materialize(base, events), e) THEN {e.seq} ELSE {}
<1> DEFINE n == Len(events)
           longer == Append(events, e)
           Lost(es, j) == IsOrphan(Materialize(base, SubSeq(es, 1, j - 1)), es[j])
<1>1. n \in Nat /\ DOMAIN events = 1..n
  BY SeqBasics
<1>2. /\ IsSeq(longer) /\ Len(longer) = n + 1 /\ longer[n + 1] = e
      /\ \A i \in 1..n : longer[i] = events[i]
  BY SeqAppend
<1>3. DOMAIN longer = 1..(n + 1)
  BY <1>2, SeqBasics
<1>4. \A k \in 0..n : SubSeq(longer, 1, k) = SubSeq(events, 1, k)
  BY AppendKeepsPrefix
<1>5. \A j \in 1..n : Lost(longer, j) <=> Lost(events, j)
  <2>1. \A j \in 1..n : j - 1 \in 0..n
    BY <1>1
  <2> QED BY <1>2, <1>4, <2>1
<1>6. Lost(longer, n + 1) <=> IsOrphan(Materialize(base, events), e)
  <2>1. (n + 1) - 1 = n /\ n \in 0..n
    BY <1>1
  <2> QED BY <1>2, <1>4, <2>1, WholePrefix
<1>7. Orphans(base, longer) = {longer[i].seq : i \in {j \in 1..(n + 1) : Lost(longer, j)}}
  BY <1>3 DEF Orphans
<1>8. Orphans(base, events) = {events[i].seq : i \in {j \in 1..n : Lost(events, j)}}
  BY <1>1 DEF Orphans
<1>9. \A j : j \in 1..(n + 1) <=> j \in 1..n \/ j = n + 1
  BY <1>1
<1> HIDE DEF longer, Lost
<1>10. Orphans(base, longer) =
          Orphans(base, events) \cup IF Lost(longer, n + 1) THEN {e.seq} ELSE {}
  BY <1>2, <1>5, <1>7, <1>8, <1>9
<1> QED BY <1>6, <1>10 DEF longer

\* The seqs of a log are all different.
DistinctSeqs(events) ==
    \A i, j \in 1..Len(events) : events[i].seq = events[j].seq => i = j

\* Leaving out every orphan changes no state and leaves no other orphan behind.
THEOREM DroppingOrphansChangesNothing ==
    ASSUME NEW base, NEW events, IsSeq(events), DistinctSeqs(events)
    PROVE  LET kept == DropSeqs(events, Orphans(base, events))
           IN  /\ Materialize(base, kept) = Materialize(base, events)
               /\ Orphans(base, kept) = {}
<1> DEFINE n == Len(events)
           lost == Orphans(base, events)
           left(k) == DropSeqs(SubSeq(events, 1, k), lost)
<1>1. n \in Nat /\ 0 \in 0..n /\ n \in 0..n /\ SubSeq(events, 1, n) = events
  BY SeqBasics, WholePrefix
<1>2. PICK f : IsRun(f, base, events) /\ Materialize(base, events) = f[n]
  BY MaterializeIsRun
<1>3. \A i \in 1..n : events[i].seq \in lost <=> IsOrphan(f[i - 1], events[i])
  <2>1. lost = {events[i].seq : i \in {j \in 1..n : IsOrphan(f[j - 1], events[j])}}
    BY <1>2, OrphansOfRun
  <2> HIDE DEF lost
  <2> QED BY <2>1 DEF DistinctSeqs
<1> HIDE DEF lost
<1>4. \A i \in 1..n : f[i] = Apply(f[i - 1], events[i])
  BY <1>2, AppliedIsApply DEF IsRun
<1>5. \A i \in 1..n : events[i].seq \in lost => f[i] = f[i - 1]
  BY <1>3, <1>4 DEF Apply
<1>6. f[0] = base
  BY <1>2 DEF IsRun
<1>7. \A k \in 0..n : Materialize(base, left(k)) = f[k]
  <2>1. ASSUME NEW split, split = 0
        PROVE  \A k \in split..n : Materialize(f[split], left(k)) = f[k]
    <3>1. \A i \in 1..n : IF i <= split THEN events[i].seq \in lost
                         ELSE events[i].seq \in lost => f[i] = f[i - 1]
      BY <1>1, <1>5, <2>1
    <3>2. split \in 0..Len(events) /\ IsRun(f, base, events)
      BY <1>1, <1>2, <2>1
    <3> QED BY <3>1, <3>2, DropKeepsState
  <2>2. \A k \in 0..n : Materialize(f[0], left(k)) = f[k]
    BY <2>1
  <2> QED BY <1>6, <2>2
<1> DEFINE G == {k \in 0..n : Orphans(base, left(k)) = {}}
<1>8. 0 \in G
  <2>1. left(0) = << >>
    BY DropIsSeq
  <2>2. Orphans(base, << >>) = {}
    BY DEF Orphans
  <2> QED BY <1>1, <2>1, <2>2
<1>9. ASSUME NEW k \in 1..n, k - 1 \in G PROVE k \in G
  <2>1. k - 1 \in 0..n /\ k \in 0..n
    BY <1>1
  <2>2. left(k) = IF events[k].seq \in lost THEN left(k - 1) ELSE Append(left(k - 1), events[k])
    BY DropStep
  <2>3. IsSeq(left(k - 1))
    BY <2>1, DropIsSeq
  <2>4. Materialize(base, left(k - 1)) = f[k - 1] /\ Orphans(base, left(k - 1)) = {}
    BY <1>7, <1>9, <2>1
  <2> HIDE DEF left
  <2>5. CASE events[k].seq \in lost
    BY <2>1, <2>2, <2>4, <2>5
  <2>6. CASE events[k].seq \notin lost
    <3>1. ~ IsOrphan(f[k - 1], events[k])
      BY <1>3, <2>6
    <3>2. Orphans(base, Append(left(k - 1), events[k])) = {}
      BY <2>3, <2>4, <3>1, OrphansAppend
    <3> QED BY <2>1, <2>2, <2>6, <3>2
  <2> QED BY <2>5, <2>6
<1>10. \A k \in 1..n : k - 1 \in G => k \in G
  BY <1>9
<1> HIDE DEF G
<1>11. \A k \in 0..n : k \in G
  BY <1>1, <1>8, <1>10, UpTo
<1>12. Materialize(base, left(n)) = Materialize(base, events) /\ Orphans(base, left(n)) = {}
  BY <1>1, <1>2, <1>7, <1>11 DEF G
<1> QED BY <1>1, <1>12 DEF lost

----------------------------------------------------------------------------
(* One event.                                                              *)

\* What a function over another is.
LEMMA Overridden ==
    ASSUME NEW f, NEW g
    PROVE  /\ \A x : x \in DOMAIN Over(f, g) <=> x \in DOMAIN f \/ x \in DOMAIN g
           /\ \A x \in DOMAIN f : Over(f, g)[x] = f[x]
           /\ \A x \in DOMAIN g : x \notin DOMAIN f => Over(f, g)[x] = g[x]
BY DEF Over

\* What is left of a function.
LEMMA Remains ==
    ASSUME NEW f, NEW keys
    PROVE  /\ \A x : x \in DOMAIN Without(f, keys) <=> x \in DOMAIN f /\ x \notin keys
           /\ \A x \in DOMAIN Without(f, keys) : Without(f, keys)[x] = f[x]
BY DEF Without, Restrict

IsTask(t) == DOMAIN t = {"fields", "edges", "created", "updated", "closed"}

Before(state, e) == IF e.id \in DOMAIN state THEN state[e.id] ELSE NewTask

\* An event changes its own task and no other, and creates or deletes no other.
LEMMA ApplyFrame ==
    ASSUME NEW state, NEW e
    PROVE  /\ \A id : id # e.id => (id \in DOMAIN Apply(state, e) <=> id \in DOMAIN state)
           /\ \A id \in DOMAIN state : id # e.id => Apply(state, e)[id] = state[id]
           /\ e.id \in DOMAIN Apply(state, e) <=>
                  /\ e.op # "Delete"
                  /\ e.id \in DOMAIN state \/ e.op = "Create"
           /\ e.id \in DOMAIN Apply(state, e) =>
                  Apply(state, e)[e.id] = Touched(Before(state, e), e)
<1>1. CASE IsOrphan(state, e)
  BY <1>1 DEF Apply, IsOrphan
<1>2. CASE ~ IsOrphan(state, e) /\ e.op = "Delete"
  <2>1. Apply(state, e) = Without(state, {e.id})
    BY <1>2 DEF Apply
  <2> QED BY <1>2, <2>1, Remains
<1>3. CASE ~ IsOrphan(state, e) /\ e.op # "Delete"
  <2> DEFINE u == Touched(Before(state, e), e)
  <2>1. Apply(state, e) = Put(state, e.id, u)
    BY <1>3 DEF Apply, Before
  <2> HIDE DEF u
  <2>2. /\ \A id : id \in DOMAIN Put(state, e.id, u) <=> id \in DOMAIN state \/ id = e.id
        /\ \A id \in DOMAIN state : id # e.id => Put(state, e.id, u)[id] = state[id]
        /\ Put(state, e.id, u)[e.id] = u
    BY DEF Put
  <2> QED BY <1>3, <2>1, <2>2 DEF u, IsOrphan
<1> QED BY <1>1, <1>2, <1>3

\* Events leave the tasks that none of them names as they were.
LEMMA UnnamedStay ==
    ASSUME NEW base, NEW events, IsSeq(events), NEW m \in 0..Len(events), NEW id,
           \A i \in 1..Len(events) : i > m => events[i].id # id,
           NEW before, before = Materialize(base, SubSeq(events, 1, m)),
           NEW after, after = Materialize(base, events)
    PROVE  /\ id \in DOMAIN before <=> id \in DOMAIN after
           /\ id \in DOMAIN after => before[id] = after[id]
<1>1. PICK n \in Nat : n = Len(events)
  BY SeqBasics
<1>2. PICK f : IsRun(f, base, events) /\ after = f[n]
  BY <1>1, MaterializeIsRun
<1>3. before = f[m]
  BY <1>2, RunStates
<1> DEFINE Same(s) == /\ id \in DOMAIN before <=> id \in DOMAIN s
                      /\ id \in DOMAIN s => before[id] = s[id]
           G == {k \in 0..n : k >= m => Same(f[k])}
<1>4. 0 \in G
  <2>1. 0 >= m => f[0] = before
    BY <1>1, <1>3
  <2> QED BY <2>1
<1>5. ASSUME NEW k \in 1..n, k - 1 \in G PROVE k \in G
  <2> SUFFICES ASSUME k >= m PROVE Same(f[k])
    OBVIOUS
  <2>1. CASE k = m
    BY <1>3, <2>1
  <2>2. CASE k # m
    <3>1. k > m /\ k - 1 >= m
      BY <1>1, <2>2
    <3>2. f[k] = Apply(f[k - 1], events[k]) /\ events[k].id # id
      BY <1>1, <1>2, <3>1, AppliedIsApply DEF IsRun
    <3>3. Same(f[k - 1])
      BY <1>5, <3>1
    <3>4. /\ id \in DOMAIN f[k] <=> id \in DOMAIN f[k - 1]
          /\ id \in DOMAIN f[k - 1] => f[k][id] = f[k - 1][id]
      BY <3>2, ApplyFrame
    <3> QED BY <3>3, <3>4
  <2> QED BY <2>1, <2>2
<1> HIDE DEF G
<1>6. \A k \in 0..n : k \in G
  BY <1>4, <1>5, UpTo
<1>7. n >= m /\ n \in G
  BY <1>1, <1>6
<1>8. Same(f[n])
  BY <1>7 DEF G
<1> QED BY <1>2, <1>8

AllTasks(state) == \A id \in DOMAIN state : IsTask(state[id])

IsEvents(events) == IsSeq(events) /\ \A i \in 1..Len(events) : events[i].op \in EventOps

\* The fields an event gives to a task.
FieldsAfter(fields, e) ==
    IF e.op \in {"Create", "Update"} THEN ApplySet(fields, e.payload)
    ELSE IF e.op = "Append" THEN ApplyAppend(fields, e.payload)
    ELSE IF e.op \in {"Add", "Remove"} THEN ApplyAccumulate(fields, e.payload, e.op = "Add")
    ELSE fields

LEMMA TouchedFields ==
    ASSUME NEW t, IsTask(t), NEW e, e.op \in EventOps, e.op # "Delete"
    PROVE  IsTask(Touched(t, e)) /\ Touched(t, e).fields = FieldsAfter(t.fields, e)
<1> DEFINE u == Touched(t, e)
<1>1. ASSUME NEW w, w = SetFields(t, e)
      PROVE  IsTask(w) /\ w.fields = ApplySet(t.fields, e.payload)
  <2> DEFINE f == ApplySet(t.fields, e.payload)
             closed == RefreshCloseTime(t, f, e.ts)
  <2>1. w = [t EXCEPT !.fields = f, !.updated = e.ts, !.closed = closed]
    BY <1>1 DEF SetFields
  <2> HIDE DEF f, closed
  <2>2. IsTask(w) /\ w.fields = f
    BY <2>1 DEF IsTask
  <2> QED BY <2>2 DEF f
<1>2. CASE e.op = "Create"
  <2> DEFINE w == SetFields(t, e)
  <2>1. IsTask(w) /\ w.fields = ApplySet(t.fields, e.payload)
    BY <1>1
  <2>2. \E c : u = [w EXCEPT !.created = c]
    BY <1>2 DEF Touched
  <2> HIDE DEF w
  <2>3. IsTask(u) /\ u.fields = w.fields
    BY <2>1, <2>2 DEF IsTask
  <2> QED BY <1>2, <2>1, <2>3 DEF FieldsAfter
<1>3. CASE e.op = "Update"
  <2>1. u = SetFields(t, e)
    BY <1>3 DEF Touched
  <2> QED BY <1>1, <1>3, <2>1 DEF FieldsAfter
<1>4. CASE e.op \in {"Append", "Add", "Remove"}
  <2> DEFINE f == FieldsAfter(t.fields, e)
  <2>1. u = [t EXCEPT !.fields = f, !.updated = e.ts]
    BY <1>4 DEF Touched, FieldsAfter
  <2> HIDE DEF f
  <2>2. IsTask(u) /\ u.fields = f
    BY <2>1 DEF IsTask
  <2> QED BY <2>2 DEF f
<1>5. CASE e.op \in {"AddEdge", "RemoveEdge"}
  <2>1. \E edges : u = [t EXCEPT !.edges = edges, !.updated = e.ts]
    BY <1>5 DEF Touched
  <2>2. IsTask(u) /\ u.fields = t.fields
    BY <2>1 DEF IsTask
  <2> QED BY <1>5, <2>2 DEF FieldsAfter
<1> QED BY <1>2, <1>3, <1>4, <1>5 DEF EventOps

----------------------------------------------------------------------------
(* Logs, as sequences of numbered events.                                   *)

\* Events, numbered or to be numbered.
HasSeqs(s) == IsSeq(s) /\ \A i \in 1..Len(s) : "seq" \in DOMAIN s[i]

\* A log that loads (verify_seq_order).
IsLog(log) ==
    /\ HasSeqs(log)
    /\ \A i \in 1..Len(log) : log[i].seq \in Nat
    /\ SeqOrdered(log)

LEMMA LogBasics ==
    ASSUME NEW log, IsLog(log)
    PROVE  /\ IsSeq(log) /\ Len(log) \in Nat /\ DOMAIN log = 1..Len(log)
           /\ \A i \in 1..Len(log) : "seq" \in DOMAIN log[i] /\ log[i].seq \in Nat
           /\ \A i, j \in 1..Len(log) : i < j => log[i].seq < log[j].seq
<1>1. Len(log) \in Nat /\ DOMAIN log = 1..Len(log)
  BY SeqBasics DEF IsLog, HasSeqs
<1> QED BY <1>1 DEF IsLog, HasSeqs, SeqOrdered

LEMMA IsALog ==
    ASSUME NEW log, IsSeq(log),
           \A i \in 1..Len(log) : "seq" \in DOMAIN log[i] /\ log[i].seq \in Nat,
           \A i, j \in 1..Len(log) : i < j => log[i].seq < log[j].seq
    PROVE  IsLog(log)
<1>1. DOMAIN log = 1..Len(log)
  BY SeqBasics
<1> QED BY <1>1 DEF IsLog, HasSeqs, SeqOrdered

----------------------------------------------------------------------------
(* What keeps a log one.                                                   *)

\* The next seq follows the last one.
LEMMA NextSeqFollows ==
    ASSUME NEW log, IsLog(log), Len(log) # 0
    PROVE  /\ Len(log) \in 1..Len(log)
           /\ NextSeq(log) = log[Len(log)].seq + 1
           /\ \A i \in 1..Len(log) : log[i].seq \in Nat /\ log[i].seq <= log[Len(log)].seq
<1> DEFINE seqs == {log[i].seq : i \in DOMAIN log}
<1> HIDE DEF seqs
<1>1. PICK n \in Nat : n = Len(log) /\ DOMAIN log = 1..n
  BY LogBasics
<1>2. \A i \in 1..n : i = n \/ i < n
  OBVIOUS
<1>3. n \in 1..n
  BY <1>1
<1>4. ASSUME NEW i \in 1..n PROVE log[i].seq \in Nat /\ log[i].seq <= log[n].seq
  <2>1. log[i].seq \in Nat /\ log[n].seq \in Nat
    BY <1>1, <1>3, LogBasics
  <2>2. CASE i = n
    BY <2>1, <2>2
  <2>3. CASE i # n
    <3>1. i < n
      BY <1>2, <2>3
    <3>2. log[i].seq < log[n].seq
      BY <1>1, <1>3, <3>1, LogBasics
    <3> QED BY <2>1, <3>2
  <2> QED BY <2>2, <2>3
<1>5. log[n].seq \in seqs /\ \A y \in seqs : y \in Int /\ log[n].seq >= y
  BY <1>1, <1>3, <1>4 DEF seqs
<1>6. Max(seqs) = log[n].seq
  BY <1>5, MaxOf
<1>7. log # << >>
  BY <1>1
<1>8. NextSeq(log) = log[n].seq + 1
  BY <1>6, <1>7 DEF NextSeq, seqs
<1> QED BY <1>1, <1>3, <1>4, <1>8

LEMMA NoSeqs ==
    ASSUME NEW log, IsLog(log), Len(log) = 0
    PROVE  log = << >> /\ NextSeq(log) = 1
<1>1. log = << >>
  BY LogBasics, SeqEmpty, SameElements
<1> QED BY <1>1 DEF NextSeq

\* Every seq of a log is below the next one.
LEMMA NextSeqIsNext ==
    ASSUME NEW log, IsLog(log)
    PROVE  /\ NextSeq(log) \in Nat \ {0}
           /\ \A i \in 1..Len(log) : log[i].seq < NextSeq(log)
<1>1. PICK n \in Nat : n = Len(log)
  BY LogBasics
<1>2. CASE n = 0
  <2>1. \A i \in 1..0 : FALSE
    OBVIOUS
  <2>2. NextSeq(log) = 1
    BY <1>1, <1>2, NoSeqs
  <2> QED BY <1>1, <1>2, <2>1, <2>2
<1>3. CASE n # 0
  BY <1>1, <1>3, NextSeqFollows
<1> QED BY <1>2, <1>3

\* Events picked from a log are a log.
LEMMA PickedLog ==
    ASSUME NEW log, IsLog(log), NEW places
    PROVE  /\ IsLog(Picked(log, places))
           /\ \A i \in 1..Len(Picked(log, places)) :
                 \E j \in 1..Len(log) : j \in places /\ Picked(log, places)[i] = log[j]
<1> DEFINE s == Picked(log, places)
<1>1. IsSeq(log)
  BY LogBasics
<1>2. PICK at : /\ \A i \in 1..Len(s) :
                      /\ at[i] \in 1..Len(log) /\ at[i] \in places /\ s[i] = log[at[i]]
                /\ \A i, j \in 1..Len(s) : i < j => at[i] < at[j]
  BY <1>1, PickedEvents
<1>3. IsSeq(s)
  BY <1>1, PickedEvents
<1> HIDE DEF s
<1>4. IsLog(s)
  BY <1>2, <1>3, LogBasics, IsALog
<1> QED BY <1>2, <1>4 DEF s

\* So are its first events and its last ones.
LEMMA PrefixLog ==
    ASSUME NEW log, IsLog(log), NEW k \in 0..Len(log)
    PROVE  IsLog(SubSeq(log, 1, k))
<1> DEFINE s == SubSeq(log, 1, k)
<1>1. Len(log) \in Nat /\ \A i \in 1..k : i \in 1..Len(log)
  BY LogBasics
<1>2. IsSeq(s) /\ Len(s) = k /\ \A i \in 1..k : s[i] = log[i]
  BY LogBasics, SeqPrefix
<1> HIDE DEF s
<1>3. IsLog(s)
  BY <1>1, <1>2, LogBasics, IsALog
<1> QED BY <1>3 DEF s

LEMMA SuffixLog ==
    ASSUME NEW log, IsLog(log), NEW k \in 0..Len(log)
    PROVE  IsLog(SubSeq(log, k + 1, Len(log)))
<1> DEFINE s == SubSeq(log, k + 1, Len(log))
           n == Len(log)
<1>1. n \in Nat /\ \A i \in 1..(n - k) : k + i \in 1..n
  BY LogBasics
<1>2. IsSeq(s) /\ Len(s) = n - k /\ \A i \in 1..(n - k) : s[i] = log[k + i]
  BY LogBasics, SeqSuffix
<1> HIDE DEF s
<1>3. ASSUME NEW i \in 1..(n - k), NEW j \in 1..(n - k), i < j PROVE s[i].seq < s[j].seq
  <2>1. k + i < k + j
    BY <1>1, <1>3
  <2> QED BY <1>1, <1>2, <2>1, LogBasics
<1>4. \A i \in 1..(n - k) : "seq" \in DOMAIN s[i] /\ s[i].seq \in Nat
  BY <1>1, <1>2, LogBasics
<1>5. IsLog(s)
  BY <1>2, <1>3, <1>4, IsALog
<1> QED BY <1>5 DEF s

\* A log with an event more, under the next seq.
LEMMA LongerLog ==
    ASSUME NEW log, IsLog(log), NEW e, "seq" \in DOMAIN e, e.seq = NextSeq(log)
    PROVE  IsLog(Append(log, e))
<1> DEFINE s == Append(log, e)
           n == Len(log)
<1>1. n \in Nat
  BY LogBasics
<1>2. IsSeq(s) /\ Len(s) = n + 1 /\ s[n + 1] = e /\ \A i \in 1..n : s[i] = log[i]
  BY LogBasics, SeqAppend
<1> HIDE DEF s
<1>3. \A i \in 1..(n + 1) : i = n + 1 \/ i \in 1..n
  BY <1>1
<1>4. e.seq \in Nat /\ \A i \in 1..n : log[i].seq < e.seq
  BY NextSeqIsNext
<1>5. \A i \in 1..(n + 1) : "seq" \in DOMAIN s[i] /\ s[i].seq \in Nat
  BY <1>2, <1>3, <1>4, LogBasics
<1>6. ASSUME NEW i \in 1..(n + 1), NEW j \in 1..(n + 1), i < j PROVE s[i].seq < s[j].seq
  <2>1. i \in 1..n
    BY <1>1, <1>6
  <2> QED BY <1>2, <1>3, <1>4, <1>6, <2>1, LogBasics
<1>7. IsLog(s)
  BY <1>2, <1>5, <1>6, IsALog
<1> QED BY <1>7 DEF s

\* Events numbered on from the fork make a log of one that ends at the fork.
LEMMA StackedLog ==
    ASSUME NEW fork \in Nat, NEW shared, IsLog(shared),
           \A i \in 1..Len(shared) : shared[i].seq <= fork,
           NEW above, IsSeq(above),
           \A i \in 1..Len(above) : "seq" \in DOMAIN above[i] /\ above[i].seq = fork + i
    PROVE  IsLog(shared \o above)
<1> DEFINE log == shared \o above
<1>6. IsSeq(shared) /\ Len(shared) \in Nat
  BY LogBasics
<1>7. /\ IsSeq(log) /\ Len(log) = Len(shared) + Len(above)
      /\ \A i \in 1..Len(shared) : log[i] = shared[i]
      /\ \A i \in 1..Len(above) : log[Len(shared) + i] = above[i]
  BY <1>6, SeqConcat
<1> HIDE DEF log
<1> DEFINE m == Len(shared)
           n == Len(above)
<1>8. \A i \in 1..m : log[i].seq \in Nat /\ log[i].seq <= fork /\ "seq" \in DOMAIN log[i]
  BY <1>7, LogBasics
<1>9. \A i \in 1..n : log[m + i].seq = fork + i /\ "seq" \in DOMAIN log[m + i]
  BY <1>7
<1>10. m \in Nat /\ n \in Nat /\ Len(log) = m + n
  BY <1>6, <1>7, SeqBasics
<1> HIDE DEF m, n
<1>11. \A i \in 1..(m + n) : i \in 1..m \/ (i - m \in 1..n /\ i = m + (i - m))
  BY <1>10
<1>12. ASSUME NEW i \in 1..(m + n) PROVE "seq" \in DOMAIN log[i] /\ log[i].seq \in Nat
  <2>1. CASE i \in 1..m
    BY <1>8, <2>1
  <2>2. CASE i - m \in 1..n /\ i = m + (i - m)
    <3>1. log[i].seq = fork + (i - m) /\ "seq" \in DOMAIN log[i]
      BY <1>9, <2>2
    <3> QED BY <2>2, <3>1
  <2> QED BY <1>11, <2>1, <2>2
<1>13. ASSUME NEW i \in 1..(m + n), NEW j \in 1..(m + n), i < j PROVE log[i].seq < log[j].seq
  <2>1. CASE j \in 1..m
    <3>1. i \in 1..m
      BY <1>10, <1>13, <2>1
    <3> QED BY <1>7, <1>13, <2>1, <3>1, LogBasics DEF m
  <2>2. CASE j - m \in 1..n /\ j = m + (j - m)
    <3>1. log[j].seq = fork + (j - m)
      BY <1>9, <2>2
    <3>2. CASE i \in 1..m
      BY <1>10, <1>8, <2>2, <3>1, <3>2
    <3>3. CASE i - m \in 1..n /\ i = m + (i - m)
      <4>1. log[i].seq = fork + (i - m)
        BY <1>9, <3>3
      <4> QED BY <1>10, <1>13, <3>1, <4>1
    <3> QED BY <1>11, <3>2, <3>3
  <2> QED BY <1>11, <2>1, <2>2
<1>14. IsLog(log)
  BY <1>7, <1>12, <1>13, <1>10, IsALog
<1> QED BY <1>14 DEF log

----------------------------------------------------------------------------
(* Fields without nulls.                                                   *)

NoNulls(fields) == \A k \in DOMAIN fields : fields[k] # Null

\* Setting fields stores no null.
LEMMA SetStoresNoNull ==
    ASSUME NEW fields, NoNulls(fields), NEW payload
    PROVE  NoNulls(ApplySet(fields, payload))
<1> DEFINE unset == {k \in DOMAIN payload : payload[k] = Null}
           a == Without(payload, unset)
           b == Without(fields, unset)
<1>1. \A k \in DOMAIN a : a[k] # Null
  BY Remains
<1>2. \A k \in DOMAIN b : b[k] # Null
  BY Remains DEF NoNulls
<1>3. ApplySet(fields, payload) = Over(a, b)
  BY DEF ApplySet
<1> HIDE DEF a, b
<1> QED BY <1>1, <1>2, <1>3, Overridden DEF NoNulls

\* Appending stores no null.
LEMMA AppendStoresNoNull ==
    ASSUME NEW fields, NoNulls(fields), NEW payload
    PROVE  NoNulls(ApplyAppend(fields, payload))
<1> DEFINE added == {k \in DOMAIN payload : payload[k] # Null}
           a == [k \in added |-> AppendText(Value(fields, k), payload[k])]
<1>1. \A old, v : AppendText(old, v) # Null
  <2> SUFFICES ASSUME NEW old, NEW v PROVE AppendText(old, v) # Null
    OBVIOUS
  <2>1. \E ls : AppendText(old, v) = << "text", ls >>
    BY DEF AppendText, Text
  <2> QED BY <2>1 DEF Null
<1>2. \A k \in DOMAIN a : a[k] # Null
  BY <1>1
<1>3. ApplyAppend(fields, payload) = Over(a, fields)
  BY DEF ApplyAppend
<1> HIDE DEF a
<1> QED BY <1>2, <1>3, Overridden DEF NoNulls

\* Accumulating stores no null.
LEMMA AccumulateStoresNoNull ==
    ASSUME NEW fields, NoNulls(fields), NEW payload, NEW add
    PROVE  NoNulls(ApplyAccumulate(fields, payload, add))
<1> DEFINE result == [k \in DOMAIN payload |-> Accumulated(Value(fields, k), payload[k], add)]
           a == Without(result, {k \in DOMAIN result : result[k] = Null})
<1>1. \A k \in DOMAIN a : a[k] # Null
  BY Remains
<1>2. ApplyAccumulate(fields, payload, add) = Over(a, fields)
  BY DEF ApplyAccumulate
<1> HIDE DEF a
<1> QED BY <1>1, <1>2, Overridden DEF NoNulls

\* Fields without nulls are what they are asked for.
LEMMA SameFcn ==
    ASSUME NEW f, IsFcn(f), NoNulls(f), NEW g, IsFcn(g), NoNulls(g),
           \A k : Value(f, k) = Value(g, k)
    PROVE  f = g
<1>1. \A k : k \in DOMAIN f <=> Value(f, k) # Null
  BY DEF Value, NoNulls
<1>2. \A k : k \in DOMAIN g <=> Value(g, k) # Null
  BY DEF Value, NoNulls
<1>3. DOMAIN f = DOMAIN g
  BY <1>1, <1>2
<1>4. \A k \in DOMAIN f : f[k] = g[k]
  BY <1>3 DEF Value
<1> QED BY <1>3, <1>4 DEF IsFcn

----------------------------------------------------------------------------
(* Sequences of sequences, one after the other.                            *)

\* A sequence of sequences is put together one after the other.
LEMMA FlattenIsRun ==
    ASSUME NEW seqs, IsSeq(seqs), \A i \in 1..Len(seqs) : IsSeq(seqs[i])
    PROVE  \E f : /\ f[0] = << >>
                  /\ \A k \in 1..Len(seqs) : f[k] = f[k - 1] \o seqs[k]
                  /\ \A k \in 0..Len(seqs) : IsSeq(f[k])
                  /\ FlattenSeq(seqs) = f[Len(seqs)]
<1>1. PICK n \in Nat : n = Len(seqs)
  BY SeqBasics
<1>2. PICK g : /\ \A k \in 1..n : g[k] = IF k = 1 THEN seqs[k] ELSE g[k - 1] \o seqs[k]
               /\ n # 0 => FlattenSeq(seqs) = g[n]
  <2> DEFINE h == CHOOSE g : IsFlat(g, n, seqs)
  <2>1. IsFlat(h, n, seqs)
    BY FlatExists
  <2>2. n # 0 => FlattenSeq(seqs) = h[n]
    BY <1>1 DEF FlattenSeq, IsFlat
  <2> HIDE DEF h
  <2>3. \A k \in 1..n : h[k] = IF k = 1 THEN seqs[k] ELSE h[k - 1] \o seqs[k]
    BY <2>1 DEF IsFlat
  <2> QED BY <2>2, <2>3
<1> DEFINE f == [k \in 0..n |-> IF k = 0 THEN << >> ELSE g[k]]
<1>3. f[0] = << >>
  BY <1>1
<1>4. \A e : IsSeq(e) => << >> \o e = e
  BY DEF IsSeq
<1>5. ASSUME NEW k \in 1..n PROVE f[k] = f[k - 1] \o seqs[k]
  <2>1. f[k] = g[k] /\ IsSeq(seqs[k])
    BY <1>1
  <2>2. CASE k = 1
    <3>1. f[k] = seqs[k]
      BY <1>2, <2>1, <2>2
    <3>2. f[k - 1] = << >>
      BY <1>3, <2>2
    <3>3. << >> \o seqs[k] = seqs[k]
      BY <1>4, <2>1
    <3> QED BY ONLY <3>1, <3>2, <3>3
  <2>3. CASE k # 1
    <3>1. f[k - 1] = g[k - 1]
      BY <2>3
    <3> QED BY <1>2, <2>1, <2>3, <3>1
  <2> QED BY <2>2, <2>3
<1>6. FlattenSeq(seqs) = f[n]
  <2>1. CASE n = 0
    <3>1. FlattenSeq(seqs) = seqs
      BY <1>1, <2>1 DEF FlattenSeq
    <3>2. seqs = << >>
      <4>1. PICK S : seqs \in Seq(S)
        BY DEF IsSeq
      <4>2. Len(seqs) = 0
        BY <1>1, <2>1
      <4> QED BY ONLY <4>1, <4>2
    <3> QED BY <1>3, <2>1, <3>1, <3>2
  <2>2. CASE n # 0
    BY <1>2, <2>2
  <2> QED BY <2>1, <2>2
<1> HIDE DEF f
<1> DEFINE G == {k \in 0..n : IsSeq(f[k])}
<1>7. 0 \in G
  BY <1>1, <1>3, SeqEmpty
<1>8. ASSUME NEW k \in 1..n, k - 1 \in G PROVE k \in G
  <2>1. IsSeq(f[k - 1]) /\ IsSeq(seqs[k]) /\ k \in 0..n
    BY <1>1, <1>8
  <2> DEFINE x == f[k - 1]
             y == seqs[k]
  <2>2. IsSeq(x \o y)
    <3> HIDE DEF x, y
    <3>1. IsSeq(x) /\ IsSeq(y)
      BY <2>1 DEF x, y
    <3> QED BY <3>1, SeqConcat
  <2>3. IsSeq(f[k])
    BY <1>5, <2>2
  <2> QED BY <2>1, <2>3
<1> HIDE DEF G
<1>9. \A k \in 0..n : k \in G
  BY <1>7, <1>8, UpTo
<1>10. \A k \in 0..n : IsSeq(f[k])
  BY <1>9 DEF G
<1> QED BY <1>1, <1>3, <1>5, <1>6, <1>10

\* A flattened sequence holds what its parts hold.
LEMMA FlattenHolds ==
    ASSUME NEW seqs, IsSeq(seqs), \A i \in 1..Len(seqs) : IsSeq(seqs[i]),
           NEW k \in 1..Len(seqs), NEW i \in 1..Len(seqs[k])
    PROVE  \E j \in 1..Len(FlattenSeq(seqs)) : FlattenSeq(seqs)[j] = seqs[k][i]
<1>1. PICK n \in Nat : n = Len(seqs)
  BY SeqBasics
<1>2. PICK f : /\ \A m \in 1..n : f[m] = f[m - 1] \o seqs[m]
               /\ \A m \in 0..n : IsSeq(f[m])
               /\ FlattenSeq(seqs) = f[n]
  BY <1>1, FlattenIsRun
<1> DEFINE Holds(m) == \E j \in 1..Len(f[m]) : f[m][j] = seqs[k][i]
           D == {m \in 0..n : m >= k => Holds(m)}
<1>3. 0 \in D
  BY <1>1
<1>4. ASSUME NEW m \in 1..n, m - 1 \in D PROVE m \in D
  <2>1. /\ m - 1 \in 0..n /\ m \in 0..n
        /\ IsSeq(f[m - 1]) /\ IsSeq(seqs[m]) /\ f[m] = f[m - 1] \o seqs[m]
    <3>1. m - 1 \in 0..n /\ m \in 0..n /\ m \in 1..Len(seqs)
      BY <1>1
    <3> QED BY <1>2, <3>1
  <2>2. PICK u, v : u = f[m - 1] /\ v = seqs[m]
    OBVIOUS
  <2>3. PICK a, b \in Nat : a = Len(u) /\ b = Len(v)
    BY <2>1, <2>2, SeqBasics
  <2>4. /\ Len(u \o v) = a + b
        /\ \A j \in 1..a : (u \o v)[j] = u[j]
        /\ \A j \in 1..b : (u \o v)[a + j] = v[j]
    <3>1. IsSeq(u) /\ IsSeq(v)
      BY <2>1, <2>2
    <3> QED BY ONLY <2>3, <3>1, SeqConcat
  <2>5. CASE m > k
    <3>1. PICK j \in 1..a : u[j] = seqs[k][i]
      BY <1>4, <2>1, <2>2, <2>3, <2>5
    <3>2. j \in 1..(a + b) /\ (u \o v)[j] = seqs[k][i]
      BY <2>3, <2>4, <3>1
    <3> QED BY <2>1, <2>2, <2>4, <3>2
  <2>6. CASE m = k
    <3>1. i \in 1..b /\ v[i] = seqs[k][i]
      BY <2>2, <2>3, <2>6
    <3>2. a + i \in 1..(a + b) /\ (u \o v)[a + i] = seqs[k][i]
      BY <2>3, <2>4, <3>1
    <3> QED BY <2>1, <2>2, <2>4, <3>2
  <2>7. CASE m < k
    BY <2>1, <2>7
  <2> QED BY <1>1, <2>5, <2>6, <2>7
<1> HIDE DEF D
<1>5. \A m \in 0..n : m \in D
  BY <1>3, <1>4, UpTo
<1>6. n \in 0..n /\ n >= k
  BY <1>1
<1> QED BY <1>2, <1>5, <1>6 DEF D

\* An order of the elements of a finite set has each of them.
LEMMA OrderHasAll ==
    ASSUME NEW S, IsFiniteSet(S), NEW order \in SetToSeqs(S)
    PROVE  /\ IsSeq(order)
           /\ \A i \in 1..Len(order) : order[i] \in S
           /\ \A x \in S : \E i \in 1..Len(order) : order[i] = x
<1>1. PICK n \in Nat : n = Cardinality(S)
  BY FS_CardinalityType
<1>2. /\ order \in [1..n -> S]
      /\ \A i, j \in 1..n : i # j => order[i] # order[j]
  BY <1>1 DEF SetToSeqs
<1>3. order \in Seq(S) /\ Len(order) = n
  BY <1>2
<1>4. order \in Injection(1..n, S)
  BY <1>2 DEF Injection, IsInjective
<1>5. Cardinality(1..n) = n
  <2>1. \A a, b \in Int : Cardinality(a..b) = IF a > b THEN 0 ELSE b - a + 1
    BY FS_Interval
  <2>2. Cardinality(1..n) = IF 1 > n THEN 0 ELSE n - 1 + 1
    BY <2>1
  <2> QED BY <2>2
<1>6. order \in Surjection(1..n, S)
  BY <1>1, <1>4, <1>5, FS_Injection
<1>7. \A x \in S : \E i \in 1..n : order[i] = x
  BY <1>6 DEF Surjection
<1> QED BY <1>2, <1>3, <1>7 DEF IsSeq

\* A finite set can be put in any strict order in which every two of its elements stand.
LEMMA StrictOrder ==
    ASSUME NEW S, IsFiniteSet(S), NEW before,
           \A x \in S : <<x, x>> \notin before,
           \A x, y, z \in S : <<x, y>> \in before /\ <<y, z>> \in before => <<x, z>> \in before,
           \A x, y \in S : x # y => <<x, y>> \in before \/ <<y, x>> \in before
    PROVE  \E order \in SetToSeqs(S) :
               \A i, j \in DOMAIN order : i < j => <<order[i], order[j]>> \in before
<1>1. PICK n \in Nat : n = Cardinality(S)
  BY FS_CardinalityType
<1> DEFINE below(x) == {y \in S : <<y, x>> \in before}
           place == [x \in S |-> Cardinality(below(x)) + 1]
<1>2. ASSUME NEW x \in S
      PROVE  IsFiniteSet(below(x)) /\ Cardinality(below(x)) \in 0..(n - 1)
  <2>1. IsFiniteSet(S \ {x}) /\ Cardinality(S \ {x}) = n - 1
    BY <1>1, FS_RemoveElement
  <2> DEFINE others == S \ {x}
  <2>2. below(x) \in SUBSET others
    OBVIOUS
  <2> HIDE DEF below
  <2>3. IsFiniteSet(below(x)) /\ Cardinality(below(x)) <= n - 1
    <3>1. IsFiniteSet(others) /\ Cardinality(others) = n - 1
      BY <2>1
    <3> HIDE DEF others
    <3>2. IsFiniteSet(below(x)) /\ Cardinality(below(x)) <= Cardinality(others)
      BY <2>2, <3>1, FS_Subset
    <3> QED BY <3>1, <3>2
  <2>4. Cardinality(below(x)) \in Nat
    BY <2>3, FS_CardinalityType
  <2> QED BY <1>1, <2>3, <2>4
<1>3. ASSUME NEW x \in S, NEW y \in S, <<x, y>> \in before
      PROVE  Cardinality(below(x)) < Cardinality(below(y))
  <2>1. below(x) \in SUBSET below(y)
    BY <1>3
  <2>2. x \in below(y) /\ x \notin below(x)
    BY <1>3
  <2>3. Cardinality(below(x)) \in Nat /\ Cardinality(below(y)) \in Nat
    BY <1>2, FS_CardinalityType
  <2> HIDE DEF below
  <2>4. /\ Cardinality(below(x)) <= Cardinality(below(y))
        /\ Cardinality(below(x)) # Cardinality(below(y))
    BY <1>2, <2>1, <2>2, FS_Subset
  <2> QED BY <2>3, <2>4
<1> HIDE DEF below
<1>4. place \in [S -> 1..n]
  BY <1>1, <1>2
<1>5. \A x, y \in S : <<x, y>> \in before => place[x] < place[y]
  BY <1>1, <1>2, <1>3
<1> HIDE DEF place
<1>6. \A x, y \in S : place[x] = place[y] => x = y
  <2> SUFFICES ASSUME NEW x \in S, NEW y \in S, place[x] = place[y] PROVE x = y
    OBVIOUS
  <2>1. ~ (place[x] < place[y]) /\ ~ (place[y] < place[x])
    BY <1>4
  <2>2. <<x, y>> \notin before /\ <<y, x>> \notin before
    BY <1>5, <2>1
  <2> QED BY <2>2
<1>7. \A i \in 1..n : \E x \in S : place[x] = i
  <2>1. place \in Injection(S, 1..n)
    BY <1>4, <1>6 DEF Injection, IsInjective
  <2>2. IsFiniteSet(1..n) /\ Cardinality(1..n) = n
    <3>1. \A a, b \in Int : /\ IsFiniteSet(a..b)
                            /\ Cardinality(a..b) = IF a > b THEN 0 ELSE b - a + 1
      BY FS_Interval
    <3>2. IsFiniteSet(1..n) /\ Cardinality(1..n) = IF 1 > n THEN 0 ELSE n - 1 + 1
      BY <3>1
    <3> QED BY <3>2
  <2>3. place \in Surjection(S, 1..n)
    BY <1>1, <2>1, <2>2, FS_Injection
  <2> QED BY <2>3 DEF Surjection
<1> DEFINE order == [i \in 1..n |-> CHOOSE x \in S : place[x] = i]
<1>8. \A i \in 1..n : order[i] \in S /\ place[order[i]] = i
  BY <1>7
<1>9. order \in [1..n -> S]
  BY <1>8
<1> HIDE DEF order
<1>10. order \in SetToSeqs(S)
  <2>1. \A i, j \in 1..n : i # j => order[i] # order[j]
    BY <1>8
  <2> QED BY <1>1, <1>9, <2>1 DEF SetToSeqs
<1>11. ASSUME NEW i \in 1..n, NEW j \in 1..n, i < j PROVE <<order[i], order[j]>> \in before
  <2>1. order[i] \in S /\ order[j] \in S /\ place[order[i]] = i /\ place[order[j]] = j
    BY <1>8
  <2>2. <<order[j], order[i]>> \notin before
    BY <1>5, <1>11, <2>1
  <2>3. order[i] # order[j]
    BY <1>11, <2>1
  <2> QED BY <2>1, <2>2, <2>3
<1> QED BY <1>9, <1>10, <1>11

\* Elements with different ranks can be put in the order of their ranks.
LEMMA RankedOrder ==
    ASSUME NEW S, IsFiniteSet(S), NEW rank, \A x \in S : rank[x] \in Nat,
           \A x, y \in S : rank[x] = rank[y] => x = y
    PROVE  \E order \in SetToSeqs(S) :
               \A i, j \in DOMAIN order : i < j => rank[order[i]] < rank[order[j]]
<1>1. PICK before : before = {p \in S \X S : rank[p[1]] < rank[p[2]]}
  OBVIOUS
<1>2. \A x, y \in S : <<x, y>> \in before <=> rank[x] < rank[y]
  BY <1>1
<1>3. /\ \A x \in S : <<x, x>> \notin before
      /\ \A x, y, z \in S : <<x, y>> \in before /\ <<y, z>> \in before => <<x, z>> \in before
      /\ \A x, y \in S : x # y => <<x, y>> \in before \/ <<y, x>> \in before
  BY <1>2
<1>4. PICK order \in SetToSeqs(S) :
          \A i, j \in DOMAIN order : i < j => <<order[i], order[j]>> \in before
  BY <1>3, StrictOrder
<1>5. \A i \in DOMAIN order : order[i] \in S
  BY OrderHasAll, SeqBasics
<1> QED BY <1>2, <1>4, <1>5

\* The elements of t that s has too come in the same order.
InOrderOf(t, s) ==
    \A i, j \in 1..Len(t) : \A k, l \in 1..Len(s) :
        t[i] = s[k] /\ t[j] = s[l] /\ k < l => i < j

\* What is picked of a sequence without repetitions.
LEMMA PickedInOrder ==
    ASSUME NEW s, IsSeq(s), \A k, l \in 1..Len(s) : s[k] = s[l] => k = l,
           NEW places, NEW t, t = Picked(s, places)
    PROVE  /\ IsSeq(t)
           /\ \A i \in 1..Len(t) : \E k \in 1..Len(s) : k \in places /\ t[i] = s[k]
           /\ \A k \in 1..Len(s) : k \in places => \E i \in 1..Len(t) : t[i] = s[k]
           /\ \A i, j \in 1..Len(t) : t[i] = t[j] => i = j
           /\ InOrderOf(t, s)
<1>1. IsSeq(t) /\ Len(t) \in Nat /\ Len(s) \in Nat
  BY PickedEvents, SeqBasics
<1>2. PICK at : /\ \A i \in 1..Len(t) : /\ at[i] \in 1..Len(s) /\ at[i] \in places
                                        /\ t[i] = s[at[i]]
                /\ \A i, j \in 1..Len(t) : i < j => at[i] < at[j]
  BY PickedEvents
<1>3. ASSUME NEW k \in 1..Len(s), k \in places PROVE \E i \in 1..Len(t) : t[i] = s[k]
  BY <1>3, PickedHolds
<1>4. ASSUME NEW i \in 1..Len(t), NEW j \in 1..Len(t), NEW k \in 1..Len(s), NEW l \in 1..Len(s),
             t[i] = s[k], t[j] = s[l], ~ (i < j)
      PROVE  ~ (k < l)
  <2>1. at[i] = k /\ at[j] = l
    BY <1>2, <1>4
  <2>2. i = j \/ at[j] < at[i]
    BY <1>1, <1>2, <1>4
  <2> QED BY <1>1, <2>1, <2>2
<1>5. ASSUME NEW i \in 1..Len(t), NEW j \in 1..Len(t), t[i] = t[j] PROVE i = j
  <2>1. at[i] = at[j] /\ at[i] \in Nat
    BY <1>1, <1>2, <1>5
  <2>2. ~ (i < j) /\ ~ (j < i)
    BY <1>2, <2>1
  <2> QED BY <1>1, <2>2
<1>6. InOrderOf(t, s)
  BY <1>4 DEF InOrderOf
<1> QED BY <1>1, <1>2, <1>3, <1>5, <1>6

\* What some orders have at the places of the good elements.
PicksOf(orders, good) ==
    {Picked(order, {i \in DOMAIN order : order[i] \in good}) : order \in orders}

\* What some orders of a set have at the places of certain elements is those elements.
LEMMA OrderedPicks ==
    ASSUME NEW S, IsFiniteSet(S), NEW orders, orders \subseteq SetToSeqs(S), NEW good,
           NEW picks, picks = PicksOf(orders, good), NEW x
    PROVE  /\ x \in UNION {Range(p) : p \in picks} => x \in S /\ x \in good
           /\ x \in S /\ x \in good /\ orders # {} => x \in UNION {Range(p) : p \in picks}
<1> DEFINE places(order) == {i \in DOMAIN order : order[i] \in good}
           some == UNION {Range(p) : p \in picks}
<1>0. picks = {Picked(order, places(order)) : order \in orders}
  BY DEF PicksOf
<1>1. ASSUME NEW order \in orders
      PROVE  /\ IsSeq(order) /\ DOMAIN order = 1..Len(order)
             /\ \A i \in 1..Len(order) : order[i] \in S
             /\ \A y \in S : \E i \in 1..Len(order) : order[i] = y
  BY OrderHasAll, SeqBasics
<1>2. ASSUME x \in some PROVE x \in S /\ x \in good
  <2>1. PICK order \in orders : x \in Range(Picked(order, places(order)))
    BY <1>0, <1>2
  <2>2. PICK at : at = places(order)
    OBVIOUS
  <2> DEFINE s == Picked(order, at)
  <2>3. /\ IsSeq(s)
        /\ \A i \in 1..Len(s) : \E j \in 1..Len(order) : j \in at /\ s[i] = order[j]
    <3>1. IsSeq(order)
      BY <1>1
    <3> QED BY <3>1, PickedEvents
  <2> HIDE DEF s
  <2>4. PICK i \in 1..Len(s) : s[i] = x
    BY <2>1, <2>2, <2>3, SeqBasics DEF Range, s
  <2>5. PICK j \in 1..Len(order) : j \in at /\ order[j] = x
    BY <2>3, <2>4
  <2> QED BY <1>1, <2>2, <2>5
<1>3. ASSUME x \in S, x \in good, orders # {} PROVE x \in some
  <2>1. PICK order : order \in orders
    BY <1>3
  <2>2. PICK j \in 1..Len(order) : order[j] = x
    BY <1>1, <1>3, <2>1
  <2>3. PICK at : at = places(order) /\ j \in at
    BY <1>1, <1>3, <2>1, <2>2
  <2> DEFINE s == Picked(order, at)
  <2>4. IsSeq(s) /\ \E i \in 1..Len(s) : s[i] = order[j]
    <3>1. IsSeq(order)
      BY <1>1, <2>1
    <3>2. IsSeq(s)
      BY <3>1, PickedEvents
    <3>3. \E i \in 1..Len(s) : s[i] = order[j]
      <4>1. j \in at
        BY <2>3
      <4> QED BY ONLY <3>1, <4>1, PickedHolds, j \in 1..Len(order)
    <3> QED BY <3>2, <3>3
  <2>5. s \in picks
    BY <1>0, <2>1, <2>3
  <2> HIDE DEF s
  <2>6. x \in Range(s)
    BY <2>2, <2>4, SeqBasics DEF Range
  <2> QED BY <2>5, <2>6
<1> QED BY <1>2, <1>3

LEMMA SetIsListed ==
    ASSUME NEW S, IsFiniteSet(S), NEW s, s = SetToSeq(S)
    PROVE  /\ IsSeq(s)
           /\ \A i \in 1..Len(s) : s[i] \in S
           /\ \A x \in S : \E i \in 1..Len(s) : s[i] = x
<1> DEFINE n == Cardinality(S)
<1>1. n \in Nat /\ ExistsBijection(1..n, S)
  BY FS_CardinalityType
<1>2. PICK f \in [1..n -> S] : IsInjective(f)
  BY <1>1 DEF ExistsBijection, Bijection, Injection
<1>3. s \in [1..n -> S] /\ IsInjective(s)
  BY <1>2 DEF SetToSeq
<1>4. s \in SetToSeqs(S)
  BY <1>3 DEF SetToSeqs, IsInjective
<1> QED BY <1>4, OrderHasAll

\* What is in one sequence is in the other.
AllIn(s, r) == \A i \in 1..Len(s) : \E k \in 1..Len(r) : r[k] = s[i]

LEMMA ReversedElements ==
    ASSUME NEW s, IsSeq(s), NEW r, r = Reverse(s)
    PROVE  IsSeq(r) /\ AllIn(r, s) /\ AllIn(s, r)
<1>1. PICK n \in Nat : n = Len(s)
  BY SeqBasics
<1> DEFINE f == [i \in 1..n |-> s[(n - i) + 1]]
           S == {s[i] : i \in 1..n}
<1>2. \A i \in 1..n : (n - i) + 1 \in 1..n /\ f[i] = s[(n - i) + 1]
  OBVIOUS
<1>3. f \in [1..n -> S]
  BY <1>2
<1>4. f \in Seq(S) /\ Len(f) = n
  BY <1>1, <1>3
<1>5. r = f
  BY <1>1 DEF Reverse
<1>6. \A i \in 1..n : f[(n - i) + 1] = s[i]
  BY <1>2
<1> HIDE DEF f
<1>7. /\ \A k \in 1..n : \E i \in 1..n : f[k] = s[i]
      /\ \A i \in 1..n : \E k \in 1..n : f[k] = s[i]
  BY <1>2, <1>6
<1>8. IsSeq(r) /\ Len(r) = n
  BY <1>4, <1>5 DEF IsSeq
<1>9. AllIn(r, s)
  BY <1>1, <1>5, <1>7, <1>8 DEF AllIn
<1>10. AllIn(s, r)
  BY <1>1, <1>5, <1>7, <1>8 DEF AllIn
<1> QED BY <1>8, <1>9, <1>10

----------------------------------------------------------------------------
(* Logs joined, and picked from.                                           *)

\* One sequence after the other, as an operator that lemmas can be cited about.
Joined(u, v) == u \o v

\* Joining is associative, and joining nothing changes nothing.
LEMMA JoinedAgain ==
    ASSUME NEW u, IsSeq(u), NEW v, IsSeq(v), NEW w, IsSeq(w)
    PROVE  Joined(Joined(u, v), w) = Joined(u, Joined(v, w))
<1>1. PICK U : u \in Seq(U)
  BY DEF IsSeq
<1>2. PICK V : v \in Seq(V)
  BY DEF IsSeq
<1>3. PICK W : w \in Seq(W)
  BY DEF IsSeq
<1>4. PICK S : S = U \cup V \cup W
  OBVIOUS
<1>5. u \in Seq(S) /\ v \in Seq(S) /\ w \in Seq(S)
  BY <1>1, <1>2, <1>3, <1>4
<1> QED BY <1>5 DEF Joined

LEMMA NothingJoined ==
    ASSUME NEW s, IsSeq(s)
    PROVE  Joined(<< >>, s) = s
<1>1. PICK S : s \in Seq(S)
  BY DEF IsSeq
<1> QED BY <1>1 DEF Joined

LEMMA MaterializeJoined ==
    ASSUME NEW base, NEW u, IsSeq(u), NEW v, IsSeq(v), NEW all, all = Joined(u, v)
    PROVE  Materialize(base, all) = Materialize(Materialize(base, u), v)
BY MaterializeConcat DEF Joined

LEMMA MaterializeOne ==
    ASSUME NEW s, NEW e
    PROVE  IsSeq(<< e >>) /\ Materialize(s, << e >>) = Apply(s, e)
<1>1. << e >> = Append(<< >>, e)
  OBVIOUS
<1>2. Materialize(s, Append(<< >>, e)) = Apply(Materialize(s, << >>), e)
  BY SeqEmpty, MaterializeAppend
<1>3. IsSeq(Append(<< >>, e))
  BY SeqEmpty, SeqAppend
<1>4. Materialize(s, << >>) = s
  BY MaterializeEmpty
<1> QED BY ONLY <1>1, <1>2, <1>3, <1>4

LEMMA AppendToConcat ==
    ASSUME NEW u, IsSeq(u), NEW v, IsSeq(v), NEW e
    PROVE  Append(u \o v, e) = u \o Append(v, e)
<1> DEFINE x == Append(u \o v, e)
           y == u \o Append(v, e)
<1>1. PICK m \in Nat, n \in Nat : m = Len(u) /\ n = Len(v)
  BY SeqBasics
<1>2. /\ IsSeq(u \o v) /\ Len(u \o v) = m + n
      /\ \A i \in 1..m : (u \o v)[i] = u[i]
      /\ \A i \in 1..n : (u \o v)[m + i] = v[i]
  BY <1>1, SeqConcat
<1>3. /\ IsSeq(x) /\ Len(x) = m + n + 1 /\ x[m + n + 1] = e
      /\ \A i \in 1..(m + n) : x[i] = (u \o v)[i]
  BY <1>2, SeqAppend
<1>4. /\ IsSeq(Append(v, e)) /\ Len(Append(v, e)) = n + 1
      /\ \A i \in 1..n : Append(v, e)[i] = v[i]
      /\ Append(v, e)[n + 1] = e
  BY <1>1, SeqAppend
<1>5. /\ IsSeq(y) /\ Len(y) = m + (n + 1)
      /\ \A i \in 1..m : y[i] = u[i]
      /\ \A i \in 1..(n + 1) : y[m + i] = Append(v, e)[i]
  BY <1>1, <1>4, SeqConcat
<1> HIDE DEF x, y
<1>6. ASSUME NEW i \in 1..(m + n + 1) PROVE x[i] = y[i]
  <2>1. CASE i <= m
    <3>1. i \in 1..m /\ i \in 1..(m + n)
      BY <2>1
    <3>2. x[i] = (u \o v)[i] /\ (u \o v)[i] = u[i] /\ y[i] = u[i]
      BY <1>2, <1>3, <1>5, <3>1
    <3> QED BY <3>2
  <2>2. CASE i > m
    <3>1. PICK j \in 1..(n + 1) : i = m + j
      <4>1. i - m \in 1..(n + 1) /\ i = m + (i - m)
        BY <2>2
      <4> QED BY <4>1
    <3>2. y[i] = Append(v, e)[j]
      BY <1>5, <3>1
    <3>3. CASE j = n + 1
      BY <1>3, <1>4, <3>1, <3>2, <3>3
    <3>4. CASE j # n + 1
      <4>1. j \in 1..n /\ i \in 1..(m + n)
        BY <3>1, <3>4
      <4>2. x[i] = (u \o v)[i]
        BY <1>3, <4>1
      <4>3. (u \o v)[i] = v[j]
        BY <1>2, <3>1, <4>1
      <4> QED BY <1>4, <3>2, <4>1, <4>2, <4>3
    <3> QED BY <3>3, <3>4
  <2> QED BY <2>1, <2>2
<1>7. Len(x) = Len(y) /\ \A i \in 1..Len(x) : x[i] = y[i]
  BY <1>3, <1>5, <1>6
<1>8. x = y
  BY <1>3, <1>5, <1>7, SameElements
<1> QED BY <1>8 DEF x, y

\* A sequence is its beginning and the rest.
LEMMA PrefixAndRest ==
    ASSUME NEW s, IsSeq(s), NEW m \in 0..Len(s)
    PROVE  s = SubSeq(s, 1, m) \o SubSeq(s, m + 1, Len(s))
<1>1. PICK n \in Nat : n = Len(s)
  BY SeqBasics
<1>2. PICK u, v : u = SubSeq(s, 1, m) /\ v = SubSeq(s, m + 1, Len(s))
  OBVIOUS
<1>3. IsSeq(u) /\ Len(u) = m /\ \A i \in 1..m : u[i] = s[i]
  BY <1>2, SeqPrefix
<1>4. IsSeq(v) /\ Len(v) = n - m /\ \A i \in 1..(n - m) : v[i] = s[m + i]
  BY <1>1, <1>2, SeqSuffix
<1>5. /\ IsSeq(u \o v) /\ Len(u \o v) = m + (n - m)
      /\ \A i \in 1..m : (u \o v)[i] = u[i]
      /\ \A i \in 1..(n - m) : (u \o v)[m + i] = v[i]
  <2>1. /\ IsSeq(u \o v) /\ Len(u \o v) = Len(u) + Len(v)
        /\ \A i \in 1..Len(u) : (u \o v)[i] = u[i]
        /\ \A i \in 1..Len(v) : (u \o v)[Len(u) + i] = v[i]
    <3>1. IsSeq(u) /\ IsSeq(v)
      BY <1>3, <1>4
    <3> QED BY ONLY <3>1, SeqConcat
  <2>2. Len(u) = m /\ Len(v) = n - m
    BY <1>3, <1>4
  <2> QED BY ONLY <2>1, <2>2
<1>6. Len(u \o v) = n /\ m \in 0..n
  BY <1>1, <1>5
<1>7. ASSUME NEW i \in 1..n PROVE s[i] = (u \o v)[i]
  <2>1. CASE i <= m
    BY <1>3, <1>5, <1>6, <2>1
  <2>2. CASE i > m
    <3>1. i - m \in 1..(n - m) /\ m + (i - m) = i
      BY <1>6, <2>2
    <3> QED BY <1>4, <1>5, <3>1
  <2> QED BY <1>6, <2>1, <2>2
<1>8. s = u \o v
  BY <1>1, <1>5, <1>6, <1>7, SameElements
<1> QED BY <1>2, <1>8

LEMMA PicksAgree ==
    ASSUME NEW events, NEW others, NEW a, NEW b, NEW f, NEW g,
           Picks(f, events, a), Picks(g, others, b),
           Len(events) \in Nat, Len(others) \in Nat,
           NEW len \in Nat, len <= Len(events), len <= Len(others),
           \A i \in 1..len : events[i] = others[i] /\ (i \in a <=> i \in b)
    PROVE  f[len] = g[len]
<1> DEFINE G == {k \in 0..len : f[k] = g[k]}
<1>1. 0 \in G
  BY DEF Picks
<1>2. ASSUME NEW k \in 1..len, k - 1 \in G PROVE k \in G
  <2>1. k \in 1..Len(events) /\ k \in 1..Len(others) /\ k \in 0..len
    OBVIOUS
  <2>2. /\ f[k] = IF k \in a THEN Append(f[k - 1], events[k]) ELSE f[k - 1]
        /\ g[k] = IF k \in b THEN Append(g[k - 1], others[k]) ELSE g[k - 1]
    BY <2>1 DEF Picks
  <2>3. f[k - 1] = g[k - 1] /\ events[k] = others[k] /\ (k \in a <=> k \in b)
    BY <1>2
  <2> QED BY <2>1, <2>2, <2>3
<1> HIDE DEF G
<1>3. \A k \in 0..len : k \in G
  BY <1>1, <1>2, UpTo
<1> QED BY <1>3 DEF G

\* Only the places in the sequence count.
LEMMA PickedSamePlaces ==
    ASSUME NEW events, IsSeq(events), NEW a, NEW b,
           \A i \in 1..Len(events) : i \in a <=> i \in b
    PROVE  Picked(events, a) = Picked(events, b)
<1>1. PICK n \in Nat : n = Len(events)
  BY SeqBasics
<1>2. PICK f : Picks(f, events, a) /\ Picked(events, a) = f[n]
  BY <1>1, PickedIsRun
<1>3. PICK g : Picks(g, events, b) /\ Picked(events, b) = g[n]
  BY <1>1, PickedIsRun
<1>4. f[n] = g[n]
  BY <1>1, <1>2, <1>3, PicksAgree
<1> QED BY <1>2, <1>3, <1>4

\* What is picked from a common beginning is the same.
LEMMA PickedShared ==
    ASSUME NEW a, IsSeq(a), NEW b, IsSeq(b), NEW m \in Nat, m <= Len(a), m <= Len(b),
           \A i \in 1..m : a[i] = b[i], NEW places, \A i \in places : i \in 1..m
    PROVE  Picked(a, places) = Picked(b, places)
<1>1. ASSUME NEW c, IsSeq(c), m <= Len(c), NEW f, Picks(f, c, places)
      PROVE  f[Len(c)] = f[m]
  <2>1. PICK n \in Nat : n = Len(c)
    BY <1>1, SeqBasics
  <2> DEFINE G == {k \in 0..n : k >= m => f[k] = f[m]}
  <2>2. 0 \in G
    <3>1. 0 >= m => m = 0
      OBVIOUS
    <3> QED BY <2>1, <3>1
  <2>3. ASSUME NEW k \in 1..n, k - 1 \in G PROVE k \in G
    <3> SUFFICES ASSUME k >= m, k # m PROVE f[k] = f[m]
      BY <2>1
    <3>1. k - 1 >= m /\ k \notin 1..m
      BY <2>1
    <3>2. k \notin places
      BY <3>1
    <3>3. f[k] = f[k - 1]
      BY <1>1, <2>1, <3>2 DEF Picks
    <3> QED BY <2>3, <3>1, <3>3
  <2> HIDE DEF G
  <2>4. \A k \in 0..n : k \in G
    BY <2>2, <2>3, UpTo
  <2>5. n \in G /\ n >= m
    BY <1>1, <2>1, <2>4
  <2> QED BY <2>1, <2>5 DEF G
<1>2. Len(a) \in Nat /\ Len(b) \in Nat
  BY SeqBasics
<1>3. PICK f : Picks(f, a, places) /\ Picked(a, places) = f[Len(a)]
  BY <1>2, PickedIsRun
<1>4. PICK g : Picks(g, b, places) /\ Picked(b, places) = g[Len(b)]
  BY <1>2, PickedIsRun
<1>5. f[Len(a)] = f[m] /\ g[Len(b)] = g[m]
  BY <1>1, <1>3, <1>4
<1>6. f[m] = g[m]
  <2>1. m \in Nat /\ m <= Len(a) /\ m <= Len(b)
    OBVIOUS
  <2>2. \A i \in 1..m : a[i] = b[i] /\ (i \in places <=> i \in places)
    OBVIOUS
  <2> QED BY ONLY <1>2, <1>3, <1>4, <2>1, <2>2, PicksAgree
<1> QED BY <1>3, <1>4, <1>5, <1>6

\* Picking everything up to a place.
LEMMA PickedUpTo ==
    ASSUME NEW s, IsSeq(s), NEW m \in 0..Len(s)
    PROVE  Picked(s, 1..m) = SubSeq(s, 1, m)
<1>1. \A i \in 1..Len(s) : i \in 1..m <=> i <= m
  BY SeqBasics
<1> QED BY <1>1, PickedPrefix

LEMMA NothingPicked ==
    ASSUME NEW events, IsSeq(events), NEW places, \A i \in 1..Len(events) : i \notin places
    PROVE  Picked(events, places) = << >> /\ SubSeq(events, 1, 0) = << >>
<1>1. Len(events) \in Nat /\ 0 \in 0..Len(events)
  BY SeqBasics
<1>2. Picked(events, places) = SubSeq(events, 1, 0)
  BY <1>1, PickedPrefix
<1>3. IsSeq(SubSeq(events, 1, 0)) /\ Len(SubSeq(events, 1, 0)) = 0
  BY <1>1, SeqPrefix
<1>4. IsSeq(<< >>) /\ Len(<< >>) = 0
  BY SeqEmpty
<1>5. SubSeq(events, 1, 0) = << >>
  BY <1>3, <1>4, SameElements
<1> QED BY <1>2, <1>5

LEMMA PickedAppend ==
    ASSUME NEW u, IsSeq(u), NEW e, NEW places, NEW a,
           \A i \in 1..Len(u) : i \in places <=> i \in a
    PROVE  Picked(Append(u, e), places)
               = IF Len(u) + 1 \in places THEN Append(Picked(u, a), e) ELSE Picked(u, a)
<1> DEFINE all == Append(u, e)
<1>1. PICK m \in Nat : m = Len(u)
  BY SeqBasics
<1>2. /\ IsSeq(all) /\ Len(all) = m + 1 /\ all[m + 1] = e
      /\ \A i \in 1..m : all[i] = u[i]
  BY <1>1, SeqAppend
<1> HIDE DEF all
<1>3. PICK f : Picks(f, all, places) /\ Picked(all, places) = f[m + 1]
  BY <1>2, PickedIsRun
<1>4. PICK g : Picks(g, u, a) /\ Picked(u, a) = g[m]
  BY <1>1, PickedIsRun
<1>5. f[m] = g[m]
  <2>1. m \in Nat /\ m <= Len(all) /\ m <= Len(u) /\ Len(all) \in Nat /\ Len(u) \in Nat
    BY <1>1, <1>2
  <2>2. \A i \in 1..m : all[i] = u[i] /\ (i \in places <=> i \in a)
    BY <1>1, <1>2
  <2> QED BY ONLY <1>3, <1>4, <2>1, <2>2, PicksAgree
<1>6. m + 1 \in 1..Len(all) /\ m + 1 - 1 = m
  BY <1>2
<1>7. f[m + 1] = IF m + 1 \in places THEN Append(f[m], e) ELSE f[m]
  BY <1>2, <1>3, <1>6 DEF Picks
<1> QED BY <1>1, <1>3, <1>4, <1>5, <1>7 DEF all

\* The places in two sequences in a row are a in the first and b in the second.
SplitPlaces(places, u, v, a, b) ==
    /\ \A i \in 1..Len(u) : i \in places <=> i \in a
    /\ \A i \in 1..Len(v) : Len(u) + i \in places <=> i \in b

\* Picking from two sequences in a row.
LEMMA PickedConcat ==
    ASSUME NEW u, IsSeq(u), NEW v, IsSeq(v), NEW all, all = Joined(u, v), NEW places, NEW a, NEW b,
           SplitPlaces(places, u, v, a, b)
    PROVE  Picked(all, places) = Joined(Picked(u, a), Picked(v, b))
<1>1. PICK m \in Nat, n \in Nat : m = Len(u) /\ n = Len(v)
  BY SeqBasics
<1>2. /\ IsSeq(all) /\ Len(all) = m + n /\ m + n \in Nat
      /\ \A i \in 1..m : all[i] = u[i]
      /\ \A i \in 1..n : all[m + i] = v[i]
  BY <1>1, SeqConcat DEF Joined
<1>3. PICK f : Picks(f, all, places) /\ Picked(all, places) = f[m + n]
  BY <1>2, PickedIsRun
<1>4. PICK g : Picks(g, u, a) /\ Picked(u, a) = g[m]
  BY <1>1, PickedIsRun
<1>5. PICK h : Picks(h, v, b) /\ Picked(v, b) = h[n]
  BY <1>1, PickedIsRun
<1>6. f[m] = g[m] /\ IsSeq(g[m])
  <2>1. IsSeq(Picked(u, a))
    BY PickedEvents
  <2>2. m \in Nat /\ m <= Len(all) /\ m <= Len(u) /\ Len(all) \in Nat /\ Len(u) \in Nat
    BY <1>1, <1>2
  <2>3. \A i \in 1..m : all[i] = u[i] /\ (i \in places <=> i \in a)
    BY <1>1, <1>2 DEF SplitPlaces
  <2>4. f[m] = g[m]
    BY ONLY <1>3, <1>4, <2>2, <2>3, PicksAgree
  <2> QED BY <1>4, <2>1, <2>4
<1> DEFINE G == {k \in 0..n : IsSeq(h[k]) /\ f[m + k] = g[m] \o h[k]}
<1>7. 0 \in G
  <2>1. h[0] = << >> /\ m + 0 = m
    BY <1>1, <1>5 DEF Picks
  <2>2. g[m] \o << >> = g[m]
    BY <1>6 DEF IsSeq
  <2>3. IsSeq(h[0]) /\ f[m + 0] = g[m] \o h[0] /\ 0 \in 0..n
    BY <1>6, <2>1, <2>2, SeqEmpty
  <2> QED BY <2>3
<1>8. ASSUME NEW k \in 1..n, k - 1 \in G PROVE k \in G
  <2>1. /\ m + k \in 1..Len(all) /\ m + k - 1 = m + (k - 1) /\ k \in 0..n
        /\ all[m + k] = v[k] /\ (m + k \in places <=> k \in b)
    BY <1>1, <1>2 DEF SplitPlaces
  <2>2. f[m + k] = IF m + k \in places THEN Append(f[m + k - 1], all[m + k]) ELSE f[m + k - 1]
    BY <1>3, <2>1 DEF Picks
  <2>3. h[k] = IF k \in b THEN Append(h[k - 1], v[k]) ELSE h[k - 1]
    BY <1>1, <1>5 DEF Picks
  <2>4. IsSeq(h[k - 1]) /\ f[m + (k - 1)] = g[m] \o h[k - 1]
    BY <1>8
  <2>5. \A e : Append(g[m] \o h[k - 1], e) = g[m] \o Append(h[k - 1], e)
    <3> DEFINE x == g[m]
               y == h[k - 1]
    <3>1. IsSeq(x) /\ IsSeq(y)
      BY <1>6, <2>4
    <3> HIDE DEF x, y
    <3>2. \A e : Append(x \o y, e) = x \o Append(y, e)
      BY <3>1, AppendToConcat
    <3> QED BY <3>2 DEF x, y
  <2>6. IsSeq(h[k])
    BY <2>3, <2>4, SeqAppend
  <2>7. f[m + k] = g[m] \o h[k]
    BY <2>1, <2>2, <2>3, <2>4, <2>5
  <2> QED BY <2>1, <2>6, <2>7
<1> HIDE DEF G
<1>9. \A k \in 0..n : k \in G
  BY <1>7, <1>8, UpTo
<1>10. n \in G
  BY <1>9
<1> QED BY <1>3, <1>4, <1>5, <1>10 DEF G, Joined

\* Picking by place and then by what is there is picking once.
LEMMA PickedTwice ==
    ASSUME NEW events, IsSeq(events), NEW a, NEW W, NEW G \in W,
           NEW p, p = Picked(events, a),
           NEW b, \A i \in 1..Len(p) : i \in b <=> p[i] \in G,
           NEW c, \A i \in 1..Len(events) : i \in c <=> i \in a /\ events[i] \in G
    PROVE  Picked(p, b) = Picked(events, c)
<1>1. PICK n \in Nat : n = Len(events)
  BY SeqBasics
<1>2. PICK f : Picks(f, events, a) /\ Picked(events, a) = f[n]
  BY <1>1, PickedIsRun
<1>3. PICK h : Picks(h, events, c) /\ Picked(events, c) = h[n]
  BY <1>1, PickedIsRun
<1> DEFINE Q(s) == {i \in 1..Len(s) : s[i] \in G}
           D == {k \in 0..n : IsSeq(f[k]) /\ Picked(f[k], Q(f[k])) = h[k]}
<1>4. 0 \in D
  <2>1. f[0] = << >> /\ h[0] = << >> /\ IsSeq(<< >>) /\ 1..Len(<< >>) = {}
    BY <1>2, <1>3, SeqEmpty DEF Picks
  <2>2. Picked(<< >>, {}) = SubSeq(<< >>, 1, 0)
    BY <2>1, SeqEmpty, PickedPrefix
  <2>3. Q(<< >>) = {} /\ SubSeq(<< >>, 1, 0) = << >>
    BY <2>1
  <2>4. Picked(<< >>, Q(<< >>)) = << >>
    BY <2>2, <2>3
  <2>5. IsSeq(f[0]) /\ Picked(f[0], Q(f[0])) = h[0]
    BY ONLY <2>1, <2>4
  <2> QED BY <2>5
<1>5. ASSUME NEW k \in 1..n, k - 1 \in D PROVE k \in D
  <2> DEFINE x == f[k - 1]
             e == events[k]
             y == Append(x, e)
  <2>1. k \in 0..n /\ IsSeq(x) /\ Picked(x, Q(x)) = h[k - 1] /\ k \in 1..Len(events)
    BY <1>1, <1>5
  <2>2. /\ f[k] = IF k \in a THEN y ELSE x
        /\ h[k] = IF k \in c THEN Append(h[k - 1], e) ELSE h[k - 1]
    BY <2>1, <1>2, <1>3 DEF Picks
  <2>3. k \in c <=> k \in a /\ e \in G
    BY <2>1
  <2>4. CASE k \notin a
    BY <2>1, <2>2, <2>3, <2>4
  <2>5. CASE k \in a
    <3> HIDE DEF x, e
    <3>1. PICK m \in Nat : m = Len(x)
      BY <2>1, SeqBasics
    <3>2. /\ IsSeq(y) /\ Len(y) = m + 1 /\ y[m + 1] = e
          /\ \A i \in 1..m : y[i] = x[i]
      BY <2>1, <3>1, SeqAppend
    <3>3. \A i \in 1..m : i \in Q(y) <=> i \in Q(x)
      BY <3>1, <3>2
    <3>4. m + 1 \in Q(y) <=> e \in G
      BY <3>1, <3>2
    <3> DEFINE qx == Q(x)
               qy == Q(y)
    <3> HIDE DEF qx, qy
    <3>5. Picked(Append(x, e), qy) = IF m + 1 \in qy THEN Append(Picked(x, qx), e) ELSE Picked(x, qx)
      BY <2>1, <3>1, <3>3, PickedAppend DEF qx, qy
    <3>6. Picked(y, Q(y)) = h[k]
      BY <2>1, <2>2, <2>3, <2>5, <3>4, <3>5 DEF qx, qy
    <3> QED BY <2>1, <2>2, <2>5, <3>2, <3>6
  <2> QED BY <2>4, <2>5
<1> HIDE DEF D
<1>6. \A k \in 0..n : k \in D
  BY <1>4, <1>5, UpTo
<1>7. n \in D
  BY <1>6
<1>8. f[n] = p
  BY <1>2
<1>9. IsSeq(p) /\ Picked(p, Q(p)) = h[n]
  BY <1>7, <1>8 DEF D
<1>10. Picked(p, b) = Picked(p, Q(p))
  BY <1>9, PickedSamePlaces
<1> QED BY <1>3, <1>9, <1>10

----------------------------------------------------------------------------
NothingVetted == Vetting(TRUE, << >>, << >>)

----------------------------------------------------------------------------
(* Vetting is a fold, too, of the drafts of a command: it takes them one   *)
(* after the other, and what it lets through is a sequence of events.      *)

IsVetFold(f, n, state, drafts) ==
    f = [s \in SUBSET (1..n) |->
            IF s = {} THEN NothingVetted ELSE Vet(state, f[s \ {Max(s)}], drafts[Max(s)])]

\* The function vetting is defined by exists.
LEMMA VetFoldExists ==
    ASSUME NEW state, NEW drafts, NEW n \in Nat
    PROVE  \E f : IsVetFold(f, n, state, drafts)
<1> DEFINE T == {k \in Nat : ~ \E f : IsVetFold(f, k, state, drafts)}
<1>1. SUFFICES ASSUME T # {} PROVE FALSE
  OBVIOUS
<1>2. PICK k \in T : \A y \in T : k <= y
  BY <1>1, NatMin
<1>3. CASE k = 0
  <2> DEFINE f == [s \in SUBSET (1..k) |-> NothingVetted]
  <2>1. \A s \in SUBSET (1..k) : s = {}
    BY <1>3
  <2>2. IsVetFold(f, k, state, drafts)
    BY <2>1 DEF IsVetFold
  <2> QED BY <2>2
<1>4. CASE k # 0
  <2>1. k - 1 \in Nat /\ k - 1 \notin T
    BY <1>2, <1>4
  <2>2. PICK g : IsVetFold(g, k - 1, state, drafts)
    BY <2>1
  <2> DEFINE f == [s \in SUBSET (1..k) |->
                     IF k \in s THEN Vet(state, g[s \ {k}], drafts[k]) ELSE g[s]]
  <2>3. ASSUME NEW s \in SUBSET (1..k)
        PROVE  f[s] = IF s = {} THEN NothingVetted ELSE Vet(state, f[s \ {Max(s)}], drafts[Max(s)])
    <3>1. CASE k \in s
      <4>1. Max(s) = k
        <5>1. \A y \in s : y \in Int /\ k >= y
          OBVIOUS
        <5> QED BY <3>1, <5>1, MaxOf
      <4>2. s \ {k} \in SUBSET (1..k) /\ k \notin s \ {k}
        OBVIOUS
      <4>3. f[s \ {k}] = g[s \ {k}]
        BY <4>2
      <4> QED BY <3>1, <4>1, <4>3
    <3>2. CASE k \notin s
      <4>1. s \ {Max(s)} \in SUBSET (1..k) /\ k \notin s \ {Max(s)}
        BY <3>2
      <4>2. s \in SUBSET (1..(k - 1))
        <5>1. \A i \in s : i \in 1..k /\ i # k
          BY <3>2
        <5>2. \A i \in 1..k : i # k => i \in 1..(k - 1)
          BY <2>1
        <5> QED BY <5>1, <5>2
      <4>3. f[s] = g[s] /\ f[s \ {Max(s)}] = g[s \ {Max(s)}]
        BY <3>2, <4>1
      <4>4. g[s] = IF s = {} THEN NothingVetted ELSE Vet(state, g[s \ {Max(s)}], drafts[Max(s)])
        BY <2>2, <4>2 DEF IsVetFold
      <4> QED BY <4>3, <4>4
    <3> QED BY <3>1, <3>2
  <2> DEFINE h == [s \in SUBSET (1..k) |->
                     IF s = {} THEN NothingVetted ELSE Vet(state, f[s \ {Max(s)}], drafts[Max(s)])]
  <2>4. \A s \in SUBSET (1..k) : f[s] = h[s]
    BY <2>3
  <2>5. f = h
    BY <2>4
  <2>6. IsVetFold(f, k, state, drafts)
    BY <2>5 DEF IsVetFold
  <2> QED BY <2>6
<1> QED BY <1>3, <1>4

\* Vetting goes draft by draft.
IsVetRun(states, state, drafts) ==
    /\ states[0] = NothingVetted
    /\ \A k \in 1..Len(drafts) : states[k] = Vet(state, states[k - 1], drafts[k])

\* Its result is what the last draft leads to.
LEMMA VetEventsIsRun ==
    ASSUME NEW state, NEW drafts, IsSeq(drafts)
    PROVE  \E states : /\ IsVetRun(states, state, drafts)
                       /\ VetEvents(drafts, state) = Vetted(state, states[Len(drafts)])
<1> DEFINE n == Len(drafts)
           f == CHOOSE g : IsVetFold(g, n, state, drafts)
           states == [k \in 0..n |-> f[1..k]]
<1>1. n \in Nat /\ DOMAIN drafts = 1..n
  BY SeqBasics
<1>2. IsVetFold(f, n, state, drafts)
  BY <1>1, VetFoldExists
<1>3. VetEvents(drafts, state) = Vetted(state, f[1..n])
  <2> DEFINE all == FoldLeft(LAMBDA acc, d : Vet(state, acc, d), NothingVetted, drafts)
  <2>1. all = f[1..n]
    BY <1>1 DEF NothingVetted, FoldLeft, MapThenFoldSet, IsVetFold
  <2>2. VetEvents(drafts, state) = CHOOSE v \in {Vetted(state, r) : r \in {all}} : TRUE
    BY DEF VetEvents, NothingVetted
  <2>3. {Vetted(state, r) : r \in {all}} = {Vetted(state, f[1..n])}
    BY <2>1
  <2> QED BY <2>2, <2>3
<1> HIDE DEF f
<1>4. states[0] = NothingVetted
  <2>1. 1..0 = {} /\ {} \in SUBSET (1..n)
    OBVIOUS
  <2>2. f[{}] = NothingVetted
    BY <1>2, <2>1 DEF IsVetFold
  <2> QED BY <1>1, <2>1, <2>2
<1>5. ASSUME NEW k \in 1..n PROVE states[k] = Vet(state, states[k - 1], drafts[k])
  <2>1. 1..k \in SUBSET (1..n) /\ k \in 1..k /\ \A y \in 1..k : y \in Int /\ k >= y
    BY <1>1
  <2>2. Max(1..k) = k
    BY <2>1, MaxOf
  <2>3. (1..k) \ {k} = 1..(k - 1)
    BY <1>1
  <2>4. f[1..k] = Vet(state, f[(1..k) \ {Max(1..k)}], drafts[Max(1..k)])
    BY <1>2, <2>1 DEF IsVetFold
  <2>5. k \in 0..n /\ k - 1 \in 0..n
    BY <1>1
  <2> QED BY <2>2, <2>3, <2>4, <2>5
<1>6. states[n] = f[1..n]
  BY <1>1
<1> HIDE DEF states
<1> QED BY <1>3, <1>4, <1>5, <1>6 DEF IsVetRun

LEMMA VetIsVetDraft ==
    ASSUME NEW state, NEW acc, NEW d
    PROVE  Vet(state, acc, d) = VetDraft(state, acc, d)
<1>1. {VetDraft(state, a, e) : a \in {acc}, e \in {d}} = {VetDraft(state, acc, d)}
  OBVIOUS
<1> QED BY <1>1 DEF Vet

----------------------------------------------------------------------------
(* Replay, seen from the tasks.                                            *)

\* Only adding an edge gives a task one.
LEMMA TouchedEdges ==
    ASSUME NEW t, IsTask(t), NEW e, e.op \in EventOps, e.op # "Delete"
    PROVE  \A x \in Touched(t, e).edges :
              x \in t.edges \/ (e.op = "AddEdge" /\ x = e.payload)
<1> DEFINE u == Touched(t, e)
<1>1. ASSUME NEW w, w = SetFields(t, e) PROVE IsTask(w) /\ w.edges = t.edges
  <2> DEFINE f == ApplySet(t.fields, e.payload)
             closed == RefreshCloseTime(t, f, e.ts)
  <2>1. w = [t EXCEPT !.fields = f, !.updated = e.ts, !.closed = closed]
    BY <1>1 DEF SetFields
  <2> HIDE DEF f, closed
  <2> QED BY <2>1 DEF IsTask
<1>2. CASE e.op = "Create"
  <2> DEFINE w == SetFields(t, e)
  <2>1. IsTask(w) /\ w.edges = t.edges
    BY <1>1
  <2>2. \E c : u = [w EXCEPT !.created = c]
    BY <1>2 DEF Touched
  <2> HIDE DEF w
  <2>3. u.edges = t.edges
    BY <2>1, <2>2 DEF IsTask
  <2> QED BY <2>3
<1>3. CASE e.op = "Update"
  <2>1. u = SetFields(t, e)
    BY <1>3 DEF Touched
  <2> QED BY <1>1, <2>1
<1>4. CASE e.op \in {"Append", "Add", "Remove"}
  <2>1. \E f : u = [t EXCEPT !.fields = f, !.updated = e.ts]
    BY <1>4 DEF Touched
  <2> HIDE DEF u
  <2>2. u.edges = t.edges
    BY <2>1 DEF IsTask
  <2> QED BY <2>2 DEF u
<1>5. CASE e.op = "AddEdge"
  <2>1. u = [t EXCEPT !.edges = t.edges \cup {e.payload}, !.updated = e.ts]
    BY <1>5 DEF Touched
  <2> QED BY <1>5, <2>1 DEF IsTask
<1>6. CASE e.op = "RemoveEdge"
  <2>1. u = [t EXCEPT !.edges = t.edges \ {e.payload}, !.updated = e.ts]
    BY <1>6 DEF Touched
  <2> QED BY <2>1 DEF IsTask
<1> QED BY <1>2, <1>3, <1>4, <1>5, <1>6 DEF EventOps

\* Replaying an event keeps tasks tasks.
LEMMA ApplyKeepsTasks ==
    ASSUME NEW state, AllTasks(state), NEW e, e.op \in EventOps
    PROVE  AllTasks(Apply(state, e))
<1>1. ASSUME NEW id \in DOMAIN Apply(state, e) PROVE IsTask(Apply(state, e)[id])
  <2>1. CASE id # e.id
    BY <2>1, ApplyFrame DEF AllTasks
  <2>2. CASE id = e.id
    <3>1. e.op # "Delete" /\ Apply(state, e)[id] = Touched(Before(state, e), e)
      BY <2>2, ApplyFrame
    <3>2. IsTask(Before(state, e))
      BY DEF Before, AllTasks, IsTask, NewTask
    <3> QED BY <3>1, <3>2, TouchedFields
  <2> QED BY <2>1, <2>2
<1> QED BY <1>1 DEF AllTasks

\* So does replaying any number of them.
LEMMA MaterializeKeepsTasks ==
    ASSUME NEW base, AllTasks(base), NEW events, IsEvents(events)
    PROVE  AllTasks(Materialize(base, events))
<1>1. Len(events) \in Nat
  BY SeqBasics DEF IsEvents
<1>2. PICK f : IsRun(f, base, events) /\ Materialize(base, events) = f[Len(events)]
  BY MaterializeIsRun DEF IsEvents
<1> DEFINE T == {k \in 0..Len(events) : ~ AllTasks(f[k])}
<1>3. SUFFICES ASSUME T # {} PROVE FALSE
  BY <1>1, <1>2
<1>4. PICK k \in T : \A y \in T : k <= y
  <2>1. T \subseteq Nat
    OBVIOUS
  <2> QED BY <1>3, <2>1, NatMin
<1>5. k # 0
  BY <1>2, <1>4 DEF IsRun
<1>6. k \in 1..Len(events) /\ k - 1 \in 0..Len(events) /\ ~ (k <= k - 1)
  BY <1>1, <1>4, <1>5
<1>7. AllTasks(f[k - 1])
  BY <1>4, <1>6
<1>8. f[k] = Apply(f[k - 1], events[k])
  BY <1>2, <1>6, AppliedIsApply DEF IsRun
<1> QED BY <1>4, <1>6, <1>7, <1>8, ApplyKeepsTasks DEF IsEvents

----------------------------------------------------------------------------
(* What is stored.                                                         *)

\* Finitely many tasks, each with finitely many edges.
IsStored(state) ==
    /\ AllTasks(state) /\ IsFiniteSet(DOMAIN state)
    /\ \A id \in DOMAIN state : IsFiniteSet(state[id].edges)

LEMMA ApplyKeepsStored ==
    ASSUME NEW state, IsStored(state), NEW e, e.op \in EventOps
    PROVE  IsStored(Apply(state, e))
<1> DEFINE after == Apply(state, e)
<1>1. AllTasks(after)
  BY ApplyKeepsTasks DEF IsStored
<1>2. ASSUME NEW id \in DOMAIN after PROVE IsFiniteSet(after[id].edges)
  <2>1. CASE id # e.id
    BY <2>1, ApplyFrame DEF IsStored
  <2>2. CASE id = e.id
    <3> DEFINE t == Before(state, e)
               edges == Touched(t, e).edges
    <3>1. e.op # "Delete" /\ after[id] = Touched(t, e)
      BY <2>2, ApplyFrame
    <3>2. IsTask(t) /\ IsFiniteSet(t.edges)
      BY FS_EmptySet DEF Before, IsStored, AllTasks, IsTask, NewTask
    <3> HIDE DEF t
    <3>3. \A x \in edges : x \in t.edges \/ (e.op = "AddEdge" /\ x = e.payload)
      BY <3>1, <3>2, TouchedEdges
    <3>4. IsFiniteSet(t.edges \cup {e.payload})
      BY <3>2, FS_AddElement
    <3>5. edges \in SUBSET (t.edges \cup {e.payload})
      BY <3>3
    <3> HIDE DEF edges
    <3>6. IsFiniteSet(edges)
      BY <3>4, <3>5, FS_Subset
    <3> QED BY <3>1, <3>6 DEF edges
  <2> QED BY <2>1, <2>2
<1>3. IsFiniteSet(DOMAIN after)
  <2>1. IsFiniteSet(DOMAIN state \cup {e.id})
    BY FS_AddElement DEF IsStored
  <2>2. DOMAIN after \in SUBSET (DOMAIN state \cup {e.id})
    BY ApplyFrame
  <2> HIDE DEF after
  <2> QED BY <2>1, <2>2, FS_Subset
<1> QED BY <1>1, <1>2, <1>3 DEF IsStored

LEMMA MaterializeKeepsStored ==
    ASSUME NEW base, IsStored(base), NEW events, IsEvents(events)
    PROVE  IsStored(Materialize(base, events))
<1>1. PICK n \in Nat : n = Len(events)
  BY SeqBasics DEF IsEvents
<1>2. PICK f : IsRun(f, base, events) /\ Materialize(base, events) = f[n]
  BY <1>1, MaterializeIsRun DEF IsEvents
<1> DEFINE G == {k \in 0..n : IsStored(f[k])}
<1>3. 0 \in G
  BY <1>2 DEF IsRun
<1>4. ASSUME NEW k \in 1..n, k - 1 \in G PROVE k \in G
  <2>1. f[k] = Apply(f[k - 1], events[k])
    BY <1>1, <1>2, AppliedIsApply DEF IsRun
  <2>2. events[k].op \in EventOps
    BY <1>1 DEF IsEvents
  <2> QED BY <1>4, <2>1, <2>2, ApplyKeepsStored
<1> HIDE DEF G
<1>5. n \in 0..n /\ \A k \in 0..n : k \in G
  BY <1>3, <1>4, UpTo
<1> QED BY <1>2, <1>5 DEF G

----------------------------------------------------------------------------
(* The commands.                                                           *)

AddsNone(drafts) == \A i \in 1..Len(drafts) : drafts[i].op # "AddEdge"

LEMMA OneEvent ==
    ASSUME NEW d, d.op \in EventOps
    PROVE  IsEvents(<< d >>) /\ (d.op # "AddEdge" => AddsNone(<< d >>))
<1>1. << d >> \in Seq({d}) /\ Len(<< d >>) = 1 /\ << d >>[1] = d
  OBVIOUS
<1>2. \A i \in 1..Len(<< d >>) : << d >>[i].op \in EventOps
  BY <1>1
<1>3. d.op # "AddEdge" => AddsNone(<< d >>)
  BY <1>1 DEF AddsNone
<1> QED BY <1>1, <1>2, <1>3 DEF IsEvents, IsSeq

LEMMA NoEvents == IsEvents(<< >>) /\ AddsNone(<< >>)
BY DEF IsEvents, IsSeq, AddsNone

LEMMA MoreEvents ==
    ASSUME NEW s, IsEvents(s), NEW t, IsEvents(t)
    PROVE  IsEvents(s \o t) /\ (AddsNone(s) /\ AddsNone(t) => AddsNone(s \o t))
<1> DEFINE u == s \o t
<1>1. /\ IsSeq(u) /\ Len(u) = Len(s) + Len(t)
      /\ \A i \in 1..Len(s) : u[i] = s[i]
      /\ \A i \in 1..Len(t) : u[Len(s) + i] = t[i]
  BY SeqConcat DEF IsEvents
<1>2. Len(s) \in Nat /\ Len(t) \in Nat
  BY SeqBasics DEF IsEvents
<1> HIDE DEF u
<1>3. ASSUME NEW i \in 1..Len(u)
      PROVE  u[i].op \in EventOps /\ (AddsNone(s) /\ AddsNone(t) => u[i].op # "AddEdge")
  <2>1. CASE i \in 1..Len(s)
    BY <1>1, <2>1 DEF IsEvents, AddsNone
  <2>2. CASE i \notin 1..Len(s)
    <3>1. i - Len(s) \in 1..Len(t) /\ Len(s) + (i - Len(s)) = i
      BY <1>1, <1>2, <2>2
    <3>2. u[i] = t[i - Len(s)]
      BY <1>1, <3>1
    <3> QED BY <3>1, <3>2 DEF IsEvents, AddsNone
  <2> QED BY <2>1, <2>2
<1>4. IsEvents(u) /\ (AddsNone(s) /\ AddsNone(t) => AddsNone(u))
  BY <1>1, <1>3 DEF IsEvents, AddsNone
<1> QED BY <1>4 DEF u

\* Every command is vetted as a sequence of drafts; they add edges when the command
\* is a link, whose edges have been checked for clashes.
LEMMA CommandIsBatch ==
    ASSUME NEW c, IsCommand(c), c.cmd \in Writers, NEW state, NEW past,
           Build(c, state, past).out # << >>
    PROVE  \E drafts :
               /\ IsEvents(drafts) /\ Build(c, state, past) = VetEvents(drafts, state)
               /\ AddsNone(drafts) \/ BlockersAllowed(drafts, state)
<1> DEFINE b == Build(c, state, past)
<1>1. b # Refused
  BY DEF Refused, Vetting
<1>2. CASE c.cmd = "create"
  <2> DEFINE drafts == << CreateDraft(c.id, c.payload) >>
  <2>1. CreateDraft(c.id, c.payload).op \in EventOps \ {"AddEdge"}
    BY DEF CreateDraft, Draft, EventOps
  <2>2. IsEvents(drafts) /\ AddsNone(drafts)
    BY <2>1, OneEvent
  <2>3. b = VetEvents(drafts, state)
    BY <1>1, <1>2 DEF Build
  <2> QED BY <2>2, <2>3
<1>3. CASE c.cmd = "update"
  <2> DEFINE current == FieldsOf(state, c.id)
             drafts  == BuildFieldEvents(c.id, current, c.ops)
             Some(op, payload) ==
                 IF DOMAIN payload = {} THEN << >> ELSE << Draft(op, c.id, payload) >>
  <2>1. ASSUME NEW op \in EventOps \ {"AddEdge"}, NEW payload
        PROVE  IsEvents(Some(op, payload)) /\ AddsNone(Some(op, payload))
    <3>1. Draft(op, c.id, payload).op \in EventOps \ {"AddEdge"}
      BY DEF Draft
    <3> QED BY <3>1, OneEvent, NoEvents
  <2>2. \E v, w, x, y : drafts = Some("Update", v) \o Some("Append", w)
                                     \o Some("Add", x) \o Some("Remove", y)
    BY DEF BuildFieldEvents
  <2> HIDE DEF Some
  <2>3. PICK v, w, x, y : drafts = Some("Update", v) \o Some("Append", w)
                                      \o Some("Add", x) \o Some("Remove", y)
    BY <2>2
  <2>4. /\ IsEvents(Some("Update", v)) /\ IsEvents(Some("Append", w))
        /\ IsEvents(Some("Add", x)) /\ IsEvents(Some("Remove", y))
        /\ AddsNone(Some("Update", v)) /\ AddsNone(Some("Append", w))
        /\ AddsNone(Some("Add", x)) /\ AddsNone(Some("Remove", y))
    BY <2>1 DEF EventOps
  <2>5. IsEvents(drafts) /\ AddsNone(drafts)
    BY <2>3, <2>4, MoreEvents
  <2>6. b = VetEvents(drafts, state)
    BY <1>1, <1>3 DEF Build
  <2> QED BY <2>5, <2>6
<1>4. CASE c.cmd = "delete"
  <2> DEFINE drafts == << Draft("Delete", c.id, << >>) >>
  <2>1. Draft("Delete", c.id, << >>).op \in EventOps \ {"AddEdge"}
    BY DEF Draft, EventOps
  <2>2. IsEvents(drafts) /\ AddsNone(drafts)
    BY <2>1, OneEvent
  <2>3. b = VetEvents(drafts, state)
    BY <1>1, <1>4 DEF Build
  <2> QED BY <2>2, <2>3
<1>5. CASE c.cmd \in {"link", "unlink"}
  <2>1. c.edges \in Seq({c.edges[i] : i \in DOMAIN c.edges})
        /\ \A i \in DOMAIN c.edges :
              c.edges[i].op = IF c.cmd = "link" THEN "AddEdge" ELSE "RemoveEdge"
    BY <1>5 DEF IsCommand
  <2>2. IsSeq(c.edges)
    BY <2>1 DEF IsSeq
  <2>3. IsEvents(c.edges)
    BY <2>1, <2>2, SeqBasics DEF IsEvents, EventOps
  <2>4. b = VetEvents(c.edges, state)
    BY <1>1, <1>5 DEF Build
  <2>5. CASE c.cmd = "link"
    <3>1. BlockersAllowed(c.edges, state)
      BY <1>1, <2>5 DEF Build
    <3> QED BY <2>3, <2>4, <3>1
  <2>6. CASE c.cmd = "unlink"
    <3>1. AddsNone(c.edges)
      BY <2>1, <2>2, <2>6, SeqBasics DEF AddsNone
    <3> QED BY <2>3, <2>4, <3>1
  <2> QED BY <1>5, <2>5, <2>6
<1> QED BY <1>2, <1>3, <1>4, <1>5 DEF Writers

\* Events with one more.
LEMMA OneMoreEvent ==
    ASSUME NEW s, IsEvents(s), NEW d, d.op \in EventOps
    PROVE  IsEvents(Append(s, d))
<1> DEFINE u == Append(s, d)
           n == Len(s)
<1>1. n \in Nat /\ \A i \in 1..n : s[i].op \in EventOps
  BY SeqBasics DEF IsEvents
<1>2. IsSeq(u) /\ Len(u) = n + 1 /\ u[n + 1] = d /\ \A i \in 1..n : u[i] = s[i]
  BY SeqAppend DEF IsEvents
<1> HIDE DEF u
<1>3. ASSUME NEW i \in 1..(n + 1) PROVE u[i].op \in EventOps
  <2>1. i = n + 1 \/ i \in 1..n
    BY <1>1
  <2> QED BY <1>1, <1>2, <2>1
<1>4. IsEvents(u)
  BY <1>2, <1>3 DEF IsEvents
<1> QED BY <1>4 DEF u

\* Vetting keeps a draft, trims it, drops it, or refuses the batch.
LEMMA VetKeeps ==
    ASSUME NEW state, NEW r, IsEvents(r.out), NEW d, d.op \in EventOps
    PROVE  IsEvents(VetDraft(state, r, d).out)
<1> DEFINE v == VetDraft(state, r, d)
           trimmed == Restrict(d.payload, Changes(FieldsOf(state, d.id), d.payload))
<1>1. \/ v = Refused
      \/ v = r
      \/ \E preview : v = Vetting(TRUE, r.out, preview)
      \/ \E preview : v = Vetting(TRUE, Append(r.out, d), preview)
      \/ d.op = "Update" /\ \E preview :
            v = Vetting(TRUE, Append(r.out, Draft("Update", d.id, trimmed)), preview)
  BY DEF VetDraft, EventOps
<1>2. Draft("Update", d.id, trimmed).op \in EventOps
  BY DEF Draft, EventOps
<1> HIDE DEF v, trimmed
<1>3. CASE v = Refused
  <2>1. v.out = << >>
    BY <1>3 DEF Refused, Vetting
  <2> QED BY <2>1, NoEvents DEF v
<1>4. CASE v = r
  BY <1>4 DEF v
<1>5. CASE \E preview : v = Vetting(TRUE, r.out, preview)
  <2>1. v.out = r.out
    BY <1>5 DEF Vetting
  <2> QED BY <2>1 DEF v
<1>6. CASE \E preview : v = Vetting(TRUE, Append(r.out, d), preview)
  <2>1. v.out = Append(r.out, d)
    BY <1>6 DEF Vetting
  <2> QED BY <2>1, OneMoreEvent DEF v
<1>7. CASE \E preview :
               v = Vetting(TRUE, Append(r.out, Draft("Update", d.id, trimmed)), preview)
  <2>1. v.out = Append(r.out, Draft("Update", d.id, trimmed))
    BY <1>7 DEF Vetting
  <2> QED BY <1>2, <2>1, OneMoreEvent DEF v
<1> QED BY <1>1, <1>3, <1>4, <1>5, <1>6, <1>7

\* A vetted batch is a sequence of events.
LEMMA BatchIsEvents ==
    ASSUME NEW state, NEW drafts, IsEvents(drafts)
    PROVE  IsEvents(VetEvents(drafts, state).out)
<1> DEFINE n == Len(drafts)
<1>1. n \in Nat /\ n \in 0..n
  BY SeqBasics DEF IsEvents
<1>2. PICK f : IsVetRun(f, state, drafts) /\ VetEvents(drafts, state) = Vetted(state, f[n])
  BY VetEventsIsRun DEF IsEvents
<1> DEFINE G == {k \in 0..n : IsEvents(f[k].out)}
<1>3. 0 \in G
  <2>1. f[0].out = << >>
    BY <1>2 DEF IsVetRun, NothingVetted, Vetting
  <2> QED BY <1>1, <2>1, NoEvents
<1>4. ASSUME NEW k \in 1..n, k - 1 \in G PROVE k \in G
  <2>1. f[k] = VetDraft(state, f[k - 1], drafts[k])
    BY <1>2, VetIsVetDraft DEF IsVetRun
  <2>2. IsEvents(f[k - 1].out) /\ drafts[k].op \in EventOps /\ k \in 0..n
    BY <1>1, <1>4 DEF IsEvents
  <2>3. IsEvents(f[k].out)
    BY <2>1, <2>2, VetKeeps
  <2> QED BY <2>2, <2>3
<1>5. \A k \in 1..n : k - 1 \in G => k \in G
  BY <1>4
<1> HIDE DEF G
<1>6. \A k \in 0..n : k \in G
  BY <1>1, <1>3, <1>5, UpTo
<1>7. IsEvents(f[n].out)
  BY <1>1, <1>6 DEF G
<1>8. Vetted(state, f[n]) = f[n] \/ Vetted(state, f[n]).out = << >>
  BY DEF Vetted, Refused, Vetting
<1> QED BY <1>2, <1>7, <1>8, NoEvents

\* So is what a command turns into.
LEMMA CommandIsEvents ==
    ASSUME NEW c, IsCommand(c), c.cmd \in Writers, NEW state, NEW past
    PROVE  IsEvents(Build(c, state, past).out)
<1>1. CASE Build(c, state, past).out = << >>
  BY <1>1, NoEvents
<1>2. CASE Build(c, state, past).out # << >>
  BY <1>2, CommandIsBatch, BatchIsEvents
<1> QED BY <1>1, <1>2

\* Of the fields the log remembers, a command asks only for those its guard names.
LEMMA CommandRemembers ==
    ASSUME NEW c, c.cmd \in Writers, NEW state, NEW past, NEW named,
           c.cmd \in {"update", "delete"} => \A k \in DOMAIN c.guard : k \in past <=> k \in named
    PROVE  Build(c, state, past) = Build(c, state, named)
<1>1. ASSUME NEW id, NEW guard, NEW introduces, \A k \in DOMAIN guard : k \in past <=> k \in named
      PROVE  EnsureGuard(state, past, id, guard, introduces)
                 <=> EnsureGuard(state, named, id, guard, introduces)
  BY <1>1 DEF EnsureGuard
<1>2. CASE c.cmd = "update"
  <2> DEFINE drafts == BuildFieldEvents(c.id, FieldsOf(state, c.id), c.ops)
             sets   == DOMAIN c.ops.set \cup DOMAIN c.ops.append \cup DOMAIN c.ops.subtract
  <2>1. EnsureGuard(state, past, c.id, c.guard, sets)
            <=> EnsureGuard(state, named, c.id, c.guard, sets)
    BY <1>1, <1>2
  <2> HIDE DEF sets, drafts
  <2>2. \A p : Build(c, state, p) =
            IF /\ EnsureGuard(state, p, c.id, c.guard, sets)
               /\ DispatchAccumulate(FieldsOf(state, c.id), c.ops).ok
               /\ VetNewFields(drafts, state, c.newField)
            THEN VetEvents(drafts, state) ELSE Refused
    BY <1>2 DEF Build, sets, drafts
  <2> QED BY <2>1, <2>2
<1>3. CASE c.cmd = "delete"
  <2>1. EnsureGuard(state, past, c.id, c.guard, {})
            <=> EnsureGuard(state, named, c.id, c.guard, {})
    BY <1>1, <1>3
  <2>2. \A p : Build(c, state, p) =
            IF EnsureGuard(state, p, c.id, c.guard, {})
            THEN VetEvents(<< Draft("Delete", c.id, << >>) >>, state) ELSE Refused
    BY <1>3 DEF Build
  <2> QED BY <2>1, <2>2
<1>4. CASE c.cmd \in {"create", "link", "unlink"}
  BY <1>4 DEF Build
<1> QED BY <1>2, <1>3, <1>4 DEF Writers

----------------------------------------------------------------------------
(* What vetting makes of a draft.                                          *)

\* The fields the gate takes the task to have.
Working(state, preview, id) ==
    IF id \in DOMAIN preview /\ ~ preview[id].gone
    THEN preview[id].fields ELSE FieldsOf(state, id)

\* What a vetted draft logs: nothing, or one event, and why.
LEMMA VetLogs ==
    ASSUME NEW state, NEW r, NEW d, d.op \in EventOps, NEW v, v = VetDraft(state, r, d), v.ok
    PROVE  /\ r.ok /\ ~ Refuses(state, d)
           /\ \/ v.out = r.out
              \/ \E e :
                    /\ v.out = Append(r.out, e) /\ e.op = d.op /\ e.id = d.id
                    /\ IF d.op = "Update"
                       THEN /\ e.payload = Restrict(d.payload, Changes(FieldsOf(state, d.id), d.payload))
                            /\ DOMAIN e.payload # {}
                       ELSE e = d
                    /\ d.op \in {"Add", "Remove"} =>
                          FieldsAfter(Working(state, r.preview, d.id), d) # Working(state, r.preview, d.id)
                    /\ d.op = "AddEdge" => d.payload \notin state[d.id].edges
                    /\ d.op = "RemoveEdge" => d.payload \in state[d.id].edges
<1>1. r.ok /\ ~ Refuses(state, d)
  BY DEF VetDraft, Refused, Vetting
<1>2. CASE d.op \in {"Create", "Append", "Delete"}
  <2>1. v.out = Append(r.out, d)
    BY <1>1, <1>2 DEF VetDraft, Vetting
  <2> QED BY <1>1, <1>2, <2>1
<1>3. CASE d.op = "Update"
  <2> DEFINE trimmed == Restrict(d.payload, Changes(FieldsOf(state, d.id), d.payload))
             e == Draft("Update", d.id, trimmed)
  <2>1. v.out = r.out \/ (DOMAIN trimmed # {} /\ v.out = Append(r.out, e))
    BY <1>1, <1>3 DEF VetDraft, Vetting
  <2>2. e.op = "Update" /\ e.id = d.id /\ e.payload = trimmed
    BY DEF Draft
  <2> HIDE DEF e
  <2> QED BY <1>1, <1>3, <2>1, <2>2
<1>4. CASE d.op \in {"Add", "Remove"}
  <2> DEFINE w == Working(state, r.preview, d.id)
  <2>1. v.out = r.out \/ (ApplyAccumulate(w, d.payload, d.op = "Add") # w /\ v.out = Append(r.out, d))
    BY <1>1, <1>4 DEF VetDraft, Vetting, Working
  <2>2. FieldsAfter(w, d) = ApplyAccumulate(w, d.payload, d.op = "Add")
    BY <1>4 DEF FieldsAfter
  <2> HIDE DEF w
  <2>3. v.out = r.out \/ (FieldsAfter(w, d) # w /\ v.out = Append(r.out, d))
    BY <2>1, <2>2
  <2> QED BY <1>1, <1>4, <2>3 DEF w
<1>5. CASE d.op \in {"AddEdge", "RemoveEdge"}
  <2>1. \/ v.out = r.out
        \/ /\ v.out = Append(r.out, d)
           /\ d.op = "AddEdge" => d.payload \notin state[d.id].edges
           /\ d.op = "RemoveEdge" => d.payload \in state[d.id].edges
    BY <1>1, <1>5 DEF VetDraft, Vetting, HasEdge
  <2> QED BY <1>1, <1>5, <2>1
<1> QED BY <1>2, <1>3, <1>4, <1>5 DEF EventOps

----------------------------------------------------------------------------
(* The values tasks hold.                                                  *)

\* A text is a sequence of lines.
Formed(fields) == \A k \in DOMAIN fields : IsText(fields[k]) => IsSeq(fields[k][2])

FormedTasks(state) == \A id \in DOMAIN state : Formed(state[id].fields)

FormedEvents(events) ==
    \A i \in 1..Len(events) : CarriesFields(events[i]) => Formed(events[i].payload)

LEMMA ValuesAreFormed ==
    ASSUME NEW fields, AreValues(fields)
    PROVE  Formed(fields)
BY DEF AreValues, IsValue, Formed, IsSeq

LEMMA LinesOfText ==
    ASSUME NEW v, IsText(v) => IsSeq(v[2])
    PROVE  IsSeq(TextLines(v)) /\ IsSeq(Text(TextLines(v))[2])
<1>1. \A x : << x >> \in Seq({x})
  OBVIOUS
<1> QED BY <1>1 DEF TextLines, Text, IsSeq

\* What an event writes is formed if what it carries and what it finds is.
LEMMA FieldsStayFormed ==
    ASSUME NEW fields, Formed(fields), NEW e, CarriesFields(e) => Formed(e.payload)
    PROVE  Formed(FieldsAfter(fields, e))
<1>1. CASE e.op \in {"Create", "Update"}
  <2> DEFINE unset == {x \in DOMAIN e.payload : e.payload[x] = Null}
             a == Without(e.payload, unset)
             b == Without(fields, unset)
  <2>1. FieldsAfter(fields, e) = Over(a, b)
    BY <1>1 DEF FieldsAfter, ApplySet
  <2>2. Formed(e.payload)
    BY <1>1 DEF CarriesFields
  <2>3. Formed(a) /\ Formed(b)
    BY <2>2, Remains DEF Formed
  <2> HIDE DEF a, b
  <2>4. Formed(Over(a, b))
    BY <2>3, Overridden DEF Formed
  <2> QED BY <2>1, <2>4
<1>2. CASE e.op = "Append"
  <2> DEFINE added == {x \in DOMAIN e.payload : e.payload[x] # Null}
             a == [x \in added |-> AppendText(Value(fields, x), e.payload[x])]
  <2>1. FieldsAfter(fields, e) = Over(a, fields)
    BY <1>2 DEF FieldsAfter, ApplyAppend
  <2>2. Formed(e.payload)
    BY <1>2 DEF CarriesFields
  <2>3. ASSUME NEW x \in added PROVE IsSeq(a[x][2])
    <3> DEFINE v == e.payload[x]
               old == Value(fields, x)
    <3>1. (IsText(v) => IsSeq(v[2])) /\ (IsText(old) => IsSeq(old[2]))
      BY <2>2 DEF Formed, Value, Null, IsText
    <3>2. a[x] = AppendText(old, v)
      OBVIOUS
    <3> HIDE DEF v, old, a
    <3>3. IsSeq(TextLines(v)) /\ IsSeq(TextLines(old))
      BY <3>1, LinesOfText
    <3>4. IsSeq(TextLines(old) \o TextLines(v))
      BY <3>3, SeqConcat
    <3>5. a[x][2] = TextLines(v) \/ a[x][2] = TextLines(old) \o TextLines(v)
      BY <3>2 DEF AppendText, Text
    <3> QED BY <3>3, <3>4, <3>5
  <2>4. DOMAIN a = added
    OBVIOUS
  <2>5. Formed(a)
    BY <2>3, <2>4 DEF Formed
  <2> HIDE DEF a
  <2>6. Formed(Over(a, fields))
    BY <2>5, Overridden DEF Formed
  <2> QED BY <2>1, <2>6
<1>3. CASE e.op \in {"Add", "Remove"}
  <2> DEFINE a == [x \in DOMAIN e.payload |->
                      Accumulated(Value(fields, x), e.payload[x], e.op = "Add")]
             unset == {x \in DOMAIN a : a[x] = Null}
             b == Without(a, unset)
  <2>1. FieldsAfter(fields, e) = Over(b, fields)
    BY <1>3 DEF FieldsAfter, ApplyAccumulate
  <2>2. ASSUME NEW old, NEW v, NEW add, IsText(old) => IsSeq(old[2])
        PROVE  IsText(Accumulated(old, v, add)) => IsSeq(Accumulated(old, v, add)[2])
    <3>1. \A n, plus : ~ IsText(AccumulateNumbers(old, n, plus)) /\ ~ IsText(AccumulateSets(old, n, plus))
      BY DEF AccumulateNumbers, AccumulateSets, IsText, Num, Float, SetOf
    <3>2. CASE IsNumber(v) /\ (old = Null \/ IsNumber(old))
      <4>1. ~ IsSet(v)
        BY <3>2 DEF IsNumber, IsSet
      <4> QED BY <3>1, <3>2, <4>1 DEF Accumulated
    <3>3. CASE IsSet(v) /\ (old = Null \/ IsSet(old))
      <4>1. ~ IsNumber(v)
        BY <3>3 DEF IsNumber, IsSet
      <4> QED BY <3>1, <3>3, <4>1 DEF Accumulated
    <3>4. CASE ~ (IsNumber(v) /\ (old = Null \/ IsNumber(old)))
               /\ ~ (IsSet(v) /\ (old = Null \/ IsSet(old)))
      BY <2>2, <3>4 DEF Accumulated
    <3> QED BY <3>2, <3>3, <3>4
  <2>3. \A x : IsText(Value(fields, x)) => IsSeq(Value(fields, x)[2])
    BY DEF Formed, Value, Null, IsText
  <2>4. Formed(a)
    BY <2>2, <2>3 DEF Formed
  <2> HIDE DEF a
  <2>5. Formed(b)
    BY <2>4, Remains DEF Formed
  <2> HIDE DEF b
  <2>6. Formed(Over(b, fields))
    BY <2>5, Overridden DEF Formed
  <2> QED BY <2>1, <2>6
<1>4. CASE e.op \notin {"Create", "Update", "Append", "Add", "Remove"}
  BY <1>4 DEF FieldsAfter
<1> QED BY <1>1, <1>2, <1>3, <1>4

LEMMA ApplyKeepsFormed ==
    ASSUME NEW state, AllTasks(state), FormedTasks(state), NEW e, e.op \in EventOps,
           CarriesFields(e) => Formed(e.payload)
    PROVE  FormedTasks(Apply(state, e))
<1> DEFINE after == Apply(state, e)
<1>1. ASSUME NEW id \in DOMAIN after PROVE Formed(after[id].fields)
  <2>1. CASE id # e.id
    BY <2>1, ApplyFrame DEF FormedTasks
  <2>2. CASE id = e.id
    <3> DEFINE t == Before(state, e)
    <3>1. e.op # "Delete" /\ after[id] = Touched(t, e)
      BY <1>1, <2>2, ApplyFrame
    <3>2. IsTask(t) /\ Formed(t.fields)
      BY DEF Before, AllTasks, IsTask, NewTask, FormedTasks, Formed
    <3> HIDE DEF t
    <3>3. Touched(t, e).fields = FieldsAfter(t.fields, e)
      BY <3>1, <3>2, TouchedFields
    <3> QED BY <3>1, <3>2, <3>3, FieldsStayFormed
  <2> QED BY <2>1, <2>2
<1> QED BY <1>1 DEF FormedTasks

LEMMA MaterializeKeepsFormed ==
    ASSUME NEW base, AllTasks(base), FormedTasks(base),
           NEW events, IsEvents(events), FormedEvents(events)
    PROVE  FormedTasks(Materialize(base, events))
<1>1. PICK n \in Nat : n = Len(events)
  BY SeqBasics DEF IsEvents
<1>2. PICK f : IsRun(f, base, events) /\ Materialize(base, events) = f[n]
  BY <1>1, MaterializeIsRun DEF IsEvents
<1> DEFINE G == {k \in 0..n : AllTasks(f[k]) /\ FormedTasks(f[k])}
<1>3. 0 \in G
  BY <1>2 DEF IsRun
<1>4. ASSUME NEW k \in 1..n, k - 1 \in G PROVE k \in G
  <2>1. f[k] = Apply(f[k - 1], events[k])
    BY <1>1, <1>2, AppliedIsApply DEF IsRun
  <2>2. events[k].op \in EventOps /\ (CarriesFields(events[k]) => Formed(events[k].payload))
    BY <1>1 DEF IsEvents, FormedEvents
  <2> QED BY <1>4, <2>1, <2>2, ApplyKeepsTasks, ApplyKeepsFormed
<1> HIDE DEF G
<1>5. n \in 0..n /\ \A k \in 0..n : k \in G
  BY <1>3, <1>4, UpTo
<1> QED BY <1>2, <1>5 DEF G

----------------------------------------------------------------------------
(* What the drafts of a command carry.                                     *)

DefaultsFormed ==
    /\ IsText(DefaultStatus) => IsSeq(DefaultStatus[2])
    /\ \A type \in DOMAIN TaskTypes : \A k \in DOMAIN TaskTypes[type].fields :
          LET default == TaskTypes[type].fields[k].default
          IN  IsText(default) => IsSeq(default[2])

LEMMA CoercedIsFormed ==
    ASSUME NEW v, IsText(v) => IsSeq(v[2]), NEW kind
    PROVE  IsText(CoerceValue(v, kind)) => IsSeq(CoerceValue(v, kind)[2])
<1>1. \/ CoerceValue(v, kind) = Text(TextLines(v))
      \/ \E n : CoerceValue(v, kind) = Num(n)
      \/ CoerceValue(v, kind) = SetOf({v})
      \/ CoerceValue(v, kind) = v
  BY DEF CoerceValue
<1>2. IsSeq(Text(TextLines(v))[2])
  BY LinesOfText
<1>3. \A n : ~ IsText(Num(n)) /\ ~ IsText(SetOf({v}))
  BY DEF IsText, Num, SetOf
<1> QED BY <1>1, <1>2, <1>3

LEMMA CoercedAreFormed ==
    ASSUME NEW payload, Formed(payload), NEW current
    PROVE  Formed(CoerceFields(current, payload))
<1> DEFINE decl == Declared(WriteType(current, payload))
           result == CoerceFields(current, payload)
<1>1. DOMAIN result = DOMAIN payload
  BY DEF CoerceFields
<1>2. ASSUME NEW k \in DOMAIN payload
      PROVE  \/ result[k] = Null \/ result[k] = payload[k]
             \/ result[k] = CoerceValue(payload[k], decl[k].kind)
  BY DEF CoerceFields
<1> HIDE DEF result, decl
<1>3. ~ IsText(Null)
  BY DEF IsText, Null
<1>4. Formed(result)
  BY <1>1, <1>2, <1>3, CoercedIsFormed DEF Formed
<1> QED BY <1>4 DEF result

LEMMA StampsAreFormed ==
    ASSUME DefaultsFormed, NEW current, NEW payload, NEW touched
    PROVE  Formed(DefaultStamps(current, payload, touched))
<1> DEFINE type == WriteType(current, payload)
           decl == Declared(type)
           stamps == DefaultStamps(current, payload, touched)
<1>1. \A k \in DOMAIN stamps : k \in DOMAIN decl /\ stamps[k] = decl[k].default
  BY DEF DefaultStamps
<1> HIDE DEF stamps, type
<1>2. CASE type \in DOMAIN TaskTypes
  <2>1. decl = TaskTypes[type].fields
    BY <1>2 DEF Declared
  <2> HIDE DEF decl
  <2>2. Formed(stamps)
    BY <1>1, <1>2, <2>1 DEF Formed, DefaultsFormed
  <2> QED BY <2>2 DEF stamps, type
<1>3. CASE type \notin DOMAIN TaskTypes
  <2>1. DOMAIN decl = {}
    BY <1>3 DEF Declared
  <2> HIDE DEF decl
  <2>2. Formed(stamps)
    BY <1>1, <2>1 DEF Formed
  <2> QED BY <2>2 DEF stamps, type
<1> QED BY <1>2, <1>3

LEMMA OverIsFormed ==
    ASSUME NEW f, Formed(f), NEW g, Formed(g)
    PROVE  Formed(Over(f, g))
BY Overridden DEF Formed

\* A text that changes whatever it is appended to.
Says(v) ==
    /\ v # Null /\ IsSeq(TextLines(v))
    /\ TextLines(v) # << >> /\ TextLines(v) # << "" >>

\* A draft of an update.
FieldDraft(d) ==
    /\ d.op \in {"Update", "Append", "Add", "Remove"}
    /\ Formed(d.payload)
    /\ d.op = "Append" => \E k \in DOMAIN d.payload : Says(d.payload[k])

\* Of an update the one that sets fields is the first.
LaterDrafts(s) == IsSeq(s) /\ \A i \in 1..Len(s) : FieldDraft(s[i]) /\ s[i].op # "Update"

UpdateDrafts(s) ==
    IsSeq(s) /\ \A i \in 1..Len(s) : FieldDraft(s[i]) /\ (s[i].op = "Update" => i = 1)

LEMMA UpdateGoesOn ==
    ASSUME NEW s, UpdateDrafts(s), NEW t, LaterDrafts(t)
    PROVE  UpdateDrafts(s \o t)
<1> DEFINE u == s \o t
<1>1. /\ IsSeq(u) /\ Len(u) = Len(s) + Len(t)
      /\ \A i \in 1..Len(s) : u[i] = s[i]
      /\ \A i \in 1..Len(t) : u[Len(s) + i] = t[i]
  BY SeqConcat DEF UpdateDrafts, LaterDrafts
<1>2. Len(s) \in Nat /\ Len(t) \in Nat
  BY SeqBasics DEF UpdateDrafts, LaterDrafts
<1> HIDE DEF u
<1>3. ASSUME NEW i \in 1..Len(u)
      PROVE  FieldDraft(u[i]) /\ (u[i].op = "Update" => i = 1)
  <2>1. CASE i \in 1..Len(s)
    BY <1>1, <2>1 DEF UpdateDrafts
  <2>2. CASE i \notin 1..Len(s)
    <3>1. i - Len(s) \in 1..Len(t) /\ Len(s) + (i - Len(s)) = i
      BY <1>1, <1>2, <2>2
    <3>2. u[i] = t[i - Len(s)]
      BY <1>1, <3>1
    <3> QED BY <3>1, <3>2 DEF LaterDrafts
  <2> QED BY <2>1, <2>2
<1>4. UpdateDrafts(u)
  BY <1>1, <1>3 DEF UpdateDrafts
<1> QED BY <1>4 DEF u

LEMMA OneOrNoDraft ==
    ASSUME NEW id, NEW op \in {"Update", "Append", "Add", "Remove"},
           NEW payload, Formed(payload),
           op = "Append" => \A k \in DOMAIN payload : Says(payload[k]),
           NEW s, s = IF DOMAIN payload = {} THEN << >> ELSE << Draft(op, id, payload) >>
    PROVE  UpdateDrafts(s) /\ (op # "Update" => LaterDrafts(s))
<1> DEFINE d == Draft(op, id, payload)
<1>1. d.op = op /\ d.payload = payload
  BY DEF Draft
<1>2. DOMAIN payload # {} => FieldDraft(d)
  BY <1>1 DEF FieldDraft
<1>3. s = << >> \/ (DOMAIN payload # {} /\ s = << d >>)
  OBVIOUS
<1> HIDE DEF d
<1>4. IsSeq(<< >>) /\ Len(<< >>) = 0
  BY SeqEmpty
<1>5. IsSeq(<< d >>) /\ \A i \in 1..Len(<< d >>) : i = 1 /\ << d >>[i] = d
  <2> DEFINE one == << d >>
  <2>1. one \in Seq({d}) /\ Len(one) = 1 /\ one[1] = d
    OBVIOUS
  <2> HIDE DEF one
  <2>2. IsSeq(one)
    BY <2>1 DEF IsSeq
  <2>3. \A i \in 1..1 : i = 1
    OBVIOUS
  <2>4. \A i \in 1..Len(one) : i = 1 /\ one[i] = d
    BY <2>1, <2>3
  <2> QED BY <2>2, <2>4 DEF one
<1>6. CASE s = << >>
  BY <1>4, <1>6 DEF UpdateDrafts, LaterDrafts
<1>7. CASE DOMAIN payload # {} /\ s = << d >>
  <2>1. IsSeq(s) /\ \A i \in 1..Len(s) : i = 1 /\ s[i] = d
    BY <1>5, <1>7
  <2> QED BY <1>1, <1>2, <1>7, <2>1 DEF UpdateDrafts, LaterDrafts
<1> QED BY <1>3, <1>6, <1>7

LEMMA UpdateIsDrafts ==
    ASSUME DefaultsFormed, NEW ops, Formed(ops.set), Formed(ops.append), Formed(ops.subtract),
           \A k \in DOMAIN ops.append : Says(ops.append[k]),
           NEW id, NEW current
    PROVE  UpdateDrafts(BuildFieldEvents(id, current, ops))
<1> DEFINE acc == DispatchAccumulate(current, ops)
           touched == DOMAIN acc.text \cup DOMAIN acc.add \cup DOMAIN acc.remove
           set == Over(ops.set, DefaultStamps(current, ops.set, touched))
           sets == CoerceFields(current, set)
           Some(op, payload) == IF DOMAIN payload = {} THEN << >> ELSE << Draft(op, id, payload) >>
           w == Some("Update", sets)
           x == Some("Append", acc.text)
           y == Some("Add", acc.add)
           z == Some("Remove", acc.remove)
<1>1. BuildFieldEvents(id, current, ops) = w \o x \o y \o z
  BY DEF BuildFieldEvents
<1>2. Formed(sets)
  BY StampsAreFormed, OverIsFormed, CoercedAreFormed
<1>3. /\ Formed(acc.text) /\ Formed(acc.add) /\ Formed(acc.remove)
      /\ \A k \in DOMAIN acc.text : Says(acc.text[k])
  <2> DEFINE decl == Declared(WriteType(current, ops.set))
             Kind(k) == IF k \in DOMAIN decl THEN decl[k].kind ELSE "any"
             Lift(f) == [k \in DOMAIN f |-> CoerceValue(f[k], Kind(k))]
             counted == {k \in DOMAIN ops.append : Kind(k) \in Accumulating}
  <2>1. /\ acc.text = Without(ops.append, counted)
        /\ acc.add = Lift(Restrict(ops.append, counted))
        /\ acc.remove = Lift(ops.subtract)
    BY DEF DispatchAccumulate
  <2> HIDE DEF Kind, acc
  <2>2. ASSUME NEW f, Formed(f) PROVE Formed(Lift(f))
    BY <2>2, CoercedIsFormed DEF Formed
  <2> HIDE DEF Lift, counted
  <2> DEFINE text == Without(ops.append, counted)
  <2>3. Formed(text) /\ \A k \in DOMAIN text : Says(text[k])
    BY Remains DEF Formed
  <2>4. Formed(Restrict(ops.append, counted))
    BY DEF Restrict, Formed, counted
  <2> QED BY <2>1, <2>2, <2>3, <2>4
<1> HIDE DEF acc, sets
<1>4. UpdateDrafts(w)
  BY <1>2, OneOrNoDraft
<1>5. LaterDrafts(x) /\ LaterDrafts(y) /\ LaterDrafts(z)
  BY <1>3, OneOrNoDraft
<1> HIDE DEF w, x, y, z
<1> QED BY <1>1, <1>4, <1>5, UpdateGoesOn

----------------------------------------------------------------------------
(* Where the events of a batch come from.                                  *)

\* Event e is draft d, or what is left of it once the fields it would leave as
\* they are have been taken out.
VettedFrom(state, d, e) ==
    /\ ~ Refuses(state, d)
    /\ e.op = d.op /\ e.id = d.id
    /\ DOMAIN e.payload \subseteq DOMAIN d.payload
    /\ \A k \in DOMAIN e.payload : e.payload[k] = d.payload[k]

LEMMA VetTraces ==
    ASSUME NEW state, NEW r, NEW d, d.op \in EventOps, NEW v, v = VetDraft(state, r, d), v.ok
    PROVE  /\ r.ok
           /\ v.out = r.out \/ \E e : v.out = Append(r.out, e) /\ VettedFrom(state, d, e)
<1>1. r.ok /\ ~ Refuses(state, d)
  BY VetLogs
<1>2. ASSUME v.out # r.out
      PROVE  \E e : v.out = Append(r.out, e) /\ VettedFrom(state, d, e)
  <2>1. PICK e : /\ v.out = Append(r.out, e) /\ e.op = d.op /\ e.id = d.id
                 /\ IF d.op = "Update"
                    THEN e.payload = Restrict(d.payload, Changes(FieldsOf(state, d.id), d.payload))
                    ELSE e = d
    BY <1>2, VetLogs
  <2>2. /\ DOMAIN e.payload \subseteq DOMAIN d.payload
        /\ \A k \in DOMAIN e.payload : e.payload[k] = d.payload[k]
    <3>1. CASE d.op = "Update"
      BY <2>1, <3>1 DEF Restrict, Changes
    <3>2. CASE d.op # "Update"
      BY <2>1, <3>2
    <3> QED BY <3>1, <3>2
  <2> QED BY <1>1, <2>1, <2>2 DEF VettedFrom
<1> QED BY <1>1, <1>2

\* Each event comes from a draft no earlier than its own place.
Traced(state, drafts, n, out) ==
    /\ IsSeq(out) /\ Len(out) <= n
    /\ \A m \in 1..Len(out) : \E i \in m..n : VettedFrom(state, drafts[i], out[m])

LEMMA TracedStep ==
    ASSUME NEW state, NEW drafts, NEW n \in Nat, n # 0,
           NEW out, Traced(state, drafts, n - 1, out),
           NEW new, new = out \/ \E e : new = Append(out, e) /\ VettedFrom(state, drafts[n], e)
    PROVE  Traced(state, drafts, n, new)
<1>1. IsSeq(out) /\ Len(out) \in Nat /\ Len(out) <= n - 1
  BY SeqBasics DEF Traced
<1>2. ASSUME NEW m \in 1..Len(out) PROVE \E i \in m..n : VettedFrom(state, drafts[i], out[m])
  <2>1. PICK i \in m..(n - 1) : VettedFrom(state, drafts[i], out[m])
    BY DEF Traced
  <2>2. i \in m..n
    BY <1>1
  <2> QED BY <2>1, <2>2
<1>3. CASE new = out
  BY <1>1, <1>2, <1>3 DEF Traced
<1>4. ASSUME NEW e, new = Append(out, e), VettedFrom(state, drafts[n], e)
      PROVE  Traced(state, drafts, n, new)
  <2>1. /\ IsSeq(new) /\ Len(new) = Len(out) + 1 /\ new[Len(out) + 1] = e
        /\ \A m \in 1..Len(out) : new[m] = out[m]
    BY <1>1, <1>4, SeqAppend
  <2>2. ASSUME NEW m \in 1..Len(new) PROVE \E i \in m..n : VettedFrom(state, drafts[i], new[m])
    <3>1. CASE m \in 1..Len(out)
      BY <1>2, <2>1, <3>1
    <3>2. CASE m \notin 1..Len(out)
      <4>1. m = Len(out) + 1 /\ n \in m..n
        BY <1>1, <2>1, <3>2
      <4> QED BY <1>4, <2>1, <4>1
    <3> QED BY <3>1, <3>2
  <2> QED BY <1>1, <2>1, <2>2 DEF Traced
<1> QED BY <1>3, <1>4

LEMMA BatchIsTraced ==
    ASSUME NEW state, NEW drafts, IsEvents(drafts), NEW r, r = VetEvents(drafts, state), r.ok
    PROVE  Traced(state, drafts, Len(drafts), r.out)
<1>1. PICK n \in Nat : n = Len(drafts)
  BY SeqBasics DEF IsEvents
<1>2. PICK f : IsVetRun(f, state, drafts) /\ r = Vetted(state, f[n])
  BY <1>1, VetEventsIsRun DEF IsEvents
<1>3. f[n].ok /\ r = f[n]
  BY <1>2 DEF Vetted, Refused, Vetting
<1> DEFINE G == {k \in 0..n : f[k].ok => Traced(state, drafts, k, f[k].out)}
<1>4. 0 \in G
  <2>1. f[0].out = << >>
    BY <1>2 DEF IsVetRun, NothingVetted, Vetting
  <2>2. IsSeq(<< >>) /\ Len(<< >>) <= 0 /\ \A m \in 1..Len(<< >>) : FALSE
    BY SeqEmpty
  <2>3. Traced(state, drafts, 0, << >>)
    BY <2>2 DEF Traced
  <2> QED BY <2>1, <2>3
<1>5. ASSUME NEW k \in 1..n, k - 1 \in G PROVE k \in G
  <2> SUFFICES ASSUME f[k].ok PROVE Traced(state, drafts, k, f[k].out)
    OBVIOUS
  <2>1. f[k] = VetDraft(state, f[k - 1], drafts[k]) /\ drafts[k].op \in EventOps
    BY <1>1, <1>2, VetIsVetDraft DEF IsVetRun, IsEvents
  <2>2. /\ f[k - 1].ok
        /\ \/ f[k].out = f[k - 1].out
           \/ \E e : f[k].out = Append(f[k - 1].out, e) /\ VettedFrom(state, drafts[k], e)
    BY <2>1, VetTraces
  <2>3. Traced(state, drafts, k - 1, f[k - 1].out)
    BY <1>5, <2>2
  <2> QED BY <2>2, <2>3, TracedStep, SMTT(30)
<1> HIDE DEF G
<1>6. \A k \in 0..n : k \in G
  BY <1>4, <1>5, UpTo
<1> QED BY <1>1, <1>3, <1>6 DEF G

----------------------------------------------------------------------------
(* The drafts of an update.                                                *)

Within(s, later) == IsSeq(s) /\ \A i \in 1..Len(s) : s[i] \in later

StartsWith(s, first, later) ==
    IsSeq(s) /\ \A i \in 1..Len(s) : s[i] \in later \/ (i = 1 /\ s[i] = first)

LEMMA ShapeGoesOn ==
    ASSUME NEW first, NEW later, NEW s, StartsWith(s, first, later), NEW t, Within(t, later)
    PROVE  StartsWith(s \o t, first, later)
<1> DEFINE u == s \o t
<1>1. /\ IsSeq(u) /\ Len(u) = Len(s) + Len(t)
      /\ \A i \in 1..Len(s) : u[i] = s[i]
      /\ \A i \in 1..Len(t) : u[Len(s) + i] = t[i]
  BY SeqConcat DEF StartsWith, Within
<1>2. Len(s) \in Nat /\ Len(t) \in Nat
  BY SeqBasics DEF StartsWith, Within
<1> HIDE DEF u
<1>3. ASSUME NEW i \in 1..Len(u)
      PROVE  u[i] \in later \/ (i = 1 /\ u[i] = first)
  <2>1. CASE i \in 1..Len(s)
    BY <1>1, <2>1 DEF StartsWith
  <2>2. CASE i \notin 1..Len(s)
    <3>1. i - Len(s) \in 1..Len(t) /\ Len(s) + (i - Len(s)) = i
      BY <1>1, <1>2, <2>2
    <3>2. u[i] = t[i - Len(s)]
      BY <1>1, <3>1
    <3> QED BY <3>1, <3>2 DEF Within
  <2> QED BY <2>1, <2>2
<1>4. StartsWith(u, first, later)
  BY <1>1, <1>3 DEF StartsWith
<1> QED BY <1>4 DEF u

LEMMA OneOrNone ==
    ASSUME NEW d, NEW s, s = << >> \/ s = << d >>, NEW later
    PROVE  StartsWith(s, d, later) /\ (d \in later => Within(s, later))
<1>1. CASE s = << >>
  BY <1>1, SeqEmpty DEF StartsWith, Within
<1>2. CASE s = << d >>
  <2> DEFINE one == << d >>
  <2>1. one \in Seq({d}) /\ Len(one) = 1 /\ one[1] = d
    OBVIOUS
  <2> HIDE DEF one
  <2>2. IsSeq(one)
    BY <2>1 DEF IsSeq
  <2>3. \A i \in 1..Len(one) : i = 1 /\ one[i] = d
    BY <2>1
  <2>4. s = one
    BY <1>2 DEF one
  <2> QED BY <2>2, <2>3, <2>4 DEF StartsWith, Within
<1> QED BY <1>1, <1>2

\* At most one of each kind, the one that sets fields first.
LEMMA UpdateShape ==
    ASSUME NEW id, NEW current, NEW ops, NEW s, s = BuildFieldEvents(id, current, ops),
           NEW acc, acc = DispatchAccumulate(current, ops)
    PROVE  LET touched == DOMAIN acc.text \cup DOMAIN acc.add \cup DOMAIN acc.remove
               set     == Over(ops.set, DefaultStamps(current, ops.set, touched))
           IN  StartsWith(s, Draft("Update", id, CoerceFields(current, set)),
                          {Draft("Append", id, acc.text), Draft("Add", id, acc.add),
                           Draft("Remove", id, acc.remove)})
<1> DEFINE touched == DOMAIN acc.text \cup DOMAIN acc.add \cup DOMAIN acc.remove
           set == Over(ops.set, DefaultStamps(current, ops.set, touched))
           sets == CoerceFields(current, set)
           Some(op, payload) == IF DOMAIN payload = {} THEN << >> ELSE << Draft(op, id, payload) >>
           w == Some("Update", sets)
           x == Some("Append", acc.text)
           y == Some("Add", acc.add)
           z == Some("Remove", acc.remove)
           a == Draft("Update", id, sets)
           b == Draft("Append", id, acc.text)
           c == Draft("Add", id, acc.add)
           d == Draft("Remove", id, acc.remove)
           later == {b, c, d}
<1>1. s = w \o x \o y \o z
  BY DEF BuildFieldEvents
<1>2. /\ w = << >> \/ w = << a >>
      /\ x = << >> \/ x = << b >>
      /\ y = << >> \/ y = << c >>
      /\ z = << >> \/ z = << d >>
  OBVIOUS
<1>3. b \in later /\ c \in later /\ d \in later
  OBVIOUS
<1> HIDE DEF w, x, y, z, a, b, c, d, later
<1>4. StartsWith(w, a, later) /\ Within(x, later) /\ Within(y, later) /\ Within(z, later)
  BY <1>2, <1>3, OneOrNone
<1>5. StartsWith(s, a, later)
  BY <1>1, <1>4, ShapeGoesOn
<1> QED BY <1>5 DEF a, b, c, d, later, sets, set, touched

----------------------------------------------------------------------------
(* Claims: a field that commands only write if it is empty, and only to a   *)
(* text.                                                                   *)

Vacant(v) == IF IsSet(v) THEN Blank \in v[2] \/ v[2] = {} ELSE v = Blank

\* Such a text fills the field.
Fills(v) == v # Null /\ ~ Vacant(v)

Taken(state, id, k) ==
    id \in DOMAIN state /\ k \in DOMAIN state[id].fields /\ ~ Vacant(state[id].fields[k])

\* A task that meets the condition is not taken.
LEMMA GuardIsFree ==
    ASSUME NEW state, NEW id, NEW k, EqMatches(state[id].fields, k, Blank)
    PROVE  ~ Taken(state, id, k)
BY DEF EqMatches, Taken, Vacant

LEMMA TextFills ==
    ASSUME NEW v, IsText(v), v # Blank, NEW kind
    PROVE  v # Null /\ Fills(v) /\ Fills(CoerceValue(v, kind))
<1>1. v # Null /\ ~ IsNumber(v) /\ ~ IsSet(v)
  BY DEF IsText, IsNumber, IsSet, Null
<1>2. Fills(v)
  BY <1>1 DEF Fills, Vacant
<1>3. \A n : Fills(Num(n))
  BY DEF Fills, Vacant, Num, IsSet, Null, Blank, Word, Text
<1>4. Fills(SetOf({v}))
  <2> DEFINE s == SetOf({v})
  <2>1. IsSet(s) /\ s[2] = {v} /\ s # Null
    BY DEF SetOf, IsSet, Null
  <2> HIDE DEF s
  <2> QED BY <2>1 DEF Fills, Vacant, s
<1>5. CoerceValue(v, kind) = v \/ (\E n : CoerceValue(v, kind) = Num(n))
          \/ CoerceValue(v, kind) = SetOf({v})
  BY <1>1 DEF CoerceValue
<1> QED BY <1>1, <1>2, <1>3, <1>4, <1>5

\* What an update sets a claimed field to fills it.
LEMMA ClaimFills ==
    ASSUME NEW k, HasNoDefault(k), NEW ops, NEW current, NEW touched,
           k \in DOMAIN ops.set => IsText(ops.set[k]) /\ ops.set[k] # Blank,
           NEW set, set = Over(ops.set, DefaultStamps(current, ops.set, touched)),
           k \in DOMAIN CoerceFields(current, set)
    PROVE  k \in DOMAIN ops.set /\ Fills(CoerceFields(current, set)[k])
<1> DEFINE stamps == DefaultStamps(current, ops.set, touched)
<1>1. k \in DOMAIN set
  BY DEF CoerceFields
<1>2. k \notin DOMAIN stamps
  <2> DEFINE type == WriteType(current, ops.set)
             decl == Declared(type)
             absent == DOMAIN decl \ (DOMAIN ops.set \cup touched \cup DOMAIN current)
  <2>1. DOMAIN stamps = {j \in absent : decl[j].default # Null}
    BY DEF DefaultStamps
  <2>2. k \in DOMAIN decl => decl[k].default = Null
    BY DEF HasNoDefault, Declared
  <2> HIDE DEF stamps, decl
  <2> QED BY <2>1, <2>2
<1> HIDE DEF stamps
<1>3. k \in DOMAIN ops.set /\ set[k] = ops.set[k]
  BY <1>1, <1>2, Overridden DEF stamps
<1> DEFINE v == set[k]
           decl == Declared(WriteType(current, set))
<1>4. IsText(v) /\ v # Blank
  BY <1>3
<1>5. v # Null /\ Fills(v) /\ \A kind : Fills(CoerceValue(v, kind))
  BY <1>4, TextFills
<1>6. CoerceFields(current, set)[k] =
          IF v # Null /\ k \in DOMAIN decl THEN CoerceValue(v, decl[k].kind) ELSE v
  BY <1>1, <1>4 DEF CoerceFields
<1> HIDE DEF v, decl
<1> QED BY <1>3, <1>5, <1>6

\* A draft that is the first if it makes a task or sets fields, and leaves a claimed
\* field alone unless it claims it.
ClaimsFairly(state, k, d, i) ==
    /\ d.op \in {"Create", "Update"} => i = 1
    /\ d.op = "Update" /\ k \in DOMAIN d.payload =>
          ~ Taken(state, d.id, k) /\ Fills(d.payload[k])
    /\ d.op \in {"Append", "Add", "Remove"} => k \notin DOMAIN d.payload

LEMMA UpdateClaims ==
    ASSUME NEW k, HasNoDefault(k), NEW c, c.cmd = "update", OnlyClaims(c, k),
           NEW state, NEW past, NEW drafts,
           drafts = BuildFieldEvents(c.id, FieldsOf(state, c.id), c.ops),
           Build(c, state, past) # Refused
    PROVE  \A i \in 1..Len(drafts) : ClaimsFairly(state, k, drafts[i], i)
<1> DEFINE current == FieldsOf(state, c.id)
           ops == c.ops
           named == DOMAIN ops.set \cup DOMAIN ops.append \cup DOMAIN ops.subtract
<1>1. EnsureGuard(state, past, c.id, c.guard, named)
  BY DEF Build
<1>2. k \in DOMAIN ops.set =>
          IsText(ops.set[k]) /\ ops.set[k] # Blank /\ ~ Taken(state, c.id, k)
  <2> SUFFICES ASSUME k \in DOMAIN ops.set
               PROVE  IsText(ops.set[k]) /\ ops.set[k] # Blank /\ ~ Taken(state, c.id, k)
    OBVIOUS
  <2>1. IsText(ops.set[k]) /\ ops.set[k] # Blank /\ k \in DOMAIN c.guard /\ c.guard[k] = Blank
    BY DEF OnlyClaims
  <2>2. EqMatches(state[c.id].fields, k, Blank)
    BY <1>1, <2>1 DEF EnsureGuard
  <2> QED BY <2>1, <2>2, GuardIsFree
<1>3. k \notin DOMAIN ops.append /\ k \notin DOMAIN ops.subtract
  BY DEF OnlyClaims
<1> DEFINE acc == DispatchAccumulate(current, ops)
           touched == DOMAIN acc.text \cup DOMAIN acc.add \cup DOMAIN acc.remove
           set == Over(ops.set, DefaultStamps(current, ops.set, touched))
           sets == CoerceFields(current, set)
           a == Draft("Update", c.id, sets)
           later == {Draft("Append", c.id, acc.text), Draft("Add", c.id, acc.add),
                     Draft("Remove", c.id, acc.remove)}
<1>4. k \notin DOMAIN acc.text /\ k \notin DOMAIN acc.add /\ k \notin DOMAIN acc.remove
  BY <1>3 DEF DispatchAccumulate, Without, Restrict
<1>5. StartsWith(drafts, a, later)
  BY UpdateShape
<1> HIDE DEF acc
<1>6. k \in DOMAIN sets => k \in DOMAIN ops.set /\ Fills(sets[k])
  BY <1>2, ClaimFills
<1> HIDE DEF touched, set, sets
<1>7. \A i : ClaimsFairly(state, k, a, i) \/ i # 1
  <2>1. a.op = "Update" /\ a.id = c.id /\ a.payload = sets
    BY DEF Draft
  <2> QED BY <1>2, <1>6, <2>1 DEF ClaimsFairly
<1>8. \A d \in later : \A i : ClaimsFairly(state, k, d, i)
  BY <1>4 DEF ClaimsFairly, Draft
<1> HIDE DEF a, later
<1> QED BY <1>5, <1>7, <1>8 DEF StartsWith

LEMMA CommandClaims ==
    ASSUME NEW k, HasNoDefault(k), NEW c, IsCommand(c), c.cmd \in Writers,
           c.cmd = "update" => OnlyClaims(c, k), NEW state, NEW past,
           Build(c, state, past) # Refused
    PROVE  \E drafts :
               /\ IsEvents(drafts) /\ Build(c, state, past) = VetEvents(drafts, state)
               /\ \A i \in 1..Len(drafts) : ClaimsFairly(state, k, drafts[i], i)
<1> DEFINE b == Build(c, state, past)
<1>1. CASE c.cmd \in {"create", "delete"}
  <2> DEFINE d == IF c.cmd = "create" THEN CreateDraft(c.id, c.payload)
                  ELSE Draft("Delete", c.id, << >>)
             one == << d >>
  <2>1. d.op \in {"Create", "Delete"}
    BY <1>1 DEF CreateDraft, Draft
  <2>2. b = VetEvents(<< d >>, state)
    BY <1>1 DEF Build
  <2>3. IsEvents(one)
    BY <2>1, OneEvent DEF EventOps
  <2> HIDE DEF d
  <2>4. Len(one) = 1 /\ one[1] = d
    OBVIOUS
  <2> HIDE DEF one
  <2>5. \A i \in 1..Len(one) : ClaimsFairly(state, k, one[i], i)
    BY <2>1, <2>4 DEF ClaimsFairly
  <2> QED BY <2>2, <2>3, <2>5 DEF one
<1>2. CASE c.cmd = "update"
  <2> DEFINE drafts == BuildFieldEvents(c.id, FieldsOf(state, c.id), c.ops)
  <2>1. b = VetEvents(drafts, state)
    BY <1>2 DEF Build
  <2>2. \A i \in 1..Len(drafts) : ClaimsFairly(state, k, drafts[i], i)
    BY <1>2, UpdateClaims
  <2>3. IsEvents(drafts)
    <3> DEFINE acc == DispatchAccumulate(FieldsOf(state, c.id), c.ops)
    <3>1. \E sets : StartsWith(drafts, Draft("Update", c.id, sets),
                               {Draft("Append", c.id, acc.text), Draft("Add", c.id, acc.add),
                                Draft("Remove", c.id, acc.remove)})
      BY UpdateShape
    <3>2. \A payload : /\ Draft("Update", c.id, payload).op \in EventOps
                       /\ Draft("Append", c.id, payload).op \in EventOps
                       /\ Draft("Add", c.id, payload).op \in EventOps
                       /\ Draft("Remove", c.id, payload).op \in EventOps
      BY DEF Draft, EventOps
    <3> HIDE DEF drafts, acc
    <3> QED BY <3>1, <3>2 DEF StartsWith, IsEvents
  <2> QED BY <2>1, <2>2, <2>3
<1>3. CASE c.cmd \in {"link", "unlink"}
  <2>1. c.edges \in Seq({c.edges[i] : i \in DOMAIN c.edges})
        /\ \A i \in DOMAIN c.edges :
              c.edges[i].op = IF c.cmd = "link" THEN "AddEdge" ELSE "RemoveEdge"
    BY <1>3 DEF IsCommand
  <2>2. IsSeq(c.edges)
    BY <2>1 DEF IsSeq
  <2>3. \A i \in 1..Len(c.edges) : c.edges[i].op \in {"AddEdge", "RemoveEdge"}
    BY <1>3, <2>1, <2>2, SeqBasics
  <2>4. IsEvents(c.edges) /\ \A i \in 1..Len(c.edges) : ClaimsFairly(state, k, c.edges[i], i)
    BY <2>2, <2>3 DEF IsEvents, EventOps, ClaimsFairly
  <2>5. b = VetEvents(c.edges, state)
    BY <1>3 DEF Build
  <2> QED BY <2>4, <2>5
<1> QED BY <1>1, <1>2, <1>3 DEF Writers

\* So for the events of a batch.
LEMMA BatchClaims ==
    ASSUME NEW k, HasNoDefault(k), NEW c, IsCommand(c), c.cmd \in Writers,
           c.cmd = "update" => OnlyClaims(c, k), NEW state, NEW past,
           NEW out, out = Build(c, state, past).out, NEW m \in 1..Len(out)
    PROVE  /\ ClaimsFairly(state, k, out[m], m)
           /\ out[m].id \in DOMAIN state <=> out[m].op # "Create"
           /\ out[m].op \in EventOps
<1> DEFINE b == Build(c, state, past)
<1>1. b # Refused
  <2>1. b = Refused => out = << >>
    BY DEF Refused, Vetting
  <2> QED BY <2>1, SeqEmpty
<1>2. PICK drafts : /\ IsEvents(drafts) /\ b = VetEvents(drafts, state)
                    /\ \A i \in 1..Len(drafts) : ClaimsFairly(state, k, drafts[i], i)
  BY <1>1, CommandClaims
<1>3. b.ok
  <2>1. PICK f : VetEvents(drafts, state) = Vetted(state, f[Len(drafts)])
    BY <1>2, VetEventsIsRun DEF IsEvents
  <2> QED BY <1>1, <1>2, <2>1 DEF Vetted
<1>4. Traced(state, drafts, Len(drafts), out)
  BY <1>2, <1>3, BatchIsTraced
<1> HIDE DEF b
<1>5. PICK i \in m..Len(drafts) : VettedFrom(state, drafts[i], out[m])
  BY <1>4 DEF Traced
<1>6. Len(drafts) \in Nat /\ Len(out) \in Nat
  BY <1>2, <1>4, SeqBasics DEF IsEvents, Traced
<1>7. i \in 1..Len(drafts) /\ (i = 1 => m = 1)
  BY <1>5, <1>6
<1>8. ClaimsFairly(state, k, drafts[i], i) /\ drafts[i].op \in EventOps
  BY <1>2, <1>7 DEF IsEvents
<1> DEFINE d == drafts[i]
           e == out[m]
<1>9. /\ e.op = d.op /\ e.id = d.id /\ DOMAIN e.payload \subseteq DOMAIN d.payload
      /\ \A j \in DOMAIN e.payload : e.payload[j] = d.payload[j]
      /\ d.id \in DOMAIN state <=> d.op # "Create"
  BY <1>5 DEF VettedFrom, Refuses
<1> HIDE DEF d, e
<1>10. ClaimsFairly(state, k, d, i) /\ d.op \in EventOps
  BY <1>8 DEF d
<1>11. ClaimsFairly(state, k, e, m)
  BY <1>7, <1>9, <1>10 DEF ClaimsFairly
<1> QED BY <1>9, <1>10, <1>11 DEF e
=============================================================================
