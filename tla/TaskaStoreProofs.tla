-------------------------- MODULE TaskaStoreProofs --------------------------
(***************************************************************************)
(* Theorems about the store of taska, for any processes, commands, initial *)
(* log and bounds, with overlapping maintenance and with crashes: the lock *)
(* excludes, the log stays strictly ordered by seq, and a vetted batch     *)
(* lands on the log and over the baseline it was vetted against.           *)
(*                                                                         *)
(* As long as no process dies in a command, and nobody writes while        *)
(* compact or resolve runs, the store implements the ledger: what the      *)
(* processes do to the files, step by step, changes the task map only by   *)
(* whole commands, each accepted in the very map it changes.  Readers run  *)
(* at any time; they are shown its history unless they read files that are *)
(* being rewritten, or the one before and the other after.                 *)
(***************************************************************************)
EXTENDS TaskaStore, TaskaFoldProofs, SequenceTheorems

----------------------------------------------------------------------------
(* Sequences of lines.                                                     *)

\* A sequence over any set is a sequence of its own elements; its domain and
\* length are as expected.
LEMMA IsLines ==
    ASSUME NEW S, NEW s \in Seq(S), \A i \in DOMAIN s : s[i].seq \in Nat
    PROVE  AreLines(s)
<1> DEFINE R == {s[i] : i \in DOMAIN s}
<1>1. /\ Len(s) \in Nat
      /\ s \in [1..Len(s) -> S]
      /\ DOMAIN s = 1..Len(s)
  BY LenProperties
<1>2. s \in [1..Len(s) -> R]
  BY <1>1
<1>3. s \in UNION {[1..n -> R] : n \in Nat}
  BY <1>1, <1>2
<1>4. Seq(R) = UNION {[1..n -> R] : n \in Nat}
  BY SeqDef, Zenon
<1>5. s \in Seq(R)
  BY <1>3, <1>4, Zenon
<1> QED
  BY <1>5 DEF AreLines

\* The domain of a sequence of lines, and what each of its lines is.
LEMMA LinesDomain ==
    ASSUME NEW s, AreLines(s)
    PROVE  /\ Len(s) \in Nat
           /\ DOMAIN s = 1..Len(s)
           /\ s # << >> => Len(s) >= 1
           /\ s = << >> => Len(s) = 0
           /\ \A i \in 1..Len(s) : s[i].seq \in Nat
BY LenProperties, EmptySeq DEF AreLines

\* Two sequences of lines are sequences over one set.
LEMMA LinesTogether ==
    ASSUME NEW s, NEW t, AreLines(s), AreLines(t)
    PROVE  \E S : s \in Seq(S) /\ t \in Seq(S)
<1> DEFINE A == {s[i] : i \in DOMAIN s}
           B == {t[i] : i \in DOMAIN t}
<1>1. s \in Seq(A) /\ t \in Seq(B)
  BY DEF AreLines
<1>2. s \in Seq(A \cup B) /\ t \in Seq(A \cup B)
  BY <1>1, SeqMonotonic
<1> QED
  BY <1>2

\* An empty file is one.
LEMMA EmptyLines == AreLines(<< >>) /\ Ordered(<< >>)
BY DEF AreLines, Ordered

\* So is one file after another.
LEMMA ConcatLines ==
    ASSUME NEW s, NEW t, AreLines(s), AreLines(t)
    PROVE  /\ AreLines(s \o t)
           /\ Len(s \o t) = Len(s) + Len(t)
           /\ \A i \in 1..Len(s) : (s \o t)[i] = s[i]
           /\ \A i \in 1..Len(t) : (s \o t)[Len(s) + i] = t[i]
<1>1. PICK S : s \in Seq(S) /\ t \in Seq(S)
  BY LinesTogether
<1>2. /\ s \o t \in Seq(S)
      /\ Len(s \o t) = Len(s) + Len(t)
      /\ \A i \in 1 .. Len(s) + Len(t) :
            (s \o t)[i] = IF i <= Len(s) THEN s[i] ELSE t[i - Len(s)]
  BY <1>1, ConcatProperties
<1>3. /\ Len(s) \in Nat /\ Len(t) \in Nat
      /\ DOMAIN (s \o t) = 1 .. Len(s \o t)
  BY <1>1, <1>2, LenProperties
<1>4. \A i \in DOMAIN (s \o t) : (s \o t)[i].seq \in Nat
  BY <1>2, <1>3, LinesDomain
<1>5. AreLines(s \o t)
  BY <1>2, <1>4, IsLines
<1> QED
  BY <1>2, <1>3, <1>5

\* So is a file without its first line.
LEMMA TailLines ==
    ASSUME NEW s, AreLines(s), s # << >>
    PROVE  /\ AreLines(Tail(s))
           /\ Len(Tail(s)) = Len(s) - 1
           /\ \A i \in 1..Len(Tail(s)) : Tail(s)[i] = s[i + 1]
           /\ Head(s) = s[1]
           /\ Head(s).seq \in Nat
<1> DEFINE S == {s[i] : i \in DOMAIN s}
<1>1. s \in Seq(S)
  BY DEF AreLines
<1>2. /\ Tail(s) \in Seq(S)
      /\ Len(Tail(s)) = Len(s) - 1
      /\ \A i \in 1..Len(Tail(s)) : Tail(s)[i] = s[i + 1]
  BY <1>1, HeadTailProperties
<1>3. DOMAIN Tail(s) = 1..Len(Tail(s)) /\ Len(s) \in Nat /\ Len(s) >= 1
  BY <1>2, LenProperties, LinesDomain
<1>4. \A i \in DOMAIN Tail(s) : Tail(s)[i].seq \in Nat
  BY <1>2, <1>3, LinesDomain
<1>5. AreLines(Tail(s))
  BY <1>2, <1>4, IsLines
<1>6. Head(s) = s[1]
  BY <1>1
<1> QED
  BY <1>2, <1>3, <1>5, <1>6, LinesDomain

\* So is a file with one more line.
LEMMA AppendLines ==
    ASSUME NEW s, AreLines(s), NEW e, e.seq \in Nat
    PROVE  /\ AreLines(Append(s, e))
           /\ Len(Append(s, e)) = Len(s) + 1
           /\ Append(s, e) # << >>
           /\ \A i \in 1..Len(s) : Append(s, e)[i] = s[i]
           /\ Append(s, e)[Len(s) + 1] = e
<1> DEFINE S == {s[i] : i \in DOMAIN s} \cup {e}
<1>1. s \in Seq(S) /\ e \in S
  BY SeqMonotonic DEF AreLines
<1>2. /\ Append(s, e) \in Seq(S)
      /\ Append(s, e) # << >>
      /\ Len(Append(s, e)) = Len(s) + 1
      /\ \A i \in 1..Len(s) : Append(s, e)[i] = s[i]
      /\ Append(s, e)[Len(s) + 1] = e
  BY <1>1, AppendProperties
<1>3. DOMAIN Append(s, e) = 1 .. Len(s) + 1 /\ Len(s) \in Nat
  BY <1>1, <1>2, LenProperties
<1>4. \A i \in DOMAIN Append(s, e) : Append(s, e)[i].seq \in Nat
  BY <1>2, <1>3, LinesDomain
<1> QED
  BY <1>2, <1>4, IsLines

\* The last line of a file may become torn: it stays a file, in order.
LEMMA TornLines ==
    ASSUME NEW s, AreLines(s), s # << >>
    PROVE  LET t == [s EXCEPT ![Len(s)] = Torn]
           IN  /\ AreLines(t)
               /\ t # << >>
               /\ Len(t) = Len(s)
               /\ \A i \in 1..Len(s) : t[i] = IF i = Len(s) THEN Torn ELSE s[i]
<1> DEFINE S == {s[i] : i \in DOMAIN s} \cup {Torn}
           t == [s EXCEPT ![Len(s)] = Torn]
<1>1. s \in Seq(S) /\ Torn \in S
  BY SeqMonotonic DEF AreLines
<1>2. Len(s) \in 1..Len(s) /\ Len(s) \in Nat
  BY LinesDomain
<1>3. /\ t \in Seq(S)
      /\ Len(t) = Len(s)
      /\ \A i \in 1..Len(s) : t[i] = IF i = Len(s) THEN Torn ELSE s[i]
  BY <1>1, <1>2, ExceptSeq
<1>4. DOMAIN t = 1..Len(s)
  BY <1>3, LenProperties
<1>5. \A i \in DOMAIN t : t[i].seq \in Nat
  BY <1>2, <1>3, <1>4, LinesDomain DEF Torn
<1>6. AreLines(t)
  BY <1>3, <1>5, IsLines
<1>7. t # << >>
  BY <1>2, <1>3, <1>6, LinesDomain
<1> QED
  BY <1>3, <1>6, <1>7

----------------------------------------------------------------------------
(* Order.                                                                  *)

\* What is left after the first line is written, torn or skipped is in order.
LEMMA OrderedTail ==
    ASSUME NEW s, AreLines(s), s # << >>, Ordered(s)
    PROVE  Ordered(Tail(s))
<1>1. /\ DOMAIN Tail(s) = 1..Len(Tail(s))
      /\ DOMAIN s = 1..Len(s)
      /\ Len(s) \in Nat /\ Len(Tail(s)) = Len(s) - 1
      /\ \A i \in 1..Len(Tail(s)) : Tail(s)[i] = s[i + 1]
  BY TailLines, LinesDomain
<1>2. SUFFICES ASSUME NEW i \in DOMAIN Tail(s), NEW j \in DOMAIN Tail(s), i < j,
                      Tail(s)[i].seq # 0, Tail(s)[j].seq # 0
               PROVE  Tail(s)[i].seq < Tail(s)[j].seq
  BY DEF Ordered
<1>3. i + 1 \in DOMAIN s /\ j + 1 \in DOMAIN s /\ i + 1 < j + 1
  BY <1>1, <1>2
<1>4. s[i + 1].seq < s[j + 1].seq
  BY <1>1, <1>2, <1>3 DEF Ordered
<1> QED
  BY <1>1, <1>2, <1>4

\* The log with what is still to be written is in order: so is each part, and
\* every seq of the first part is below every seq of the second.
LEMMA OrderedConcat ==
    ASSUME NEW s, NEW t, AreLines(s), AreLines(t)
    PROVE  Ordered(s \o t) <=>
               /\ Ordered(s)
               /\ Ordered(t)
               /\ \A i \in 1..Len(s), j \in 1..Len(t) :
                     s[i].seq # 0 /\ t[j].seq # 0 => s[i].seq < t[j].seq
<1> DEFINE u == s \o t
           m == Len(s)
           n == Len(t)
<1>1. /\ m \in Nat /\ n \in Nat
      /\ DOMAIN s = 1..m /\ DOMAIN t = 1..n /\ DOMAIN u = 1..(m + n)
      /\ \A i \in 1..m : u[i] = s[i]
      /\ \A i \in 1..n : u[m + i] = t[i]
  BY ConcatLines, LinesDomain
<1> HIDE DEF u, m, n
<1>2. ASSUME Ordered(u)
      PROVE  /\ Ordered(s)
             /\ Ordered(t)
             /\ \A i \in 1..m, j \in 1..n :
                   s[i].seq # 0 /\ t[j].seq # 0 => s[i].seq < t[j].seq
  <2>1. Ordered(s)
    BY <1>1, <1>2 DEF Ordered
  <2>2. ASSUME NEW i \in 1..n, NEW j \in 1..n, i < j, t[i].seq # 0, t[j].seq # 0
        PROVE  t[i].seq < t[j].seq
    <3>1. m + i \in DOMAIN u /\ m + j \in DOMAIN u /\ m + i < m + j
      BY <1>1, <2>2
    <3>2. u[m + i] = t[i] /\ u[m + j] = t[j]
      BY <1>1
    <3> QED
      BY <1>2, <2>2, <3>1, <3>2 DEF Ordered
  <2>3. ASSUME NEW i \in 1..m, NEW j \in 1..n, s[i].seq # 0, t[j].seq # 0
        PROVE  s[i].seq < t[j].seq
    <3>1. i \in DOMAIN u /\ m + j \in DOMAIN u /\ i < m + j
      BY <1>1
    <3>2. u[i] = s[i] /\ u[m + j] = t[j]
      BY <1>1
    <3> QED
      BY <1>2, <2>3, <3>1, <3>2 DEF Ordered
  <2>4. Ordered(t)
    BY <1>1, <2>2 DEF Ordered
  <2> QED
    BY <2>1, <2>3, <2>4
<1>3. ASSUME Ordered(s), Ordered(t),
             \A i \in 1..m, j \in 1..n :
                s[i].seq # 0 /\ t[j].seq # 0 => s[i].seq < t[j].seq
      PROVE  Ordered(u)
  <2>1. SUFFICES ASSUME NEW i \in 1..(m + n), NEW j \in 1..(m + n), i < j,
                        u[i].seq # 0, u[j].seq # 0
                 PROVE  u[i].seq < u[j].seq
    BY <1>1 DEF Ordered
  <2>2. CASE i \in 1..m /\ j \in 1..m
    BY <1>1, <1>3, <2>1, <2>2 DEF Ordered
  <2>3. CASE i \in 1..m /\ j - m \in 1..n
    <3>1. u[i] = s[i] /\ u[m + (j - m)] = t[j - m] /\ m + (j - m) = j
      BY <1>1, <2>3
    <3> QED
      BY <1>3, <2>1, <2>3, <3>1
  <2>4. CASE i - m \in 1..n /\ j - m \in 1..n
    <3>1. /\ u[m + (i - m)] = t[i - m] /\ m + (i - m) = i
          /\ u[m + (j - m)] = t[j - m] /\ m + (j - m) = j
      BY <1>1, <2>4
    <3>2. i - m \in DOMAIN t /\ j - m \in DOMAIN t /\ i - m < j - m
      BY <1>1, <2>1, <2>4
    <3> QED
      BY <1>3, <2>1, <3>1, <3>2 DEF Ordered
  <2> QED
    BY <1>1, <2>1, <2>2, <2>3, <2>4
<1> QED
  BY <1>2, <1>3 DEF u, m, n

\* A line above all others keeps the order when it comes last.
LEMMA OrderedAppend ==
    ASSUME NEW s, AreLines(s), Ordered(s), NEW e, e.seq \in Nat,
           \A i \in 1..Len(s) : s[i].seq # 0 /\ e.seq # 0 => s[i].seq < e.seq
    PROVE  Ordered(Append(s, e))
<1> DEFINE t == Append(s, e)
<1>1. /\ Len(s) \in Nat /\ DOMAIN s = 1..Len(s) /\ DOMAIN t = 1..(Len(s) + 1)
      /\ \A i \in 1..Len(s) : t[i] = s[i]
      /\ t[Len(s) + 1] = e
  BY AppendLines, LinesDomain
<1> HIDE DEF t
<1>2. SUFFICES ASSUME NEW i \in DOMAIN t, NEW j \in DOMAIN t, i < j,
                      t[i].seq # 0, t[j].seq # 0
               PROVE  t[i].seq < t[j].seq
  BY DEF Ordered, t
<1>3. i \in 1..Len(s)
  BY <1>1, <1>2
<1>4. CASE j \in 1..Len(s)
  BY <1>1, <1>2, <1>3, <1>4 DEF Ordered
<1>5. CASE j = Len(s) + 1
  BY <1>1, <1>2, <1>3, <1>5
<1> QED
  BY <1>1, <1>4, <1>5

\* Tearing the last line keeps the order.
LEMMA OrderedTorn ==
    ASSUME NEW s, AreLines(s), s # << >>, Ordered(s)
    PROVE  Ordered([s EXCEPT ![Len(s)] = Torn])
<1> DEFINE t == [s EXCEPT ![Len(s)] = Torn]
<1>1. /\ DOMAIN s = 1..Len(s) /\ DOMAIN t = 1..Len(s)
      /\ \A i \in 1..Len(s) : t[i] = IF i = Len(s) THEN Torn ELSE s[i]
  BY TornLines, LinesDomain
<1>2. \A i \in 1..Len(s) : t[i].seq # 0 => t[i] = s[i]
  BY <1>1 DEF Torn
<1> QED
  BY <1>1, <1>2 DEF Ordered

----------------------------------------------------------------------------
(* Minting.                                                                *)

\* The next seq of a log in order is above every seq in it: its last line has
\* the greatest.
LEMMA NextSeqIsNew ==
    ASSUME NEW s, AreLines(s), Readable(s), Ordered(s)
    PROVE  /\ NextSeq(s) \in Nat \ {0}
           /\ \A i \in 1..Len(s) : s[i].seq < NextSeq(s)
<1>1. CASE s = << >>
  BY <1>1, LinesDomain DEF NextSeq
<1>2. CASE s # << >>
  <2> DEFINE S == {s[i].seq : i \in DOMAIN s}
             last == s[Len(s)].seq
  <2>1. /\ Len(s) \in Nat /\ Len(s) >= 1 /\ DOMAIN s = 1..Len(s)
        /\ \A i \in 1..Len(s) : s[i].seq \in Nat
    BY <1>2, LinesDomain
  <2>2. last \in S /\ S \subseteq Nat
    BY <2>1
  <2>3. ASSUME NEW i \in 1..Len(s)
        PROVE  s[i].seq <= last
    <3>1. CASE i = Len(s)
      BY <2>1, <3>1
    <3>2. CASE i # Len(s)
      <4>1. i \in DOMAIN s /\ Len(s) \in DOMAIN s /\ i < Len(s)
        BY <2>1, <3>2
      <4>2. s[i].seq # 0 /\ s[Len(s)].seq # 0
        BY <4>1 DEF Readable
      <4>3. s[i].seq < s[Len(s)].seq
        BY <4>1, <4>2 DEF Ordered
      <4> QED
        BY <2>1, <4>1, <4>3
    <3> QED
      BY <3>1, <3>2
  <2>4. ASSUME NEW y \in S
        PROVE  last >= y
    <3>1. PICK i \in 1..Len(s) : y = s[i].seq
      BY <2>1
    <3>2. last \in Nat /\ y \in Nat
      BY <2>2
    <3> QED
      BY <2>3, <3>1, <3>2
  <2>5. Max(S) \in S /\ \A y \in S : Max(S) >= y
    BY <2>2, <2>4 DEF Max
  <2>6. NextSeq(s) = Max(S) + 1
    BY <1>2 DEF NextSeq
  <2>7. \A i \in 1..Len(s) : s[i].seq \in S
    BY <2>1
  <2> HIDE DEF S
  <2>8. Max(S) \in Nat
    BY <2>2, <2>5
  <2> QED
    BY <2>1, <2>5, <2>6, <2>7, <2>8
<1> QED
  BY <1>1, <1>2

\* A minted batch follows the log it was minted for, event by event.
LEMMA MintedFollows ==
    ASSUME NEW s, AreLines(s), Readable(s), Ordered(s),
           NEW drafts, Len(drafts) \in Nat
    PROVE  LET batch == Minted(s, drafts)
           IN  /\ AreLines(batch)
               /\ Readable(batch)
               /\ Ordered(s \o batch)
<1> DEFINE batch == Minted(s, drafts)
           n == Len(drafts)
           f == NextSeq(s)
           S == {batch[i] : i \in 1..n}
<1>1. f \in Nat \ {0} /\ \A i \in 1..Len(s) : s[i].seq < f
  BY NextSeqIsNew
<1>2. /\ DOMAIN batch = 1..n
      /\ \A i \in 1..n : batch[i].seq = f + i - 1
  BY DEF Minted
<1>3. batch \in [1..n -> S]
  BY DEF Minted
<1> HIDE DEF batch, f
<1>4. batch \in Seq(S)
  <2>1. batch \in UNION {[1..m -> S] : m \in Nat}
    BY <1>3
  <2>2. Seq(S) = UNION {[1..m -> S] : m \in Nat}
    BY SeqDef, Zenon
  <2> QED
    BY <2>1, <2>2, Zenon
<1>5. \A i \in DOMAIN batch : batch[i].seq \in Nat \ {0}
  BY <1>1, <1>2
<1>6. AreLines(batch)
  BY <1>4, <1>5, IsLines
<1>7. Readable(batch)
  BY <1>5 DEF Readable
<1>8. Ordered(batch)
  BY <1>1, <1>2 DEF Ordered
<1>9. \A i \in 1..Len(s), j \in 1..Len(batch) : s[i].seq < batch[j].seq
  <2>1. TAKE i \in 1..Len(s), j \in 1..Len(batch)
  <2>2. j \in 1..n
    BY <1>2, <1>6, LinesDomain
  <2>3. s[i].seq \in Nat /\ s[i].seq < f
    BY <1>1, LinesDomain
  <2> QED
    BY <1>1, <1>2, <2>2, <2>3
<1>10. Ordered(s \o batch)
  BY <1>6, <1>8, <1>9, OrderedConcat
<1> QED
  BY <1>6, <1>7, <1>10 DEF batch

----------------------------------------------------------------------------
(* Type correctness.                                                       *)

\* What an idle process holds is a memory.
LEMMA FreshIsMem == IsMem(Fresh)
BY EmptyLines DEF IsMem, Fresh, Begun

\* So is what a process holds once it has read the files.
LEMMA HoldingIsMem ==
    ASSUME NEW m, NEW b, NEW s, NEW t, NEW d, NEW g, AreLines(t)
    PROVE  IsMem(Holding(m, b, s, t, d, g))
BY DEF IsMem, Holding

\* Writing a line keeps a file a file, and its newline too.
LEMMA PutBodyIsFile ==
    ASSUME NEW f, IsFile(f), NEW e, e.seq \in Nat
    PROVE  IsFile(PutBody(f, e)) /\ IsFile(PutNewline(f))
<1>1. AreLines(f.lines) /\ f.ended \in BOOLEAN /\ (f.lines = << >> => f.ended)
  BY DEF IsFile
<1>2. CASE f.ended
  <2>1. AreLines(Append(f.lines, e)) /\ Append(f.lines, e) # << >>
    BY <1>1, AppendLines
  <2> QED
    BY <1>1, <1>2, <2>1 DEF IsFile, PutBody, PutNewline, Content
<1>3. CASE ~ f.ended
  <2>1. /\ AreLines([f.lines EXCEPT ![Len(f.lines)] = Torn])
        /\ [f.lines EXCEPT ![Len(f.lines)] = Torn] # << >>
    BY <1>1, <1>3, TornLines
  <2> QED
    BY <1>1, <1>3, <2>1 DEF IsFile, PutBody, PutNewline, Content
<1> QED
  BY <1>1, <1>2, <1>3

\* The initial state has the right types, for any initial log that is in order.
LEMMA InitTypeOK == Init => TypeOK
BY GenesisAssumption, StoreAssumption, FreshIsMem
   DEF Init, TypeOK, IsFile, Content, PcValues, AreLines

\* Each step of a process keeps the types.
LEMMA NextTypeOK ==
    ASSUME TypeOK, [Next]_vars
    PROVE  TypeOK'
<1> USE DEF TypeOK, PcValues
<1>1. ASSUME NEW p \in Procs, NEW c \in Commands, Start(p, c)
      PROVE  TypeOK'
  <2>1. IsMem(Begun(c, Len(hist)))
    BY EmptyLines DEF IsMem, Begun
  <2> QED
    BY <1>1, <2>1, StoreAssumption DEF Start, IsFile
<1>2. ASSUME NEW p \in Procs, Lock(p) PROVE TypeOK'
  BY <1>2 DEF Lock, WaitsForLock, TakeLock, IsFile
<1>3. ASSUME NEW p \in Procs, Decline(p) PROVE TypeOK'
  BY <1>3, FreshIsMem DEF Decline, Finish, IsFile
<1>4. ASSUME NEW p \in Procs, Accept(p) PROVE TypeOK'
  <2>1. PICK drafts : /\ Len(drafts) \in 1..MaxBatch
                      /\ mem' = [mem EXCEPT ![p] =
                            Holding(@, baseline, log, Minted(log.lines, drafts), {},
                                    WithAppended(log, Minted(log.lines, drafts)))]
    BY <1>4 DEF Accept
  <2>2. AreLines(Minted(log.lines, drafts))
    BY <1>4, <2>1, MintedFollows DEF Accept, IsFile
  <2>3. IsMem(mem'[p])
    BY <2>1, <2>2, HoldingIsMem
  <2>4. DOMAIN mem' = Procs /\ \A q \in Procs : IsMem(mem'[q])
    BY <2>1, <2>3
  <2> QED
    BY <1>4, <2>4 DEF Accept, IsFile
<1>5. ASSUME NEW p \in Procs, LoadBaseline(p) PROVE TypeOK'
  BY <1>5 DEF LoadBaseline, IsFile, IsMem
<1>6. ASSUME NEW p \in Procs, LoadLogStops(p) PROVE TypeOK'
  BY <1>6, FreshIsMem DEF LoadLogStops, Finish, IsFile
<1>7. ASSUME NEW p \in Procs, LoadLogToRead(p) PROVE TypeOK'
  BY <1>7 DEF LoadLogToRead, IsFile, IsMem
<1>8. ASSUME NEW p \in Procs, Show(p) PROVE TypeOK'
  BY <1>8, FreshIsMem DEF Show, Finish, IsFile
<1>9. ASSUME NEW p \in Procs, LoadLogToCompact(p) PROVE TypeOK'
  <2>1. PICK b, d : mem' = [mem EXCEPT ![p] = Holding(@, b, log, log.lines, d, << >>)]
    BY <1>9 DEF LoadLogToCompact
  <2>2. IsMem(mem'[p])
    BY <2>1, HoldingIsMem DEF IsFile
  <2>3. DOMAIN mem' = Procs /\ \A q \in Procs : IsMem(mem'[q])
    BY <2>1, <2>2
  <2> QED
    BY <1>9, <2>3 DEF LoadLogToCompact, IsFile
<1>10. ASSUME NEW p \in Procs, LoadLogToResolve(p) PROVE TypeOK'
  BY <1>10 DEF LoadLogToResolve, IsFile, IsMem
<1>11. ASSUME NEW p \in Procs, Reload(p) PROVE TypeOK'
  BY <1>11, FreshIsMem, HoldingIsMem DEF Reload, Finish, IsFile
<1>12. ASSUME NEW p \in Procs, TruncateBaseline(p) PROVE TypeOK'
  BY <1>12 DEF TruncateBaseline, IsFile
<1>13. ASSUME NEW p \in Procs, WriteBaselineTask(p) PROVE TypeOK'
  BY <1>13 DEF WriteBaselineTask, IsFile
<1>14. ASSUME NEW p \in Procs, TruncateLog(p) PROVE TypeOK'
  BY <1>14, EmptyLines DEF TruncateLog, IsFile, Content
<1>15. ASSUME NEW p \in Procs, SkipLine(p) PROVE TypeOK'
  <2>1. AreLines(Tail(mem[p].todo))
    BY <1>15, TailLines DEF SkipLine, IsMem
  <2> QED
    BY <1>15, <2>1, ZenonT(60) DEF SkipLine, IsFile, IsMem
<1>16. ASSUME NEW p \in Procs, WriteBody(p) PROVE TypeOK'
  <2>1. AreLines(Tail(mem[p].todo)) /\ Head(mem[p].todo).seq \in Nat
    BY <1>16, TailLines DEF WriteBody, IsMem
  <2>2. IsFile(log')
    BY <1>16, <2>1, PutBodyIsFile DEF WriteBody
  <2>3. DOMAIN mem' = Procs /\ \A q \in Procs : IsMem(mem'[q])
    BY <1>16, <2>1, ZenonT(60) DEF WriteBody, IsMem
  <2> QED
    BY <1>16, <2>2, <2>3 DEF WriteBody
<1>17. ASSUME NEW p \in Procs, WriteNewline(p) PROVE TypeOK'
  <2>1. IsFile(log')
    BY <1>17 DEF WriteNewline, PutNewline, IsFile, Content
  <2> QED
    BY <1>17, <2>1 DEF WriteNewline
<1>18. ASSUME NEW p \in Procs, Unlock(p) PROVE TypeOK'
  BY <1>18, FreshIsMem DEF Unlock, Finish, IsFile
<1>19. ASSUME NEW p \in Procs, Crash(p) PROVE TypeOK'
  BY <1>19, FreshIsMem, StoreAssumption DEF Crash, Finish, IsFile
<1>20. CASE UNCHANGED vars
  BY <1>20 DEF vars, IsFile
<1> QED
  BY <1>1, <1>2, <1>3, <1>4, <1>5, <1>6, <1>7, <1>8, <1>9, <1>10, <1>11, <1>12,
     <1>13, <1>14, <1>15, <1>16, <1>17, <1>18, <1>19, <1>20
     DEF Next, Step, Quiet

\* Every variable keeps its shape, through every command, overlap and crash.
THEOREM TypeCorrectness == Spec => []TypeOK
<1> QED
  BY InitTypeOK, NextTypeOK, PTL DEF Spec

----------------------------------------------------------------------------
(* Mutual exclusion.                                                       *)

\* A process moves, and with it at most the lock.
LEMMA NextMutualExclusion ==
    ASSUME TypeOK, MutualExclusion, [Next]_vars
    PROVE  MutualExclusion'
<1> USE NobodyAssumption DEF TypeOK, PcValues, MutualExclusion, Locked
<1>1. ASSUME NEW p \in Procs, NEW c \in Commands, Start(p, c)
      PROVE  MutualExclusion'
  BY <1>1 DEF Start
<1>2. ASSUME NEW p \in Procs, Lock(p) PROVE MutualExclusion'
  BY <1>2 DEF Lock, WaitsForLock, TakeLock
<1>3. ASSUME NEW p \in Procs, Decline(p) \/ Unlock(p) PROVE MutualExclusion'
  BY <1>3 DEF Decline, Unlock, Finish
<1>4. ASSUME NEW p \in Procs, Accept(p) PROVE MutualExclusion'
  BY <1>4 DEF Accept
<1>5. ASSUME NEW p \in Procs,
             LoadBaseline(p) \/ LoadLogToRead(p) \/ LoadLogToCompact(p) \/ LoadLogToResolve(p)
      PROVE  MutualExclusion'
  BY <1>5 DEF LoadBaseline, LoadLogToRead, LoadLogToCompact, LoadLogToResolve
<1>6. ASSUME NEW p \in Procs, LoadLogStops(p) \/ Show(p) \/ Reload(p)
      PROVE  MutualExclusion'
  BY <1>6 DEF LoadLogStops, Show, Reload, Finish
<1>7. ASSUME NEW p \in Procs,
             TruncateBaseline(p) \/ WriteBaselineTask(p) \/ TruncateLog(p)
      PROVE  MutualExclusion'
  BY <1>7 DEF TruncateBaseline, WriteBaselineTask, TruncateLog
<1>8. ASSUME NEW p \in Procs, SkipLine(p) \/ WriteBody(p) \/ WriteNewline(p)
      PROVE  MutualExclusion'
  BY <1>8 DEF SkipLine, WriteBody, WriteNewline
<1>9. ASSUME NEW p \in Procs, Crash(p) PROVE MutualExclusion'
  BY <1>9 DEF Crash, Finish
<1>10. CASE UNCHANGED vars
  BY <1>10 DEF vars
<1> QED
  BY <1>1, <1>2, <1>3, <1>4, <1>5, <1>6, <1>7, <1>8, <1>9, <1>10
     DEF Next, Step, Quiet

\* Whoever touches the files holds the lock and nobody else does, also after the
\* holder has died (open_log_locked).
THEOREM Exclusion == Spec => []MutualExclusion
<1>1. Init => MutualExclusion
  BY NobodyAssumption DEF Init, MutualExclusion, Locked
<1> QED
  BY <1>1, TypeCorrectness, NextMutualExclusion, PTL DEF Spec

----------------------------------------------------------------------------
(* What a step of one process leaves alone.                                *)

Acts(p) == (\E c \in Commands : Start(p, c)) \/ Step(p) \/ Crash(p)

\* The other processes stay where they are and remember what they did; without
\* the lock the files stay as they are.
LEMMA Frame ==
    ASSUME TypeOK, NEW p \in Procs, Acts(p)
    PROVE  /\ \A q \in Procs \ {p} : pc'[q] = pc[q] /\ mem'[q] = mem[q]
           /\ pc[p] \notin Locked => log' = log /\ baseline' = baseline
<1> USE DEF TypeOK, PcValues, Locked
<1> DEFINE Others == \A q \in Procs \ {p} : pc'[q] = pc[q] /\ mem'[q] = mem[q]
           Files == pc[p] \notin Locked => log' = log /\ baseline' = baseline
<1>1. ASSUME NEW c \in Commands, Start(p, c) PROVE Others /\ Files
  BY <1>1 DEF Start
<1>2. CASE Lock(p) \/ Accept(p) \/ Decline(p) \/ Unlock(p)
  BY <1>2 DEF Lock, WaitsForLock, TakeLock, Accept, Decline, Unlock, Finish
<1>3. CASE LoadBaseline(p) \/ LoadLogToRead(p) \/ LoadLogToCompact(p) \/ LoadLogToResolve(p)
  BY <1>3 DEF LoadBaseline, LoadLogToRead, LoadLogToCompact, LoadLogToResolve
<1>4. CASE LoadLogStops(p) \/ Show(p) \/ Reload(p) \/ Crash(p)
  BY <1>4 DEF LoadLogStops, Show, Reload, Crash, Finish
<1>5. CASE TruncateBaseline(p) \/ WriteBaselineTask(p) \/ TruncateLog(p)
  BY <1>5 DEF TruncateBaseline, WriteBaselineTask, TruncateLog
<1>6. CASE SkipLine(p) \/ WriteBody(p) \/ WriteNewline(p)
  BY <1>6 DEF SkipLine, WriteBody, WriteNewline
<1> QED
  BY <1>1, <1>2, <1>3, <1>4, <1>5, <1>6 DEF Acts, Step

----------------------------------------------------------------------------
(* The log is in order.                                                    *)

\* Moving the first pending line to the log leaves log and pending lines, taken
\* together, as they were.
LEMMA MoveLine ==
    ASSUME NEW s, NEW t, AreLines(s), AreLines(t), t # << >>
    PROVE  Append(s, Head(t)) \o Tail(t) = s \o t
<1>1. PICK S : s \in Seq(S) /\ t \in Seq(S)
  BY LinesTogether
<1>2. Head(t) \in S /\ Tail(t) \in Seq(S) /\ <<Head(t)>> \in Seq(S)
  BY <1>1, HeadTailProperties
<1>3. Append(s, Head(t)) = s \o <<Head(t)>>
  BY <1>1, <1>2, AppendIsConcat
<1>4. (s \o <<Head(t)>>) \o Tail(t) = s \o (<<Head(t)>> \o Tail(t))
  BY <1>1, <1>2, ConcatAssociative
<1>5. <<Head(t)>> \o Tail(t) = t
  BY <1>1
<1> QED
  BY <1>3, <1>4, <1>5

\* Writing the first pending line keeps the log in order, also when it is lost to
\* a missing newline, and what is left still follows the log.
LEMMA PutBodyInOrder ==
    ASSUME NEW f, IsFile(f), NEW t, AreLines(t), t # << >>, Ordered(f.lines \o t)
    PROVE  LET g == PutBody(f, Head(t))
           IN  Ordered(g.lines) /\ Ordered(g.lines \o Tail(t))
<1> DEFINE L == f.lines
           h == Head(t)
           u == Tail(t)
<1>1. AreLines(L) /\ (L = << >> => f.ended) /\ f.ended \in BOOLEAN
  BY DEF IsFile
<1>2. /\ AreLines(u) /\ h = t[1] /\ h.seq \in Nat
      /\ Len(u) = Len(t) - 1 /\ Len(t) \in Nat /\ Len(t) >= 1
      /\ \A i \in 1..Len(u) : u[i] = t[i + 1]
  BY TailLines, LinesDomain
<1>3. /\ Ordered(L)
      /\ Ordered(t)
      /\ \A i \in 1..Len(L), j \in 1..Len(t) :
            L[i].seq # 0 /\ t[j].seq # 0 => L[i].seq < t[j].seq
  BY <1>1, OrderedConcat
<1>4. Ordered(u)
  BY <1>3, OrderedTail
<1>5. CASE f.ended
  <2>1. PutBody(f, h).lines = Append(L, h)
    BY <1>5 DEF PutBody, Content
  <2>2. Ordered(Append(L, h))
    BY <1>1, <1>2, <1>3, OrderedAppend
  <2>3. Append(L, h) \o u = L \o t
    BY <1>1, MoveLine
  <2> QED
    BY <2>1, <2>2, <2>3
<1>6. CASE ~ f.ended
  <2> DEFINE T == [L EXCEPT ![Len(L)] = Torn]
  <2>1. PutBody(f, h).lines = T
    BY <1>6 DEF PutBody, Content
  <2>2. /\ AreLines(T) /\ Len(T) = Len(L)
        /\ \A i \in 1..Len(L) : T[i] = IF i = Len(L) THEN Torn ELSE L[i]
    BY <1>1, <1>6, TornLines
  <2>3. Ordered(T)
    BY <1>1, <1>3, <1>6, OrderedTorn
  <2> HIDE DEF T
  <2>4. ASSUME NEW i \in 1..Len(T), NEW j \in 1..Len(u), T[i].seq # 0, u[j].seq # 0
        PROVE  T[i].seq < u[j].seq
    <3>1. T[i] = L[i] /\ i \in 1..Len(L)
      BY <2>2, <2>4 DEF Torn
    <3>2. u[j] = t[j + 1] /\ j + 1 \in 1..Len(t)
      BY <1>2
    <3> QED
      BY <1>3, <2>4, <3>1, <3>2
  <2>5. Ordered(T \o u)
    BY <1>2, <1>4, <2>2, <2>3, <2>4, OrderedConcat
  <2> QED
    BY <2>1, <2>3, <2>5
<1> QED
  BY <1>1, <1>5, <1>6

\* A step of p keeps the order of the log and of what p has to write.
LEMMA StepInOrder ==
    ASSUME TypeOK, LogOrdered, PendingInOrder, NEW p \in Procs, Acts(p)
    PROVE  /\ Ordered(log'.lines)
           /\ Ordered(mem'[p].todo)
           /\ pc'[p] \in Writing => Ordered(log'.lines \o mem'[p].todo)
<1> DEFINE Goal == /\ Ordered(log'.lines)
                   /\ Ordered(mem'[p].todo)
                   /\ pc'[p] \in Writing => Ordered(log'.lines \o mem'[p].todo)
<1> USE DEF TypeOK, PcValues, Writing, LogOrdered, PendingInOrder
<1>1. AreLines(log.lines) /\ AreLines(mem[p].todo) /\ IsFile(log)
  BY DEF IsFile, IsMem
<1>2. ASSUME NEW c \in Commands, Start(p, c) PROVE Goal
  BY <1>2, EmptyLines DEF Start, Begun
<1>3. CASE Lock(p) \/ TruncateBaseline(p) \/ WriteBaselineTask(p)
  BY <1>3 DEF Lock, WaitsForLock, TakeLock, TruncateBaseline, WriteBaselineTask
<1>4. CASE Decline(p) \/ Unlock(p) \/ LoadLogStops(p) \/ Show(p) \/ Crash(p)
  <2>1. Finish(p) /\ log' = log
    BY <1>4 DEF Decline, Unlock, LoadLogStops, Show, Crash
  <2>2. mem'[p].todo = << >> /\ pc'[p] = "idle"
    BY <2>1 DEF Finish, Fresh, Begun
  <2> QED
    BY <2>1, <2>2, EmptyLines
<1>5. CASE Accept(p)
  <2>1. PICK drafts : /\ Len(drafts) \in 1..MaxBatch
                      /\ mem'[p].todo = Minted(log.lines, drafts)
    BY <1>5 DEF Accept, Holding
  <2>2. AreLines(mem'[p].todo) /\ Ordered(log.lines \o mem'[p].todo)
    BY <1>1, <1>5, <2>1, MintedFollows DEF Accept
  <2>3. Ordered(mem'[p].todo)
    BY <1>1, <2>2, OrderedConcat
  <2> QED
    BY <1>5, <2>2, <2>3 DEF Accept
<1>6. CASE LoadBaseline(p) \/ LoadLogToRead(p) \/ LoadLogToResolve(p)
  BY <1>6 DEF LoadBaseline, LoadLogToRead, LoadLogToResolve, IsMem
<1>7. CASE LoadLogToCompact(p) \/ Reload(p)
  BY <1>7, EmptyLines DEF LoadLogToCompact, Reload, Finish, Fresh, Begun, Holding
<1>8. CASE TruncateLog(p)
  <2>1. log'.lines = << >> /\ mem' = mem
    BY <1>8 DEF TruncateLog, Content
  <2>2. << >> \o mem[p].todo = mem[p].todo
    BY <1>1, ConcatEmptySeq DEF AreLines
  <2> QED
    BY <2>1, <2>2, EmptyLines
<1>9. CASE SkipLine(p)
  <2>1. log' = log /\ mem'[p].todo = Tail(mem[p].todo) /\ mem[p].todo # << >>
    BY <1>9 DEF SkipLine, IsMem
  <2>2. Ordered(log.lines \o mem[p].todo)
    BY <1>9 DEF SkipLine
  <2>3. Ordered(Tail(mem[p].todo)) /\ AreLines(Tail(mem[p].todo))
    BY <1>1, <2>1, OrderedTail, TailLines
  <2>4. ASSUME NEW i \in 1..Len(log.lines), NEW j \in 1..Len(Tail(mem[p].todo)),
               log.lines[i].seq # 0, Tail(mem[p].todo)[j].seq # 0
        PROVE  log.lines[i].seq < Tail(mem[p].todo)[j].seq
    <3>1. /\ Tail(mem[p].todo)[j] = mem[p].todo[j + 1]
          /\ j + 1 \in 1..Len(mem[p].todo)
      BY <1>1, <2>1, TailLines, LinesDomain
    <3> QED
      BY <1>1, <2>2, <2>4, <3>1, OrderedConcat
  <2>5. Ordered(log.lines \o Tail(mem[p].todo))
    BY <1>1, <2>3, <2>4, OrderedConcat
  <2> QED
    BY <2>1, <2>3, <2>5
<1>10. CASE WriteBody(p)
  <2>1. /\ log' = PutBody(log, Head(mem[p].todo))
        /\ mem'[p].todo = Tail(mem[p].todo)
        /\ mem[p].todo # << >>
        /\ Ordered(log.lines \o mem[p].todo)
    BY <1>10 DEF WriteBody, IsMem
  <2>2. Ordered(log'.lines) /\ Ordered(log'.lines \o mem'[p].todo)
    BY <1>1, <2>1, PutBodyInOrder
  <2>3. Ordered(mem'[p].todo)
    BY <1>1, <2>1, OrderedTail
  <2> QED
    BY <2>2, <2>3
<1>11. CASE WriteNewline(p)
  BY <1>11 DEF WriteNewline, PutNewline, Content
<1> QED
  BY <1>2, <1>3, <1>4, <1>5, <1>6, <1>7, <1>8, <1>9, <1>10, <1>11 DEF Acts, Step

\* A step of one process does not disturb what another one is writing, because
\* it changes the log only while it holds the lock.
LEMMA NextInOrder ==
    ASSUME TypeOK, MutualExclusion, LogOrdered, PendingInOrder, [Next]_vars
    PROVE  LogOrdered' /\ PendingInOrder'
<1>1. ASSUME NEW p \in Procs, Acts(p)
      PROVE  LogOrdered' /\ PendingInOrder'
  <2>1. /\ Ordered(log'.lines)
        /\ Ordered(mem'[p].todo)
        /\ pc'[p] \in Writing => Ordered(log'.lines \o mem'[p].todo)
    BY <1>1, StepInOrder
  <2>2. ASSUME NEW q \in Procs \ {p}
        PROVE  /\ Ordered(mem'[q].todo)
               /\ pc'[q] \in Writing => Ordered(log'.lines \o mem'[q].todo)
    <3>1. pc'[q] = pc[q] /\ mem'[q] = mem[q]
      BY <1>1, Frame
    <3>2. ASSUME pc[q] \in Writing PROVE log' = log
      <4>1. pc[p] \notin Locked
        BY <3>2 DEF MutualExclusion, Locked, Writing
      <4> QED
        BY <1>1, <4>1, Frame
    <3> QED
      BY <3>1, <3>2 DEF PendingInOrder
  <2> QED
    BY <2>1, <2>2 DEF LogOrdered, PendingInOrder
<1>2. CASE UNCHANGED vars
  BY <1>2 DEF vars, LogOrdered, PendingInOrder
<1> QED
  BY <1>1, <1>2 DEF Next, Acts, Quiet

\* The log is in order of seq at every moment: through appends and rewrites from
\* stale copies, with crashes in the middle of either, and when a missing newline
\* costs a line; no two of its lines ever carry one seq.
THEOREM LogStaysOrdered == Spec => []LogOrdered
<1>1. Init => LogOrdered /\ PendingInOrder
  BY GenesisAssumption, EmptyLines
     DEF Init, LogOrdered, PendingInOrder, Fresh, Begun, Content, Writing
<1>2. TypeOK /\ MutualExclusion /\ (LogOrdered /\ PendingInOrder) /\ [Next]_vars
        => (LogOrdered /\ PendingInOrder)'
  BY NextInOrder
<1> QED
  BY <1>1, <1>2, TypeCorrectness, Exclusion, PTL DEF Spec

----------------------------------------------------------------------------
(* A vetted batch lands where it was vetted.                               *)

Untouched(p) ==
    IsWriter(mem[p].cmd) =>
        /\ pc[p] \in {"lock", "vet"} \cup Writing
        /\ mem[p].drop = {}
        /\ Readable(mem[p].todo)
        /\ pc[p] = "write"   => WithAppended(log, mem[p].todo) = mem[p].goal
        /\ pc[p] = "newline" => log.lines \o mem[p].todo = mem[p].goal
        /\ pc[p] \in Writing => baseline = mem[p].base

\* Untouched, spelled out for a process that is writing.
LEMMA UntouchedMeans ==
    (WritersOnlyAppend /\ BatchLandsOnVettedStore)
        <=> \A p \in Procs : Untouched(p)
BY DEF WritersOnlyAppend, BatchLandsOnVettedStore, Untouched, Writing

\* Nothing pending: the process is not a writer any more.
LEMMA FinishUntouched ==
    ASSUME TypeOK, NEW p \in Procs, Finish(p)
    PROVE  Untouched(p)'
<1>1. mem'[p].cmd = NoCommand
  BY DEF TypeOK, Finish, Fresh, Begun
<1>2. ~ IsWriter(mem'[p].cmd)
  BY <1>1 DEF IsWriter, Writers, NoCommand
<1> QED
  BY <1>2 DEF Untouched

\* A writer's own steps: what it writes goes from what is pending to the log.
LEMMA StepUntouched ==
    ASSUME TypeOK, NEW p \in Procs, Untouched(p), Acts(p)
    PROVE  Untouched(p)'
<1> USE DEF TypeOK, PcValues, Writing
<1>1. AreLines(log.lines) /\ AreLines(mem[p].todo) /\ IsFile(log)
  BY DEF IsFile, IsMem
<1>2. ASSUME NEW c \in Commands, Start(p, c) PROVE Untouched(p)'
  <2>1. /\ mem'[p].cmd = c /\ mem'[p].drop = {} /\ mem'[p].todo = << >>
        /\ IsWriter(c) => pc'[p] = "lock"
    BY <1>2 DEF Start, Begun
  <2> QED
    BY <2>1 DEF Untouched, Readable
<1>3. CASE Decline(p) \/ Unlock(p) \/ LoadLogStops(p) \/ Show(p) \/ Crash(p)
  <2>1. Finish(p)
    BY <1>3 DEF Decline, Unlock, LoadLogStops, Show, Crash
  <2> QED
    BY <2>1, FinishUntouched
<1>4. CASE Lock(p)
  <2>1. mem' = mem /\ (IsWriter(mem[p].cmd) => pc'[p] = "vet")
    BY <1>4 DEF Lock, WaitsForLock, TakeLock
  <2> QED
    BY <2>1 DEF Untouched
<1>5. CASE Accept(p)
  <2>1. PICK drafts : /\ Len(drafts) \in 1..MaxBatch
                      /\ mem'[p] = Holding(mem[p], baseline, log, Minted(log.lines, drafts), {},
                                          WithAppended(log, Minted(log.lines, drafts)))
    BY <1>5 DEF Accept
  <2>2. /\ mem'[p].todo = Minted(log.lines, drafts)
        /\ mem'[p].goal = WithAppended(log, Minted(log.lines, drafts))
        /\ mem'[p].drop = {}
        /\ mem'[p].base = baseline
    BY <2>1 DEF Holding
  <2>3. log' = log /\ baseline' = baseline /\ pc'[p] = "write"
    BY <1>5 DEF Accept
  <2>4. Readable(mem'[p].todo)
    BY <1>1, <1>5, <2>1, <2>2, MintedFollows DEF Accept
  <2> QED
    BY <2>2, <2>3, <2>4 DEF Untouched
<1>6. CASE LoadBaseline(p) \/ LoadLogToRead(p) \/ LoadLogToCompact(p)
           \/ LoadLogToResolve(p) \/ Reload(p)
  <2>1. ~ IsWriter(mem[p].cmd)
    BY <1>6 DEF LoadBaseline, LoadLogToRead, LoadLogToCompact, LoadLogToResolve, Reload, Untouched
  <2>2. mem'[p].cmd = mem[p].cmd \/ Finish(p)
    BY <1>6 DEF LoadBaseline, LoadLogToRead, LoadLogToCompact, LoadLogToResolve, Reload,
                Holding, IsMem
  <2> QED
    BY <2>1, <2>2, FinishUntouched DEF Untouched
<1>7. CASE TruncateBaseline(p) \/ WriteBaselineTask(p) \/ TruncateLog(p)
  <2>1. ~ IsWriter(mem[p].cmd) /\ mem' = mem
    BY <1>7 DEF TruncateBaseline, WriteBaselineTask, TruncateLog, Untouched
  <2> QED
    BY <2>1 DEF Untouched
<1>8. CASE SkipLine(p)
  <2>1. ASSUME IsWriter(mem[p].cmd) PROVE FALSE
    <3>1. 1 \in DOMAIN mem[p].todo /\ Head(mem[p].todo) = mem[p].todo[1]
      BY <1>1, <1>8, TailLines, LinesDomain DEF SkipLine
    <3> QED
      BY <1>8, <2>1, <3>1 DEF SkipLine, Untouched, Readable
  <2>2. mem'[p].cmd = mem[p].cmd
    BY <1>8 DEF SkipLine, IsMem
  <2> QED
    BY <2>1, <2>2 DEF Untouched
<1>9. CASE WriteBody(p)
  <2> DEFINE todo == mem[p].todo
  <2>1. /\ log' = PutBody(log, Head(todo)) /\ baseline' = baseline /\ pc'[p] = "newline"
        /\ todo # << >> /\ pc[p] = "write"
        /\ mem'[p] = [mem[p] EXCEPT !.todo = Tail(@)]
    BY <1>9 DEF WriteBody
  <2>2. /\ mem'[p].todo = Tail(todo) /\ mem'[p].cmd = mem[p].cmd
        /\ mem'[p].drop = mem[p].drop /\ mem'[p].goal = mem[p].goal
        /\ mem'[p].base = mem[p].base
    BY <2>1 DEF IsMem
  <2>3. ASSUME Readable(todo) PROVE Readable(Tail(todo))
    <3>1. /\ DOMAIN Tail(todo) = 1..Len(Tail(todo)) /\ DOMAIN todo = 1..Len(todo)
          /\ Len(todo) \in Nat /\ Len(Tail(todo)) = Len(todo) - 1
          /\ \A i \in 1..Len(Tail(todo)) : Tail(todo)[i] = todo[i + 1]
      BY <1>1, <2>1, TailLines, LinesDomain
    <3> QED
      BY <2>3, <3>1 DEF Readable
  <2>4. log'.lines \o Tail(todo) = WithAppended(log, todo)
    <3>1. CASE log.ended
      <4>1. log'.lines = Append(log.lines, Head(todo))
        BY <2>1, <3>1 DEF PutBody, Content
      <4>2. Append(log.lines, Head(todo)) \o Tail(todo) = log.lines \o todo
        BY <1>1, <2>1, MoveLine
      <4>3. WithAppended(log, todo) = log.lines \o todo
        BY <3>1 DEF WithAppended
      <4> QED
        BY <4>1, <4>2, <4>3
    <3>2. CASE ~ log.ended
      BY <2>1, <3>2 DEF PutBody, Content, WithAppended
    <3> QED
      BY <3>1, <3>2
  <2> HIDE DEF todo
  <2>5. IsWriter(mem[p].cmd) =>
           /\ mem[p].drop = {} /\ Readable(todo) /\ baseline = mem[p].base
           /\ WithAppended(log, todo) = mem[p].goal
    BY <2>1 DEF Untouched, todo
  <2> QED
    BY <2>1, <2>2, <2>3, <2>4, <2>5 DEF Untouched
<1>10. CASE WriteNewline(p)
  <2>1. /\ log' = Content(log.lines, TRUE) /\ baseline' = baseline /\ mem' = mem
        /\ pc[p] = "newline" /\ pc'[p] = "write"
    BY <1>10 DEF WriteNewline, PutNewline
  <2>2. WithAppended(log', mem[p].todo) = log.lines \o mem[p].todo
    BY <2>1 DEF WithAppended, Content
  <2> QED
    BY <2>1, <2>2 DEF Untouched
<1> QED
  BY <1>2, <1>3, <1>4, <1>5, <1>6, <1>7, <1>8, <1>9, <1>10 DEF Acts, Step

\* No step of the system touches what another process is writing.
LEMMA NextUntouched ==
    ASSUME TypeOK, MutualExclusion, [Next]_vars, \A p \in Procs : Untouched(p)
    PROVE  \A p \in Procs : Untouched(p)'
<1>1. ASSUME NEW p \in Procs, Acts(p), NEW q \in Procs
      PROVE  Untouched(q)'
  <2>1. CASE q = p
    BY <1>1, <2>1, StepUntouched
  <2>2. CASE q # p
    <3>1. pc'[q] = pc[q] /\ mem'[q] = mem[q]
      BY <1>1, <2>2, Frame
    <3>2. ASSUME pc[q] \in Writing PROVE log' = log /\ baseline' = baseline
      <4>1. pc[p] \notin Locked
        BY <2>2, <3>2 DEF MutualExclusion, Locked, Writing
      <4> QED
        BY <1>1, <4>1, Frame
    <3> QED
      BY <3>1, <3>2 DEF Untouched, Writing
  <2> QED
    BY <2>1, <2>2
<1>2. CASE UNCHANGED vars
  BY <1>2 DEF vars, Untouched
<1> QED
  BY <1>1, <1>2 DEF Next, Acts, Quiet

AllUntouched == \A p \in Procs : Untouched(p)

\* It holds from the start, so at every moment.
LEMMA UntouchedAlways == Spec => []AllUntouched
<1>1. Init => AllUntouched
  <2> SUFFICES ASSUME Init, NEW p \in Procs PROVE Untouched(p)
    BY DEF AllUntouched
  <2>1. mem[p].cmd = NoCommand
    BY DEF Init, Fresh, Begun
  <2> QED
    BY <2>1 DEF Untouched, IsWriter, Writers, NoCommand
<1>2. TypeOK /\ MutualExclusion /\ AllUntouched /\ [Next]_vars => AllUntouched'
  BY NextUntouched DEF AllUntouched
<1> QED
  BY <1>1, <1>2, TypeCorrectness, Exclusion, PTL DEF Spec

\* What a write command was checked against is what it is applied to: from the
\* check to its last line the log grows by its events alone, in one piece, and the
\* baseline is not swapped, whatever compact and resolve had read before.
THEOREM BatchIsAtomic == Spec => []BatchLandsOnVettedStore
<1>1. AllUntouched => BatchLandsOnVettedStore
  BY UntouchedMeans DEF AllUntouched
<1> QED
  BY <1>1, UntouchedAlways, PTL

----------------------------------------------------------------------------
(* The operators the ledger is written with are those of the store: the    *)
(* instance of its module has its own copy of each.                        *)

LEMMA LedgerData ==
    /\ Ledger!Blank = Blank /\ Ledger!Null = Null /\ Ledger!NoTime = NoTime
    /\ Ledger!StatusKey = StatusKey /\ Ledger!TypeKey = TypeKey
    /\ \A v : Ledger!IsText(v) = IsText(v)
    /\ \A v : Ledger!IsNumber(v) = IsNumber(v)
    /\ \A v : Ledger!IsSet(v) = IsSet(v)
    /\ \A lines : Ledger!Text(lines) = Text(lines)
    /\ \A n : Ledger!Num(n) = Num(n) /\ Ledger!Float(n) = Float(n)
    /\ \A S : Ledger!SetOf(S) = SetOf(S)
    /\ \A word : Ledger!Word(word) = Word(word)
    /\ \A f, k : Ledger!Value(f, k) = Value(f, k)
    /\ \A f, k, x : Ledger!Put(f, k, x) = Put(f, k, x)
    /\ \A f, g : Ledger!Over(f, g) = Over(f, g)
    /\ \A f, keys : Ledger!Restrict(f, keys) = Restrict(f, keys)
    /\ \A f, keys : Ledger!Without(f, keys) = Without(f, keys)
<1>1. /\ Ledger!Blank = Blank /\ Ledger!Null = Null /\ Ledger!NoTime = NoTime
      /\ Ledger!StatusKey = StatusKey /\ Ledger!TypeKey = TypeKey
  BY DEF Blank, NoTime, Null, StatusKey, Text, TypeKey, Word, Ledger!Blank, Ledger!NoTime,
         Ledger!Null, Ledger!StatusKey, Ledger!Text, Ledger!TypeKey, Ledger!Word
<1>2. /\ \A v : Ledger!IsText(v) = IsText(v)
      /\ \A v : Ledger!IsNumber(v) = IsNumber(v)
      /\ \A v : Ledger!IsSet(v) = IsSet(v)
  BY DEF IsText, IsNumber, IsSet, Ledger!IsText, Ledger!IsNumber, Ledger!IsSet
<1>3. /\ \A lines : Ledger!Text(lines) = Text(lines)
      /\ \A n : Ledger!Num(n) = Num(n) /\ Ledger!Float(n) = Float(n)
      /\ \A S : Ledger!SetOf(S) = SetOf(S)
      /\ \A word : Ledger!Word(word) = Word(word)
  BY DEF Float, Num, SetOf, Text, Word, Ledger!Float, Ledger!Num, Ledger!SetOf, Ledger!Text,
         Ledger!Word
<1>4. /\ \A f, k : Ledger!Value(f, k) = Value(f, k)
      /\ \A f, k, x : Ledger!Put(f, k, x) = Put(f, k, x)
      /\ \A f, g : Ledger!Over(f, g) = Over(f, g)
  BY <1>1 DEF Value, Put, Over, Ledger!Value, Ledger!Put, Ledger!Over
<1>5. \A f, keys : Ledger!Restrict(f, keys) = Restrict(f, keys)
  BY DEF Restrict, Ledger!Restrict
<1>6. \A f, keys : Ledger!Without(f, keys) = Without(f, keys)
  BY <1>5 DEF Without, Ledger!Without
<1> QED BY <1>1, <1>2, <1>3, <1>4, <1>5, <1>6

LEMMA LedgerFields ==
    /\ \A f, p : Ledger!ApplySet(f, p) = ApplySet(f, p)
    /\ \A f, p : Ledger!ApplyAppend(f, p) = ApplyAppend(f, p)
    /\ \A f, p, add : Ledger!ApplyAccumulate(f, p, add) = ApplyAccumulate(f, p, add)
    /\ \A t, e : Ledger!SetFields(t, e) = SetFields(t, e)
    /\ \A state, e : Ledger!IsOrphan(state, e) = IsOrphan(state, e)
    /\ \A f, k, x : Ledger!Put(f, k, x) = Put(f, k, x)
    /\ \A f, g : Ledger!Over(f, g) = Over(f, g)
    /\ \A f, keys : Ledger!Without(f, keys) = Without(f, keys)
    /\ \A f, keys : Ledger!Restrict(f, keys) = Restrict(f, keys)
<1>1. \A f, p : Ledger!ApplySet(f, p) = ApplySet(f, p)
  BY LedgerData DEF ApplySet, Ledger!ApplySet
<1>2. \A v : Ledger!TextLines(v) = TextLines(v)
  BY LedgerData DEF TextLines, Ledger!TextLines
<1>3. \A old, v : Ledger!AppendText(old, v) = AppendText(old, v)
  BY <1>2, LedgerData DEF AppendText, Ledger!AppendText
<1>4. \A f, p : Ledger!ApplyAppend(f, p) = ApplyAppend(f, p)
  BY <1>3, LedgerData DEF ApplyAppend, Ledger!ApplyAppend
<1>5. \A n : Ledger!ToFloat(n) = ToFloat(n)
  BY DEF ToFloat, Ledger!ToFloat
<1>6. \A old, n, add : Ledger!AccumulateNumbers(old, n, add) = AccumulateNumbers(old, n, add)
  BY <1>5, LedgerData DEF AccumulateNumbers, Ledger!AccumulateNumbers
<1>7. \A old, v, add : Ledger!AccumulateSets(old, v, add) = AccumulateSets(old, v, add)
  BY LedgerData DEF AccumulateSets, Ledger!AccumulateSets
<1>8. \A old, v, add : Ledger!Accumulated(old, v, add) = Accumulated(old, v, add)
  BY <1>6, <1>7, LedgerData DEF Accumulated, Ledger!Accumulated
<1>9. \A f, p, add : Ledger!ApplyAccumulate(f, p, add) = ApplyAccumulate(f, p, add)
  BY <1>8, LedgerData DEF ApplyAccumulate, Ledger!ApplyAccumulate
<1>10. \A f : Ledger!IsDone(f) = IsDone(f)
  BY LedgerData DEF IsDone, Ledger!IsDone
<1>11. \A t, f, ts : Ledger!RefreshCloseTime(t, f, ts) = RefreshCloseTime(t, f, ts)
  BY <1>10, LedgerData DEF RefreshCloseTime, Ledger!RefreshCloseTime
<1>12. \A t, e : Ledger!SetFields(t, e) = SetFields(t, e)
  BY <1>1, <1>11 DEF SetFields, Ledger!SetFields
<1>13. \A state, e : Ledger!IsOrphan(state, e) = IsOrphan(state, e)
  BY DEF IsOrphan, Ledger!IsOrphan
<1> QED BY <1>1, <1>4, <1>9, <1>12, <1>13, LedgerData

LEMMA LedgerTouches == \A t, e : Ledger!Touched(t, e) = Touched(t, e)
BY LedgerFields DEF Touched, NoTime, Ledger!Touched, Ledger!NoTime

LEMMA LedgerApplies == \A state, e : Ledger!Applied(state, e) = Applied(state, e)
<1> TAKE state, e
<1>1. Ledger!NewTask = NewTask
  BY DEF NewTask, NoTime, Ledger!NewTask, Ledger!NoTime
<1>2. \A s : Ledger!Apply(s, e) = Apply(s, e)
  BY <1>1, LedgerTouches, LedgerFields DEF Apply, Ledger!Apply
<1>3. Ledger!Applied(state, e) = CHOOSE t \in {Apply(s, e) : s \in {state}} : TRUE
  BY <1>2 DEF Ledger!Applied
<1> QED BY <1>3 DEF Applied

LEMMA LedgerReplays ==
    \A base, events : Ledger!Materialize(base, events) = Materialize(base, events)
<1> TAKE base, events
<1> DEFINE D == DOMAIN events
           Ours(f) == f = [s \in SUBSET D |->
              IF s = {} THEN base ELSE Applied(f[s \ {Max(s)}], events[Max(s)])]
           Theirs(f) == f = [s \in SUBSET D |->
              IF s = {} THEN base ELSE Ledger!Applied(f[s \ {Max(s)}], events[Max(s)])]
           fold   == FoldLeft(Applied, base, events)
           theirs == Ledger!FoldLeft(Ledger!Applied, base, events)
<1>1. ASSUME NEW f PROVE Theirs(f) <=> Ours(f)
  BY LedgerApplies
<1>2. fold = (CHOOSE f : Ours(f))[D]
  BY DEF FoldLeft, MapThenFoldSet
<1>3. theirs = (CHOOSE f : Theirs(f))[D]
  BY DEF Ledger!FoldLeft, Ledger!MapThenFoldSet, Ledger!Max, Max
<1> HIDE DEF Ours, Theirs, D
<1>4. (CHOOSE f : Theirs(f)) = (CHOOSE f : Ours(f))
  BY <1>1
<1>5. theirs = fold
  <2> HIDE DEF fold, theirs
  <2> QED BY <1>2, <1>3, <1>4
<1>6. Materialize(base, events) = fold
  BY MaterializeIsFold
<1>7. Ledger!Materialize(base, events) = theirs
  <2> DEFINE F(es) == Ledger!FoldLeft(Ledger!Applied, base, es)
  <2>1. Ledger!Materialize(base, events) = CHOOSE t \in {F(es) : es \in {events}} : TRUE
    BY DEF Ledger!Materialize
  <2> HIDE DEF F
  <2>2. {F(es) : es \in {events}} = {F(events)}
    OBVIOUS
  <2>3. Ledger!Materialize(base, events) = F(events)
    BY <2>1, <2>2
  <2> QED BY <2>3 DEF F
<1> HIDE DEF fold, theirs
<1> QED BY <1>5, <1>6, <1>7

LEMMA LedgerShapes ==
    /\ \A current, ops : Ledger!DispatchAccumulate(current, ops) = DispatchAccumulate(current, ops)
    /\ \A current, p, touched :
          Ledger!DefaultStamps(current, p, touched) = DefaultStamps(current, p, touched)
    /\ \A current, p : Ledger!CoerceFields(current, p) = CoerceFields(current, p)
    /\ \A state, id : Ledger!FieldsOf(state, id) = FieldsOf(state, id)
    /\ \A op, id, p : Ledger!Draft(op, id, p) = Draft(op, id, p)
<1>1. \A type : Ledger!Declared(type) = Declared(type)
  BY DEF Declared, Ledger!Declared
<1>2. \A current, p : Ledger!WriteType(current, p) = WriteType(current, p)
  BY LedgerData DEF WriteType, Ledger!WriteType
<1>3. \A v : Ledger!Numerals(v) = Numerals(v)
  BY LedgerData DEF Numerals, Ledger!Numerals
<1>4. \A v : Ledger!TextLines(v) = TextLines(v)
  BY LedgerData DEF TextLines, Ledger!TextLines
<1>5. \A v, kind : Ledger!CoerceValue(v, kind) = CoerceValue(v, kind)
  BY <1>3, <1>4, LedgerData DEF CoerceValue, Ledger!CoerceValue
<1>6. \A current, ops :
          Ledger!DispatchAccumulate(current, ops) = DispatchAccumulate(current, ops)
  <2> TAKE current, ops
  <2>1. Ledger!Declared(Ledger!WriteType(current, ops.set)) = Declared(WriteType(current, ops.set))
    BY <1>1, <1>2
  <2>2. Ledger!Accumulating = Accumulating
    BY DEF Accumulating, Ledger!Accumulating
  <2>3. /\ \A f, keys : Ledger!Restrict(f, keys) = Restrict(f, keys)
        /\ \A f, keys : Ledger!Without(f, keys) = Without(f, keys)
    BY LedgerData
  <2> QED BY <1>5, <2>1, <2>2, <2>3 DEF DispatchAccumulate, Ledger!DispatchAccumulate
<1>7. \A current, p, touched :
          Ledger!DefaultStamps(current, p, touched) = DefaultStamps(current, p, touched)
  BY <1>1, <1>2, LedgerData DEF DefaultStamps, Ledger!DefaultStamps
<1>8. \A current, p : Ledger!CoerceFields(current, p) = CoerceFields(current, p)
  BY <1>1, <1>2, <1>5, LedgerData DEF CoerceFields, Ledger!CoerceFields
<1>9. \A state, id : Ledger!FieldsOf(state, id) = FieldsOf(state, id)
  BY DEF FieldsOf, Ledger!FieldsOf
<1>10. \A op, id, p : Ledger!Draft(op, id, p) = Draft(op, id, p)
  BY DEF Draft, Ledger!Draft
<1> QED BY <1>6, <1>7, <1>8, <1>9, <1>10

LEMMA LedgerReads ==
    /\ \A d : Ledger!CarriesFields(d) = CarriesFields(d)
    /\ \A type : Ledger!Declared(type) = Declared(type)
    /\ \A current, p : Ledger!WriteType(current, p) = WriteType(current, p)
    /\ \A state : Ledger!EditableFields(state) = EditableFields(state)
    /\ \A events : Ledger!PayloadFields(events) = PayloadFields(events)
    /\ \A state : Ledger!StoredEdges(state) = StoredEdges(state)
<1>1. /\ \A d : Ledger!CarriesFields(d) = CarriesFields(d)
      /\ \A type : Ledger!Declared(type) = Declared(type)
  BY DEF CarriesFields, Declared, Ledger!CarriesFields, Ledger!Declared
<1>2. \A current, p : Ledger!WriteType(current, p) = WriteType(current, p)
  BY LedgerData DEF WriteType, Ledger!WriteType
<1>3. \A state : Ledger!EditableFields(state) = EditableFields(state)
  BY LedgerData DEF EditableFields, UsedFields, Ledger!EditableFields, Ledger!UsedFields
<1>4. \A events : Ledger!PayloadFields(events) = PayloadFields(events)
  BY <1>1 DEF PayloadFields, Ledger!PayloadFields
<1>5. \A state : Ledger!StoredEdges(state) = StoredEdges(state)
  BY DEF StoredEdges, Ledger!StoredEdges
<1> QED BY <1>1, <1>2, <1>3, <1>4, <1>5

LEMMA LedgerSchemas ==
    \A state, preview : Ledger!EnforceSchemas(state, preview) = EnforceSchemas(state, preview)
<1>1. \A v, s : Ledger!MatchesSchema(v, s) = MatchesSchema(v, s)
  BY LedgerData, LedgerReads DEF MatchesSchema, MatchesKind, Ledger!MatchesSchema, Ledger!MatchesKind
<1>2. \A fields : Ledger!Conforms(fields) = Conforms(fields)
  BY <1>1, LedgerData, LedgerReads DEF Conforms, Ledger!Conforms
<1>3. \A fields : Ledger!SchemaHolds(fields) = SchemaHolds(fields)
  BY <1>2, LedgerData, LedgerReads DEF SchemaHolds, Ledger!SchemaHolds
<1>4. \A before, after : Ledger!TransitionsHold(before, after) = TransitionsHold(before, after)
  BY LedgerData, LedgerReads DEF TransitionsHold, Ledger!TransitionsHold
<1> QED BY <1>3, <1>4 DEF EnforceSchemas, Ledger!EnforceSchemas

LEMMA LedgerChecks ==
    /\ \A state, d : Ledger!Refuses(state, d) = Refuses(state, d)
    /\ \A current, p : Ledger!Changes(current, p) = Changes(current, p)
    /\ \A t, e : Ledger!HasEdge(t, e) = HasEdge(t, e)
    /\ \A ok, out, p : Ledger!Vetting(ok, out, p) = Vetting(ok, out, p)
    /\ Ledger!Refused = Refused
    /\ \A state, preview : Ledger!EnforceSchemas(state, preview) = EnforceSchemas(state, preview)
    /\ \A state, past, id, guard, names :
          Ledger!EnsureGuard(state, past, id, guard, names)
              = EnsureGuard(state, past, id, guard, names)
    /\ \A drafts, state, allow :
          Ledger!VetNewFields(drafts, state, allow) = VetNewFields(drafts, state, allow)
    /\ \A edges, state : Ledger!BlockersAllowed(edges, state) = BlockersAllowed(edges, state)
    /\ \A id, p : Ledger!CreateDraft(id, p) = CreateDraft(id, p)
<1>1. \A state, d : Ledger!Refuses(state, d) = Refuses(state, d)
  BY LedgerData, LedgerReads DEF Refuses, Ledger!Refuses
<1>2. \A current, p : Ledger!Changes(current, p) = Changes(current, p)
  BY LedgerData, LedgerReads DEF Changes, Ledger!Changes
<1>3. /\ \A t, e : Ledger!HasEdge(t, e) = HasEdge(t, e)
      /\ \A ok, out, p : Ledger!Vetting(ok, out, p) = Vetting(ok, out, p)
      /\ Ledger!Refused = Refused
  BY DEF HasEdge, Vetting, Refused, Ledger!HasEdge, Ledger!Vetting, Ledger!Refused
<1>4. \A state, past, id, guard, names :
          Ledger!EnsureGuard(state, past, id, guard, names)
              = EnsureGuard(state, past, id, guard, names)
  <2>1. \A f, k, v : Ledger!EqMatches(f, k, v) = EqMatches(f, k, v)
    BY LedgerData, LedgerReads, ZenonT(60) DEF EqMatches, Ledger!EqMatches
  <2> QED BY <2>1, LedgerData, LedgerReads DEF EnsureGuard, Ledger!EnsureGuard
<1>5. \A drafts, state, allow :
          Ledger!VetNewFields(drafts, state, allow) = VetNewFields(drafts, state, allow)
  BY LedgerData, LedgerReads DEF VetNewFields, Ledger!VetNewFields
<1>6. \A edges, state : Ledger!BlockersAllowed(edges, state) = BlockersAllowed(edges, state)
  <2>1. \A new, old : Ledger!Clash(new, old) = Clash(new, old)
    BY DEF Clash, Ledger!Clash
  <2> QED BY <2>1, LedgerData, LedgerReads DEF BlockersAllowed, Ledger!BlockersAllowed
<1>7. \A id, p : Ledger!CreateDraft(id, p) = CreateDraft(id, p)
  <2> TAKE id, p
  <2>1. /\ \A f, k, x : Ledger!Put(f, k, x) = Put(f, k, x)
        /\ \A f, g : Ledger!Over(f, g) = Over(f, g)
        /\ \A current, f, touched :
              Ledger!DefaultStamps(current, f, touched) = DefaultStamps(current, f, touched)
        /\ \A current, f : Ledger!CoerceFields(current, f) = CoerceFields(current, f)
        /\ \A op, i, f : Ledger!Draft(op, i, f) = Draft(op, i, f)
        /\ Ledger!Null = Null /\ Ledger!StatusKey = StatusKey
    BY LedgerData, LedgerShapes
  <2> QED BY <2>1 DEF CreateDraft, Ledger!CreateDraft
<1> QED BY <1>1, <1>2, <1>3, <1>4, <1>5, <1>6, <1>7, LedgerSchemas

LEMMA LedgerVetsDraft == \A state, r, d : Ledger!VetDraft(state, r, d) = VetDraft(state, r, d)
<1> TAKE state, r, d
<1> DEFINE current == FieldsOf(state, d.id)
           working == IF d.id \in DOMAIN r.preview /\ ~ r.preview[d.id].gone
                      THEN r.preview[d.id].fields ELSE current
           trimmed == Restrict(d.payload, Changes(current, d.payload))
           summed  == ApplyAccumulate(working, d.payload, d.op = "Add")
           passes  == r.ok /\ ~ Refuses(state, d)
<1>1. /\ Ledger!FieldsOf(state, d.id) = current
      /\ Ledger!Restrict(d.payload, Ledger!Changes(current, d.payload)) = trimmed
      /\ Ledger!ApplyAccumulate(working, d.payload, d.op = "Add") = summed
      /\ Ledger!Refuses(state, d) = Refuses(state, d)
      /\ Ledger!ApplySet(working, d.payload) = ApplySet(working, d.payload)
      /\ Ledger!ApplySet(working, trimmed) = ApplySet(working, trimmed)
      /\ Ledger!ApplyAppend(working, d.payload) = ApplyAppend(working, d.payload)
      /\ Ledger!HasEdge(state[d.id], d.payload) = HasEdge(state[d.id], d.payload)
      /\ Ledger!Refused = Refused
  BY LedgerFields, LedgerShapes, LedgerChecks
<1>2. /\ \A f, k, x : Ledger!Put(f, k, x) = Put(f, k, x)
      /\ \A op, id, p : Ledger!Draft(op, id, p) = Draft(op, id, p)
      /\ \A ok, out, p : Ledger!Vetting(ok, out, p) = Vetting(ok, out, p)
  BY LedgerFields, LedgerShapes, LedgerChecks
<1> USE <1>1, <1>2 DEF VetDraft, Ledger!VetDraft
<1>3. CASE ~ passes
  BY <1>3
<1>4. CASE passes /\ d.op = "Create"
  BY <1>4
<1>5. CASE passes /\ d.op = "Update"
  BY <1>5
<1>6. CASE passes /\ d.op = "Append"
  BY <1>6
<1>7. CASE passes /\ d.op = "Add"
  BY <1>7
<1>8. CASE passes /\ d.op = "Remove"
  BY <1>8
<1>9. CASE passes /\ d.op \in {"AddEdge", "RemoveEdge"}
  BY <1>9
<1>10. CASE passes /\ d.op \notin {"Create", "Update", "Append", "Add", "Remove", "AddEdge", "RemoveEdge"}
  BY <1>10
<1> QED BY ONLY <1>3, <1>4, <1>5, <1>6, <1>7, <1>8, <1>9, <1>10

LEMMA LedgerVets == \A drafts, state : Ledger!VetEvents(drafts, state) = VetEvents(drafts, state)
<1> TAKE drafts, state
<1>1. ASSUME NEW acc, NEW d PROVE Ledger!Vet(state, acc, d) = Vet(state, acc, d)
  <2>1. Ledger!Vet(state, acc, d) = CHOOSE v \in {VetDraft(state, a, e) : a \in {acc}, e \in {d}} : TRUE
    BY LedgerVetsDraft DEF Ledger!Vet
  <2> QED BY <2>1 DEF Vet
<1>2. ASSUME NEW r PROVE Ledger!Vetted(state, r) = Vetted(state, r)
  BY LedgerChecks DEF Vetted, Ledger!Vetted
<1> DEFINE none   == Vetting(TRUE, << >>, << >>)
           fold   == FoldLeft(LAMBDA acc, d : Vet(state, acc, d), none, drafts)
           theirs == Ledger!FoldLeft(LAMBDA acc, d : Ledger!Vet(state, acc, d), none, drafts)
<1>3. theirs = fold
  <2> HIDE DEF none
  <2> DEFINE D == DOMAIN drafts
             Ours(f) == f = [s \in SUBSET D |->
                IF s = {} THEN none ELSE Vet(state, f[s \ {Max(s)}], drafts[Max(s)])]
             Theirs(f) == f = [s \in SUBSET D |->
                IF s = {} THEN none
                ELSE Ledger!Vet(state, f[s \ {Max(s)}], drafts[Max(s)])]
  <2>1. ASSUME NEW f PROVE Theirs(f) <=> Ours(f)
    BY <1>1
  <2>2. fold = (CHOOSE f : Ours(f))[D]
    BY DEF FoldLeft, MapThenFoldSet
  <2>3. theirs = (CHOOSE f : Theirs(f))[D]
    BY DEF Ledger!FoldLeft, Ledger!MapThenFoldSet, Ledger!Max, Max
  <2> HIDE DEF Ours, Theirs, D, fold, theirs
  <2>4. (CHOOSE f : Theirs(f)) = (CHOOSE f : Ours(f))
    BY <2>1
  <2> QED BY <2>2, <2>3, <2>4
<1>4. Ledger!Vetting(TRUE, << >>, << >>) = none
  BY LedgerChecks
<1>5. VetEvents(drafts, state) = CHOOSE v \in {Vetted(state, r) : r \in {fold}} : TRUE
  BY DEF VetEvents
<1>6. Ledger!VetEvents(drafts, state) = CHOOSE v \in {Ledger!Vetted(state, r) : r \in {theirs}} : TRUE
  BY <1>4 DEF Ledger!VetEvents
<1> HIDE DEF fold, theirs
<1> QED BY <1>2, <1>3, <1>5, <1>6

LEMMA LedgerBuildsFields ==
    \A id, current, ops : Ledger!BuildFieldEvents(id, current, ops) = BuildFieldEvents(id, current, ops)
<1> TAKE id, current, ops
<1> DEFINE acc     == DispatchAccumulate(current, ops)
           touched == DOMAIN acc.text \cup DOMAIN acc.add \cup DOMAIN acc.remove
           stamps  == DefaultStamps(current, ops.set, touched)
<1>1. /\ Ledger!DispatchAccumulate(current, ops) = acc
      /\ Ledger!DefaultStamps(current, ops.set, touched) = stamps
      /\ Ledger!Over(ops.set, stamps) = Over(ops.set, stamps)
      /\ \A f : Ledger!CoerceFields(current, f) = CoerceFields(current, f)
      /\ \A op, p : Ledger!Draft(op, id, p) = Draft(op, id, p)
  BY LedgerFields, LedgerShapes
<1> HIDE DEF acc
<1> QED BY <1>1 DEF BuildFieldEvents, Ledger!BuildFieldEvents, acc

LEMMA LedgerBuilds ==
    \A c, state, past : Ledger!Build(c, state, past) = Build(c, state, past)
<1> TAKE c, state, past
<1> QED BY LedgerVets, LedgerBuildsFields, LedgerShapes, LedgerChecks DEF Build, Ledger!Build

----------------------------------------------------------------------------
(* The conditions.                                                         *)

\* Nobody dies, and nobody writes during maintenance; readers may run all the while.
\* Both are needed: without either, TLC finds a run in which the map does change
\* otherwise.
Sheltered ==
    /\ MaxCrashes = 0
    /\ Exclusive \/ \A c \in Commands : ~ IsMaintenance(c)

----------------------------------------------------------------------------
(* Who runs what.                                                          *)

\* Beside maintenance there are at most readers.
Alone ==
    \A p \in Procs : IsMaintenance(mem[p].cmd) =>
        \A q \in Procs \ {p} : ~ IsMaintenance(mem[q].cmd) /\ ~ IsWriter(mem[q].cmd)

\* Where each command can be.
Role(p) ==
    /\ IF pc[p] = "idle" THEN mem[p].cmd = NoCommand ELSE mem[p].cmd \in Commands
    /\ IsWriter(mem[p].cmd) => pc[p] \in {"lock", "vet"} \cup Writing
    /\ mem[p].cmd.cmd = "read" => pc[p] \in {"loadBaseline", "loadLog", "show"}
    /\ mem[p].cmd.cmd = "compact" =>
          pc[p] \in {"loadBaseline", "loadLog", "lock", "swap", "writeBaseline"} \cup Writing
    /\ mem[p].cmd.cmd = "resolve" =>
          pc[p] \in {"loadBaseline", "loadLog", "reload", "lock", "truncate"} \cup Writing

\* The files at rest: every line parses, and only the one being written lacks its
\* newline.
Whole == Readable(log.lines) /\ (~ log.ended => lock # Nobody /\ pc[lock] = "newline")

Base == TypeOK /\ MutualExclusion /\ LogOrdered /\ AllUntouched

\* A command is one of four kinds.
LEMMA Kinds ==
    ASSUME NEW c, IsCommand(c)
    PROVE  /\ IsWriter(c) \/ IsMaintenance(c) \/ c.cmd = "read"
           /\ ~ (IsWriter(c) /\ IsMaintenance(c))
           /\ c.cmd = "read" => ~ IsWriter(c) /\ ~ IsMaintenance(c)
BY DEF IsCommand, IsWriter, IsMaintenance, Writers

\* Nobody runs nothing.
LEMMA NoKind ==
    /\ ~ IsWriter(NoCommand) /\ ~ IsMaintenance(NoCommand)
    /\ NoCommand.cmd \notin {"read", "compact", "resolve"}
BY DEF NoCommand, IsWriter, IsMaintenance, Writers

LEMMA NobodyDies ==
    ASSUME Sheltered, TypeOK, NEW p \in Procs
    PROVE  ~ Crash(p)
BY DEF Sheltered, TypeOK, Crash

\* A step ends the command or goes on with it.
LEMMA StepGoesOn ==
    ASSUME TypeOK, NEW p \in Procs, Step(p)
    PROVE  /\ pc[p] # "idle"
           /\ \/ Finish(p)
              \/ pc'[p] # "idle" /\ mem'[p].cmd = mem[p].cmd /\ mem'[p].since = mem[p].since
<1> USE DEF TypeOK, PcValues, IsMem
<1>1. CASE Lock(p)
  BY <1>1 DEF Lock, WaitsForLock, TakeLock
<1>2. CASE Decline(p) \/ LoadLogStops(p) \/ Show(p) \/ Unlock(p)
  BY <1>2 DEF Decline, LoadLogStops, Show, Unlock
<1>3. CASE Accept(p)
  BY <1>3 DEF Accept, Holding
<1>4. CASE LoadBaseline(p) \/ LoadLogToRead(p) \/ LoadLogToResolve(p)
  BY <1>4 DEF LoadBaseline, LoadLogToRead, LoadLogToResolve
<1>5. CASE LoadLogToCompact(p) \/ Reload(p)
  BY <1>5 DEF LoadLogToCompact, Reload, Holding
<1>6. CASE TruncateBaseline(p) \/ WriteBaselineTask(p) \/ TruncateLog(p)
  BY <1>6 DEF TruncateBaseline, WriteBaselineTask, TruncateLog
<1>7. CASE SkipLine(p) \/ WriteBody(p) \/ WriteNewline(p)
  BY <1>7 DEF SkipLine, WriteBody, WriteNewline
<1> QED BY <1>1, <1>2, <1>3, <1>4, <1>5, <1>6, <1>7 DEF Step

\* What a process that ends leaves in memory.
LEMMA Finished ==
    ASSUME TypeOK, NEW p \in Procs, Finish(p)
    PROVE  pc'[p] = "idle" /\ mem'[p] = Fresh /\ mem'[p].cmd = NoCommand /\ mem'[p].since = 0
BY DEF TypeOK, Finish, Fresh, Begun

\* Maintenance stays alone.
LEMMA NextAlone ==
    ASSUME Sheltered, TypeOK, Alone, \A p \in Procs : Role(p), [Next]_vars
    PROVE  Alone'
<1>1. ASSUME NEW p \in Procs, NEW c \in Commands, Start(p, c) PROVE Alone'
  <2>1. mem'[p].cmd = c /\ \A q \in Procs \ {p} : mem'[q] = mem[q]
    BY <1>1 DEF Start, Begun, TypeOK
  <2>2. CASE c.cmd = "read"
    <3>1. ~ IsMaintenance(c) /\ ~ IsWriter(c)
      BY <2>2 DEF IsMaintenance, IsWriter, Writers
    <3> QED BY <2>1, <3>1 DEF Alone
  <2>3. CASE c.cmd # "read" /\ Exclusive
    <3>1. /\ \A q \in Procs : ~ IsMaintenance(mem[q].cmd)
          /\ IsMaintenance(c) => \A q \in Procs : ~ IsWriter(mem[q].cmd)
      BY <1>1, <2>3 DEF Start
    <3> QED BY <2>1, <3>1 DEF Alone
  <2>4. CASE ~ Exclusive
    <3>1. \A q \in Procs : ~ IsMaintenance(mem[q].cmd)
      BY <2>4, NoKind DEF Sheltered, Role
    <3>2. ~ IsMaintenance(c)
      BY <2>4 DEF Sheltered
    <3> QED BY <2>1, <3>1, <3>2 DEF Alone
  <2> QED BY <2>2, <2>3, <2>4
<1>2. ASSUME NEW p \in Procs, Step(p) PROVE Alone'
  <2>1. \A q \in Procs \ {p} : mem'[q] = mem[q]
    BY <1>2, Frame DEF Acts
  <2>2. CASE Finish(p)
    <3>1. ~ IsMaintenance(mem'[p].cmd) /\ ~ IsWriter(mem'[p].cmd)
      BY <2>2, Finished, NoKind
    <3> QED BY <2>1, <3>1 DEF Alone
  <2>3. CASE mem'[p].cmd = mem[p].cmd
    BY <2>1, <2>3 DEF Alone
  <2> QED BY <1>2, <2>2, <2>3, StepGoesOn
<1>3. CASE UNCHANGED vars
  BY <1>3 DEF vars, Alone
<1> QED BY <1>1, <1>2, <1>3, NobodyDies DEF Next, Quiet

\* Whoever else runs, while maintenance does, changes no file.
LEMMA ReadersBeside ==
    ASSUME TypeOK, Alone, NEW p \in Procs, IsMaintenance(mem[p].cmd),
           NEW q \in Procs \ {p}, Role(q), Acts(q)
    PROVE  log' = log /\ baseline' = baseline
<1>1. ~ IsMaintenance(mem[q].cmd) /\ ~ IsWriter(mem[q].cmd)
  BY DEF Alone
<1>2. pc[q] = "idle" \/ mem[q].cmd.cmd = "read"
  <2>1. pc[q] # "idle" => IsCommand(mem[q].cmd)
    BY CommandsAssumption DEF Role
  <2> QED BY <1>1, <2>1, Kinds
<1>3. pc[q] \notin Locked
  BY <1>2 DEF Role, Locked
<1> QED BY <1>3, Frame

\* Everyone stays where its command can be.
LEMMA NextRole ==
    ASSUME Sheltered, TypeOK, \A p \in Procs : Role(p), [Next]_vars
    PROVE  \A p \in Procs : Role(p)'
<1>1. ASSUME NEW p \in Procs, Acts(p) PROVE Role(p)'
  <2> USE DEF TypeOK, PcValues, Writing
  <2>1. ASSUME NEW c \in Commands, Start(p, c) PROVE Role(p)'
    <3>1. mem'[p].cmd = c /\ pc'[p] = IF IsWriter(c) THEN "lock" ELSE "loadBaseline"
      BY <2>1 DEF Start, Begun
    <3>2. IsCommand(c)
      BY CommandsAssumption
    <3> QED BY <3>1, <3>2, Kinds DEF Role, IsMaintenance
  <2>2. CASE Finish(p)
    BY <2>2, Finished, NoKind DEF Role
  <2>3. ASSUME Step(p), ~ Finish(p) PROVE Role(p)'
    <3>1. pc[p] # "idle" /\ pc'[p] # "idle" /\ mem'[p].cmd = mem[p].cmd
      BY <2>3, StepGoesOn
    <3>2. IsCommand(mem[p].cmd)
      BY <3>1, CommandsAssumption DEF Role
    <3>3. /\ IsWriter(mem[p].cmd) \/ IsMaintenance(mem[p].cmd) \/ mem[p].cmd.cmd = "read"
          /\ ~ (IsWriter(mem[p].cmd) /\ IsMaintenance(mem[p].cmd))
          /\ mem[p].cmd.cmd = "read" => ~ IsWriter(mem[p].cmd) /\ ~ IsMaintenance(mem[p].cmd)
          /\ IsMaintenance(mem[p].cmd) <=> mem[p].cmd.cmd \in {"compact", "resolve"}
      BY <3>2, Kinds DEF IsMaintenance
    <3>4. CASE Lock(p)
      BY <3>1, <3>3, <3>4 DEF Lock, WaitsForLock, TakeLock, Role
    <3>5. CASE Accept(p)
      BY <3>1, <3>3, <3>5 DEF Accept, Role
    <3>6. CASE LoadBaseline(p) \/ LoadLogToRead(p) \/ LoadLogToResolve(p)
      BY <3>1, <3>3, <3>6 DEF LoadBaseline, LoadLogToRead, LoadLogToResolve, Role
    <3>7. CASE LoadLogToCompact(p) \/ Reload(p)
      BY <2>3, <3>1, <3>3, <3>7 DEF LoadLogToCompact, Reload, Role
    <3>8. CASE TruncateBaseline(p) \/ WriteBaselineTask(p) \/ TruncateLog(p)
      BY <3>1, <3>3, <3>8 DEF TruncateBaseline, WriteBaselineTask, TruncateLog, Role
    <3>9. CASE SkipLine(p) \/ WriteBody(p) \/ WriteNewline(p)
      BY <3>1, <3>3, <3>9 DEF SkipLine, WriteBody, WriteNewline, Role
    <3>10. CASE Decline(p) \/ LoadLogStops(p) \/ Show(p) \/ Unlock(p)
      BY <2>3, <3>10 DEF Decline, LoadLogStops, Show, Unlock
    <3> QED BY <2>3, <3>4, <3>5, <3>6, <3>7, <3>8, <3>9, <3>10 DEF Step
  <2> QED BY <1>1, <2>1, <2>2, <2>3, NobodyDies DEF Acts
<1>2. ASSUME NEW p \in Procs, Acts(p) PROVE \A q \in Procs : Role(q)'
  <2>1. \A q \in Procs \ {p} : mem'[q] = mem[q] /\ pc'[q] = pc[q]
    BY <1>2, Frame
  <2> QED BY <1>1, <1>2, <2>1 DEF Role
<1>3. CASE UNCHANGED vars
  BY <1>3 DEF vars, Role
<1> QED BY <1>2, <1>3 DEF Next, Acts, Quiet

\* Lines that parse stay so, and the file is whole again after each.
LEMMA NextWhole ==
    ASSUME Sheltered, Base, Whole, [Next]_vars
    PROVE  Whole'
<1> USE NobodyAssumption DEF Base, TypeOK, PcValues
<1>1. ASSUME NEW p \in Procs, Acts(p) PROVE Whole'
  <2>1. AreLines(log.lines) /\ AreLines(mem[p].todo)
    BY DEF IsFile, IsMem
  <2>2. pc[p] \in Locked <=> lock = p
    BY DEF MutualExclusion
  <2>3. CASE TruncateLog(p)
    <3>1. log' = Content(<< >>, TRUE)
      BY <2>3 DEF TruncateLog
    <3> QED BY <3>1 DEF Whole, Readable, Content
  <2>4. CASE WriteBody(p)
    <3>1. /\ pc[p] = "write" /\ lock = p /\ pc'[p] = "newline" /\ lock' = lock
          /\ log' = PutBody(log, Head(mem[p].todo))
          /\ Head(mem[p].todo).seq # 0 /\ mem[p].todo # << >>
      BY <2>2, <2>4 DEF WriteBody, Locked
    <3>2. log.ended
      BY <3>1 DEF Whole
    <3> DEFINE e == Head(mem[p].todo)
               longer == Append(log.lines, e)
    <3>3. log'.lines = longer
      BY <3>1, <3>2 DEF PutBody, Content
    <3>4. e.seq \in Nat
      BY <2>1, <3>1, TailLines
    <3>5. /\ AreLines(longer) /\ Len(longer) = Len(log.lines) + 1
          /\ \A i \in 1..Len(log.lines) : longer[i] = log.lines[i]
          /\ longer[Len(log.lines) + 1] = e
      BY <2>1, <3>4, AppendLines
    <3>6. /\ DOMAIN longer = 1..(Len(log.lines) + 1) /\ Len(log.lines) \in Nat
          /\ DOMAIN log.lines = 1..Len(log.lines)
      BY <2>1, <3>5, LinesDomain
    <3> HIDE DEF longer
    <3>7. Readable(longer)
      BY <3>1, <3>5, <3>6 DEF Whole, Readable
    <3> QED BY <3>1, <3>3, <3>7 DEF Whole
  <2>5. CASE WriteNewline(p)
    <3>1. log'.lines = log.lines /\ log'.ended
      BY <2>5 DEF WriteNewline, PutNewline, Content
    <3> QED BY <3>1 DEF Whole
  <2>6. ASSUME ~ TruncateLog(p), ~ WriteBody(p), ~ WriteNewline(p) PROVE Whole'
    <3>1. /\ log' = log
          /\ lock' # lock => lock = Nobody \/ (lock = p /\ pc[p] # "newline")
          /\ pc[p] # "newline"
      <4>1. ASSUME NEW c \in Commands, Start(p, c)
            PROVE  log' = log /\ lock' = lock /\ pc[p] # "newline"
        BY <4>1 DEF Start
      <4>2. ASSUME Step(p)
            PROVE  /\ log' = log
                   /\ lock' # lock => lock = Nobody \/ (lock = p /\ pc[p] # "newline")
                   /\ pc[p] # "newline"
        <5>1. CASE Lock(p)
          BY <5>1 DEF Lock, WaitsForLock, TakeLock
        <5>2. CASE Decline(p) \/ Accept(p) \/ Unlock(p)
          BY <2>2, <5>2 DEF Decline, Accept, Unlock, Locked
        <5>3. CASE LoadBaseline(p) \/ LoadLogStops(p) \/ LoadLogToRead(p) \/ Show(p)
          BY <5>3 DEF LoadBaseline, LoadLogStops, LoadLogToRead, Show
        <5>4. CASE LoadLogToCompact(p) \/ LoadLogToResolve(p) \/ Reload(p)
          BY <5>4 DEF LoadLogToCompact, LoadLogToResolve, Reload
        <5>5. CASE TruncateBaseline(p) \/ WriteBaselineTask(p) \/ SkipLine(p)
          BY <5>5 DEF TruncateBaseline, WriteBaselineTask, SkipLine
        <5> QED BY <2>6, <4>2, <5>1, <5>2, <5>3, <5>4, <5>5 DEF Step
      <4> QED BY <1>1, <4>1, <4>2, NobodyDies DEF Acts
    <3>2. \A q \in Procs \ {p} : pc'[q] = pc[q]
      BY <1>1, Frame
    <3> QED BY <3>1, <3>2 DEF Whole
  <2> QED BY <2>3, <2>4, <2>5, <2>6
<1>2. CASE UNCHANGED vars
  BY <1>2 DEF vars, Whole
<1> QED BY <1>1, <1>2 DEF Next, Acts, Quiet

----------------------------------------------------------------------------
(* Logs and plans.                                                         *)

LEMMA LinesAreSeq == \A s : AreLines(s) => IsSeq(s)
BY DEF AreLines, IsSeq

\* Nothing to leave out of a log that parses.
LEMMA ParsedWhole ==
    ASSUME NEW s, AreLines(s), Readable(s)
    PROVE  Parsed(s) = s
<1>1. \A i \in 1..Len(s) : s[i].seq \notin {0}
  BY LinesDomain DEF Readable
<1> QED BY <1>1, LinesAreSeq, DropNone DEF Parsed

\* Lines in order have different seqs.
LEMMA OrderedDistinct ==
    ASSUME NEW s, AreLines(s), Readable(s), Ordered(s)
    PROVE  /\ DistinctSeqs(s)
           /\ \A i, j \in 1..Len(s) : i < j => s[i].seq < s[j].seq
           /\ \A i \in 1..Len(s) : s[i].seq # 0
<1>1. /\ Len(s) \in Nat /\ DOMAIN s = 1..Len(s)
      /\ \A i \in 1..Len(s) : s[i].seq \in Nat
  BY LinesDomain
<1>2. \A i, j \in 1..Len(s) : i < j => s[i].seq < s[j].seq
  BY <1>1 DEF Readable, Ordered
<1>3. \A i, j \in 1..Len(s) : s[i].seq = s[j].seq => i = j
  <2> TAKE i \in 1..Len(s), j \in 1..Len(s)
  <2>1. i < j \/ j < i \/ i = j
    OBVIOUS
  <2> QED BY <1>1, <1>2, <2>1
<1> QED BY <1>1, <1>2, <1>3 DEF DistinctSeqs, Readable

\* The plan of compact: what it folds and what it keeps make the same state.
LEMMA CompactPlan ==
    ASSUME NEW lines, AreLines(lines), Readable(lines), Ordered(lines),
           NEW base, NEW split \in 0..Len(lines),
           NEW folded, folded = Materialize(base, SubSeq(lines, 1, split)),
           NEW seqs, \A x : x \in seqs <=> x = 0 \/ \E i \in 1..split : x = lines[i].seq
    PROVE  Materialize(folded, DropSeqs(lines, seqs)) = Materialize(base, lines)
<1> DEFINE n == Len(lines)
<1>1. IsSeq(lines) /\ n \in Nat /\ SubSeq(lines, 1, n) = lines
  BY LinesAreSeq, SeqBasics, WholePrefix
<1>2. PICK f : IsRun(f, base, lines) /\ Materialize(base, lines) = f[n]
  BY <1>1, MaterializeIsRun
<1>3. folded = f[split]
  BY <1>1, <1>2, RunStates
<1>4. ASSUME NEW i \in 1..n PROVE lines[i].seq \in seqs <=> i <= split
  <2>1. lines[i].seq \in seqs <=> \E j \in 1..split : lines[i].seq = lines[j].seq
    BY OrderedDistinct
  <2>2. \A j \in 1..split : j \in 1..n
    BY <1>1
  <2>3. (\E j \in 1..split : lines[i].seq = lines[j].seq) <=> i \in 1..split
    BY <2>2, OrderedDistinct DEF DistinctSeqs
  <2> QED BY <1>1, <2>1, <2>3
<1>5. /\ IsSeq(lines) /\ IsRun(f, base, lines) /\ split \in 0..Len(lines)
      /\ \A i \in 1..Len(lines) :
            IF i <= split THEN lines[i].seq \in seqs
            ELSE lines[i].seq \in seqs => f[i] = f[i - 1]
  BY <1>1, <1>2, <1>4
<1>6. \A k \in split..Len(lines) :
          Materialize(f[split], DropSeqs(SubSeq(lines, 1, k), seqs)) = f[k]
  BY ONLY <1>5, DropKeepsState
<1>7. n \in split..n
  BY <1>1
<1> QED BY <1>1, <1>2, <1>3, <1>6, <1>7

\* The plan of resolve.
LEMMA ResolvePlan ==
    ASSUME NEW lines, AreLines(lines), Readable(lines), Ordered(lines), NEW base
    PROVE  Materialize(base, DropSeqs(lines, Orphans(base, lines) \cup {0}))
               = Materialize(base, lines)
<1>1. IsSeq(lines) /\ DistinctSeqs(lines)
  BY LinesAreSeq, OrderedDistinct
<1>2. DropSeqs(lines, Orphans(base, lines) \cup {0}) = DropSeqs(lines, Orphans(base, lines))
  <2>1. \A i \in 1..Len(lines) : lines[i].seq \in Orphans(base, lines) \cup {0}
                                   <=> lines[i].seq \in Orphans(base, lines)
    BY OrderedDistinct
  <2> QED BY <1>1, <2>1, DropSame
<1> QED BY <1>1, <1>2, DroppingOrphansChangesNothing

\* The lines still to write, one written.
LEMMA RestTail ==
    ASSUME NEW s, IsSeq(s), NEW k \in 0..Len(s), SubSeq(s, k + 1, Len(s)) # << >>
    PROVE  /\ k + 1 \in 1..Len(s)
           /\ Head(SubSeq(s, k + 1, Len(s))) = s[k + 1]
           /\ Tail(SubSeq(s, k + 1, Len(s))) = SubSeq(s, (k + 1) + 1, Len(s))
<1>1. PICK S : s \in Seq(S)
  BY DEF IsSeq
<1> DEFINE n == Len(s)
           t == SubSeq(s, k + 1, n)
<1>2. n \in Nat /\ k \in Nat /\ k <= n
  BY SeqBasics
<1>3. t \in Seq(S) /\ Len(t) = n - k /\ \A i \in 1..(n - k) : t[i] = s[k + i]
  BY <1>1, <1>2
<1>4. k < n
  <2>1. k = n => t = << >>
    BY <1>1, <1>2
  <2> QED BY <1>2, <2>1
<1>5. Head(t) = s[k + 1]
  BY <1>2, <1>3, <1>4
<1> DEFINE u == SubSeq(s, (k + 1) + 1, n)
<1>6. u \in Seq(S) /\ Len(u) = n - k - 1 /\ \A i \in 1..(n - k - 1) : u[i] = s[(k + 1) + i]
  BY <1>1, <1>2, <1>4
<1>7. Tail(t) \in Seq(S) /\ Len(Tail(t)) = n - k - 1
      /\ \A i \in 1..(n - k - 1) : Tail(t)[i] = t[i + 1]
  BY <1>2, <1>3, <1>4
<1> HIDE DEF t, u
<1>8. \A i \in 1..(n - k - 1) : Tail(t)[i] = u[i]
  <2> TAKE i \in 1..(n - k - 1)
  <2>1. i + 1 \in 1..(n - k) /\ k + (i + 1) = (k + 1) + i
    BY <1>2
  <2> QED BY <1>3, <1>6, <1>7, <2>1
<1>9. Tail(t) = u
  BY <1>6, <1>7, <1>8, SameElements DEF IsSeq
<1> QED BY <1>2, <1>4, <1>5, <1>9 DEF t, u

----------------------------------------------------------------------------
(* What each process knows.                                                *)

\* What is to be left in the log a process has read.
Left(p) == DropSeqs(mem[p].seen.lines, mem[p].drop \cup {0})

\* A writer leaves in the log what it has read, and after it what the gate made of
\* its command in the state that leads to.
Accepted(p) ==
    IsWriter(mem[p].cmd) /\ pc[p] \in Writing =>
        LET lines  == mem[p].seen.lines
            drafts == Build(mem[p].cmd, Materialize(mem[p].base, lines), PayloadFields(lines)).out
        IN  /\ AreLines(lines) /\ Readable(lines) /\ Ordered(lines)
            /\ drafts # << >>
            /\ mem[p].goal = lines \o Minted(lines, drafts)

\* While nothing has been decided, what maintenance has read is what is on file.
Loaded(p) ==
    IsMaintenance(mem[p].cmd) =>
        /\ pc[p] \in {"loadLog", "reload"} => mem[p].base = baseline
        /\ pc[p] = "reload" => mem[p].drop = Orphans(mem[p].base, Parsed(log.lines))

\* The plan of compact and resolve makes the state of the files they read.
Planned(p) ==
    IsMaintenance(mem[p].cmd) =>
        /\ pc[p] \in {"lock", "swap", "truncate", "writeBaseline"} =>
              mem[p].seen = log /\ mem[p].todo = log.lines
        /\ pc[p] \in {"lock", "swap", "truncate"} =>
              Materialize(mem[p].base, Left(p)) = Materialize(baseline, log.lines)
        /\ mem[p].cmd.cmd = "resolve" /\ pc[p] \in {"lock", "truncate"} =>
              mem[p].base = baseline
        /\ pc[p] = "writeBaseline" =>
              \A id \in DOMAIN baseline :
                  id \in DOMAIN mem[p].base /\ baseline[id] = mem[p].base[id]

\* So much of the plan has been carried out.
Rewriting(p) ==
    IsMaintenance(mem[p].cmd) /\ pc[p] \in Writing =>
        LET lines == mem[p].seen.lines
        IN  /\ baseline = mem[p].base
            /\ IsSeq(lines)
            /\ \E k \in 0..Len(lines) :
                  /\ mem[p].todo = SubSeq(lines, k + 1, Len(lines))
                  /\ log.lines = DropSeqs(SubSeq(lines, 1, k), mem[p].drop \cup {0})

Data(p) == IsFcn(mem[p].base) /\ Accepted(p) /\ Loaded(p) /\ Planned(p) /\ Rewriting(p)

Inv ==
    /\ Base
    /\ Alone
    /\ Whole
    /\ IsFcn(baseline)
    /\ \A p \in Procs : Role(p)
    /\ \A p \in Procs : Data(p)

\* Whose steps these are.
LEMMA WhoIsThere ==
    ASSUME NEW p, Role(p), pc[p] # "idle"
    PROVE  /\ IsWriter(mem[p].cmd) \/ IsMaintenance(mem[p].cmd) \/ mem[p].cmd.cmd = "read"
           /\ ~ (IsWriter(mem[p].cmd) /\ IsMaintenance(mem[p].cmd))
           /\ mem[p].cmd.cmd = "read" => ~ IsWriter(mem[p].cmd) /\ ~ IsMaintenance(mem[p].cmd)
           /\ pc[p] = "vet" => IsWriter(mem[p].cmd)
           /\ pc[p] \in {"swap", "writeBaseline"} => mem[p].cmd.cmd = "compact"
           /\ pc[p] \in {"reload", "truncate"} => mem[p].cmd.cmd = "resolve"
           /\ pc[p] \in Writing => mem[p].cmd.cmd # "read"
<1>1. IsCommand(mem[p].cmd)
  BY CommandsAssumption DEF Role
<1>2. /\ IsWriter(mem[p].cmd) \/ IsMaintenance(mem[p].cmd) \/ mem[p].cmd.cmd = "read"
      /\ ~ (IsWriter(mem[p].cmd) /\ IsMaintenance(mem[p].cmd))
      /\ mem[p].cmd.cmd = "read" => ~ IsWriter(mem[p].cmd) /\ ~ IsMaintenance(mem[p].cmd)
  BY <1>1, Kinds
<1>3. IsMaintenance(mem[p].cmd) <=> mem[p].cmd.cmd \in {"compact", "resolve"}
  BY DEF IsMaintenance
<1> QED BY <1>2, <1>3 DEF Role, Writing

\* What the gate makes of a command.
LEMMA VerdictIs ==
    ASSUME NEW p
    PROVE  Verdict(p) = Build(mem[p].cmd, Materialize(baseline, log.lines),
                              PayloadFields(log.lines))
<1> DEFINE state == Materialize(baseline, log.lines)
           F(s) == Build(mem[p].cmd, s, PayloadFields(log.lines))
<1>1. Verdict(p) = CHOOSE v \in {F(s) : s \in {state}} : TRUE
  BY DEF Verdict
<1> HIDE DEF F
<1>2. {F(s) : s \in {state}} = {F(state)}
  OBVIOUS
<1>3. Verdict(p) = F(state)
  BY <1>1, <1>2
<1> QED BY <1>3 DEF F

\* What a process holds that has read the files.
LEMMA Held ==
    ASSUME NEW m, NEW base, NEW seen, NEW todo, NEW drop, NEW goal, NEW h,
           h = Holding(m, base, seen, todo, drop, goal)
    PROVE  /\ h.cmd = m.cmd /\ h.base = base /\ h.seen = seen /\ h.todo = todo
           /\ h.drop = drop /\ h.goal = goal /\ h.since = m.since
BY DEF Holding

LEMMA NothingIsFcn == IsFcn(<< >>)
BY DEF IsFcn

\* Beginning and ending.
LEMMA EndsData ==
    ASSUME TypeOK, NEW p \in Procs, Finish(p) \/ \E c \in Commands : Start(p, c)
    PROVE  Data(p)'
<1>1. CASE Finish(p)
  <2>1. pc'[p] = "idle" /\ mem'[p] = Fresh
    BY <1>1, Finished
  <2>2. mem'[p].cmd = NoCommand /\ mem'[p].base = << >>
    BY <2>1 DEF Fresh, Begun
  <2>3. ~ IsWriter(mem'[p].cmd) /\ ~ IsMaintenance(mem'[p].cmd)
    BY <2>2, NoKind
  <2> QED BY <2>1, <2>2, <2>3, NothingIsFcn DEF Data, Accepted, Loaded, Planned, Rewriting, IsFcn
<1>2. ASSUME NEW c \in Commands, Start(p, c) PROVE Data(p)'
  <2>1. /\ mem'[p].cmd = c /\ mem'[p].base = << >>
        /\ pc'[p] = IF IsWriter(c) THEN "lock" ELSE "loadBaseline"
    BY <1>2 DEF TypeOK, Start, Begun
  <2>2. ~ (IsWriter(c) /\ IsMaintenance(c))
    BY CommandsAssumption, Kinds
  <2> QED BY <2>1, <2>2, NothingIsFcn
          DEF Data, Accepted, Loaded, Planned, Rewriting, IsFcn, Writing
<1> QED BY <1>1, <1>2

\* A writer's batch is accepted in the state of the files it has read.
LEMMA AcceptData ==
    ASSUME Inv, NEW p \in Procs, Accept(p)
    PROVE  Data(p)'
<1> USE DEF Inv, Base, TypeOK, Role
<1>1. /\ pc[p] = "vet" /\ pc'[p] = "write" /\ log' = log /\ baseline' = baseline
      /\ Readable(log.lines) /\ Ordered(log.lines)
  BY DEF Accept
<1>2. IsWriter(mem[p].cmd) /\ ~ IsMaintenance(mem[p].cmd)
  BY <1>1, WhoIsThere
<1>3. AreLines(log.lines)
  BY DEF IsFile
<1>4. log.ended
  <2>1. lock = p
    BY <1>1 DEF MutualExclusion, Locked
  <2> QED BY <1>1, <2>1 DEF Whole
<1> DEFINE drafts == Build(mem[p].cmd, Materialize(baseline, log.lines), PayloadFields(log.lines)).out
           batch  == Minted(log.lines, drafts)
           goal   == WithAppended(log, batch)
<1>5. Verdict(p).out = drafts
  BY VerdictIs
<1> HIDE DEF drafts
<1>6. /\ Len(drafts) \in 1..MaxBatch
      /\ mem'[p] = Holding(mem[p], baseline, log, batch, {}, goal)
  BY <1>5 DEF Accept
<1>7. drafts # << >>
  BY <1>6, SeqEmpty
<1>8. goal = log.lines \o batch
  BY <1>4 DEF WithAppended
<1> HIDE DEF goal
<1>9. /\ mem'[p].cmd = mem[p].cmd /\ mem'[p].base = baseline /\ mem'[p].seen = log
      /\ mem'[p].goal = goal
  BY ONLY <1>6, Held
<1>10. /\ mem'[p].goal = mem'[p].seen.lines \o Minted(mem'[p].seen.lines, drafts)
       /\ drafts = Build(mem'[p].cmd, Materialize(mem'[p].base, mem'[p].seen.lines),
                         PayloadFields(mem'[p].seen.lines)).out
  BY <1>8, <1>9 DEF drafts
<1> HIDE DEF batch
<1>11. Accepted(p)'
  <2>1. /\ AreLines(mem'[p].seen.lines) /\ Readable(mem'[p].seen.lines)
        /\ Ordered(mem'[p].seen.lines)
    BY <1>1, <1>3, <1>9
  <2> QED BY <1>7, <1>10, <2>1 DEF Accepted
<1>12. Loaded(p)' /\ Planned(p)' /\ Rewriting(p)'
  BY <1>1, <1>2, <1>9 DEF Loaded, Planned, Rewriting
<1>13. IsFcn(mem[p].base)' 
  BY <1>9 DEF IsFcn
<1> QED BY <1>11, <1>12, <1>13 DEF Data

\* Readers, and what compact and resolve read without the lock.
LEMMA LoadData ==
    ASSUME Inv, NEW p \in Procs,
           LoadBaseline(p) \/ LoadLogToRead(p) \/ LoadLogToResolve(p)
    PROVE  Data(p)'
<1> USE DEF Inv, Base, TypeOK, Role
<1>1. ~ IsWriter(mem[p].cmd) /\ log' = log /\ baseline' = baseline
  BY DEF LoadBaseline, LoadLogToRead, LoadLogToResolve, Writing
<1>2. CASE LoadBaseline(p)
  <2>1. mem'[p].cmd = mem[p].cmd /\ mem'[p].base = baseline /\ pc'[p] = "loadLog"
    BY <1>2 DEF LoadBaseline, IsMem
  <2>2. IsFcn(mem'[p].base)
    BY <2>1 DEF IsFcn
  <2>3. ~ IsWriter(mem'[p].cmd)
    BY <1>1, <2>1
  <2>4. Accepted(p)' /\ Loaded(p)'
    BY <1>1, <2>1, <2>3 DEF Accepted, Loaded
  <2>5. Planned(p)' /\ Rewriting(p)'
    BY <2>1 DEF Planned, Rewriting, Writing
  <2> QED BY <2>2, <2>4, <2>5 DEF Data
<1>3. CASE LoadLogToRead(p)
  <2>1. mem'[p].cmd = mem[p].cmd /\ mem'[p].base = mem[p].base /\ pc'[p] = "show"
    BY <1>3 DEF LoadLogToRead, IsMem
  <2> QED BY <1>1, <2>1 DEF Data, Accepted, Loaded, Planned, Rewriting, Writing, IsFcn
<1>4. CASE LoadLogToResolve(p)
  <2>1. /\ mem'[p].cmd = mem[p].cmd /\ mem'[p].base = mem[p].base
        /\ mem'[p].drop = Orphans(mem[p].base, Parsed(log.lines))
        /\ pc[p] = "loadLog" /\ pc'[p] = "reload"
    BY <1>4 DEF LoadLogToResolve, IsMem
  <2>2. mem[p].base = baseline
    BY <1>4, <2>1 DEF Data, Loaded, LoadLogToResolve, IsMaintenance
  <2> QED BY <1>1, <2>1, <2>2 DEF Data, Accepted, Loaded, Planned, Rewriting, Writing, IsFcn
<1> QED BY <1>2, <1>3, <1>4

\* The plan of compact.
LEMMA CompactData ==
    ASSUME Inv, NEW p \in Procs, LoadLogToCompact(p)
    PROVE  Data(p)'
<1> USE DEF Inv, Base, TypeOK, Role
<1> DEFINE lines  == log.lines
           events == Parsed(lines)
           split  == RetentionSplit(events, KeepEvents, 0, 0)
           start  == SubSeq(events, 1, split)
           folded == Materialize(mem[p].base, start)
           drop   == {start[i].seq : i \in DOMAIN start}
           seqs   == drop \cup {0}
<1>1. /\ pc[p] = "loadLog" /\ mem[p].cmd.cmd = "compact" /\ Ordered(lines)
      /\ mem'[p] = Holding(mem[p], folded, log, lines, drop, << >>)
      /\ pc'[p] = "lock" /\ log' = log /\ baseline' = baseline
  BY DEF LoadLogToCompact
<1>2. AreLines(lines) /\ Readable(lines)
  BY DEF IsFile, Whole
<1>3. events = lines /\ IsSeq(lines)
  BY <1>2, ParsedWhole, LinesAreSeq
<1>4. mem[p].base = baseline
  BY <1>1 DEF Data, Loaded, IsMaintenance
<1>5. split \in 0..Len(lines)
  BY <1>3, SplitIsInLog, StoreAssumption
<1> HIDE DEF split, events
<1>6. /\ IsSeq(start) /\ start = SubSeq(lines, 1, split)
      /\ Len(start) = split /\ \A i \in 1..split : start[i] = lines[i]
  BY <1>3, <1>5, SeqPrefix
<1> HIDE DEF start
<1>7. IsFcn(folded) /\ DOMAIN start = 1..split
  BY <1>4, <1>6, MaterializeKeepsFcn, SeqBasics
<1>8. folded = Materialize(baseline, SubSeq(lines, 1, split))
  BY <1>4, <1>6
<1>9. \A x : x \in seqs <=> x = 0 \/ \E i \in 1..split : x = lines[i].seq
  BY <1>6, <1>7, ZenonT(60)
<1>10. seqs = drop \cup {0} /\ lines = log.lines
  OBVIOUS
<1> HIDE DEF folded, drop, seqs, lines
<1>11. Materialize(folded, DropSeqs(lines, seqs)) = Materialize(baseline, lines)
  BY ONLY <1>1, <1>2, <1>5, <1>8, <1>9, CompactPlan
<1>12. /\ mem'[p].cmd = mem[p].cmd /\ mem'[p].base = folded
       /\ mem'[p].seen = log /\ mem'[p].todo = lines /\ mem'[p].drop = drop
  BY ONLY <1>1, Held
<1>13. Planned(p)'
  BY <1>1, <1>10, <1>11, <1>12 DEF Planned, Left
<1>14. IsFcn(mem[p].base)'
  BY <1>7, <1>12 DEF IsFcn
<1>15. Accepted(p)' /\ Loaded(p)' /\ Rewriting(p)'
  BY <1>1 DEF Accepted, Loaded, Rewriting, Writing
<1> QED BY <1>13, <1>14, <1>15 DEF Data

\* The plan of resolve.
LEMMA ReloadData ==
    ASSUME Inv, NEW p \in Procs, Reload(p)
    PROVE  Data(p)'
<1> USE DEF Inv, Base, TypeOK, Role
<1>1. CASE Finish(p)
  BY <1>1, EndsData
<1>2. CASE ~ Finish(p)
  <2>1. /\ pc[p] = "reload" /\ pc'[p] = "lock" /\ Ordered(log.lines)
        /\ mem'[p] = Holding(mem[p], mem[p].base, log, log.lines, mem[p].drop, << >>)
        /\ log' = log /\ baseline' = baseline
    BY <1>2 DEF Reload
  <2>2. AreLines(log.lines) /\ Readable(log.lines)
    BY DEF IsFile, Whole
  <2>3. /\ mem[p].base = baseline /\ mem[p].drop = Orphans(baseline, log.lines)
    <3>1. IsMaintenance(mem[p].cmd)
      BY <2>1, WhoIsThere DEF IsMaintenance
    <3> QED BY <2>1, <2>2, <3>1, ParsedWhole DEF Data, Loaded
  <2>4. /\ mem'[p].cmd = mem[p].cmd /\ mem'[p].base = baseline /\ mem'[p].seen = log
        /\ mem'[p].todo = log.lines /\ mem'[p].drop = Orphans(baseline, log.lines)
    BY ONLY <2>1, <2>3, Held
  <2>5. Materialize(baseline, DropSeqs(log.lines, Orphans(baseline, log.lines) \cup {0}))
            = Materialize(baseline, log.lines)
    BY <2>1, <2>2, ResolvePlan
  <2>6. Planned(p)'
    BY <2>1, <2>4, <2>5 DEF Planned, Left
  <2>7. IsFcn(mem[p].base)'
    BY <2>4 DEF IsFcn
  <2>8. Accepted(p)' /\ Loaded(p)' /\ Rewriting(p)'
    BY <2>1 DEF Accepted, Loaded, Rewriting, Writing
  <2> QED BY <2>6, <2>7, <2>8 DEF Data
<1> QED BY <1>1, <1>2

\* Overwriting the baseline.
LEMMA SwapData ==
    ASSUME Inv, NEW p \in Procs, TruncateBaseline(p) \/ WriteBaselineTask(p)
    PROVE  Data(p)' /\ IsFcn(baseline')
<1>1. Data(p) /\ IsFcn(baseline) /\ Role(p) /\ pc \in [Procs -> PcValues]
  BY DEF Inv, Base, TypeOK
<1>2. /\ mem' = mem /\ log' = log /\ pc'[p] = "writeBaseline"
      /\ pc[p] \in {"swap", "writeBaseline"}
  BY <1>1 DEF TruncateBaseline, WriteBaselineTask
<1>3. mem[p].cmd.cmd = "compact" /\ IsMaintenance(mem[p].cmd)
  BY <1>1, <1>2, WhoIsThere DEF IsMaintenance
<1>4. mem[p].seen = log /\ mem[p].todo = log.lines
  BY <1>1, <1>2, <1>3 DEF Data, Planned
<1> DEFINE Sofar(b) == \A id \in DOMAIN b : id \in DOMAIN mem[p].base /\ b[id] = mem[p].base[id]
<1>5. IsFcn(baseline') /\ Sofar(baseline')
  <2>1. CASE TruncateBaseline(p)
    <3>1. baseline' = << >>
      BY <2>1 DEF TruncateBaseline
    <3> QED BY <3>1, NothingIsFcn
  <2>2. CASE WriteBaselineTask(p)
    <3>1. PICK id \in DOMAIN mem[p].base : baseline' = Put(baseline, id, mem[p].base[id])
      BY <2>2 DEF WriteBaselineTask
    <3>2. pc[p] = "writeBaseline"
      BY <2>2 DEF WriteBaselineTask
    <3>3. Sofar(baseline)
      BY <1>1, <1>3, <3>2 DEF Data, Planned
    <3>4. IsFcn(Put(baseline, id, mem[p].base[id]))
      BY DEF IsFcn, Put
    <3>5. Sofar(Put(baseline, id, mem[p].base[id]))
      BY <3>3 DEF Put
    <3> HIDE DEF Sofar
    <3> QED BY <3>1, <3>4, <3>5
  <2> QED BY <2>1, <2>2
<1>6. Planned(p)'
  BY <1>2, <1>3, <1>4, <1>5 DEF Planned
<1>7. IsFcn(mem[p].base)'
  BY <1>1, <1>2 DEF Data, IsFcn
<1>8. Accepted(p)' /\ Loaded(p)' /\ Rewriting(p)'
  BY <1>2 DEF Accepted, Loaded, Rewriting, Writing
<1> QED BY <1>5, <1>6, <1>7, <1>8 DEF Data

\* Emptying the log.
LEMMA TruncateData ==
    ASSUME Inv, NEW p \in Procs, TruncateLog(p)
    PROVE  Data(p)'
<1>1. Data(p) /\ IsFcn(baseline) /\ Role(p) /\ pc \in [Procs -> PcValues] /\ AreLines(log.lines)
  BY DEF Inv, Base, TypeOK, IsFile
<1>2. /\ mem' = mem /\ baseline' = baseline /\ pc'[p] = "write" /\ log'.lines = << >>
      /\ pc[p] \in {"truncate", "writeBaseline"}
      /\ pc[p] = "writeBaseline" => DOMAIN mem[p].base = DOMAIN baseline
  BY <1>1 DEF TruncateLog, Content
<1>3. /\ IsMaintenance(mem[p].cmd) /\ ~ IsWriter(mem[p].cmd)
      /\ pc[p] = "truncate" => mem[p].cmd.cmd = "resolve"
  BY <1>1, <1>2, WhoIsThere DEF IsMaintenance
<1>4. mem[p].seen = log /\ mem[p].todo = log.lines
  BY <1>1, <1>2, <1>3 DEF Data, Planned
<1>5. baseline = mem[p].base
  <2>1. CASE pc[p] = "truncate"
    BY <1>1, <1>3, <2>1 DEF Data, Planned
  <2>2. CASE pc[p] = "writeBaseline"
    <3>1. /\ DOMAIN mem[p].base = DOMAIN baseline
          /\ \A id \in DOMAIN baseline : baseline[id] = mem[p].base[id]
      BY <1>1, <1>2, <1>3, <2>2 DEF Data, Planned
    <3>2. IsFcn(baseline) /\ IsFcn(mem[p].base)
      BY <1>1 DEF Data
    <3> QED BY <3>1, <3>2 DEF IsFcn
  <2> QED BY <1>2, <2>1, <2>2
<1> DEFINE lines == log.lines
           seqs  == mem[p].drop \cup {0}
<1>6. IsSeq(lines) /\ 0 \in 0..Len(lines) /\ SubSeq(lines, 0 + 1, Len(lines)) = lines
  BY <1>1, LinesAreSeq, SeqBasics, WholePrefix
<1>7. DropSeqs(SubSeq(lines, 1, 0), seqs) = << >>
  BY <1>6, DropIsSeq
<1>8. \E k \in 0..Len(lines) :
         /\ mem[p].todo = SubSeq(lines, k + 1, Len(lines))
         /\ log'.lines = DropSeqs(SubSeq(lines, 1, k), seqs)
  <2> HIDE DEF seqs
  <2> QED BY <1>2, <1>4, <1>6, <1>7
<1>9. Rewriting(p)'
  BY <1>2, <1>4, <1>5, <1>6, <1>8 DEF Rewriting
<1>10. IsFcn(mem[p].base)'
  BY <1>1, <1>2 DEF Data, IsFcn
<1>11. Accepted(p)' /\ Loaded(p)' /\ Planned(p)'
  BY <1>2, <1>3 DEF Accepted, Loaded, Planned
<1> QED BY <1>9, <1>10, <1>11 DEF Data

\* One line further in the log to be left.
LEMMA LineData ==
    ASSUME Inv, NEW p \in Procs, SkipLine(p) \/ WriteBody(p)
    PROVE  Data(p)'
<1>1. Data(p) /\ Role(p) /\ pc \in [Procs -> PcValues] /\ DOMAIN mem = Procs /\ IsMem(mem[p])
  BY DEF Inv, Base, TypeOK
<1>2. /\ mem' = [mem EXCEPT ![p].todo = Tail(@)]
      /\ baseline' = baseline /\ pc[p] = "write" /\ pc'[p] \in Writing
      /\ mem[p].todo # << >>
      /\ IF Head(mem[p].todo).seq \in mem[p].drop \cup {0} THEN log' = log
         ELSE log' = PutBody(log, Head(mem[p].todo))
  BY <1>1 DEF SkipLine, WriteBody, Writing
<1>3. /\ mem'[p].cmd = mem[p].cmd /\ mem'[p].base = mem[p].base /\ mem'[p].seen = mem[p].seen
      /\ mem'[p].goal = mem[p].goal /\ mem'[p].drop = mem[p].drop
      /\ mem'[p].todo = Tail(mem[p].todo)
  BY <1>1, <1>2 DEF IsMem
<1>4. Accepted(p)' /\ Loaded(p)' /\ Planned(p)'
  BY <1>1, <1>2, <1>3 DEF Data, Accepted, Loaded, Planned, Writing
<1>5. log.ended
  <2>1. lock = p
    BY <1>2 DEF Inv, Base, MutualExclusion, Locked
  <2> QED BY <1>2, <2>1 DEF Inv, Whole
<1>6. ASSUME IsMaintenance(mem[p].cmd)
      PROVE  LET lines == mem[p].seen.lines
             IN  /\ baseline' = mem[p].base
                 /\ IsSeq(lines)
                 /\ \E k \in 0..Len(lines) :
                       /\ Tail(mem[p].todo) = SubSeq(lines, k + 1, Len(lines))
                       /\ log'.lines = DropSeqs(SubSeq(lines, 1, k), mem[p].drop \cup {0})
  <2> DEFINE lines == mem[p].seen.lines
             seqs  == mem[p].drop \cup {0}
             todo  == mem[p].todo
  <2>1. baseline = mem[p].base /\ IsSeq(lines)
    BY <1>1, <1>2, <1>6 DEF Data, Rewriting, Writing
  <2>2. PICK k \in 0..Len(lines) : /\ todo = SubSeq(lines, k + 1, Len(lines))
                                   /\ log.lines = DropSeqs(SubSeq(lines, 1, k), seqs)
    BY <1>1, <1>2, <1>6 DEF Data, Rewriting, Writing
  <2>3. IF Head(todo).seq \in seqs THEN log'.lines = log.lines
        ELSE log'.lines = Append(log.lines, Head(todo))
    BY <1>2, <1>5 DEF PutBody, Content
  <2>4. todo # << >>
    BY <1>2
  <2> HIDE DEF lines, seqs, todo
  <2>5. /\ k + 1 \in 1..Len(lines) /\ Head(todo) = lines[k + 1]
        /\ Tail(todo) = SubSeq(lines, (k + 1) + 1, Len(lines))
    BY <2>1, <2>2, <2>4, RestTail
  <2>6. (k + 1) - 1 = k /\ k + 1 \in 0..Len(lines)
    BY <2>1, <2>5, SeqBasics
  <2>7. DropSeqs(SubSeq(lines, 1, k + 1), seqs) =
            IF lines[k + 1].seq \in seqs THEN DropSeqs(SubSeq(lines, 1, k), seqs)
            ELSE Append(DropSeqs(SubSeq(lines, 1, k), seqs), lines[k + 1])
    <3>1. ASSUME NEW j, j = k + 1
          PROVE  DropSeqs(SubSeq(lines, 1, j), seqs) =
                     IF lines[j].seq \in seqs THEN DropSeqs(SubSeq(lines, 1, j - 1), seqs)
                     ELSE Append(DropSeqs(SubSeq(lines, 1, j - 1), seqs), lines[j])
      BY <2>1, <2>5, <3>1, DropStep
    <3> QED BY <2>6, <3>1
  <2>8. log'.lines = DropSeqs(SubSeq(lines, 1, k + 1), seqs)
    BY <2>2, <2>3, <2>5, <2>7
  <2>9. \E j \in 0..Len(lines) : /\ Tail(todo) = SubSeq(lines, j + 1, Len(lines))
                                 /\ log'.lines = DropSeqs(SubSeq(lines, 1, j), seqs)
    BY <2>5, <2>6, <2>8
  <2> QED BY <1>2, <2>1, <2>9 DEF lines, seqs, todo
<1>7. Rewriting(p)'
  BY <1>3, <1>6 DEF Rewriting
<1>8. IsFcn(mem[p].base)'
  BY <1>1, <1>3 DEF Data, IsFcn
<1> QED BY <1>4, <1>7, <1>8 DEF Data

\* Taking the lock, and ending a line, change nothing a process knows.
LEMMA KeepData ==
    ASSUME Inv, NEW p \in Procs, Lock(p) \/ WriteNewline(p)
    PROVE  Data(p)'
<1>1. Data(p) /\ Role(p) /\ pc \in [Procs -> PcValues]
  BY DEF Inv, Base, TypeOK
<1>2. CASE Lock(p)
  <2>1. /\ mem' = mem /\ log' = log /\ baseline' = baseline /\ pc[p] = "lock"
        /\ pc'[p] = IF IsWriter(mem[p].cmd) THEN "vet"
                    ELSE IF mem[p].cmd.cmd = "compact" THEN "swap" ELSE "truncate"
    BY <1>1, <1>2 DEF Lock, WaitsForLock, TakeLock
  <2>2. ~ (IsWriter(mem[p].cmd) /\ IsMaintenance(mem[p].cmd))
    BY <1>1, <2>1, WhoIsThere
  <2>3. IsMaintenance(mem[p].cmd) /\ mem[p].cmd.cmd # "compact" => mem[p].cmd.cmd = "resolve"
    BY DEF IsMaintenance
  <2> DEFINE m == mem[p]
  <2>4. Planned(p)'
    <3>1. ASSUME IsMaintenance(m.cmd)
          PROVE  /\ pc'[p] \in {"swap", "truncate"}
                 /\ m.seen = log /\ m.todo = log.lines
                 /\ Materialize(m.base, Left(p)) = Materialize(baseline, log.lines)
                 /\ m.cmd.cmd = "resolve" => m.base = baseline
      BY <1>1, <2>1, <2>2, <3>1 DEF Data, Planned
    <3> QED BY <2>1, <3>1 DEF Planned, Left
  <2>5. Accepted(p)' /\ Loaded(p)' /\ Rewriting(p)'
    BY <2>1 DEF Accepted, Loaded, Rewriting, Writing
  <2>6. IsFcn(mem[p].base)'
    BY <1>1, <2>1 DEF Data, IsFcn
  <2> QED BY <2>4, <2>5, <2>6 DEF Data
<1>3. CASE WriteNewline(p)
  <2>1. /\ mem' = mem /\ log'.lines = log.lines /\ baseline' = baseline
        /\ pc[p] = "newline" /\ pc'[p] = "write"
    BY <1>1, <1>3 DEF WriteNewline, PutNewline, Content
  <2>2. Accepted(p)'
    BY <1>1, <2>1 DEF Data, Accepted, Writing
  <2>3. Loaded(p)' /\ Planned(p)'
    BY <2>1 DEF Loaded, Planned
  <2>4. Rewriting(p)'
    BY <1>1, <2>1 DEF Data, Rewriting, Writing
  <2>5. IsFcn(mem[p].base)'
    BY <1>1, <2>1 DEF Data, IsFcn
  <2> QED BY <2>2, <2>3, <2>4, <2>5 DEF Data
<1> QED BY <1>2, <1>3

\* A process knows of its own steps.
LEMMA OwnData ==
    ASSUME Sheltered, Inv, NEW p \in Procs, Acts(p)
    PROVE  Data(p)'
<1>1. TypeOK
  BY DEF Inv, Base
<1>2. ASSUME NEW c \in Commands, Start(p, c) PROVE Data(p)'
  BY <1>1, <1>2, EndsData
<1>3. CASE Decline(p) \/ LoadLogStops(p) \/ Show(p) \/ Unlock(p)
  <2>1. Finish(p)
    BY <1>3 DEF Decline, LoadLogStops, Show, Unlock
  <2> QED BY <1>1, <2>1, EndsData
<1>4. CASE Lock(p) \/ WriteNewline(p)
  BY <1>4, KeepData
<1>5. CASE Accept(p)
  BY <1>5, AcceptData
<1>6. CASE LoadBaseline(p) \/ LoadLogToRead(p) \/ LoadLogToResolve(p)
  BY <1>6, LoadData
<1>7. CASE LoadLogToCompact(p) \/ Reload(p)
  BY <1>7, CompactData, ReloadData
<1>8. CASE TruncateBaseline(p) \/ WriteBaselineTask(p) \/ TruncateLog(p)
  BY <1>8, SwapData, TruncateData
<1>9. CASE SkipLine(p) \/ WriteBody(p)
  BY <1>9, LineData
<1> QED BY <1>1, <1>2, <1>3, <1>4, <1>5, <1>6, <1>7, <1>8, <1>9, NobodyDies DEF Acts, Step

\* Only compact changes the baseline.
LEMMA BaselineKept ==
    ASSUME Inv, NEW p \in Procs, Acts(p)
    PROVE  /\ IsFcn(baseline')
           /\ baseline' # baseline => IsMaintenance(mem[p].cmd)
<1>1. CASE TruncateBaseline(p) \/ WriteBaselineTask(p)
  <2>1. pc[p] \in {"swap", "writeBaseline"} /\ Role(p)
    BY <1>1 DEF Inv, TruncateBaseline, WriteBaselineTask
  <2>2. IsMaintenance(mem[p].cmd)
    BY <2>1, WhoIsThere DEF IsMaintenance
  <2> QED BY <1>1, <2>2, SwapData
<1>2. CASE ~ (TruncateBaseline(p) \/ WriteBaselineTask(p))
  <2> SUFFICES baseline' = baseline
    BY DEF Inv
  <2>1. ASSUME NEW c \in Commands, Start(p, c) PROVE baseline' = baseline
    BY <2>1 DEF Start
  <2>2. CASE Crash(p)
    BY <2>2 DEF Crash
  <2>3. CASE Lock(p) \/ Decline(p) \/ Accept(p) \/ LoadBaseline(p) \/ LoadLogStops(p)
    BY <2>3 DEF Lock, TakeLock, Decline, Accept, LoadBaseline, LoadLogStops
  <2>4. CASE LoadLogToRead(p) \/ Show(p) \/ LoadLogToCompact(p) \/ LoadLogToResolve(p) \/ Reload(p)
    BY <2>4 DEF LoadLogToRead, Show, LoadLogToCompact, LoadLogToResolve, Reload
  <2>5. CASE TruncateLog(p) \/ SkipLine(p) \/ WriteBody(p) \/ WriteNewline(p) \/ Unlock(p)
    BY <2>5 DEF TruncateLog, SkipLine, WriteBody, WriteNewline, Unlock
  <2> QED BY <1>2, <2>1, <2>2, <2>3, <2>4, <2>5 DEF Acts, Step
<1> QED BY <1>1, <1>2

\* Nobody's step upsets what another process knows.
LEMMA OthersData ==
    ASSUME Sheltered, Inv, NEW p \in Procs, Acts(p), NEW q \in Procs \ {p}
    PROVE  Data(q)'
<1>1. pc'[q] = pc[q] /\ mem'[q] = mem[q] /\ Data(q) /\ Role(q)
  BY Frame DEF Inv, Base
<1>2. CASE ~ IsMaintenance(mem[q].cmd)
  <2>1. Loaded(q)' /\ Planned(q)' /\ Rewriting(q)'
    BY <1>1, <1>2 DEF Loaded, Planned, Rewriting
  <2>2. Accepted(q)' /\ IsFcn(mem[q].base)'
    BY <1>1 DEF Data, Accepted, IsFcn
  <2> QED BY <2>1, <2>2 DEF Data
<1>3. CASE IsMaintenance(mem[q].cmd)
  <2>1. log' = log /\ baseline' = baseline
    BY <1>3, ReadersBeside DEF Inv, Base
  <2>2. Accepted(q)' /\ Loaded(q)' /\ IsFcn(mem[q].base)'
    BY <1>1, <2>1 DEF Data, Accepted, Loaded, IsFcn
  <2>3. Planned(q)' /\ Rewriting(q)'
    BY <1>1, <2>1 DEF Data, Planned, Rewriting, Left
  <2> QED BY <2>2, <2>3 DEF Data
<1> QED BY <1>2, <1>3

\* All of it holds at every moment.
LEMMA InvNext ==
    ASSUME Sheltered, Inv, Base', [Next]_vars
    PROVE  Inv'
<1>1. Alone' /\ Whole' /\ \A p \in Procs : Role(p)'
  BY NextAlone, NextWhole, NextRole DEF Inv, Base
<1>2. ASSUME NEW p \in Procs, Acts(p)
      PROVE  IsFcn(baseline') /\ \A q \in Procs : Data(q)'
  BY <1>2, OwnData, OthersData, BaselineKept
<1>3. ASSUME UNCHANGED vars
      PROVE  IsFcn(baseline') /\ \A q \in Procs : Data(q)'
  <2>1. log' = log /\ baseline' = baseline /\ pc' = pc /\ mem' = mem
    BY <1>3 DEF vars
  <2>2. ASSUME NEW q \in Procs PROVE Data(q)'
    <3>1. Data(q)
      BY DEF Inv
    <3>2. Accepted(q)' /\ Loaded(q)' /\ IsFcn(mem[q].base)'
      BY <2>1, <3>1 DEF Data, Accepted, Loaded, IsFcn
    <3>3. Planned(q)' /\ Rewriting(q)'
      BY <2>1, <3>1 DEF Data, Planned, Rewriting, Left
    <3> QED BY <3>2, <3>3 DEF Data
  <2> QED BY <2>1, <2>2 DEF Inv
<1>4. IsFcn(baseline') /\ \A p \in Procs : Data(p)'
  BY <1>2, <1>3 DEF Next, Acts, Quiet, Inv
<1>5. IsFcn(baseline)'
  BY <1>4 DEF IsFcn
<1> QED BY <1>1, <1>4, <1>5 DEF Inv

LEMMA InvInit ==
    ASSUME Init, Base
    PROVE  Inv
<1>1. /\ log.lines = Genesis /\ log.ended /\ baseline = << >>
      /\ \A p \in Procs : pc[p] = "idle" /\ mem[p] = Fresh
  BY DEF Init, Content
<1>2. \A p \in Procs : mem[p].cmd = NoCommand /\ mem[p].base = << >>
  BY <1>1 DEF Fresh, Begun
<1>3. Alone /\ Whole
  BY <1>1, <1>2, NoKind, GenesisAssumption DEF Alone, Whole
<1>4. IsFcn(baseline)
  BY <1>1, NothingIsFcn
<1>5. \A p \in Procs : Role(p)
  BY <1>1, <1>2, NoKind DEF Role
<1>6. \A p \in Procs : Data(p)
  BY <1>1, <1>2, NoKind, NothingIsFcn DEF Data, Accepted, Loaded, Planned, Rewriting, Writing
<1> QED BY <1>3, <1>4, <1>5, <1>6 DEF Inv

LEMMA InvAlways ==
    ASSUME Sheltered
    PROVE  Spec => []Inv
<1>1. Spec => []Base
  BY TypeCorrectness, Exclusion, LogStaysOrdered, UntouchedAlways, PTL DEF Base
<1>2. Init /\ Base => Inv
  BY InvInit
<1>3. Inv /\ Base' /\ [Next]_vars => Inv'
  BY InvNext
<1> QED BY <1>1, <1>2, <1>3, PTL DEF Spec

----------------------------------------------------------------------------
(* What each step does to the settled map.                                 *)

\* The map the holder of the lock will leave the files with.
Due(p) == Materialize(mem[p].base, Left(p))

LEMMA SettledIs ==
    ASSUME TypeOK, MutualExclusion
    PROVE  /\ \A p \in Procs : pc[p] \in Writing \cup {"writeBaseline"} => Settled = Due(p)
           /\ (\A p \in Procs : pc[p] \notin Writing \cup {"writeBaseline"}) => Settled = StateNow
<1>1. lock \in Procs \cup {Nobody}
  BY DEF TypeOK
<1>2. ASSUME NEW p \in Procs, pc[p] \in Writing \cup {"writeBaseline"} PROVE lock = p /\ lock # Nobody
  BY <1>2, NobodyAssumption DEF MutualExclusion, Locked, Writing
<1> QED BY <1>1, <1>2 DEF Settled, Due, Left

\* At rest every line of the log counts.
LEMMA NowIs ==
    ASSUME NEW base, NEW lines, AreLines(lines), Readable(lines)
    PROVE  Materialize(base, Parsed(lines)) = Materialize(base, lines)
BY ParsedWhole

\* Without the lock, a process can only take it.
LEMMA LockKept ==
    ASSUME Sheltered, TypeOK, NEW p \in Procs, Acts(p), pc[p] \notin Locked, ~ Lock(p)
    PROVE  lock' = lock
<1>1. ASSUME NEW c \in Commands, Start(p, c) PROVE lock' = lock
  BY <1>1 DEF Start
<1>2. CASE LoadBaseline(p) \/ LoadLogStops(p) \/ LoadLogToRead(p) \/ Show(p)
  BY <1>2 DEF LoadBaseline, LoadLogStops, LoadLogToRead, Show
<1>3. CASE LoadLogToCompact(p) \/ LoadLogToResolve(p) \/ Reload(p)
  BY <1>3 DEF LoadLogToCompact, LoadLogToResolve, Reload
<1>4. ~ Decline(p) /\ ~ Accept(p) /\ ~ TruncateBaseline(p) /\ ~ WriteBaselineTask(p)
  BY DEF Decline, Accept, TruncateBaseline, WriteBaselineTask, Locked
<1>5. ~ TruncateLog(p) /\ ~ SkipLine(p) /\ ~ WriteBody(p) /\ ~ WriteNewline(p) /\ ~ Unlock(p)
  BY DEF TruncateLog, SkipLine, WriteBody, WriteNewline, Unlock, Locked
<1> QED BY <1>1, <1>2, <1>3, <1>4, <1>5, NobodyDies DEF Acts, Step

\* Without the lock nothing changes, and taking it changes nothing.
LEMMA OutsideKeepsSettled ==
    ASSUME Sheltered, Inv, NEW p \in Procs, Acts(p), pc[p] \notin Locked
    PROVE  Settled' = Settled
<1> USE NobodyAssumption DEF Inv, Base, TypeOK
<1>1. /\ log' = log /\ baseline' = baseline
      /\ \A q \in Procs \ {p} : pc'[q] = pc[q] /\ mem'[q] = mem[q]
  BY Frame
<1>2. lock # p
  BY DEF MutualExclusion
<1>3. StateNow' = StateNow
  BY <1>1 DEF StateNow
<1>4. CASE Lock(p)
  <2>1. lock = Nobody /\ lock' = p /\ pc'[p] \in {"vet", "swap", "truncate"}
    BY <1>4 DEF Lock, WaitsForLock, TakeLock
  <2> QED BY <1>3, <2>1 DEF Settled, Writing
<1>5. CASE ~ Lock(p)
  <2>1. lock' = lock
    BY <1>5, LockKept
  <2>2. lock = Nobody \/ lock \in Procs \ {p}
    BY <1>2
  <2>3. CASE lock = Nobody
    BY <1>3, <2>1, <2>3 DEF Settled
  <2>4. CASE lock \in Procs \ {p}
    <3>1. pc'[lock] = pc[lock] /\ mem'[lock] = mem[lock]
      BY <1>1, <2>4
    <3> HIDE DEF Inv, Base, TypeOK
    <3> QED BY <1>3, <2>1, <3>1 DEF Settled
  <2> QED BY <2>2, <2>3, <2>4
<1> QED BY <1>4, <1>5

\* Under the lock the map is settled until the lock is free again.
LEMMA HoldingKeepsSettled ==
    ASSUME Sheltered, Inv, NEW p \in Procs, Step(p), pc[p] \in Locked, ~ Unlock(p)
    PROVE  Settled' = Settled
<1> DEFINE Stage == Writing \cup {"writeBaseline"}
<1>1. /\ lock = p /\ lock # Nobody /\ Data(p) /\ Role(p) /\ pc \in [Procs -> PcValues]
      /\ DOMAIN mem = Procs /\ IsMem(mem[p])
  BY NobodyAssumption DEF Inv, Base, TypeOK, MutualExclusion
<1>2. StateNow = Materialize(baseline, log.lines)
  BY NowIs DEF StateNow, Inv, Base, TypeOK, IsFile, Whole
<1>3. Settled = IF pc[p] \in Stage THEN Due(p) ELSE StateNow
  BY <1>1 DEF Settled, Due, Left
<1>4. lock' = p => Settled' = IF pc'[p] \in Stage THEN Due(p)' ELSE StateNow'
  BY <1>1 DEF Settled, Due, Left
<1>5. CASE Decline(p)
  <2>1. lock' = Nobody /\ log' = log /\ baseline' = baseline /\ pc[p] = "vet"
    BY <1>5 DEF Decline
  <2> QED BY <1>3, <2>1 DEF Settled, StateNow, Writing
<1>6. CASE Accept(p)
  <2>1. /\ lock' = p /\ pc[p] = "vet" /\ pc'[p] = "write"
        /\ \E todo, goal : mem'[p] = Holding(mem[p], baseline, log, todo, {}, goal)
    BY <1>1, <1>6 DEF Accept
  <2>2. mem'[p].base = baseline /\ mem'[p].seen = log /\ mem'[p].drop = {}
    BY <2>1, Held
  <2>3. {} \cup {0} = {0}
    OBVIOUS
  <2>4. Due(p)' = StateNow
    BY <2>2, <2>3 DEF Due, Left, StateNow, Parsed
  <2> QED BY <1>3, <1>4, <2>1, <2>4 DEF Writing
<1>7. CASE TruncateBaseline(p) \/ WriteBaselineTask(p) \/ TruncateLog(p)
  <2>1. /\ lock' = p /\ mem' = mem
        /\ pc[p] \in {"swap", "truncate", "writeBaseline"} /\ pc'[p] \in Stage
    BY <1>1, <1>7 DEF TruncateBaseline, WriteBaselineTask, TruncateLog, Writing
  <2>2. Settled' = Due(p)
    BY <1>4, <2>1 DEF Due, Left
  <2>3. CASE pc[p] = "writeBaseline"
    BY <1>3, <2>2, <2>3
  <2>4. CASE pc[p] \in {"swap", "truncate"}
    <3>1. IsMaintenance(mem[p].cmd)
      BY <1>1, <2>4, WhoIsThere DEF IsMaintenance
    <3>2. Due(p) = Materialize(baseline, log.lines)
      BY <1>1, <2>4, <3>1 DEF Data, Planned, Due
    <3> QED BY <1>2, <1>3, <2>2, <2>4, <3>2 DEF Writing
  <2> QED BY <2>1, <2>3, <2>4
<1>8. CASE SkipLine(p) \/ WriteBody(p) \/ WriteNewline(p)
  <2>1. /\ lock' = p /\ pc[p] \in Stage /\ pc'[p] \in Stage
        /\ mem'[p].base = mem[p].base /\ mem'[p].seen = mem[p].seen /\ mem'[p].drop = mem[p].drop
    BY <1>1, <1>8 DEF SkipLine, WriteBody, WriteNewline, Writing, IsMem
  <2> QED BY <1>3, <1>4, <2>1 DEF Due, Left
<1>9. ~ LoadBaseline(p) /\ ~ LoadLogStops(p) /\ ~ LoadLogToRead(p) /\ ~ Show(p) /\ ~ Lock(p)
  BY DEF LoadBaseline, LoadLogStops, LoadLogToRead, Show, Lock, WaitsForLock, Locked
<1>10. ~ LoadLogToCompact(p) /\ ~ LoadLogToResolve(p) /\ ~ Reload(p)
  BY DEF LoadLogToCompact, LoadLogToResolve, Reload, Locked
<1> QED BY <1>5, <1>6, <1>7, <1>8, <1>9, <1>10 DEF Step

\* A function of the first numbers is a sequence.
LEMMA CountedSeq ==
    ASSUME NEW n \in Nat, NEW s, IsFcn(s), DOMAIN s = 1..n
    PROVE  IsSeq(s) /\ Len(s) = n
<1>1. s \in [1..n -> {s[i] : i \in 1..n}]
  BY DEF IsFcn
<1> HIDE DEF IsFcn
<1>2. s \in Seq({s[i] : i \in 1..n})
  BY <1>1
<1>3. Len(s) = n
  BY <1>2
<1> QED BY <1>2, <1>3 DEF IsSeq

\* The end of compact and resolve: the plan has been carried out.
LEMMA RewriteEnds ==
    ASSUME Sheltered, Inv, NEW p \in Procs, Unlock(p), ~ IsWriter(mem[p].cmd)
    PROVE  Settled' = Settled
<1>1. /\ lock = p /\ lock # Nobody /\ Data(p) /\ Role(p) /\ pc[p] = "write"
      /\ mem[p].todo = << >> /\ lock' = Nobody /\ log' = log /\ baseline' = baseline
  BY NobodyAssumption DEF Inv, Base, TypeOK, MutualExclusion, Unlock, Locked
<1>2. IsMaintenance(mem[p].cmd)
  BY <1>1, WhoIsThere DEF Writing
<1> DEFINE lines == mem[p].seen.lines
           seqs  == mem[p].drop \cup {0}
<1>3. baseline = mem[p].base /\ IsSeq(lines)
  BY <1>1, <1>2 DEF Data, Rewriting, Writing
<1>4. PICK k \in 0..Len(lines) : /\ mem[p].todo = SubSeq(lines, k + 1, Len(lines))
                                 /\ log.lines = DropSeqs(SubSeq(lines, 1, k), seqs)
  BY <1>1, <1>2 DEF Data, Rewriting, Writing
<1> HIDE DEF lines, seqs
<1>5. k = Len(lines)
  <2>1. Len(SubSeq(lines, k + 1, Len(lines))) = Len(lines) - k /\ Len(lines) \in Nat
    BY <1>3, SeqSuffix, SeqBasics
  <2>2. Len(mem[p].todo) = 0
    BY <1>1, SeqEmpty
  <2>3. Len(mem[p].todo) = Len(lines) - k
    BY <1>4, <2>1
  <2> QED BY <2>1, <2>2, <2>3
<1>6. log.lines = Left(p)
  BY <1>3, <1>4, <1>5, WholePrefix DEF Left, lines, seqs
<1>7. Settled = Due(p)
  BY <1>1 DEF Settled, Due, Left, Writing
<1>8. StateNow = Materialize(baseline, log.lines)
  BY NowIs DEF StateNow, Inv, Base, TypeOK, IsFile, Whole
<1>9. Settled' = StateNow
  BY <1>1 DEF Settled, StateNow
<1> QED BY <1>3, <1>6, <1>7, <1>8, <1>9 DEF Due

\* The end of a write command: its batch, whole.
LEMMA BatchEnds ==
    ASSUME Sheltered, Inv, NEW p \in Procs, Unlock(p), IsWriter(mem[p].cmd)
    PROVE  mem[p].cmd \in Commands /\ Ledger!Commit(mem[p].cmd)
<1>1. /\ lock = p /\ lock # Nobody /\ Data(p) /\ Role(p) /\ pc[p] = "write" /\ Untouched(p)
      /\ mem[p].todo = << >> /\ lock' = Nobody /\ log' = log /\ baseline' = baseline
      /\ AreLines(log.lines)
  BY NobodyAssumption
     DEF Inv, Base, TypeOK, MutualExclusion, Unlock, Locked, AllUntouched, IsFile
<1>2. mem[p].cmd \in Commands /\ mem[p].cmd.cmd \in Writers
  BY <1>1 DEF Role, IsWriter
<1> DEFINE c       == mem[p].cmd
           lines   == mem[p].seen.lines
           state   == Materialize(mem[p].base, lines)
           past    == PayloadFields(lines)
           drafts  == Build(c, state, past).out
           batch   == Minted(lines, drafts)
           stamped == Ledger!Stamped(drafts)
<1>3. /\ AreLines(lines) /\ Readable(lines) /\ drafts # << >>
      /\ mem[p].goal = lines \o batch
  BY <1>1 DEF Data, Accepted, Writing
<1>4. mem[p].drop = {} /\ baseline = mem[p].base /\ WithAppended(log, << >>) = mem[p].goal
  BY <1>1 DEF Untouched, Writing
<1>5. log.lines = lines \o batch
  <2>1. WithAppended(log, << >>) = log.lines \o << >>
    BY DEF WithAppended
  <2>2. log.lines \o << >> = log.lines
    BY <1>1 DEF AreLines
  <2> QED BY <1>3, <1>4, <2>1, <2>2
<1>6. IsEvents(drafts)
  BY <1>2, CommandIsEvents, CommandsAssumption
<1> HIDE DEF drafts
<1>7. /\ IsSeq(batch) /\ IsSeq(stamped)
      /\ Len(batch) = Len(stamped) /\ \A i \in 1..Len(batch) : SameEffect(batch[i], stamped[i])
  <2>1. Len(drafts) \in Nat /\ DOMAIN drafts = 1..Len(drafts)
    BY <1>6, SeqBasics DEF IsEvents
  <2>2. IsSeq(batch) /\ Len(batch) = Len(drafts)
    <3>1. IsFcn(batch) /\ DOMAIN batch = 1..Len(drafts)
      BY DEF IsFcn, Minted
    <3> HIDE DEF batch
    <3> QED BY <2>1, <3>1, CountedSeq
  <2>3. IsSeq(stamped) /\ Len(stamped) = Len(drafts)
    <3>1. IsFcn(stamped) /\ DOMAIN stamped = 1..Len(drafts)
      BY <2>1 DEF IsFcn, Ledger!Stamped
    <3> HIDE DEF stamped
    <3> QED BY <2>1, <3>1, CountedSeq
  <2>4. \A i \in 1..Len(drafts) : SameEffect(batch[i], stamped[i])
    BY <2>1 DEF SameEffect, Minted, Ledger!Stamped
  <2> QED BY <2>2, <2>3, <2>4
<1> HIDE DEF batch, stamped
<1>8. Settled = state
  <2>1. Left(p) = lines
    <3>1. mem[p].drop \cup {0} = {0}
      BY <1>4
    <3> QED BY <1>3, <3>1, ParsedWhole DEF Left, Parsed
  <2> QED BY <1>1, <2>1 DEF Settled, Left, Writing
<1>9. Settled' = Materialize(state, stamped)
  <2>1. Settled' = StateNow
    BY <1>1 DEF Settled, StateNow
  <2>2. StateNow = Materialize(mem[p].base, log.lines)
    BY <1>4, NowIs DEF StateNow, Inv, Base, TypeOK, IsFile, Whole
  <2>3. StateNow = Materialize(mem[p].base, lines \o batch)
    BY <1>5, <2>2
  <2>4. IsSeq(lines)
    BY <1>3, LinesAreSeq
  <2> HIDE DEF lines
  <2>5. Materialize(mem[p].base, lines \o batch) = Materialize(Materialize(mem[p].base, lines), batch)
    BY <1>7, <2>4, MaterializeConcat
  <2>6. Materialize(state, batch) = Materialize(state, stamped)
    <3> HIDE DEF state
    <3> QED BY <1>7, MaterializeSameEffects
  <2> QED BY <2>1, <2>3, <2>5, <2>6
<1>10. drafts = Build(c, state, past \cap Ledger!FieldNames).out
  <2>1. c.cmd \in {"update", "delete"} => DOMAIN c.guard \subseteq Ledger!FieldNames
    BY <1>2 DEF Ledger!FieldNames
  <2>2. c.cmd \in Writers
    BY <1>2
  <2> DEFINE named == past \cap Ledger!FieldNames
  <2>3. c.cmd \in {"update", "delete"} => \A k \in DOMAIN c.guard : k \in past <=> k \in named
    BY <2>1
  <2> HIDE DEF state, past, c, named
  <2>4. Build(c, state, past) = Build(c, state, named)
    BY <2>2, <2>3, CommandRemembers
  <2> QED BY <2>4 DEF drafts, named
<1> HIDE DEF state, past, lines, c
<1>11. /\ Settled \in {Settled} /\ past \cap Ledger!FieldNames \in SUBSET Ledger!FieldNames
       /\ drafts \in {Ledger!Build(c, Settled, past \cap Ledger!FieldNames).out}
       /\ Settled' = Ledger!Materialize(Settled, Ledger!Stamped(drafts))
  BY <1>8, <1>9, <1>10, LedgerBuilds, LedgerReplays DEF stamped
<1>12. Ledger!Commit(c)
  BY <1>3, <1>11 DEF Ledger!Commit
<1> QED BY <1>2, <1>12 DEF c

\* A step of the store is a command of the ledger, or nothing.
LEMMA StepIsLedgers ==
    ASSUME Sheltered, Inv, [Next]_vars
    PROVE  [Ledger!Next]_Settled
<1>1. CASE UNCHANGED vars
  BY <1>1 DEF vars, Settled, StateNow
<1>2. ASSUME NEW p \in Procs, Acts(p) PROVE [Ledger!Next]_Settled
  <2>1. CASE pc[p] \notin Locked
    BY <1>2, <2>1, OutsideKeepsSettled
  <2>2. CASE pc[p] \in Locked
    <3>1. Step(p)
      <4>1. pc[p] # "idle"
        BY <2>2 DEF Locked
      <4> QED BY <1>2, <4>1, NobodyDies DEF Acts, Start, Inv, Base
    <3>2. CASE ~ Unlock(p)
      BY <2>2, <3>1, <3>2, HoldingKeepsSettled
    <3>3. CASE Unlock(p) /\ ~ IsWriter(mem[p].cmd)
      BY <3>3, RewriteEnds
    <3>4. CASE Unlock(p) /\ IsWriter(mem[p].cmd)
      <4>1. mem[p].cmd \in Commands /\ Ledger!Commit(mem[p].cmd)
        BY <3>4, BatchEnds
      <4>2. mem[p].cmd.cmd \in Ledger!Writers
        BY <3>4 DEF IsWriter, Writers, Ledger!Writers
      <4> QED BY <4>1, <4>2 DEF Ledger!Next
    <3> QED BY <3>2, <3>3, <3>4
  <2> QED BY <2>1, <2>2
<1> QED BY <1>1, <1>2 DEF Next, Acts, Quiet

\* What the processes do to the files, step by step, is one whole command of the
\* ledger or leaves the task map alone: no reader of the promise can tell
\* the store, with its appends, its rewrites and its lock, from a map that changes at
\* once (append_checked, swap_baseline, resolve's rewrite).
THEOREM StoreImplementsLedger ==
    ASSUME Sheltered
    PROVE  Spec => ImplementsLedger
<1>1. Init => Ledger!Init
  <2> SUFFICES ASSUME Init PROVE Ledger!Init
    OBVIOUS
  <2>1. log.lines = Genesis /\ baseline = << >> /\ lock = Nobody
    BY DEF Init, Content
  <2>2. Settled = Materialize(<< >>, Parsed(Genesis))
    BY <2>1 DEF Settled, StateNow
  <2>3. Settled = Materialize(<< >>, Genesis)
    BY <2>2, GenesisAssumption, NowIs
  <2> QED BY <2>3, LedgerReplays DEF Ledger!Init
<1>2. Inv /\ [Next]_vars => [Settled' # Settled => Ledger!Next]_Settled
  BY StepIsLedgers
<1> QED BY <1>1, <1>2, InvAlways, PTL DEF Spec, ImplementsLedger

----------------------------------------------------------------------------
(* What readers are shown.                                                 *)

\* The state the history leads to is the one on file, or the one compact or resolve
\* will leave there.
Current ==
    IF lock # Nobody /\ IsMaintenance(mem[lock].cmd) THEN Settled ELSE StateNow

ReadInv ==
    /\ IsSeq(hist)
    /\ Current = StateOf(hist)
    /\ \A p \in Procs : mem[p].since \in 0..Len(hist)

\* Only an event of a write command enters the history.
LEMMA HistoryKept ==
    ASSUME Sheltered, Inv, NEW p \in Procs, Acts(p), ~ (WriteBody(p) /\ IsWriter(mem[p].cmd))
    PROVE  hist' = hist
<1>1. ASSUME NEW c \in Commands, Start(p, c) PROVE hist' = hist
  BY <1>1 DEF Start
<1>2. CASE Lock(p) \/ Decline(p) \/ Accept(p) \/ LoadBaseline(p) \/ LoadLogStops(p)
  BY <1>2 DEF Lock, TakeLock, Decline, Accept, LoadBaseline, LoadLogStops
<1>3. CASE LoadLogToRead(p) \/ Show(p) \/ LoadLogToCompact(p) \/ LoadLogToResolve(p) \/ Reload(p)
  BY <1>3 DEF LoadLogToRead, Show, LoadLogToCompact, LoadLogToResolve, Reload
<1>4. CASE TruncateBaseline(p) \/ WriteBaselineTask(p) \/ TruncateLog(p) \/ SkipLine(p)
  BY <1>4 DEF TruncateBaseline, WriteBaselineTask, TruncateLog, SkipLine
<1>5. CASE WriteBody(p)
  BY <1>5 DEF WriteBody
<1>6. CASE WriteNewline(p) \/ Unlock(p)
  BY <1>6 DEF WriteNewline, Unlock
<1> QED BY <1>1, <1>2, <1>3, <1>4, <1>5, <1>6, NobodyDies DEF Acts, Step, Inv, Base

\* An event of a write command enters the history as it enters the log.
LEMMA EventEnters ==
    ASSUME Inv, IsSeq(hist), Current = StateOf(hist),
           NEW p \in Procs, WriteBody(p), IsWriter(mem[p].cmd)
    PROVE  /\ \E e : hist' = Append(hist, e)
           /\ IsSeq(hist') /\ Current' = StateOf(hist')
<1>1. /\ pc[p] = "write" /\ lock = p /\ lock # Nobody /\ lock' = lock /\ baseline' = baseline
      /\ log' = PutBody(log, Head(mem[p].todo)) /\ hist' = Append(hist, Head(mem[p].todo))
      /\ mem[p].todo # << >> /\ Head(mem[p].todo).seq # 0
      /\ mem'[p].cmd = mem[p].cmd /\ Role(p) /\ AreLines(mem[p].todo)
  BY NobodyAssumption
     DEF Inv, Base, TypeOK, MutualExclusion, WriteBody, Locked, IsMem
<1>2. ~ IsMaintenance(mem[p].cmd)
  BY <1>1, WhoIsThere
<1>3. AreLines(log.lines) /\ Readable(log.lines) /\ log.ended
  BY <1>1 DEF Inv, Base, TypeOK, IsFile, Whole
<1> DEFINE e      == Head(mem[p].todo)
           longer == Append(log.lines, e)
<1>4. log'.lines = longer
  BY <1>1, <1>3 DEF PutBody, Content
<1>5. e.seq \in Nat /\ e.seq # 0
  BY <1>1, TailLines
<1> HIDE DEF e
<1>6. AreLines(longer) /\ Readable(longer)
  <2>1. /\ AreLines(longer) /\ Len(longer) = Len(log.lines) + 1
        /\ \A i \in 1..Len(log.lines) : longer[i] = log.lines[i]
        /\ longer[Len(log.lines) + 1] = e
    BY <1>3, <1>5, AppendLines
  <2>2. /\ DOMAIN longer = 1..(Len(log.lines) + 1) /\ Len(log.lines) \in Nat
        /\ DOMAIN log.lines = 1..Len(log.lines)
    BY <1>3, <2>1, LinesDomain
  <2> HIDE DEF longer
  <2> QED BY <1>3, <1>5, <2>1, <2>2 DEF Readable
<1>7. StateNow = Materialize(baseline, log.lines) /\ IsSeq(log.lines)
  BY <1>3, NowIs, LinesAreSeq DEF StateNow
<1>8. StateNow' = Materialize(baseline, longer)
  BY <1>1, <1>4, <1>6, NowIs DEF StateNow
<1>9. Materialize(baseline, longer) = Apply(StateNow, e)
  BY <1>7, MaterializeAppend
<1>10. hist' = Append(hist, e)
  BY <1>1 DEF e
<1>11. StateOf(hist') = Apply(StateOf(hist), e) /\ IsSeq(hist')
  BY <1>10, MaterializeAppend, SeqAppend DEF StateOf
<1>12. Current = StateNow /\ Current' = StateNow'
  BY <1>1, <1>2 DEF Current
<1> HIDE DEF longer
<1> QED BY <1>8, <1>9, <1>10, <1>11, <1>12

\* Nothing else changes the state the history leads to.
LEMMA CurrentKept ==
    ASSUME Sheltered, Inv, NEW p \in Procs, Acts(p), ~ (WriteBody(p) /\ IsWriter(mem[p].cmd))
    PROVE  Current' = Current
<1>1. CASE pc[p] \notin Locked
  <2>1. /\ log' = log /\ baseline' = baseline /\ lock # p
        /\ \A q \in Procs \ {p} : pc'[q] = pc[q] /\ mem'[q] = mem[q]
        /\ lock \in Procs \cup {Nobody}
    BY <1>1, Frame DEF Inv, Base, MutualExclusion, TypeOK
  <2>2. Settled' = Settled /\ StateNow' = StateNow
    BY <1>1, <2>1, OutsideKeepsSettled DEF StateNow
  <2>3. CASE Lock(p)
    <3>1. lock = Nobody
      BY <2>3 DEF Lock
    <3>2. Settled = StateNow /\ Current = StateNow
      BY <3>1 DEF Settled, Current
    <3> QED BY <2>2, <3>2 DEF Current
  <2>4. CASE ~ Lock(p)
    <3>1. lock' = lock
      BY <1>1, <2>4, LockKept DEF Inv, Base
    <3>2. lock = Nobody \/ mem'[lock] = mem[lock]
      BY <2>1
    <3> QED BY <2>2, <3>1, <3>2 DEF Current
  <2> QED BY <2>3, <2>4
<1>2. CASE pc[p] \in Locked
  <2>1. /\ lock = p /\ lock # Nobody /\ pc[p] # "idle" /\ Role(p)
        /\ TypeOK /\ IsMem(mem[p]) /\ DOMAIN mem = Procs
    BY <1>2, NobodyAssumption DEF Inv, Base, TypeOK, MutualExclusion, Locked
  <2>2. Step(p)
    BY <2>1, NobodyDies DEF Acts, Start
  <2>3. CASE Unlock(p)
    <3>1. lock' = Nobody /\ log' = log /\ baseline' = baseline
      BY <2>3 DEF Unlock
    <3>2. Current' = StateNow /\ Settled' = StateNow
      BY <3>1 DEF Current, Settled, StateNow
    <3>3. IsMaintenance(mem[p].cmd) => ~ IsWriter(mem[p].cmd)
      BY <2>1, WhoIsThere
    <3> QED BY <2>1, <2>3, <3>2, <3>3, RewriteEnds DEF Current
  <2>4. CASE Decline(p)
    <3>1. lock' = Nobody /\ log' = log /\ baseline' = baseline /\ pc[p] = "vet"
      BY <2>4 DEF Decline
    <3>2. ~ IsMaintenance(mem[p].cmd)
      BY <2>1, <3>1, WhoIsThere
    <3> QED BY <2>1, <3>1, <3>2 DEF Current, StateNow
  <2>5. CASE ~ Unlock(p) /\ ~ Decline(p)
    <3>1. lock' = lock /\ mem'[p].cmd = mem[p].cmd
      <4>1. CASE Accept(p)
        BY <2>1, <4>1 DEF Accept, Holding
      <4>2. CASE TruncateBaseline(p) \/ WriteBaselineTask(p) \/ TruncateLog(p)
        BY <4>2 DEF TruncateBaseline, WriteBaselineTask, TruncateLog
      <4>3. CASE SkipLine(p) \/ WriteBody(p) \/ WriteNewline(p)
        BY <2>1, <4>3 DEF SkipLine, WriteBody, WriteNewline, IsMem
      <4>4. ~ LoadBaseline(p) /\ ~ LoadLogStops(p) /\ ~ LoadLogToRead(p) /\ ~ Show(p) /\ ~ Lock(p)
        BY <1>2 DEF LoadBaseline, LoadLogStops, LoadLogToRead, Show, Lock, WaitsForLock, Locked
      <4>5. ~ LoadLogToCompact(p) /\ ~ LoadLogToResolve(p) /\ ~ Reload(p)
        BY <1>2 DEF LoadLogToCompact, LoadLogToResolve, Reload, Locked
      <4> QED BY <2>2, <2>5, <4>1, <4>2, <4>3, <4>4, <4>5 DEF Step
    <3>2. CASE IsMaintenance(mem[p].cmd)
      <4>1. Settled' = Settled
        BY <1>2, <2>2, <2>5, HoldingKeepsSettled
      <4> QED BY <2>1, <3>1, <3>2, <4>1 DEF Current
    <3>3. CASE ~ IsMaintenance(mem[p].cmd)
      <4>1. IsWriter(mem[p].cmd) /\ pc[p] \in {"vet"} \cup Writing
        BY <1>2, <2>1, <3>3, WhoIsThere DEF Role, Locked
      <4>2. log'.lines = log.lines /\ baseline' = baseline
        <5>1. CASE Accept(p)
          BY <5>1 DEF Accept
        <5>2. CASE SkipLine(p) \/ WriteNewline(p)
          BY <5>2 DEF SkipLine, WriteNewline, PutNewline, Content
        <5>3. ~ TruncateBaseline(p) /\ ~ WriteBaselineTask(p) /\ ~ TruncateLog(p)
          BY <4>1 DEF TruncateBaseline, WriteBaselineTask, TruncateLog, Writing
        <5>4. ~ LoadBaseline(p) /\ ~ LoadLogStops(p) /\ ~ LoadLogToRead(p) /\ ~ Show(p) /\ ~ Lock(p)
          BY <1>2 DEF LoadBaseline, LoadLogStops, LoadLogToRead, Show, Lock, WaitsForLock, Locked
        <5>5. ~ LoadLogToCompact(p) /\ ~ LoadLogToResolve(p) /\ ~ Reload(p)
          BY <1>2 DEF LoadLogToCompact, LoadLogToResolve, Reload, Locked
        <5> QED BY <2>2, <2>5, <4>1, <5>1, <5>2, <5>3, <5>4, <5>5 DEF Step
      <4> QED BY <2>1, <3>1, <3>3, <4>2 DEF Current, StateNow
    <3> QED BY <3>2, <3>3
  <2> QED BY <2>3, <2>4, <2>5
<1> QED BY <1>1, <1>2

LEMMA ReadInvNext ==
    ASSUME Sheltered, Inv, ReadInv, [Next]_vars
    PROVE  ReadInv'
<1>1. ASSUME NEW p \in Procs, Acts(p) PROVE ReadInv'
  <2>1. /\ hist' = hist \/ \E e : hist' = Append(hist, e)
        /\ IsSeq(hist') /\ Current' = StateOf(hist')
    <3>1. CASE WriteBody(p) /\ IsWriter(mem[p].cmd)
      BY <3>1, EventEnters DEF ReadInv
    <3>2. CASE ~ (WriteBody(p) /\ IsWriter(mem[p].cmd))
      <4>1. hist' = hist /\ Current' = Current
        BY <1>1, <3>2, HistoryKept, CurrentKept
      <4> QED BY <4>1 DEF ReadInv
    <3> QED BY <3>1, <3>2
  <2>2. Len(hist) \in Nat /\ Len(hist') \in Nat /\ Len(hist) <= Len(hist')
    BY <2>1, SeqBasics, SeqAppend DEF ReadInv
  <2>3. \A q \in Procs \ {p} : mem'[q] = mem[q]
    BY <1>1, Frame DEF Inv, Base
  <2>4. mem'[p].since \in 0..Len(hist')
    <3>1. ASSUME NEW c \in Commands, Start(p, c) PROVE mem'[p].since = Len(hist)
      BY <3>1 DEF Inv, Base, Start, Begun, TypeOK
    <3>2. Step(p) => mem'[p].since \in {0, mem[p].since}
      BY StepGoesOn, Finished DEF Inv, Base
    <3> QED BY <1>1, <2>2, <3>1, <3>2, NobodyDies DEF Acts, ReadInv, Inv, Base
  <2> QED BY <2>1, <2>2, <2>3, <2>4 DEF ReadInv
<1>2. CASE UNCHANGED vars
  BY <1>2 DEF vars, ReadInv, Current, Settled, StateNow
<1> QED BY <1>1, <1>2 DEF Next, Acts, Quiet

LEMMA ReadInvInit ==
    ASSUME Init
    PROVE  ReadInv
<1>1. /\ log.lines = Genesis /\ baseline = << >> /\ lock = Nobody /\ hist = Genesis
      /\ \A p \in Procs : pc[p] = "idle" /\ mem[p].since = 0
  BY DEF Init, Content, Fresh, Begun
<1>2. IsSeq(Genesis) /\ Len(Genesis) \in Nat
  BY GenesisAssumption, LinesAreSeq, SeqBasics
<1>3. Current = StateOf(hist)
  BY <1>1, GenesisAssumption, NowIs DEF Current, StateNow, StateOf
<1> QED BY <1>1, <1>2, <1>3 DEF ReadInv

\* Reading the log is what a reader does last, and it does nothing else in that step.
LEMMA ShowsAfterLog ==
    ASSUME Sheltered, Inv, [Next]_vars, NEW p \in Procs, pc[p] # "show", pc'[p] = "show"
    PROVE  LoadLogToRead(p)
<1> USE DEF Inv, Base, TypeOK, PcValues
<1>1. Acts(p)
  <2>1. ASSUME NEW q \in Procs \ {p}, Acts(q) PROVE FALSE
    BY <2>1, Frame
  <2>2. pc' # pc
    OBVIOUS
  <2> QED BY <2>1, <2>2 DEF Next, Acts, Quiet, vars
<1>2. ~ \E c \in Commands : Start(p, c)
  BY DEF Start
<1>3. ~ Finish(p)
  BY Finished
<1>4. ~ (Lock(p) \/ Accept(p) \/ LoadBaseline(p))
  BY DEF Lock, TakeLock, Accept, LoadBaseline
<1>5. ~ (LoadLogToCompact(p) \/ LoadLogToResolve(p) \/ Reload(p))
  BY <1>3 DEF LoadLogToCompact, LoadLogToResolve, Reload
<1>6. ~ (TruncateBaseline(p) \/ WriteBaselineTask(p) \/ TruncateLog(p))
  BY DEF TruncateBaseline, WriteBaselineTask, TruncateLog
<1>7. ~ (SkipLine(p) \/ WriteBody(p) \/ WriteNewline(p))
  BY DEF SkipLine, WriteBody, WriteNewline
<1>8. ~ (Decline(p) \/ LoadLogStops(p) \/ Show(p) \/ Unlock(p))
  BY <1>3 DEF Decline, LoadLogStops, Show, Unlock
<1> QED BY <1>1, <1>2, <1>4, <1>5, <1>6, <1>7, <1>8, NobodyDies DEF Acts, Step

\* A reader, who takes no lock, is shown the state of one moment since its command
\* began, with any number of others writing, and with compact or resolve run beside it:
\* unless the baseline it read is no longer the one on file, or the files are just being
\* rewritten (read, which loads the baseline and then the log, without the lock).
THEOREM ReadersSeeMoments ==
    ASSUME Sheltered
    PROVE  Spec => ReadIsMomentUnlessRewritten
<1> DEFINE Reads ==
        \A p \in Procs :
            /\ pc[p] = "loadLog" /\ pc'[p] = "show"
            /\ mem[p].base = baseline
            /\ ~ IsRewriting
            => ShowsMoment(p)'
<1>1. Init => ReadInv
  BY ReadInvInit
<1>2. Inv /\ ReadInv /\ [Next]_vars => ReadInv'
  BY ReadInvNext
<1>3. Inv /\ ReadInv /\ [Next]_vars => [Reads]_vars
  <2> SUFFICES ASSUME Inv, ReadInv, [Next]_vars, NEW p \in Procs,
                      pc[p] = "loadLog", pc'[p] = "show",
                      mem[p].base = baseline, ~ IsRewriting
               PROVE  ShowsMoment(p)'
    OBVIOUS
  <2>1. LoadLogToRead(p)
    BY ShowsAfterLog
  <2>2. /\ mem'[p].base = baseline /\ mem'[p].seen = log /\ mem'[p].since = mem[p].since
        /\ hist' = hist
    BY <2>1 DEF Inv, Base, TypeOK, IsMem, LoadLogToRead
  <2>3. Current = StateNow
    BY DEF Current, Settled, IsRewriting
  <2>4. /\ Len(hist) \in Nat /\ mem[p].since \in 0..Len(hist)
        /\ SubSeq(hist, 1, Len(hist)) = hist
    BY SeqBasics, WholePrefix DEF ReadInv
  <2>5. Materialize(mem'[p].base, Parsed(mem'[p].seen.lines)) = StateOf(SubSeq(hist, 1, Len(hist)))
    BY <2>2, <2>3, <2>4 DEF StateNow, ReadInv
  <2>6. Len(hist) \in mem[p].since..Len(hist)
    BY <2>4
  <2> QED BY <2>2, <2>5, <2>6 DEF ShowsMoment, StateOf
<1>4. Spec => [][Reads]_vars
  BY <1>1, <1>2, <1>3, InvAlways, PTL DEF Spec
<1> QED BY <1>4 DEF ReadIsMomentUnlessRewritten

----------------------------------------------------------------------------
(* Claims.                                                                 *)

\* Nothing but a delete, or an event that names the field, empties a taken one.
LEMMA TakenStays ==
    ASSUME NEW state, AllTasks(state), NEW id, NEW k, Taken(state, id, k),
           NEW e, e.op \in EventOps,
           e.op = "Create" => e.id \notin DOMAIN state,
           e.op = "Delete" => e.id # id,
           e.id = id /\ e.op \in {"Update", "Append", "Add", "Remove"}
               => k \notin DOMAIN e.payload
    PROVE  Taken(Apply(state, e), id, k)
<1>1. CASE id # e.id
  BY <1>1, ApplyFrame DEF Taken
<1>2. CASE id = e.id
  <2> DEFINE t == state[id]
             u == Touched(t, e)
  <2>1. id \in DOMAIN state /\ k \in DOMAIN t.fields /\ ~ Vacant(t.fields[k])
    BY DEF Taken
  <2>2. e.op \notin {"Create", "Delete"}
    BY <1>2, <2>1
  <2>3. IsTask(t) /\ Before(state, e) = t
    BY <1>2, <2>1 DEF AllTasks, Before
  <2>4. u.fields = FieldsAfter(t.fields, e)
    BY <2>2, <2>3, TouchedFields
  <2>5. id \in DOMAIN Apply(state, e) /\ Apply(state, e)[id] = u
    BY <1>2, <2>1, <2>2, <2>3, ApplyFrame
  <2> DEFINE f == t.fields
             g == FieldsAfter(f, e)
  <2>6. k \in DOMAIN g /\ g[k] = f[k]
    <3>1. k \in DOMAIN f
      BY <2>1
    <3> HIDE DEF f
    <3>2. CASE e.op = "Update"
      BY <1>2, <3>1, <3>2, Overridden, Remains DEF FieldsAfter, ApplySet
    <3>3. CASE e.op = "Append"
      <4> DEFINE new == [j \in {i \in DOMAIN e.payload : e.payload[i] # Null} |->
                            AppendText(Value(f, j), e.payload[j])]
      <4>1. g = Over(new, f) /\ k \notin DOMAIN new
        BY <1>2, <3>3 DEF FieldsAfter, ApplyAppend
      <4> HIDE DEF new, g
      <4> QED BY <3>1, <4>1, Overridden
    <3>4. CASE e.op \in {"Add", "Remove"}
      <4> DEFINE sums == [j \in DOMAIN e.payload |->
                             Accumulated(Value(f, j), e.payload[j], e.op = "Add")]
                 new == Without(sums, {j \in DOMAIN sums : sums[j] = Null})
      <4>1. g = Over(new, f)
        BY <3>4 DEF FieldsAfter, ApplyAccumulate
      <4>2. k \notin DOMAIN sums
        BY <1>2, <3>4
      <4> HIDE DEF sums
      <4>3. k \notin DOMAIN new
        BY <4>2, Remains
      <4> HIDE DEF new, g
      <4> QED BY <3>1, <4>1, <4>3, Overridden
    <3>5. CASE e.op \in {"AddEdge", "RemoveEdge"}
      BY <3>1, <3>5 DEF FieldsAfter
    <3> QED BY <2>2, <3>2, <3>3, <3>4, <3>5 DEF EventOps
  <2> QED BY <2>1, <2>4, <2>5, <2>6 DEF Taken
<1> QED BY <1>1, <1>2

\* A claim takes the field.
LEMMA TakenNow ==
    ASSUME NEW state, AllTasks(state), NEW k, NEW e, e.op = "Update",
           e.id \in DOMAIN state, k \in DOMAIN e.payload, Fills(e.payload[k])
    PROVE  Taken(Apply(state, e), e.id, k)
<1> DEFINE t == state[e.id]
           f == t.fields
           g == ApplySet(f, e.payload)
           unset == {j \in DOMAIN e.payload : e.payload[j] = Null}
<1>1. IsTask(t) /\ Before(state, e) = t
  BY DEF AllTasks, Before
<1>2. Touched(t, e).fields = g
  BY <1>1, TouchedFields DEF FieldsAfter, EventOps
<1>3. e.id \in DOMAIN Apply(state, e) /\ Apply(state, e)[e.id] = Touched(t, e)
  BY <1>1, ApplyFrame
<1>4. k \in DOMAIN g /\ g[k] = e.payload[k]
  <2>1. g = Over(Without(e.payload, unset), Without(f, unset))
    BY DEF ApplySet
  <2>2. k \notin unset
    BY DEF Fills
  <2> HIDE DEF unset, g, f
  <2> QED BY <2>1, <2>2, Overridden, Remains
<1> QED BY <1>2, <1>3, <1>4 DEF Taken, Fills

\* No set holds everything.
LEMMA SomethingElse == \A S : \E x : x \notin S
<1> TAKE S
<1> DEFINE r == {x \in S : x \notin x}
<1>1. r \notin S
  BY r \in r \/ r \notin r
<1> QED BY <1>1

\* Only the first event of a batch makes a task or sets fields.
LEMMA BatchInOrder ==
    ASSUME NEW c, IsCommand(c), c.cmd \in Writers, NEW state, NEW past,
           NEW out, out = Build(c, state, past).out, NEW m \in 1..Len(out)
    PROVE  /\ out[m].op \in {"Create", "Update"} => m = 1
           /\ out[m].id \in DOMAIN state <=> out[m].op # "Create"
<1> DEFINE named == DOMAIN c.ops.set \cup DOMAIN c.ops.append \cup DOMAIN c.ops.subtract
           known == UNION {DOMAIN TaskTypes[type].fields : type \in DOMAIN TaskTypes}
<1>1. PICK k : k \notin named \cup known
  BY SomethingElse
<1>2. HasNoDefault(k)
  BY <1>1 DEF HasNoDefault
<1>3. OnlyClaims(c, k)
  BY <1>1 DEF OnlyClaims
<1>4. ClaimsFairly(state, k, out[m], m) /\ (out[m].id \in DOMAIN state <=> out[m].op # "Create")
  BY <1>2, <1>3, BatchClaims
<1> QED BY <1>4 DEF ClaimsFairly

\* A batch only grows the log it was vetted on.
Grown(p) ==
    IsWriter(mem[p].cmd) /\ pc[p] \in Writing => Len(mem[p].seen.lines) <= Len(log.lines)

\* What enters the history: an event of the batch, that makes a task or sets fields
\* only if it is the first, in the very state the batch was vetted in.
LEMMA ClaimEnters ==
    ASSUME Inv, Current = StateOf(hist), NEW p \in Procs, WriteBody(p),
           IsWriter(mem[p].cmd), Grown(p),
           NEW e, e = Head(mem[p].todo), NEW state, state = StateOf(hist)
    PROVE  /\ e.op \in EventOps
           /\ e.op = "Create" => e.id \notin DOMAIN state
           /\ \A k : IsClaimed(k) =>
                 /\ e.op = "Update" /\ k \in DOMAIN e.payload =>
                       e.id \in DOMAIN state /\ ~ Taken(state, e.id, k) /\ Fills(e.payload[k])
                 /\ e.op \in {"Append", "Add", "Remove"} => k \notin DOMAIN e.payload
<1>1. /\ pc[p] = "write" /\ lock = p /\ lock # Nobody /\ mem[p].todo # << >>
      /\ Role(p) /\ Data(p) /\ Untouched(p) /\ AreLines(mem[p].todo)
      /\ AreLines(log.lines) /\ Readable(log.lines)
  BY NobodyAssumption
     DEF Inv, Base, TypeOK, MutualExclusion, WriteBody, Locked, IsMem, AllUntouched, IsFile, Whole
<1>2. log.ended
  BY <1>1 DEF Inv, Whole
<1>3. mem[p].cmd \in Commands /\ mem[p].cmd.cmd \in Writers /\ IsCommand(mem[p].cmd)
  BY <1>1, CommandsAssumption DEF Role, IsWriter
<1> DEFINE c      == mem[p].cmd
           lines  == mem[p].seen.lines
           vetted == Materialize(mem[p].base, lines)
           past   == PayloadFields(lines)
           out    == Build(c, vetted, past).out
           batch  == Minted(lines, out)
           todo   == mem[p].todo
<1>4. AreLines(lines) /\ Readable(lines) /\ out # << >> /\ mem[p].goal = lines \o batch
  BY <1>1 DEF Data, Accepted, Writing
<1>5. baseline = mem[p].base /\ log.lines \o todo = lines \o batch
  BY <1>1, <1>2, <1>4 DEF Untouched, Writing, WithAppended
<1>6. Len(lines) <= Len(log.lines)
  BY <1>1 DEF Grown, Writing
<1>7. IsEvents(out)
  BY <1>3, CommandIsEvents
<1> HIDE DEF out
<1>8. IsSeq(batch) /\ Len(batch) = Len(out)
      /\ \A i \in 1..Len(out) : /\ batch[i].op = out[i].op /\ batch[i].id = out[i].id
                                /\ batch[i].payload = out[i].payload
  <2>1. Len(out) \in Nat
    BY <1>7, SeqBasics DEF IsEvents
  <2>2. IsFcn(batch) /\ DOMAIN batch = 1..Len(out)
    BY DEF IsFcn, Minted
  <2>3. \A i \in 1..Len(out) : /\ batch[i].op = out[i].op /\ batch[i].id = out[i].id
                               /\ batch[i].payload = out[i].payload
    BY DEF Minted
  <2> HIDE DEF batch
  <2> QED BY <2>1, <2>2, <2>3, CountedSeq
<1> HIDE DEF batch, lines, todo
<1>9. Len(lines) \in Nat /\ Len(log.lines) \in Nat /\ Len(todo) \in Nat /\ Len(todo) >= 1
      /\ Len(out) \in Nat /\ e = todo[1]
  BY <1>1, <1>4, <1>7, LinesDomain, TailLines, SeqBasics DEF IsEvents, todo
<1> DEFINE m == Len(log.lines) + 1 - Len(lines)
<1>10. m \in 1..Len(out) /\ e = batch[m]
  <2>1. IsSeq(lines) /\ IsSeq(todo) /\ IsSeq(log.lines)
    BY <1>1, <1>4, LinesAreSeq DEF todo
  <2>2. Len(log.lines \o todo) = Len(log.lines) + Len(todo)
        /\ (log.lines \o todo)[Len(log.lines) + 1] = todo[1]
    BY <1>9, <2>1, SeqConcat
  <2>3. Len(lines \o batch) = Len(lines) + Len(batch)
        /\ \A i \in 1..Len(batch) : (lines \o batch)[Len(lines) + i] = batch[i]
    <3>1. IsSeq(lines) /\ IsSeq(batch)
      BY <1>8, <2>1
    <3> QED BY ONLY <3>1, SeqConcat
  <2>4. m \in 1..Len(batch) /\ Len(lines) + m = Len(log.lines) + 1
    BY <1>5, <1>6, <1>8, <1>9, <2>2, <2>3
  <2> HIDE DEF m
  <2> QED BY <1>5, <1>8, <1>9, <2>2, <2>3, <2>4
<1>11. e.op = out[m].op /\ e.id = out[m].id /\ e.payload = out[m].payload
  BY <1>8, <1>10
<1>12. m = 1 => vetted = state
  <2> SUFFICES ASSUME m = 1 PROVE vetted = state
    OBVIOUS
  <2>1. Len(lines) = Len(log.lines)
    BY <1>9
  <2>2. IsSeq(lines) /\ IsSeq(todo) /\ IsSeq(log.lines)
    BY <1>1, <1>4, LinesAreSeq DEF todo
  <2>3. /\ \A i \in 1..Len(log.lines) : (log.lines \o todo)[i] = log.lines[i]
        /\ \A i \in 1..Len(lines) : (lines \o batch)[i] = lines[i]
    BY <1>8, <2>2, SeqConcat
  <2>4. lines = log.lines
    BY <1>5, <2>1, <2>2, <2>3, SameElements
  <2>5. StateNow = Materialize(baseline, log.lines)
    BY <1>1, NowIs DEF StateNow
  <2>6. Current = StateNow
    BY <1>1, WhoIsThere DEF Current
  <2> QED BY <1>5, <2>4, <2>5, <2>6 DEF lines
<1> HIDE DEF m, vetted, past, c
<1>13. e.op \in EventOps
  BY <1>7, <1>10, <1>11 DEF IsEvents
<1>14. /\ out[m].op \in {"Create", "Update"} => m = 1
       /\ out[m].id \in DOMAIN vetted <=> out[m].op # "Create"
  <2>1. IsCommand(c) /\ c.cmd \in Writers /\ out = Build(c, vetted, past).out
    BY <1>3 DEF c, out
  <2>2. m \in 1..Len(out)
    BY <1>10
  <2> HIDE DEF Inv, Grown
  <2> QED BY ONLY <2>1, <2>2, BatchInOrder
<1>15. ASSUME NEW k, IsClaimed(k)
       PROVE  ClaimsFairly(vetted, k, out[m], m)
  <2>1. HasNoDefault(k) /\ (c.cmd = "update" => OnlyClaims(c, k))
    BY <1>3, <1>15 DEF IsClaimed, c
  <2> QED BY <1>3, <1>10, <2>1, BatchClaims DEF c, out
<1> QED BY <1>11, <1>12, <1>13, <1>14, <1>15 DEF ClaimsFairly

\* A field once claimed stays taken until its task is deleted.
Claimed ==
    \A k : IsClaimed(k) =>
        \A i \in Len(Genesis) + 1 .. Len(hist) :
            /\ hist[i].op = "Update" /\ k \in DOMAIN hist[i].payload
            /\ \A n \in i..Len(hist) : ~ (hist[n].op = "Delete" /\ hist[n].id = hist[i].id)
            => Taken(StateOf(hist), hist[i].id, k)

ClaimInv ==
    /\ \A p \in Procs : Grown(p)
    /\ Len(Genesis) <= Len(hist)
    /\ AllTasks(StateOf(hist))
    /\ Claimed
    /\ OneWinner

\* The history goes on by one event.
LEMMA ClaimGoesOn ==
    ASSUME IsSeq(hist), Len(Genesis) \in Nat, ClaimInv,
           NEW e, NEW next, next = Append(hist, e), NEW state, state = StateOf(hist),
           e.op \in EventOps,
           e.op = "Create" => e.id \notin DOMAIN state,
           \A k : IsClaimed(k) =>
               /\ e.op = "Update" /\ k \in DOMAIN e.payload =>
                     e.id \in DOMAIN state /\ ~ Taken(state, e.id, k) /\ Fills(e.payload[k])
               /\ e.op \in {"Append", "Add", "Remove"} => k \notin DOMAIN e.payload,
           hist' = next
    PROVE  Len(Genesis) <= Len(next) /\ AllTasks(StateOf(next)) /\ Claimed' /\ OneWinner'
<1> DEFINE n == Len(hist)
           g == Len(Genesis)
<1>1. /\ n \in Nat /\ g \in Nat /\ g <= n /\ Len(next) = n + 1 /\ next[n + 1] = e
      /\ \A i \in 1..n : next[i] = hist[i]
  BY SeqBasics, SeqAppend DEF ClaimInv
<1>2. StateOf(next) = Apply(state, e)
  BY MaterializeAppend DEF StateOf
<1>3. AllTasks(state)
  BY DEF ClaimInv
<1>4. AllTasks(StateOf(next))
  BY <1>2, <1>3, ApplyKeepsTasks
<1> HIDE DEF n
\* A task whose field is taken, and not deleted now, keeps it; unless it is claimed
\* again, which it is not.
<1>5. ASSUME NEW k, IsClaimed(k), NEW i \in g + 1 .. n + 1,
             next[i].op = "Update", k \in DOMAIN next[i].payload,
             \A j \in i..n + 1 : ~ (next[j].op = "Delete" /\ next[j].id = next[i].id)
      PROVE  Taken(StateOf(next), next[i].id, k)
  <2>1. CASE i = n + 1
    BY <1>1, <1>2, <1>3, <1>5, <2>1, TakenNow
  <2>2. CASE i # n + 1
    <3>1. i \in g + 1 .. n /\ i \in 1..n /\ n + 1 \in i..n + 1
      BY <1>1, <2>2
    <3>2. \A j \in i..n : j \in i..n + 1 /\ next[j] = hist[j]
      BY <1>1, <3>1
    <3>3. Taken(state, hist[i].id, k)
      <4>1. hist[i] = next[i]
        BY <1>1, <3>1
      <4>2. \A j \in i..n : ~ (hist[j].op = "Delete" /\ hist[j].id = hist[i].id)
        BY <1>5, <3>2, <4>1
      <4> QED BY <1>5, <3>1, <4>1, <4>2 DEF ClaimInv, Claimed, n
    <3>4. ~ (e.op = "Delete" /\ e.id = next[i].id)
      BY <1>1, <1>5, <3>1
    <3>5. /\ e.op = "Delete" => e.id # hist[i].id
          /\ e.id = hist[i].id /\ e.op \in {"Update", "Append", "Add", "Remove"}
                => k \notin DOMAIN e.payload
      BY <1>1, <1>5, <3>1, <3>3, <3>4
    <3>6. Taken(Apply(state, e), hist[i].id, k)
      BY <1>3, <3>3, <3>5, TakenStays
    <3> QED BY <1>1, <1>2, <3>1, <3>6
  <2> QED BY <2>1, <2>2
<1>6. Claimed'
  BY <1>1, <1>5 DEF Claimed, IsClaimed
<1>7. ASSUME NEW i \in g + 1 .. n + 1, NEW j \in g + 1 .. n + 1, i < j,
             next[i].op = "Update", next[j].op = "Update", next[i].id = next[j].id,
             NEW k \in DOMAIN next[i].payload \cap DOMAIN next[j].payload, IsClaimed(k)
      PROVE  \E m \in i..j : next[m].op = "Delete" /\ next[m].id = next[i].id
  <2>1. i \in g + 1 .. n /\ i \in 1..n /\ hist[i] = next[i]
    BY <1>1, <1>7
  <2>2. CASE j = n + 1
    <3>1. ~ Taken(state, hist[i].id, k)
      BY <1>1, <1>7, <2>1, <2>2
    <3>2. PICK m \in i..n : hist[m].op = "Delete" /\ hist[m].id = hist[i].id
      BY <1>7, <2>1, <3>1 DEF ClaimInv, Claimed, n
    <3>3. m \in i..j /\ next[m] = hist[m]
      BY <1>1, <2>1, <2>2
    <3> QED BY <2>1, <3>2, <3>3
  <2>3. CASE j # n + 1
    <3>1. j \in g + 1 .. n /\ hist[j] = next[j]
      BY <1>1, <2>3
    <3>2. PICK m \in i..j : hist[m].op = "Delete" /\ hist[m].id = hist[i].id
      BY <1>7, <2>1, <3>1 DEF ClaimInv, OneWinner, n
    <3>3. next[m] = hist[m]
      BY <1>1, <2>1, <3>1
    <3> QED BY <2>1, <3>2, <3>3
  <2> QED BY <2>2, <2>3
<1>8. OneWinner'
  BY <1>1, <1>7 DEF OneWinner, IsClaimed
<1> QED BY <1>1, <1>4, <1>6, <1>8

\* Whoever writes a batch is alone in changing the log.
LEMMA GrownNext ==
    ASSUME Sheltered, Inv, NEW p \in Procs, Acts(p), \A q \in Procs : Grown(q)
    PROVE  \A q \in Procs : Grown(q)'
<1> USE DEF Inv, Base, TypeOK, PcValues
<1>1. ASSUME NEW q \in Procs \ {p} PROVE Grown(q)'
  <2>1. pc'[q] = pc[q] /\ mem'[q] = mem[q] /\ (pc[p] \notin Locked => log' = log)
    BY Frame
  <2>2. pc[q] \in Writing => pc[p] \notin Locked
    BY DEF MutualExclusion, Locked, Writing
  <2> QED BY <2>1, <2>2 DEF Grown
<1>2. Grown(p)'
  <2>1. CASE pc'[p] \notin Writing \/ ~ IsWriter(mem'[p].cmd)
    BY <2>1 DEF Grown
  <2>2. CASE pc'[p] \in Writing /\ IsWriter(mem'[p].cmd)
    <3>1. Step(p) /\ mem'[p].cmd = mem[p].cmd
      <4>1. ~ \E c \in Commands : Start(p, c)
        BY <2>2 DEF Start, Writing
      <4>2. Step(p)
        BY <4>1, NobodyDies DEF Acts
      <4>3. ~ Finish(p)
        BY <2>2, Finished DEF Writing
      <4> QED BY <4>2, <4>3, StepGoesOn
    <3>2. pc[p] \in {"lock", "vet"} \cup Writing
      BY <2>2, <3>1 DEF Role
    <3>3. AreLines(log.lines) /\ AreLines(mem[p].todo) /\ DOMAIN mem = Procs /\ IsMem(mem[p])
      BY DEF IsFile, IsMem
    <3>4. CASE Accept(p)
      <4>1. log' = log /\ \E todo, goal : mem'[p] = Holding(mem[p], baseline, log, todo, {}, goal)
        BY <3>3, <3>4 DEF Accept
      <4>2. mem'[p].seen = log
        BY <4>1, Held
      <4>3. Len(log.lines) <= Len(log.lines)
        BY <3>3, LinesDomain
      <4> QED BY <4>1, <4>2, <4>3 DEF Grown
    <3>5. CASE SkipLine(p) \/ WriteBody(p) \/ WriteNewline(p)
      <4>1. mem'[p].seen = mem[p].seen /\ pc[p] \in Writing
        BY <3>3, <3>5 DEF SkipLine, WriteBody, WriteNewline, Writing, IsMem
      <4>2. Len(log.lines) <= Len(log'.lines) /\ Len(log'.lines) \in Nat
        <5>1. CASE SkipLine(p) \/ WriteNewline(p)
          <6>1. log'.lines = log.lines
            BY <5>1 DEF SkipLine, WriteNewline, PutNewline, Content
          <6> QED BY <3>3, <6>1, LinesDomain
        <5>2. CASE WriteBody(p)
          <6> DEFINE e == Head(mem[p].todo)
          <6>1. pc[p] = "write" /\ lock = p /\ log' = PutBody(log, e) /\ mem[p].todo # << >>
            BY <5>2 DEF WriteBody, MutualExclusion, Locked
          <6>2. log.ended
            BY <6>1 DEF Whole
          <6>3. log'.lines = Append(log.lines, e) /\ e.seq \in Nat
            BY <3>3, <6>1, <6>2, TailLines DEF PutBody, Content
          <6> HIDE DEF e
          <6>4. Len(log'.lines) = Len(log.lines) + 1
            BY <3>3, <6>3, AppendLines
          <6> QED BY <3>3, <6>4, LinesDomain
        <5> QED BY <3>5, <5>1, <5>2
      <4>3. Len(mem[p].seen.lines) <= Len(log.lines)
        BY <2>2, <3>1, <4>1 DEF Grown
      <4>4. Len(mem[p].seen.lines) \in Nat /\ Len(log.lines) \in Nat
        <5>1. AreLines(mem[p].seen.lines)
          BY <2>2, <3>1, <4>1 DEF Data, Accepted
        <5> QED BY <3>3, <5>1, LinesDomain
      <4> QED BY <4>1, <4>2, <4>3, <4>4 DEF Grown
    <3>6. CASE Lock(p)
      BY <2>2, <3>1, <3>6 DEF Lock, TakeLock, Writing
    <3>7. CASE Decline(p) \/ Unlock(p)
      <4>1. Finish(p)
        BY <3>7 DEF Decline, Unlock
      <4> QED BY <2>2, <4>1, Finished DEF Writing
    <3>8. /\ ~ LoadBaseline(p) /\ ~ LoadLogStops(p) /\ ~ LoadLogToRead(p) /\ ~ Show(p)
          /\ ~ LoadLogToCompact(p) /\ ~ LoadLogToResolve(p) /\ ~ Reload(p)
          /\ ~ TruncateBaseline(p) /\ ~ WriteBaselineTask(p) /\ ~ TruncateLog(p)
      BY <3>2 DEF LoadBaseline, LoadLogStops, LoadLogToRead, Show, LoadLogToCompact,
                  LoadLogToResolve, Reload, TruncateBaseline, WriteBaselineTask, TruncateLog,
                  Writing
    <3> QED BY <3>1, <3>4, <3>5, <3>6, <3>7, <3>8 DEF Step
  <2> QED BY <2>1, <2>2
<1> QED BY <1>1, <1>2

LEMMA ClaimInvNext ==
    ASSUME Sheltered, Inv, ReadInv, ClaimInv, [Next]_vars
    PROVE  ClaimInv'
<1>1. Len(Genesis) \in Nat
  BY GenesisAssumption, LinesDomain
<1>2. ASSUME hist' = hist, \A p \in Procs : Grown(p)' PROVE ClaimInv'
  BY <1>2 DEF ClaimInv, Claimed, OneWinner, IsClaimed, StateOf
<1>3. ASSUME NEW p \in Procs, Acts(p) PROVE ClaimInv'
  <2>1. \A q \in Procs : Grown(q)'
    BY <1>3, GrownNext DEF ClaimInv
  <2>2. CASE ~ (WriteBody(p) /\ IsWriter(mem[p].cmd))
    BY <1>2, <1>3, <2>1, <2>2, HistoryKept
  <2>3. CASE WriteBody(p) /\ IsWriter(mem[p].cmd)
    <3> DEFINE e == Head(mem[p].todo)
               state == StateOf(hist)
               next == Append(hist, e)
    <3>1. hist' = next
      BY <2>3 DEF WriteBody
    <3>2. Inv /\ Current = state /\ Grown(p) /\ IsSeq(hist)
      BY DEF ReadInv, ClaimInv
    <3> HIDE DEF e, state, next
    <3>3. /\ e.op \in EventOps
          /\ e.op = "Create" => e.id \notin DOMAIN state
          /\ \A k : IsClaimed(k) =>
                /\ e.op = "Update" /\ k \in DOMAIN e.payload =>
                      e.id \in DOMAIN state /\ ~ Taken(state, e.id, k) /\ Fills(e.payload[k])
                /\ e.op \in {"Append", "Add", "Remove"} => k \notin DOMAIN e.payload
      BY <2>3, <3>2, ClaimEnters DEF e, state
    <3>4. next = Append(hist, e) /\ state = StateOf(hist)
      BY DEF next, state
    <3>5. Len(Genesis) <= Len(next) /\ AllTasks(StateOf(next)) /\ Claimed' /\ OneWinner'
      BY <1>1, <3>1, <3>2, <3>3, <3>4, ClaimGoesOn
    <3> QED BY <2>1, <3>1, <3>5 DEF ClaimInv, StateOf
  <2> QED BY <2>2, <2>3
<1>4. CASE UNCHANGED vars
  <2>1. hist' = hist /\ \A p \in Procs : Grown(p)'
    BY <1>4 DEF vars, ClaimInv, Grown
  <2> QED BY <1>2, <2>1
<1> QED BY <1>3, <1>4 DEF Next, Acts, Quiet

\* Of the processes that claim a field under --if field=, one wins: nobody writes
\* a claim over another while the task is there, since the condition is checked under
\* the lock the batch is written under (vet_events and ensure_guard in
\* append_checked's closure).
THEOREM OneClaimWins ==
    ASSUME Sheltered
    PROVE  Spec => []OneWinner
<1>1. Init => ReadInv
  BY ReadInvInit
<1>2. Init => ClaimInv
  <2> SUFFICES ASSUME Init PROVE ClaimInv
    OBVIOUS
  <2>1. hist = Genesis /\ \A p \in Procs : pc[p] = "idle"
    BY DEF Init
  <2>2. IsSeq(Genesis) /\ Len(Genesis) \in Nat /\ IsEvents(Genesis)
    BY GenesisAssumption, LinesAreSeq, LinesDomain DEF IsEvents
  <2>3. AllTasks(StateOf(hist))
    <3>1. AllTasks(<< >>)
      BY DEF AllTasks
    <3> QED BY <2>1, <2>2, <3>1, MaterializeKeepsTasks DEF StateOf
  <2>4. \A i \in Len(Genesis) + 1 .. Len(hist) : FALSE
    BY <2>1, <2>2
  <2> QED BY <2>1, <2>2, <2>3, <2>4 DEF ClaimInv, Claimed, OneWinner, Grown, Writing
<1>3. Inv /\ ReadInv /\ [Next]_vars => ReadInv'
  BY ReadInvNext
<1>4. Inv /\ ReadInv /\ ClaimInv /\ [Next]_vars => ClaimInv'
  BY ClaimInvNext
<1>5. ClaimInv => OneWinner
  BY DEF ClaimInv
<1> QED BY <1>1, <1>2, <1>3, <1>4, <1>5, InvAlways, PTL DEF Spec
=============================================================================
