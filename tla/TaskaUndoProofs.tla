-------------------------- MODULE TaskaUndoProofs ---------------------------
(***************************************************************************)
(* What undo does to a log, for every log, baseline and choice of targets: *)
(* the log it plans is a history again, it shows of each task what was     *)
(* promised, and that is what the events that stand tell, as if those      *)
(* undone had never been logged.                                           *)
(***************************************************************************)
EXTENDS TaskaUndo, TaskaFoldProofs

----------------------------------------------------------------------------
(* Histories: logs whose marks are sound.                                  *)

\* No event has the seq that stands for none.
Counted(events) == \A i \in 1..Len(events) : events[i].seq # NoUndo

\* A log that loads, of events replay knows, with sound marks.
IsHistory(events) ==
    IsLog(events) /\ IsEvents(events) /\ MarksAreSound(events) /\ Counted(events)

\* Some events of a history, in order, are one.
LEMMA PartOfHistory ==
    ASSUME NEW events, IsHistory(events), NEW part, IsLog(part),
           \A i \in 1..Len(part) : \E j \in 1..Len(events) : part[i] = events[j]
    PROVE  IsHistory(part)
<1>1. DOMAIN events = 1..Len(events) /\ DOMAIN part = 1..Len(part) /\ IsSeq(part)
  BY LogBasics DEF IsHistory
<1>2. IsEvents(part)
  BY <1>1 DEF IsHistory, IsEvents
<1>3. MarksAreSound(part)
  BY <1>1 DEF IsHistory, MarksAreSound
<1>4. Counted(part)
  BY DEF IsHistory, Counted
<1> QED BY <1>2, <1>3, <1>4 DEF IsHistory

\* A history goes on with events that are numbered on and whose marks name
\* original events in it.
LEMMA LongerHistory ==
    ASSUME NEW events, IsHistory(events), NEW more, IsSeq(more),
           \A i \in 1..Len(more) :
              /\ "seq" \in DOMAIN more[i] /\ more[i].seq = NextSeq(events) + i - 1
              /\ more[i].op \in EventOps
              /\ more[i].undoes # NoUndo =>
                    \E j \in 1..Len(events) : /\ events[j].seq = more[i].undoes
                                              /\ events[j].undoes = NoUndo
                                              /\ events[j].id = more[i].id
    PROVE  IsHistory(events \o more)
<1> DEFINE all == events \o more
<1>0. NextSeq(events) \in Nat \ {0}
  BY NextSeqIsNext DEF IsHistory
<1>1. PICK fork \in Nat : NextSeq(events) = fork + 1
  <2>1. \A n \in Nat \ {0} : n - 1 \in Nat /\ n = (n - 1) + 1
    OBVIOUS
  <2> QED BY <1>0, <2>1
<1>2. PICK n \in Nat : n = Len(events)
  BY LogBasics DEF IsHistory
<1>3. PICK m \in Nat : m = Len(more)
  BY SeqBasics
<1>4. \A i \in 1..n : events[i].seq \in Nat /\ events[i].seq <= fork
  BY <1>1, <1>2, NextSeqIsNext, LogBasics DEF IsHistory
<1>5. \A i \in 1..m : more[i].seq = fork + i
  BY <1>1, <1>3
<1>6. IsLog(all)
  BY <1>2, <1>3, <1>4, <1>5, StackedLog DEF IsHistory
<1>7. /\ Len(all) = n + m /\ DOMAIN all = 1..(n + m) /\ IsSeq(all)
      /\ \A i \in 1..n : all[i] = events[i]
      /\ \A i \in 1..m : all[n + i] = more[i]
  <2>1. IsSeq(events)
    BY LogBasics DEF IsHistory
  <2>2. IsSeq(all) /\ Len(all) = n + m
    BY <1>2, <1>3, <2>1, SeqConcat
  <2>3. (\A i \in 1..n : all[i] = events[i]) /\ (\A i \in 1..m : all[n + i] = more[i])
    BY <1>2, <1>3, <2>1, SeqConcat
  <2> HIDE DEF all
  <2> QED BY <2>2, <2>3, SeqBasics
<1> HIDE DEF all
<1>8. \A i \in 1..(n + m) : i \in 1..n \/ (i - n \in 1..m /\ i = n + (i - n))
  OBVIOUS
<1>9. IsEvents(all)
  <2>1. ASSUME NEW i \in 1..(n + m) PROVE all[i].op \in EventOps
    <3>1. CASE i \in 1..n
      BY <1>2, <1>7, <3>1 DEF IsHistory, IsEvents
    <3>2. CASE i - n \in 1..m /\ i = n + (i - n)
      BY <1>3, <1>7, <3>2
    <3> QED BY <1>8, <3>1, <3>2
  <2> QED BY <1>7, <2>1 DEF IsEvents
<1>10. MarksAreSound(all)
  <2> SUFFICES ASSUME NEW i \in 1..(n + m), all[i].undoes # NoUndo
               PROVE  /\ all[i].undoes < all[i].seq
                      /\ \A j \in 1..(n + m) : all[j].seq = all[i].undoes =>
                            all[j].undoes = NoUndo /\ all[j].id = all[i].id
    BY <1>7 DEF MarksAreSound
  <2>0. DOMAIN events = 1..n
    BY <1>2, LogBasics DEF IsHistory
  <2>1. CASE i \in 1..n
    <3>1. all[i] = events[i] /\ all[i].seq <= fork
      BY <1>4, <1>7, <2>1
    <3>2. all[i].undoes < all[i].seq
      BY <2>0, <2>1, <3>1 DEF IsHistory, MarksAreSound
    <3>3. ASSUME NEW j \in 1..(n + m), all[j].seq = all[i].undoes
          PROVE  all[j].undoes = NoUndo /\ all[j].id = all[i].id
      <4>1. CASE j \in 1..n
        BY <1>7, <2>0, <2>1, <3>1, <3>3, <4>1, SMTT(30) DEF IsHistory, MarksAreSound
      <4>2. CASE j - n \in 1..m /\ j = n + (j - n)
        <5>1. all[j].seq = fork + (j - n)
          BY <1>5, <1>7, <4>2, ZenonT(60)
        <5>2. all[i].seq \in Nat
          BY <1>4, <2>1, <3>1
        <5> QED BY <3>1, <3>2, <3>3, <4>2, <5>1, <5>2
      <4> QED BY <1>8, <4>1, <4>2
    <3> QED BY <3>2, <3>3
  <2>2. CASE i - n \in 1..m /\ i = n + (i - n)
    <3>1. all[i] = more[i - n] /\ all[i].seq = fork + (i - n)
      BY <1>5, <1>7, <2>2, SMTT(30)
    <3>2. PICK k \in 1..n : /\ events[k].seq = all[i].undoes
                            /\ events[k].undoes = NoUndo /\ events[k].id = all[i].id
      BY <1>2, <1>3, <2>2, <3>1, ZenonT(60)
    <3>3. all[i].undoes \in Nat /\ all[i].undoes <= fork
      BY <1>4, <3>2
    <3>4. all[i].undoes < all[i].seq
      BY <2>2, <3>1, <3>3
    <3>5. ASSUME NEW j \in 1..(n + m), all[j].seq = all[i].undoes
          PROVE  all[j].undoes = NoUndo /\ all[j].id = all[i].id
      <4>1. CASE j \in 1..n
        <5>1. events[j].seq = events[k].seq
          BY <1>7, <3>2, <3>5, <4>1
        <5>2. \A a, b \in 1..n : a < b => events[a].seq < events[b].seq
          BY <1>2, LogBasics DEF IsHistory
        <5>3. j = k
          <6>1. ~ (j < k) /\ ~ (k < j)
            BY <1>4, <4>1, <5>1, <5>2
          <6> QED BY <4>1, <6>1
        <5> QED BY <1>7, <3>2, <5>3
      <4>2. CASE j - n \in 1..m /\ j = n + (j - n)
        <5>1. all[j].seq = fork + (j - n)
          BY <1>5, <1>7, <4>2, ZenonT(60)
        <5> QED BY <3>3, <3>5, <4>2, <5>1
      <4> QED BY <1>8, <4>1, <4>2
    <3> QED BY <3>4, <3>5
  <2> QED BY <1>8, <2>1, <2>2
<1>11. Counted(all)
  <2>1. ASSUME NEW i \in 1..(n + m) PROVE all[i].seq # NoUndo
    <3>1. CASE i \in 1..n
      BY <1>2, <1>7, <3>1 DEF IsHistory, Counted
    <3>2. CASE i - n \in 1..m /\ i = n + (i - n)
      <4>1. all[i].seq = fork + (i - n)
        BY <1>5, <1>7, <3>2
      <4> QED BY <3>2, <4>1 DEF NoUndo
    <3> QED BY <1>8, <3>1, <3>2
  <2> QED BY <1>7, <2>1 DEF Counted
<1>12. IsHistory(all)
  BY <1>6, <1>9, <1>10, <1>11 DEF IsHistory
<1> QED BY <1>12 DEF all

\* Seqs tell the events of a log apart.
LEMMA SeqsDiffer ==
    ASSUME NEW events, IsLog(events), NEW i \in 1..Len(events), NEW j \in 1..Len(events),
           events[i].seq = events[j].seq
    PROVE  i = j
<1>1. Len(events) \in Nat /\ \A a, b \in 1..Len(events) : a < b => events[a].seq < events[b].seq
  BY LogBasics
<1>2. \A a \in 1..Len(events) : events[a].seq \in Nat
  BY LogBasics
<1>3. i < j \/ j < i \/ i = j
  BY <1>1
<1> QED BY <1>1, <1>2, <1>3

\* A mark reverses an event before it.
LEMMA MarksPointBack ==
    ASSUME NEW events, IsHistory(events), NEW i \in 1..Len(events), events[i].undoes # NoUndo,
           NEW j \in 1..Len(events), events[j].seq = events[i].undoes
    PROVE  j < i
<1>1. IsLog(events) /\ Len(events) \in Nat /\ DOMAIN events = 1..Len(events)
  BY LogBasics DEF IsHistory
<1>2. events[j].seq < events[i].seq
  BY <1>1 DEF IsHistory, MarksAreSound
<1>3. \A a, b \in 1..Len(events) : a < b => events[a].seq < events[b].seq
  BY <1>1, LogBasics
<1>4. events[j].seq \in Nat /\ events[i].seq \in Nat
  BY <1>1, LogBasics
<1>5. ~ (i < j) /\ i # j
  BY <1>2, <1>3, <1>4
<1> QED BY <1>1, <1>5

----------------------------------------------------------------------------
(* Parts of a log.                                                         *)

LEMMA PickedAreEvents ==
    ASSUME NEW events, IsEvents(events), NEW places
    PROVE  IsEvents(Picked(events, places))
<1> DEFINE s == Picked(events, places)
<1>1. IsSeq(s) /\ \A i \in 1..Len(s) : \E j \in 1..Len(events) : s[i] = events[j]
  BY PickedEvents DEF IsEvents
<1> HIDE DEF s
<1>2. IsEvents(s)
  BY <1>1 DEF IsEvents
<1> QED BY <1>2 DEF s

LEMMA FromNothing ==
    ASSUME NEW F, IsEvents(F)
    PROVE  IsStored(Materialize(<< >>, F)) /\ AllTasks(Materialize(<< >>, F))
<1>1. IsStored(<< >>)
  BY FS_EmptySet DEF IsStored, AllTasks
<1> QED BY <1>1, MaterializeKeepsStored DEF IsStored

LEMMA JoinedIsSeq ==
    ASSUME NEW u, IsSeq(u), NEW v, IsSeq(v)
    PROVE  IsSeq(Joined(u, v)) /\ (IsEvents(u) /\ IsEvents(v) => IsEvents(Joined(u, v)))
<1>1. PICK all : all = u \o v
  OBVIOUS
<1>2. Len(u) \in Nat /\ Len(v) \in Nat
  BY SeqBasics
<1>3. /\ IsSeq(all) /\ Len(all) = Len(u) + Len(v)
      /\ \A i \in 1..Len(u) : all[i] = u[i]
      /\ \A i \in 1..Len(v) : all[Len(u) + i] = v[i]
  BY <1>1, SeqConcat
<1>4. ASSUME IsEvents(u), IsEvents(v) PROVE IsEvents(all)
  <2>1. ASSUME NEW i \in 1..Len(all) PROVE all[i].op \in EventOps
    <3>1. CASE i \in 1..Len(u)
      BY <1>3, <1>4, <3>1 DEF IsEvents
    <3>2. CASE i \notin 1..Len(u)
      <4>1. i - Len(u) \in 1..Len(v) /\ Len(u) + (i - Len(u)) = i
        BY <1>2, <1>3, <3>2
      <4>2. all[i] = v[i - Len(u)]
        BY <1>3, <4>1
      <4> QED BY <1>4, <4>1, <4>2 DEF IsEvents
    <3> QED BY <3>1, <3>2
  <2> QED BY <1>3, <2>1 DEF IsEvents
<1> QED BY <1>1, <1>3, <1>4 DEF Joined

----------------------------------------------------------------------------
(* Compensations.                                                          *)

\* Drafts of events of one task.
AreDrafts(s, id) == IsEvents(s) /\ \A i \in 1..Len(s) : s[i].id = id

LEMMA NoDraftOrOne ==
    ASSUME NEW id
    PROVE  /\ AreDrafts(<< >>, id)
           /\ \A op \in EventOps : \A payload : AreDrafts(<< Draft(op, id, payload) >>, id)
<1>1. AreDrafts(<< >>, id)
  BY NoEvents, SeqEmpty DEF AreDrafts
<1>2. ASSUME NEW op \in EventOps, NEW payload PROVE AreDrafts(<< Draft(op, id, payload) >>, id)
  <2> DEFINE d == Draft(op, id, payload)
  <2>1. d.op \in EventOps /\ d.id = id
    BY DEF Draft
  <2> HIDE DEF d
  <2>2. IsEvents(<< d >>) /\ Len(<< d >>) = 1 /\ << d >>[1] = d
    BY <2>1, OneEvent
  <2>3. AreDrafts(<< d >>, id)
    BY <2>1, <2>2 DEF AreDrafts
  <2> QED BY <2>3 DEF d
<1> QED BY <1>1, <1>2

LEMMA MoreDrafts ==
    ASSUME NEW id, NEW s, AreDrafts(s, id), NEW t, AreDrafts(t, id)
    PROVE  AreDrafts(s \o t, id)
<1> DEFINE u == s \o t
<1>1. /\ IsSeq(u) /\ Len(u) = Len(s) + Len(t)
      /\ \A i \in 1..Len(s) : u[i] = s[i]
      /\ \A i \in 1..Len(t) : u[Len(s) + i] = t[i]
  BY SeqConcat DEF AreDrafts, IsEvents
<1>2. Len(s) \in Nat /\ Len(t) \in Nat
  BY SeqBasics DEF AreDrafts, IsEvents
<1>3. IsEvents(u)
  BY MoreEvents DEF AreDrafts
<1> HIDE DEF u
<1>4. ASSUME NEW i \in 1..Len(u) PROVE u[i].id = id
  <2>1. CASE i \in 1..Len(s)
    BY <1>1, <2>1 DEF AreDrafts
  <2>2. CASE i \notin 1..Len(s)
    <3>1. i - Len(s) \in 1..Len(t) /\ Len(s) + (i - Len(s)) = i
      BY <1>1, <1>2, <2>2
    <3>2. u[i] = t[i - Len(s)]
      BY <1>1, <3>1
    <3> QED BY <3>1, <3>2 DEF AreDrafts
  <2> QED BY <2>1, <2>2
<1>5. AreDrafts(u, id)
  BY <1>3, <1>4 DEF AreDrafts
<1> QED BY <1>5 DEF u

LEMMA EdgeDraftsAreDrafts ==
    ASSUME NEW op \in EventOps, NEW id, NEW edges, IsFiniteSet(edges)
    PROVE  AreDrafts(EdgeDrafts(op, id, edges), id)
<1> DEFINE all == {Draft(op, id, e) : e \in edges}
           f == [e \in edges |-> Draft(op, id, e)]
           s == EdgeDrafts(op, id, edges)
<1>1. s = SetToSeq(all)
  BY DEF EdgeDrafts
<1>2. all = {f[e] : e \in edges}
  OBVIOUS
<1>3. \A d \in all : d.op = op /\ d.id = id
  BY DEF Draft
<1> HIDE DEF all, f, s
<1>4. IsFiniteSet(all)
  BY <1>2, FiniteImage
<1>5. IsSeq(s) /\ \A i \in 1..Len(s) : s[i] \in all
  BY <1>1, <1>4, SetInOrder
<1>6. AreDrafts(s, id)
  BY <1>3, <1>5 DEF AreDrafts, IsEvents
<1> QED BY <1>6 DEF s

\* What takes a task from a state to another are drafts of its events.
LEMMA CompensateIsDrafts ==
    ASSUME NEW from, IsStored(from), NEW to, IsStored(to), NEW id
    PROVE  AreDrafts(Compensate(from, to, id), id)
<1>1. CASE id \in (DOMAIN from) \ DOMAIN to
  <2>1. Compensate(from, to, id) = << Draft("Delete", id, << >>) >>
    BY <1>1 DEF Compensate
  <2> QED BY <2>1, NoDraftOrOne DEF EventOps
<1>2. CASE id \in (DOMAIN to) \ DOMAIN from
  <2> DEFINE create == << Draft("Create", id, to[id].fields) >>
             links == EdgeDrafts("AddEdge", id, to[id].edges)
  <2>1. Compensate(from, to, id) = create \o links
    BY <1>2 DEF Compensate
  <2>2. AreDrafts(create, id)
    BY NoDraftOrOne DEF EventOps
  <2>3. AreDrafts(links, id)
    BY <1>2, EdgeDraftsAreDrafts DEF EventOps, IsStored
  <2> HIDE DEF create, links
  <2> QED BY <2>1, <2>2, <2>3, MoreDrafts
<1>3. CASE id \in (DOMAIN from) \cap DOMAIN to
  <2> DEFINE f == from[id]
             t == to[id]
             changed == {k \in DOMAIN f.fields \cup DOMAIN t.fields :
                            Value(f.fields, k) # Value(t.fields, k)}
             payload == [k \in changed |-> Value(t.fields, k)]
             fields == IF changed = {} THEN << >> ELSE << Draft("Update", id, payload) >>
             links == EdgeDrafts("AddEdge", id, t.edges \ f.edges)
             unlinks == EdgeDrafts("RemoveEdge", id, f.edges \ t.edges)
  <2>1. Compensate(from, to, id) = fields \o links \o unlinks
    BY <1>3 DEF Compensate
  <2>2. AreDrafts(fields, id)
    BY NoDraftOrOne DEF EventOps
  <2>3. IsFiniteSet(t.edges \ f.edges) /\ IsFiniteSet(f.edges \ t.edges)
    BY <1>3, FS_Difference DEF IsStored
  <2>4. AreDrafts(links, id) /\ AreDrafts(unlinks, id)
    BY <2>3, EdgeDraftsAreDrafts DEF EventOps
  <2> HIDE DEF fields, links, unlinks
  <2> QED BY <2>1, <2>2, <2>4, MoreDrafts
<1>4. CASE id \notin (DOMAIN from) \cup DOMAIN to
  <2>1. Compensate(from, to, id) = << >>
    BY <1>4 DEF Compensate
  <2> QED BY <2>1, NoDraftOrOne
<1> QED BY <1>1, <1>2, <1>3, <1>4

\* The compensations of some events each carry the mark of one of them, and are
\* drafts of its task.
LEMMA BuriedAreMarked ==
    ASSUME NEW base, IsStored(base), NEW events, IsEvents(events),
           NEW targets, IsSeq(targets), NEW removed, NEW comps,
           comps = BuriedCompensations(base, events, targets, removed)
    PROVE  /\ IsSeq(comps)
           /\ \A i \in 1..Len(comps) : \E k \in 1..Len(targets) :
                 /\ comps[i].undoes = targets[k].seq
                 /\ comps[i].draft.id = targets[k].id /\ comps[i].draft.op \in EventOps
<1> DEFINE StateAfter(k) ==
               Materialize(base, Originals(events, removed \cup {targets[i].seq : i \in 1..k}))
           Diff(k) == Compensate(StateAfter(k - 1), StateAfter(k), targets[k].id)
           Drafts(k) == IF Diff(k) = << >> THEN << Draft("Update", targets[k].id, << >>) >>
                        ELSE Diff(k)
           Reversing(k) ==
               [i \in DOMAIN Drafts(k) |-> [draft |-> Drafts(k)[i], undoes |-> targets[k].seq]]
           list == [k \in DOMAIN targets |-> Reversing(k)]
<1>1. comps = FlattenSeq(list)
  BY DEF BuriedCompensations
<1>2. ASSUME NEW k PROVE IsStored(StateAfter(k))
  <2> DEFINE others == Originals(events, removed \cup {targets[i].seq : i \in 1..k})
  <2>1. IsEvents(others)
    BY PickedAreEvents DEF Originals
  <2> HIDE DEF others
  <2>2. IsStored(Materialize(base, others))
    BY <2>1, MaterializeKeepsStored
  <2> QED BY <2>2 DEF others
<1> HIDE DEF StateAfter
<1>3. ASSUME NEW k PROVE AreDrafts(Drafts(k), targets[k].id)
  <2>1. AreDrafts(Diff(k), targets[k].id)
    BY <1>2, CompensateIsDrafts
  <2>2. AreDrafts(<< Draft("Update", targets[k].id, << >>) >>, targets[k].id)
    BY NoDraftOrOne DEF EventOps
  <2> HIDE DEF Diff
  <2> QED BY <2>1, <2>2
<1> HIDE DEF Drafts
<1>4. ASSUME NEW k
      PROVE  /\ IsSeq(Reversing(k))
             /\ \A i \in 1..Len(Reversing(k)) :
                   /\ Reversing(k)[i].undoes = targets[k].seq
                   /\ Reversing(k)[i].draft.id = targets[k].id
                   /\ Reversing(k)[i].draft.op \in EventOps
  <2> DEFINE d == Drafts(k)
             r == [i \in DOMAIN d |-> [draft |-> d[i], undoes |-> targets[k].seq]]
             S == {r[i] : i \in 1..Len(d)}
  <2>1. IsSeq(d) /\ \A i \in 1..Len(d) : d[i].id = targets[k].id /\ d[i].op \in EventOps
    BY <1>3 DEF AreDrafts, IsEvents
  <2> HIDE DEF d
  <2>2. Len(d) \in Nat /\ DOMAIN d = 1..Len(d)
    BY <2>1, SeqBasics
  <2>3. r \in [1..Len(d) -> S]
    BY <2>2
  <2>4. r \in Seq(S) /\ Len(r) = Len(d)
    BY <2>2, <2>3
  <2>5. \A i \in 1..Len(d) : /\ r[i].undoes = targets[k].seq
                             /\ r[i].draft.id = targets[k].id
                             /\ r[i].draft.op \in EventOps
    BY <2>1, <2>2
  <2>6. Reversing(k) = r
    BY DEF d
  <2> HIDE DEF r
  <2> QED BY <2>4, <2>5, <2>6 DEF IsSeq
<1> HIDE DEF Reversing
<1>5. /\ IsSeq(list) /\ Len(list) = Len(targets)
      /\ \A k \in 1..Len(targets) : list[k] = Reversing(k)
  <2> DEFINE S == {Reversing(k) : k \in 1..Len(targets)}
  <2>1. Len(targets) \in Nat /\ DOMAIN targets = 1..Len(targets)
    BY SeqBasics
  <2>2. list \in [1..Len(targets) -> S]
    BY <2>1
  <2>3. list \in Seq(S) /\ Len(list) = Len(targets)
    BY <2>1, <2>2
  <2> QED BY <2>1, <2>3 DEF IsSeq
<1> HIDE DEF list
<1>6. \A k \in 1..Len(list) : IsSeq(list[k])
  BY <1>4, <1>5
<1>7. IsSeq(comps) /\ \A j \in 1..Len(comps) :
         \E i \in 1..Len(list) : \E k \in 1..Len(list[i]) : comps[j] = list[i][k]
  BY <1>1, <1>5, <1>6, FlattenedElements
<1> QED BY <1>4, <1>5, <1>7, SMTT(30)

----------------------------------------------------------------------------
(* The plan goes on from the log.                                          *)

\* What an undo cuts off, and what it keeps.
LEMMA CutIsInLog ==
    ASSUME NEW events, IsSeq(events), NEW targets, NEW committed \in Nat, NEW remove
    PROVE  LET cut == CutAt(KeptLength(events, targets), committed, remove)
           IN  /\ cut \in Nat /\ (remove = FALSE => committed <= cut)
               /\ \A i \in 1..Len(events) : i > cut => i \in targets
<1> DEFINE spared == KeptLength(events, targets)
           places == {0} \cup (DOMAIN events \ targets)
<1>1. PICK n \in Nat : n = Len(events) /\ DOMAIN events = 1..n
  BY SeqBasics
<1>2. spared \in Nat /\ \A i \in 1..n : i > spared => i \in targets
  <2> DEFINE Tops(s, k) == Max(s) \in 0..k /\ \A x \in s : x <= Max(s)
             G == {k \in 0..n : \A s \in SUBSET (0..k) : 0 \in s => Tops(s, k)}
  <2>1. 0 \in G
    <3>1. ASSUME NEW s \in SUBSET (0..0), 0 \in s PROVE Tops(s, 0)
      <4>1. \A y \in s : y \in Int /\ 0 >= y
        OBVIOUS
      <4>2. Max(s) = 0
        BY <3>1, <4>1, MaxOf
      <4> QED BY <4>1, <4>2
    <3> QED BY <3>1
  <2>2. ASSUME NEW k \in 1..n, k - 1 \in G PROVE k \in G
    <3>1. ASSUME NEW s \in SUBSET (0..k), 0 \in s PROVE Tops(s, k)
      <4>1. CASE k \in s
        <5>1. \A y \in s : y \in Int /\ k >= y
          OBVIOUS
        <5>2. Max(s) = k
          BY <4>1, <5>1, MaxOf
        <5> QED BY <5>1, <5>2
      <4>2. CASE k \notin s
        <5>1. \A y \in 0..k : y = k \/ y \in 0..(k - 1)
          OBVIOUS
        <5>2. s \in SUBSET (0..(k - 1))
          BY <4>2, <5>1
        <5>3. Tops(s, k - 1)
          BY <2>2, <3>1, <5>2
        <5> QED BY <5>3
      <4> QED BY <4>1, <4>2
    <3> QED BY <3>1
  <2> HIDE DEF G
  <2>3. n \in 0..n /\ \A k \in 0..n : k \in G
    BY <2>1, <2>2, UpTo
  <2>4. places \in SUBSET (0..n) /\ 0 \in places
    BY <1>1
  <2> HIDE DEF places
  <2>5. Max(places) \in 0..n /\ \A x \in places : x <= Max(places)
    BY <2>3, <2>4 DEF G
  <2>6. spared = Max(places)
    BY DEF KeptLength, places
  <2> HIDE DEF spared
  <2>7. \A i \in 1..n : i > spared => i \in targets
    <3>1. \A i \in 1..n : i \notin targets => i \in places
      BY <1>1 DEF places
    <3> QED BY <2>5, <2>6, <3>1
  <2> QED BY <2>5, <2>6, <2>7
<1> HIDE DEF spared
<1>3. Max({spared, committed}) = IF spared >= committed THEN spared ELSE committed
  <2>1. CASE spared >= committed
    <3>1. \A y \in {spared, committed} : y \in Int /\ spared >= y
      BY <1>2, <2>1
    <3> QED BY <2>1, <3>1, MaxOf
  <2>2. CASE ~ (spared >= committed)
    <3>1. \A y \in {spared, committed} : y \in Int /\ committed >= y
      BY <1>2, <2>2
    <3> QED BY <2>2, <3>1, MaxOf
  <2> QED BY <2>1, <2>2
<1> DEFINE cut == CutAt(spared, committed, remove)
<1>4. cut \in Nat /\ spared <= cut /\ (remove = FALSE => committed <= cut)
  BY <1>2, <1>3 DEF CutAt
<1> HIDE DEF cut
<1>5. \A i \in 1..Len(events) : i > cut => i \in targets
  BY <1>1, <1>2, <1>4
<1> QED BY <1>4, <1>5 DEF cut, spared

\* A log that keeps the first events of another, and goes on with compensations.  The
\* events it leaves out were none.
GoesOn(new, events, cut) ==
    /\ \A i \in (cut + 1)..Len(events) : events[i].undoes = NoUndo
    /\ \E more :
          /\ IsSeq(more) /\ new = SubSeq(events, 1, cut) \o more
          /\ cut = 0 => Len(more) = 0
          /\ \A i \in 1..Len(more) : /\ more[i].seq = NextSeq(SubSeq(events, 1, cut)) + i - 1
                                     /\ more[i].undoes # NoUndo

\* The log of a plan is a history: what is kept of the log, and compensations.
LEMMA PlanIsHistory ==
    ASSUME NEW base, IsStored(base), NEW events, IsHistory(events), NEW committed \in Nat,
           NEW from, NEW count, NEW remove, NEW p,
           p = UndoPlan(base, events, committed, from, count, remove, 1), p.outcome = "plan"
    PROVE  /\ {"outcome", "log"} \subseteq DOMAIN p
           /\ IsHistory(p.log)
           /\ \E cut \in 0..Len(events) :
                 GoesOn(p.log, events, cut) /\ (remove = FALSE => committed <= cut)
<1> DEFINE targets == SelectTargets(events, from, count)
           seqs    == {events[i].seq : i \in targets}
           ids     == {events[i].id : i \in targets}
           within  == Restrict(base, DOMAIN base \cap ids)
           scoped  == Picked(events, {i \in DOMAIN events : events[i].id \in ids})
           undone  == Undone(scoped)
           spared  == KeptLength(events, targets)
           cut     == CutAt(spared, committed, remove)
           prefix  == SubSeq(events, 1, cut)
           buried  == Reverse(Picked(prefix, targets))
           removed == undone \cup {events[i].seq : i \in (cut + 1)..Len(events)}
           comps   == BuriedCompensations(within, scoped, buried, removed)
           more    == Numbered(prefix, comps, 1)
           all     == prefix \o more
           full    == [outcome |-> "plan", undone |-> seqs,
                       before |-> Materialize(within, scoped),
                       after  |-> Materialize(within, Originals(scoped, undone \cup seqs)),
                       log    |-> all,
                       rewrites |-> remove /\ spared < committed]
<1> DEFINE idle == count = 0 \/ events = << >>
           known == IsTarget(events, from)
<1>1. p = CASE idle \/ (known /\ targets = {}) -> NoPlan
            [] ~ idle /\ ~ known -> [NoPlan EXCEPT !.outcome = "refused"]
            [] ~ idle /\ known /\ targets # {} /\ cut > Len(events) ->
                  [NoPlan EXCEPT !.outcome = "panic"]
            [] OTHER -> full
  BY DEF UndoPlan
<1>2. /\ ~ (cut > Len(events))
      /\ p.log = all /\ {"outcome", "log"} \subseteq DOMAIN p
  <2>1. /\ NoPlan.outcome # "plan" /\ [NoPlan EXCEPT !.outcome = "refused"].outcome # "plan"
        /\ [NoPlan EXCEPT !.outcome = "panic"].outcome # "plan"
    BY DEF NoPlan
  <2> HIDE DEF targets, cut, all, seqs, within, scoped, undone, spared
  <2>2. full.log = all /\ {"outcome", "log"} \subseteq DOMAIN full
    OBVIOUS
  <2> HIDE DEF full
  <2>3. ~ (cut > Len(events)) /\ p = full
    BY <1>1, <2>1
  <2> QED BY <2>2, <2>3
<1> HIDE DEF full
<1>3. \A i \in targets : events[i].undoes = NoUndo
  BY DEF SelectTargets, Undoable
<1>4. IsSeq(events) /\ Len(events) \in Nat /\ DOMAIN events = 1..Len(events)
  BY LogBasics DEF IsHistory
<1>5. /\ cut \in 0..Len(events) /\ (remove = FALSE => committed <= cut)
      /\ \A i \in 1..Len(events) : i > cut => i \in targets
  <2>1. /\ cut \in Nat /\ (remove = FALSE => committed <= cut)
        /\ \A i \in 1..Len(events) : i > cut => i \in targets
    BY <1>4, CutIsInLog
  <2>2. ~ (cut > Len(events)) /\ Len(events) \in Nat
    BY <1>2, <1>4
  <2> HIDE DEF cut
  <2>3. cut \in 0..Len(events)
    BY ONLY <2>1, <2>2
  <2> QED BY <2>1, <2>3, Zenon
<1>6. IsStored(within)
  <2>1. DOMAIN within \in SUBSET DOMAIN base
    BY DEF Restrict
  <2>2. IsFiniteSet(DOMAIN within)
    BY <2>1, FS_Subset DEF IsStored
  <2> QED BY <2>2 DEF IsStored, AllTasks, Restrict
<1>7. IsEvents(scoped)
  BY PickedAreEvents DEF IsHistory
<1> HIDE DEF targets, within, scoped, removed, cut
<1>8. /\ IsSeq(prefix) /\ Len(prefix) = cut
      /\ \A i \in 1..cut : prefix[i] = events[i]
  BY <1>4, <1>5, SeqPrefix
<1>9. IsHistory(prefix)
  <2>1. IsLog(prefix)
    BY <1>5, PrefixLog DEF IsHistory
  <2>2. \A i \in 1..cut : i \in 1..Len(events)
    BY <1>4, <1>5
  <2> HIDE DEF prefix
  <2> QED BY <1>8, <2>1, <2>2, PartOfHistory
<1> HIDE DEF prefix
<1>10. /\ IsSeq(buried)
       /\ \A k \in 1..Len(buried) : \E j \in 1..cut : j \in targets /\ buried[k] = prefix[j]
  <2>1. PICK s : s = Picked(prefix, targets)
    OBVIOUS
  <2>2. IsSeq(s) /\ \A i \in 1..Len(s) : \E j \in 1..Len(prefix) : j \in targets /\ s[i] = prefix[j]
    BY <1>8, <2>1, PickedEvents
  <2>3. PICK r : r = Reverse(s)
    OBVIOUS
  <2>4. IsSeq(r) /\ AllIn(r, s)
    BY <2>2, <2>3, ReversedElements
  <2>5. \A k \in 1..Len(r) : \E j \in 1..cut : j \in targets /\ r[k] = prefix[j]
    BY <1>8, <2>2, <2>4 DEF AllIn
  <2> QED BY <2>1, <2>3, <2>4, <2>5
<1> HIDE DEF buried
<1>11. /\ IsSeq(comps)
       /\ \A i \in 1..Len(comps) : \E k \in 1..Len(buried) :
             /\ comps[i].undoes = buried[k].seq
             /\ comps[i].draft.id = buried[k].id /\ comps[i].draft.op \in EventOps
  BY <1>6, <1>7, <1>10, BuriedAreMarked
<1> HIDE DEF comps
<1>12. /\ IsSeq(more) /\ Len(more) = Len(comps)
       /\ \A i \in 1..Len(comps) :
             /\ "seq" \in DOMAIN more[i] /\ more[i].seq = NextSeq(prefix) + i - 1
             /\ more[i].op = comps[i].draft.op /\ more[i].id = comps[i].draft.id
             /\ more[i].undoes = comps[i].undoes
  <2>1. Len(comps) \in Nat /\ DOMAIN comps = 1..Len(comps)
    BY <1>11, SeqBasics
  <2> DEFINE S == {more[i] : i \in 1..Len(comps)}
  <2>2. more \in [1..Len(comps) -> S]
    BY <2>1 DEF Numbered
  <2>3. more \in Seq(S) /\ Len(more) = Len(comps)
    BY <2>1, <2>2
  <2>4. \A i \in 1..Len(comps) :
             /\ "seq" \in DOMAIN more[i] /\ more[i].seq = NextSeq(prefix) + i - 1
             /\ more[i].op = comps[i].draft.op /\ more[i].id = comps[i].draft.id
             /\ more[i].undoes = comps[i].undoes
    BY <2>1 DEF Numbered
  <2> QED BY <2>3, <2>4 DEF IsSeq
<1> HIDE DEF more
<1>13. ASSUME NEW i \in 1..Len(more)
       PROVE  \E j \in 1..Len(prefix) : /\ prefix[j].seq = more[i].undoes
                                        /\ prefix[j].undoes = NoUndo
                                        /\ prefix[j].id = more[i].id
  <2>1. PICK k \in 1..Len(buried) : comps[i].undoes = buried[k].seq
                                    /\ comps[i].draft.id = buried[k].id
    BY <1>11, <1>12
  <2>2. PICK j \in 1..cut : j \in targets /\ buried[k] = prefix[j]
    BY <1>10
  <2>3. prefix[j].undoes = NoUndo
    BY <1>3, <1>8, <2>2
  <2> QED BY <1>8, <1>12, <2>1, <2>2, <2>3
<1>14. IsHistory(prefix \o more)
  BY <1>9, <1>11, <1>12, <1>13, LongerHistory
<1> HIDE DEF all
<1>15. p.log = prefix \o more
  BY <1>2 DEF all
<1>16. GoesOn(p.log, events, cut)
  <2>1. \A i \in (cut + 1)..Len(events) : events[i].undoes = NoUndo
    BY <1>3, <1>4, <1>5
  <2>2. cut = 0 => Len(more) = 0
    <3>1. cut = 0 => \A i \in 1..Len(more) : FALSE
      BY <1>8, <1>13
    <3>2. Len(more) \in Nat
      BY <1>12, SeqBasics
    <3> QED BY <3>1, <3>2
  <2>3. \A i \in 1..Len(more) : /\ more[i].seq = NextSeq(prefix) + i - 1
                               /\ more[i].undoes # NoUndo
    BY <1>9, <1>12, <1>13 DEF IsHistory, Counted
  <2> QED BY <1>12, <1>15, <2>1, <2>2, <2>3 DEF GoesOn, prefix
<1> QED BY <1>2, <1>5, <1>14, <1>15, <1>16

----------------------------------------------------------------------------
(* One task, in different states.                                          *)

\* A task's fields once events have been replayed on it: a function without nulls.
AreSettled(fields) == IsFcn(fields) /\ NoNulls(fields)

LEMMA FieldsStaySettled ==
    ASSUME NEW fields, AreSettled(fields), NEW e
    PROVE  AreSettled(FieldsAfter(fields, e))
<1>1. \A f, g : IsFcn(Over(f, g))
  BY DEF Over, IsFcn
<1>2. CASE e.op \in {"Create", "Update"}
  BY <1>1, <1>2, SetStoresNoNull DEF FieldsAfter, AreSettled, ApplySet
<1>3. CASE e.op = "Append"
  BY <1>1, <1>3, AppendStoresNoNull DEF FieldsAfter, AreSettled, ApplyAppend
<1>4. CASE e.op \in {"Add", "Remove"}
  <2> DEFINE add == e.op = "Add"
             f == ApplyAccumulate(fields, e.payload, add)
  <2>1. FieldsAfter(fields, e) = f
    BY <1>4 DEF FieldsAfter
  <2>2. IsFcn(f)
    BY <1>1 DEF ApplyAccumulate
  <2> HIDE DEF add
  <2>3. NoNulls(f)
    BY AccumulateStoresNoNull DEF AreSettled
  <2> QED BY <2>1, <2>2, <2>3 DEF AreSettled
<1>5. CASE e.op \notin {"Create", "Update", "Append", "Add", "Remove"}
  BY <1>5 DEF FieldsAfter
<1> QED BY <1>2, <1>3, <1>4, <1>5

\* What an event does to the edges of a task.
EdgesAfter(edges, e) ==
    IF e.op = "AddEdge" THEN edges \cup {e.payload}
    ELSE IF e.op = "RemoveEdge" THEN edges \ {e.payload}
    ELSE edges

LEMMA EdgesTouched ==
    ASSUME NEW t, IsTask(t), NEW e, e.op \in EventOps, e.op # "Delete"
    PROVE  Touched(t, e).edges = EdgesAfter(t.edges, e)
<1> DEFINE u == Touched(t, e)
<1>1. ASSUME NEW w, w = SetFields(t, e) PROVE IsTask(w) /\ w.edges = t.edges
  <2> DEFINE f == ApplySet(t.fields, e.payload)
             closed == RefreshCloseTime(t, f, e.ts)
  <2>1. w = [t EXCEPT !.fields = f, !.updated = e.ts, !.closed = closed]
    BY <1>1 DEF SetFields
  <2> HIDE DEF f, closed
  <2> QED BY <2>1 DEF IsTask
<1>2. CASE e.op = "Create"
  <2> DEFINE w == SetFields(t, e)
  <2>1. IsTask(w) /\ w.edges = t.edges
    BY <1>1
  <2>2. \E c : u = [w EXCEPT !.created = c]
    BY <1>2 DEF Touched
  <2> HIDE DEF w
  <2>3. u.edges = t.edges
    BY <2>1, <2>2 DEF IsTask
  <2> QED BY <1>2, <2>3 DEF EdgesAfter
<1>3. CASE e.op = "Update"
  <2>1. u = SetFields(t, e)
    BY <1>3 DEF Touched
  <2> QED BY <1>1, <1>3, <2>1 DEF EdgesAfter
<1>4. CASE e.op \in {"Append", "Add", "Remove"}
  <2>1. \E f : u = [t EXCEPT !.fields = f, !.updated = e.ts]
    BY <1>4 DEF Touched
  <2> HIDE DEF u
  <2>2. u.edges = t.edges
    BY <2>1 DEF IsTask
  <2> QED BY <1>4, <2>2 DEF u, EdgesAfter
<1>5. CASE e.op = "AddEdge"
  BY <1>5 DEF Touched, IsTask, EdgesAfter
<1>6. CASE e.op = "RemoveEdge"
  BY <1>6 DEF Touched, IsTask, EdgesAfter
<1> QED BY <1>2, <1>3, <1>4, <1>5, <1>6 DEF EventOps

\* Two states tell the same of a task, but for its times.
SameTask(s, t, id) ==
    /\ id \in DOMAIN s <=> id \in DOMAIN t
    /\ id \in DOMAIN s => s[id].fields = t[id].fields /\ s[id].edges = t[id].edges

LEMMA SameTaskBoth ==
    ASSUME NEW id, NEW s, NEW t, SameTask(s, t, id)
    PROVE  SameTask(t, s, id) /\ \A u : SameTask(t, u, id) => SameTask(s, u, id)
BY DEF SameTask

\* d and e do the same to a task, and a draft takes a task of two states the same way.
SameDraft(d, e) == d.op = e.op /\ d.id = e.id /\ d.payload = e.payload

LEMMA ApplySameTask ==
    ASSUME NEW s, AllTasks(s), NEW t, AllTasks(t), NEW id, SameTask(s, t, id),
           NEW d, NEW e, SameDraft(d, e), d.op \in EventOps
    PROVE  SameTask(Apply(s, d), Apply(t, e), id)
<1>1. CASE id # d.id
  BY <1>1, ApplyFrame DEF SameTask, SameDraft
<1>2. CASE id = d.id
  <2> DEFINE a == Before(s, d)
             b == Before(t, e)
             m == Apply(s, d)
             n == Apply(t, e)
  <2>1. /\ IsTask(a) /\ IsTask(b) /\ a.fields = b.fields /\ a.edges = b.edges
    <3>1. CASE id \in DOMAIN s
      BY <1>2, <3>1 DEF Before, AllTasks, SameTask, SameDraft
    <3>2. CASE id \notin DOMAIN s
      BY <1>2, <3>2 DEF Before, SameTask, SameDraft, IsTask, NewTask
    <3> QED BY <3>1, <3>2
  <2>2. id \in DOMAIN m <=> id \in DOMAIN n
    BY <1>2, ApplyFrame DEF SameTask, SameDraft
  <2>3. ASSUME id \in DOMAIN m
        PROVE  m[id].fields = n[id].fields /\ m[id].edges = n[id].edges
    <3>1. d.op # "Delete" /\ m[id] = Touched(a, d)
      BY <1>2, <2>3, ApplyFrame
    <3>2. e.id = id /\ e.op = d.op /\ e.payload = d.payload
      BY <1>2 DEF SameDraft
    <3>3. n[id] = Touched(b, e)
      BY <2>2, <2>3, <3>2, ApplyFrame
    <3> HIDE DEF a, b, m, n
    <3>4. m[id].fields = FieldsAfter(a.fields, d) /\ m[id].edges = EdgesAfter(a.edges, d)
      BY <2>1, <3>1, TouchedFields, EdgesTouched
    <3>5. n[id].fields = FieldsAfter(b.fields, e) /\ n[id].edges = EdgesAfter(b.edges, e)
      BY <2>1, <3>1, <3>2, <3>3, TouchedFields, EdgesTouched
    <3>6. FieldsAfter(a.fields, d) = FieldsAfter(b.fields, e)
      BY <2>1, <3>2 DEF FieldsAfter
    <3>7. EdgesAfter(a.edges, d) = EdgesAfter(b.edges, e)
      BY <2>1, <3>2 DEF EdgesAfter
    <3> QED BY <3>4, <3>5, <3>6, <3>7
  <2> QED BY <2>2, <2>3 DEF SameTask
<1> QED BY <1>1, <1>2

\* An event leaves all but its task alone.
LEMMA ApplyOtherTask ==
    ASSUME NEW s, NEW e, NEW id, e.id # id
    PROVE  SameTask(Apply(s, e), s, id)
BY ApplyFrame DEF SameTask

LEMMA PickedSame ==
    ASSUME NEW events, IsEvents(events), NEW a, NEW b, NEW id,
           \A i \in 1..Len(events) : events[i].id = id => (i \in a <=> i \in b),
           NEW s, AllTasks(s), NEW t, AllTasks(t), SameTask(s, t, id)
    PROVE  SameTask(Materialize(s, Picked(events, a)), Materialize(t, Picked(events, b)), id)
<1>1. PICK n \in Nat : n = Len(events)
  BY SeqBasics DEF IsEvents
<1>2. PICK f : Picks(f, events, a) /\ Picked(events, a) = f[n]
  BY <1>1, PickedIsRun
<1>3. PICK g : Picks(g, events, b) /\ Picked(events, b) = g[n]
  BY <1>1, PickedIsRun
<1> DEFINE M(k) == Materialize(s, f[k])
           N(k) == Materialize(t, g[k])
           Fine(k) == /\ IsSeq(f[k]) /\ AllTasks(M(k))
                      /\ IsSeq(g[k]) /\ AllTasks(N(k)) /\ SameTask(M(k), N(k), id)
           G == {k \in 0..n : Fine(k)}
<1>4. 0 \in G
  <2>1. f[0] = << >> /\ g[0] = << >>
    BY <1>2, <1>3 DEF Picks
  <2>2. M(0) = s /\ N(0) = t
    BY <2>1, MaterializeEmpty
  <2> QED BY <1>1, <2>1, <2>2, SeqEmpty
<1>5. ASSUME NEW k \in 1..n, k - 1 \in G PROVE k \in G
  <2>1. Fine(k - 1) /\ k \in 0..n /\ events[k].op \in EventOps
    BY <1>1, <1>5 DEF IsEvents
  <2>2. /\ f[k] = IF k \in a THEN Append(f[k - 1], events[k]) ELSE f[k - 1]
        /\ g[k] = IF k \in b THEN Append(g[k - 1], events[k]) ELSE g[k - 1]
    BY <1>1, <1>2, <1>3 DEF Picks
  <2>3. k \in a => IsSeq(f[k]) /\ M(k) = Apply(M(k - 1), events[k]) /\ AllTasks(M(k))
    BY <2>1, <2>2, SeqAppend, MaterializeAppend, ApplyKeepsTasks
  <2>4. k \in b => IsSeq(g[k]) /\ N(k) = Apply(N(k - 1), events[k]) /\ AllTasks(N(k))
    BY <2>1, <2>2, SeqAppend, MaterializeAppend, ApplyKeepsTasks
  <2>5. k \notin a => f[k] = f[k - 1] /\ M(k) = M(k - 1)
    BY <2>2
  <2>6. k \notin b => g[k] = g[k - 1] /\ N(k) = N(k - 1)
    BY <2>2
  <2> HIDE DEF M, N
  <2>7. SameTask(M(k), N(k), id)
    <3>1. CASE events[k].id = id
      <4>1. k \in a <=> k \in b
        BY <1>1, <3>1
      <4>2. SameDraft(events[k], events[k])
        BY DEF SameDraft
      <4> QED BY <2>1, <2>3, <2>4, <2>5, <2>6, <4>1, <4>2, ApplySameTask
    <3>2. CASE events[k].id # id
      <4>1. SameTask(M(k), M(k - 1), id)
        BY <2>3, <2>5, <3>2, ApplyOtherTask DEF SameTask
      <4>2. SameTask(N(k), N(k - 1), id)
        BY <2>4, <2>6, <3>2, ApplyOtherTask DEF SameTask
      <4> QED BY <2>1, <4>1, <4>2 DEF SameTask
    <3> QED BY <3>1, <3>2
  <2> QED BY <2>1, <2>3, <2>4, <2>5, <2>6, <2>7
<1> HIDE DEF G
<1>6. \A k \in 0..n : k \in G
  BY <1>4, <1>5, UpTo
<1>7. n \in G
  BY <1>6
<1> QED BY <1>2, <1>3, <1>7 DEF G

\* Drafts that say the same make states that tell the same tell the same.
LEMMA LooksAlike ==
    ASSUME NEW a, IsEvents(a), NEW b, IsSeq(b), Len(a) = Len(b),
           \A i \in 1..Len(a) : SameDraft(a[i], b[i]),
           NEW s, AllTasks(s), NEW t, AllTasks(t), NEW id, SameTask(s, t, id)
    PROVE  SameTask(Materialize(s, a), Materialize(t, b), id)
<1>1. PICK n \in Nat : n = Len(a)
  BY SeqBasics DEF IsEvents
<1>2. PICK f : IsRun(f, s, a) /\ Materialize(s, a) = f[n]
  BY <1>1, MaterializeIsRun DEF IsEvents
<1>3. PICK g : IsRun(g, t, b) /\ Materialize(t, b) = g[n]
  BY <1>1, MaterializeIsRun
<1> DEFINE G == {k \in 0..n : AllTasks(f[k]) /\ AllTasks(g[k]) /\ SameTask(f[k], g[k], id)}
<1>4. 0 \in G
  BY <1>1, <1>2, <1>3 DEF IsRun
<1>5. ASSUME NEW k \in 1..n, k - 1 \in G PROVE k \in G
  <2>1. f[k] = Apply(f[k - 1], a[k]) /\ g[k] = Apply(g[k - 1], b[k])
    BY <1>1, <1>2, <1>3, AppliedIsApply DEF IsRun
  <2>2. a[k].op \in EventOps /\ b[k].op \in EventOps /\ SameDraft(a[k], b[k])
    BY <1>1 DEF IsEvents, SameDraft
  <2>3. AllTasks(f[k]) /\ AllTasks(g[k])
    BY <1>5, <2>1, <2>2, ApplyKeepsTasks
  <2>4. SameTask(f[k], g[k], id)
    BY <1>5, <2>1, <2>2, ApplySameTask
  <2> QED BY <2>3, <2>4
<1> HIDE DEF G
<1>6. \A k \in 0..n : k \in G
  BY <1>4, <1>5, UpTo
<1>7. n \in G
  BY <1>6
<1> QED BY <1>2, <1>3, <1>7 DEF G

----------------------------------------------------------------------------
(* Settled states: no task has a field that is null.                       *)

\* The fields of all tasks are functions without nulls.
IsSettled(state) ==
    AllTasks(state) /\ \A id \in DOMAIN state : AreSettled(state[id].fields)

\* What an event does to its task.
LEMMA ApplyOn ==
    ASSUME NEW s, AllTasks(s), NEW e, e.op \in EventOps, e.op # "Delete",
           e.id \in DOMAIN s \/ e.op = "Create",
           NEW t, t = Before(s, e), NEW r, r = Apply(s, e)
    PROVE  /\ IsTask(t) /\ e.id \in DOMAIN r
           /\ r[e.id].fields = FieldsAfter(t.fields, e)
           /\ r[e.id].edges = EdgesAfter(t.edges, e)
<1>1. IsTask(t)
  BY DEF Before, AllTasks, IsTask, NewTask
<1>2. e.id \in DOMAIN r /\ r[e.id] = Touched(t, e)
  BY ApplyFrame
<1> QED BY <1>1, <1>2, TouchedFields, EdgesTouched

LEMMA ApplyKeepsSettled ==
    ASSUME NEW state, IsSettled(state), NEW e, e.op \in EventOps
    PROVE  IsSettled(Apply(state, e))
<1> DEFINE after == Apply(state, e)
<1>1. AllTasks(after)
  BY ApplyKeepsTasks DEF IsSettled
<1>2. ASSUME NEW id \in DOMAIN after PROVE AreSettled(after[id].fields)
  <2>1. CASE id # e.id
    BY <2>1, ApplyFrame DEF IsSettled
  <2>2. CASE id = e.id
    <3>1. PICK t : t = Before(state, e)
      OBVIOUS
    <3>2. e.op # "Delete" /\ (e.id \in DOMAIN state \/ e.op = "Create")
      BY <2>2, ApplyFrame
    <3>3. after[id].fields = FieldsAfter(t.fields, e)
      BY <2>2, <3>1, <3>2, ApplyOn DEF IsSettled
    <3>4. AreSettled(t.fields)
      <4>1. CASE e.id \in DOMAIN state
        BY <3>1, <4>1 DEF Before, IsSettled
      <4>2. CASE e.id \notin DOMAIN state
        BY <3>1, <4>2 DEF Before, NewTask, AreSettled, IsFcn, NoNulls
      <4> QED BY <4>1, <4>2
    <3> QED BY <3>3, <3>4, FieldsStaySettled
  <2> QED BY <2>1, <2>2
<1> QED BY <1>1, <1>2 DEF IsSettled

LEMMA MaterializeKeepsSettled ==
    ASSUME NEW base, IsSettled(base), NEW events, IsEvents(events)
    PROVE  IsSettled(Materialize(base, events))
<1>1. PICK n \in Nat : n = Len(events)
  BY SeqBasics DEF IsEvents
<1>2. PICK f : IsRun(f, base, events) /\ Materialize(base, events) = f[n]
  BY <1>1, MaterializeIsRun DEF IsEvents
<1> DEFINE G == {k \in 0..n : IsSettled(f[k])}
<1>3. 0 \in G
  BY <1>1, <1>2 DEF IsRun
<1>4. ASSUME NEW k \in 1..n, k - 1 \in G PROVE k \in G
  <2>1. f[k] = Apply(f[k - 1], events[k]) /\ events[k].op \in EventOps
    BY <1>1, <1>2, AppliedIsApply DEF IsRun, IsEvents
  <2> QED BY <1>4, <2>1, ApplyKeepsSettled
<1> HIDE DEF G
<1>5. \A k \in 0..n : k \in G
  BY <1>3, <1>4, UpTo
<1>6. n \in G
  BY <1>5
<1> QED BY <1>2, <1>6 DEF G

----------------------------------------------------------------------------
(* A compensation takes a task from one state to another.                  *)

\* Drafts that add edges to a task, or take them from it, do just that.
LEMMA EdgesDrafted ==
    ASSUME NEW op \in {"AddEdge", "RemoveEdge"}, NEW id, NEW edges, IsFiniteSet(edges),
           NEW s, AllTasks(s), id \in DOMAIN s,
           NEW r, r = Materialize(s, EdgeDrafts(op, id, edges))
    PROVE  /\ AllTasks(r) /\ id \in DOMAIN r /\ r[id].fields = s[id].fields
           /\ r[id].edges = IF op = "AddEdge" THEN s[id].edges \cup edges ELSE s[id].edges \ edges
<1> DEFINE all == {Draft(op, id, e) : e \in edges}
           d == [e \in edges |-> Draft(op, id, e)]
<1>1. PICK es : es = EdgeDrafts(op, id, edges)
  OBVIOUS
<1>2. es = SetToSeq(all)
  BY <1>1 DEF EdgeDrafts
<1>3. all = {d[e] : e \in edges}
  OBVIOUS
<1>4. /\ \A x \in all : x.op = op /\ x.id = id /\ x.payload \in edges
      /\ \A e \in edges : \E x \in all : x.payload = e
  <2>1. \A e : Draft(op, id, e).op = op /\ Draft(op, id, e).id = id /\ Draft(op, id, e).payload = e
    BY DEF Draft
  <2> QED BY <2>1
<1> HIDE DEF all, d
<1>5. IsFiniteSet(all)
  BY <1>3, FiniteImage
<1>6. /\ IsSeq(es)
      /\ \A i \in 1..Len(es) : es[i] \in all
      /\ \A x \in all : \E i \in 1..Len(es) : es[i] = x
  BY <1>2, <1>5, SetIsListed
<1>7. PICK n \in Nat : n = Len(es)
  BY <1>6, SeqBasics
<1>8. PICK f : IsRun(f, s, es) /\ r = f[n]
  BY <1>1, <1>6, <1>7, MaterializeIsRun
<1> DEFINE Has(k, x) == IF op = "AddEdge" THEN x \in s[id].edges \/ \E i \in 1..k : es[i].payload = x
                        ELSE x \in s[id].edges /\ \A i \in 1..k : es[i].payload # x
           Fine(k) == /\ AllTasks(f[k]) /\ id \in DOMAIN f[k] /\ f[k][id].fields = s[id].fields
                      /\ \A x : x \in f[k][id].edges <=> Has(k, x)
           G == {k \in 0..n : Fine(k)}
<1>9. 0 \in G
  <2>1. f[0] = s /\ 1..0 = {} /\ 0 \in 0..n
    BY <1>7, <1>8 DEF IsRun
  <2>2. Fine(0)
    BY <2>1
  <2> QED BY <2>1, <2>2
<1>10. ASSUME NEW k \in 1..n, k - 1 \in G PROVE k \in G
  <2>1. PICK e : e = es[k]
    OBVIOUS
  <2>2. /\ e.op = op /\ e.id = id /\ f[k] = Apply(f[k - 1], e) /\ k \in 0..n
        /\ \A i : i \in 1..k <=> i \in 1..(k - 1) \/ i = k
    BY <1>4, <1>6, <1>7, <1>8, <2>1, AppliedIsApply DEF IsRun
  <2>3. e.op \in EventOps /\ e.op # "Delete"
    BY <2>2 DEF EventOps
  <2>4. PICK p : p = f[k - 1]
    OBVIOUS
  <2>5. Fine(k - 1)
    BY <1>10
  <2>6. AllTasks(p) /\ id \in DOMAIN p /\ p[id].fields = s[id].fields
        /\ \A x : x \in p[id].edges <=> Has(k - 1, x)
    BY <2>4, <2>5
  <2> DEFINE q == f[k]
  <2>7. Before(p, e) = p[id] /\ q = Apply(p, e)
    BY <2>2, <2>4, <2>6 DEF Before
  <2> HIDE DEF q, Fine, Has
  <2>8. /\ id \in DOMAIN q /\ q[id].fields = FieldsAfter(p[id].fields, e)
        /\ q[id].edges = EdgesAfter(p[id].edges, e)
    BY <2>2, <2>3, <2>6, <2>7, ApplyOn
  <2>9. AllTasks(q)
    BY <2>3, <2>6, <2>7, ApplyKeepsTasks
  <2>10. q[id].fields = s[id].fields
    BY <2>2, <2>6, <2>8 DEF FieldsAfter
  <2>11. \A x : x \in q[id].edges <=> Has(k, x)
    BY <2>1, <2>2, <2>6, <2>8 DEF EdgesAfter, Has
  <2>12. Fine(k)
    BY <2>8, <2>9, <2>10, <2>11 DEF Fine, q
  <2> QED BY <2>2, <2>12
<1> HIDE DEF G
<1>11. \A k \in 0..n : k \in G
  BY <1>9, <1>10, UpTo
<1>12. n \in G
  BY <1>11
<1>13. Fine(n)
  BY <1>12 DEF G
<1>14. \A x : x \in edges <=> \E i \in 1..n : es[i].payload = x
  BY <1>4, <1>6, <1>7
<1>15. \A x : Has(n, x) <=> x \in (IF op = "AddEdge" THEN s[id].edges \cup edges ELSE s[id].edges \ edges)
  BY <1>14
<1> QED BY <1>8, <1>13, <1>15

LEMMA ValueSet ==
    ASSUME NEW fields, NEW payload, NEW k
    PROVE  Value(ApplySet(fields, payload), k) =
               IF k \in DOMAIN payload THEN payload[k] ELSE Value(fields, k)
<1> DEFINE unset == {j \in DOMAIN payload : payload[j] = Null}
           a == Without(payload, unset)
           b == Without(fields, unset)
<1>1. ApplySet(fields, payload) = Over(a, b)
  BY DEF ApplySet
<1>2. /\ k \in DOMAIN a <=> k \in DOMAIN payload /\ payload[k] # Null
      /\ k \in DOMAIN a => a[k] = payload[k]
  BY Remains
<1>3. /\ k \in DOMAIN b <=> k \in DOMAIN fields /\ ~ (k \in DOMAIN payload /\ payload[k] = Null)
      /\ k \in DOMAIN b => b[k] = fields[k]
  BY Remains
<1> HIDE DEF a, b
<1>4. /\ k \in DOMAIN Over(a, b) <=> k \in DOMAIN a \/ k \in DOMAIN b
      /\ k \in DOMAIN a => Over(a, b)[k] = a[k]
      /\ k \in DOMAIN b => (k \notin DOMAIN a => Over(a, b)[k] = b[k])
  BY Overridden
<1> QED BY <1>1, <1>2, <1>3, <1>4 DEF Value

\* The payload of what changed between two sets of fields takes one to the other.
LEMMA FieldsSet ==
    ASSUME NEW f, AreSettled(f), NEW t, AreSettled(t),
           NEW payload,
           \A k : k \in DOMAIN payload <=> Value(f, k) # Value(t, k),
           \A k \in DOMAIN payload : payload[k] = Value(t, k)
    PROVE  ApplySet(f, payload) = t
<1> DEFINE r == ApplySet(f, payload)
<1>1. \A k : Value(r, k) = Value(t, k)
  BY ValueSet
<1>2. IsFcn(r) /\ NoNulls(r)
  <2>1. \A g, h : IsFcn(Over(g, h))
    BY DEF Over, IsFcn
  <2> QED BY <2>1, SetStoresNoNull DEF ApplySet, AreSettled
<1> HIDE DEF r
<1>3. r = t
  BY <1>1, <1>2, SameFcn DEF AreSettled
<1> QED BY <1>3 DEF r

\* An update of a task.
LEMMA UpdateOn ==
    ASSUME NEW s, AllTasks(s), NEW id, id \in DOMAIN s, NEW payload,
           NEW r, r = Apply(s, Draft("Update", id, payload))
    PROVE  /\ AllTasks(r) /\ id \in DOMAIN r
           /\ r[id].fields = ApplySet(s[id].fields, payload) /\ r[id].edges = s[id].edges
<1>1. PICK e : e = Draft("Update", id, payload)
  OBVIOUS
<1>2. /\ e.op = "Update" /\ e.id = id /\ e.payload = payload /\ e.op \in EventOps
      /\ e.op # "Delete" /\ r = Apply(s, e)
  BY <1>1 DEF Draft, EventOps
<1>3. Before(s, e) = s[id]
  BY <1>2 DEF Before
<1>4. /\ id \in DOMAIN r /\ r[id].fields = FieldsAfter(s[id].fields, e)
      /\ r[id].edges = EdgesAfter(s[id].edges, e)
  BY <1>2, <1>3, ApplyOn
<1>5. AllTasks(r)
  BY <1>2, ApplyKeepsTasks
<1> QED BY <1>2, <1>4, <1>5 DEF FieldsAfter, EdgesAfter

\* Compensations do what they are for: a task that looks as in the state they start
\* from comes to look as in the one they lead to.
LEMMA Compensated ==
    ASSUME NEW from, IsStored(from), IsSettled(from), NEW to, IsStored(to), IsSettled(to),
           NEW s, AllTasks(s), NEW id, SameTask(s, from, id),
           NEW r, r = Materialize(s, Compensate(from, to, id))
    PROVE  SameTask(r, to, id)
<1>1. CASE id \in (DOMAIN from) \ DOMAIN to
  <2>1. PICK e : e = Draft("Delete", id, << >>)
    OBVIOUS
  <2>2. e.op = "Delete" /\ e.id = id
    BY <2>1 DEF Draft
  <2>3. Compensate(from, to, id) = << e >>
    BY <1>1, <2>1 DEF Compensate
  <2>4. r = Apply(s, e)
    BY <2>3, MaterializeOne
  <2>5. id \notin DOMAIN r
    BY <2>2, <2>4, ApplyFrame
  <2> QED BY <1>1, <2>5 DEF SameTask
<1>2. CASE id \in (DOMAIN to) \ DOMAIN from
  <2> DEFINE links == EdgeDrafts("AddEdge", id, to[id].edges)
  <2>1. PICK e : e = Draft("Create", id, to[id].fields)
    OBVIOUS
  <2>2. /\ e.op = "Create" /\ e.id = id /\ e.payload = to[id].fields
        /\ e.op \in EventOps /\ e.op # "Delete"
    BY <2>1 DEF Draft, EventOps
  <2>3. Compensate(from, to, id) = << e >> \o links
    BY <1>2, <2>1 DEF Compensate
  <2>4. IsFiniteSet(to[id].edges) /\ AreSettled(to[id].fields)
    BY <1>2 DEF IsStored, IsSettled
  <2>5. IsSeq(links)
    BY <2>4, EdgeDraftsAreDrafts DEF AreDrafts, IsEvents, EventOps
  <2>6. PICK m : m = Apply(s, e)
    OBVIOUS
  <2>7. r = Materialize(m, links)
    <3> HIDE DEF links
    <3>1. IsSeq(<< e >>) /\ Materialize(s, << e >>) = m
      BY <2>6, MaterializeOne
    <3> QED BY <2>3, <2>5, <3>1, MaterializeConcat
  <2>8. Before(s, e) = NewTask
    BY <1>2, <2>2 DEF Before, SameTask
  <2>9. /\ id \in DOMAIN m /\ m[id].fields = FieldsAfter(NewTask.fields, e)
        /\ m[id].edges = EdgesAfter(NewTask.edges, e)
    BY <2>2, <2>6, <2>8, ApplyOn
  <2>10. AllTasks(m)
    BY <2>2, <2>6, ApplyKeepsTasks
  <2>11. m[id].fields = to[id].fields
    <3>1. FieldsAfter(NewTask.fields, e) = ApplySet(NewTask.fields, to[id].fields)
      BY <2>2 DEF FieldsAfter
    <3>2. AreSettled(NewTask.fields) /\ \A k : Value(NewTask.fields, k) = Null
      BY DEF NewTask, AreSettled, IsFcn, NoNulls, Value
    <3> DEFINE t == to[id].fields
               n == NewTask.fields
    <3>3. \A k : k \in DOMAIN t <=> Value(t, k) # Null
      BY <2>4 DEF AreSettled, NoNulls, Value
    <3>4. \A k \in DOMAIN t : t[k] = Value(t, k)
      BY DEF Value
    <3> HIDE DEF t, n
    <3>5. ApplySet(n, t) = t
      BY <2>4, <3>2, <3>3, <3>4, FieldsSet DEF t, n
    <3> QED BY <2>9, <3>1, <3>5 DEF t, n
  <2>12. m[id].edges = {}
    BY <2>2, <2>9 DEF EdgesAfter, NewTask
  <2>13. /\ id \in DOMAIN r /\ r[id].fields = m[id].fields
         /\ r[id].edges = m[id].edges \cup to[id].edges
    BY <2>4, <2>7, <2>9, <2>10, EdgesDrafted
  <2> QED BY <1>2, <2>11, <2>12, <2>13 DEF SameTask
<1>3. CASE id \in (DOMAIN from) \cap DOMAIN to
  <2> DEFINE f == from[id]
             t == to[id]
             changed == {k \in DOMAIN f.fields \cup DOMAIN t.fields :
                            Value(f.fields, k) # Value(t.fields, k)}
             payload == [k \in changed |-> Value(t.fields, k)]
             d == Draft("Update", id, payload)
             fields == IF changed = {} THEN << >> ELSE << d >>
             added == t.edges \ f.edges
             gone == f.edges \ t.edges
             links == EdgeDrafts("AddEdge", id, added)
             unlinks == EdgeDrafts("RemoveEdge", id, gone)
             m == Materialize(s, fields)
             n == Materialize(m, links)
  <2>1. Compensate(from, to, id) = fields \o links \o unlinks
    BY <1>3 DEF Compensate
  <2>2. IsFiniteSet(added) /\ IsFiniteSet(gone)
    BY <1>3, FS_Difference DEF IsStored
  <2>3. IsSeq(links) /\ IsSeq(unlinks)
    BY <2>2, EdgeDraftsAreDrafts DEF AreDrafts, IsEvents, EventOps
  <2>4. AreSettled(f.fields) /\ AreSettled(t.fields)
    BY <1>3 DEF IsSettled
  <2>5. id \in DOMAIN s /\ s[id].fields = f.fields /\ s[id].edges = f.edges
    BY <1>3 DEF SameTask
  <2>6. /\ \A k : k \in DOMAIN payload <=> Value(f.fields, k) # Value(t.fields, k)
        /\ \A k \in DOMAIN payload : payload[k] = Value(t.fields, k)
        /\ changed = {} <=> DOMAIN payload = {}
    <3>1. \A k : Value(f.fields, k) # Value(t.fields, k) => k \in DOMAIN f.fields \cup DOMAIN t.fields
      BY DEF Value
    <3> QED BY <3>1
  <2>7. IsSeq(fields)
    BY SeqEmpty, MaterializeOne
  <2>8. r = Materialize(n, unlinks)
    <3> HIDE DEF fields, links, unlinks
    <3>1. IsSeq(fields \o links)
      BY <2>3, <2>7, SeqConcat
    <3>2. r = Materialize(Materialize(s, fields \o links), unlinks)
      BY <2>1, <2>3, <3>1, MaterializeConcat
    <3>3. Materialize(s, fields \o links) = n
      BY <2>3, <2>7, MaterializeConcat
    <3> QED BY <3>2, <3>3
  <2> HIDE DEF f, t, changed, payload
  <2>9. AllTasks(m) /\ id \in DOMAIN m /\ m[id].fields = t.fields /\ m[id].edges = f.edges
    <3>1. CASE changed = {}
      <4>1. m = s
        BY <3>1, MaterializeEmpty
      <4>2. \A k : Value(f.fields, k) = Value(t.fields, k)
        BY <2>6, <3>1
      <4>3. f.fields = t.fields
        BY <2>4, <4>2, SameFcn DEF AreSettled
      <4> QED BY <2>5, <4>1, <4>3
    <3>2. CASE changed # {}
      <4>1. m = Apply(s, d)
        BY <3>2, MaterializeOne
      <4>2. /\ AllTasks(m) /\ id \in DOMAIN m
            /\ m[id].fields = ApplySet(s[id].fields, payload) /\ m[id].edges = s[id].edges
        BY <2>5, <4>1, UpdateOn
      <4>3. ApplySet(f.fields, payload) = t.fields
        BY <2>4, <2>6, FieldsSet
      <4> QED BY <2>5, <4>2, <4>3
    <3> QED BY <3>1, <3>2
  <2> HIDE DEF m, added, gone
  <2>10. /\ AllTasks(n) /\ id \in DOMAIN n /\ n[id].fields = m[id].fields
         /\ n[id].edges = m[id].edges \cup added
    BY <2>2, <2>9, EdgesDrafted DEF n
  <2> HIDE DEF n
  <2>11. /\ id \in DOMAIN r /\ r[id].fields = n[id].fields
         /\ r[id].edges = n[id].edges \ gone
    BY <2>2, <2>8, <2>10, EdgesDrafted
  <2>12. r[id].edges = t.edges
    BY <2>9, <2>10, <2>11 DEF added, gone
  <2> QED BY <1>3, <2>9, <2>10, <2>11, <2>12 DEF SameTask, t
<1>4. CASE id \notin (DOMAIN from) \cup DOMAIN to
  <2>1. Compensate(from, to, id) = << >>
    BY <1>4 DEF Compensate
  <2>2. r = s
    BY <2>1, MaterializeEmpty
  <2> QED BY <1>4, <2>2 DEF SameTask
<1> QED BY <1>1, <1>2, <1>3, <1>4

----------------------------------------------------------------------------
(* The targets are taken away, newest first.                               *)

\* The state without some events and the first k of the targets.
StateWithout(base, events, removed, targets, k) ==
    Materialize(base, Originals(events, removed \cup {targets[i].seq : i \in 1..k}))

\* What undoing one target logs: an update that says nothing when nothing changed.
Reversal(from, to, id) ==
    IF Compensate(from, to, id) = << >> THEN << Draft("Update", id, << >>) >>
    ELSE Compensate(from, to, id)

LEMMA StateWithoutIsStored ==
    ASSUME NEW base, IsStored(base), IsSettled(base), NEW events, IsEvents(events),
           NEW removed, NEW targets, NEW k
    PROVE  /\ IsStored(StateWithout(base, events, removed, targets, k))
           /\ IsSettled(StateWithout(base, events, removed, targets, k))
<1> DEFINE others == Originals(events, removed \cup {targets[i].seq : i \in 1..k})
<1>1. IsEvents(others)
  BY PickedAreEvents DEF Originals
<1> HIDE DEF others
<1>2. IsStored(Materialize(base, others)) /\ IsSettled(Materialize(base, others))
  BY <1>1, MaterializeKeepsStored, MaterializeKeepsSettled
<1> QED BY <1>2 DEF others, StateWithout

LEMMA ReversalIsDrafts ==
    ASSUME NEW from, IsStored(from), NEW to, IsStored(to), NEW id
    PROVE  AreDrafts(Reversal(from, to, id), id)
<1>1. AreDrafts(Compensate(from, to, id), id)
  BY CompensateIsDrafts
<1>2. AreDrafts(<< Draft("Update", id, << >>) >>, id)
  BY NoDraftOrOne DEF EventOps
<1> QED BY <1>1, <1>2 DEF Reversal

\* A reversal takes its task to the state it leads to, and leaves the others alone.
LEMMA Reversed ==
    ASSUME NEW from, IsStored(from), IsSettled(from), NEW to, IsStored(to), IsSettled(to),
           NEW of, NEW id, id # of => SameTask(from, to, id),
           NEW s, AllTasks(s), SameTask(s, from, id),
           NEW r, r = Materialize(s, Reversal(from, to, of))
    PROVE  SameTask(r, to, id)
<1>1. PICK d : d = Reversal(from, to, of)
  OBVIOUS
<1>2. AreDrafts(d, of)
  BY <1>1, ReversalIsDrafts
<1>3. CASE id # of
  <2>1. IsSeq(d) /\ Len(d) \in Nat /\ \A i \in 1..Len(d) : d[i].id # id
    BY <1>2, <1>3, SeqBasics DEF AreDrafts, IsEvents
  <2>2. SubSeq(d, 1, 0) = << >>
    BY <2>1 DEF IsSeq
  <2>3. Materialize(s, SubSeq(d, 1, 0)) = s
    BY <2>2, MaterializeEmpty
  <2>4. 0 \in 0..Len(d) /\ r = Materialize(s, d)
    BY <1>1, <2>1
  <2>5. /\ id \in DOMAIN s <=> id \in DOMAIN r
        /\ id \in DOMAIN r => s[id] = r[id]
    BY <2>1, <2>3, <2>4, UnnamedStay
  <2>6. SameTask(r, s, id)
    BY <2>5 DEF SameTask
  <2> QED BY <1>3, <2>6 DEF SameTask
<1>4. CASE id = of /\ Compensate(from, to, of) # << >>
  <2>1. r = Materialize(s, Compensate(from, to, id))
    BY <1>4 DEF Reversal
  <2> QED BY <2>1, Compensated
<1>5. CASE id = of /\ Compensate(from, to, of) = << >>
  <2>1. SameTask(s, to, id)
    <3>1. Materialize(s, Compensate(from, to, id)) = s
      BY <1>5, MaterializeEmpty
    <3> QED BY <3>1, Compensated
  <2>2. r = Apply(s, Draft("Update", id, << >>))
    BY <1>5, MaterializeOne DEF Reversal
  <2>3. CASE id \in DOMAIN s
    <3>1. /\ id \in DOMAIN r /\ r[id].fields = ApplySet(s[id].fields, << >>)
          /\ r[id].edges = s[id].edges
      BY <2>2, <2>3, UpdateOn
    <3>2. AreSettled(s[id].fields)
      BY <2>1, <2>3 DEF SameTask, IsSettled
    <3> DEFINE f == s[id].fields
    <3> HIDE DEF f
    <3>3. ApplySet(f, << >>) = f
      BY <3>2, FieldsSet DEF f
    <3> QED BY <2>1, <2>3, <3>1, <3>3 DEF SameTask, f
  <2>4. CASE id \notin DOMAIN s
    <3>1. PICK e : e = Draft("Update", id, << >>)
      OBVIOUS
    <3>2. e.op = "Update" /\ e.id = id
      BY <3>1 DEF Draft
    <3>3. id \notin DOMAIN r
      BY <2>2, <2>4, <3>1, <3>2, ApplyFrame
    <3> QED BY <2>1, <2>4, <3>3 DEF SameTask
  <2> QED BY <2>3, <2>4
<1> QED BY <1>3, <1>4, <1>5

\* The compensations of the targets, target by target: each takes its task from how it
\* looks with the target to how it looks without, and carries the target's mark.
AreReversals(list, base, events, removed, targets) ==
    /\ IsSeq(list) /\ Len(list) = Len(targets)
    /\ \A k \in 1..Len(targets) :
         \A d \in {Reversal(StateWithout(base, events, removed, targets, k - 1),
                            StateWithout(base, events, removed, targets, k),
                            targets[k].id)} :
            /\ AreDrafts(d, targets[k].id)
            /\ IsSeq(list[k]) /\ Len(list[k]) = Len(d)
            /\ \A i \in 1..Len(d) : list[k][i].draft = d[i] /\ list[k][i].undoes = targets[k].seq

\* The compensations are the reversals of the targets, one after the other.
LEMMA BuriedAreReversals ==
    ASSUME NEW base, IsStored(base), IsSettled(base), NEW events, IsEvents(events),
           NEW targets, IsSeq(targets), NEW removed, NEW comps,
           comps = BuriedCompensations(base, events, targets, removed)
    PROVE  \E list : comps = FlattenSeq(list) /\ AreReversals(list, base, events, removed, targets)
<1> DEFINE Drafts(k) == Reversal(StateWithout(base, events, removed, targets, k - 1),
                                 StateWithout(base, events, removed, targets, k),
                                 targets[k].id)
           Reversing(k) ==
               [i \in DOMAIN Drafts(k) |-> [draft |-> Drafts(k)[i], undoes |-> targets[k].seq]]
           list == [k \in DOMAIN targets |-> Reversing(k)]
<1>1. comps = FlattenSeq(list)
  BY DEF BuriedCompensations, Reversal, StateWithout
<1>2. ASSUME NEW k PROVE AreDrafts(Drafts(k), targets[k].id)
  BY StateWithoutIsStored, ReversalIsDrafts
<1> HIDE DEF Drafts
<1>3. ASSUME NEW k
      PROVE  /\ IsSeq(Reversing(k)) /\ Len(Reversing(k)) = Len(Drafts(k))
             /\ \A i \in 1..Len(Drafts(k)) : /\ Reversing(k)[i].draft = Drafts(k)[i]
                                              /\ Reversing(k)[i].undoes = targets[k].seq
  <2> DEFINE d == Drafts(k)
             r == [i \in DOMAIN d |-> [draft |-> d[i], undoes |-> targets[k].seq]]
             S == {r[i] : i \in 1..Len(d)}
  <2>1. IsSeq(d)
    BY <1>2 DEF AreDrafts, IsEvents
  <2> HIDE DEF d
  <2>2. Len(d) \in Nat /\ DOMAIN d = 1..Len(d)
    BY <2>1, SeqBasics
  <2>3. r \in [1..Len(d) -> S]
    BY <2>2
  <2>4. r \in Seq(S) /\ Len(r) = Len(d)
    BY <2>2, <2>3
  <2>5. \A i \in 1..Len(d) : r[i].draft = d[i] /\ r[i].undoes = targets[k].seq
    BY <2>2
  <2>6. Reversing(k) = r
    BY DEF d
  <2> HIDE DEF r
  <2> QED BY <2>4, <2>5, <2>6 DEF IsSeq, d
<1> HIDE DEF Reversing
<1>4. /\ IsSeq(list) /\ Len(list) = Len(targets)
      /\ \A k \in 1..Len(targets) : list[k] = Reversing(k)
  <2> DEFINE S == {Reversing(k) : k \in 1..Len(targets)}
  <2>1. Len(targets) \in Nat /\ DOMAIN targets = 1..Len(targets)
    BY SeqBasics
  <2>2. list \in [1..Len(targets) -> S]
    BY <2>1
  <2>3. list \in Seq(S) /\ Len(list) = Len(targets)
    BY <2>1, <2>2
  <2> QED BY <2>1, <2>3 DEF IsSeq
<1> HIDE DEF list
<1>5. \A k \in 1..Len(targets) : \A d \in {Drafts(k)} :
          /\ AreDrafts(d, targets[k].id)
          /\ IsSeq(list[k]) /\ Len(list[k]) = Len(d)
          /\ \A i \in 1..Len(d) : list[k][i].draft = d[i] /\ list[k][i].undoes = targets[k].seq
  BY <1>2, <1>3, <1>4
<1>6. AreReversals(list, base, events, removed, targets)
  BY <1>4, <1>5 DEF AreReversals, Drafts
<1> QED BY <1>1, <1>6

\* Another task looks the same without a target.
LEMMA OthersLookTheSame ==
    ASSUME NEW base, AllTasks(base), NEW events, IsEvents(events), NEW removed,
           NEW targets, NEW k \in Nat, k # 0, NEW id,
           \A i \in 1..Len(events) : events[i].seq = targets[k].seq => events[i].id # id
    PROVE  SameTask(StateWithout(base, events, removed, targets, k - 1),
                    StateWithout(base, events, removed, targets, k), id)
<1> DEFINE Gone(j) == {targets[i].seq : i \in 1..j}
           Places(j) == {i \in DOMAIN events :
                            events[i].undoes = NoUndo /\ events[i].seq \notin removed \cup Gone(j)}
<1>1. \A j : StateWithout(base, events, removed, targets, j)
                 = Materialize(base, Picked(events, Places(j)))
  BY DEF StateWithout, Originals
<1>2. \A x : x \in Gone(k) <=> x \in Gone(k - 1) \/ x = targets[k].seq
  <2>1. \A i : i \in 1..k <=> i \in 1..(k - 1) \/ i = k
    OBVIOUS
  <2> QED BY <2>1
<1>3. \A i \in 1..Len(events) : events[i].id = id => (i \in Places(k - 1) <=> i \in Places(k))
  <2> HIDE DEF Gone
  <2> QED BY <1>2
<1>4. SameTask(base, base, id)
  BY DEF SameTask
<1> DEFINE a == Places(k - 1)
           b == Places(k)
<1>5. \A i \in 1..Len(events) : events[i].id = id => (i \in a <=> i \in b)
  BY <1>3
<1> HIDE DEF a, b
<1>6. SameTask(Materialize(base, Picked(events, a)), Materialize(base, Picked(events, b)), id)
  BY <1>4, <1>5, PickedSame
<1> HIDE DEF Places
<1> QED BY <1>1, <1>6 DEF a, b

\* Events that say what the compensations of some targets say take every task from
\* its state with the targets to its state without them.
LEMMA TargetsTaken ==
    ASSUME NEW base, IsStored(base), IsSettled(base), NEW events, IsEvents(events),
           NEW targets, IsSeq(targets), NEW removed, NEW comps,
           comps = BuriedCompensations(base, events, targets, removed),
           \A k \in 1..Len(targets) : \A i \in 1..Len(events) :
              events[i].seq = targets[k].seq => events[i].id = targets[k].id,
           NEW done, IsEvents(done), Len(done) = Len(comps),
           \A i \in 1..Len(done) : SameDraft(done[i], comps[i].draft),
           NEW s, AllTasks(s), NEW id,
           SameTask(s, StateWithout(base, events, removed, targets, 0), id)
    PROVE  SameTask(Materialize(s, done),
                    StateWithout(base, events, removed, targets, Len(targets)), id)
<1> DEFINE W(k) == StateWithout(base, events, removed, targets, k)
<1>1. PICK n \in Nat : n = Len(targets)
  BY SeqBasics
<1>2. PICK list : comps = FlattenSeq(list) /\ AreReversals(list, base, events, removed, targets)
  BY BuriedAreReversals
<1>10. IsSeq(list) /\ Len(list) = n /\ \A k \in 1..n : IsSeq(list[k])
  BY <1>1, <1>2 DEF AreReversals
<1>11. \A k \in 1..n : \A d \in {Reversal(W(k - 1), W(k), targets[k].id)} :
          /\ AreDrafts(d, targets[k].id)
          /\ IsSeq(list[k]) /\ Len(list[k]) = Len(d)
          /\ \A i \in 1..Len(d) : list[k][i].draft = d[i]
  BY <1>1, <1>2 DEF AreReversals
<1>3. PICK f : /\ f[0] = << >>
               /\ \A k \in 1..n : f[k] = f[k - 1] \o list[k]
               /\ \A k \in 0..n : IsSeq(f[k])
               /\ comps = f[n]
  BY <1>2, <1>10, FlattenIsRun
<1>4. \A k : IsStored(W(k)) /\ IsSettled(W(k))
  BY StateWithoutIsStored
<1>5. \A k \in 1..n : id # targets[k].id => SameTask(W(k - 1), W(k), id)
  <2> SUFFICES ASSUME NEW k \in 1..n, id # targets[k].id PROVE SameTask(W(k - 1), W(k), id)
    OBVIOUS
  <2>1. k \in Nat /\ k # 0
    OBVIOUS
  <2>2. \A i \in 1..Len(events) : events[i].seq = targets[k].seq => events[i].id # id
    BY <1>1
  <2>3. AllTasks(base)
    BY DEF IsStored
  <2> QED BY <2>1, <2>2, <2>3, OthersLookTheSame
<1> HIDE DEF W
<1> DEFINE Looks(e, c) == /\ IsEvents(e) /\ Len(e) = Len(c)
                         /\ \A i \in 1..Len(e) : SameDraft(e[i], c[i].draft)
           G == {k \in 0..n : \A e : Looks(e, f[k]) => SameTask(Materialize(s, e), W(k), id)}
<1>6. 0 \in G
  <2> SUFFICES ASSUME NEW e, Looks(e, f[0]) PROVE SameTask(Materialize(s, e), W(0), id)
    BY <1>1
  <2>1. PICK S : e \in Seq(S)
    BY DEF IsEvents, IsSeq
  <2>2. Len(e) = 0
    BY <1>3, SeqEmpty
  <2>3. e = << >>
    BY ONLY <2>1, <2>2
  <2>4. Materialize(s, e) = s
    BY <2>3, MaterializeEmpty
  <2> QED BY <2>4 DEF W
<1>7. ASSUME NEW k \in 1..n, k - 1 \in G PROVE k \in G
  <2> SUFFICES ASSUME NEW e, Looks(e, f[k]) PROVE SameTask(Materialize(s, e), W(k), id)
    BY <1>1
  <2>1. PICK x, y : x = f[k - 1] /\ y = list[k]
    OBVIOUS
  <2>2. PICK d : d = Reversal(W(k - 1), W(k), targets[k].id)
    OBVIOUS
  <2>3. /\ AreDrafts(d, targets[k].id) /\ IsSeq(y) /\ Len(y) = Len(d)
        /\ \A i \in 1..Len(d) : y[i].draft = d[i]
    BY <1>11, <2>1, <2>2
  <2>4. IsSeq(x) /\ f[k] = x \o y
    <3>1. k - 1 \in 0..n
      OBVIOUS
    <3>2. IsSeq(f[k - 1])
      BY <1>3, <3>1
    <3> QED BY <1>3, <2>1, <3>2
  <2>5. PICK m \in Nat, p \in Nat : m = Len(x) /\ p = Len(y)
    BY <2>3, <2>4, SeqBasics
  <2>6. /\ Len(f[k]) = m + p
        /\ \A i \in 1..m : f[k][i] = x[i]
        /\ \A i \in 1..p : f[k][m + i] = y[i]
    BY <2>3, <2>4, <2>5, SeqConcat
  <2>7. IsSeq(e) /\ Len(e) = m + p /\ m \in 0..Len(e)
    BY <2>5, <2>6 DEF IsEvents
  <2>8. PICK a, b : a = SubSeq(e, 1, m) /\ b = SubSeq(e, m + 1, Len(e))
    OBVIOUS
  <2>9. /\ IsSeq(a) /\ Len(a) = m /\ \A i \in 1..m : a[i] = e[i]
    BY <2>7, <2>8, SeqPrefix
  <2>10. /\ IsSeq(b) /\ Len(b) = p /\ \A i \in 1..p : b[i] = e[m + i]
    <3>1. /\ IsSeq(b) /\ Len(b) = Len(e) - m
          /\ \A i \in 1..(Len(e) - m) : b[i] = e[m + i]
      BY <2>7, <2>8, SeqSuffix
    <3>2. Len(e) - m = p
      BY <2>7
    <3> QED BY <3>1, <3>2
  <2>11. Looks(a, x)
    <3>1. \A i \in 1..m : i \in 1..Len(e) /\ a[i] = e[i] /\ f[k][i] = x[i]
      BY <2>6, <2>7, <2>9
    <3>2. IsEvents(a)
      BY <2>9, <3>1 DEF IsEvents
    <3> QED BY <2>5, <2>9, <3>1, <3>2
  <2>12. \A i \in 1..p : SameDraft(d[i], b[i])
    <3> SUFFICES ASSUME NEW i \in 1..p PROVE SameDraft(d[i], b[i])
      OBVIOUS
    <3>1. m + i \in 1..Len(e)
      BY <2>7
    <3>2. SameDraft(e[m + i], f[k][m + i].draft)
      BY <3>1
    <3>3. f[k][m + i].draft = d[i] /\ b[i] = e[m + i]
      BY <2>3, <2>5, <2>6, <2>10
    <3> QED BY <3>2, <3>3 DEF SameDraft
  <2>13. PICK t : t = Materialize(s, a)
    OBVIOUS
  <2>14. SameTask(t, W(k - 1), id) /\ AllTasks(t)
    <3>1. \A c : Looks(c, f[k - 1]) => SameTask(Materialize(s, c), W(k - 1), id)
      BY <1>7
    <3>2. IsEvents(a)
      BY <2>11
    <3> QED BY <2>1, <2>11, <2>13, <3>1, <3>2, MaterializeKeepsTasks
  <2>15. SameTask(Materialize(t, d), W(k), id)
    <3> DEFINE from == W(k - 1)
               to == W(k)
               of == targets[k].id
    <3>1. id # of => SameTask(from, to, id)
      BY <1>5
    <3>2. IsStored(from) /\ IsSettled(from) /\ IsStored(to) /\ IsSettled(to)
      BY <1>4
    <3>3. SameTask(t, from, id) /\ d = Reversal(from, to, of)
      BY <2>2, <2>14
    <3> HIDE DEF from, to, of
    <3>4. SameTask(Materialize(t, d), to, id)
      BY <2>14, <3>1, <3>2, <3>3, Reversed
    <3> QED BY <3>4 DEF to
  <2>16. SameTask(Materialize(t, d), Materialize(t, b), id)
    <3>1. IsEvents(d) /\ Len(d) = Len(b) /\ \A i \in 1..Len(d) : SameDraft(d[i], b[i])
      BY <2>3, <2>5, <2>10, <2>12 DEF AreDrafts
    <3>2. SameTask(t, t, id)
      BY DEF SameTask
    <3> QED BY <2>10, <2>14, <3>1, <3>2, LooksAlike
  <2>17. Materialize(s, e) = Materialize(t, b)
    BY <2>7, <2>8, <2>13, FoldingChangesNothing
  <2> QED BY <2>15, <2>16, <2>17 DEF SameTask
<1> HIDE DEF G
<1>8. \A k \in 0..n : k \in G
  BY <1>6, <1>7, UpTo
<1>9. n \in G
  BY <1>8
<1>12. Looks(done, f[n])
  BY <1>3
<1> QED BY <1>1, <1>9, <1>12 DEF G, W

----------------------------------------------------------------------------
(* What a plan is made of.                                                 *)

\* The parts of a plan.
TaskIds(events, targets) == {events[i].id : i \in targets}

\* What plan replays: the folded tasks and the events that the targets are about.
BaseOf(base, events, targets) == Restrict(base, DOMAIN base \cap TaskIds(events, targets))

Scoped(events, targets) ==
    Picked(events, {i \in DOMAIN events : events[i].id \in TaskIds(events, targets)})

\* The targets that stay in the log, newest first, and the seqs that are cut off.
Buried(events, targets, cut) == Reverse(Picked(SubSeq(events, 1, cut), targets))

CutSeqs(events, cut) == {events[i].seq : i \in (cut + 1)..Len(events)}

\* The compensations that the plan logs.
Reversals(base, events, targets, cut) ==
    BuriedCompensations(BaseOf(base, events, targets), Scoped(events, targets),
                        Buried(events, targets, cut),
                        Undone(Scoped(events, targets)) \cup CutSeqs(events, cut))

\* An undo takes undoable events back, and cuts off nothing else.
AreTargets(events, targets, cut) ==
    /\ cut \in 0..Len(events)
    /\ \A i \in targets : i \in 1..Len(events) /\ Undoable(events, i)
    /\ \A i \in 1..Len(events) : i > cut => i \in targets

\* p is what plan makes of a log, of targets in it and of the length it is cut to.
IsPlanFor(p, base, events, targets, cut) ==
    /\ p.undone = {events[i].seq : i \in targets}
    /\ p.after = Materialize(BaseOf(base, events, targets),
                             Originals(Scoped(events, targets),
                                       Undone(Scoped(events, targets)) \cup p.undone))
    /\ p.log = SubSeq(events, 1, cut)
                  \o Numbered(SubSeq(events, 1, cut), Reversals(base, events, targets, cut), 1)

LEMMA PlanHasTargets ==
    ASSUME NEW base, NEW events, IsSeq(events), NEW committed \in Nat,
           NEW from, NEW count, NEW remove, NEW p,
           p = UndoPlan(base, events, committed, from, count, remove, 1), p.outcome = "plan"
    PROVE  /\ DOMAIN p = {"outcome", "undone", "before", "after", "log", "rewrites"}
           /\ \E targets, cut :
                 AreTargets(events, targets, cut) /\ IsPlanFor(p, base, events, targets, cut)
<1> DEFINE targets == SelectTargets(events, from, count)
           seqs    == {events[i].seq : i \in targets}
           ids     == {events[i].id : i \in targets}
           within  == Restrict(base, DOMAIN base \cap ids)
           scoped  == Picked(events, {i \in DOMAIN events : events[i].id \in ids})
           undone  == Undone(scoped)
           spared  == KeptLength(events, targets)
           cut     == CutAt(spared, committed, remove)
           prefix  == SubSeq(events, 1, cut)
           buried  == Reverse(Picked(prefix, targets))
           removed == undone \cup {events[i].seq : i \in (cut + 1)..Len(events)}
           comps   == BuriedCompensations(within, scoped, buried, removed)
           all     == prefix \o Numbered(prefix, comps, 1)
           after   == Materialize(within, Originals(scoped, undone \cup seqs))
           full    == [outcome |-> "plan", undone |-> seqs,
                       before |-> Materialize(within, scoped),
                       after  |-> after,
                       log    |-> all,
                       rewrites |-> remove /\ spared < committed]
<1> DEFINE idle == count = 0 \/ events = << >>
           known == IsTarget(events, from)
<1>1. p = CASE idle \/ (known /\ targets = {}) -> NoPlan
            [] ~ idle /\ ~ known -> [NoPlan EXCEPT !.outcome = "refused"]
            [] ~ idle /\ known /\ targets # {} /\ cut > Len(events) ->
                  [NoPlan EXCEPT !.outcome = "panic"]
            [] OTHER -> full
  BY DEF UndoPlan
<1>2. /\ ~ (cut > Len(events)) /\ IsTarget(events, from)
      /\ p.log = all /\ p.undone = seqs /\ p.after = after
      /\ DOMAIN p = {"outcome", "undone", "before", "after", "log", "rewrites"}
  <2>1. /\ NoPlan.outcome # "plan" /\ [NoPlan EXCEPT !.outcome = "refused"].outcome # "plan"
        /\ [NoPlan EXCEPT !.outcome = "panic"].outcome # "plan"
    BY DEF NoPlan
  <2> HIDE DEF targets, cut, all, seqs, after, within, scoped, undone, spared
  <2>2. /\ full.log = all /\ full.undone = seqs /\ full.after = after
        /\ DOMAIN full = {"outcome", "undone", "before", "after", "log", "rewrites"}
    OBVIOUS
  <2> HIDE DEF full
  <2>3. ~ (cut > Len(events)) /\ IsTarget(events, from) /\ p = full
    BY <1>1, <2>1
  <2> QED BY <2>2, <2>3
<1> HIDE DEF full
<1>3. Len(events) \in Nat /\ DOMAIN events = 1..Len(events)
  BY SeqBasics
<1>4. \A i \in targets : i \in 1..Len(events) /\ Undoable(events, i)
  <2> DEFINE start == IF from = 0 THEN Len(events)
                      ELSE CHOOSE i \in DOMAIN events : events[i].seq = from
  <2>1. start \in 0..Len(events)
    <3>1. CASE from = 0
      BY <1>3, <3>1
    <3>2. CASE from # 0
      <4>1. \E i \in DOMAIN events : events[i].seq = from
        BY <1>2, <3>2 DEF IsTarget
      <4>2. start \in DOMAIN events
        BY <3>2, <4>1
      <4> QED BY <1>3, <4>2
    <3> QED BY <3>1, <3>2
  <2>2. \A i \in targets : i \in 1..start /\ Undoable(events, i)
    BY DEF SelectTargets
  <2> HIDE DEF start, targets
  <2> QED BY <1>3, <2>1, <2>2
<1>5. cut \in 0..Len(events) /\ \A i \in 1..Len(events) : i > cut => i \in targets
  <2>1. cut \in Nat /\ \A i \in 1..Len(events) : i > cut => i \in targets
    BY CutIsInLog
  <2>2. ~ (cut > Len(events)) /\ Len(events) \in Nat
    BY <1>2, <1>3
  <2> HIDE DEF cut
  <2>3. cut \in 0..Len(events)
    BY ONLY <2>1, <2>2
  <2> QED BY <2>1, <2>3, Zenon
<1>6. AreTargets(events, targets, cut)
  <2> HIDE DEF targets, cut
  <2> QED BY <1>4, <1>5 DEF AreTargets
<1>7. IsPlanFor(p, base, events, targets, cut)
  BY <1>2 DEF IsPlanFor, Reversals, BaseOf, Scoped, Buried, CutSeqs, TaskIds
<1> QED BY <1>2, <1>6, <1>7

\* A mark counts within the events of the tasks undone as it does in the whole log.
LEMMA ScopedUndone ==
    ASSUME NEW events, IsHistory(events), NEW targets,
           NEW i \in 1..Len(events), events[i].id \in TaskIds(events, targets)
    PROVE  events[i].seq \in Undone(Scoped(events, targets)) <=> events[i].seq \in Undone(events)
<1> DEFINE places == {j \in DOMAIN events : events[j].id \in TaskIds(events, targets)}
<1>1. IsSeq(events) /\ DOMAIN events = 1..Len(events)
  BY LogBasics DEF IsHistory
<1>2. PICK scoped : scoped = Scoped(events, targets)
  OBVIOUS
<1>3. scoped = Picked(events, places)
  BY <1>2 DEF Scoped
<1> HIDE DEF places
<1>4. /\ IsSeq(scoped)
      /\ \A k \in 1..Len(scoped) : \E j \in 1..Len(events) : scoped[k] = events[j]
  BY <1>1, <1>3, PickedEvents
<1>5. \A j \in places : j \in 1..Len(events) =>
          \E k \in 1..Len(scoped) : scoped[k] = events[j]
  BY <1>1, <1>3, PickedHolds
<1>6. DOMAIN scoped = 1..Len(scoped)
  BY <1>4, SeqBasics
<1>7. ASSUME events[i].seq \in Undone(scoped)
      PROVE  events[i].seq \in Undone(events)
  <2>1. PICK k \in 1..Len(scoped) : scoped[k].undoes = events[i].seq /\ events[i].seq # NoUndo
    BY <1>6, <1>7 DEF Undone
  <2> QED BY <1>1, <1>4, <2>1 DEF Undone
<1>8. ASSUME events[i].seq \in Undone(events)
      PROVE  events[i].seq \in Undone(scoped)
  <2>1. PICK j \in 1..Len(events) : events[j].undoes = events[i].seq /\ events[i].seq # NoUndo
    BY <1>1, <1>8 DEF Undone
  <2>2. events[j].id = events[i].id
    BY <1>1, <2>1 DEF IsHistory, MarksAreSound
  <2>3. j \in places
    BY <1>1, <2>2 DEF places
  <2>4. PICK k \in 1..Len(scoped) : scoped[k] = events[j]
    BY <1>5, <2>3
  <2> QED BY <1>6, <2>1, <2>4 DEF Undone
<1> QED BY <1>2, <1>7, <1>8

\* Of a task that is undone, the scoped replay shows what a replay of the same events
\* of the whole log shows.
LEMMA ScopedOriginals ==
    ASSUME NEW base, AllTasks(base), NEW events, IsEvents(events), NEW targets,
           NEW id \in TaskIds(events, targets), NEW R, NEW A,
           \A i \in 1..Len(events) : events[i].id = id =>
              (i \in A <=> events[i].undoes = NoUndo /\ events[i].seq \notin R)
    PROVE  SameTask(Materialize(BaseOf(base, events, targets),
                                Originals(Scoped(events, targets), R)),
                    Materialize(base, Picked(events, A)), id)
<1> DEFINE places == {j \in DOMAIN events : events[j].id \in TaskIds(events, targets)}
           G == {events[j] : j \in {i \in 1..Len(events) :
                                      events[i].undoes = NoUndo /\ events[i].seq \notin R}}
<1>1. IsSeq(events) /\ DOMAIN events = 1..Len(events)
  BY SeqBasics DEF IsEvents
<1>2. PICK scoped : scoped = Scoped(events, targets)
  OBVIOUS
<1>3. scoped = Picked(events, places)
  BY <1>2 DEF Scoped
<1>4. /\ IsSeq(scoped)
      /\ \A k \in 1..Len(scoped) : \E j \in 1..Len(events) : scoped[k] = events[j]
  <2> HIDE DEF places
  <2> QED BY <1>1, <1>3, PickedEvents
<1>5. DOMAIN scoped = 1..Len(scoped)
  BY <1>4, SeqBasics
<1> DEFINE b == {i \in 1..Len(scoped) : scoped[i] \in G}
           c == {i \in 1..Len(events) : i \in places /\ events[i] \in G}
<1>6. b = {i \in DOMAIN scoped : scoped[i].undoes = NoUndo /\ scoped[i].seq \notin R}
  BY <1>4, <1>5
<1>8. \A i \in 1..Len(events) : events[i].id = id => (i \in c <=> i \in A)
  BY <1>1
<1>9. Originals(scoped, R) = Picked(scoped, b)
  BY <1>6 DEF Originals
<1> HIDE DEF places, G
<1>10. Picked(scoped, b) = Picked(events, c)
  <2>1. PICK S, H, u, v : S = places /\ H = G /\ u = b /\ v = c
    OBVIOUS
  <2>2. /\ scoped = Picked(events, S)
        /\ u = {i \in 1..Len(scoped) : scoped[i] \in H}
        /\ v = {i \in 1..Len(events) : i \in S /\ events[i] \in H}
    BY <1>3, <2>1
  <2>3. IsSeq(events)
    BY <1>1
  <2>9. PICK W : H \in W
    OBVIOUS
  <2>4. Picked(scoped, u) = Picked(events, v)
    BY ONLY <2>9, <2>2, <2>3, PickedTwice
  <2> QED BY <2>1, <2>4
<1> HIDE DEF b, c
<1>11. PICK within : within = BaseOf(base, events, targets)
  OBVIOUS
<1>12. AllTasks(within) /\ SameTask(within, base, id)
  BY <1>11 DEF BaseOf, Restrict, AllTasks, SameTask
<1>13. SameTask(Materialize(within, Picked(events, c)), Materialize(base, Picked(events, A)), id)
  BY <1>8, <1>12, PickedSame
<1> QED BY <1>2, <1>9, <1>10, <1>11, <1>13

\* Every target gets a mark.
LEMMA AllBuriedAreMarked ==
    ASSUME NEW base, IsStored(base), IsSettled(base), NEW events, IsEvents(events),
           NEW targets, IsSeq(targets), NEW removed, NEW comps,
           comps = BuriedCompensations(base, events, targets, removed),
           NEW k \in 1..Len(targets)
    PROVE  \E i \in 1..Len(comps) : comps[i].undoes = targets[k].seq
<1>1. PICK list : comps = FlattenSeq(list) /\ AreReversals(list, base, events, removed, targets)
  BY BuriedAreReversals
<1>2. PICK d : d = Reversal(StateWithout(base, events, removed, targets, k - 1),
                            StateWithout(base, events, removed, targets, k),
                            targets[k].id)
  OBVIOUS
<1>3. /\ AreDrafts(d, targets[k].id) /\ Len(list[k]) = Len(d)
      /\ \A i \in 1..Len(d) : list[k][i].undoes = targets[k].seq
  BY <1>1, <1>2 DEF AreReversals
<1>4. d # << >>
  BY <1>2 DEF Reversal
<1>5. Len(d) \in Nat /\ Len(d) # 0
  <2>1. IsSeq(d)
    BY <1>3 DEF AreDrafts, IsEvents
  <2> QED BY <1>4, <2>1, SeqBasics DEF IsSeq
<1>6. 1 \in 1..Len(list[k]) /\ list[k][1].undoes = targets[k].seq
  BY <1>3, <1>5
<1>7. \A m \in 1..Len(list) : IsSeq(list[m])
  BY <1>1 DEF AreReversals
<1>8. \E j \in 1..Len(FlattenSeq(list)) : FlattenSeq(list)[j] = list[k][1]
  <2>1. k \in 1..Len(list) /\ IsSeq(list)
    BY <1>1 DEF AreReversals
  <2> QED BY ONLY <1>6, <1>7, <2>1, FlattenHolds
<1> QED BY <1>1, <1>6, <1>8

\* The targets that are not cut off.
HoldsTargets(buried, events, targets, cut) ==
    /\ \A k \in 1..Len(buried) : \E j \in 1..cut : j \in targets /\ buried[k] = events[j]
    /\ \A j \in 1..cut : j \in targets => \E k \in 1..Len(buried) : buried[k] = events[j]

LEMMA BuriedAreTargets ==
    ASSUME NEW events, IsSeq(events), NEW targets, NEW cut \in 0..Len(events),
           NEW buried, buried = Buried(events, targets, cut)
    PROVE  IsSeq(buried) /\ HoldsTargets(buried, events, targets, cut)
<1>1. PICK prefix : prefix = SubSeq(events, 1, cut)
  OBVIOUS
<1>2. /\ IsSeq(prefix) /\ Len(prefix) = cut
      /\ \A i \in 1..cut : prefix[i] = events[i]
  BY <1>1, SeqPrefix
<1>3. PICK s : s = Picked(prefix, targets)
  OBVIOUS
<1>4. /\ IsSeq(s)
      /\ \A i \in 1..Len(s) : \E j \in 1..Len(prefix) : j \in targets /\ s[i] = prefix[j]
  BY <1>2, <1>3, PickedEvents
<1>5. \A j \in 1..Len(prefix) : j \in targets => \E i \in 1..Len(s) : s[i] = prefix[j]
  BY <1>2, <1>3, PickedHolds, SMTT(30)
<1>6. buried = Reverse(s)
  BY <1>1, <1>3 DEF Buried
<1>7. /\ IsSeq(buried)
      /\ \A k \in 1..Len(buried) : \E i \in 1..Len(s) : buried[k] = s[i]
      /\ \A i \in 1..Len(s) : \E k \in 1..Len(buried) : buried[k] = s[i]
  <2>1. IsSeq(s)
    BY <1>4
  <2>2. IsSeq(buried) /\ AllIn(buried, s) /\ AllIn(s, buried)
    BY <1>6, <2>1, ReversedElements
  <2> QED BY <2>2 DEF AllIn
<1>8. \A k \in 1..Len(buried) : \E j \in 1..cut : j \in targets /\ buried[k] = events[j]
  <2> TAKE k \in 1..Len(buried)
  <2>1. PICK i \in 1..Len(s) : buried[k] = s[i]
    BY <1>7
  <2>2. PICK j \in 1..Len(prefix) : j \in targets /\ s[i] = prefix[j]
    BY <1>4
  <2> QED BY <1>2, <2>1, <2>2
<1>9. \A j \in 1..cut : j \in targets => \E k \in 1..Len(buried) : buried[k] = events[j]
  <2> TAKE j \in 1..cut
  <2> HAVE j \in targets
  <2>1. PICK i \in 1..Len(s) : s[i] = prefix[j]
    BY <1>2, <1>5
  <2>2. PICK k \in 1..Len(buried) : buried[k] = s[i]
    BY <1>7
  <2> QED BY <1>2, <2>1, <2>2
<1> QED BY <1>7, <1>8, <1>9 DEF HoldsTargets

LEMMA NumberedEvents ==
    ASSUME NEW events, NEW comps, IsSeq(comps), NEW now,
           NEW more, more = Numbered(events, comps, now)
    PROVE  /\ IsSeq(more) /\ Len(more) = Len(comps)
           /\ \A i \in 1..Len(comps) :
                /\ "seq" \in DOMAIN more[i] /\ more[i].seq = NextSeq(events) + i - 1
                /\ SameDraft(more[i], comps[i].draft) /\ more[i].undoes = comps[i].undoes
<1>1. Len(comps) \in Nat /\ DOMAIN comps = 1..Len(comps)
  BY SeqBasics
<1> DEFINE S == {more[i] : i \in 1..Len(comps)}
<1>2. more \in [1..Len(comps) -> S]
  BY <1>1 DEF Numbered
<1>3. more \in Seq(S) /\ Len(more) = Len(comps)
  BY <1>1, <1>2
<1>4. \A i \in 1..Len(comps) :
         /\ "seq" \in DOMAIN more[i] /\ more[i].seq = NextSeq(events) + i - 1
         /\ SameDraft(more[i], comps[i].draft) /\ more[i].undoes = comps[i].undoes
  BY <1>1 DEF Numbered, SameDraft
<1> QED BY <1>3, <1>4 DEF IsSeq

LEMMA BaseIsStored ==
    ASSUME NEW base, IsStored(base), IsSettled(base), NEW events, NEW targets,
           NEW within, within = BaseOf(base, events, targets)
    PROVE  IsStored(within) /\ IsSettled(within)
<1>1. DOMAIN within \in SUBSET DOMAIN base /\ \A id \in DOMAIN within : within[id] = base[id]
  BY DEF BaseOf, Restrict
<1>2. IsFiniteSet(DOMAIN within)
  BY <1>1, FS_Subset DEF IsStored
<1> QED BY <1>1, <1>2 DEF IsStored, IsSettled, AllTasks

\* What a plan appends: the drafts that take the targets away, each with a mark of a
\* target of its task, and a mark for every target.
Appends(more, base, events, targets, cut) ==
    /\ IsEvents(more) /\ Len(more) = Len(Reversals(base, events, targets, cut))
    /\ \A i \in 1..Len(more) :
          /\ SameDraft(more[i], Reversals(base, events, targets, cut)[i].draft)
          /\ "seq" \in DOMAIN more[i]
          /\ more[i].seq = NextSeq(SubSeq(events, 1, cut)) + i - 1
          /\ \E j \in 1..cut : /\ j \in targets /\ more[i].undoes = events[j].seq
                               /\ more[i].id = events[j].id
    /\ \A j \in 1..cut : j \in targets => \E i \in 1..Len(more) : more[i].undoes = events[j].seq

LEMMA PlanWrites ==
    ASSUME NEW base, IsStored(base), IsSettled(base), NEW events, IsEvents(events),
           NEW targets, NEW cut, AreTargets(events, targets, cut),
           NEW p, IsPlanFor(p, base, events, targets, cut)
    PROVE  \E more : /\ p.log = SubSeq(events, 1, cut) \o more
                     /\ Appends(more, base, events, targets, cut)
<1>1. IsSeq(events) /\ cut \in 0..Len(events)
  BY DEF IsEvents, AreTargets
<1>2. PICK within, scoped, buried, removed :
        /\ within = BaseOf(base, events, targets) /\ scoped = Scoped(events, targets)
        /\ buried = Buried(events, targets, cut)
        /\ removed = Undone(Scoped(events, targets)) \cup CutSeqs(events, cut)
  OBVIOUS
<1>3. PICK comps : comps = BuriedCompensations(within, scoped, buried, removed)
  OBVIOUS
<1>4. comps = Reversals(base, events, targets, cut)
  BY <1>2, <1>3 DEF Reversals
<1>5. IsStored(within) /\ IsSettled(within)
  BY <1>2, BaseIsStored
<1>6. IsEvents(scoped)
  BY <1>2, PickedAreEvents DEF Scoped
<1>7. IsSeq(buried) /\ HoldsTargets(buried, events, targets, cut)
  BY <1>1, <1>2, BuriedAreTargets
<1>8. /\ IsSeq(comps)
      /\ \A i \in 1..Len(comps) : \E k \in 1..Len(buried) :
             /\ comps[i].undoes = buried[k].seq
             /\ comps[i].draft.id = buried[k].id /\ comps[i].draft.op \in EventOps
  <2>1. IsSeq(buried)
    BY <1>7
  <2> QED BY ONLY <1>3, <1>5, <1>6, <2>1, BuriedAreMarked
<1>9. \A k \in 1..Len(buried) : \E i \in 1..Len(comps) : comps[i].undoes = buried[k].seq
  <2>1. IsSeq(buried)
    BY <1>7
  <2> QED BY ONLY <1>3, <1>5, <1>6, <2>1, AllBuriedAreMarked
<1>10. PICK more : more = Numbered(SubSeq(events, 1, cut), comps, 1)
  OBVIOUS
<1>11. p.log = SubSeq(events, 1, cut) \o more
  BY <1>4, <1>10 DEF IsPlanFor
<1>12. /\ IsSeq(more) /\ Len(more) = Len(comps)
       /\ \A i \in 1..Len(comps) :
             /\ "seq" \in DOMAIN more[i]
             /\ more[i].seq = NextSeq(SubSeq(events, 1, cut)) + i - 1
             /\ SameDraft(more[i], comps[i].draft) /\ more[i].undoes = comps[i].undoes
  <2>1. IsSeq(comps)
    BY <1>8
  <2> QED BY ONLY <1>10, <2>1, NumberedEvents
<1>13. IsEvents(more)
  BY <1>8, <1>12 DEF IsEvents, SameDraft
<1>14. ASSUME NEW i \in 1..Len(more)
       PROVE  \E j \in 1..cut : /\ j \in targets /\ more[i].undoes = events[j].seq
                                /\ more[i].id = events[j].id
  <2>1. /\ i \in 1..Len(comps)
        /\ SameDraft(more[i], comps[i].draft) /\ more[i].undoes = comps[i].undoes
    BY <1>12
  <2>2. PICK k \in 1..Len(buried) : /\ comps[i].undoes = buried[k].seq
                                    /\ comps[i].draft.id = buried[k].id
    BY <1>8, <2>1
  <2>3. PICK j \in 1..cut : j \in targets /\ buried[k] = events[j]
    BY <1>7 DEF HoldsTargets
  <2> QED BY <2>1, <2>2, <2>3 DEF SameDraft
<1>15. \A j \in 1..cut : j \in targets => \E i \in 1..Len(more) : more[i].undoes = events[j].seq
  <2> TAKE j \in 1..cut
  <2> HAVE j \in targets
  <2>1. PICK k \in 1..Len(buried) : buried[k] = events[j]
    BY <1>7 DEF HoldsTargets
  <2>2. PICK i \in 1..Len(comps) : comps[i].undoes = buried[k].seq
    BY <1>9
  <2> QED BY <1>12, <2>1, <2>2
<1>16. Appends(more, base, events, targets, cut)
  BY <1>4, <1>12, <1>13, <1>14, <1>15 DEF Appends
<1> QED BY <1>11, <1>16

----------------------------------------------------------------------------
(* The events that stand, and what they tell.                              *)

\* The places of the events that stand: originals that no mark reverses.
Live(events) == {i \in 1..Len(events) : Undoable(events, i)}

\* Every mark of a task's events after a place reverses an event after it.
Fresh(events, id, n) ==
    \A i \in 1..Len(events) : i > n /\ events[i].id = id /\ events[i].undoes # NoUndo =>
        \E j \in 1..Len(events) : j > n /\ events[j].seq = events[i].undoes

\* Up to every place before which nothing of a task is reversed later on, the log
\* shows of it what the events that stand tell.
Tells(base, events, told) ==
    \A id : \A n \in 0..Len(events) : Fresh(events, id, n) =>
        SameTask(Materialize(base, SubSeq(events, 1, n)),
                 Materialize(told, Picked(events, Live(events) \cap 1..n)), id)

\* Which events of an undone task a replay without the cut seqs, without the buried
\* ones as well, and without all that is undone takes in.
LEMMA WhatIsLeft ==
    ASSUME NEW events, IsHistory(events), NEW targets, NEW cut,
           AreTargets(events, targets, cut), NEW scoped, scoped = Scoped(events, targets),
           NEW buried, IsSeq(buried), HoldsTargets(buried, events, targets, cut),
           NEW i \in 1..Len(events), events[i].id \in TaskIds(events, targets)
    PROVE  /\ i \in Live(events) \cap 1..cut <=>
                 /\ events[i].undoes = NoUndo
                 /\ events[i].seq \notin Undone(scoped) \cup CutSeqs(events, cut)
           /\ i \in Live(events) \ targets <=>
                 /\ events[i].undoes = NoUndo
                 /\ events[i].seq \notin Undone(scoped) \cup {events[j].seq : j \in targets}
           /\ i \in Live(events) \ targets <=>
                 /\ events[i].undoes = NoUndo
                 /\ events[i].seq \notin Undone(scoped) \cup CutSeqs(events, cut)
                                           \cup {buried[k].seq : k \in 1..Len(buried)}
<1>1. IsLog(events) /\ Len(events) \in Nat /\ cut \in 0..Len(events)
  BY LogBasics DEF IsHistory, AreTargets
<1>2. events[i].seq \in Undone(scoped) <=> events[i].seq \in Undone(events)
  BY ScopedUndone
<1>3. i \in Live(events) <=> events[i].undoes = NoUndo /\ events[i].seq \notin Undone(scoped)
  BY <1>2 DEF Live, Undoable
<1>4. \A j \in 1..Len(events) : events[i].seq = events[j].seq => i = j
  BY <1>1, SeqsDiffer
<1>5. events[i].seq \in CutSeqs(events, cut) <=> i > cut
  <2>1. \A j \in (cut + 1)..Len(events) : j \in 1..Len(events) /\ j > cut
    BY <1>1
  <2>2. i > cut => i \in (cut + 1)..Len(events)
    BY <1>1
  <2> QED BY <1>4, <2>1, <2>2 DEF CutSeqs
<1>6. events[i].seq \in {events[j].seq : j \in targets} <=> i \in targets
  BY <1>4 DEF AreTargets
<1>7. events[i].seq \in {buried[k].seq : k \in 1..Len(buried)} <=> i \in targets /\ i <= cut
  <2>1. ASSUME NEW k \in 1..Len(buried), events[i].seq = buried[k].seq
        PROVE  i \in targets /\ i <= cut
    <3>1. PICK j \in 1..cut : j \in targets /\ buried[k] = events[j]
      BY DEF HoldsTargets
    <3>2. j \in 1..Len(events)
      BY <1>1
    <3> QED BY <1>1, <1>4, <2>1, <3>1, <3>2
  <2>2. ASSUME i \in targets, i <= cut
        PROVE  \E k \in 1..Len(buried) : events[i].seq = buried[k].seq
    <3>1. i \in 1..cut
      BY <1>1, <2>2
    <3>2. PICK k \in 1..Len(buried) : buried[k] = events[i]
      BY <2>2, <3>1 DEF HoldsTargets
    <3> QED BY <3>2
  <2> QED BY <2>1, <2>2
<1>8. i > cut => i \in targets
  BY DEF AreTargets
<1>9. i \in 1..cut <=> ~ (i > cut)
  BY <1>1
<1>10. i <= cut <=> ~ (i > cut)
  BY <1>1
<1> QED BY <1>3, <1>5, <1>6, <1>7, <1>8, <1>9, <1>10

\* If nothing that a task's marks reverse was folded, the base shows it as told.
LEMMA ToldFromBase ==
    ASSUME NEW base, NEW events, IsEvents(events), NEW told, Tells(base, events, told),
           NEW id, Fresh(events, id, 0)
    PROVE  SameTask(base, told, id)
<1>1. IsSeq(events) /\ Len(events) \in Nat
  BY SeqBasics DEF IsEvents
<1>2. PICK places : places = Live(events) \cap 1..0
  OBVIOUS
<1>3. \A i \in 1..Len(events) : i \notin places
  BY <1>2
<1>4. Picked(events, places) = << >> /\ SubSeq(events, 1, 0) = << >>
  BY <1>1, <1>3, NothingPicked
<1>5. SameTask(Materialize(base, SubSeq(events, 1, 0)),
               Materialize(told, Picked(events, places)), id)
  BY <1>1, <1>2 DEF Tells
<1> QED BY <1>4, <1>5, MaterializeEmpty

\* The log a plan writes, and the state it promises, show of a task what the events
\* tell that stand without the targets.
LEMMA TaskWithout ==
    ASSUME NEW base, IsStored(base), IsSettled(base), NEW told, AllTasks(told),
           NEW events, IsHistory(events), Tells(base, events, told),
           NEW targets, NEW cut, AreTargets(events, targets, cut),
           NEW p, IsPlanFor(p, base, events, targets, cut),
           NEW id \in TaskIds(events, targets), Fresh(events, id, 0),
           NEW rest, rest = Materialize(told, Picked(events, Live(events) \ targets))
    PROVE  /\ SameTask(Materialize(base, p.log), rest, id)
           /\ SameTask(p.after, rest, id)
<1>1. /\ IsLog(events) /\ IsEvents(events) /\ IsSeq(events) /\ Len(events) \in Nat
      /\ cut \in 0..Len(events) /\ AllTasks(base)
  BY LogBasics DEF IsHistory, AreTargets, IsStored
<1>2. PICK within, scoped, buried, removed :
        /\ within = BaseOf(base, events, targets) /\ scoped = Scoped(events, targets)
        /\ buried = Buried(events, targets, cut)
        /\ removed = Undone(scoped) \cup CutSeqs(events, cut)
  OBVIOUS
<1>3. PICK comps : comps = BuriedCompensations(within, scoped, buried, removed)
  OBVIOUS
<1>4. comps = Reversals(base, events, targets, cut)
  BY <1>2, <1>3 DEF Reversals
<1>5. IsStored(within) /\ IsSettled(within)
  BY <1>2, BaseIsStored
<1>6. IsEvents(scoped)
  BY <1>1, <1>2, PickedAreEvents DEF Scoped
<1>7. IsSeq(buried) /\ HoldsTargets(buried, events, targets, cut)
  BY <1>1, <1>2, BuriedAreTargets
<1>8. PICK here, left : here = Live(events) \cap 1..cut /\ left = Live(events) \ targets
  OBVIOUS
<1>9. SameTask(base, told, id)
  BY <1>1, ToldFromBase
<1>10. PICK n \in Nat : n = Len(buried)
  BY <1>7, SeqBasics
<1>11. SameTask(StateWithout(within, scoped, removed, buried, 0),
                Materialize(base, Picked(events, here)), id)
  <2> DEFINE none == {buried[k].seq : k \in 1..0}
  <2>1. none = {}
    OBVIOUS
  <2>2. PICK R : R = removed \cup none
    OBVIOUS
  <2>3. \A i \in 1..Len(events) : events[i].id = id =>
           (i \in here <=> events[i].undoes = NoUndo /\ events[i].seq \notin R)
    BY <1>2, <1>7, <1>8, <2>1, <2>2, WhatIsLeft
  <2>4. SameTask(Materialize(within, Originals(scoped, R)),
                 Materialize(base, Picked(events, here)), id)
    BY <1>1, <1>2, <2>3, ScopedOriginals
  <2> QED BY <2>2, <2>4 DEF StateWithout
<1>12. SameTask(StateWithout(within, scoped, removed, buried, n),
                Materialize(base, Picked(events, left)), id)
  <2>1. PICK R : R = removed \cup {buried[k].seq : k \in 1..n}
    OBVIOUS
  <2>2. \A i \in 1..Len(events) : events[i].id = id =>
           (i \in left <=> events[i].undoes = NoUndo /\ events[i].seq \notin R)
    BY <1>2, <1>7, <1>8, <1>10, <2>1, WhatIsLeft
  <2>3. SameTask(Materialize(within, Originals(scoped, R)),
                 Materialize(base, Picked(events, left)), id)
    BY <1>1, <1>2, <2>2, ScopedOriginals
  <2> QED BY <2>1, <2>3 DEF StateWithout
<1>13. SameTask(p.after, Materialize(base, Picked(events, left)), id)
  <2>1. PICK R : R = Undone(scoped) \cup {events[j].seq : j \in targets}
    OBVIOUS
  <2>2. \A i \in 1..Len(events) : events[i].id = id =>
           (i \in left <=> events[i].undoes = NoUndo /\ events[i].seq \notin R)
    BY <1>2, <1>7, <1>8, <2>1, WhatIsLeft
  <2>3. SameTask(Materialize(within, Originals(scoped, R)),
                 Materialize(base, Picked(events, left)), id)
    BY <1>1, <1>2, <2>2, ScopedOriginals
  <2>4. p.after = Materialize(within, Originals(scoped, R))
    BY <1>2, <2>1 DEF IsPlanFor
  <2> QED BY <2>3, <2>4
<1>14. ASSUME NEW places
       PROVE  SameTask(Materialize(base, Picked(events, places)),
                       Materialize(told, Picked(events, places)), id)
  BY <1>1, <1>9, PickedSame
<1>15. PICK prefix : prefix = SubSeq(events, 1, cut)
  OBVIOUS
<1>16. IsEvents(prefix)
  BY <1>1, <1>15, SeqPrefix DEF IsEvents
<1>17. PICK more : p.log = prefix \o more /\ Appends(more, base, events, targets, cut)
  BY <1>1, <1>15, PlanWrites
<1>18. /\ IsEvents(more) /\ Len(more) = Len(comps)
       /\ \A i \in 1..Len(more) : SameDraft(more[i], comps[i].draft)
  BY <1>4, <1>17 DEF Appends
<1>19. PICK now : now = Materialize(base, prefix)
  OBVIOUS
<1>20. AllTasks(now)
  BY <1>16, <1>19, MaterializeKeepsStored DEF IsStored
<1>21. SameTask(now, StateWithout(within, scoped, removed, buried, 0), id)
  <2>1. Fresh(events, id, cut)
    BY <1>1 DEF Fresh, AreTargets, Undoable
  <2>2. SameTask(now, Materialize(told, Picked(events, here)), id)
    BY <1>1, <1>8, <1>15, <1>19, <2>1 DEF Tells
  <2> QED BY <1>11, <1>14, <2>2, SameTaskBoth
<1>22. \A k \in 1..Len(buried) : \A i \in 1..Len(scoped) :
          scoped[i].seq = buried[k].seq => scoped[i].id = buried[k].id
  <2> TAKE k \in 1..Len(buried)
  <2> TAKE i \in 1..Len(scoped)
  <2> HAVE scoped[i].seq = buried[k].seq
  <2>1. PICK j \in 1..cut : buried[k] = events[j]
    BY <1>7 DEF HoldsTargets
  <2>2. PICK x \in 1..Len(events) : scoped[i] = events[x]
    <3>1. PICK places : scoped = Picked(events, places)
      BY <1>2 DEF Scoped
    <3>2. IsSeq(events)
      BY <1>1
    <3> QED BY ONLY <3>1, <3>2, PickedEvents, i \in 1..Len(scoped)
  <2>3. j \in 1..Len(events)
    BY <1>1
  <2>4. x = j
    BY <1>1, <2>1, <2>2, <2>3, SeqsDiffer
  <2> QED BY <2>1, <2>2, <2>4
<1>23. SameTask(Materialize(now, more), StateWithout(within, scoped, removed, buried, n), id)
  BY <1>3, <1>5, <1>6, <1>7, <1>10, <1>18, <1>20, <1>21, <1>22, TargetsTaken
<1>24. Materialize(base, p.log) = Materialize(now, more)
  BY <1>16, <1>17, <1>18, <1>19, MaterializeConcat DEF IsEvents
<1>25. SameTask(Materialize(base, Picked(events, left)), rest, id)
  BY <1>8, <1>14
<1> QED BY <1>12, <1>13, <1>23, <1>24, <1>25, SameTaskBoth

\* The log an undo leaves: the events up to the cut, and marks of targets among them.
IsCutAndMarked(new, events, targets, cut) ==
    /\ \A i \in 1..cut : i \in 1..Len(new) /\ new[i] = events[i]
    /\ \A i \in 1..Len(new) : i > cut =>
          \E j \in 1..cut : /\ j \in targets /\ new[i].undoes = events[j].seq
                            /\ new[i].id = events[j].id
    /\ \A j \in 1..cut : j \in targets =>
          \E i \in 1..Len(new) : i > cut /\ new[i].undoes = events[j].seq

LEMMA PlanCutsAndMarks ==
    ASSUME NEW base, NEW events, IsSeq(events), NEW targets, NEW cut \in 0..Len(events),
           NEW more, Appends(more, base, events, targets, cut),
           NEW new, new = SubSeq(events, 1, cut) \o more
    PROVE  IsCutAndMarked(new, events, targets, cut)
<1>1. PICK prefix : prefix = SubSeq(events, 1, cut)
  OBVIOUS
<1>2. /\ IsSeq(prefix) /\ Len(prefix) = cut /\ cut \in Nat
      /\ \A i \in 1..cut : prefix[i] = events[i]
  BY <1>1, SeqPrefix, SeqBasics
<1>3. IsSeq(more)
  BY DEF Appends, IsEvents
<1>4. PICK n \in Nat : n = Len(more)
  BY <1>3, SeqBasics
<1>5. /\ Len(new) = cut + n
      /\ \A i \in 1..cut : new[i] = prefix[i]
      /\ \A i \in 1..n : new[cut + i] = more[i]
  <2>1. IsSeq(prefix)
    BY <1>2
  <2>2. /\ Len(prefix \o more) = Len(prefix) + Len(more)
        /\ \A i \in 1..Len(prefix) : (prefix \o more)[i] = prefix[i]
        /\ \A i \in 1..Len(more) : (prefix \o more)[Len(prefix) + i] = more[i]
    BY ONLY <1>3, <2>1, SeqConcat
  <2>3. new = prefix \o more
    BY <1>1
  <2> QED BY <1>2, <1>4, <2>2, <2>3
<1>6. \A i \in 1..cut : i \in 1..Len(new) /\ new[i] = events[i]
  BY <1>2, <1>4, <1>5
<1>7. ASSUME NEW i \in 1..Len(new), i > cut
      PROVE  \E j \in 1..cut : /\ j \in targets /\ new[i].undoes = events[j].seq
                               /\ new[i].id = events[j].id
  <2>1. i - cut \in 1..n /\ i = cut + (i - cut)
    BY <1>2, <1>4, <1>5, <1>7
  <2>2. new[i] = more[i - cut]
    BY <1>5, <2>1
  <2> QED BY <1>4, <2>1, <2>2, ZenonT(60) DEF Appends
<1>8. ASSUME NEW j \in 1..cut, j \in targets
      PROVE  \E i \in 1..Len(new) : i > cut /\ new[i].undoes = events[j].seq
  <2>1. PICK i \in 1..n : more[i].undoes = events[j].seq
    BY <1>4, <1>8 DEF Appends
  <2>2. cut + i \in 1..Len(new) /\ cut + i > cut /\ new[cut + i] = more[i]
    BY <1>2, <1>4, <1>5
  <2> QED BY <2>1, <2>2
<1> QED BY <1>6, <1>7, <1>8 DEF IsCutAndMarked

\* What stands in the log after an undo is what stood before, without the targets.
LEMMA LiveAfterUndo ==
    ASSUME NEW events, IsHistory(events), NEW targets, NEW cut, AreTargets(events, targets, cut),
           NEW new, IsHistory(new), IsCutAndMarked(new, events, targets, cut)
    PROVE  Live(new) = Live(events) \ targets
<1>1. /\ IsLog(events) /\ IsSeq(events) /\ Len(events) \in Nat /\ DOMAIN events = 1..Len(events)
      /\ cut \in 0..Len(events)
  BY LogBasics DEF IsHistory, AreTargets
<1>2. /\ IsLog(new) /\ IsSeq(new) /\ Len(new) \in Nat /\ DOMAIN new = 1..Len(new)
  BY LogBasics DEF IsHistory
<1>3. \A i \in 1..cut : i \in 1..Len(new) /\ i \in 1..Len(events) /\ new[i] = events[i]
  BY <1>1 DEF IsCutAndMarked
<1>4. ASSUME NEW i \in Live(new)
      PROVE  i \in 1..cut
  <2>1. i \in 1..Len(new) /\ new[i].undoes = NoUndo
    BY DEF Live, Undoable
  <2>2. ASSUME i > cut PROVE FALSE
    <3>1. PICK j \in 1..cut : new[i].undoes = events[j].seq
      BY <2>1, <2>2 DEF IsCutAndMarked
    <3>2. events[j].seq # NoUndo
      BY <1>3 DEF IsHistory, Counted
    <3> QED BY <2>1, <3>1, <3>2
  <2> QED BY <1>1, <1>2, <2>1, <2>2
<1>5. ASSUME NEW i \in Live(events) \ targets
      PROVE  i \in 1..cut
  BY <1>1 DEF Live, AreTargets
<1>6. ASSUME NEW i \in 1..cut
      PROVE  new[i].seq \in Undone(new) <=> events[i].seq \in Undone(events) \/ i \in targets
  <2>1. ASSUME NEW j \in 1..Len(new), new[j].undoes = new[i].seq, new[j].undoes # NoUndo
        PROVE  events[i].seq \in Undone(events) \/ i \in targets
    <3>1. CASE j <= cut
      <4>1. j \in 1..cut
        BY <1>1, <1>2, <3>1
      <4> QED BY <1>1, <1>3, <2>1, <4>1 DEF Undone
    <3>2. CASE j > cut
      <4>1. PICK k \in 1..cut : k \in targets /\ new[j].undoes = events[k].seq
        BY <3>2 DEF IsCutAndMarked
      <4>2. i = k
        BY <1>1, <1>3, <2>1, <4>1, SeqsDiffer
      <4> QED BY <4>1, <4>2
    <3> QED BY <1>1, <1>2, <3>1, <3>2
  <2>2. ASSUME NEW j \in 1..Len(events), events[j].undoes = events[i].seq,
               events[j].undoes # NoUndo
        PROVE  new[i].seq \in Undone(new)
    <3>1. j \in 1..cut
      BY <1>1, <2>2 DEF AreTargets, Undoable
    <3> QED BY <1>2, <1>3, <2>2, <3>1 DEF Undone
  <2>3. ASSUME i \in targets PROVE new[i].seq \in Undone(new)
    <3>1. PICK j \in 1..Len(new) : new[j].undoes = events[i].seq
      BY <2>3 DEF IsCutAndMarked
    <3>2. events[i].seq # NoUndo
      BY <1>3 DEF IsHistory, Counted
    <3> QED BY <1>2, <1>3, <3>1, <3>2 DEF Undone
  <2> QED BY <1>1, <1>2, <2>1, <2>2, <2>3 DEF Undone
<1>7. ASSUME NEW i \in 1..cut
      PROVE  i \in Live(new) <=> i \in Live(events) \ targets
  <2>1. i \in Live(new) <=> new[i].undoes = NoUndo /\ new[i].seq \notin Undone(new)
    BY <1>3 DEF Live, Undoable
  <2>2. i \in Live(events) <=> events[i].undoes = NoUndo /\ events[i].seq \notin Undone(events)
    BY <1>3 DEF Live, Undoable
  <2> QED BY <1>3, <1>6, <2>1, <2>2
<1> QED BY <1>4, <1>5, <1>7

\* An undo keeps the log telling what the events that stand tell.
LEMMA UndoTells ==
    ASSUME NEW base, AllTasks(base), NEW told, AllTasks(told),
           NEW events, IsHistory(events), Tells(base, events, told),
           NEW targets, NEW cut, AreTargets(events, targets, cut),
           NEW new, IsHistory(new), IsCutAndMarked(new, events, targets, cut),
           \A id \in TaskIds(events, targets) :
              SameTask(Materialize(base, new),
                       Materialize(told, Picked(events, Live(events) \ targets)), id)
    PROVE  /\ Picked(new, Live(new)) = Picked(events, Live(events) \ targets)
           /\ Tells(base, new, told)
<1>1. /\ IsLog(events) /\ IsEvents(events) /\ IsSeq(events) /\ Len(events) \in Nat
      /\ cut \in 0..Len(events)
  BY LogBasics DEF IsHistory, AreTargets
<1>2. IsLog(new) /\ IsEvents(new) /\ IsSeq(new) /\ Len(new) \in Nat
  BY LogBasics DEF IsHistory
<1>3. \A i \in 1..cut : i \in 1..Len(new) /\ i \in 1..Len(events) /\ new[i] = events[i]
  BY <1>1 DEF IsCutAndMarked
<1>4. PICK left : left = Live(events) \ targets
  OBVIOUS
<1>5. Live(new) = left
  BY <1>4, LiveAfterUndo
<1>6. \A i \in left : i \in 1..cut
  BY <1>1, <1>4 DEF Live, AreTargets
<1>7. cut <= Len(new)
  <2>1. cut \in 1..cut \/ cut = 0
    BY <1>1
  <2> QED BY <1>1, <1>2, <1>3, <2>1
<1>8. \A n : Picked(new, left \cap 1..n) = Picked(events, left \cap 1..n)
  <2> TAKE n
  <2>1. PICK places : places = left \cap 1..n
    OBVIOUS
  <2>2. \A i \in places : i \in 1..cut
    BY <1>6, <2>1
  <2> QED BY <1>1, <1>2, <1>3, <1>7, <2>1, <2>2, PickedShared
<1>9. Picked(new, left) = Picked(events, left)
  BY <1>1, <1>2, <1>3, <1>6, <1>7, PickedShared
<1>10. ASSUME NEW id, NEW n \in 0..Len(new), Fresh(new, id, n), n <= cut
       PROVE  SameTask(Materialize(base, SubSeq(new, 1, n)),
                       Materialize(told, Picked(new, left \cap 1..n)), id)
  <2>1. n \in 0..Len(events)
    BY <1>1, <1>10
  <2>2. SubSeq(new, 1, n) = SubSeq(events, 1, n)
    <3>1. \A i \in 1..n : new[i] = events[i]
      BY <1>1, <1>3, <1>10
    <3> QED BY <1>1, <1>2, <2>1, <3>1, SamePrefix
  <2>3. Fresh(events, id, n)
    <3> SUFFICES ASSUME NEW i \in 1..Len(events), i > n, events[i].id = id,
                        events[i].undoes # NoUndo
                 PROVE  \E j \in 1..Len(events) : j > n /\ events[j].seq = events[i].undoes
      BY DEF Fresh
    <3>1. i \in 1..cut
      BY <1>1 DEF AreTargets, Undoable
    <3>2. PICK j \in 1..Len(new) : j > n /\ new[j].seq = new[i].undoes
      BY <1>3, <1>10, <3>1 DEF Fresh
    <3>3. new[j].seq < new[i].seq
      <4>1. DOMAIN new = 1..Len(new) /\ i \in 1..Len(new)
        BY <1>2, <1>3, <3>1, LogBasics
      <4>2. new[i].undoes # NoUndo
        BY <1>3, <3>1
      <4> QED BY <3>2, <4>1, <4>2 DEF IsHistory, MarksAreSound
    <3>4. j < i
      <4>1. i \in 1..Len(new)
        BY <1>3, <3>1
      <4>2. \A a, b \in 1..Len(new) : a < b => new[a].seq < new[b].seq
        BY <1>2, LogBasics
      <4>3. new[j].seq \in Nat /\ new[i].seq \in Nat
        BY <1>2, <4>1, LogBasics
      <4>4. ~ (i < j) /\ i # j
        BY <3>3, <4>1, <4>2, <4>3
      <4> QED BY <1>2, <4>1, <4>4
    <3>5. j \in 1..cut
      BY <1>1, <1>2, <3>1, <3>4
    <3> QED BY <1>3, <3>1, <3>2, <3>5
  <2>4. ASSUME NEW i \in 1..Len(events), events[i].id = id
        PROVE  i \in left \cap 1..n <=> i \in Live(events) \cap 1..n
    <3> SUFFICES ASSUME i \in 1..n, i \in targets PROVE FALSE
      BY <1>4
    <3>1. i \in 1..cut
      BY <1>1, <1>10
    <3>2. PICK c \in 1..Len(new) : c > cut /\ new[c].undoes = events[i].seq
      BY <3>1 DEF IsCutAndMarked
    <3>3. PICK k \in 1..cut : new[c].undoes = events[k].seq /\ new[c].id = events[k].id
      BY <3>2 DEF IsCutAndMarked
    <3>4. k = i
      BY <1>1, <1>3, <3>1, <3>2, <3>3, SeqsDiffer
    <3>5. new[c].id = id /\ new[c].undoes # NoUndo
      BY <2>4, <3>2, <3>3, <3>4 DEF IsHistory, Counted
    <3>6. c > n
      BY <1>1, <1>2, <1>10, <3>2
    <3>7. PICK j \in 1..Len(new) : j > n /\ new[j].seq = new[c].undoes
      BY <3>5, <3>6, <1>10 DEF Fresh
    <3>8. i \in 1..Len(new) /\ new[j].seq = new[i].seq
      BY <1>3, <3>1, <3>2, <3>7
    <3>9. j = i
      BY <1>2, <3>8, SeqsDiffer
    <3> QED BY <3>7, <3>9
  <2>5. SameTask(Materialize(base, SubSeq(events, 1, n)),
                 Materialize(told, Picked(events, Live(events) \cap 1..n)), id)
    BY <2>1, <2>3 DEF Tells
  <2>6. PICK a, b : a = left \cap 1..n /\ b = Live(events) \cap 1..n
    OBVIOUS
  <2>7. SameTask(told, told, id)
    BY DEF SameTask
  <2>8. SameTask(Materialize(told, Picked(events, b)), Materialize(told, Picked(events, a)), id)
    BY <1>1, <2>4, <2>6, <2>7, PickedSame
  <2>9. Picked(new, a) = Picked(events, a)
    BY <1>8, <2>6
  <2> QED BY <2>2, <2>5, <2>6, <2>8, <2>9, SameTaskBoth
<1>11. ASSUME NEW id, NEW n \in 0..Len(new), Fresh(new, id, n), n > cut
       PROVE  SameTask(Materialize(base, SubSeq(new, 1, n)),
                       Materialize(told, Picked(new, left \cap 1..n)), id)
  <2>1. left \cap 1..n = left
    BY <1>1, <1>6, <1>11
  <2>2. \A i \in 1..Len(new) : i > n => new[i].id # id
    <3> SUFFICES ASSUME NEW i \in 1..Len(new), i > n, new[i].id = id PROVE FALSE
      OBVIOUS
    <3>1. i > cut
      BY <1>1, <1>2, <1>11
    <3>2. PICK k \in 1..cut : new[i].undoes = events[k].seq
      BY <3>1 DEF IsCutAndMarked
    <3>3. new[i].undoes # NoUndo
      BY <1>3, <3>2 DEF IsHistory, Counted
    <3>4. PICK j \in 1..Len(new) : j > n /\ new[j].seq = new[i].undoes
      BY <1>11, <3>3 DEF Fresh
    <3>5. k \in 1..Len(new) /\ new[j].seq = new[k].seq
      BY <1>3, <3>2, <3>4
    <3>6. j = k
      BY <1>2, <3>5, SeqsDiffer
    <3> QED BY <1>1, <1>11, <3>4, <3>6
  <2>3. SameTask(Materialize(base, SubSeq(new, 1, n)), Materialize(base, new), id)
    <3>1. PICK before, after : before = Materialize(base, SubSeq(new, 1, n))
                               /\ after = Materialize(base, new)
      OBVIOUS
    <3>2. /\ id \in DOMAIN before <=> id \in DOMAIN after
          /\ id \in DOMAIN after => before[id] = after[id]
      BY <1>2, <2>2, <3>1, UnnamedStay
    <3> QED BY <3>1, <3>2 DEF SameTask
  <2>4. CASE id \in TaskIds(events, targets)
    <3>1. SameTask(Materialize(base, new), Materialize(told, Picked(events, left)), id)
      BY <1>4, <2>4
    <3> QED BY <1>9, <2>1, <2>3, <3>1, SameTaskBoth
  <2>5. CASE id \notin TaskIds(events, targets)
    <3>1. \A i \in targets : events[i].id # id
      BY <2>5 DEF TaskIds
    <3>2. \A i \in 1..Len(new) : i > cut => new[i].id # id
      BY <3>1, ZenonT(60) DEF IsCutAndMarked
    <3>3. PICK m : m = cut
      OBVIOUS
    <3>4. Fresh(new, id, m)
      BY <3>2, <3>3 DEF Fresh
    <3>5. m \in 0..Len(new) /\ m <= cut
      BY <1>1, <1>2, <1>7, <3>3
    <3>6. SameTask(Materialize(base, SubSeq(new, 1, m)),
                   Materialize(told, Picked(new, left \cap 1..m)), id)
      BY <1>10, <3>4, <3>5
    <3>7. left \cap 1..m = left
      BY <1>6, <3>3
    <3>8. SameTask(Materialize(base, SubSeq(new, 1, m)), Materialize(base, new), id)
      <4>1. PICK before, after : before = Materialize(base, SubSeq(new, 1, m))
                                 /\ after = Materialize(base, new)
        OBVIOUS
      <4>2. /\ id \in DOMAIN before <=> id \in DOMAIN after
            /\ id \in DOMAIN after => before[id] = after[id]
        BY <1>2, <3>2, <3>3, <3>5, <4>1, UnnamedStay
      <4> QED BY <4>1, <4>2 DEF SameTask
    <3>9. SameTask(Materialize(base, new), Materialize(base, SubSeq(new, 1, m)), id)
      BY <3>8, SameTaskBoth
    <3>10. SameTask(Materialize(base, SubSeq(new, 1, n)), Materialize(base, SubSeq(new, 1, m)), id)
      BY <2>3, <3>9, SameTaskBoth
    <3>11. SameTask(Materialize(base, SubSeq(new, 1, m)), Materialize(told, Picked(new, left)), id)
      BY <3>6, <3>7
    <3>12. SameTask(Materialize(base, SubSeq(new, 1, n)), Materialize(told, Picked(new, left)), id)
      BY <3>10, <3>11, SameTaskBoth
    <3> QED BY <2>1, <3>12
  <2> QED BY <2>4, <2>5
<1>12. \A id : \A n \in 0..Len(new) : Fresh(new, id, n) =>
          SameTask(Materialize(base, SubSeq(new, 1, n)),
                   Materialize(told, Picked(new, left \cap 1..n)), id)
  BY <1>1, <1>2, <1>10, <1>11
<1> QED BY <1>4, <1>5, <1>9, <1>12 DEF Tells

\* A write keeps the log telling what the events that stand tell, and what it adds
\* stands.
LEMMA WriteTells ==
    ASSUME NEW base, AllTasks(base), NEW told, AllTasks(told),
           NEW events, IsHistory(events), Tells(base, events, told),
           NEW more, IsSeq(more), \A i \in 1..Len(more) : more[i].undoes = NoUndo,
           NEW all, all = events \o more, IsHistory(all)
    PROVE  /\ Picked(all, Live(all)) = Picked(events, Live(events)) \o more
           /\ Tells(base, all, told)
<1>1. /\ IsLog(events) /\ IsEvents(events) /\ IsSeq(events) /\ DOMAIN events = 1..Len(events)
  BY LogBasics DEF IsHistory
<1>2. IsLog(all) /\ IsEvents(all) /\ IsSeq(all) /\ Len(all) \in Nat /\ DOMAIN all = 1..Len(all)
  BY LogBasics DEF IsHistory
<1>3. PICK n \in Nat : n = Len(events)
  BY <1>1, SeqBasics
<1>4. PICK k \in Nat : k = Len(more)
  BY SeqBasics
<1>5. /\ Len(all) = n + k
      /\ \A i \in 1..n : all[i] = events[i]
      /\ \A i \in 1..k : all[n + i] = more[i]
  <2>1. /\ Len(events \o more) = Len(events) + Len(more)
        /\ \A i \in 1..Len(events) : (events \o more)[i] = events[i]
        /\ \A i \in 1..Len(more) : (events \o more)[Len(events) + i] = more[i]
    BY <1>1, SeqConcat
  <2> QED BY <1>3, <1>4, <2>1
<1>a. IsSeq(events) /\ IsSeq(more) /\ all = Joined(events, more)
  BY <1>1 DEF Joined
<1>b. IsSeq(all) /\ IsSeq(events)
  BY <1>1, <1>2
<1>6. \A i \in 1..Len(all) : i > n => all[i].undoes = NoUndo
  <2> TAKE i \in 1..Len(all)
  <2> HAVE i > n
  <2>1. i - n \in 1..k /\ n + (i - n) = i
    BY <1>5
  <2> QED BY <1>4, <1>5, <2>1
<1>7. Undone(all) = Undone(events)
  <2>1. ASSUME NEW i \in 1..Len(all), all[i].undoes # NoUndo
        PROVE  i \in 1..Len(events) /\ events[i].undoes = all[i].undoes
    BY <1>2, <1>3, <1>5, <1>6, <2>1
  <2>2. \A i \in 1..Len(events) : i \in 1..Len(all) /\ events[i].undoes = all[i].undoes
    BY <1>3, <1>4, <1>5
  <2> QED BY <1>1, <1>2, <2>1, <2>2 DEF Undone
<1>8. ASSUME NEW i \in 1..n
      PROVE  i \in Live(all) <=> i \in Live(events)
  BY <1>3, <1>4, <1>5, <1>7 DEF Live, Undoable
<1>9. ASSUME NEW i \in 1..Len(all), i > n
      PROVE  i \in Live(all)
  <2>1. ASSUME NEW j \in 1..Len(all), all[j].undoes = all[i].seq, all[j].undoes # NoUndo
        PROVE  FALSE
    <3>1. i < j
      BY <2>1, MarksPointBack
    <3>2. j > n
      BY <1>2, <1>9, <3>1
    <3> QED BY <1>6, <2>1, <3>2
  <2>2. all[i].seq \notin Undone(all)
    BY <1>2, <2>1 DEF Undone
  <2> QED BY <1>6, <1>9, <2>2 DEF Live, Undoable
<1>10. \A i \in 1..k : n + i \in 1..Len(all) /\ n + i > n
  BY <1>5
<1>11. Picked(all, Live(all)) = Picked(events, Live(events)) \o more
  <2>1. PICK full : full = 1..k
    OBVIOUS
  <2>2. PICK stand : stand = Live(events)
    OBVIOUS
  <2>3. SplitPlaces(Live(all), events, more, stand, full)
    BY <1>3, <1>4, <1>8, <1>9, <1>10, <2>1, <2>2 DEF SplitPlaces
  <2>4. Picked(all, Live(all)) = Joined(Picked(events, stand), Picked(more, full))
    BY ONLY <1>a, <2>3, PickedConcat
  <2>5. Picked(more, full) = more
    <3>1. Picked(more, 1..Len(more)) = SubSeq(more, 1, Len(more))
      <4>1. Len(more) \in 0..Len(more)
        BY <1>4
      <4> QED BY <4>1, PickedUpTo
    <3> QED BY <1>4, <2>1, <3>1, WholePrefix
  <2> QED BY <2>2, <2>4, <2>5 DEF Joined
<1>12. ASSUME NEW id, NEW m \in 0..Len(all), Fresh(all, id, m), m <= n
       PROVE  SameTask(Materialize(base, SubSeq(all, 1, m)),
                       Materialize(told, Picked(all, Live(all) \cap 1..m)), id)
  <2>1. m \in 0..Len(events)
    BY <1>3, <1>12
  <2>2. SubSeq(all, 1, m) = SubSeq(events, 1, m)
    <3>1. /\ m \in Nat /\ m <= Len(all) /\ m <= Len(events)
          /\ \A i \in 1..m : all[i] = events[i]
      BY <1>2, <1>3, <1>5, <1>12
    <3> QED BY <1>1, <1>2, <3>1, SamePrefix
  <2>3. Fresh(events, id, m)
    <3> SUFFICES ASSUME NEW i \in 1..Len(events), i > m, events[i].id = id,
                        events[i].undoes # NoUndo
                 PROVE  \E j \in 1..Len(events) : j > m /\ events[j].seq = events[i].undoes
      BY DEF Fresh
    <3>1. i \in 1..n /\ i \in 1..Len(all) /\ all[i] = events[i]
      BY <1>3, <1>4, <1>5
    <3>2. PICK j \in 1..Len(all) : j > m /\ all[j].seq = all[i].undoes
      BY <1>12, <3>1 DEF Fresh
    <3>3. j < i
      BY <3>1, <3>2, MarksPointBack
    <3>4. j \in 1..n
      BY <1>2, <3>1, <3>3
    <3> QED BY <1>3, <1>5, <3>1, <3>2, <3>4
  <2>4. PICK a, b : a = Live(all) \cap 1..m /\ b = Live(events) \cap 1..m
    OBVIOUS
  <2>5. \A i \in a : i \in 1..m
    BY <2>4
  <2>6. a = b
    <3>1. \A i \in 1..m : i \in 1..n
      BY <1>12
    <3> QED BY <1>8, <2>4, <3>1
  <2>7. Picked(all, a) = Picked(events, a)
    <3>1. /\ m \in Nat /\ m <= Len(all) /\ m <= Len(events)
          /\ \A i \in 1..m : all[i] = events[i]
      BY <1>2, <1>3, <1>5, <1>12
    <3> QED BY ONLY <1>b, <2>5, <3>1, PickedShared
  <2>8. SameTask(Materialize(base, SubSeq(events, 1, m)),
                 Materialize(told, Picked(events, b)), id)
    BY <2>1, <2>3, <2>4 DEF Tells
  <2> QED BY <2>2, <2>4, <2>6, <2>7, <2>8
<1>13. ASSUME NEW id, NEW m \in 0..Len(all), m > n
       PROVE  SameTask(Materialize(base, SubSeq(all, 1, m)),
                       Materialize(told, Picked(all, Live(all) \cap 1..m)), id)
  <2>1. PICK d \in 0..k : m = n + d
    <3>1. m - n \in 0..k /\ m = n + (m - n)
      BY <1>5, <1>13
    <3> QED BY <3>1
  <2>2. PICK here, part, stand, whole, rest :
          /\ here = Live(all) \cap 1..m /\ part = 1..d /\ stand = Live(events)
          /\ whole = 1..m /\ rest = 1..n
    OBVIOUS
  <2>3. SplitPlaces(here, events, more, stand, part)
    <3>1. \A i \in 1..n : i \in 1..m
      BY <1>13
    <3>2. \A i \in 1..k : n + i \in 1..m <=> i \in 1..d
      BY <2>1
    <3> QED BY <1>3, <1>4, <1>8, <1>9, <1>10, <2>2, <3>1, <3>2 DEF SplitPlaces
  <2>4. Picked(all, here) = Joined(Picked(events, stand), Picked(more, part))
    BY ONLY <1>a, <2>3, PickedConcat
  <2>5. SplitPlaces(whole, events, more, rest, part)
    <3>1. \A i \in 1..n : i \in 1..m
      BY <1>13
    <3>2. \A i \in 1..k : n + i \in 1..m <=> i \in 1..d
      BY <2>1
    <3> QED BY <1>3, <1>4, <2>2, <3>1, <3>2 DEF SplitPlaces
  <2>6. Picked(all, whole) = Joined(Picked(events, rest), Picked(more, part))
    BY ONLY <1>a, <2>5, PickedConcat
  <2>7. Picked(all, whole) = SubSeq(all, 1, m)
    BY <1>2, <2>2, PickedUpTo
  <2>8. Picked(events, rest) = events
    <3>1. Picked(events, 1..Len(events)) = SubSeq(events, 1, Len(events))
      <4>1. Len(events) \in 0..Len(events)
        BY <1>3
      <4> QED BY <1>1, <4>1, PickedUpTo
    <3> QED BY <1>1, <1>3, <2>2, <3>1, WholePrefix
  <2>9. SameTask(Materialize(base, events), Materialize(told, Picked(events, stand)), id)
    <3>1. PICK l : l = n
      OBVIOUS
    <3>2. Fresh(events, id, l)
      BY <1>3, <3>1 DEF Fresh
    <3>3. l \in 0..Len(events)
      BY <1>3, <3>1
    <3>4. SameTask(Materialize(base, SubSeq(events, 1, l)),
                   Materialize(told, Picked(events, Live(events) \cap 1..l)), id)
      BY <3>2, <3>3 DEF Tells
    <3>5. Live(events) \cap 1..l = stand
      BY <1>3, <2>2, <3>1 DEF Live
    <3>6. SubSeq(events, 1, l) = events
      BY <1>1, <1>3, <3>1, WholePrefix
    <3> QED BY <3>4, <3>5, <3>6
  <2>10. PICK u, v : u = Picked(events, stand) /\ v = Picked(more, part)
    OBVIOUS
  <2>11. IsEvents(u)
    BY <1>1, <2>10, PickedAreEvents
  <2>12. IsEvents(v)
    <3>1. IsEvents(more)
      <4>1. \A i \in 1..k : more[i].op \in EventOps
        BY <1>2, <1>5, <1>10 DEF IsEvents
      <4> QED BY <1>4, <4>1 DEF IsEvents
    <3> QED BY <2>10, <3>1, PickedAreEvents
  <2>13. PICK s, t : s = Materialize(base, events) /\ t = Materialize(told, u)
    OBVIOUS
  <2>14. AllTasks(s) /\ AllTasks(t)
    BY <1>1, <2>11, <2>13, MaterializeKeepsTasks
  <2>15. SameTask(Materialize(s, v), Materialize(t, v), id)
    <3>1. \A i \in 1..Len(v) : SameDraft(v[i], v[i])
      BY DEF SameDraft
    <3>2. SameTask(s, t, id)
      BY <2>9, <2>10, <2>13
    <3>3. IsSeq(v)
      BY <2>12 DEF IsEvents
    <3> QED BY <2>12, <2>14, <3>1, <3>2, <3>3, LooksAlike
  <2>16. Materialize(base, SubSeq(all, 1, m)) = Materialize(s, v)
    <3>1. SubSeq(all, 1, m) = Joined(events, v)
      BY <2>6, <2>7, <2>8, <2>10
    <3>2. IsSeq(v)
      BY <2>12 DEF IsEvents
    <3>3. PICK x : x = SubSeq(all, 1, m)
      OBVIOUS
    <3>4. IsSeq(events) /\ x = Joined(events, v)
      BY <1>a, <3>1, <3>3
    <3>5. Materialize(base, x) = Materialize(Materialize(base, events), v)
      BY ONLY <3>2, <3>4, MaterializeJoined
    <3> QED BY <2>13, <3>3, <3>5
  <2>17. Materialize(told, Picked(all, here)) = Materialize(t, v)
    <3>1. IsSeq(u) /\ IsSeq(v) /\ Picked(all, here) = Joined(u, v)
      BY <2>4, <2>10, <2>11, <2>12 DEF IsEvents
    <3> QED BY <2>13, <3>1, MaterializeJoined
  <2> QED BY <2>2, <2>15, <2>16, <2>17
<1>14. \A id : \A m \in 0..Len(all) : Fresh(all, id, m) =>
          SameTask(Materialize(base, SubSeq(all, 1, m)),
                   Materialize(told, Picked(all, Live(all) \cap 1..m)), id)
  BY <1>2, <1>12, <1>13
<1> QED BY <1>11, <1>14 DEF Tells

\* The first m events folded: what stands of them comes first.
TellsFolded(base, told, events, m, rest, folded) ==
    /\ Picked(events, Live(events)) = Joined(folded, Picked(rest, Live(rest)))
    /\ Tells(Materialize(base, SubSeq(events, 1, m)), rest, Materialize(told, folded))

\* Compaction keeps the log telling what the events that stand tell, now after those
\* that stood in the part folded.
LEMMA FoldTells ==
    ASSUME NEW base, NEW told, NEW events, IsHistory(events), Tells(base, events, told),
           NEW m \in 0..Len(events),
           NEW rest, rest = SubSeq(events, m + 1, Len(events)), IsHistory(rest),
           NEW folded, folded = Picked(events, Live(events) \cap 1..m)
    PROVE  TellsFolded(base, told, events, m, rest, folded)
<1>1. /\ IsLog(events) /\ IsEvents(events) /\ IsSeq(events) /\ DOMAIN events = 1..Len(events)
      /\ Len(events) \in Nat
  BY LogBasics DEF IsHistory
<1>2. IsLog(rest) /\ IsSeq(rest) /\ DOMAIN rest = 1..Len(rest)
  BY LogBasics DEF IsHistory
<1>3. PICK pre : pre = SubSeq(events, 1, m)
  OBVIOUS
<1>4. IsSeq(pre) /\ Len(pre) = m /\ \A i \in 1..m : pre[i] = events[i]
  BY <1>1, <1>3, SeqPrefix
<1>5. PICK k \in Nat : k = Len(rest)
  BY <1>2, SeqBasics
<1>6. Len(events) = m + k /\ \A i \in 1..k : rest[i] = events[m + i]
  <2>1. /\ Len(rest) = Len(events) - m
        /\ \A i \in 1..(Len(events) - m) : rest[i] = events[m + i]
    BY <1>1, SeqSuffix
  <2>2. k = Len(events) - m
    BY <1>5, <2>1
  <2>3. \A i \in 1..k : rest[i] = events[m + i]
    BY ONLY <2>1, <2>2
  <2>4. Len(events) = m + k
    BY ONLY <1>1, <2>2, m \in 0..Len(events)
  <2> QED BY <2>3, <2>4
<1>7. events = Joined(pre, rest)
  BY <1>1, <1>3, PrefixAndRest DEF Joined
<1>8. \A i \in 1..k : m + i \in 1..Len(events)
  BY <1>6
<1>9. \A i \in 1..Len(events) : i > m => i - m \in 1..k /\ m + (i - m) = i
  BY <1>6
<1>10. ASSUME NEW i \in 1..k
       PROVE  m + i \in Live(events) <=> i \in Live(rest)
  <2>1. rest[i] = events[m + i] /\ m + i \in 1..Len(events)
    BY <1>6, <1>8
  <2>2. ASSUME NEW j \in 1..Len(events), events[j].undoes = events[m + i].seq,
               events[j].undoes # NoUndo
        PROVE  rest[i].seq \in Undone(rest)
    <3>1. m + i < j
      BY <2>1, <2>2, MarksPointBack
    <3>2. j - m \in 1..k /\ m + (j - m) = j
      BY <1>9, <3>1
    <3>3. rest[j - m] = events[j]
      BY <1>6, <3>2
    <3> QED BY <1>2, <1>5, <2>1, <2>2, <3>2, <3>3 DEF Undone
  <2>3. ASSUME NEW j \in 1..k, rest[j].undoes = rest[i].seq, rest[j].undoes # NoUndo
        PROVE  events[m + i].seq \in Undone(events)
    BY <1>1, <1>6, <1>8, <2>1, <2>3 DEF Undone
  <2>4. events[m + i].seq \in Undone(events) <=> rest[i].seq \in Undone(rest)
    BY <1>1, <1>2, <1>5, <2>2, <2>3 DEF Undone
  <2> QED BY <1>5, <2>1, <2>4 DEF Live, Undoable
<1>11. PICK early : early = Live(events) \cap 1..m
  OBVIOUS
<1>12. \A i \in early : i \in 1..m
  BY <1>11
<1>13. Picked(pre, early) = folded
  <2>1. /\ m \in Nat /\ m <= Len(pre) /\ m <= Len(events)
        /\ \A i \in 1..m : pre[i] = events[i]
    BY <1>1, <1>4
  <2>2. IsSeq(pre) /\ IsSeq(events)
    BY <1>1, <1>4
  <2>3. Picked(pre, early) = Picked(events, early)
    BY ONLY <1>12, <2>1, <2>2, PickedShared
  <2> QED BY <1>11, <2>3
<1>14. Picked(events, Live(events)) = Joined(folded, Picked(rest, Live(rest)))
  <2>1. PICK late, live : late = Live(rest) /\ live = Live(events)
    OBVIOUS
  <2>2. SplitPlaces(live, pre, rest, early, late)
    BY <1>4, <1>5, <1>10, <1>11, <2>1 DEF SplitPlaces
  <2>3. IsSeq(pre) /\ IsSeq(rest)
    BY <1>2, <1>4
  <2>4. Picked(events, live) = Joined(Picked(pre, early), Picked(rest, late))
    BY ONLY <1>7, <2>2, <2>3, PickedConcat
  <2> QED BY <1>13, <2>1, <2>4
<1>15. ASSUME NEW id, NEW n \in 0..k, Fresh(rest, id, n)
       PROVE  SameTask(Materialize(Materialize(base, pre), SubSeq(rest, 1, n)),
                       Materialize(Materialize(told, folded),
                                   Picked(rest, Live(rest) \cap 1..n)), id)
  <2>1. PICK c : c = m + n
    OBVIOUS
  <2>2. c \in 0..Len(events) /\ c >= m
    BY <1>1, <1>6, <2>1
  <2>3. Fresh(events, id, c)
    <3> SUFFICES ASSUME NEW i \in 1..Len(events), i > c, events[i].id = id,
                        events[i].undoes # NoUndo
                 PROVE  \E j \in 1..Len(events) : j > c /\ events[j].seq = events[i].undoes
      BY DEF Fresh
    <3>1. PICK a \in 1..k : i = m + a
      <4>1. i > m
        BY <1>1, <2>2
      <4>2. i - m \in 1..k /\ i = m + (i - m)
        BY <1>9, <4>1
      <4> QED BY <4>2
    <3>2. a > n
      BY <2>1, <3>1
    <3>3. rest[a] = events[i]
      BY <1>6, <3>1
    <3>4. PICK b \in 1..k : b > n /\ rest[b].seq = rest[a].undoes
      BY <1>5, <1>15, <3>2, <3>3, ZenonT(60) DEF Fresh
    <3>5. m + b \in 1..Len(events) /\ m + b > c /\ events[m + b] = rest[b]
      BY <1>6, <1>8, <2>1, <3>4
    <3> QED BY <3>3, <3>4, <3>5
  <2>4. SameTask(Materialize(base, SubSeq(events, 1, c)),
                 Materialize(told, Picked(events, Live(events) \cap 1..c)), id)
    BY <2>2, <2>3 DEF Tells
  <2>5. PICK here, part, whole, full, up :
          /\ here = Live(events) \cap 1..c /\ part = Live(rest) \cap 1..n
          /\ whole = 1..c /\ full = 1..m /\ up = 1..n
    OBVIOUS
  <2>6. /\ \A i \in 1..m : i \in 1..c
        /\ \A i \in 1..k : m + i \in 1..c <=> i \in 1..n
    BY <1>1, <2>1, <2>2
  <2>7. SplitPlaces(here, pre, rest, early, part)
    BY <1>4, <1>5, <1>10, <1>11, <2>5, <2>6 DEF SplitPlaces
  <2>8. SplitPlaces(whole, pre, rest, full, up)
    BY <1>4, <1>5, <2>5, <2>6 DEF SplitPlaces
  <2>9. IsSeq(pre) /\ IsSeq(rest)
    BY <1>2, <1>4
  <2>10. Picked(events, here) = Joined(Picked(pre, early), Picked(rest, part))
    BY ONLY <1>7, <2>7, <2>9, PickedConcat
  <2>11. Picked(events, whole) = Joined(Picked(pre, full), Picked(rest, up))
    BY ONLY <1>7, <2>8, <2>9, PickedConcat
  <2>12. Picked(events, whole) = SubSeq(events, 1, c)
    BY <1>1, <2>2, <2>5, PickedUpTo
  <2>13. Picked(rest, up) = SubSeq(rest, 1, n)
    BY <1>2, <1>5, <2>5, PickedUpTo
  <2>14. Picked(pre, full) = pre
    <3>1. m \in 0..Len(pre)
      BY <1>1, <1>4
    <3>2. Picked(pre, full) = SubSeq(pre, 1, m)
      BY <1>4, <2>5, <3>1, PickedUpTo
    <3> QED BY <1>4, <3>2, WholePrefix
  <2>15. PICK x, y, p : x = SubSeq(events, 1, c) /\ y = Picked(events, here)
                        /\ p = Picked(rest, part)
    OBVIOUS
  <2>16. PICK q : q = SubSeq(rest, 1, n)
    OBVIOUS
  <2>17. /\ IsSeq(pre) /\ IsSeq(q) /\ x = Joined(pre, q)
         /\ IsSeq(folded) /\ IsSeq(p) /\ y = Joined(folded, p)
    <3>1. IsSeq(Picked(rest, part)) /\ IsSeq(Picked(rest, up)) /\ IsSeq(Picked(pre, early))
      BY <2>9, PickedEvents
    <3> QED BY <1>13, <2>9, <2>10, <2>11, <2>12, <2>13, <2>14, <2>15, <2>16, <3>1
  <2>18. Materialize(base, x) = Materialize(Materialize(base, pre), q)
    BY <2>17, MaterializeJoined
  <2>19. Materialize(told, y) = Materialize(Materialize(told, folded), p)
    BY <2>17, MaterializeJoined
  <2> QED BY <2>4, <2>5, <2>15, <2>16, <2>18, <2>19
<1>16. \A id : \A n \in 0..Len(rest) : Fresh(rest, id, n) =>
          SameTask(Materialize(Materialize(base, pre), SubSeq(rest, 1, n)),
                   Materialize(Materialize(told, folded),
                               Picked(rest, Live(rest) \cap 1..n)), id)
  BY <1>5, <1>15
<1> QED BY <1>3, <1>14, <1>16 DEF Tells, TellsFolded

\* What was ever logged loses the targets, not an older event of the same seq.
LEMMA UndoneGone ==
    ASSUME NEW told, IsSeq(told), NEW events, IsLog(events), NEW targets,
           \A i \in targets : i \in Live(events),
           NEW seqs, seqs = {events[i].seq : i \in targets},
           NEW all, all = Joined(told, Picked(events, Live(events)))
    PROVE  WithoutUndone(all, seqs) = Joined(told, Picked(events, Live(events) \ targets))
<1>1. IsSeq(events) /\ Len(events) \in Nat
  BY LogBasics
<1>2. PICK live : live = Live(events)
  OBVIOUS
<1>3. \A i \in live : i \in 1..Len(events)
  BY <1>2 DEF Live
<1>4. PICK p : p = Picked(events, live)
  OBVIOUS
<1>5. IsLog(p) /\ \A i \in 1..Len(p) : \E j \in 1..Len(events) : j \in live /\ p[i] = events[j]
  BY <1>4, PickedLog
<1>6. \A j \in 1..Len(events) : j \in live => \E i \in 1..Len(p) : p[i] = events[j]
  BY <1>1, <1>4, PickedHolds
<1>7. PICK n \in Nat, k \in Nat : n = Len(told) /\ k = Len(p)
  BY <1>5, SeqBasics, LogBasics
<1>8. IsSeq(p)
  BY <1>5, LogBasics
<1>9. all = Joined(told, p)
  BY <1>2, <1>4
<1>10. /\ Len(all) = n + k /\ DOMAIN all = 1..(n + k)
       /\ \A i \in 1..k : all[n + i] = p[i]
  <2>1. /\ IsSeq(told \o p) /\ Len(told \o p) = Len(told) + Len(p)
        /\ \A i \in 1..Len(p) : (told \o p)[Len(told) + i] = p[i]
    BY <1>8, SeqConcat
  <2>2. all = told \o p
    BY <1>9 DEF Joined
  <2>3. IsSeq(all)
    BY <2>1, <2>2
  <2>4. DOMAIN all = 1..Len(all)
    BY ONLY <2>3, SeqBasics
  <2> QED BY <1>7, <2>1, <2>2, <2>4
<1> DEFINE H == {events[i] : i \in targets}
           G == {events[i] : i \in 1..Len(events)} \ H
           Places(s) == {i \in DOMAIN all : all[i].seq = s}
           gone == {Max(Places(s)) : s \in seqs}
<1>11. ASSUME NEW j \in 1..k
       PROVE  p[j].seq \in seqs <=> p[j] \in H
  <2>1. PICK i \in 1..Len(events) : p[j] = events[i]
    BY <1>5, <1>7
  <2>2. ASSUME NEW t \in targets, events[t].seq = events[i].seq
        PROVE  t = i
    <3>1. t \in 1..Len(events)
      BY <1>2, <1>3
    <3> QED BY <2>2, <3>1, SeqsDiffer
  <2> QED BY <2>1, <2>2
<1>12. ASSUME NEW j \in 1..k, p[j] \in H
       PROVE  Max(Places(p[j].seq)) = n + j
  <2>1. n + j \in Places(p[j].seq)
    BY <1>10
  <2>2. ASSUME NEW i \in Places(p[j].seq)
        PROVE  i \in Int /\ n + j >= i
    <3>1. i \in 1..(n + k) /\ all[i].seq = p[j].seq
      BY <1>10
    <3>2. CASE i > n
      <4>1. i - n \in 1..k /\ n + (i - n) = i
        BY <3>1, <3>2
      <4>2. all[i] = p[i - n]
        BY <1>10, <4>1
      <4>3. i - n = j
        <5>1. PICK a : a = i - n
          OBVIOUS
        <5>2. a \in 1..Len(p) /\ j \in 1..Len(p) /\ p[a].seq = p[j].seq
          BY <1>7, <3>1, <4>1, <4>2, <5>1
        <5>3. a = j
          BY ONLY <1>5, <5>2, SeqsDiffer
        <5> QED BY <5>1, <5>3
      <4> QED BY <3>1, <4>3
    <3>3. CASE ~ (i > n)
      BY <3>1, <3>3
    <3> QED BY <3>2, <3>3
  <2>3. PICK S : S = Places(p[j].seq)
    OBVIOUS
  <2>4. n + j \in S /\ \A i \in S : i \in Int /\ n + j >= i
    BY <2>1, <2>2, <2>3
  <2>5. Max(S) = n + j
    BY <2>4, MaxOf
  <2> QED BY <2>3, <2>5
<1>13. ASSUME NEW s \in seqs
       PROVE  \E j \in 1..k : p[j] \in H /\ p[j].seq = s
  <2>1. PICK t \in targets : s = events[t].seq
    OBVIOUS
  <2>2. t \in 1..Len(events) /\ t \in live
    BY <1>2, <1>3
  <2>3. PICK j \in 1..k : p[j] = events[t]
    BY <1>6, <1>7, <2>2
  <2> QED BY <2>1, <2>3
<1> HIDE DEF Places
<1>14. \A i : i \in gone <=> \E j \in 1..k : p[j] \in H /\ i = n + j
  <2>1. ASSUME NEW i \in gone PROVE \E j \in 1..k : p[j] \in H /\ i = n + j
    <3>1. PICK s \in seqs : i = Max(Places(s))
      OBVIOUS
    <3>2. PICK j \in 1..k : p[j] \in H /\ p[j].seq = s
      BY <1>13
    <3> QED BY <1>12, <3>1, <3>2
  <2>2. ASSUME NEW j \in 1..k, p[j] \in H PROVE n + j \in gone
    <3>1. p[j].seq \in seqs
      BY <1>11, <2>2
    <3>2. Max(Places(p[j].seq)) = n + j
      BY <1>12, <2>2
    <3> QED BY <3>1, <3>2
  <2> QED BY <2>1, <2>2
<1> HIDE DEF gone, H
<1>15. PICK places, a, b :
          /\ places = DOMAIN all \ gone /\ a = 1..n
          /\ b = {j \in 1..k : p[j] \in G}
  OBVIOUS
<1>16. ASSUME NEW j \in 1..k PROVE p[j] \in G <=> p[j] \notin H
  <2>1. PICK i \in 1..Len(events) : p[j] = events[i]
    BY <1>5, <1>7
  <2> QED BY <2>1
<1>17. SplitPlaces(places, told, p, a, b)
  <2>1. \A i \in 1..n : i \in places
    BY <1>10, <1>14, <1>15
  <2>2. \A j \in 1..k : n + j \in places <=> p[j] \notin H
    BY <1>10, <1>14, <1>15
  <2>3. \A j \in 1..k : n + j \in places <=> j \in b
    BY <1>15, <1>16, <2>2
  <2>4. /\ \A i \in 1..n : i \in places <=> i \in a
        /\ \A j \in 1..k : n + j \in places <=> j \in b
    BY <1>15, <2>1, <2>3
  <2> QED BY <1>7, <2>4 DEF SplitPlaces
<1>18. Picked(all, places) = Joined(Picked(told, a), Picked(p, b))
  BY <1>8, <1>9, <1>17, PickedConcat
<1>19. Picked(told, a) = told
  <2>1. Picked(told, 1..Len(told)) = SubSeq(told, 1, Len(told))
    <3>1. Len(told) \in 0..Len(told)
      BY <1>7
    <3> QED BY <3>1, PickedUpTo
  <2> QED BY <1>7, <1>15, <2>1, WholePrefix
<1>20. PICK c : c = Live(events) \ targets
  OBVIOUS
<1>21. \A i \in 1..Len(events) : i \in c <=> i \in live /\ events[i] \in G
  <2> TAKE i \in 1..Len(events)
  <2>1. events[i] \in H <=> i \in targets
    <3>1. ASSUME NEW t \in targets, events[t] = events[i] PROVE t = i
      <4>1. t \in 1..Len(events)
        BY <1>2, <1>3
      <4> QED BY <3>1, <4>1, SeqsDiffer
    <3> QED BY <3>1 DEF H
  <2> QED BY <1>2, <1>20, <2>1
<1>22. PICK W, S : S = G /\ S \in W
  OBVIOUS
<1>23. /\ \A i \in 1..Len(p) : i \in b <=> p[i] \in S
       /\ \A i \in 1..Len(events) : i \in c <=> i \in live /\ events[i] \in S
  BY <1>7, <1>15, <1>21, <1>22
<1>24. Picked(p, b) = Picked(events, c)
  BY ONLY <1>1, <1>4, <1>22, <1>23, PickedTwice
<1>25. WithoutUndone(all, seqs) = Picked(all, places)
  BY <1>15 DEF WithoutUndone, gone, Places
<1> QED BY <1>18, <1>19, <1>20, <1>24, <1>25

----------------------------------------------------------------------------
(* What was ever logged, without what was undone.                          *)

\* told is the events that stood when they were folded, and after them the events of the
\* log that stand; over the baseline the log tells what they tell together.
KeptAs(base, events, told) ==
    \E F : /\ IsEvents(F) /\ told = Joined(F, Picked(events, Live(events)))
           /\ Tells(base, events, Materialize(<< >>, F))

\* Before anything was undone or folded, what is kept is the log.
LEMMA KeptAtFirst ==
    ASSUME NEW events, IsHistory(events), \A i \in 1..Len(events) : events[i].undoes = NoUndo
    PROVE  KeptAs(<< >>, events, events)
<1>1. IsSeq(events) /\ Len(events) \in Nat /\ DOMAIN events = 1..Len(events)
  BY LogBasics DEF IsHistory
<1>2. Live(events) = 1..Len(events)
  BY <1>1 DEF Live, Undoable, Undone
<1>3. PICK live : live = Live(events)
  OBVIOUS
<1>4. PICK F : F = << >>
  OBVIOUS
<1>5. IsEvents(F) /\ Materialize(<< >>, F) = << >>
  BY <1>4, SeqEmpty, MaterializeEmpty DEF IsEvents
<1>6. Picked(events, live) = events
  <2>1. Picked(events, 1..Len(events)) = SubSeq(events, 1, Len(events))
    BY <1>1, PickedUpTo
  <2> QED BY <1>1, <1>2, <1>3, <2>1, WholePrefix
<1>7. Joined(F, Picked(events, live)) = events
  BY <1>1, <1>4, <1>6, NothingJoined
<1>8. ASSUME NEW id, NEW n \in 0..Len(events)
      PROVE  SameTask(Materialize(<< >>, SubSeq(events, 1, n)),
                      Materialize(<< >>, Picked(events, live \cap 1..n)), id)
  <2>1. live \cap 1..n = 1..n
    BY <1>1, <1>2, <1>3
  <2>2. Picked(events, 1..n) = SubSeq(events, 1, n)
    BY <1>1, PickedUpTo
  <2> QED BY <2>1, <2>2 DEF SameTask
<1>9. Tells(<< >>, events, << >>)
  BY <1>3, <1>8 DEF Tells
<1> QED BY <1>3, <1>5, <1>7, <1>9 DEF KeptAs

\* A write goes on with both.
LEMMA KeptWritten ==
    ASSUME NEW base, IsStored(base), NEW events, IsHistory(events), NEW told,
           KeptAs(base, events, told),
           NEW more, IsSeq(more), \A i \in 1..Len(more) : more[i].undoes = NoUndo,
           NEW all, all = Joined(events, more), IsHistory(all)
    PROVE  KeptAs(base, all, Joined(told, more))
<1>1. PICK F : /\ IsEvents(F) /\ told = Joined(F, Picked(events, Live(events)))
               /\ Tells(base, events, Materialize(<< >>, F))
  BY DEF KeptAs
<1>2. PICK start : start = Materialize(<< >>, F)
  OBVIOUS
<1>3. AllTasks(start) /\ AllTasks(base)
  BY <1>1, <1>2, FromNothing DEF IsStored
<1>4. /\ Picked(all, Live(all)) = Joined(Picked(events, Live(events)), more)
      /\ Tells(base, all, start)
  <2>1. all = events \o more
    BY DEF Joined
  <2>2. Tells(base, events, start)
    BY <1>1, <1>2
  <2> QED BY <1>3, <2>1, <2>2, WriteTells DEF Joined
<1>5. PICK p : p = Picked(events, Live(events))
  OBVIOUS
<1>6. IsSeq(F) /\ IsSeq(p)
  <2>1. IsSeq(events)
    BY LogBasics DEF IsHistory
  <2> QED BY <1>1, <1>5, <2>1, PickedEvents DEF IsEvents
<1>7. Joined(Joined(F, p), more) = Joined(F, Joined(p, more))
  BY <1>6, JoinedAgain
<1>8. Joined(told, more) = Joined(F, Picked(all, Live(all)))
  BY <1>1, <1>4, <1>5, <1>7
<1> QED BY <1>1, <1>2, <1>4, <1>8 DEF KeptAs

\* Compaction leaves what is kept alone.
LEMMA KeptFolded ==
    ASSUME NEW base, NEW events, IsHistory(events), NEW told, KeptAs(base, events, told),
           NEW m \in 0..Len(events),
           NEW rest, rest = SubSeq(events, m + 1, Len(events)), IsHistory(rest)
    PROVE  KeptAs(Materialize(base, SubSeq(events, 1, m)), rest, told)
<1>1. PICK F : /\ IsEvents(F) /\ told = Joined(F, Picked(events, Live(events)))
               /\ Tells(base, events, Materialize(<< >>, F))
  BY DEF KeptAs
<1>2. PICK start : start = Materialize(<< >>, F)
  OBVIOUS
<1>3. PICK folded : folded = Picked(events, Live(events) \cap 1..m)
  OBVIOUS
<1>4. IsEvents(events) /\ IsSeq(events)
  BY LogBasics DEF IsHistory
<1>5. IsEvents(folded)
  BY <1>3, <1>4, PickedAreEvents
<1>6. IsSeq(F) /\ IsSeq(folded)
  BY <1>1, <1>5 DEF IsEvents
<1>7. /\ Picked(events, Live(events)) = Joined(folded, Picked(rest, Live(rest)))
      /\ Tells(Materialize(base, SubSeq(events, 1, m)), rest, Materialize(start, folded))
  <2>1. Tells(base, events, start)
    BY <1>1, <1>2
  <2>2. TellsFolded(base, start, events, m, rest, folded)
    BY <1>3, <2>1, FoldTells
  <2> QED BY <2>2 DEF TellsFolded
<1>8. PICK all : all = Joined(F, folded)
  OBVIOUS
<1>9. IsEvents(all)
  BY <1>1, <1>5, <1>6, <1>8, JoinedIsSeq
<1>10. Materialize(<< >>, all) = Materialize(start, folded)
  BY <1>2, <1>6, <1>8, MaterializeJoined
<1>11. PICK p : p = Picked(rest, Live(rest))
  OBVIOUS
<1>12. IsSeq(p)
  <2>1. IsSeq(rest)
    BY LogBasics DEF IsHistory
  <2> QED BY <1>11, <2>1, PickedEvents
<1>13. Joined(Joined(F, folded), p) = Joined(F, Joined(folded, p))
  BY <1>6, <1>12, JoinedAgain
<1>14. told = Joined(all, p)
  BY <1>1, <1>7, <1>8, <1>11, <1>13
<1> QED BY <1>7, <1>9, <1>10, <1>11, <1>14 DEF KeptAs

\* An undo takes its targets from what is kept, and nothing else.
LEMMA KeptUndone ==
    ASSUME NEW base, IsStored(base), IsSettled(base), NEW events, IsHistory(events), NEW told,
           KeptAs(base, events, told),
           NEW targets, NEW cut, AreTargets(events, targets, cut),
           NEW p, IsPlanFor(p, base, events, targets, cut),
           NEW new, new = p.log, IsHistory(new),
           \A id \in TaskIds(events, targets) : Fresh(events, id, 0)
    PROVE  KeptAs(base, new, WithoutUndone(told, p.undone))
<1>1. PICK F : /\ IsEvents(F) /\ told = Joined(F, Picked(events, Live(events)))
               /\ Tells(base, events, Materialize(<< >>, F))
  BY DEF KeptAs
<1>2. PICK start : start = Materialize(<< >>, F)
  OBVIOUS
<1>3. AllTasks(start) /\ AllTasks(base)
  BY <1>1, <1>2, FromNothing DEF IsStored
<1>4. Tells(base, events, start)
  BY <1>1, <1>2
<1>5. \A id \in TaskIds(events, targets) :
         SameTask(Materialize(base, new),
                  Materialize(start, Picked(events, Live(events) \ targets)), id)
  BY <1>3, <1>4, TaskWithout
<1>6. IsCutAndMarked(new, events, targets, cut)
  <2>1. IsEvents(events) /\ IsSeq(events) /\ cut \in 0..Len(events)
    BY LogBasics DEF IsHistory, AreTargets
  <2>2. PICK more : /\ p.log = SubSeq(events, 1, cut) \o more
                    /\ Appends(more, base, events, targets, cut)
    BY <2>1, PlanWrites
  <2> QED BY <2>1, <2>2, PlanCutsAndMarks
<1>7. /\ Picked(new, Live(new)) = Picked(events, Live(events) \ targets)
      /\ Tells(base, new, start)
  BY <1>3, <1>4, <1>5, <1>6, UndoTells
<1>8. WithoutUndone(told, p.undone) = Joined(F, Picked(events, Live(events) \ targets))
  <2>1. IsSeq(F) /\ IsLog(events)
    BY <1>1 DEF IsEvents, IsHistory
  <2>2. \A i \in targets : i \in Live(events)
    BY DEF AreTargets, Live
  <2>3. p.undone = {events[i].seq : i \in targets}
    BY DEF IsPlanFor
  <2> QED BY <1>1, <2>1, <2>2, <2>3, UndoneGone
<1> QED BY <1>1, <1>2, <1>7, <1>8 DEF KeptAs

\* What is kept tells every task as the store shows it.
LEMMA KeptTellsAll ==
    ASSUME NEW base, NEW events, IsHistory(events), NEW told, KeptAs(base, events, told), NEW id
    PROVE  SameTask(Materialize(base, events), Materialize(<< >>, told), id)
<1>1. PICK F : /\ IsEvents(F) /\ told = Joined(F, Picked(events, Live(events)))
               /\ Tells(base, events, Materialize(<< >>, F))
  BY DEF KeptAs
<1>2. PICK n \in Nat : n = Len(events) /\ IsSeq(events)
  BY LogBasics DEF IsHistory
<1>3. Fresh(events, id, n)
  BY <1>2 DEF Fresh
<1>4. SameTask(Materialize(base, SubSeq(events, 1, n)),
               Materialize(Materialize(<< >>, F), Picked(events, Live(events) \cap 1..n)), id)
  BY <1>1, <1>2, <1>3 DEF Tells
<1>5. SubSeq(events, 1, n) = events
  BY <1>2, WholePrefix
<1>6. Live(events) \cap 1..n = Live(events)
  BY <1>2 DEF Live
<1>7. Materialize(<< >>, told) = Materialize(Materialize(<< >>, F), Picked(events, Live(events)))
  <2>1. PICK p : p = Picked(events, Live(events))
    OBVIOUS
  <2>2. IsSeq(F) /\ IsSeq(p)
    BY <1>1, <1>2, <2>1, PickedEvents DEF IsEvents
  <2> QED BY <1>1, <2>1, <2>2, MaterializeJoined
<1> QED BY <1>4, <1>5, <1>6, <1>7

\* An undo touches no task but those of its targets.
LEMMA UndoTouchesTargets ==
    ASSUME NEW base, IsStored(base), IsSettled(base), NEW events, IsHistory(events),
           NEW targets, NEW cut, AreTargets(events, targets, cut),
           NEW p, IsPlanFor(p, base, events, targets, cut),
           NEW id, id \notin TaskIds(events, targets)
    PROVE  SameTask(Materialize(base, p.log), Materialize(base, events), id)
<1>1. IsEvents(events) /\ IsSeq(events) /\ cut \in 0..Len(events) /\ Len(events) \in Nat
  BY LogBasics DEF IsHistory, AreTargets
<1>2. PICK more : /\ p.log = SubSeq(events, 1, cut) \o more
                  /\ Appends(more, base, events, targets, cut)
  BY <1>1, PlanWrites
<1>3. PICK new : new = p.log
  OBVIOUS
<1>4. PICK prefix : prefix = SubSeq(events, 1, cut)
  OBVIOUS
<1>5. IsSeq(prefix) /\ Len(prefix) = cut /\ \A i \in 1..cut : prefix[i] = events[i]
  BY <1>1, <1>4, SeqPrefix
<1>6. IsSeq(more) /\ Len(more) \in Nat
  BY <1>2, SeqBasics DEF Appends, IsEvents
<1>7. new = prefix \o more
  BY <1>2, <1>3, <1>4
<1>8. IsSeq(new) /\ Len(new) = cut + Len(more) /\ \A i \in 1..cut : new[i] = prefix[i]
  BY <1>5, <1>6, <1>7, SeqConcat, ZenonT(60)
<1>9. SubSeq(new, 1, cut) = prefix
  <2>1. cut \in 0..Len(new)
    BY <1>1, <1>6, <1>8
  <2>2. IsSeq(SubSeq(new, 1, cut)) /\ Len(SubSeq(new, 1, cut)) = cut
        /\ \A i \in 1..cut : SubSeq(new, 1, cut)[i] = new[i]
    BY <1>8, <2>1, SeqPrefix
  <2> QED BY <1>5, <1>8, <2>2, SameElements
<1>10. IsCutAndMarked(new, events, targets, cut)
  BY <1>1, <1>2, <1>3, PlanCutsAndMarks
<1>11. \A i \in 1..Len(new) : i > cut => new[i].id # id
  BY <1>10 DEF IsCutAndMarked, TaskIds
<1>12. \A i \in 1..Len(events) : i > cut => events[i].id # id
  BY DEF AreTargets, TaskIds
<1>13. PICK before, now, then : /\ before = Materialize(base, prefix)
                                /\ now = Materialize(base, events)
                                /\ then = Materialize(base, new)
  OBVIOUS
<1>14. /\ id \in DOMAIN before <=> id \in DOMAIN now
       /\ id \in DOMAIN now => before[id] = now[id]
  BY <1>1, <1>4, <1>12, <1>13, UnnamedStay
<1>15. /\ id \in DOMAIN before <=> id \in DOMAIN then
       /\ id \in DOMAIN then => before[id] = then[id]
  <2>1. cut \in 0..Len(new)
    BY <1>1, <1>6, <1>8
  <2>2. before = Materialize(base, SubSeq(new, 1, cut))
    BY <1>9, <1>13
  <2>3. IsSeq(new)
    BY <1>8
  <2>4. then = Materialize(base, new)
    BY <1>13
  <2> QED BY ONLY <1>11, <2>1, <2>2, <2>3, <2>4, UnnamedStay
<1>16. SameTask(then, now, id)
  BY <1>14, <1>15 DEF SameTask
<1> QED BY <1>3, <1>13, <1>16

\* No mark of a task undone is of a folded event, or it is noted.
LEMMA ClearTask ==
    ASSUME NEW events, IsHistory(events), NEW id, id \notin {events[i].id : i \in Dangling(events)}
    PROVE  Fresh(events, id, 0)
<1>1. DOMAIN events = 1..Len(events) /\ Len(events) \in Nat
  BY LogBasics DEF IsHistory
<1> SUFFICES ASSUME NEW i \in 1..Len(events), events[i].id = id, events[i].undoes # NoUndo
             PROVE  \E j \in 1..Len(events) : j > 0 /\ events[j].seq = events[i].undoes
  BY DEF Fresh
<1>2. i \notin Dangling(events)
  OBVIOUS
<1>3. PICK j \in 1..Len(events) : events[j].seq = events[i].undoes
  BY <1>1, <1>2 DEF Dangling
<1> QED BY <1>1, <1>3

\* What is previewed of a task none of whose marks is of a folded event is what the log
\* to be written makes of it.
LEMMA PreviewTells ==
    ASSUME NEW base, IsStored(base), IsSettled(base), NEW events, IsHistory(events), NEW told,
           KeptAs(base, events, told),
           NEW targets, NEW cut, AreTargets(events, targets, cut),
           NEW p, IsPlanFor(p, base, events, targets, cut),
           NEW id \in TaskIds(events, targets), Fresh(events, id, 0)
    PROVE  SameTask(Materialize(base, p.log), p.after, id)
<1>1. PICK F : /\ IsEvents(F) /\ Tells(base, events, Materialize(<< >>, F))
  BY DEF KeptAs
<1>2. PICK start : start = Materialize(<< >>, F)
  OBVIOUS
<1>3. AllTasks(start) /\ Tells(base, events, start)
  BY <1>1, <1>2, FromNothing
<1>4. PICK rest : rest = Materialize(start, Picked(events, Live(events) \ targets))
  OBVIOUS
<1>5. SameTask(Materialize(base, p.log), rest, id) /\ SameTask(p.after, rest, id)
  BY <1>3, <1>4, TaskWithout
<1> QED BY <1>5 DEF SameTask

\* States that agree on every task show the same.
LEMMA SameContents ==
    ASSUME NEW s, NEW t, \A id : SameTask(s, t, id)
    PROVE  Contents(s) = Contents(t)
<1>1. DOMAIN s = DOMAIN t
  BY DEF SameTask
<1> QED BY <1>1 DEF SameTask, Contents

LEMMA SameAt ==
    ASSUME NEW s, NEW t, NEW id, SameTask(s, t, id)
    PROVE  At(s, id) = At(t, id)
BY DEF SameTask, At, Contents
=============================================================================
