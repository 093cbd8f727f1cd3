------------------------ MODULE TaskaTimelineProofs -------------------------
(***************************************************************************)
(* A store over time, for any commands and any order of writes, commits,   *)
(* compactions and undos: the log always loads, the marks of compensations *)
(* stay sound, undo respects the last commit and leaves the tasks as if    *)
(* the undone events had never been, previews are honest, writes forget no *)
(* name, a watch is told of everything that changed since its cursor, and  *)
(* history tells the same event by event.                                  *)
(***************************************************************************)
EXTENDS TaskaTimeline, TaskaUndoProofs

----------------------------------------------------------------------------
(* The store over time.                                                    *)

\* The plan that waits, with how it was made.
LEMMA WaitingPlan ==
    ASSUME NEW w, DOMAIN w = {"stale", "remove", "committed"},
           NEW p, {"outcome", "log"} \subseteq DOMAIN p, NEW r, r = Over(w, p)
    PROVE  /\ {"stale", "remove", "committed", "outcome", "log"} \subseteq DOMAIN r
           /\ r.stale = w.stale /\ r.remove = w.remove /\ r.committed = w.committed
           /\ r.outcome = p.outcome /\ r.log = p.log
BY DEF Over

LEMMA IdlePlan ==
    /\ {"stale", "remove", "committed", "outcome", "log"} \subseteq DOMAIN Idle
    /\ Idle.stale \in BOOLEAN /\ Idle.remove \in BOOLEAN /\ Idle.outcome = "nothing"
<1> DEFINE w == [stale |-> FALSE, remove |-> FALSE, committed |-> 0]
           r == Over(w, NoPlan)
<1>1. DOMAIN w = {"stale", "remove", "committed"} /\ w.stale = FALSE /\ w.remove = FALSE
  OBVIOUS
<1>2. {"outcome", "log"} \subseteq DOMAIN NoPlan /\ NoPlan.outcome = "nothing"
  BY DEF NoPlan
<1>3. Idle = r
  BY DEF Idle
<1> HIDE DEF w
<1>4. /\ {"stale", "remove", "committed", "outcome", "log"} \subseteq DOMAIN r
      /\ r.stale = w.stale /\ r.remove = w.remove /\ r.outcome = NoPlan.outcome
  BY <1>1, <1>2, WaitingPlan
<1> HIDE DEF r
<1> QED BY <1>1, <1>2, <1>3, <1>4

StoreInv == IsStored(baseline) /\ IsHistory(log) /\ Len(head) \in Nat

\* The waiting plan would leave a history; unless the log changed it goes on from the
\* log, and unless history is to be rewritten, it keeps what was committed.
PlanInv ==
    /\ {"stale", "remove", "committed", "outcome", "log"} \subseteq DOMAIN pending
    /\ pending.stale \in BOOLEAN /\ pending.remove \in BOOLEAN
    /\ pending.outcome = "plan" =>
          /\ IsHistory(pending.log)
          /\ pending.stale = FALSE =>
                \E cut \in 0..Len(log) :
                    /\ GoesOn(pending.log, log, cut)
                    /\ pending.remove = FALSE => pending.committed <= cut

Inv == StoreInv /\ PlanInv

LEMMA InvInit == Init => Inv
<1> SUFFICES ASSUME Init PROVE Inv
  OBVIOUS
<1>1. IsStored(baseline)
  BY FS_EmptySet DEF Init, IsStored, AllTasks
<1>2. IsHistory(log)
  <2>1. IsSeq(Genesis)
    BY GenesisAssumption DEF IsSeq
  <2>2. IsHistory(Genesis)
    BY <2>1, SeqBasics, GenesisAssumption DEF IsHistory, IsLog, HasSeqs, IsEvents, Counted
  <2> QED BY <2>2 DEF Init
<1>3. Len(head) \in Nat
  BY SeqEmpty DEF Init
<1>4. PlanInv
  <2>1. pending = Idle
    BY DEF Init
  <2> QED BY <2>1, IdlePlan DEF PlanInv
<1> QED BY <1>1, <1>2, <1>3, <1>4 DEF Inv, StoreInv

\* Outdating a plan keeps its log and lifts the promise about the commit.
LEMMA OutdatedPlan ==
    ASSUME PlanInv, pending' = Outdated
    PROVE  PlanInv'
<1>1. PICK stale \in BOOLEAN : /\ pending' = [pending EXCEPT !.stale = stale]
                               /\ pending.outcome = "plan" => stale = TRUE
  BY DEF Outdated
<1>2. /\ DOMAIN pending' = DOMAIN pending
      /\ pending'.outcome = pending.outcome /\ pending'.log = pending.log
      /\ pending'.stale = stale /\ pending'.remove = pending.remove
  BY <1>1 DEF PlanInv
<1>3. pending.outcome = "plan" => pending'.stale = TRUE
  BY <1>1, <1>2
<1>4. pending.outcome = "plan" => IsHistory(pending.log)
  BY DEF PlanInv
<1> QED BY <1>2, <1>3, <1>4
        DEF PlanInv, IsHistory, IsLog, HasSeqs, SeqOrdered, IsEvents, MarksAreSound, Counted

\* What a command logs is numbered on, and its marks are none.
LEMMA WriteLogs ==
    ASSUME Inv, NEW c \in Commands, Write(c)
    PROVE  \E more :
              /\ log' = log \o more /\ IsSeq(more)
              /\ \A i \in 1..Len(more) :
                    /\ "seq" \in DOMAIN more[i] /\ more[i].seq = NextSeq(log) + i - 1
                    /\ more[i].op \in EventOps /\ more[i].undoes = NoUndo
<1>1. PICK out : /\ out = Build(c, State, PayloadFields(log)).out
                 /\ log' = log \o NewEvents(out)
  BY DEF Write
<1>2. IsEvents(out)
  BY <1>1, CommandsAssumption, CommandIsEvents
<1> DEFINE more == NewEvents(out)
           S == {more[i] : i \in 1..Len(out)}
<1>3. Len(out) \in Nat /\ DOMAIN out = 1..Len(out)
  BY <1>2, SeqBasics DEF IsEvents
<1>4. more \in [1..Len(out) -> S]
  BY <1>3 DEF NewEvents
<1>5. more \in Seq(S) /\ Len(more) = Len(out)
  BY <1>3, <1>4
<1>6. \A i \in 1..Len(out) :
          /\ "seq" \in DOMAIN more[i] /\ more[i].seq = NextSeq(log) + i - 1
          /\ more[i].op = out[i].op /\ more[i].undoes = NoUndo
  BY <1>3 DEF NewEvents
<1>7. log' = log \o more
  BY <1>1
<1> HIDE DEF more
<1> QED BY <1>2, <1>5, <1>6, <1>7 DEF IsSeq, IsEvents

LEMMA WriteKeepsInv ==
    ASSUME Inv, NEW c \in Commands, Write(c)
    PROVE  Inv'
<1>1. PICK more :
          /\ log' = log \o more /\ IsSeq(more)
          /\ \A i \in 1..Len(more) :
                /\ "seq" \in DOMAIN more[i] /\ more[i].seq = NextSeq(log) + i - 1
                /\ more[i].op \in EventOps /\ more[i].undoes = NoUndo
  BY WriteLogs
<1> DEFINE new == log \o more
<1>2. IsHistory(new) /\ log' = new
  BY <1>1, LongerHistory DEF Inv, StoreInv
<1> HIDE DEF new
<1>3. baseline' = baseline /\ head' = head /\ pending' = Outdated
  BY DEF Write
<1>4. StoreInv'
  BY <1>2, <1>3 DEF Inv, StoreInv, IsHistory, IsLog, HasSeqs, SeqOrdered, IsEvents,
                    MarksAreSound, Counted, IsStored, AllTasks, IsTask
<1>5. PlanInv'
  BY <1>3, OutdatedPlan DEF Inv
<1> QED BY <1>4, <1>5 DEF Inv

LEMMA CompactKeepsInv ==
    ASSUME Inv, Compact
    PROVE  Inv'
<1>1. PICK n : /\ n = RetentionSplit(log, KeepEvents, 0, 1)
               /\ baseline' = Materialize(baseline, SubSeq(log, 1, n))
               /\ log' = SubSeq(log, n + 1, Len(log))
  BY DEF Compact
<1>2. IsSeq(log) /\ Len(log) \in Nat
  BY LogBasics DEF Inv, StoreInv, IsHistory
<1>3. n \in 0..Len(log)
  BY <1>1, <1>2, KeepAssumption, SplitIsInLog
<1> DEFINE before == SubSeq(log, 1, n)
           after == SubSeq(log, n + 1, Len(log))
<1>4. /\ \A i \in 1..Len(before) : \E j \in 1..Len(log) : before[i] = log[j]
      /\ \A i \in 1..Len(after) : \E j \in 1..Len(log) : after[i] = log[j]
  <2>1. Len(before) = n /\ \A i \in 1..n : before[i] = log[i]
    BY <1>2, <1>3, SeqPrefix
  <2>2. Len(after) = Len(log) - n /\ \A i \in 1..(Len(log) - n) : after[i] = log[n + i]
    BY <1>2, <1>3, SeqSuffix
  <2>3. \A i \in 1..n : i \in 1..Len(log)
    BY <1>2, <1>3
  <2>4. \A i \in 1..(Len(log) - n) : n + i \in 1..Len(log)
    BY <1>2, <1>3
  <2> HIDE DEF before, after
  <2> QED BY <2>1, <2>2, <2>3, <2>4
<1>5. IsLog(before) /\ IsLog(after)
  BY <1>3, PrefixLog, SuffixLog DEF Inv, StoreInv, IsHistory
<1> HIDE DEF before, after
<1>6. IsHistory(before) /\ IsHistory(after)
  BY <1>4, <1>5, PartOfHistory DEF Inv, StoreInv
<1> DEFINE state == Materialize(baseline, before)
<1>7. IsStored(state)
  BY <1>6, MaterializeKeepsStored DEF Inv, StoreInv, IsHistory
<1>8. baseline' = state /\ log' = after
  BY <1>1 DEF before, after
<1> HIDE DEF state
<1>9. head' = head /\ pending' = Outdated
  BY DEF Compact
<1>10. StoreInv'
  BY <1>6, <1>7, <1>8, <1>9 DEF Inv, StoreInv, IsHistory, IsLog, HasSeqs, SeqOrdered,
                    IsEvents, MarksAreSound, Counted, IsStored, AllTasks, IsTask
<1>11. PlanInv'
  BY <1>9, OutdatedPlan DEF Inv
<1> QED BY <1>10, <1>11 DEF Inv

LEMMA PreviewKeepsInv ==
    ASSUME Inv, NEW from, NEW count, NEW remove, remove \in BOOLEAN, Preview(from, count, remove)
    PROVE  Inv'
<1> DEFINE w == [stale |-> FALSE, remove |-> remove, committed |-> Len(head)]
<1>1. PICK p : p = Plan(from, count, remove) /\ p.outcome = "plan" /\ pending' = Over(w, p)
  BY DEF Preview
<1>2. PICK n \in Nat : n = Len(head)
  BY DEF Inv, StoreInv
<1>3. /\ {"outcome", "log"} \subseteq DOMAIN p
      /\ IsHistory(p.log)
      /\ \E cut \in 0..Len(log) :
            GoesOn(p.log, log, cut) /\ (remove = FALSE => Len(head) <= cut)
  <2>1. p = UndoPlan(baseline, log, n, from, count, remove, 1)
    BY <1>1, <1>2 DEF Plan
  <2>2. IsStored(baseline) /\ IsHistory(log) /\ n \in Nat /\ p.outcome = "plan"
    BY <1>1 DEF Inv, StoreInv
  <2> HIDE DEF w
  <2>3. /\ {"outcome", "log"} \subseteq DOMAIN p
        /\ IsHistory(p.log)
        /\ \E cut \in 0..Len(log) :
              GoesOn(p.log, log, cut) /\ (remove = FALSE => n <= cut)
    BY <2>1, <2>2, PlanIsHistory
  <2> QED BY <1>2, <2>3
<1>4. /\ DOMAIN w = {"stale", "remove", "committed"}
      /\ w.stale = FALSE /\ w.remove = remove /\ w.committed = Len(head)
  OBVIOUS
<1> HIDE DEF w
<1> DEFINE r == Over(w, p)
<1>5. /\ {"stale", "remove", "committed", "outcome", "log"} \subseteq DOMAIN r
      /\ r.stale = FALSE /\ r.remove = remove /\ r.committed = Len(head)
      /\ r.outcome = p.outcome /\ r.log = p.log
  BY <1>3, <1>4, WaitingPlan
<1>6. baseline' = baseline /\ log' = log /\ head' = head /\ pending' = r
  BY <1>1 DEF Preview, store
<1> HIDE DEF r
<1>7. StoreInv'
  BY <1>6 DEF Inv, StoreInv, IsHistory, IsLog, HasSeqs, SeqOrdered, IsEvents,
              MarksAreSound, Counted, IsStored, AllTasks, IsTask
<1>8. PICK new : new = p.log
  OBVIOUS
<1>9. pending'.log = new /\ pending'.stale = FALSE /\ pending'.remove = remove
      /\ pending'.committed = Len(head)
  BY <1>5, <1>6, <1>8
<1>10. IsHistory(new) /\ \E cut \in 0..Len(log) :
                              GoesOn(new, log, cut) /\ (remove = FALSE => Len(head) <= cut)
  BY <1>3, <1>8
<1>11. PlanInv'
  <2>1. IsHistory(pending.log)'
    BY <1>9, <1>10 DEF IsHistory, IsLog, HasSeqs, SeqOrdered, IsEvents, MarksAreSound, Counted
  <2>2. (\E cut \in 0..Len(log) :
            /\ GoesOn(pending.log, log, cut)
            /\ pending.remove = FALSE => pending.committed <= cut)'
    BY <1>6, <1>9, <1>10 DEF GoesOn
  <2>3. /\ {"stale", "remove", "committed", "outcome", "log"} \subseteq DOMAIN pending'
        /\ pending'.stale \in BOOLEAN /\ pending'.remove \in BOOLEAN
    BY <1>5, <1>6, <1>9
  <2> QED BY <2>1, <2>2, <2>3 DEF PlanInv
<1> QED BY <1>7, <1>11 DEF Inv

LEMMA ConfirmKeepsInv ==
    ASSUME Inv, Confirm
    PROVE  Inv'
<1>1. /\ pending.outcome = "plan" /\ log' = pending.log
      /\ baseline' = baseline /\ head' = head /\ pending' = Idle
  BY DEF Confirm
<1>2. IsHistory(pending.log)
  BY <1>1 DEF Inv, PlanInv
<1> DEFINE new == pending.log
<1>3. log' = new /\ IsHistory(new)
  BY <1>1, <1>2
<1> HIDE DEF new
<1>4. StoreInv'
  BY <1>1, <1>3 DEF Inv, StoreInv, IsHistory, IsLog, HasSeqs, SeqOrdered, IsEvents,
              MarksAreSound, Counted, IsStored, AllTasks, IsTask
<1>5. PlanInv'
  BY <1>1, IdlePlan DEF PlanInv
<1> QED BY <1>4, <1>5 DEF Inv

\* What leaves the store alone, and the waiting plan or drops it.
LEMMA OthersKeepInv ==
    ASSUME Inv, baseline' = baseline, log' = log, head' = head \/ head' = log,
           pending' = pending \/ pending' = Idle
    PROVE  Inv'
<1>1. Len(log) \in Nat
  BY LogBasics DEF Inv, StoreInv, IsHistory
<1>2. StoreInv'
  BY <1>1 DEF Inv, StoreInv, IsHistory, IsLog, HasSeqs, SeqOrdered, IsEvents,
              MarksAreSound, Counted, IsStored, AllTasks, IsTask
<1>3. CASE pending' = pending
  <2>1. PlanInv'
    BY <1>3 DEF Inv, PlanInv, IsHistory, IsLog, HasSeqs, SeqOrdered, IsEvents,
                MarksAreSound, Counted
  <2> QED BY <1>2, <2>1 DEF Inv
<1>4. CASE pending' = Idle
  <2>1. PlanInv'
    BY <1>4, IdlePlan DEF PlanInv
  <2> QED BY <1>2, <2>1 DEF Inv
<1> QED BY <1>3, <1>4

LEMMA InvNext == Inv /\ [Next]_vars => Inv'
<1> SUFFICES ASSUME Inv, [Next]_vars PROVE Inv'
  OBVIOUS
<1>1. CASE UNCHANGED vars
  BY <1>1, OthersKeepInv DEF vars, store
<1>2. ASSUME NEW c \in Commands, Write(c) PROVE Inv'
  BY <1>2, WriteKeepsInv
<1>3. CASE Save
  BY <1>3, OthersKeepInv DEF Save, store
<1>4. CASE Compact
  BY <1>4, CompactKeepsInv
<1>5. ASSUME NEW from \in Seqs, NEW count \in 1..MaxCount, NEW remove \in BOOLEAN,
             Preview(from, count, remove)
      PROVE  Inv'
  BY <1>5, PreviewKeepsInv
<1>6. CASE Confirm
  BY <1>6, ConfirmKeepsInv
<1>7. CASE Abort
  BY <1>7, OthersKeepInv DEF Abort, store
<1>8. CASE Looking
  <2>1. baseline' = baseline /\ log' = log /\ head' = head /\ pending' = pending
    BY <1>8 DEF Looking, Stat, Collect, Report, Nothing, Sleep, store
  <2> QED BY <2>1, OthersKeepInv
<1>9. CASE Deadline
  BY <1>9, OthersKeepInv DEF Deadline, store
<1>10. ASSUME NEW resync \in BOOLEAN, Restart(resync) PROVE Inv'
  <2>1. baseline' = baseline /\ log' = log /\ head' = head /\ pending' = pending
    BY <1>10 DEF Restart, store
  <2> QED BY <2>1, OthersKeepInv
<1> QED BY <1>1, <1>2, <1>3, <1>4, <1>5, <1>6, <1>7, <1>8, <1>9, <1>10 DEF Next

\* What holds of the store and the waiting plan at every moment.
LEMMA InvAlways == Spec => []Inv
BY InvInit, InvNext, PTL DEF Spec

\* However writes, commits, compactions and undos follow each other, no compensation
\* carries the mark of an event that was given a freed seq, of another task's event or
\* of another compensation.
THEOREM MarksStaySound == Spec => []UndoMarksAreSound
<1>1. Inv => UndoMarksAreSound
  BY DEF Inv, StoreInv, IsHistory, UndoMarksAreSound
<1> QED BY <1>1, InvAlways, PTL

\* While nothing came between, an undo without --remove that is confirmed leaves the
\* committed log a prefix of the log.
THEOREM CommittedStays == Spec => UndoKeepsCommitted
<1> DEFINE Kept == /\ pending.outcome = "plan" /\ log' = pending.log
                   /\ ~ pending.stale /\ pending.committed = Len(head) /\ ~ pending.remove
                   /\ IsPrefix(head, log)
                   => IsPrefix(head, log')
<1>1. Inv /\ [Next]_vars => [Kept]_vars
  <2> SUFFICES ASSUME Inv,
                      pending.outcome = "plan", log' = pending.log, ~ pending.stale,
                      pending.committed = Len(head), ~ pending.remove, IsPrefix(head, log)
               PROVE  IsPrefix(head, log')
    OBVIOUS
  <2>1. PICK cut \in 0..Len(log) : GoesOn(pending.log, log, cut) /\ pending.committed <= cut
    BY DEF Inv, PlanInv
  <2>2. PICK comps : IsSeq(comps) /\ pending.log = SubSeq(log, 1, cut) \o comps
    BY <2>1 DEF GoesOn
  <2>3. PICK h \in Nat : h = Len(head) /\ h <= cut
    BY <2>1 DEF Inv, StoreInv
  <2>4. IsSeq(log) /\ Len(log) \in Nat
    BY LogBasics DEF Inv, StoreInv, IsHistory
  <2> DEFINE prefix == SubSeq(log, 1, cut)
             new == prefix \o comps
  <2>5. IsSeq(prefix) /\ Len(prefix) = cut /\ \A i \in 1..cut : prefix[i] = log[i]
    BY <2>4, SeqPrefix
  <2> HIDE DEF prefix
  <2>6. Len(comps) \in Nat
    BY <2>2, SeqBasics
  <2>7. IsSeq(new) /\ Len(new) = cut + Len(comps) /\ \A i \in 1..cut : new[i] = prefix[i]
    BY <2>2, <2>5, SeqConcat, ZenonT(60)
  <2>8. log' = new
    BY <2>2 DEF prefix
  <2> HIDE DEF new
  <2>9. SubSeq(new, 1, h) = SubSeq(log, 1, h)
    <3>1. h \in 0..Len(new) /\ h \in 0..Len(log) /\ \A i \in 1..h : i \in 1..cut
      BY <2>3, <2>4, <2>6, <2>7
    <3>2. /\ IsSeq(SubSeq(new, 1, h)) /\ Len(SubSeq(new, 1, h)) = h
          /\ \A i \in 1..h : SubSeq(new, 1, h)[i] = new[i]
      BY <2>7, <3>1, SeqPrefix
    <3>3. /\ IsSeq(SubSeq(log, 1, h)) /\ Len(SubSeq(log, 1, h)) = h
          /\ \A i \in 1..h : SubSeq(log, 1, h)[i] = log[i]
      BY <2>4, <3>1, SeqPrefix
    <3>4. \A i \in 1..h : SubSeq(new, 1, h)[i] = SubSeq(log, 1, h)[i]
      BY <2>5, <2>7, <3>1, <3>2, <3>3
    <3> QED BY <3>2, <3>3, <3>4, SameElements
  <2>10. Len(head) <= Len(new)
    BY <2>3, <2>6, <2>7
  <2> QED BY <2>3, <2>8, <2>9, <2>10 DEF IsPrefix
<1> QED BY <1>1, InvAlways, PTL DEF Spec, UndoKeepsCommitted

----------------------------------------------------------------------------
(* Undone as if never logged, over time.                                   *)

\* As KeptAs and IsSettled are about values, not about states, they are stated for the
\* values that the variables have.
KeptInv ==
    \A b, l, k : b = baseline /\ l = log /\ k = kept =>
        IsSettled(b) /\ (muddled = "no" => KeptAs(b, l, k))

\* p is a plan for a choice of targets in the log, cut somewhere.
HasPlan(base, events, p) ==
    \E targets, cut : AreTargets(events, targets, cut) /\ IsPlanFor(p, base, events, targets, cut)

\* A plan that is not outdated is a plan for the log as it is.
PreviewInv ==
    \A b, l, p : b = baseline /\ l = log /\ p = pending =>
        (p.outcome = "plan" /\ p.stale = FALSE => HasPlan(b, l, p))

\* The invariant that the two theorems below rest on.
UndoInv == KeptInv /\ PreviewInv

\* A store that starts with nothing undone keeps all of its log.
LEMMA UndoInit == ASSUME OnlyOriginals, Init PROVE UndoInv
<1>1. baseline = << >> /\ log = Genesis /\ kept = Genesis /\ pending = Idle
  BY DEF Init
<1>2. IsHistory(log)
  BY InvInit DEF Inv, StoreInv
<1>3. DOMAIN log = 1..Len(log)
  BY <1>2, LogBasics DEF IsHistory
<1>4. KeptAs(<< >>, log, log)
  BY <1>1, <1>2, <1>3, KeptAtFirst DEF OnlyOriginals
<1>5. IsSettled(<< >>)
  BY DEF IsSettled, AllTasks
<1>6. KeptInv
  BY <1>1, <1>4, <1>5 DEF KeptInv
<1>7. PreviewInv
  BY <1>1, IdlePlan DEF PreviewInv
<1> QED BY <1>6, <1>7 DEF UndoInv

\* An outdated plan is stale.
LEMMA OutdatedPreview ==
    ASSUME PlanInv, pending' = Outdated
    PROVE  PreviewInv'
<1>1. PICK p : p = pending'
  OBVIOUS
<1>2. pending.outcome = "plan" => p.stale = TRUE
  BY <1>1 DEF Outdated, PlanInv
<1>3. p.outcome = pending.outcome
  BY <1>1 DEF Outdated, PlanInv
<1> QED BY <1>1, <1>2, <1>3 DEF PreviewInv

LEMMA WriteKeepsUndo ==
    ASSUME Inv, Inv', UndoInv, NEW c \in Commands, Write(c)
    PROVE  UndoInv'
<1>1. PICK out : /\ out = Build(c, State, PayloadFields(log)).out
                 /\ log' = log \o NewEvents(out) /\ kept' = kept \o NewEvents(out)
  BY DEF Write
<1>2. PICK more : more = NewEvents(out)
  OBVIOUS
<1>3. IsSeq(more) /\ \A i \in 1..Len(more) : more[i].undoes = NoUndo
  <2>1. IsEvents(out)
    BY <1>1, CommandsAssumption, CommandIsEvents
  <2>2. Len(out) \in Nat /\ DOMAIN out = 1..Len(out)
    BY <2>1, SeqBasics DEF IsEvents
  <2>3. more \in [1..Len(out) -> {more[i] : i \in 1..Len(out)}]
    BY <1>2, <2>2 DEF NewEvents
  <2>4. more \in Seq({more[i] : i \in 1..Len(out)}) /\ Len(more) = Len(out)
    BY <2>2, <2>3
  <2>5. \A i \in 1..Len(out) : more[i].undoes = NoUndo
    BY <1>2, <2>2 DEF NewEvents
  <2> QED BY <2>4, <2>5 DEF IsSeq
<1>4. PICK b, l, k : b = baseline /\ l = log /\ k = kept
  OBVIOUS
<1>5. PICK new, told : new = log' /\ told = kept'
  OBVIOUS
<1>6. new = Joined(l, more) /\ told = Joined(k, more)
  BY <1>1, <1>2, <1>4, <1>5 DEF Joined
<1>7. IsHistory(new)
  <2>1. IsHistory(log')
    BY DEF Inv, StoreInv
  <2> QED BY <1>5, <2>1 DEF IsHistory, IsLog, HasSeqs, SeqOrdered, IsEvents, MarksAreSound, Counted
<1>8. IsStored(b) /\ IsHistory(l)
  BY <1>4 DEF Inv, StoreInv
<1>9. IsSettled(b) /\ (muddled = "no" => KeptAs(b, l, k))
  BY <1>4 DEF UndoInv, KeptInv
<1>10. muddled = "no" => KeptAs(b, new, told)
  BY <1>3, <1>6, <1>7, <1>8, <1>9, KeptWritten
<1>11. baseline' = b /\ muddled' = muddled /\ pending' = Outdated
  BY <1>4 DEF Write
<1>12. KeptInv'
  BY <1>5, <1>9, <1>10, <1>11 DEF KeptInv
<1>13. PreviewInv'
  BY <1>11, OutdatedPreview DEF Inv
<1> QED BY <1>12, <1>13 DEF UndoInv

LEMMA CompactKeepsUndo ==
    ASSUME Inv, Inv', UndoInv, Compact
    PROVE  UndoInv'
<1>1. PICK n : /\ n = RetentionSplit(log, KeepEvents, 0, 1)
               /\ baseline' = Materialize(baseline, SubSeq(log, 1, n))
               /\ log' = SubSeq(log, n + 1, Len(log))
  BY DEF Compact
<1>2. IsSeq(log) /\ Len(log) \in Nat
  BY LogBasics DEF Inv, StoreInv, IsHistory
<1>3. n \in 0..Len(log)
  BY <1>1, <1>2, KeepAssumption, SplitIsInLog
<1>4. PICK b, l, k : b = baseline /\ l = log /\ k = kept
  OBVIOUS
<1>5. PICK base, rest : base = baseline' /\ rest = log'
  OBVIOUS
<1>6. IsHistory(rest)
  <2>1. IsHistory(log')
    BY DEF Inv, StoreInv
  <2> QED BY <1>5, <2>1 DEF IsHistory, IsLog, HasSeqs, SeqOrdered, IsEvents, MarksAreSound, Counted
<1>7. IsStored(b) /\ IsHistory(l)
  BY <1>4 DEF Inv, StoreInv
<1>8. IsSettled(b) /\ (muddled = "no" => KeptAs(b, l, k))
  BY <1>4 DEF UndoInv, KeptInv
<1>9. base = Materialize(b, SubSeq(l, 1, n)) /\ rest = SubSeq(l, n + 1, Len(l)) /\ n \in 0..Len(l)
  BY <1>1, <1>3, <1>4, <1>5
<1>10. IsSettled(base)
  <2>1. PICK pre : pre = SubSeq(l, 1, n)
    OBVIOUS
  <2>2. IsEvents(pre)
    <3>1. IsSeq(l) /\ \A i \in 1..Len(l) : l[i].op \in EventOps
      BY <1>7 DEF IsHistory, IsEvents
    <3>2. IsSeq(pre) /\ Len(pre) = n /\ \A i \in 1..n : pre[i] = l[i]
      BY <1>9, <2>1, <3>1, SeqPrefix
    <3>3. \A i \in 1..n : i \in 1..Len(l)
      BY <1>2, <1>4, <1>9
    <3> QED BY <3>1, <3>2, <3>3 DEF IsEvents
  <2> QED BY <1>8, <1>9, <2>1, <2>2, MaterializeKeepsSettled
<1>11. muddled = "no" => KeptAs(base, rest, k)
  BY <1>6, <1>7, <1>8, <1>9, KeptFolded
<1>12. kept' = k /\ muddled' = muddled /\ pending' = Outdated
  BY <1>4 DEF Compact, ghosts
<1>13. KeptInv'
  BY <1>5, <1>10, <1>11, <1>12 DEF KeptInv
<1>14. PreviewInv'
  BY <1>12, OutdatedPreview DEF Inv
<1> QED BY <1>13, <1>14 DEF UndoInv

\* A plan with what the confirmation needs to know of it is still that plan.
LEMMA WaitingUndo ==
    ASSUME NEW w, DOMAIN w = {"stale", "remove", "committed"},
           NEW p, DOMAIN p = {"outcome", "undone", "before", "after", "log", "rewrites"},
           NEW r, r = Over(w, p)
    PROVE  /\ r.stale = w.stale /\ r.outcome = p.outcome
           /\ r.undone = p.undone /\ r.after = p.after /\ r.log = p.log
BY DEF Over

\* A preview plans for the log and the baseline it reads.
LEMMA PreviewKeepsUndo ==
    ASSUME Inv, UndoInv, NEW from, NEW count, NEW remove, Preview(from, count, remove)
    PROVE  UndoInv'
<1>1. PICK p : /\ p = Plan(from, count, remove) /\ p.outcome = "plan"
               /\ pending' = Over([stale |-> FALSE, remove |-> remove, committed |-> Len(head)], p)
  BY DEF Preview
<1>2. PICK b, l, n : b = baseline /\ l = log /\ n = Len(head)
  OBVIOUS
<1>3. IsSeq(l) /\ n \in Nat
  BY <1>2, LogBasics DEF Inv, StoreInv, IsHistory
<1>4. p = UndoPlan(b, l, n, from, count, remove, 1)
  BY <1>1, <1>2 DEF Plan
<1>5. /\ DOMAIN p = {"outcome", "undone", "before", "after", "log", "rewrites"}
      /\ \E targets, cut : AreTargets(l, targets, cut) /\ IsPlanFor(p, b, l, targets, cut)
  BY <1>1, <1>3, <1>4, PlanHasTargets
<1>6. PICK w : w = [stale |-> FALSE, remove |-> remove, committed |-> n]
  OBVIOUS
<1>7. PICK r : r = Over(w, p)
  OBVIOUS
<1>8. DOMAIN w = {"stale", "remove", "committed"}
  BY <1>6
<1>9. r.undone = p.undone /\ r.after = p.after /\ r.log = p.log
  BY <1>5, <1>7, <1>8, WaitingUndo
<1>10. HasPlan(b, l, r)
  BY <1>5, <1>9 DEF HasPlan, IsPlanFor
<1>11. pending' = r /\ baseline' = b /\ log' = l
  BY <1>1, <1>2, <1>6, <1>7 DEF Preview, store
<1>12. PreviewInv'
  BY <1>10, <1>11 DEF PreviewInv
<1>13. kept' = kept /\ muddled' = muddled /\ baseline' = baseline /\ log' = log
  BY DEF Preview, store, ghosts
<1>14. KeptInv'
  BY <1>13 DEF UndoInv, KeptInv
<1> QED BY <1>12, <1>14 DEF UndoInv

LEMMA ConfirmKeepsUndo ==
    ASSUME Inv, Inv', UndoInv, Confirm
    PROVE  UndoInv'
<1>1. PICK b, l, k, p : b = baseline /\ l = log /\ k = kept /\ p = pending
  OBVIOUS
<1>2. /\ p.outcome = "plan" /\ log' = p.log /\ kept' = WithoutUndone(k, p.undone)
      /\ baseline' = b /\ pending' = Idle
  BY <1>1 DEF Confirm
<1>3. IsStored(b) /\ IsHistory(l)
  BY <1>1 DEF Inv, StoreInv
<1>4. PICK new : new = p.log
  OBVIOUS
<1>5. IsHistory(new)
  BY <1>1, <1>2, <1>4 DEF Inv, PlanInv
<1>6. IsSettled(b) /\ (muddled = "no" => KeptAs(b, l, k))
  BY <1>1 DEF UndoInv, KeptInv
<1>7. ASSUME muddled' = "no" PROVE KeptAs(b, new, WithoutUndone(k, p.undone))
  <2>1. /\ muddled = "no" /\ p.stale = FALSE
        /\ \A i \in Dangling(l), j \in DOMAIN l : ~ (l[j].seq \in p.undone /\ l[j].id = l[i].id)
    <3>1. p.stale \in BOOLEAN
      BY <1>1 DEF Inv, PlanInv
    <3>2. ~ (p.stale \/ muddled = "stale")
      BY <1>1, <1>7 DEF Confirm
    <3>3. ~ \E i \in Dangling(l), j \in DOMAIN l : l[j].seq \in p.undone /\ l[j].id = l[i].id
      BY <1>1, <1>7, <3>2 DEF Confirm
    <3>4. muddled = "no"
      BY <1>1, <1>7, <3>2, <3>3 DEF Confirm
    <3> QED BY <3>1, <3>2, <3>3, <3>4
  <2>2. PICK targets, cut : AreTargets(l, targets, cut) /\ IsPlanFor(p, b, l, targets, cut)
    BY <1>1, <1>2, <2>1 DEF UndoInv, PreviewInv, HasPlan
  <2>3. ASSUME NEW id \in TaskIds(l, targets) PROVE Fresh(l, id, 0)
    <3>1. PICK j \in targets : id = l[j].id
      BY DEF TaskIds
    <3>2. j \in DOMAIN l /\ l[j].seq \in p.undone
      <4>1. DOMAIN l = 1..Len(l)
        BY <1>3, LogBasics DEF IsHistory
      <4> QED BY <2>2, <4>1 DEF AreTargets, IsPlanFor
    <3>3. id \notin {l[i].id : i \in Dangling(l)}
      BY <2>1, <3>1, <3>2
    <3> QED BY <1>3, <3>3, ClearTask
  <2> QED BY <1>3, <1>4, <1>5, <1>6, <2>1, <2>2, <2>3, KeptUndone
<1>8. KeptInv'
  BY <1>2, <1>4, <1>6, <1>7 DEF KeptInv
<1>9. PreviewInv'
  BY <1>2, IdlePlan DEF PreviewInv
<1> QED BY <1>8, <1>9 DEF UndoInv

\* So does a step that leaves the store alone.
LEMMA OthersKeepUndo ==
    ASSUME UndoInv, baseline' = baseline, log' = log, kept' = kept, muddled' = muddled,
           pending' = pending \/ pending' = Idle
    PROVE  UndoInv'
<1>1. KeptInv'
  BY DEF UndoInv, KeptInv
<1>2. PreviewInv'
  BY IdlePlan DEF UndoInv, PreviewInv
<1> QED BY <1>1, <1>2 DEF UndoInv

LEMMA UndoNext == Inv /\ Inv' /\ UndoInv /\ [Next]_vars => UndoInv'
<1> SUFFICES ASSUME Inv, Inv', UndoInv, [Next]_vars PROVE UndoInv'
  OBVIOUS
<1>1. CASE UNCHANGED vars
  BY <1>1, OthersKeepUndo DEF vars
<1>2. ASSUME NEW c \in Commands, Write(c) PROVE UndoInv'
  BY <1>2, WriteKeepsUndo
<1>3. CASE Save
  BY <1>3, OthersKeepUndo DEF Save, store, ghosts
<1>4. CASE Compact
  BY <1>4, CompactKeepsUndo
<1>5. ASSUME NEW from \in Seqs, NEW count \in 1..MaxCount, NEW remove \in BOOLEAN,
             Preview(from, count, remove)
      PROVE  UndoInv'
  BY <1>5, PreviewKeepsUndo
<1>6. CASE Confirm
  BY <1>6, ConfirmKeepsUndo
<1>7. CASE Abort
  BY <1>7, OthersKeepUndo DEF Abort, store, ghosts
<1>8. CASE Looking \/ Deadline
  <2>1. baseline' = baseline /\ log' = log /\ kept' = kept /\ muddled' = muddled
        /\ pending' = pending
    BY <1>8 DEF Looking, Stat, Collect, Report, Nothing, Sleep, Deadline, store, ghosts
  <2> QED BY <2>1, OthersKeepUndo
<1>9. ASSUME NEW resync \in BOOLEAN, Restart(resync) PROVE UndoInv'
  <2>1. baseline' = baseline /\ log' = log /\ kept' = kept /\ muddled' = muddled
        /\ pending' = pending
    BY <1>9 DEF Restart, store, ghosts
  <2> QED BY <2>1, OthersKeepUndo
<1> QED BY <1>1, <1>2, <1>3, <1>4, <1>5, <1>6, <1>7, <1>8, <1>9 DEF Next

LEMMA UndoAlways == OnlyOriginals => (Spec => [](Inv /\ UndoInv))
<1> SUFFICES ASSUME OnlyOriginals PROVE Spec => [](Inv /\ UndoInv)
  OBVIOUS
<1>1. Init => Inv /\ UndoInv
  BY InvInit, UndoInit
<1>2. Inv /\ UndoInv /\ [Next]_vars => (Inv /\ UndoInv)'
  BY InvNext, UndoNext
<1> QED BY <1>1, <1>2, PTL DEF Spec

\* Every undo the store goes through, the ones that cut the log and the ones that log
\* compensations, before and after folds, leaves the tasks as the replay of what was
\* logged and not undone (buried_compensations, which replays "AS IF that original (and
\* every already-undone one) never happened").
THEOREM UndoLooksAsIfNever == OnlyOriginals => (Spec => []UndoIsAsIfNever)
<1>1. Inv /\ UndoInv => UndoIsAsIfNever
  <2> SUFFICES ASSUME Inv, UndoInv, muddled = "no"
               PROVE  Contents(State) = Contents(Materialize(<< >>, kept))
    BY DEF UndoIsAsIfNever
  <2>1. IsHistory(log) /\ KeptAs(baseline, log, kept)
    BY DEF Inv, StoreInv, UndoInv, KeptInv
  <2>2. \A id : SameTask(Materialize(baseline, log), Materialize(<< >>, kept), id)
    BY <2>1, KeptTellsAll
  <2> QED BY <2>2, SameContents DEF State
<1> QED BY <1>1, UndoAlways, PTL

\* The state that undo shows before it asks (plan) is the one its log replays to, for
\* the tasks it is about, and it moves no other task (scope_to_tasks).
THEOREM PreviewsAreHonest == OnlyOriginals => (Spec => []PreviewIsHonest)
<1>1. Inv /\ UndoInv => PreviewIsHonest
  <2> SUFFICES ASSUME Inv, UndoInv, pending.outcome = "plan", ~ pending.stale,
                      NEW new, new = Materialize(baseline, pending.log),
                      NEW ids, ids = {log[i].id : i \in {j \in DOMAIN log : log[j].seq \in pending.undone}}
               PROVE  /\ muddled = "no" => \A id \in ids \ {log[i].id : i \in Dangling(log)} :
                                              At(new, id) = At(pending.after, id)
                      /\ \A id \in (DOMAIN new \cup DOMAIN State) \ ids : At(new, id) = At(State, id)
    BY DEF PreviewIsHonest
  <2>1. PICK b, l, k, p : b = baseline /\ l = log /\ k = kept /\ p = pending
    OBVIOUS
  <2>2. IsStored(b) /\ IsHistory(l) /\ IsSettled(b) /\ (muddled = "no" => KeptAs(b, l, k))
    BY <2>1 DEF Inv, StoreInv, UndoInv, KeptInv
  <2>3. PICK targets, cut : AreTargets(l, targets, cut) /\ IsPlanFor(p, b, l, targets, cut)
    <3>1. pending.stale = FALSE
      BY DEF Inv, PlanInv
    <3> QED BY <2>1, <3>1 DEF UndoInv, PreviewInv, HasPlan
  <2>4. ids = TaskIds(l, targets)
    <3>1. IsLog(l) /\ DOMAIN l = 1..Len(l)
      BY <2>2, LogBasics DEF IsHistory
    <3>2. p.undone = {l[i].seq : i \in targets} /\ \A i \in targets : i \in 1..Len(l)
      BY <2>3 DEF IsPlanFor, AreTargets
    <3>3. \A j \in 1..Len(l) : l[j].seq \in p.undone <=> j \in targets
      BY <3>1, <3>2, SeqsDiffer
    <3>4. {j \in DOMAIN l : l[j].seq \in p.undone} = targets
      BY <3>1, <3>2, <3>3
    <3> QED BY <2>1, <3>4 DEF TaskIds
  <2>5. ASSUME muddled = "no", NEW id \in ids \ {l[i].id : i \in Dangling(l)}
        PROVE  At(new, id) = At(p.after, id)
    <3>1. id \in TaskIds(l, targets) /\ Fresh(l, id, 0)
      BY <2>2, <2>4, <2>5, ClearTask
    <3>2. SameTask(Materialize(b, p.log), p.after, id)
      BY <2>2, <2>3, <2>5, <3>1, PreviewTells
    <3> QED BY <2>1, <3>2, SameAt
  <2>6. ASSUME NEW id, id \notin ids PROVE At(new, id) = At(State, id)
    <3>1. SameTask(Materialize(b, p.log), Materialize(b, l), id)
      BY <2>2, <2>3, <2>4, <2>6, UndoTouchesTargets
    <3>2. SameTask(new, State, id)
      BY <2>1, <3>1 DEF State
    <3> QED BY <3>2, SameAt
  <2> QED BY <2>1, <2>5, <2>6
<1> QED BY <1>1, UndoAlways, PTL

----------------------------------------------------------------------------
(* The names known.                                                        *)

\* An event gives a task no field but those of its payload.
LEMMA FieldsGiven ==
    ASSUME NEW fields, NEW e, NEW k, k \in DOMAIN FieldsAfter(fields, e)
    PROVE  k \in DOMAIN fields \/ (CarriesFields(e) /\ k \in DOMAIN e.payload)
<1>1. CASE e.op \in {"Create", "Update"}
  <2> DEFINE unset == {x \in DOMAIN e.payload : e.payload[x] = Null}
  <2>1. FieldsAfter(fields, e) = Over(Without(e.payload, unset), Without(fields, unset))
    BY <1>1 DEF FieldsAfter, ApplySet
  <2> HIDE DEF unset
  <2>2. k \in DOMAIN Without(e.payload, unset) \/ k \in DOMAIN Without(fields, unset)
    BY <2>1, Overridden
  <2> QED BY <1>1, <2>2, Remains DEF CarriesFields
<1>2. CASE e.op = "Append"
  <2> DEFINE added == {x \in DOMAIN e.payload : e.payload[x] # Null}
             f == [x \in added |-> AppendText(Value(fields, x), e.payload[x])]
  <2>1. FieldsAfter(fields, e) = Over(f, fields)
    BY <1>2 DEF FieldsAfter, ApplyAppend
  <2>2. DOMAIN f \subseteq DOMAIN e.payload
    OBVIOUS
  <2> HIDE DEF f
  <2> QED BY <1>2, <2>1, <2>2, Overridden DEF CarriesFields
<1>3. CASE e.op \in {"Add", "Remove"}
  <2> DEFINE f == [x \in DOMAIN e.payload |->
                      Accumulated(Value(fields, x), e.payload[x], e.op = "Add")]
             unset == {x \in DOMAIN f : f[x] = Null}
  <2>1. FieldsAfter(fields, e) = Over(Without(f, unset), fields)
    BY <1>3 DEF FieldsAfter, ApplyAccumulate
  <2>2. DOMAIN f = DOMAIN e.payload
    OBVIOUS
  <2> HIDE DEF f, unset
  <2>3. k \in DOMAIN Without(f, unset) \/ k \in DOMAIN fields
    BY <2>1, Overridden
  <2> QED BY <1>3, <2>2, <2>3, Remains DEF CarriesFields
<1>4. CASE e.op \notin {"Create", "Update", "Append", "Add", "Remove"}
  BY <1>4 DEF FieldsAfter
<1> QED BY <1>1, <1>2, <1>3, <1>4

\* What a task uses after an event, some task used before it or the event wrote.
LEMMA ApplyUses ==
    ASSUME NEW state, AllTasks(state), NEW e, e.op \in EventOps,
           NEW k \in UsedFields(Apply(state, e))
    PROVE  k \in UsedFields(state) \/ (CarriesFields(e) /\ k \in DOMAIN e.payload)
<1> DEFINE after == Apply(state, e)
<1>1. PICK id \in DOMAIN after : k \in DOMAIN after[id].fields
  BY DEF UsedFields
<1>2. CASE id # e.id
  BY <1>1, <1>2, ApplyFrame DEF UsedFields
<1>3. CASE id = e.id
  <2> DEFINE t == Before(state, e)
  <2>1. e.op # "Delete" /\ after[id] = Touched(t, e)
    BY <1>1, <1>3, ApplyFrame
  <2>2. /\ IsTask(t)
        /\ \A x \in DOMAIN t.fields : x \in UsedFields(state)
    <3>1. CASE e.id \in DOMAIN state
      BY <3>1 DEF Before, AllTasks, UsedFields
    <3>2. CASE e.id \notin DOMAIN state
      BY <3>2 DEF Before, IsTask, NewTask
    <3> QED BY <3>1, <3>2
  <2> HIDE DEF t
  <2>3. Touched(t, e).fields = FieldsAfter(t.fields, e)
    BY <2>1, <2>2, TouchedFields
  <2>4. k \in DOMAIN t.fields \/ (CarriesFields(e) /\ k \in DOMAIN e.payload)
    BY <1>1, <2>1, <2>3, FieldsGiven
  <2> QED BY <2>2, <2>4
<1> QED BY <1>2, <1>3

\* What a task uses was used in the baseline or written by the log.
LEMMA UsedWasWritten ==
    ASSUME NEW base, AllTasks(base), NEW events, IsEvents(events)
    PROVE  UsedFields(Materialize(base, events)) \subseteq UsedFields(base) \cup PayloadFields(events)
<1>1. PICK n \in Nat : n = Len(events)
  BY SeqBasics DEF IsEvents
<1>2. PICK f : IsRun(f, base, events) /\ Materialize(base, events) = f[n]
  BY <1>1, MaterializeIsRun DEF IsEvents
<1> DEFINE known == UsedFields(base) \cup PayloadFields(events)
           G == {k \in 0..n : AllTasks(f[k]) /\ UsedFields(f[k]) \subseteq known}
<1>3. 0 \in G
  BY <1>2 DEF IsRun
<1>4. ASSUME NEW k \in 1..n, k - 1 \in G PROVE k \in G
  <2>1. f[k] = Apply(f[k - 1], events[k]) /\ AllTasks(f[k - 1])
    BY <1>1, <1>2, <1>4, AppliedIsApply DEF IsRun
  <2>2. events[k].op \in EventOps /\ k \in DOMAIN events
    BY <1>1, SeqBasics DEF IsEvents
  <2>3. AllTasks(f[k])
    BY <2>1, <2>2, ApplyKeepsTasks
  <2>4. ASSUME NEW x \in UsedFields(f[k]) PROVE x \in known
    <3>1. x \in UsedFields(f[k - 1]) \/ (CarriesFields(events[k]) /\ x \in DOMAIN events[k].payload)
      BY <2>1, <2>2, <2>4, ApplyUses
    <3>2. (CarriesFields(events[k]) /\ x \in DOMAIN events[k].payload) => x \in PayloadFields(events)
      BY <2>2 DEF PayloadFields
    <3> QED BY <1>4, <3>1, <3>2
  <2> QED BY <2>3, <2>4
<1> HIDE DEF G
<1>5. n \in 0..n /\ \A k \in 0..n : k \in G
  BY <1>3, <1>4, UpTo
<1> QED BY <1>2, <1>5 DEF G

\* A log that goes on wrote what the log did.
LEMMA MoreIsWritten ==
    ASSUME NEW events, IsSeq(events), NEW longer, IsSeq(longer), IsPrefix(events, longer)
    PROVE  PayloadFields(events) \subseteq PayloadFields(longer)
<1>1. PICK n \in Nat : n = Len(events) /\ DOMAIN events = 1..n
  BY SeqBasics
<1>2. PICK m \in Nat : m = Len(longer) /\ DOMAIN longer = 1..m
  BY SeqBasics
<1>3. n <= m /\ events = SubSeq(longer, 1, n)
  <2>1. SubSeq(events, 1, n) = events
    BY <1>1, WholePrefix
  <2>2. n <= m /\ SubSeq(events, 1, n) = SubSeq(longer, 1, n)
    BY <1>1, <1>2 DEF IsPrefix
  <2> QED BY <2>1, <2>2
<1>4. \A i \in 1..n : events[i] = longer[i] /\ i \in 1..m
  BY <1>1, <1>2, <1>3, SeqPrefix
<1> QED BY <1>1, <1>2, <1>4 DEF PayloadFields

\* However writes, commits, compactions and undos follow each other, a step that adds to
\* the log leaves every name known, but for those only folded events had used.
THEOREM NamesStayKnown == Spec => WritesForgetNoName
<1> DEFINE Kept == log' # log /\ IsPrefix(log, log') /\ baseline' = baseline =>
                      Vocabulary(State, log).columns
                          \subseteq Vocabulary(State', log').columns
                                       \cup {DisplayName(k) : k \in UsedFields(baseline)}
<1>1. Inv /\ Inv' => Kept
  <2> SUFFICES ASSUME Inv, Inv', IsPrefix(log, log'), baseline' = baseline,
                      NEW name \in Vocabulary(State, log).columns,
                      name \notin {DisplayName(k) : k \in UsedFields(baseline)}
               PROVE  name \in Vocabulary(State', log').columns
    OBVIOUS
  <2>1. PICK longer : longer = log'
    OBVIOUS
  <2>2. IsSeq(log) /\ IsEvents(log) /\ AllTasks(baseline)
    BY DEF Inv, StoreInv, IsHistory, IsEvents, IsStored
  <2>3. IsSeq(longer)
    BY <2>1 DEF Inv, StoreInv, IsHistory, IsEvents
  <2>4. PayloadFields(log) \subseteq PayloadFields(longer)
    BY <2>1, <2>2, <2>3, MoreIsWritten
  <2>5. UsedFields(State) \subseteq UsedFields(baseline) \cup PayloadFields(log)
    BY <2>2, UsedWasWritten DEF State
  <2>6. PICK after : after = State'
    OBVIOUS
  <2> DEFINE config == VocabularyFromConfig.columns
             Columns(state, events) ==
                 config \cup {DisplayName(k) : k \in EditableFields(state)
                                                  \cup (PayloadFields(events) \ ReservedNames)}
  <2>7. \A state, events : Vocabulary(state, events).columns = Columns(state, events)
    BY DEF Vocabulary, VocabularyFromConfig
  <2>8. name \in config \/ \E k \in EditableFields(State) \cup (PayloadFields(log) \ ReservedNames) :
                               name = DisplayName(k)
    BY <2>7
  <2>9. ASSUME NEW k \in EditableFields(State) \cup (PayloadFields(log) \ ReservedNames),
               name = DisplayName(k)
        PROVE  k \in EditableFields(after) \cup (PayloadFields(longer) \ ReservedNames)
    <3>1. k \notin UsedFields(baseline)
      BY <2>9
    <3> QED BY <2>4, <2>5, <2>9, <3>1 DEF EditableFields
  <2>10. name \in Columns(after, longer)
    BY <2>8, <2>9
  <2>11. name \in Vocabulary(after, longer).columns
    BY <2>7, <2>10
  <2> QED BY <2>1, <2>6, <2>11
<1>2. Inv /\ Inv' => [Kept]_vars
  BY <1>1
<1> QED BY <1>2, InvAlways, PTL DEF Spec, WritesForgetNoName

----------------------------------------------------------------------------
(* What a cursor stands for.                                               *)

\* The ends of a log.
LEMMA LogEnds ==
    ASSUME NEW events, IsLog(events)
    PROVE  /\ Len(events) = 0 =>
                 /\ events = << >> /\ Cursor(events) = 0 /\ Watermark(events) = 0
                 /\ NextSeq(events) = 1
           /\ Len(events) # 0 =>
                 /\ Len(events) \in 1..Len(events) /\ 1 \in 1..Len(events)
                 /\ Cursor(events) = events[Len(events)].seq
                 /\ Watermark(events) = events[1].seq - 1
           /\ Cursor(events) \in Nat /\ NextSeq(events) = Cursor(events) + 1
           /\ \A i \in 1..Len(events) : /\ events[i].seq \in Nat
                                        /\ events[1].seq <= events[i].seq
                                        /\ events[i].seq <= Cursor(events)
<1>1. /\ Len(events) \in Nat
      /\ \A i \in 1..Len(events) : events[i].seq \in Nat
      /\ \A i, j \in 1..Len(events) : i < j => events[i].seq < events[j].seq
  BY LogBasics
<1>2. CASE Len(events) = 0
  <2>1. events = << >> /\ NextSeq(events) = 1
    BY <1>2, NoSeqs
  <2>2. Cursor(events) = 0 /\ Watermark(events) = 0
    BY <2>1 DEF Cursor, Watermark
  <2> QED BY <1>2, <2>1, <2>2
<1>3. CASE Len(events) # 0
  <2>1. /\ Len(events) \in 1..Len(events)
        /\ NextSeq(events) = events[Len(events)].seq + 1
        /\ \A i \in 1..Len(events) : events[i].seq <= events[Len(events)].seq
    BY <1>3, NextSeqFollows
  <2>2. events # << >>
    BY <1>3, SeqEmpty
  <2>3. Cursor(events) = events[Len(events)].seq /\ Watermark(events) = events[1].seq - 1
    BY <2>2 DEF Cursor, Watermark
  <2>4. 1 \in 1..Len(events)
    BY <1>1, <1>3
  <2>5. ASSUME NEW i \in 1..Len(events) PROVE events[1].seq <= events[i].seq
    <3>1. i = 1 \/ 1 < i
      OBVIOUS
    <3> QED BY <1>1, <2>4, <3>1
  <2> QED BY <1>1, <1>3, <2>1, <2>3, <2>4, <2>5
<1> QED BY <1>2, <1>3

\* What a cursor says of the log it is held against: its seq is not a future one, and
\* unless events past it were folded, the state that it stands for is that of the
\* events up to it, the last of which has its seq.
Stands(base, events, since, state) ==
    /\ since \in Nat /\ since < NextSeq(events)
    /\ since >= Watermark(events) =>
          \E m \in 0..Len(events) :
              /\ \A i \in 1..Len(events) : i <= m <=> events[i].seq <= since
              /\ m # 0 => events[m].seq = since
              /\ state = Materialize(base, SubSeq(events, 1, m))

\* The newest seq stands for the present state.
LEMMA StandsAtEnd ==
    ASSUME NEW base, NEW events, IsLog(events)
    PROVE  Stands(base, events, Cursor(events), Materialize(base, events))
<1>1. IsSeq(events) /\ Len(events) \in Nat /\ Len(events) \in 0..Len(events)
  BY LogBasics
<1>2. SubSeq(events, 1, Len(events)) = events
  BY <1>1, WholePrefix
<1>3. /\ Cursor(events) \in Nat /\ NextSeq(events) = Cursor(events) + 1
      /\ \A i \in 1..Len(events) : events[i].seq <= Cursor(events)
      /\ Len(events) # 0 => Cursor(events) = events[Len(events)].seq
  BY LogEnds
<1>4. \A i \in 1..Len(events) : i <= Len(events) <=> events[i].seq <= Cursor(events)
  BY <1>1, <1>3
<1>5. Cursor(events) < NextSeq(events)
  BY <1>3
<1> QED BY <1>1, <1>2, <1>3, <1>4, <1>5 DEF Stands

\* What is appended leaves the cursor standing for what it stood for.
LEMMA StandsLonger ==
    ASSUME NEW base, NEW events, IsLog(events), NEW more, IsSeq(more),
           \A i \in 1..Len(more) : more[i].seq = NextSeq(events) + i - 1,
           NEW all, all = events \o more, IsLog(all),
           NEW since, NEW state, Stands(base, events, since, state)
    PROVE  Stands(base, all, since, state)
<1>1. PICK n \in Nat : n = Len(events)
  BY LogBasics
<1>2. PICK k \in Nat : k = Len(more)
  BY SeqBasics
<1>3. IsSeq(events) /\ IsSeq(all)
  BY LogBasics
<1>4. /\ Len(all) = n + k
      /\ \A i \in 1..n : all[i] = events[i]
      /\ \A i \in 1..k : all[n + i] = more[i]
  BY <1>1, <1>2, <1>3, SeqConcat
<1>5. CASE k = 0
  <2>1. Len(all) = Len(events) /\ \A i \in 1..Len(all) : all[i] = events[i]
    BY <1>1, <1>4, <1>5
  <2>2. all = events
    BY <1>3, <2>1, SameElements
  <2> QED BY <2>2
<1>6. CASE k # 0
  <2>1. PICK next \in Nat : next = NextSeq(events) /\ since \in Nat /\ since < next
    BY LogEnds DEF Stands
  <2>2. ASSUME NEW i \in 1..(n + k), i \notin 1..n PROVE since < all[i].seq
    <3>1. PICK d \in 1..k : d = i - n /\ n + d = i
      <4>1. i - n \in 1..k /\ n + (i - n) = i
        BY <2>2
      <4> QED BY <4>1
    <3>2. all[i].seq = next + d - 1
      BY <1>2, <1>4, <2>1, <3>1
    <3> QED BY ONLY <2>1, <3>1, <3>2
  <2>3. since < NextSeq(all)
    <3>1. n + 1 \in 1..(n + k) /\ n + 1 \notin 1..n
      BY <1>6
    <3>2. PICK seq \in Nat : seq = all[n + 1].seq
      BY <1>4, <3>1, LogBasics
    <3>3. PICK last \in Nat : last = NextSeq(all)
      BY NextSeqIsNext
    <3>4. seq < last
      BY <1>4, <3>1, <3>2, <3>3, NextSeqIsNext
    <3>5. since < seq
      BY <2>2, <3>1, <3>2
    <3>6. since < last
      BY <2>1, <3>4, <3>5
    <3> QED BY <3>3, <3>6
  <2>4. Watermark(all) = Watermark(events)
    <3>1. Watermark(all) = all[1].seq - 1
      <4>1. Len(all) # 0
        BY <1>4, <1>6
      <4> QED BY <4>1, LogEnds
    <3>2. CASE n = 0
      <4>1. Watermark(events) = 0 /\ next = 1
        BY <1>1, <2>1, <3>2, LogEnds
      <4>2. 1 \in 1..k
        BY <1>6
      <4>3. all[n + 1] = more[1] /\ n + 1 = 1
        BY <1>4, <3>2, <4>2
      <4>4. all[1].seq = next + 1 - 1
        BY <1>2, <2>1, <4>2, <4>3
      <4> QED BY <3>1, <4>1, <4>4
    <3>3. CASE n # 0
      <4>1. Watermark(events) = events[1].seq - 1 /\ 1 \in 1..n
        BY <1>1, <3>3, LogEnds
      <4> QED BY <1>4, <3>1, <4>1
    <3> QED BY <3>2, <3>3
  <2>5. ASSUME since >= Watermark(events)
        PROVE  \E m \in 0..Len(all) :
                  /\ \A i \in 1..Len(all) : i <= m <=> all[i].seq <= since
                  /\ m # 0 => all[m].seq = since
                  /\ state = Materialize(base, SubSeq(all, 1, m))
    <3>1. PICK m \in 0..n :
              /\ \A i \in 1..n : i <= m <=> events[i].seq <= since
              /\ m # 0 => events[m].seq = since
              /\ state = Materialize(base, SubSeq(events, 1, m))
      BY <1>1, <2>5 DEF Stands
    <3>2. ASSUME NEW i \in 1..(n + k) PROVE i <= m <=> all[i].seq <= since
      <4>1. CASE i \in 1..n
        BY <1>4, <3>1, <4>1
      <4>2. CASE i \notin 1..n
        <5>1. ~ (i <= m)
          BY <4>2
        <5>2. PICK seq \in Nat : seq = all[i].seq
          BY <1>4, LogBasics
        <5>3. since < seq
          BY <2>2, <4>2, <5>2
        <5>4. ~ (seq <= since)
          BY <2>1, <5>3
        <5> QED BY <5>1, <5>2, <5>4
      <4> QED BY <4>1, <4>2
    <3>3. m # 0 => all[m].seq = since
      BY <1>4, <3>1
    <3>4. SubSeq(all, 1, m) = SubSeq(events, 1, m)
      BY <1>1, <1>3, <1>4, SamePrefix
    <3>5. m \in 0..(n + k)
      OBVIOUS
    <3> QED BY <1>4, <3>1, <3>2, <3>3, <3>4, <3>5
  <2> QED BY <2>1, <2>3, <2>4, <2>5 DEF Stands
<1> QED BY <1>5, <1>6

\* So does what is cut off, if the cursor had not come to it.
LEMMA StandsCut ==
    ASSUME NEW base, NEW events, IsLog(events), NEW cut \in 0..Len(events),
           NEW since, NEW state, Stands(base, events, since, state),
           \A i \in 1..Len(events) : events[i].seq <= since => i <= cut,
           cut = 0 => since = 0 /\ Watermark(events) = 0
    PROVE  Stands(base, SubSeq(events, 1, cut), since, state)
<1> DEFINE prefix == SubSeq(events, 1, cut)
<1>1. PICK n \in Nat : n = Len(events) /\ IsSeq(events)
  BY LogBasics
<1>2. IsLog(prefix) /\ Len(prefix) = cut /\ \A i \in 1..cut : prefix[i] = events[i]
  BY <1>1, PrefixLog, SeqPrefix
<1>3. \A m \in 0..cut : SubSeq(prefix, 1, m) = SubSeq(events, 1, m)
  <2>1. IsSeq(prefix)
    BY <1>2, LogBasics
  <2> HIDE DEF prefix
  <2> QED BY <1>1, <1>2, <2>1, SamePrefix
<1> HIDE DEF prefix
<1>4. since \in Nat
  BY DEF Stands
<1>5. ASSUME since >= Watermark(events)
      PROVE  \E m \in 0..cut :
                /\ \A i \in 1..cut : i <= m <=> prefix[i].seq <= since
                /\ m # 0 => prefix[m].seq = since
                /\ state = Materialize(base, SubSeq(prefix, 1, m))
  <2>1. PICK m \in 0..n :
            /\ \A i \in 1..n : i <= m <=> events[i].seq <= since
            /\ m # 0 => events[m].seq = since
            /\ state = Materialize(base, SubSeq(events, 1, m))
    BY <1>1, <1>5 DEF Stands
  <2>2. m \in 0..cut
    <3>1. CASE m # 0
      <4>1. m \in 1..n /\ events[m].seq <= since
        BY <2>1, <3>1, <1>4
      <4>2. m <= cut
        BY <1>1, <4>1
      <4> QED BY <4>1, <4>2
    <3> QED BY <3>1
  <2>3. \A i \in 1..cut : i <= m <=> prefix[i].seq <= since
    BY <1>1, <1>2, <2>1
  <2>4. m # 0 => prefix[m].seq = since
    BY <1>2, <2>1, <2>2
  <2>5. state = Materialize(base, SubSeq(prefix, 1, m))
    BY <1>3, <2>1, <2>2
  <2> QED BY <2>2, <2>3, <2>4, <2>5
<1>6. ASSUME cut = 0 PROVE Stands(base, prefix, since, state)
  <2>1. NextSeq(prefix) = 1 /\ Watermark(prefix) = 0
    BY <1>2, <1>6, LogEnds
  <2>2. since < NextSeq(prefix) /\ since >= Watermark(events)
    BY <1>6, <2>1
  <2> QED BY <1>2, <1>4, <1>5, <2>2 DEF Stands
<1>7. ASSUME cut # 0 PROVE Stands(base, prefix, since, state)
  <2>1. Watermark(prefix) = Watermark(events)
    <3>1. 1 \in 1..cut /\ n # 0
      BY <1>1, <1>7
    <3> QED BY <1>1, <1>2, <1>7, <3>1, LogEnds
  <2>2. PICK first \in Nat : first = prefix[1].seq /\ Watermark(prefix) = first - 1
    <3>1. 1 \in 1..cut
      BY <1>7
    <3> QED BY <1>2, <1>7, <3>1, LogEnds
  <2>3. PICK next \in Nat : next = NextSeq(prefix) /\ \A i \in 1..cut : prefix[i].seq < next
    BY <1>2, NextSeqIsNext
  <2>4. first < next /\ 1 \in 1..cut
    BY <1>7, <2>2, <2>3
  <2>5. since < next
    <3>1. CASE ~ (since >= Watermark(events))
      BY <1>4, <2>1, <2>2, <2>4, <3>1
    <3>2. CASE since >= Watermark(events)
      <4>1. PICK m \in 0..cut : /\ \A i \in 1..cut : i <= m <=> prefix[i].seq <= since
                                /\ m # 0 => prefix[m].seq = since
        BY <1>5, <3>2
      <4>2. CASE m = 0
        <5>1. ~ (first <= since)
          BY <2>2, <2>4, <4>1, <4>2
        <5> QED BY <1>4, <2>4, <5>1
      <4>3. CASE m # 0
        <5>1. m \in 1..cut
          BY <4>3
        <5> QED BY <2>3, <4>1, <4>3, <5>1
      <4> QED BY <4>2, <4>3
    <3> QED BY <3>1, <3>2
  <2> QED BY <1>2, <1>4, <1>5, <2>1, <2>3, <2>5 DEF Stands
<1>8. Stands(base, prefix, since, state)
  BY <1>6, <1>7
<1> QED BY <1>8 DEF prefix

\* And so does what is folded.
LEMMA StandsFolded ==
    ASSUME NEW base, NEW events, IsLog(events), NEW n \in 1..Len(events), n < Len(events),
           NEW since, NEW state, Stands(base, events, since, state)
    PROVE  Stands(Materialize(base, SubSeq(events, 1, n)),
                  SubSeq(events, n + 1, Len(events)), since, state)
<1> DEFINE folded == Materialize(base, SubSeq(events, 1, n))
           after  == SubSeq(events, n + 1, Len(events))
<1>1. PICK len \in Nat : len = Len(events) /\ IsSeq(events)
  BY LogBasics
<1>2. PICK k \in Nat \ {0} : k = len - n
  <2>1. len - n \in Nat \ {0}
    BY <1>1
  <2> QED BY <2>1
<1>3. n \in 0..len
  BY <1>1
<1>4. IsLog(after) /\ Len(after) = k /\ \A i \in 1..k : after[i] = events[n + i]
  BY <1>1, <1>2, <1>3, SuffixLog, SeqSuffix
<1> HIDE DEF after, folded
<1>5. since \in Nat /\ since < NextSeq(events)
  BY DEF Stands
<1>6. NextSeq(after) = NextSeq(events)
  <2>1. k \in 1..k /\ n + k = len /\ len # 0
    BY <1>1, <1>2
  <2>2. Cursor(after) = after[k].seq /\ Cursor(events) = events[len].seq
    BY <1>1, <1>4, <2>1, LogEnds
  <2>3. after[k] = events[len]
    BY <1>4, <2>1
  <2> QED BY <1>4, <2>2, <2>3, LogEnds
<1>7. PICK seq \in Nat : seq = events[n + 1].seq /\ Watermark(after) = seq - 1 /\ n + 1 \in 1..len
  <2>1. 1 \in 1..k /\ k # 0 /\ n + 1 \in 1..len
    BY <1>1, <1>2
  <2> QED BY <1>1, <1>4, <2>1, LogEnds
<1>8. ASSUME since >= Watermark(after)
      PROVE  \E m \in 0..k :
                /\ \A i \in 1..k : i <= m <=> after[i].seq <= since
                /\ m # 0 => after[m].seq = since
                /\ state = Materialize(folded, SubSeq(after, 1, m))
  <2>1. since >= Watermark(events)
    <3>1. PICK first \in Nat : Watermark(events) = first - 1 /\ first <= seq
      BY <1>1, <1>2, <1>7, LogEnds, SMTT(30)
    <3> QED BY <1>5, <1>7, <1>8, <3>1
  <2>2. PICK m \in 0..len :
            /\ \A i \in 1..len : i <= m <=> events[i].seq <= since
            /\ m # 0 => events[m].seq = since
            /\ state = Materialize(base, SubSeq(events, 1, m))
    BY <1>1, <2>1 DEF Stands
  <2>3. n <= m
    <3>1. PICK last \in Nat : last = events[n].seq /\ last < seq
      <4>1. n \in 1..len /\ n < n + 1
        BY <1>1
      <4> QED BY <1>1, <1>7, <4>1, LogBasics
    <3>2. last <= since
      BY <1>5, <1>7, <1>8, <3>1
    <3> QED BY <1>1, <2>2, <3>1, <3>2
  <2>4. PICK p \in 0..k : p = m - n /\ m = n + p
    <3>1. m - n \in 0..k /\ m = n + (m - n)
      BY <1>1, <1>2, <2>3
    <3> QED BY <3>1
  <2>5. ASSUME NEW i \in 1..k PROVE i <= p <=> after[i].seq <= since
    <3>1. n + i \in 1..len /\ (i <= p <=> n + i <= m)
      BY <1>1, <1>2, <2>4
    <3> QED BY <1>4, <2>2, <3>1
  <2>6. p # 0 => after[p].seq = since
    <3>1. p # 0 => p \in 1..k /\ m # 0
      BY <2>4
    <3> QED BY <1>4, <2>2, <2>4, <3>1
  <2>7. state = Materialize(folded, SubSeq(after, 1, p))
    <3> DEFINE first == SubSeq(events, 1, m)
               rest  == SubSeq(first, n + 1, m)
    <3>1. IsSeq(first) /\ Len(first) = m /\ \A i \in 1..m : first[i] = events[i]
      BY <1>1, SeqPrefix
    <3> HIDE DEF first
    <3>2. n \in 0..Len(first)
      BY <2>3, <3>1
    <3>3. Materialize(Materialize(base, SubSeq(first, 1, n)), rest) = Materialize(base, first)
      BY <3>1, <3>2, FoldingChangesNothing
    <3>4. SubSeq(first, 1, n) = SubSeq(events, 1, n)
      <4>1. n \in Nat /\ n <= Len(first) /\ n <= Len(events) /\ \A i \in 1..n : first[i] = events[i]
        BY <1>1, <2>3, <3>1
      <4> QED BY <1>1, <3>1, <4>1, SamePrefix
    <3>5. rest = SubSeq(after, 1, p)
      <4>1. IsSeq(rest) /\ Len(rest) = p /\ \A i \in 1..p : rest[i] = first[n + i]
        <5>1. m - n = p
          BY <2>4
        <5> QED BY <3>1, <3>2, <5>1, SeqSuffix
      <4>2. IsSeq(after) /\ p \in 0..Len(after)
        BY <1>4, LogBasics
      <4>3. /\ IsSeq(SubSeq(after, 1, p)) /\ Len(SubSeq(after, 1, p)) = p
            /\ \A i \in 1..p : SubSeq(after, 1, p)[i] = after[i]
        BY <4>2, SeqPrefix
      <4>4. \A i \in 1..p : i \in 1..k /\ n + i \in 1..m
        BY <2>4
      <4>5. ASSUME NEW i \in 1..p PROVE rest[i] = SubSeq(after, 1, p)[i]
        <5>1. rest[i] = first[n + i] /\ first[n + i] = events[n + i]
          BY <3>1, <4>1, <4>4
        <5>2. SubSeq(after, 1, p)[i] = after[i] /\ after[i] = events[n + i]
          BY <1>4, <4>3, <4>4
        <5> QED BY <5>1, <5>2
      <4> HIDE DEF rest
      <4> QED BY <4>1, <4>3, <4>5, SameElements
    <3> QED BY <2>2, <3>3, <3>4, <3>5 DEF first, folded
  <2> QED BY <2>5, <2>6, <2>7
<1>9. Stands(folded, after, since, state)
  BY <1>4, <1>5, <1>6, <1>8 DEF Stands
<1> QED BY <1>9 DEF folded, after
----------------------------------------------------------------------------
(* What a poll reports.                                                    *)

\* The two filters agree, unless a cycle makes one refuse.
LEMMA FilterAgrees ==
    ASSUME NEW state, IsFiniteSet(DOMAIN state), NEW q,
           q.ready => ValidateAndSort(state) # {}, NEW id
    PROVE  id \in FilterIds(state, q).ids <=> FilterMatches(state, id, q)
<1> DEFINE S == DOMAIN state
           orders == ValidateAndSort(state)
           good == {x \in S : IsReady(state, x)}
           ready == UNION {Range(order) : order \in ReadyTasks(state)}
<1>1. ReadyTasks(state) = {Picked(order, {i \in DOMAIN order : order[i] \in good}) : order \in orders}
  <2>1. ASSUME NEW order \in orders
        PROVE  {i \in DOMAIN order : IsReady(state, order[i])}
                   = {i \in DOMAIN order : order[i] \in good}
    <3>1. order \in SetToSeqs(S)
      BY <2>1 DEF ValidateAndSort, TopologicalOrders
    <3>2. \A i \in DOMAIN order : order[i] \in S
      BY <3>1, OrderHasAll, SeqBasics
    <3> QED BY <3>2
  <2> QED BY <2>1 DEF ReadyTasks
<1>2. /\ id \in ready => id \in S /\ id \in good
      /\ id \in S /\ id \in good /\ orders # {} => id \in ready
  <2>1. orders \subseteq SetToSeqs(S)
    BY DEF ValidateAndSort, TopologicalOrders
  <2>0. IsFiniteSet(S)
    OBVIOUS
  <2> HIDE DEF orders, S, good
  <2>2. PICK s : s = PicksOf(orders, good)
    OBVIOUS
  <2>3. /\ id \in UNION {Range(p) : p \in s} => id \in S /\ id \in good
        /\ id \in S /\ id \in good /\ orders # {} => id \in UNION {Range(p) : p \in s}
    BY <2>0, <2>1, <2>2, OrderedPicks
  <2>4. s = ReadyTasks(state)
    BY <1>1, <2>2 DEF PicksOf
  <2> QED BY <2>3, <2>4
<1>3. q.ready => (id \in ready <=> id \in DOMAIN state /\ IsReady(state, id))
  BY <1>2
<1> HIDE DEF ready
<1>4. FilterIds(state, q).ids =
          {x \in DOMAIN state : /\ q.open  => x \in OpenTasks(state)
                                /\ q.ready => x \in ready
                                /\ \A c \in CompileCriteria(q) : Matches(state, x, c)}
  BY DEF FilterIds, ready
<1> QED BY <1>3, <1>4 DEF FilterMatches

\* The tasks that matched in either of two states and look different, as they looked in
\* both.
ChangesSeen(old, cur, q) ==
    {u \in {[id |-> id, before |-> Project(old, id, q.columns),
             after |-> Project(cur, id, q.columns)] :
              id \in {t \in DOMAIN old \cup DOMAIN cur :
                        \E state \in {old, cur} : FilterMatches(state, t, q)}} :
        u.before # u.after}

\* A poll between the watermark and the newest seq compares the state of the events up
\* to the cursor with the present one.
LEMMA PollCompares ==
    ASSUME NEW base, NEW events, NEW since, NEW q,
           ~ (since < Watermark(events)), ~ (since >= Cursor(events)),
           NEW old, old = Materialize(base, Picked(events, {i \in DOMAIN events : events[i].seq <= since})),
           NEW cur, cur = Materialize(base, events),
           NEW touched, touched = {events[i].id : i \in {j \in DOMAIN events : events[j].seq > since}}
    PROVE  Poll(base, events, since, q) = UpdatesBetween(old, cur, base, events, touched, q)
<1> DEFINE U(before, after) == UpdatesBetween(before, after, base, events, touched, q)
<1>1. Poll(base, events, since, q) =
          CHOOSE poll \in {U(before, after) : before \in {old}, after \in {cur}} : TRUE
  BY DEF Poll
<1> HIDE DEF U
<1>2. {U(before, after) : before \in {old}, after \in {cur}} = {U(old, cur)}
  OBVIOUS
<1> QED BY <1>1, <1>2 DEF U

\* What a poll that is not refused gives.
LEMMA PolledUpdates ==
    ASSUME NEW old, NEW cur, NEW base, NEW events, NEW touched, NEW q,
           NEW p, p = UpdatesBetween(old, cur, base, events, touched, q)
    PROVE  /\ p.outcome \in {"ok", "refused"}
           /\ p.outcome = "ok" =>
                 /\ q.ready => ValidateAndSort(old) # {} /\ ValidateAndSort(cur) # {}
                 /\ p.cursor = Cursor(events)
                 /\ p.updates =
                      {u \in {[id |-> id, before |-> Project(old, id, q.columns),
                               after |-> Project(cur, id, q.columns)] :
                                id \in {t \in touched : MatchesEitherSide(old, cur, t, q)}} :
                         u.before # u.after}
<1> DEFINE updates ==
               {u \in {[id |-> id, before |-> Project(old, id, q.columns),
                        after |-> Project(cur, id, q.columns)] :
                         id \in {t \in touched : MatchesEitherSide(old, cur, t, q)}} :
                  u.before # u.after}
           sound == NamesKnown(cur, base, events, q)
                    /\ (q.ready => ValidateAndSort(old) # {} /\ ValidateAndSort(cur) # {})
<1>1. p = IF sound THEN Polled("ok", Cursor(events), updates) ELSE Polled("refused", 0, {})
  BY DEF UpdatesBetween
<1>2. sound => (q.ready => ValidateAndSort(old) # {} /\ ValidateAndSort(cur) # {})
  OBVIOUS
<1> HIDE DEF updates, sound
<1>3. /\ p.outcome \in {"ok", "refused"}
      /\ p.outcome = "ok" => sound /\ p.cursor = Cursor(events) /\ p.updates = updates
  BY <1>1 DEF Polled
<1> QED BY <1>2, <1>3 DEF updates

\* From a cursor that stands for a state a poll tells what has changed since.
LEMMA PollTellsChanges ==
    ASSUME NEW base, IsStored(base), NEW events, IsHistory(events), NEW since, NEW old,
           Stands(base, events, since, old), NEW cur, cur = Materialize(base, events),
           NEW q, NEW p, p = Poll(base, events, since, q)
    PROVE  /\ p.outcome = "ok" => p.updates = ChangesSeen(old, cur, q)
           /\ p.outcome = "compacted" => since + 1 < events[1].seq
<1>1. PICK n \in Nat : n = Len(events) /\ IsSeq(events) /\ DOMAIN events = 1..n
  BY LogBasics DEF IsHistory
<1>2. /\ n # 0 => Watermark(events) = events[1].seq - 1 /\ events[1].seq \in Nat
      /\ n = 0 => Watermark(events) = 0
      /\ Cursor(events) \in Nat
      /\ \A i \in 1..n : events[i].seq \in Nat /\ events[i].seq <= Cursor(events)
  BY <1>1, LogEnds DEF IsHistory
<1>3. since \in Nat
  BY DEF Stands
<1>4. CASE since < Watermark(events)
  <2>1. p.outcome = "compacted"
    BY <1>4 DEF Poll, Polled
  <2>2. since + 1 < events[1].seq
    BY <1>2, <1>3, <1>4
  <2> QED BY <2>1, <2>2
<1>5. CASE ~ (since < Watermark(events))
  <2>0. PICK mark \in Int : mark = Watermark(events)
    <3>1. Watermark(events) \in Int
      BY <1>2
    <3> QED BY <3>1
  <2>1. since >= Watermark(events)
    BY <1>3, <1>5, <2>0
  <2>2. PICK m \in 0..n :
            /\ \A i \in 1..n : i <= m <=> events[i].seq <= since
            /\ old = Materialize(base, SubSeq(events, 1, m))
    BY <1>1, <2>1 DEF Stands
  <2>3. CASE since >= Cursor(events)
    <3>1. p.outcome = "ok" /\ p.updates = {}
      BY <1>5, <2>3 DEF Poll, Polled
    <3>2. m = n
      <4>1. ASSUME n # 0 PROVE n <= m
        <5>1. n \in 1..n /\ events[n].seq <= since
          BY <1>2, <1>3, <2>3, <4>1
        <5> QED BY <2>2, <5>1
      <4> QED BY <4>1
    <3>3. old = cur
      BY <1>1, <2>2, <3>2, WholePrefix
    <3>4. ChangesSeen(old, cur, q) = {}
      BY <3>3 DEF ChangesSeen
    <3> QED BY <3>1, <3>4
  <2>4. CASE ~ (since >= Cursor(events))
    <3> DEFINE places == {i \in DOMAIN events : events[i].seq <= since}
               touched == {events[i].id : i \in {j \in DOMAIN events : events[j].seq > since}}
    <3>1. old = Materialize(base, Picked(events, places))
      <4>1. \A i \in 1..Len(events) : i \in places <=> i <= m
        BY <1>1, <2>2
      <4>2. m \in 0..Len(events)
        BY <1>1
      <4> HIDE DEF places
      <4>3. Picked(events, places) = SubSeq(events, 1, m)
        BY <1>1, <4>1, <4>2, PickedPrefix
      <4> QED BY <2>2, <4>3
    <3>2. p = UpdatesBetween(old, cur, base, events, touched, q)
      BY <1>5, <2>4, <3>1, PollCompares
    <3>3. \A id : id \notin touched => \A i \in 1..n : i > m => events[i].id # id
      <4>1. \A i \in 1..n : i > m => events[i].seq > since
        BY <1>2, <1>3, <2>2
      <4> QED BY <1>1, <4>1
    <3> HIDE DEF touched, places
    <3>4. IsFiniteSet(DOMAIN old) /\ IsFiniteSet(DOMAIN cur)
      <4>1. IsEvents(events)
        BY DEF IsHistory
      <4>2. IsEvents(SubSeq(events, 1, m))
        <5>1. /\ IsSeq(SubSeq(events, 1, m)) /\ Len(SubSeq(events, 1, m)) = m
              /\ \A i \in 1..m : SubSeq(events, 1, m)[i] = events[i]
          BY <1>1, SeqPrefix
        <5>2. \A i \in 1..m : i \in 1..n
          OBVIOUS
        <5> QED BY <1>1, <4>1, <5>1, <5>2 DEF IsEvents
      <4> QED BY <2>2, <4>1, <4>2, MaterializeKeepsStored DEF IsStored
    <3>5. ASSUME p.outcome = "ok" PROVE p.updates = ChangesSeen(old, cur, q)
      <4> DEFINE Update(id) == [id |-> id, before |-> Project(old, id, q.columns),
                                after |-> Project(cur, id, q.columns)]
                 Matching(id) == \E state \in {old, cur} : FilterMatches(state, id, q)
                 told == {id \in touched : MatchesEitherSide(old, cur, id, q)}
                 all  == {id \in DOMAIN old \cup DOMAIN cur : Matching(id)}
      <4>1. p.updates = {u \in {Update(id) : id \in told} : u.before # u.after}
        BY <3>2, <3>5, PolledUpdates
      <4>2. q.ready => ValidateAndSort(old) # {} /\ ValidateAndSort(cur) # {}
        BY <3>2, <3>5, PolledUpdates
      <4>3. ChangesSeen(old, cur, q) = {u \in {Update(id) : id \in all} : u.before # u.after}
        BY DEF ChangesSeen
      <4>4. \A id : MatchesEitherSide(old, cur, id, q) <=> Matching(id)
        <5>1. \A id : id \in FilterIds(old, q).ids <=> FilterMatches(old, id, q)
          BY <3>4, <4>2, FilterAgrees
        <5>2. \A id : id \in FilterIds(cur, q).ids <=> FilterMatches(cur, id, q)
          BY <3>4, <4>2, FilterAgrees
        <5> QED BY <5>1, <5>2 DEF MatchesEitherSide
      <4>5. \A id : Matching(id) => id \in DOMAIN old \cup DOMAIN cur
        BY DEF FilterMatches
      <4>6. ASSUME NEW id, id \notin touched PROVE Update(id).before = Update(id).after
        <5>1. /\ id \in DOMAIN old <=> id \in DOMAIN cur
              /\ id \in DOMAIN cur => old[id] = cur[id]
          <6>1. m \in 0..Len(events) /\ \A i \in 1..Len(events) : i > m => events[i].id # id
            BY <1>1, <3>3, <4>6
          <6> QED BY <1>1, <2>2, <6>1, UnnamedStay
        <5>2. Project(old, id, q.columns) = Project(cur, id, q.columns)
          BY <5>1 DEF Project
        <5> QED BY <5>2
      <4> HIDE DEF Update, Matching
      <4> QED BY <4>1, <4>3, <4>4, <4>5, <4>6
    <3>6. p.outcome \in {"ok", "refused"}
      BY <3>2, PolledUpdates
    <3> QED BY <3>5, <3>6
  <2> QED BY <2>3, <2>4
<1> QED BY <1>4, <1>5

----------------------------------------------------------------------------
(* What the watch's cursor stands for, over time.                          *)

\* Unless a stale plan was confirmed or seqs the watch had seen were taken back, its
\* cursor stands for the state it was told.
Watching == Stands(baseline, log, cursor, seen)

WatchInv ==
    /\ overtaken \in BOOLEAN
    /\ muddled # "stale" /\ overtaken = FALSE => Watching

LEMMA WatchInit == Init => WatchInv
<1> SUFFICES ASSUME Init PROVE WatchInv
  OBVIOUS
<1>1. IsLog(Genesis)
  <2>1. IsHistory(log)
    BY InvInit DEF Inv, StoreInv
  <2> QED BY <2>1 DEF Init, IsHistory
<1>2. Stands(<< >>, Genesis, Cursor(Genesis), Materialize(<< >>, Genesis))
  BY <1>1, StandsAtEnd
<1>3. baseline = << >> /\ log = Genesis /\ cursor = Cursor(Genesis)
      /\ seen = Materialize(<< >>, Genesis)
  BY DEF Init
<1>4. Watching
  BY <1>2, <1>3 DEF Watching
<1>5. overtaken \in BOOLEAN
  BY DEF Init
<1> QED BY <1>4, <1>5 DEF WatchInv

\* The cursor moves to the newest seq.
LEMMA CaughtUp ==
    ASSUME Inv, baseline' = baseline, log' = log, cursor' = Cursor(log), seen' = State,
           overtaken' \in BOOLEAN
    PROVE  WatchInv'
<1>1. Stands(baseline, log, Cursor(log), State)
  BY StandsAtEnd DEF Inv, StoreInv, IsHistory, State
<1>2. Watching'
  BY <1>1 DEF Watching, Stands
<1> QED BY <1>2 DEF WatchInv

\* Nothing that the cursor or the log depends on changes.
LEMMA WatchStays ==
    ASSUME WatchInv, baseline' = baseline, log' = log, cursor' = cursor, seen' = seen,
           muddled' = muddled, overtaken' = overtaken
    PROVE  WatchInv'
<1>1. Watching => Watching'
  BY DEF Watching, Stands
<1> QED BY <1>1 DEF WatchInv

LEMMA WriteKeepsWatch ==
    ASSUME Inv, Inv', WatchInv, NEW c \in Commands, Write(c)
    PROVE  WatchInv'
<1>1. PICK more :
          /\ log' = log \o more /\ IsSeq(more)
          /\ \A i \in 1..Len(more) : more[i].seq = NextSeq(log) + i - 1
  BY WriteLogs
<1>2. PICK new : new = log'
  OBVIOUS
<1>3. IsLog(log) /\ IsLog(new)
  <2>1. IsLog(log')
    BY DEF Inv, StoreInv, IsHistory
  <2> QED BY <1>2, <2>1 DEF Inv, StoreInv, IsHistory, IsLog, HasSeqs, SeqOrdered
<1>4. baseline' = baseline /\ cursor' = cursor /\ seen' = seen /\ muddled' = muddled
  BY DEF Write, watch
<1>5. overtaken' \in BOOLEAN /\ (overtaken' = FALSE => overtaken = FALSE)
  <2> DEFINE o == Overtaken(log')
  <2>1. overtaken' = (overtaken \/ o)
    BY DEF Write
  <2> HIDE DEF o
  <2> QED BY <2>1, Zenon DEF WatchInv
<1>6. Watching => Stands(baseline, new, cursor, seen)
  BY <1>1, <1>2, <1>3, StandsLonger DEF Watching
<1>7. Watching => Watching'
  BY <1>2, <1>4, <1>6 DEF Watching, Stands
<1> QED BY <1>4, <1>5, <1>7 DEF WatchInv

LEMMA CompactKeepsWatch ==
    ASSUME Inv, WatchInv, Compact
    PROVE  WatchInv'
<1>1. PICK n : /\ n = RetentionSplit(log, KeepEvents, 0, 1) /\ n > 0
               /\ baseline' = Materialize(baseline, SubSeq(log, 1, n))
               /\ log' = SubSeq(log, n + 1, Len(log))
  BY DEF Compact
<1>2. IsLog(log) /\ IsSeq(log) /\ Len(log) \in Nat
  BY LogBasics DEF Inv, StoreInv, IsHistory
<1>3. n \in 1..Len(log) /\ n < Len(log)
  <2>1. n \in 0..Len(log) /\ (Len(log) # 0 => n < Len(log))
    BY <1>1, <1>2, KeepAssumption, SplitIsInLog
  <2> QED BY <1>1, <1>2, <2>1
<1>4. cursor' = cursor /\ seen' = seen /\ muddled' = muddled /\ overtaken' = overtaken
  BY DEF Compact, watch, ghosts
<1>5. PICK base, new : base = baseline' /\ new = log'
  OBVIOUS
<1>6. Watching => Stands(base, new, cursor, seen)
  BY <1>1, <1>2, <1>3, <1>5, StandsFolded DEF Watching
<1>7. Watching => Watching'
  BY <1>4, <1>5, <1>6 DEF Watching, Stands
<1> QED BY <1>4, <1>7 DEF WatchInv

\* A plan that is not stale takes back nothing the cursor stands for, or it is noted.
LEMMA ConfirmKeepsWatch ==
    ASSUME Inv, Inv', WatchInv, Confirm
    PROVE  WatchInv'
<1>1. /\ pending.outcome = "plan" /\ log' = pending.log
      /\ baseline' = baseline /\ cursor' = cursor /\ seen' = seen
  BY DEF Confirm, watch
<1>2. /\ overtaken' \in BOOLEAN
      /\ overtaken' = FALSE => overtaken = FALSE /\ ~ Overtaken(log')
  <2> DEFINE o == Overtaken(log')
  <2>1. overtaken' = (overtaken \/ o)
    BY DEF Confirm
  <2> HIDE DEF o
  <2>2. /\ overtaken' \in BOOLEAN
        /\ overtaken' = FALSE => overtaken = FALSE /\ ~ o
    BY <2>1, Zenon DEF WatchInv
  <2> QED BY <2>2 DEF o
<1>3. muddled' # "stale" => muddled # "stale" /\ pending.stale = FALSE
  <2>1. pending.stale \in BOOLEAN
    BY DEF Inv, PlanInv
  <2>2. pending.stale \/ muddled = "stale" => muddled' = "stale"
    BY DEF Confirm
  <2> QED BY <2>1, <2>2
<1>4. ASSUME muddled' # "stale", overtaken' = FALSE PROVE Watching'
  <2>1. Stands(baseline, log, cursor, seen)
    BY <1>2, <1>3, <1>4 DEF WatchInv, Watching
  <2>2. PICK cut \in 0..Len(log) : GoesOn(pending.log, log, cut)
    BY <1>1, <1>3, <1>4 DEF Inv, PlanInv
  <2> DEFINE prefix == SubSeq(log, 1, cut)
  <2>3. PICK more : /\ IsSeq(more) /\ log' = prefix \o more
                    /\ cut = 0 => Len(more) = 0
                    /\ \A i \in 1..Len(more) : /\ more[i].seq = NextSeq(prefix) + i - 1
                                               /\ more[i].undoes # NoUndo
    BY <1>1, <2>2 DEF GoesOn
  <2>4. PICK new : new = prefix \o more /\ new = log'
    BY <2>3
  <2>5. PICK n \in Nat : n = Len(log) /\ IsLog(log) /\ IsSeq(log) /\ DOMAIN log = 1..n
    BY LogBasics DEF Inv, StoreInv, IsHistory
  <2>6. IsLog(new)
    <3>1. IsLog(log')
      BY DEF Inv, StoreInv, IsHistory
    <3> QED BY <2>4, <3>1 DEF IsLog, HasSeqs, SeqOrdered
  <2>7. IsLog(prefix) /\ IsSeq(prefix) /\ Len(prefix) = cut
        /\ \A i \in 1..cut : prefix[i] = log[i]
    BY <2>5, PrefixLog, SeqPrefix, LogBasics
  <2>8. /\ ~ (NextSeq(new) <= cursor) /\ ~ (NextSeq(new) <= Watermark(log))
        /\ \A i \in 1..n : log[i].seq <= cursor => log[i] \in Range(new)
    BY <1>2, <1>4, <2>4, <2>5 DEF Overtaken
  <2>9. \A i \in (cut + 1)..n : log[i].undoes = NoUndo
    BY <2>2, <2>5 DEF GoesOn
  <2> HIDE DEF prefix
  <2>10. ASSUME NEW i \in 1..n, log[i].seq <= cursor PROVE i <= cut
    <3> SUFFICES ASSUME ~ (i <= cut) PROVE FALSE
      OBVIOUS
    <3>1. log[i].undoes = NoUndo
      BY <2>5, <2>9
    <3>2. IsSeq(new)
      BY <2>6, LogBasics
    <3>3. PICK j \in 1..Len(new) : new[j] = log[i]
      BY <2>8, <2>10, <3>2, SeqBasics DEF Range
    <3>4. PICK k \in Nat : k = Len(more) /\ Len(new) = cut + k
      <4>1. Len(more) \in Nat
        BY <2>3, SeqBasics
      <4>2. Len(prefix \o more) = Len(prefix) + Len(more)
        BY <2>3, <2>7, SeqConcat
      <4> QED BY <2>4, <2>7, <4>1, <4>2
    <3>5. CASE j \in 1..cut
      <4>1. new[j] = log[j]
        BY <2>3, <2>4, <2>7, <3>5, SeqConcat
      <4>2. j < i /\ j \in 1..n
        BY <2>5, <3>5
      <4>3. log[j].seq < log[i].seq /\ log[i].seq \in Nat
        BY <2>5, <4>2, LogBasics
      <4>4. log[j].seq = log[i].seq
        BY <3>3, <4>1
      <4> QED BY <4>3, <4>4
    <3>6. CASE j \notin 1..cut
      <4>1. j - cut \in 1..k /\ cut + (j - cut) = j
        BY <3>4, <3>6
      <4>2. new[j] = more[j - cut]
        BY <2>3, <2>4, <2>7, <3>4, <4>1, SeqConcat
      <4>3. more[j - cut].undoes # NoUndo
        BY <2>3, <3>4, <4>1
      <4> QED BY <3>1, <3>3, <4>2, <4>3
    <3> QED BY <3>5, <3>6
  <2>11. ASSUME cut = 0 PROVE cursor = 0 /\ Watermark(log) = 0
    <3>1. Len(new) = 0
      BY <2>3, <2>4, <2>7, <2>11, SeqConcat
    <3>2. NextSeq(new) = 1
      BY <2>6, <3>1, NoSeqs
    <3>3. cursor \in Nat
      BY <2>1 DEF Stands
    <3>4. Watermark(log) \in Nat
      <4>1. CASE n = 0
        BY <2>5, <4>1, LogEnds
      <4>2. CASE n # 0
        <5>1. 1 \in 1..n /\ Watermark(log) = log[1].seq - 1 /\ log[1].seq \in Nat
          BY <2>5, <4>2, LogEnds
        <5>2. log[1].seq # 0
          BY <2>5, <5>1 DEF Inv, StoreInv, IsHistory, Counted, NoUndo
        <5> QED BY <5>1, <5>2
      <4> QED BY <4>1, <4>2
    <3>5. \A x \in Nat : ~ (1 <= x) => x = 0
      OBVIOUS
    <3> QED BY <2>8, <3>2, <3>3, <3>4, <3>5
  <2>12. Stands(baseline, prefix, cursor, seen)
    BY <2>1, <2>5, <2>10, <2>11, StandsCut DEF prefix
  <2>13. Stands(baseline, new, cursor, seen)
    BY <2>3, <2>4, <2>6, <2>7, <2>12, StandsLonger
  <2> QED BY <1>1, <2>4, <2>13 DEF Watching, Stands
<1> QED BY <1>2, <1>4 DEF WatchInv

\* A poll that is not refused hands out the newest seq.
LEMMA PollCursor ==
    ASSUME NEW base, NEW events, NEW since, NEW q,
           NEW p, p = Poll(base, events, since, q), p.outcome = "ok"
    PROVE  p.cursor = Cursor(events)
<1>1. CASE since < Watermark(events)
  <2>1. p.outcome = "compacted"
    BY <1>1 DEF Poll, Polled
  <2> QED BY <2>1
<1>2. CASE ~ (since < Watermark(events)) /\ since >= Cursor(events)
  BY <1>2 DEF Poll, Polled
<1>3. CASE ~ (since < Watermark(events)) /\ ~ (since >= Cursor(events))
  <2>1. PICK old, cur, touched : p = UpdatesBetween(old, cur, base, events, touched, q)
    <3>1. PICK old : old = Materialize(base, Picked(events, {i \in DOMAIN events : events[i].seq <= since}))
      OBVIOUS
    <3>2. PICK cur : cur = Materialize(base, events)
      OBVIOUS
    <3>3. PICK touched : touched = {events[i].id : i \in {j \in DOMAIN events : events[j].seq > since}}
      OBVIOUS
    <3> QED BY <1>3, <3>1, <3>2, <3>3, PollCompares
  <2> QED BY <2>1, PolledUpdates
<1> QED BY <1>1, <1>2, <1>3

LEMMA WatchNext == Inv /\ Inv' /\ WatchInv /\ [Next]_vars => WatchInv'
<1> SUFFICES ASSUME Inv, Inv', WatchInv, [Next]_vars PROVE WatchInv'
  OBVIOUS
<1>1. CASE UNCHANGED vars
  BY <1>1, WatchStays DEF vars
<1>2. ASSUME NEW c \in Commands, Write(c) PROVE WatchInv'
  BY <1>2, WriteKeepsWatch
<1>3. CASE Save
  BY <1>3, WatchStays DEF Save, store, watch, ghosts
<1>4. CASE Compact
  BY <1>4, CompactKeepsWatch
<1>5. ASSUME NEW from \in Seqs, NEW count \in 1..MaxCount, NEW remove \in BOOLEAN,
             Preview(from, count, remove)
      PROVE  WatchInv'
  BY <1>5, WatchStays DEF Preview, store, watch, ghosts
<1>6. CASE Confirm
  BY <1>6, ConfirmKeepsWatch
<1>7. CASE Abort
  BY <1>7, WatchStays DEF Abort, store, watch, ghosts
<1>8. CASE Report
  <2>1. baseline' = baseline /\ log' = log /\ seen' = State /\ overtaken' = FALSE
    BY <1>8 DEF Report, store
  <2>2. cursor' = Cursor(log)
    <3>1. PICK p : p = Poll(baseline, log, cursor, WatchQuery) /\ p.outcome = "ok"
                   /\ cursor' = p.cursor
      BY <1>8 DEF Report, Polling
    <3> QED BY <3>1, PollCursor
  <2> QED BY <2>1, <2>2, CaughtUp
<1>9. CASE Stat \/ Collect \/ Nothing \/ Sleep \/ Deadline
  <2>1. /\ baseline' = baseline /\ log' = log /\ cursor' = cursor /\ seen' = seen
        /\ muddled' = muddled /\ overtaken' = overtaken
    BY <1>9 DEF Stat, Collect, Nothing, Sleep, Deadline, store, ghosts
  <2> QED BY <2>1, WatchStays
<1>10. ASSUME NEW resync \in BOOLEAN, Restart(resync) PROVE WatchInv'
  <2>1. baseline' = baseline /\ log' = log /\ muddled' = muddled
    BY <1>10 DEF Restart, store, ghosts
  <2>2. CASE resync
    <3>1. cursor' = Cursor(log) /\ seen' = State
      BY <1>10, <2>2 DEF Restart
    <3>2. overtaken' \in BOOLEAN
      BY <1>10, Zenon DEF Restart, WatchInv
    <3> QED BY <2>1, <3>1, <3>2, CaughtUp
  <2>3. CASE ~ resync
    <3>1. cursor' = cursor /\ seen' = seen
      BY <1>10, <2>3 DEF Restart
    <3>2. overtaken' = overtaken
      BY <1>10, <2>3, Zenon DEF Restart, WatchInv
    <3> QED BY <2>1, <3>1, <3>2, WatchStays
  <2> QED BY <2>2, <2>3
<1> QED BY <1>1, <1>2, <1>3, <1>4, <1>5, <1>6, <1>7, <1>8, <1>9, <1>10 DEF Next, Looking

\* From its cursor a watch sees every task whose look changed and only those, however
\* writes, compactions and undos follow each other; and it is sent back only when
\* events it had not seen were folded.
THEOREM NoChangeIsMissed == Spec => []NothingMissed
<1>1. Inv /\ WatchInv => NothingMissed
  <2> SUFFICES ASSUME Inv, WatchInv, muddled # "stale", ~ overtaken,
                      NEW q \in Queries, NEW p, p = Poll(baseline, log, cursor, q)
               PROVE  /\ p.outcome = "ok" => p.updates = ChangesSeen(seen, State, q)
                      /\ p.outcome = "compacted" => cursor + 1 < log[1].seq
    BY DEF NothingMissed, ChangesSeen
  <2>1. Stands(baseline, log, cursor, seen)
    BY DEF WatchInv, Watching
  <2>2. IsStored(baseline) /\ IsHistory(log)
    BY DEF Inv, StoreInv
  <2> QED BY <2>1, <2>2, PollTellsChanges DEF State
<1>2. Init => WatchInv
  BY WatchInit
<1>3. Inv /\ WatchInv /\ [Next]_vars => Inv' /\ WatchInv'
  BY InvNext, WatchNext
<1> QED BY <1>1, <1>2, <1>3, InvInit, PTL DEF Spec

----------------------------------------------------------------------------
(* What history lists, against what a poll reports.                        *)

\* A missing task looks like nothing.
LEMMA MissingLook ==
    ASSUME NEW state, NEW id, id \notin DOMAIN state, NEW columns
    PROVE  Project(state, id, columns) = {}
BY DEF Project

\* A task looks the same in two states.
SameLook(s, t, id, columns) == Project(s, id, columns) = Project(t, id, columns)

\* What an event does not name looks as before.
LEMMA OthersLookSame ==
    ASSUME NEW state, NEW e, NEW id, id # e.id, NEW columns
    PROVE  /\ SameLook(Apply(state, e), state, id, columns)
           /\ id \in DOMAIN Apply(state, e) <=> id \in DOMAIN state
<1> DEFINE after == Apply(state, e)
<1>1. /\ id \in DOMAIN after <=> id \in DOMAIN state
      /\ id \in DOMAIN state => after[id] = state[id]
  BY ApplyFrame
<1> HIDE DEF after
<1>2. Project(after, id, columns) = Project(state, id, columns)
  BY <1>1 DEF Project
<1> QED BY <1>1, <1>2 DEF after, SameLook

\* No event of a task between two places changes how it looks.
IsQuiet(f, events, id, columns, a, b) ==
    /\ a <= b
    /\ \A i \in (a + 1)..b : events[i].id = id =>
          Project(f[i - 1], id, columns) = Project(f[i], id, columns)

\* Then it looks the same at both.
LEMMA LooksStay ==
    ASSUME NEW base, NEW events, IsSeq(events), NEW f, IsRun(f, base, events),
           NEW id, NEW columns, NEW a \in 0..Len(events), NEW b \in 0..Len(events),
           IsQuiet(f, events, id, columns, a, b)
    PROVE  Project(f[a], id, columns) = Project(f[b], id, columns)
<1> DEFINE Look(k) == Project(f[k], id, columns)
           G == {k \in 0..b : k < a \/ Look(k) = Look(a)}
<1> HIDE DEF Look
<1>1. /\ Len(events) \in Nat /\ a \in Nat /\ b \in Nat /\ a <= b
      /\ \A k \in 1..b : k \in 1..Len(events)
  BY SeqBasics DEF IsQuiet
<1>2. 0 \in G
  <2>1. 0 < a \/ a = 0
    BY <1>1
  <2> QED BY <1>1, <2>1
<1>3. ASSUME NEW k \in 1..b, k - 1 \in G PROVE k \in G
  <2>1. CASE ~ (a < k)
    <3>1. k < a \/ k = a
      BY <1>1, <2>1
    <3> QED BY <3>1
  <2>2. CASE a < k
    <3>1. Look(k - 1) = Look(a)
      <4>1. ~ (k - 1 < a)
        BY <1>1, <2>2
      <4> QED BY <1>3, <4>1
    <3>2. Look(k) = Look(k - 1)
      <4>1. k \in (a + 1)..b
        BY <1>1, <2>2
      <4>2. CASE events[k].id = id
        BY <4>1, <4>2 DEF Look, IsQuiet
      <4>3. CASE events[k].id # id
        <5>1. f[k] = Apply(f[k - 1], events[k])
          BY <1>1, AppliedIsApply DEF IsRun
        <5>2. SameLook(f[k], f[k - 1], id, columns)
          BY <4>3, <5>1, OthersLookSame
        <5> QED BY <5>2 DEF Look, SameLook
      <4> QED BY <4>2, <4>3
    <3> QED BY <3>1, <3>2
  <2> QED BY <2>1, <2>2
<1>4. \A k \in 0..b : k \in G
  <2> HIDE DEF G
  <2> QED BY <1>1, <1>2, <1>3, UpTo
<1>5. Look(b) = Look(a)
  <2>1. b \in G /\ ~ (b < a)
    BY <1>1, <1>4
  <2> QED BY <2>1
<1> QED BY <1>5 DEF Look

\* A task that was there and is not any more.
Vanished(f, id, a, b) == a <= b /\ id \in DOMAIN f[a] /\ id \notin DOMAIN f[b]

\* It was deleted while it was there.
LEMMA GoneByDelete ==
    ASSUME NEW base, NEW events, IsSeq(events), NEW f, IsRun(f, base, events),
           NEW id, NEW a \in 0..Len(events), NEW b \in 0..Len(events), Vanished(f, id, a, b)
    PROVE  \E i \in (a + 1)..b : /\ events[i].op = "Delete" /\ events[i].id = id
                                 /\ id \in DOMAIN f[i - 1]
<1> DEFINE G == {k \in 0..b : k < a \/ id \in DOMAIN f[k]}
<1>1. /\ Len(events) \in Nat /\ a \in Nat /\ b \in Nat /\ a <= b
      /\ \A k \in 1..b : k \in 1..Len(events)
  BY SeqBasics DEF Vanished
<1>2. 0 \in G
  <2>1. 0 < a \/ a = 0
    BY <1>1
  <2> QED BY <1>1, <2>1 DEF Vanished
<1>3. b \notin G
  <2>1. ~ (b < a)
    BY <1>1
  <2> QED BY <2>1 DEF Vanished
<1>4. PICK k \in 1..b : k - 1 \in G /\ k \notin G
  <2>1. b \in 0..b
    BY <1>1
  <2> HIDE DEF G
  <2> QED BY <1>1, <1>2, <1>3, <2>1, UpTo
<1>5. a < k /\ id \in DOMAIN f[k - 1] /\ id \notin DOMAIN f[k]
  <2>1. ~ (k < a) /\ id \notin DOMAIN f[k]
    BY <1>1, <1>4
  <2>2. k # a
    BY <2>1 DEF Vanished
  <2>3. a < k /\ ~ (k - 1 < a)
    BY <1>1, <2>1, <2>2
  <2> QED BY <1>4, <2>1, <2>3
<1>6. f[k] = Apply(f[k - 1], events[k])
  BY <1>1, AppliedIsApply DEF IsRun
<1>7. events[k].id = id
  BY <1>5, <1>6, OthersLookSame
<1>8. events[k].op = "Delete"
  BY <1>5, <1>6, <1>7, ApplyFrame
<1>9. k \in (a + 1)..b
  BY <1>1, <1>5
<1> QED BY <1>5, <1>7, <1>8, <1>9

\* The last so many of fewer are all.
LEMMA LastOfFew ==
    ASSUME NEW s, IsSeq(s), NEW count \in Nat, Len(s) <= count
    PROVE  LastOf(s, count) = s
<1>1. Len(s) \in Nat
  BY SeqBasics
<1>2. Max({1, Len(s) - count + 1}) = 1
  <2>1. \A y \in {1, Len(s) - count + 1} : y \in Int /\ 1 >= y
    BY <1>1
  <2> HIDE DEF Max
  <2> QED BY <2>1, MaxOf
<1> QED BY <1>2, WholePrefix DEF LastOf

\* No more places are picked than there are.
LEMMA PickedAreFew ==
    ASSUME NEW at, NEW k \in Nat, NEW n \in Nat, \A i \in 1..k : at[i] \in 1..n,
           \A i, j \in 1..k : i < j => at[i] < at[j]
    PROVE  k <= n
<1> DEFINE G == {i \in 0..k : i = 0 \/ i <= at[i]}
<1>1. ASSUME NEW i \in 1..k, i - 1 \in G PROVE i \in G
  <2>1. CASE i = 1
    BY <2>1
  <2>2. CASE i # 1
    <3>1. i - 1 \in 1..k /\ i - 1 < i /\ i - 1 # 0
      BY <2>2
    <3>2. i - 1 <= at[i - 1]
      BY <1>1, <3>1
    <3>3. at[i - 1] < at[i] /\ at[i - 1] \in 1..n /\ at[i] \in 1..n
      BY <3>1
    <3>4. i <= at[i]
      BY <3>2, <3>3
    <3> QED BY <3>4
  <2> QED BY <2>1, <2>2
<1>2. 0 \in G
  OBVIOUS
<1>3. \A i \in 0..k : i \in G
  <2> HIDE DEF G
  <2> QED BY <1>1, <1>2, UpTo
<1>4. CASE k = 0
  BY <1>4
<1>5. CASE k # 0
  <2>1. k \in 1..k /\ k \in 0..k
    BY <1>5
  <2>2. k <= at[k] /\ at[k] \in 1..n
    BY <1>3, <1>5, <2>1
  <2> QED BY <2>2
<1> QED BY <1>4, <1>5

\* The states before each event, and the last one.
StatesOf(base, events) ==
    Append([i \in DOMAIN events |-> Materialize(base, SubSeq(events, 1, i - 1))],
           Materialize(base, events))

\* They are those of a replay.
LEMMA StatesAreRun ==
    ASSUME NEW base, NEW events, IsSeq(events), NEW f, IsRun(f, base, events),
           NEW states, states = StatesOf(base, events)
    PROVE  \A i \in 1..(Len(events) + 1) : states[i] = f[i - 1]
<1> DEFINE first == [i \in DOMAIN events |-> Materialize(base, SubSeq(events, 1, i - 1))]
<1>1. PICK n \in Nat : n = Len(events) /\ DOMAIN events = 1..n
  BY SeqBasics
<1>2. IsSeq(first) /\ Len(first) = n /\ \A i \in 1..n : first[i] = Materialize(base, SubSeq(events, 1, i - 1))
  <2>1. first \in [1..n -> {first[i] : i \in 1..n}]
    BY <1>1
  <2>2. first \in Seq({first[i] : i \in 1..n}) /\ Len(first) = n
    BY <2>1
  <2> QED BY <1>1, <2>2 DEF IsSeq
<1>3. states = Append(first, Materialize(base, events))
  BY DEF StatesOf
<1> HIDE DEF first
<1>4. /\ \A i \in 1..n : states[i] = first[i]
      /\ states[n + 1] = Materialize(base, events)
  BY <1>2, <1>3, SeqAppend
<1>5. \A k \in 0..n : Materialize(base, SubSeq(events, 1, k)) = f[k]
  BY <1>1, RunStates
<1>6. Materialize(base, events) = f[n]
  <2>1. n \in 0..n /\ SubSeq(events, 1, n) = events
    BY <1>1, WholePrefix
  <2> QED BY <1>5, <2>1
<1>7. ASSUME NEW i \in 1..(n + 1) PROVE states[i] = f[i - 1]
  <2>1. CASE i \in 1..n
    <3>1. i - 1 \in 0..n
      BY <2>1
    <3> QED BY <1>2, <1>4, <1>5, <2>1, <3>1
  <2>2. CASE i \notin 1..n
    <3>1. i = n + 1 /\ i - 1 = n
      BY <2>2
    <3> QED BY <1>4, <1>6, <3>1
  <2> QED BY <2>1, <2>2
<1> QED BY <1>1, <1>7

\* History is told from these states.
LEMMA HistoryOpens ==
    ASSUME NEW base, NEW events, NEW since, NEW q, NEW count, NEW reverse
    PROVE  History(base, events, since, q, count, reverse)
               = HistoryOf(StatesOf(base, events), base, events, since, q, count, reverse)
<1> DEFINE U(states) == HistoryOf(states, base, events, since, q, count, reverse)
<1>1. History(base, events, since, q, count, reverse)
          = CHOOSE h \in {U(states) : states \in {StatesOf(base, events)}} : TRUE
  BY DEF History, StatesOf
<1> HIDE DEF U
<1>2. {U(states) : states \in {StatesOf(base, events)}} = {U(StatesOf(base, events))}
  OBVIOUS
<1> QED BY <1>1, <1>2 DEF U

\* The places that history lists, in order.
ListsPlaces(told, at, k, states, events, since, q) ==
    /\ k \in Nat /\ DOMAIN told = 1..k
    /\ \A n \in 1..k : /\ at[n] \in 1..Len(events)
                       /\ Listed(states, events, since, q, at[n])
                       /\ told[n] = EntryOf(states, events, q, at[n])
    /\ \A m, n \in 1..k : m < n => at[m] < at[n]
    /\ \A i \in 1..Len(events) :
          Listed(states, events, since, q, i) => \E n \in 1..k : at[n] = i

\* History lists the events there are to list, in their order.
LEMMA ListedEntries ==
    ASSUME NEW states, NEW base, NEW events, IsSeq(events), NEW since, NEW q,
           NEW h, h = HistoryOf(states, base, events, since, q, Len(events), FALSE),
           since # 0 => ~ (since < Watermark(events)),
           NamesKnown(states[Len(events) + 1], base, events, q)
    PROVE  /\ h.outcome = "ok"
           /\ \E at, k : ListsPlaces(h.entries, at, k, states, events, since, q)
<1> DEFINE numbers == [n \in DOMAIN events |-> n]
           Shown(i) == Listed(states, events, since, q, i)
           places  == {i \in DOMAIN events : Shown(i)}
           Entry(i) == EntryOf(states, events, q, i)
           picked  == Picked(numbers, places)
           listed  == LastOf(picked, Len(events))
<1>1. PICK n \in Nat : n = Len(events) /\ DOMAIN events = 1..n
  BY SeqBasics
<1>2. IsSeq(numbers) /\ Len(numbers) = n /\ \A i \in 1..n : numbers[i] = i
  <2>1. numbers \in [1..n -> 1..n]
    BY <1>1
  <2>2. numbers \in Seq(1..n) /\ Len(numbers) = n
    BY <2>1
  <2> QED BY <1>1, <2>2 DEF IsSeq
<1> DEFINE told == [i \in DOMAIN listed |->
                       Entry(IF FALSE THEN listed[Len(listed) + 1 - i] ELSE listed[i])]
<1>3. h.outcome = "ok" /\ h.entries = told
  <2> HIDE DEF listed, Entry
  <2>1. h = [outcome |-> "ok", cursor |-> Cursor(events), compacted |-> Watermark(events),
             entries |-> told]
    BY DEF HistoryOf, listed, Entry
  <2> HIDE DEF told
  <2>2. PICK c, w : c = Cursor(events) /\ w = Watermark(events)
    OBVIOUS
  <2>3. h = [outcome |-> "ok", cursor |-> c, compacted |-> w, entries |-> told]
    BY ONLY <2>1, <2>2
  <2> QED BY ONLY <2>3
<1>4. /\ IsSeq(picked)
      /\ \E at : /\ \A i \in 1..Len(picked) :
                       at[i] \in 1..n /\ at[i] \in places /\ picked[i] = numbers[at[i]]
                 /\ \A i, j \in 1..Len(picked) : i < j => at[i] < at[j]
      /\ \A j \in 1..n : j \in places => \E i \in 1..Len(picked) : picked[i] = numbers[j]
  <2> HIDE DEF places, numbers
  <2>1. /\ IsSeq(picked)
        /\ \E at : /\ \A i \in 1..Len(picked) :
                         at[i] \in 1..n /\ at[i] \in places /\ picked[i] = numbers[at[i]]
                   /\ \A i, j \in 1..Len(picked) : i < j => at[i] < at[j]
    BY <1>2, PickedEvents, SMTT(30)
  <2>2. ASSUME NEW j \in 1..n, j \in places
        PROVE  \E i \in 1..Len(picked) : picked[i] = numbers[j]
    BY <1>2, <2>2, PickedHolds
  <2> QED BY <2>1, <2>2
<1> HIDE DEF numbers, picked
<1>5. PICK at : /\ \A i \in 1..Len(picked) :
                       at[i] \in 1..n /\ at[i] \in places /\ picked[i] = numbers[at[i]]
                /\ \A i, j \in 1..Len(picked) : i < j => at[i] < at[j]
  BY <1>4
<1>6. PICK k \in Nat : k = Len(picked) /\ DOMAIN picked = 1..k
  BY <1>4, SeqBasics
<1>7. \A i \in 1..k : picked[i] = at[i]
  BY <1>2, <1>5, <1>6
<1>8. k <= n
  BY <1>5, <1>6, PickedAreFew
<1>9. listed = picked
  BY <1>1, <1>4, <1>6, <1>8, LastOfFew
<1>10. /\ DOMAIN h.entries = 1..k
       /\ \A i \in 1..k : h.entries[i] = Entry(at[i])
  <2> HIDE DEF listed, Entry
  <2>1. DOMAIN told = DOMAIN listed /\ \A i \in DOMAIN listed : told[i] = Entry(listed[i])
    OBVIOUS
  <2> HIDE DEF told
  <2> QED BY <2>1, <1>3, <1>6, <1>7, <1>9
<1>11. \A i \in 1..k : at[i] \in 1..n /\ Shown(at[i])
  BY <1>5, <1>6
<1>12. \A i \in 1..n : Shown(i) => \E j \in 1..k : at[j] = i
  <2>1. ASSUME NEW i \in 1..n, Shown(i) PROVE \E j \in 1..k : at[j] = i
    <3>1. i \in places
      BY <1>1, <2>1
    <3>2. PICK j \in 1..k : picked[j] = numbers[i]
      BY <1>4, <1>6, <3>1
    <3> QED BY <1>2, <1>7, <3>2
  <2> QED BY <2>1
<1>13. ListsPlaces(h.entries, at, k, states, events, since, q)
  <2>1. \A i, j \in 1..k : i < j => at[i] < at[j]
    BY <1>5, <1>6
  <2> QED BY <1>1, <1>10, <1>11, <1>12, <2>1 DEF ListsPlaces
<1> QED BY <1>3, <1>13

\* Every task that exists matches a query of all tasks.
LEMMA EveryTaskMatches ==
    ASSUME NEW columns, NEW q, q = EveryTask(columns), NEW state, NEW id
    PROVE  /\ FilterMatches(state, id, q) <=> id \in DOMAIN state
           /\ q.ready = FALSE /\ q.columns = columns
<1>1. /\ q.criteria = {} /\ q.ids = {} /\ q.open = FALSE /\ q.ready = FALSE
      /\ q.columns = columns
  BY DEF EveryTask
<1>2. CompileCriteria(q) = {}
  BY <1>1 DEF CompileCriteria
<1> QED BY <1>1, <1>2 DEF FilterMatches

\* From the seq of an event a poll of all tasks tells which look different.
LEMMA PollOfEveryTask ==
    ASSUME NEW base, IsStored(base), NEW events, IsHistory(events),
           NEW f, IsRun(f, base, events), Materialize(base, events) = f[Len(events)],
           NEW s \in 1..Len(events), NEW columns, NEW q, q = EveryTask(columns),
           NamesKnown(f[Len(events)], base, events, q),
           NEW p, p = Poll(base, events, events[s].seq, q)
    PROVE  /\ p.outcome = "ok"
           /\ p.updates = {u \in {[id |-> id, before |-> Project(f[s], id, columns),
                                   after |-> Project(f[Len(events)], id, columns)] :
                                     id \in DOMAIN f[s] \cup DOMAIN f[Len(events)]} :
                             u.before # u.after}
<1>1. PICK n \in Nat : n = Len(events)
  BY LogBasics DEF IsHistory
<1>2. IsLog(events) /\ IsSeq(events) /\ s \in 1..n /\ s \in 0..n
  BY <1>1, LogBasics DEF IsHistory
<1>3. PICK since \in Nat : since = events[s].seq
  BY <1>1, <1>2, LogBasics
<1>4. f[s] = Materialize(base, SubSeq(events, 1, s))
  BY <1>1, <1>2, RunStates
<1>5. ~ (since < Watermark(events)) /\ since < NextSeq(events)
  <2>1. PICK first \in Nat : first = events[1].seq /\ Watermark(events) = first - 1 /\ first <= since
    <3>1. 1 \in 1..n /\ n # 0
      BY <1>1, <1>2
    <3> QED BY <1>1, <1>2, <1>3, <3>1, LogEnds
  <2>2. since < NextSeq(events)
    BY <1>1, <1>2, <1>3, NextSeqIsNext
  <2> QED BY <1>3, <2>1, <2>2
<1>6. \A i \in 1..n : i <= s <=> events[i].seq <= since
  <2>1. ASSUME NEW i \in 1..n PROVE i <= s <=> events[i].seq <= since
    <3>1. /\ events[i].seq \in Nat
          /\ i < s => events[i].seq < since
          /\ s < i => since < events[i].seq
      BY <1>1, <1>2, <1>3, LogBasics
    <3>2. i < s \/ i = s \/ s < i
      BY <1>2
    <3> QED BY <1>2, <1>3, <3>1, <3>2
  <2> QED BY <2>1
<1>7. Stands(base, events, since, f[s])
  BY <1>1, <1>2, <1>3, <1>4, <1>5, <1>6 DEF Stands
<1>8. q.ready = FALSE /\ q.columns = columns
  BY EveryTaskMatches
<1>9. p.outcome = "ok"
  <2>1. CASE since >= Cursor(events)
    BY <1>3, <1>5, <2>1 DEF Poll, Polled
  <2>2. CASE ~ (since >= Cursor(events))
    <3> DEFINE touched == {events[i].id : i \in {j \in DOMAIN events : events[j].seq > since}}
               old == Materialize(base, Picked(events, {i \in DOMAIN events : events[i].seq <= since}))
               cur == Materialize(base, events)
    <3>1. p = UpdatesBetween(old, cur, base, events, touched, q)
      <4> HIDE DEF old, cur, touched
      <4>1. Poll(base, events, since, q) = UpdatesBetween(old, cur, base, events, touched, q)
        BY <1>5, <2>2, PollCompares DEF old, cur, touched
      <4> QED BY <1>3, <4>1
    <3>2. NamesKnown(cur, base, events, q)
      OBVIOUS
    <3> HIDE DEF old, cur, touched
    <3> QED BY <1>8, <3>1, <3>2 DEF UpdatesBetween, Polled
  <2> QED BY <2>1, <2>2
<1>10. p.updates = ChangesSeen(f[s], f[n], q)
  BY <1>1, <1>3, <1>7, <1>9, PollTellsChanges
<1>11. {t \in DOMAIN f[s] \cup DOMAIN f[n] : \E state \in {f[s], f[n]} : FilterMatches(state, t, q)}
          = DOMAIN f[s] \cup DOMAIN f[n]
  BY EveryTaskMatches
<1> QED BY <1>1, <1>8, <1>9, <1>10, <1>11 DEF ChangesSeen

\* The run of a log, its states, and where in it one looks.
LooksBack(base, events, f, states, s) ==
    /\ IsLog(events) /\ IsRun(f, base, events) /\ states = StatesOf(base, events)
    /\ s \in 1..Len(events)

\* History lists no event of a task between two places.
NoneListed(states, events, s, q, id, a, b) ==
    /\ s <= a /\ a <= b
    /\ \A i \in (a + 1)..b : events[i].id = id =>
          ~ Listed(states, events, events[s].seq, q, i)

\* Then the task, if it is selected, looks the same at both.
LEMMA QuietBetween ==
    ASSUME NEW base, NEW events, NEW f, NEW states, NEW s, LooksBack(base, events, f, states, s),
           NEW q, NEW id, SelectedTask(states, events, events[s].seq, id, q),
           NEW a \in 0..Len(events), NEW b \in 0..Len(events),
           NoneListed(states, events, s, q, id, a, b)
    PROVE  Project(f[a], id, q.columns) = Project(f[b], id, q.columns)
<1>1. PICK n \in Nat : n = Len(events) /\ s \in 1..n /\ IsSeq(events) /\ IsRun(f, base, events)
  BY LogBasics DEF LooksBack
<1>2. /\ a \in 0..n /\ b \in 0..n /\ a <= b
      /\ \A i \in (a + 1)..b : i \in 1..n /\ i + 1 \in 1..(n + 1) /\ i \in 1..(n + 1) /\ s < i
  BY <1>1 DEF NoneListed
<1>3. \A i \in 1..(n + 1) : states[i] = f[i - 1]
  BY <1>1, StatesAreRun DEF LooksBack
<1>4. ASSUME NEW i \in (a + 1)..b, events[i].id = id
      PROVE  Project(f[i - 1], id, q.columns) = Project(f[i], id, q.columns)
  <2>1. states[i] = f[i - 1] /\ states[i + 1] = f[i]
    <3>1. states[i + 1] = f[i + 1 - 1] /\ i + 1 - 1 = i
      BY <1>2, <1>3
    <3> QED BY <1>2, <1>3, <3>1
  <2>2. events[i].seq > events[s].seq
    <3>1. events[s].seq < events[i].seq /\ events[s].seq \in Nat /\ events[i].seq \in Nat
      BY <1>1, <1>2, LogBasics DEF LooksBack
    <3> QED BY <3>1
  <2>3. \/ id \notin DOMAIN f[i - 1] /\ id \notin DOMAIN f[i]
        \/ EntryOf(states, events, q, i).before = EntryOf(states, events, q, i).after
    BY <1>4, <2>1, <2>2 DEF Listed, NoneListed
  <2>4. CASE id \notin DOMAIN f[i - 1] /\ id \notin DOMAIN f[i]
    BY <2>4, MissingLook
  <2>5. CASE EntryOf(states, events, q, i).before = EntryOf(states, events, q, i).after
    BY <1>4, <2>1, <2>5 DEF EntryOf
  <2> QED BY <2>3, <2>4, <2>5
<1>5. PICK columns : columns = q.columns
  OBVIOUS
<1>6. IsQuiet(f, events, id, columns, a, b)
  BY <1>2, <1>4, <1>5 DEF IsQuiet
<1>7. a \in 0..Len(events) /\ b \in 0..Len(events)
  BY <1>1, <1>2
<1>8. Project(f[a], id, columns) = Project(f[b], id, columns)
  BY <1>1, <1>6, <1>7, LooksStay
<1> QED BY <1>5, <1>8

\* Of all tasks, one is not selected that is missing now and was missing then.
LEMMA NotSelected ==
    ASSUME NEW base, NEW events, NEW f, NEW states, NEW s, LooksBack(base, events, f, states, s),
           NEW columns, NEW q, q = EveryTask(columns),
           NEW id, ~ SelectedTask(states, events, events[s].seq, id, q)
    PROVE  id \notin DOMAIN f[s] /\ id \notin DOMAIN f[Len(events)]
<1>1. PICK n \in Nat : n = Len(events) /\ s \in 1..n /\ IsSeq(events) /\ IsRun(f, base, events)
                       /\ DOMAIN events = 1..n
  BY LogBasics DEF LooksBack
<1>2. \A i \in 1..(n + 1) : states[i] = f[i - 1]
  BY <1>1, StatesAreRun DEF LooksBack
<1>3. states[n + 1] = f[n]
  <2>1. n + 1 \in 1..(n + 1) /\ n + 1 - 1 = n
    BY <1>1
  <2> QED BY <1>2, <2>1
<1>4. \A state : FilterMatches(state, id, q) <=> id \in DOMAIN state
  BY EveryTaskMatches
<1> DEFINE deletes == {i \in DOMAIN events : /\ events[i].seq > events[s].seq
                                            /\ events[i].op = "Delete"
                                            /\ events[i].id = id
                                            /\ id \in DOMAIN states[i]}
<1>5. /\ id \notin DOMAIN f[n]
      /\ ~ (deletes # {} /\ id \in DOMAIN states[Max(deletes)])
  BY <1>1, <1>3, <1>4 DEF SelectedTask
<1>6. deletes = {}
  <2>1. ASSUME deletes # {} PROVE id \in DOMAIN states[Max(deletes)]
    <3>1. \A i \in deletes : i \in 1..n
      BY <1>1
    <3>2. \A i \in deletes : id \in DOMAIN states[i]
      OBVIOUS
    <3> HIDE DEF deletes
    <3>3. Max(deletes) \in deletes
      BY <2>1, <3>1, MinAndMaxIn
    <3> QED BY <3>2, <3>3
  <2> QED BY <1>5, <2>1
<1>7. ASSUME id \in DOMAIN f[s] PROVE FALSE
  <2>1. s \in 0..Len(events) /\ n \in 0..Len(events) /\ s <= n
    BY <1>1
  <2>2. PICK i \in (s + 1)..n : /\ events[i].op = "Delete" /\ events[i].id = id
                                /\ id \in DOMAIN f[i - 1]
    <3>1. Vanished(f, id, s, n)
      BY <1>1, <1>5, <1>7 DEF Vanished
    <3> QED BY <1>1, <2>1, <3>1, GoneByDelete
  <2>3. i \in 1..n /\ i \in 1..(n + 1) /\ s < i
    BY <1>1
  <2>4. events[i].seq > events[s].seq
    <3>1. events[s].seq < events[i].seq /\ events[s].seq \in Nat /\ events[i].seq \in Nat
      BY <1>1, <2>3, LogBasics DEF LooksBack
    <3> QED BY <3>1
  <2>5. i \in deletes
    BY <1>1, <1>2, <2>2, <2>3, <2>4
  <2> QED BY <1>6, <2>5
<1> QED BY <1>1, <1>5, <1>7

\* From any event of a log, poll and history tell the same of all tasks: between two
\* entries of a task, before its first and after its last it does not change, and what has
\* no entry does not change at all.
LEMMA StoriesAgree ==
    ASSUME NEW base, IsStored(base), NEW events, IsHistory(events), NEW s \in 1..Len(events),
           NEW columns, NEW q, q = EveryTask(columns),
           NamesKnown(Materialize(base, events), base, events, q),
           NEW p, p = Poll(base, events, events[s].seq, q),
           NEW h, h = History(base, events, events[s].seq, q, Len(events), FALSE)
    PROVE  TellTheSame(p, h)
<1>1. PICK n \in Nat : n = Len(events) /\ IsLog(events) /\ IsSeq(events) /\ s \in 1..n
  BY LogBasics DEF IsHistory
<1>2. PICK f : IsRun(f, base, events) /\ Materialize(base, events) = f[n]
  BY <1>1, MaterializeIsRun
<1>3. PICK states : states = StatesOf(base, events)
  OBVIOUS
<1>4. LooksBack(base, events, f, states, s)
  BY <1>1, <1>2, <1>3 DEF LooksBack
<1>5. PICK since \in Nat : since = events[s].seq
  BY <1>1, LogBasics
<1>6. q.columns = columns
  BY EveryTaskMatches
<1> DEFINE Look(i, id) == Project(f[i], id, columns)
           Update(id) == [id |-> id, before |-> Look(s, id), after |-> Look(n, id)]
           there == DOMAIN f[s] \cup DOMAIN f[n]
<1>7. /\ p.outcome = "ok"
      /\ p.updates = {u \in {Update(id) : id \in there} : u.before # u.after}
  BY <1>1, <1>2, PollOfEveryTask
<1>8. PICK told : told = h.entries
  OBVIOUS
<1>9. h.outcome = "ok" /\ \E at, k : ListsPlaces(told, at, k, states, events, since, q)
  <2>1. h = HistoryOf(states, base, events, since, q, Len(events), FALSE)
    BY <1>3, <1>5, HistoryOpens
  <2>2. ~ (since < Watermark(events))
    <3>1. PICK first \in Nat : Watermark(events) = first - 1 /\ first <= since
      <4>1. 1 \in 1..n /\ n # 0
        BY <1>1
      <4> QED BY <1>1, <1>5, <4>1, LogEnds
    <3> QED BY <3>1
  <2>3. states[n + 1] = f[n]
    <3>1. n + 1 \in 1..(n + 1) /\ n + 1 - 1 = n
      OBVIOUS
    <3> QED BY <1>1, <1>2, <1>3, <3>1, StatesAreRun
  <2>4. NamesKnown(states[Len(events) + 1], base, events, q)
    BY <1>1, <1>2, <2>3
  <2> QED BY <1>1, <1>8, <2>1, <2>2, <2>4, ListedEntries
<1>10. PICK at, k : ListsPlaces(told, at, k, states, events, since, q)
  BY <1>9
<1>11. /\ k \in Nat /\ DOMAIN told = 1..k
       /\ \A l \in 1..k : at[l] \in 1..n
       /\ \A l, m \in 1..k : l < m => at[l] < at[m]
       /\ \A i \in 1..n : Listed(states, events, since, q, i) => \E l \in 1..k : at[l] = i
  BY <1>1, <1>10 DEF ListsPlaces
<1> DEFINE Chosen(id) == SelectedTask(states, events, since, id, q)
<1>12. \A i \in 1..(n + 1) : states[i] = f[i - 1]
  BY <1>1, <1>2, <1>3, StatesAreRun
<1>13. ASSUME NEW l \in 1..k
       PROVE  /\ s < at[l] /\ events[at[l]].id = told[l].id /\ Chosen(told[l].id)
              /\ told[l].before = Look(at[l] - 1, told[l].id)
              /\ told[l].after = Look(at[l], told[l].id)
  <2>1. PICK i \in 1..n : i = at[l]
    BY <1>11
  <2>2. Listed(states, events, since, q, i) /\ told[l] = EntryOf(states, events, q, i)
    BY <1>10, <2>1 DEF ListsPlaces
  <2>3. /\ told[l].id = events[i].id
        /\ told[l].before = Project(states[i], events[i].id, q.columns)
        /\ told[l].after = Project(states[i + 1], events[i].id, q.columns)
    BY <2>2 DEF EntryOf
  <2>4. states[i] = f[i - 1] /\ states[i + 1] = f[i]
    <3>1. i \in 1..(n + 1) /\ i + 1 \in 1..(n + 1) /\ i + 1 - 1 = i
      OBVIOUS
    <3>2. states[i + 1] = f[i + 1 - 1]
      BY <1>12, <3>1
    <3> QED BY <1>12, <3>1, <3>2
  <2>5. s < i
    <3>1. events[i].seq > since /\ events[i].seq \in Nat
      BY <1>1, <2>2, LogBasics DEF Listed
    <3>2. i < s => events[i].seq < since
      BY <1>1, <1>5, LogBasics
    <3>3. i = s => events[i].seq = since
      BY <1>5
    <3> QED BY <1>1, <1>5, <3>1, <3>2, <3>3
  <2>6. Chosen(events[i].id)
    BY <2>2 DEF Listed
  <2> QED BY <1>6, <2>1, <2>3, <2>4, <2>5, <2>6
<1>14. ASSUME NEW id, Chosen(id), NEW a \in 0..n, NEW b \in 0..n, s <= a, a <= b,
              \A l \in 1..k : told[l].id = id => ~ (a < at[l] /\ at[l] <= b)
       PROVE  Look(a, id) = Look(b, id)
  <2>1. ASSUME NEW i \in (a + 1)..b, events[i].id = id, Listed(states, events, since, q, i)
        PROVE  FALSE
    <3>1. i \in 1..n /\ a < i /\ i <= b
      BY <1>1
    <3>2. PICK l \in 1..k : at[l] = i
      BY <1>11, <2>1, <3>1
    <3>3. told[l].id = id
      BY <1>13, <2>1, <3>2
    <3> QED BY <1>14, <3>1, <3>2, <3>3
  <2>2. NoneListed(states, events, s, q, id, a, b)
    BY <1>5, <1>14, <2>1 DEF NoneListed
  <2>3. Project(f[a], id, q.columns) = Project(f[b], id, q.columns)
    BY <1>1, <1>4, <1>5, <1>14, <2>2, QuietBetween
  <2> QED BY <1>6, <2>3
<1> HIDE DEF Look, Chosen
<1>15. \A l, m \in 1..k : at[l] < at[m] => l < m
  <2>1. ASSUME NEW l \in 1..k, NEW m \in 1..k, at[l] < at[m], ~ (l < m) PROVE FALSE
    <3>1. /\ m < l => at[m] < at[l]
          /\ at[l] \in 1..n /\ at[m] \in 1..n
      BY <1>11
    <3>2. m < l \/ m = l
      BY <2>1
    <3> QED BY <2>1, <3>1, <3>2
  <2> QED BY <2>1
<1>16. ASSUME NEW l \in 1..k, NEW m \in 1..k, m \in OfTask(told, told[l].id), l < m,
              (l + 1)..(m - 1) \cap OfTask(told, told[l].id) = {}
       PROVE  told[m].before = told[l].after
  <2>1. PICK id : id = told[l].id /\ id = told[m].id
    BY <1>16 DEF OfTask
  <2>2. PICK a \in 1..n, b \in 0..n : a = at[l] /\ b = at[m] - 1 /\ a <= b /\ s <= a
    <3>1. at[l] < at[m] /\ s < at[l] /\ at[l] \in 1..n /\ at[m] \in 1..n
      BY <1>11, <1>13, <1>16
    <3>2. at[m] - 1 \in 0..n /\ at[l] <= at[m] - 1 /\ s <= at[l]
      BY <1>1, <3>1
    <3> QED BY <3>1, <3>2
  <2>3. ASSUME NEW x \in 1..k, told[x].id = id, a < at[x], at[x] <= b PROVE FALSE
    <3>1. at[l] < at[x] /\ at[x] < at[m]
      <4>1. at[x] \in 1..n /\ at[m] \in 1..n
        BY <1>11
      <4> QED BY <2>2, <2>3, <4>1
    <3>2. l < x /\ x < m
      BY <1>15, <3>1
    <3>3. x \in (l + 1)..(m - 1) /\ x \in OfTask(told, told[l].id)
      BY <1>11, <2>1, <2>3, <3>2 DEF OfTask
    <3> QED BY <1>16, <3>3
  <2>4. Look(a, id) = Look(b, id)
    <3>1. Chosen(id)
      BY <1>13, <2>1
    <3>2. a \in 0..n
      OBVIOUS
    <3> QED BY <1>14, <2>2, <2>3, <3>1, <3>2
  <2> QED BY <1>13, <2>1, <2>2, <2>4
<1>17. Chained(told)
  BY <1>11, <1>16 DEF Chained
<1>18. ASSUME NEW id \in {told[l].id : l \in DOMAIN told}
       PROVE  /\ told[Min(OfTask(told, id))].before = Look(s, id)
              /\ told[Max(OfTask(told, id))].after = Look(n, id)
  <2>1. OfTask(told, id) # {} /\ \A l \in OfTask(told, id) : l \in 1..k
    BY <1>11, <1>18 DEF OfTask
  <2>2. PICK l, m : l = Min(OfTask(told, id)) /\ m = Max(OfTask(told, id))
    OBVIOUS
  <2>3. /\ l \in OfTask(told, id) /\ m \in OfTask(told, id)
        /\ \A x \in OfTask(told, id) : l <= x /\ x <= m
    BY <1>11, <2>1, <2>2, MinAndMaxIn
  <2>4. l \in 1..k /\ m \in 1..k /\ told[l].id = id /\ told[m].id = id
    BY <1>11, <2>3 DEF OfTask
  <2>5. Chosen(id)
    BY <1>13, <2>4
  <2>6. \A x \in 1..k : told[x].id = id => l <= x /\ x <= m
    BY <1>11, <2>3 DEF OfTask
  <2>7. at[l] \in 1..n /\ at[m] \in 1..n /\ s < at[l] /\ s < at[m]
    BY <1>11, <1>13, <2>4
  <2>8. Look(s, id) = Look(at[l] - 1, id)
    <3>1. s \in 0..n /\ at[l] - 1 \in 0..n /\ s <= s /\ s <= at[l] - 1
      BY <1>1, <2>7
    <3>2. ASSUME NEW x \in 1..k, told[x].id = id, at[x] <= at[l] - 1 PROVE FALSE
      <4>1. at[x] < at[l]
        BY <1>11, <2>7, <3>2
      <4>2. x < l
        BY <1>15, <2>4, <4>1
      <4> QED BY <2>4, <2>6, <3>2, <4>2
    <3> QED BY <1>14, <2>5, <3>1, <3>2
  <2>9. Look(at[m], id) = Look(n, id)
    <3>1. at[m] \in 0..n /\ n \in 0..n /\ s <= at[m] /\ at[m] <= n
      BY <1>1, <2>7
    <3>2. ASSUME NEW x \in 1..k, told[x].id = id, at[m] < at[x] PROVE FALSE
      <4>1. m < x
        BY <1>15, <2>4, <3>2
      <4> QED BY <2>4, <2>6, <3>2, <4>1
    <3> QED BY <1>14, <2>5, <3>1, <3>2
  <2> QED BY <1>13, <2>2, <2>4, <2>8, <2>9
<1>19. ASSUME NEW id, id \notin {told[l].id : l \in DOMAIN told}
       PROVE  Look(s, id) = Look(n, id)
  <2>1. CASE Chosen(id)
    <3>1. \A l \in 1..k : told[l].id # id
      BY <1>11, <1>19
    <3>2. s \in 0..n /\ n \in 0..n /\ s <= s /\ s <= n
      BY <1>1
    <3> QED BY <1>14, <2>1, <3>1, <3>2
  <2>2. CASE ~ Chosen(id)
    <3>1. id \notin DOMAIN f[s] /\ id \notin DOMAIN f[n]
      BY <1>1, <1>4, <1>5, <2>2, NotSelected DEF Chosen
    <3> QED BY <3>1, MissingLook DEF Look
  <2> QED BY <2>1, <2>2
<1>20. ASSUME NEW id, id \notin there PROVE Look(s, id) = Look(n, id)
  BY <1>20, MissingLook DEF Look
<1> DEFINE named == {told[l].id : l \in DOMAIN told}
           Net(id) == [id |-> id, before |-> told[Min(OfTask(told, id))].before,
                       after |-> told[Max(OfTask(told, id))].after]
<1>21. NetOf(told) = {u \in {Update(id) : id \in named} : u.before # u.after}
  <2>1. NetOf(told) = {u \in {Net(id) : id \in named} : u.before # u.after}
    BY DEF NetOf
  <2>2. \A id \in named : Net(id) = Update(id)
    BY <1>18
  <2> HIDE DEF Net, Update, named
  <2> QED BY <2>1, <2>2
<1>22. \A id : Update(id).before # Update(id).after => id \in named /\ id \in there
  BY <1>19, <1>20
<1>23. p.updates = NetOf(told)
  <2> HIDE DEF Update, named, there
  <2> QED BY <1>7, <1>21, <1>22
<1> QED BY <1>7, <1>8, <1>9, <1>17, <1>23 DEF TellTheSame

\* However writes, compactions and undos follow each other, history tells event by event
\* what a poll tells at once, whatever the columns asked for.
THEOREM HistoryAddsUp == Spec => []PollIsNetOfHistory
<1>1. Inv => PollIsNetOfHistory
  <2> SUFFICES ASSUME Inv PROVE PollIsNetOfHistory
    OBVIOUS
  <2>1. IsStored(baseline) /\ IsHistory(log) /\ DOMAIN log = 1..Len(log)
    BY LogBasics DEF Inv, StoreInv, IsHistory
  <2>2. ASSUME NEW since \in {log[i].seq : i \in DOMAIN log}, NEW columns,
               NamesKnown(State, baseline, log, EveryTask(columns)),
               NEW p, p = Poll(baseline, log, since, EveryTask(columns)),
               NEW h, h = History(baseline, log, since, EveryTask(columns), Len(log), FALSE)
        PROVE  TellTheSame(p, h)
    <3>1. PICK s \in 1..Len(log) : since = log[s].seq
      BY <2>1
    <3>2. PICK q : q = EveryTask(columns)
      OBVIOUS
    <3>3. NamesKnown(Materialize(baseline, log), baseline, log, q)
      BY <2>2, <3>2 DEF State
    <3>4. p = Poll(baseline, log, log[s].seq, q)
      BY <2>2, <3>1, <3>2
    <3>5. h = History(baseline, log, log[s].seq, q, Len(log), FALSE)
      BY <2>2, <3>1, <3>2
    <3> QED BY ONLY <2>1, <3>2, <3>3, <3>4, <3>5, StoriesAgree, s \in 1..Len(log)
  <2> QED BY <2>2 DEF PollIsNetOfHistory
<1> QED BY <1>1, InvAlways, PTL
=============================================================================
