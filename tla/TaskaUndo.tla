----------------------------- MODULE TaskaUndo ------------------------------
(***************************************************************************)
(* Undo: which events an undo selects, the log it would write, and the     *)
(* states it promises before and after.                                    *)
(*                                                                         *)
(* A log event carries undoes, the seq it reverses (NoUndo for an original *)
(* event).  Selected events at the uncommitted end of the log are cut off; *)
(* the others are reversed by compensations appended to it.                *)
(***************************************************************************)
EXTENDS TaskaGate

NoUndo == 0

Undone(events) == {events[i].undoes : i \in DOMAIN events} \ {NoUndo}

Undoable(events, i) ==
    events[i].undoes = NoUndo /\ events[i].seq \notin Undone(events)

\* The places of the newest undoable events from the one with the seq `from` (0
\* for the end of the log) on.
SelectTargets(events, from, count) ==
    LET start == IF from = 0 THEN Len(events)
                 ELSE CHOOSE i \in DOMAIN events : events[i].seq = from
        cands == {i \in 1..start : Undoable(events, i)}
    IN  {i \in cands : Cardinality({j \in cands : j > i}) < count}

\* An explicit seq must be in the log and undoable.
IsTarget(events, from) ==
    from = 0 \/ \E i \in DOMAIN events : events[i].seq = from /\ Undoable(events, i)

----------------------------------------------------------------------------
(* Reversing.                                                              *)

EdgeDrafts(op, id, edges) == SetToSeq({Draft(op, id, e) : e \in edges})

\* Mutant: fields that the target state lacks stay.
CompensateWithoutUnset(from, to, id) ==
    IF id \in DOMAIN from \cap DOMAIN to
    THEN LET payload == Restrict(to[id].fields,
                            {k \in DOMAIN to[id].fields :
                                Value(from[id].fields, k) # to[id].fields[k]})
         IN  IF payload = << >> THEN << >> ELSE << Draft("Update", id, payload) >>
    ELSE << >>

\* The drafts that take one task from a state to another.
Compensate(from, to, id) ==
    CASE id \in (DOMAIN from) \ DOMAIN to -> << Draft("Delete", id, << >>) >>
      [] id \in (DOMAIN to) \ DOMAIN from ->
            << Draft("Create", id, to[id].fields) >> \o EdgeDrafts("AddEdge", id, to[id].edges)
      [] id \in (DOMAIN from) \cap DOMAIN to ->
            LET f == from[id]
                t == to[id]
                changed == {k \in DOMAIN f.fields \cup DOMAIN t.fields :
                               Value(f.fields, k) # Value(t.fields, k)}
            IN  (IF changed = {} THEN << >>
                 ELSE << Draft("Update", id, [k \in changed |-> Value(t.fields, k)]) >>)
                \o EdgeDrafts("AddEdge", id, t.edges \ f.edges)
                \o EdgeDrafts("RemoveEdge", id, f.edges \ t.edges)
      [] OTHER -> << >>

\* Mutant: the compensations of earlier undos stay in the picture.
OriginalsAndMarks(events, removed) == DropSeqs(events, removed)

\* The log as if the removed events had never been; compensations are left out.
Originals(events, removed) ==
    Picked(events, {i \in DOMAIN events :
                       events[i].undoes = NoUndo /\ events[i].seq \notin removed})

\* Newest first: each step takes one more event away and records how the task
\* changes; a step that changes nothing leaves an inert mark.
BuriedCompensations(baseline, events, targets, removed) ==
    LET StateAfter(k) ==
            Materialize(baseline,
                        Originals(events, removed \cup {targets[i].seq : i \in 1..k}))
        Marked(comps, e) ==
            [i \in DOMAIN comps |-> [draft |-> comps[i], undoes |-> e.seq]]
        Reversing(k) ==
            LET diff == Compensate(StateAfter(k - 1), StateAfter(k), targets[k].id)
            IN  Marked(IF diff = << >> THEN << Draft("Update", targets[k].id, << >>) >>
                       ELSE diff, targets[k])
    IN  FlattenSeq([k \in DOMAIN targets |-> Reversing(k)])

Numbered(events, comps, now) ==
    [i \in DOMAIN comps |->
        [seq |-> NextSeq(events) + i - 1, ts |-> now, op |-> comps[i].draft.op,
         id |-> comps[i].draft.id, payload |-> comps[i].draft.payload,
         undoes |-> comps[i].undoes]]

----------------------------------------------------------------------------
(* The plan.  outcome: "nothing" to undo, "refused" for a seq that cannot  *)
(* be undone, "panic" when the log is shorter than its committed part,     *)
(* "plan" otherwise.                                                       *)

NoPlan == [outcome |-> "nothing", undone |-> {}, before |-> << >>, after |-> << >>,
           log |-> << >>, rewrites |-> FALSE]

\* What is left when the selected events at the end of the log are cut off.
KeptLength(events, targets) == Max({0} \cup (DOMAIN events \ targets))

\* Mutant: also what is committed is cut off.
CutCommitted(kept, committed, remove) == kept

\* Only `--remove` cuts into the committed part.
CutAt(kept, committed, remove) == IF remove THEN kept ELSE Max({kept, committed})

UndoPlan(baseline, events, committed, from, count, remove, now) ==
    LET targets == SelectTargets(events, from, count)
        seqs    == {events[i].seq : i \in targets}
        ids     == {events[i].id : i \in targets}
        base    == Restrict(baseline, DOMAIN baseline \cap ids)
        scoped  == Picked(events, {i \in DOMAIN events : events[i].id \in ids})
        undone  == Undone(scoped)
        kept    == KeptLength(events, targets)
        cut     == CutAt(kept, committed, remove)
        prefix  == SubSeq(events, 1, cut)
        buried  == Reverse(Picked(prefix, targets))
        comps   == BuriedCompensations(base, scoped, buried,
                       undone \cup {events[i].seq : i \in (cut + 1)..Len(events)})
        idle    == count = 0 \/ events = << >>
        known   == IsTarget(events, from)
    IN  CASE idle \/ (known /\ targets = {}) -> NoPlan
          [] ~ idle /\ ~ known -> [NoPlan EXCEPT !.outcome = "refused"]
          [] ~ idle /\ known /\ targets # {} /\ cut > Len(events) ->
                [NoPlan EXCEPT !.outcome = "panic"]
          [] OTHER ->
                [outcome |-> "plan", undone |-> seqs,
                 before |-> Materialize(base, scoped),
                 after  |-> Materialize(base, Originals(scoped, undone \cup seqs)),
                 log    |-> prefix \o Numbered(prefix, comps, now),
                 rewrites |-> remove /\ kept < committed]

----------------------------------------------------------------------------
(* What is asked of a log that undo has worked on.                         *)

\* A mark is of an earlier, original event of the same task, or of none in the log.
MarksAreSound(events) ==
    \A i \in DOMAIN events : events[i].undoes # NoUndo =>
        /\ events[i].undoes < events[i].seq
        /\ \A j \in DOMAIN events : events[j].seq = events[i].undoes =>
              events[j].undoes = NoUndo /\ events[j].id = events[i].id

\* A compensation whose original was folded.
Dangling(events) ==
    {i \in DOMAIN events : /\ events[i].undoes # NoUndo
                          /\ events[i].undoes \notin {events[j].seq : j \in DOMAIN events}}

\* The newest event of each seq is gone; a seq may also be that of a folded event.
WithoutUndone(events, seqs) ==
    LET gone == {Max({i \in DOMAIN events : events[i].seq = s}) : s \in seqs}
    IN  Picked(events, DOMAIN events \ gone)

\* What a state shows of the tasks: the fields and the edges, not the times.
Contents(state) ==
    [id \in DOMAIN state |-> [fields |-> state[id].fields, edges |-> state[id].edges]]

At(state, id) ==
    IF id \in DOMAIN state THEN {Contents(state)[id]} ELSE {}
=============================================================================
