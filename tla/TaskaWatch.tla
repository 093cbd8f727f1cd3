----------------------------- MODULE TaskaWatch -----------------------------
(***************************************************************************)
(* What watch and history say of a log: the tasks that changed since a     *)
(* cursor, comparing two states, and the events of the tasks that match,   *)
(* one by one.                                                             *)
(*                                                                         *)
(* A task that may be missing is a set of at most one element.  A query is *)
(* that of module TaskaQuery; of it watch and history use criteria, ids,   *)
(* open, ready and columns.                                                *)
(***************************************************************************)
EXTENDS TaskaQuery

Cursor(log) == IF log = << >> THEN 0 ELSE log[Len(log)].seq

\* What compaction folded lies at or below the watermark.
Watermark(log) == IF log = << >> THEN 0 ELSE log[1].seq - 1

\* project, and display: the stored part of a task, narrowed to some columns; a
\* task that has none of them is none.
Project(state, id, columns) ==
    LET shown  == RenameToDisplay(state[id].fields)
        fields == Restrict(shown, DOMAIN shown \cap columns)
        edges  == IF "deps" \in columns THEN state[id].edges ELSE {}
    IN  CASE id \notin DOMAIN state -> {}
          [] id \in DOMAIN state /\ columns = {} -> {[fields |-> shown, edges |-> state[id].edges]}
          [] id \in DOMAIN state /\ columns # {} /\ fields = << >> /\ edges = {} -> {}
          [] OTHER -> {[fields |-> fields, edges |-> edges]}

NamesKnown(state, baseline, log, q) ==
    LET vocab == Vocabulary(state, log)
    IN  /\ StoredFilter(vocab, q.criteria)
        /\ \A c \in q.columns : Accepts(vocab, c, "list") /\ ~ IsComputed(c)
        /\ q.ids \subseteq DOMAIN state \cup KnownIds(baseline, log)

Polled(outcome, cursor, updates) ==
    [outcome |-> outcome, cursor |-> cursor, updates |-> updates]

\* Mutant: a task that no longer matches is not reported.
MatchesNow(before, after, id, q) == id \in FilterIds(after, q).ids

\* Entering the filtered set, leaving it and changing inside it.
MatchesEitherSide(before, after, id, q) ==
    id \in FilterIds(before, q).ids \cup FilterIds(after, q).ids

UpdatesBetween(before, after, baseline, log, touched, q) ==
    LET Update(id) == [id |-> id, before |-> Project(before, id, q.columns),
                                  after  |-> Project(after, id, q.columns)]
        matching == {id \in touched : MatchesEitherSide(before, after, id, q)}
    IN  IF NamesKnown(after, baseline, log, q)
           /\ (q.ready => ValidateAndSort(before) # {} /\ ValidateAndSort(after) # {})
        THEN Polled("ok", Cursor(log), {u \in {Update(id) : id \in matching} : u.before # u.after})
        ELSE Polled("refused", 0, {})

\* poll, and collect, which drops the updates that come to nothing.
Poll(baseline, log, since, q) ==
    IF since < Watermark(log) THEN Polled("compacted", 0, {})
    ELSE IF since >= Cursor(log) THEN Polled("ok", Cursor(log), {})
    ELSE CHOOSE poll \in
            {UpdatesBetween(before, after, baseline, log,
                            {log[i].id : i \in {j \in DOMAIN log : log[j].seq > since}}, q) :
                before \in {Materialize(baseline, Picked(log, {i \in DOMAIN log : log[i].seq <= since}))},
                after  \in {Materialize(baseline, log)}} : TRUE

----------------------------------------------------------------------------
(* History.                                                                *)

NoHistory == [outcome |-> "refused", cursor |-> 0, entries |-> << >>, compacted |-> 0]

\* Mutant: a task is selected by what it was before the event.
SelectedAtEvent(states, log, since, id, q) == FilterMatches(states[1], id, q)

\* By its state at the end, a task that is gone by the one before it was deleted.
SelectedTask(states, log, since, id, q) ==
    LET final == states[Len(log) + 1]
        deletes == {i \in DOMAIN log : /\ log[i].seq > since
                                      /\ log[i].op = "Delete"
                                      /\ log[i].id = id
                                      /\ id \in DOMAIN states[i]}
    IN  IF id \in DOMAIN final THEN FilterMatches(final, id, q)
        ELSE deletes # {} /\ FilterMatches(states[Max(deletes)], id, q)

LastOf(s, count) == SubSeq(s, Max({1, Len(s) - count + 1}), Len(s))

\* The i-th event as history lists it; states[i] is the state before it.
EntryOf(states, log, q, i) ==
    [seq |-> log[i].seq, op |-> log[i].op, id |-> log[i].id, undoes |-> log[i].undoes,
     before |-> Project(states[i], log[i].id, q.columns),
     after  |-> Project(states[i + 1], log[i].id, q.columns)]

\* Not that of a missing task, nor one that changes none of the columns asked for.
Listed(states, log, since, q, i) ==
    /\ log[i].seq > since
    /\ log[i].id \in DOMAIN states[i] \cup DOMAIN states[i + 1]
    /\ q.columns # {} =>
          EntryOf(states, log, q, i).before # EntryOf(states, log, q, i).after
    /\ SelectedTask(states, log, since, log[i].id, q)

\* since = 0 is no bound.
HistoryOf(states, baseline, log, since, q, count, reverse) ==
    LET listed == LastOf(Picked([n \in DOMAIN log |-> n],
                                {i \in DOMAIN log : Listed(states, log, since, q, i)}), count)
    IN  IF \/ since # 0 /\ since < Watermark(log)
           \/ ~ NamesKnown(states[Len(log) + 1], baseline, log, q)
        THEN NoHistory
        ELSE [outcome |-> "ok", cursor |-> Cursor(log), compacted |-> Watermark(log),
              entries |-> [n \in DOMAIN listed |->
                  EntryOf(states, log, q, IF reverse THEN listed[Len(listed) + 1 - n]
                                          ELSE listed[n])]]

History(baseline, log, since, q, count, reverse) ==
    CHOOSE h \in {HistoryOf(states, baseline, log, since, q, count, reverse) :
                      states \in {Append([i \in DOMAIN log |->
                                             Materialize(baseline, SubSeq(log, 1, i - 1))],
                                         Materialize(baseline, log))}} : TRUE
=============================================================================
