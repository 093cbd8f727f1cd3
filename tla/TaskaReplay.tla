----------------------------- MODULE TaskaReplay -----------------------------
(***************************************************************************)
(* The replay engine at work: a log that grows by one event at a time, of  *)
(* any kind and on any task, and the task map replay keeps of it.  The     *)
(* timestamps are those of several clocks, so they need not grow with the  *)
(* log, and events may target tasks that do not exist: merges and reverts  *)
(* leave such logs (the write gate, which would refuse them, is in module  *)
(* TaskaGate).                                                             *)
(***************************************************************************)
EXTENDS TaskaEngine

CONSTANTS
    Drafts,   \* the [op, id, payload] an event may carry
    Times,    \* the timestamps it may carry
    MaxLen    \* bound on the length of the log

\* No command appends to the status: the gate refuses it (single_valued_target).
ASSUME ReplayAssumption ==
    /\ Times \subseteq Nat \ {NoTime}
    /\ MaxLen \in Nat
    /\ \A s \in ClosedStatuses : IsText(s)
    /\ \A d \in Drafts :
          /\ d.op \in EventOps
          /\ d.op = "Append" => StatusKey \notin DOMAIN d.payload

VARIABLES log, tasks

vars == << log, tasks >>

Init == log = << >> /\ tasks = << >>

Replay(d, ts) ==
    /\ Len(log) < MaxLen
    /\ LET e == [seq |-> Len(log) + 1, ts |-> ts, op |-> d.op, id |-> d.id,
                 payload |-> d.payload]
       IN  /\ log' = Append(log, e)
           /\ tasks' = Apply(tasks, e)

Next == \E d \in Drafts, ts \in Times : Replay(d, ts)

Spec == Init /\ [][Next]_vars

----------------------------------------------------------------------------

TypeOK ==
    /\ SeqOrdered(log)
    /\ \A id \in DOMAIN tasks :
          /\ DOMAIN tasks[id] = DOMAIN NewTask
          /\ \A k \in DOMAIN tasks[id].fields : tasks[id].fields[k] # Null

After(i) == Materialize(<< >>, SubSeq(log, 1, i))

ClosedAfter(i, id) == id \in DOMAIN After(i) /\ IsDone(After(i)[id].fields)

Closings(id) == {i \in DOMAIN log : ClosedAfter(i, id) /\ ~ ClosedAfter(i - 1, id)}

\* close_time is the time of the event that last took the task from not closed to
\* closed, and unset while it is open: moving between closed statuses keeps it,
\* reopening, deleting and appending in between do not confuse it
\* (refresh_close_time).
CloseTimeIsLastClosing ==
    \A id \in DOMAIN tasks :
        tasks[id].closed =
            IF ClosedAfter(Len(log), id) THEN log[Max(Closings(id))].ts ELSE NoTime

Mine(id) == {i \in DOMAIN log : log[i].id = id}

\* The creates since the task was last deleted.
Births(id) ==
    {i \in Mine(id) : /\ log[i].op = "Create"
                      /\ \A j \in Mine(id) : log[j].op = "Delete" => j < i}

\* create_time is that of the first create since the task was last deleted,
\* update_time that of the last event on it, whatever the clocks say.
TimesFollowTheLog ==
    \A id \in DOMAIN tasks :
        /\ tasks[id].created = log[Min(Births(id))].ts
        /\ tasks[id].updated = log[Max(Mine(id))].ts

\* Dropping every orphan changes no task, and leaves no other orphan behind
\* (resolve drops them all at once).
OrphansAreNeutral ==
    LET kept == DropSeqs(log, Orphans(<< >>, log))
    IN  /\ Materialize(<< >>, kept) = tasks
        /\ Orphans(<< >>, kept) = {}

\* Compaction keeps the last event, the newest keepEvents and everything from the
\* first event inside the window on, and folds all the rest (retention_split).
RetentionIsExact ==
    \A keep \in 0..MaxLen, days \in 0..2, now \in Times :
        LET split == RetentionSplit(log, keep, days, now)
            Retained(i) ==
                \/ i = Len(log)
                \/ i > Len(log) - keep
                \/ days # 0 /\ \E j \in 1..i : log[j].ts >= now - days
        IN  \A i \in DOMAIN log : i > split <=> Retained(i)

Swapped(i) == [log EXCEPT ![i] = log[i + 1], ![i + 1] = log[i]]

Fields(state) == [id \in DOMAIN state |-> state[id].fields]

Commute(i) == Fields(Materialize(<< >>, Swapped(i))) = Fields(tasks)

\* Two neighbouring Adds, or two Removes, can come in either order, as they do
\* when branches merge in one direction or the other.
AddsCommute ==
    \A i \in 1..(Len(log) - 1) :
        log[i].op = log[i + 1].op /\ log[i].op \in {"Add", "Remove"} => Commute(i)
=============================================================================
