--------------------------- MODULE TaskaTimeline ----------------------------
(***************************************************************************)
(* A store over time: commands append to its log, `ta save` commits it,    *)
(* compaction folds its beginning, undo rewrites its end in two steps (a   *)
(* preview, and the confirmation of what was previewed), and a watch loops *)
(* over it from a cursor.  Each step holds the write lock; what happens    *)
(* inside one is module TaskaStore's subject.                              *)
(***************************************************************************)
EXTENDS TaskaUndo, TaskaWatch

CONSTANTS
    Commands,    \* the commands that may be run
    Genesis,     \* the events the store starts from
    KeepEvents,  \* compaction retains this many events
    WatchQuery,  \* what the watch asks for
    Queries,     \* what else may be asked from its cursor
    MaxCount,    \* bound: events of one undo
    Starts       \* bound: [watched, steps], with a watch or without, and the
                 \* number of steps that everybody but the watch takes

ASSUME CommandsAssumption == \A c \in Commands : IsCommand(c) /\ c.cmd \in Writers

ASSUME KeepAssumption == KeepEvents \in Nat

\* The store starts from a log that loads, of events that an earlier store logged.
ASSUME GenesisAssumption ==
    /\ Genesis \in Seq({Genesis[i] : i \in DOMAIN Genesis})
    /\ \A i \in DOMAIN Genesis :
          /\ "seq" \in DOMAIN Genesis[i] /\ Genesis[i].seq \in Nat \ {NoUndo}
          /\ Genesis[i].op \in EventOps
    /\ SeqOrdered(Genesis)
    /\ MarksAreSound(Genesis)

VARIABLES
    baseline,  \* the folded state
    log,       \* the mutation log
    head,      \* the log as of the last commit
    pending,   \* the undo that waits to be confirmed
    phase,     \* where the watch stands: "stat", "collect", "holdout",
               \* "sleep", "off"; "none" without a watch
    cursor,    \* the seq it resumes from
    fresh,     \* whether the log's fingerprint differs from the one it saw last
    left,      \* steps left
    kept,      \* ghost: the events ever logged, without those undone
    muddled,   \* ghost: an undo was "stale", or met a mark of a "folded" event; or "no"
    seen,      \* ghost: the state that the cursor stands for
    overtaken  \* ghost: seqs up to the cursor were taken back

store   == << baseline, log >>
watch   == << phase, cursor, seen >>
ghosts  == << kept, muddled >>
vars    == << baseline, log, head, pending, phase, cursor, fresh, left,
              kept, muddled, seen, overtaken >>

State == Materialize(baseline, log)

Idle == Over([stale |-> FALSE, remove |-> FALSE, committed |-> 0], NoPlan)

Outdated == [pending EXCEPT !.stale = pending.outcome = "plan"]

NewEvents(drafts) ==
    [i \in DOMAIN drafts |->
        [seq |-> NextSeq(log) + i - 1, ts |-> 1, op |-> drafts[i].op, id |-> drafts[i].id,
         payload |-> drafts[i].payload, undoes |-> NoUndo]]

\* The seqs up to the cursor no longer stand for what they stood for, or the log no
\* longer tells that its beginning was folded.
Overtaken(newLog) ==
    \/ NextSeq(newLog) <= cursor
    \/ NextSeq(newLog) <= Watermark(log)
    \/ \E i \in DOMAIN log : log[i].seq <= cursor /\ log[i] \notin Range(newLog)

Init ==
    /\ baseline = << >> /\ log = Genesis /\ head = << >> /\ pending = Idle
    /\ cursor = Cursor(Genesis) /\ fresh = TRUE
    /\ \E s \in Starts : phase = (IF s.watched THEN "stat" ELSE "none") /\ left = s.steps
    /\ kept = Genesis /\ muddled = "no" /\ seen = Materialize(<< >>, Genesis)
    /\ overtaken = FALSE

Tick == left > 0 /\ left' = left - 1

Write(c) ==
    /\ Tick
    /\ \E out \in {Build(c, State, PayloadFields(log)).out} :
          /\ out # << >>
          /\ log' = log \o NewEvents(out)
          /\ kept' = kept \o NewEvents(out)
    /\ fresh' = TRUE
    /\ overtaken' = (overtaken \/ Overtaken(log'))
    /\ pending' = Outdated
    /\ UNCHANGED << baseline, head, watch, muddled >>

Save ==
    /\ Tick
    /\ head' = log /\ head # log
    /\ UNCHANGED << store, pending, watch, fresh, ghosts, overtaken >>

Compact ==
    /\ Tick
    /\ \E n \in {RetentionSplit(log, KeepEvents, 0, 1)} :
          /\ n > 0
          /\ baseline' = Materialize(baseline, SubSeq(log, 1, n))
          /\ log' = SubSeq(log, n + 1, Len(log))
    /\ fresh' = TRUE
    /\ pending' = Outdated
    /\ UNCHANGED << head, watch, ghosts, overtaken >>

----------------------------------------------------------------------------
(* Undo.                                                                   *)

Plan(from, count, remove) ==
    UndoPlan(baseline, log, Len(head), from, count, remove, 1)

Preview(from, count, remove) ==
    /\ Tick
    /\ pending.outcome # "plan"
    /\ \E p \in {Plan(from, count, remove)} :
          /\ p.outcome = "plan"
          /\ pending' = Over([stale |-> FALSE, remove |-> remove, committed |-> Len(head)], p)
    /\ UNCHANGED << store, head, watch, fresh, ghosts, overtaken >>

\* The log becomes what was previewed, whatever it is by now.
Confirm ==
    /\ pending.outcome = "plan"
    /\ log' = pending.log
    /\ kept' = WithoutUndone(kept, pending.undone)
    /\ muddled' = IF pending.stale \/ muddled = "stale" THEN "stale"
                  ELSE IF \E i \in Dangling(log), j \in DOMAIN log :
                              log[j].seq \in pending.undone /\ log[j].id = log[i].id
                       THEN "folded" ELSE muddled
    /\ overtaken' = (overtaken \/ Overtaken(log'))
    /\ fresh' = TRUE
    /\ pending' = Idle
    /\ UNCHANGED << baseline, head, watch, left >>

Abort ==
    /\ pending.outcome = "plan"
    /\ pending' = Idle
    /\ UNCHANGED << store, head, watch, fresh, left, ghosts, overtaken >>
----------------------------------------------------------------------------
(* The watch, run again and again by an agent with the cursor it was told. *)

Polling == Poll(baseline, log, cursor, WatchQuery)

\* Nothing is read while the fingerprint is the one of the last look.
Stat ==
    /\ phase = "stat"
    /\ phase' = (IF fresh THEN "collect" ELSE "sleep") /\ fresh' = FALSE
    /\ UNCHANGED << store, head, pending, cursor, seen, left, ghosts, overtaken >>

\* The first match opens the holdout; an error ends the process.
Collect ==
    /\ phase = "collect"
    /\ \E p \in {Polling} :
          phase' = IF p.outcome # "ok" THEN "off"
                   ELSE IF p.updates = {} THEN "sleep" ELSE "holdout"
    /\ UNCHANGED << store, head, pending, cursor, seen, fresh, left, ghosts, overtaken >>

\* After the holdout the log is read once more; a burst may have undone itself.
Report ==
    /\ phase = "holdout"
    /\ \E p \in {Polling} :
          /\ p.outcome = "ok" /\ p.updates # {}
          /\ cursor' = p.cursor
    /\ seen' = State /\ overtaken' = FALSE
    /\ phase' = "stat" /\ fresh' = TRUE
    /\ UNCHANGED << store, head, pending, left, ghosts >>

Nothing ==
    /\ phase = "holdout"
    /\ \E p \in {Polling} :
          /\ p.outcome # "ok" \/ p.updates = {}
          /\ phase' = IF p.outcome = "ok" THEN "sleep" ELSE "off"
    /\ UNCHANGED << store, head, pending, cursor, seen, fresh, left, ghosts, overtaken >>

\* Mutant: the fingerprint is taken once more, after the read.
SleepAndStat ==
    /\ phase = "sleep"
    /\ phase' = "stat" /\ fresh' = FALSE
    /\ UNCHANGED << store, head, pending, cursor, seen, left, ghosts, overtaken >>

Sleep ==
    /\ phase = "sleep"
    /\ phase' = "stat"
    /\ UNCHANGED << store, head, pending, cursor, seen, fresh, left, ghosts, overtaken >>

\* The deadline passes between two looks.
Deadline ==
    /\ phase = "sleep"
    /\ phase' = "off"
    /\ UNCHANGED << store, head, pending, cursor, seen, fresh, left, ghosts, overtaken >>

\* The agent runs it again, from the same cursor or from the present one.
Restart(resync) ==
    /\ phase = "off"
    /\ phase' = "stat" /\ fresh' = TRUE
    /\ cursor' = IF resync THEN Cursor(log) ELSE cursor
    /\ seen' = IF resync THEN State ELSE seen
    /\ overtaken' = (overtaken /\ ~ resync)
    /\ UNCHANGED << store, head, pending, left, ghosts >>

Looking == Stat \/ Collect \/ Report \/ Nothing \/ Sleep

Seqs == {0} \cup {log[i].seq : i \in DOMAIN log}

Next ==
    \/ \E c \in Commands : Write(c)
    \/ Save
    \/ Compact
    \/ \E from \in Seqs, count \in 1..MaxCount, remove \in BOOLEAN : Preview(from, count, remove)
    \/ Confirm
    \/ Abort
    \/ Looking
    \/ Deadline
    \/ \E resync \in BOOLEAN : Restart(resync)

Spec == Init /\ [][Next]_vars

\* The loop looks again every second until its deadline.
FairSpec == Spec /\ WF_vars(Looking)
----------------------------------------------------------------------------
(* What the watch sees, what undo must not do to the log, and a write not  *)
(* to the names known.                                                     *)

\* From its cursor a watch sees exactly the tasks that matched then or match now and
\* look different, as they were at the cursor and as they are, as long as the seqs
\* it has seen were not taken back and no stale plan was confirmed; and it is sent
\* back only when events it has not seen were folded (poll).
NothingMissed ==
    muddled # "stale" /\ ~ overtaken =>
        \A q \in Queries, now \in {State} : \A p \in {Poll(baseline, log, cursor, q)} :
            /\ p.outcome = "ok" =>
                  p.updates = {u \in {[id |-> id, before |-> Project(seen, id, q.columns),
                                       after |-> Project(now, id, q.columns)] :
                                        id \in {t \in DOMAIN seen \cup DOMAIN now :
                                                  \E state \in {seen, now} :
                                                      FilterMatches(state, t, q)}} :
                                 u.before # u.after}
            /\ p.outcome = "compacted" => cursor + 1 < log[1].seq

\* A query of all tasks, in some columns.
EveryTask(columns) ==
    [criteria |-> {}, ids |-> {}, open |-> FALSE, ready |-> FALSE, columns |-> columns]

OfTask(entries, id) == {n \in DOMAIN entries : entries[n].id = id}

\* Each entry goes on from the one of its task before it.
Chained(entries) ==
    \A m, n \in DOMAIN entries :
        /\ n \in OfTask(entries, entries[m].id) /\ m < n
        /\ (m + 1)..(n - 1) \cap OfTask(entries, entries[m].id) = {}
        => entries[n].before = entries[m].after

\* What the entries of each task come to.
NetOf(entries) ==
    {u \in {[id |-> id, before |-> entries[Min(OfTask(entries, id))].before,
             after |-> entries[Max(OfTask(entries, id))].after] :
               id \in {entries[n].id : n \in DOMAIN entries}} :
       u.before # u.after}

\* A poll and a history tell the same.
TellTheSame(poll, history) ==
    /\ poll.outcome = "ok" /\ history.outcome = "ok"
    /\ Chained(history.entries) /\ poll.updates = NetOf(history.entries)

\* Two ways to tell the same story of all tasks: what history lists of a task, event by
\* event, leads from one state to the next, from what poll shows before to what it shows
\* after, and neither refuses names that are known from a cursor in the log (poll, history).
PollIsNetOfHistory ==
    \A since \in {log[i].seq : i \in DOMAIN log}, columns \in {q.columns : q \in Queries} :
        NamesKnown(State, baseline, log, EveryTask(columns)) =>
            TellTheSame(Poll(baseline, log, since, EveryTask(columns)),
                        History(baseline, log, since, EveryTask(columns), Len(log), FALSE))

\* No event of the log that the store starts from undoes another.
OnlyOriginals == \A i \in DOMAIN Genesis : Genesis[i].undoes = NoUndo

\* However events were undone, cut off or compensated, the store shows the tasks as
\* if the undone events had never been logged (undo.rs: "replaying AS IF that
\* original (and every already-undone one) never happened"); a stale plan and a
\* compensation whose original was folded are the exceptions.
UndoIsAsIfNever ==
    muddled = "no" => Contents(State) = Contents(Materialize(<< >>, kept))

\* What undo previews of a task is what the log it would write makes of it, and it
\* changes no other task.  A task one of whose compensations lost its original to a
\* fold is previewed without that compensation and written with it; once such a plan,
\* or a stale one, was confirmed, previews and logs of later undos may differ as well.
PreviewIsHonest ==
    pending.outcome = "plan" /\ ~ pending.stale =>
        \A new \in {Materialize(baseline, pending.log)} :
            LET ids   == {log[i].id : i \in {j \in DOMAIN log : log[j].seq \in pending.undone}}
                clear == ids \ {log[i].id : i \in Dangling(log)}
            IN  /\ muddled = "no" => \A id \in clear : At(new, id) = At(pending.after, id)
                /\ \A id \in (DOMAIN new \cup DOMAIN State) \ ids : At(new, id) = At(State, id)

\* While the log only grew since the last commit, undo without --remove leaves it so:
\* unless the log or the commit changed after the preview, no committed event is
\* taken back.
UndoKeepsCommitted ==
    [][/\ pending.outcome = "plan" /\ log' = pending.log
       /\ ~ pending.stale /\ pending.committed = Len(head) /\ ~ pending.remove
       /\ IsPrefix(head, log)
       => IsPrefix(head, log')]_vars

\* The mark of a compensation names an earlier, original event of the same task, or
\* one that was folded: never an event that was given a freed seq.
UndoMarksAreSound == MarksAreSound(log)

\* A write never makes a name unknown: a guard or filter that named a field before it
\* can name it after (Vocabulary::build).  Compaction and undo forget names, and a
\* deletion forgets those that only the folded events of the task had used.
WritesForgetNoName ==
    [][log' # log /\ IsPrefix(log, log') /\ baseline' = baseline =>
          Vocabulary(State, log).columns
              \subseteq Vocabulary(State', log').columns
                           \cup {DisplayName(k) : k \in UsedFields(baseline)}]_vars
=============================================================================
