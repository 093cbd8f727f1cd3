# A TLA+ model of taska

taska (`ta`) is a task tracker that lives in a version-controlled repository. Tasks are
not stored: every command appends events to a log (`mutations.jsonl`), an old prefix of
which compaction folds into a snapshot (`baseline.jsonl`), and the tasks are what replay
makes of the two. This directory models the parts of taska that decide what is in these
two files and what is said about them, checks them with TLC and proves theorems with
TLAPS. Paths below are relative to the repository, and `x.rs` stands for `src/x.rs`.

## The system

| Component | State | Operations | Correct when |
|---|---|---|---|
| Replay engine (`engine.rs`, `model.rs`) | none; a fold from a baseline and a log to a task map | `apply`, `materialize_state`, `materialize_report`, `retention_split` | computed times follow the log, not the clocks; orphans have no effect; the retention split keeps what the policy says |
| Event store (`storage.rs`) | the log and baseline files, an OS lock on the log | `append_checked`, `compact`, `replace_mutations`, loads | one writer at a time; seqs strictly increase; what was vetted is what is written; nothing is lost |
| Write gate (`schema.rs`, `action/write.rs`, `action/columns.rs`) | none; decides on a state | create, update, delete: shaping, coercion, defaults, vetting, schemas, transitions, typo guard, `--if` | what it previews is what replay makes of it; no task escapes its schema; no event without effect is logged |
| Dependency edges (`action/dep.rs`, `graph.rs`) | edges in the tasks | dep add, remove, cycles, plan, tree | one blocker per pair and direction, one parent; reports about the graph are right |
| Compaction (`action/compact.rs`) | the two files | fold a prefix of the log | changes no task |
| Resolve (`action/resolve.rs`) | the two files, the conflict marker | drop orphans, rewrite the log | changes no task |
| Merge driver (`merge.rs`) | three versions of each file | merge logs, keep ours' baseline | same tasks in either direction; nothing lost or applied twice without a word |
| Undo (`action/undo.rs`) | the log, a previewed plan | compensate or cut off events | the state is the one without the event; commits stay |
| Watch and history (`action/watch.rs`, `action/history.rs`) | a cursor | follow the log | no change missed or invented, also over compaction |
| Queries (`action/list.rs`, `read.rs`, `show.rs`, `status.rs`) | none | filter, sort, show | one grammar; reports agree with each other and with a moment of the history |
| Configuration (`config.rs`, `action/config.rs`) | `config.toml` | validate, set | what is accepted can be lived with; one namespace |
| Editor form (`action/edit.rs`) | a form and a snapshot | diff against the task as opened | writes only what was edited |
| Repair (`action/repair.rs`) | the files | rewrite logged events to fit the types | keeps what conforms; settles |
| Setup, front end (`action/init.rs`, `scm.rs`, `cli`, `format.rs`) | git configuration | create, register drivers, parse, render | not modelled |

How they interact: a write command hands the store a closure (the gate); the store takes
the lock, reads both files, materializes them, runs the closure, numbers the events it
returns and appends them, all before it unlocks. Compact, resolve, repair and a confirmed
undo read *before* the lock and hand the store whole new files; `config set` reads the
tasks and writes the configuration without it. Readers take no lock. A watch
reads again and again from a seq it remembers. The editor holds a task open for as long
as its user likes. git calls the merge drivers on files that both branches changed. The
configuration, which says what every name and value means, is read once per command.

What is hard: processes interleave between every two system calls; some commands write
back what they read outside the lock; a process can die after any write; the event and
its newline are two writes; readers see two files at two moments; seqs that were handed
out are taken back by undo and handed out again, while cursors and marks still name
them; merges restack one branch's events after the other's and renumber them; clocks of
different machines disagree; a configuration changes under the data; two pieces of code
(a preview and a write, a filter and a guard, poll and history) must mean the same.

## The modules

The operators are layered; each module extends those it builds on.

    TaskaValues - TaskaEngine - TaskaGate - TaskaGraph - TaskaTree
                                    |            \- TaskaQuery - TaskaWatch
                                    |                  \- TaskaEdit, TaskaRepair - TaskaDesk
                                    \- TaskaUndo, TaskaMerge
    state machines: TaskaReplay, TaskaLedger, TaskaStore (implements TaskaLedger),
                    TaskaReads (TaskaLedger and its readers),
                    TaskaBranches, TaskaTimeline (undo and watch),
                    TaskaEvolve (a TaskaDesk for each TaskaConfig configuration)

* **TaskaValues, TaskaEngine** - replay, as operators on task maps and logs. `Apply` is
  `Engine::apply` with `apply_set`, `apply_append`, `apply_accumulate` and
  `refresh_close_time`; `Materialize`, `Orphans`, `RetentionSplit`, `NextSeq`,
  `SeqOrdered` and `DropSeqs` are what their Rust namesakes are. A task is its stored
  fields, edges and three computed times. Values are null, text (a sequence of lines),
  numbers (with the widening to floats past a range, `ExactMax`/`IntMax`) and sets.
* **TaskaReplay** - a log growing by any event with any timestamp, and the task map.
* **TaskaGate** - the write gate as a function: `Build(command, state, past)` gives the
  events a command would append or refuses. `BuildFieldEvents` shapes an update,
  `VetDraft`/`VetEvents` are `vet_events`, `Conforms` is `schema_violations`,
  `TransitionsHold` is `enforce_transitions`, `EnsureGuard` is the `--if` check,
  `BlockersAllowed` is `validate_blocker_additions`.
* **TaskaLedger** - the abstract specification of the store: a task map that changes by
  whole commands the gate accepts in that map, and by nothing else.
* **TaskaStore** - the detailed one: processes with program counters, the log file line
  by line with its last newline, the baseline, the lock. `Start` picks a command; `Lock`
  is `open_log_locked` with the reads made under it; `Accept`/`Decline` are the closure;
  `WriteBody`/`WriteNewline` are the two halves of `writeln!`; `LoadBaseline`,
  `LoadLogToCompact`, `LoadLogToResolve`, `Reload` and `LoadLogToRead` are the unlocked
  reads, each a step of its own; `TruncateBaseline`, `WriteBaselineTask`, `TruncateLog`,
  `SkipLine` are the rewrites; `Unlock` drops the file; `Crash` can strike anywhere.
  It refines the ledger (`ImplementsLedger`, with `Settled` as the mapped task map).
* **TaskaGraph, TaskaTree** - readiness, reachability, topological orders, cycles, plans
  and the critical path; the forest of `dep tree` with sharing, cycle marks and `--open`.
  Petgraph is modelled by what it promises: any topological order, the components.
* **TaskaQuery** - reading with defaults substituted, display names, the vocabulary of
  known names, criteria, guards, filters, sorting, inverse edges, list, show, status.
* **TaskaReads** - the ledger and what the commands that read it tell of one task map:
  the properties by which list, show, status, history and `--if` agree, and reference
  definitions of what a task needs, a workable plan and a longest chain.
* **TaskaUndo** - `UndoPlan` is `plan`: selection, the cut, the compensations made by
  replaying as if the original never happened, inert marks, the states it previews.
* **TaskaWatch** - `Poll` is `poll` with `collect`; `History` is `history`.
* **TaskaTimeline** - one store over time: commands, commits (the `head` undo counts
  events of), compaction, undo as preview and confirmation, and the watch loop of
  `cmd_watch` with its phases (fingerprint, collect, holdout, sleep, deadline, restart).
  A ghost keeps the events that were logged and not undone: the abstract store an undo
  implements, compared with the real one by `UndoIsAsIfNever`.
* **TaskaConfig** - validity of a configuration by itself and against the graph, and
  `Desk(c)`, the gate, queries, editor and repair under configuration `c`.
* **TaskaEdit, TaskaRepair** - the form, its payload, preview and write; `repair schema`
  with its three passes in order.
* **TaskaEvolve** - a store whose configuration is set and edited by hand while commands
  write, compaction folds, repair rewrites and one user has a form open.
* **TaskaMerge** - the merge driver as operators: `MergeLogs` is `merge_logs`, `Delta` is
  `summarize`, `Resolve` with `ResolveDelete`, `ResolveFields`, `ResolveEdges` is
  `resolve`, `Assemble` is `assemble`; plus what it warns about.
* **TaskaBranches** - two branches on which commands are committed (through the gate),
  reverted and compacted, and which merge each other. git is modelled from how `scm.rs`
  registers the drivers: fast-forward when possible, a file changed on one side only is
  taken from there, the driver runs when both changed.
* **MC...** - the small instances; **Taska...Proofs** - the theorems.

Operators whose comment begins with "Mutant:" are wrong variants of the definition after
them: with the variant in its place TLC finds a property violated, which shows that the
property is about the code.

## The runs

| Run | What it shows | Properties |
|---|---|---|
| `replay` | computed times, orphans, the retention split and the order of accumulating events agree with their definitions over the whole log | `CloseTimeIsLastClosing`, `TimesFollowTheLog`, `OrphansAreNeutral`, `RetentionIsExact`, `AddsCommute` |
| `gate` | every accepted batch leaves every task conforming and terminal values alone, blockers and parents unique, and every event counts | `EveryTaskConforms`, `EveryLoggedEventCounts`, `OneBlockerOneParent`, `TerminalIsForever` |
| `store_window` | of processes racing for a task one wins, and the store is a serial ledger; compact and resolve, while nobody writes, change no task of it; a reader beside any of them sees a moment of the history, unless a rewriting came between its two reads | `OneWinner`, `ReadIsMomentUnlessRewritten`, `ImplementsLedger` |
| `store_overlap` | with everything overlapping and processes dying: order, atomic vetting, and every command ends | `TypeOK`, `LogOrdered`, `BatchLandsOnVettedStore`, `CommandsEnd` |
| `merge` | merged logs are in order, losses are warned about, both directions agree, the newest write wins, also after both branches compacted or reverted | `LogsOrdered`, `LossIsWarned`, `MergeConverges`, `NewestWriteWins` |
| `queries` | reports about graph, tree, filters and guards agree with each other and with reference definitions by chains of blockers | `OpenWorkIsReadyOrBlocked`, `NeedsAreReported`, `PlansAreRight`, `TreeIsComplete`, `OneGrammar` |
| `timeline` | undone events are as if never logged, previews are honest, commits stay; the watch misses nothing that stays and agrees with history | `UndoIsAsIfNever`, `PreviewIsHonest`, `UndoMarksAreSound`, `UndoKeepsCommitted`, `NothingMissed`, `PollIsNetOfHistory`, `WritesForgetNoName`, `StableChangeIsReported` |
| `evolve` | a saved form lands as previewed and leaves others' work; valid types can be lived with; names round-trip; repair keeps what conforms and settles | `PreviewedSaveLands`, `SaveKeepsOthersWork`, `TypesAreUsable`, `NamesRoundTrip`, `RepairKeepsWhatFits`, `RepairSettles` |

Four runs show a statement of the repository that the code does not keep:

| Run | What happens |
|---|---|
| `store_claim` | compact reads, another process claims a task and is told so, compact overwrites the log with what it read, a second process claims the task too. README: "exactly one wins" |
| `store_read` | a reader loads the baseline, a compaction swaps both files, the reader loads the log: what it shows lacks the folded events, and the seq shown with it is that of the new log. `read.rs:25-26`: "the cursor this state is as-of" |
| `merge_fold` | topic compacts, main commits. git takes topic's baseline, which main did not change, and the driver keeps main's whole log: `points+=1` counts twice, with no warning. README: compaction retains enough "so concurrent branches can still be reconciled" |
| `edit_type` | under `untyped_tasks = deny` with one type, the form for a new task suggests the type, leaves the untouched line out of what it saves, nothing stamps it, and the save is refused as untyped. `edit.rs:398`: "untouched suggestions stay out, so `write::create` stamps them" |

### Bounds, and why they are enough

* `replay`: every log of 4 of 12 events on a task and its edges, clocks 1 and 3. Four
  events give close, reopen, close, and create, delete, create, with one in between; the
  clocks may run backwards.
* `gate`: three tasks, two closed types with workflows, three blocking relationships (one
  hierarchy), some thirty commands in unbounded sequences. The schema excludes values past
  small numbers and texts, which makes the state space finite and lets coercion, defaults
  and refusals all happen.
* `store_*`: two processes, as each hazard is a step of one between two of another;
  `MaxOps` commands, two crashes in `store_overlap`. `Exclusive` (in `store_window` only)
  lets compact and resolve run while nobody writes and they do not overlap each other;
  readers run beside them. The code has no such guard: what happens when a write overlaps
  a compaction is `store_claim`, and what the lock guarantees all the same is checked by
  `store_overlap` without it. The processes of `store_window` are alike (`ProcsAlike`).
* `merge`: 4 steps of commits, reverts and compactions (at most 3, 1 and 2), three clock
  readings in any order, one merge, policy `latest`, `keep_events` 2.
* `queries`: four tasks with a diamond, a subtask, a symmetric link, an edge that closes a
  cycle, a target that can be deleted and come back, and one defaulted field; the ledger
  is unbounded and reaches every task map of it. The reference definitions go over every
  set of tasks and every chain of open tasks.
* `timeline`: two tasks, five commands, undo of up to two events, `keep_events` 2; three
  steps beside the watch, or four without one. Three are a write, an undo of it and another
  write in its seq; four allow an undo of an undone log with a commit or a fold between.
* `evolve`: three steps of thirteen settings, one of which declares two types, a hand edit,
  five commands, one of which writes the column that repair may rename to the type, repairs,
  compaction and opening a form; saving one of some ten documents, each one line away from
  the template, costs no step. The data were begun without schemas, so each value that a
  new rule does not fit is there from the start.

`CHECK_DEADLOCK FALSE` is said where a bound on steps, commands or the log ends the run.

### What the properties except

Where a property has a precondition, the excluded case is one in which the code as read
does not do what the property says; it is named here rather than hidden:

* `ReadIsMomentUnlessRewritten`: not for a reader whose baseline was replaced before it
  read the log, or that reads the log while a compaction or a resolve is rewriting the
  files (`read.rs:60-63`; see `store_read`).
* `MergeConverges`, `NewestWriteWins`: nothing is asked where a freed seq was used again
  with different content, where an event was reverted whose seq is not above the
  watermarks of both branches - one that was the earliest of its log or that the other
  branch has folded (`docs/MERGE.md` names both cases) - or where a branch wrote to a task
  it then deleted. `NewestWriteWins` also leaves out tasks a branch deleted, and compares
  the writes the logs still hold. `MergeConverges` and `LossIsWarned` ask nothing when only
  one branch compacted (see `merge_fold`) or when events after the fork were folded, which
  `keep_events` is there to prevent. The first two judge the first merge only: a later one
  finds the fork by seqs that the first has renumbered.
* `UndoIsAsIfNever`: not after a stale plan was confirmed (`muddled = "stale"`: the log
  changed after the preview and is overwritten), nor where the undone event's task has a
  compensation whose original was folded: the mark stays without its original, and the
  next undo on the task replays the folded event (`undo.rs:107-111`).
* `PreviewIsHonest`: about the tasks an undo takes back, not those that have such a
  compensation, and none once an undo met one or was stale: then the store no longer shows
  what the marks of its log say, and a preview, which goes by the marks, shows something
  else than the log it writes. About all other tasks it always holds.
* `UndoKeepsCommitted`: only while the log has grown since the commit. Where it has become
  shorter than the committed count, the code slices past its end and panics
  (`undo.rs:155-158`), the outcome `"panic"`.
* `NothingMissed`: not once seqs up to the cursor were taken back: an undo frees them, the
  next write gets them again, and the watch takes it for seen (`watch.rs:33-36`). Nor once
  an undo left no event of a log whose beginning had been folded: with the log goes its
  watermark, and an older cursor is told that nothing happened, although the watermark is
  there to "error rather than mislead" (`watch.rs:73-75`). Nor after a stale plan.
* `NamesRoundTrip`: not for a task that stores a field whose name a later setting gave to
  the status, the type, a time or a relationship.
* `RepairSettles`, `RepairKeepsWhatFits`: not for fields that a later event appended to,
  removed from, unset, or whose task was deleted; compare `repair.rs:352-375`
  with README.md:360, "All idempotent".
* The same two, with `--rename`: whether a record already carries the new name is asked of
  each event and each baseline task by itself (`repair.rs:160-188`). So under
  `--rename type=kind` a typed task gets another type when a later event set only `kind`,
  to a declared type: `RepairKeepsWhatFits` excepts it (`Retyped`), and of the renamed
  column asks nothing. And where two records of a task speak of the column, under the old
  name or the new, the outcome depends on whether they were folded: the part of
  `RepairSettles` that compares a repair before a compaction with one after it excepts
  these tasks (`Split`). That a second repair finds nothing left has no such exception.
* `OneGrammar`: the guard reads what is stored and `list` what is shown, so they differ on
  a declared default the task lacks, although `list.rs:194-196` says a guard "means
  precisely what `ta list` means".
* `NeedsAreReported`, `TreeIsComplete`: about counts and trees only off the cycles. On one,
  both counts include the task itself (`graph.rs:157-158`), `--open` depends on the
  order of visits (`dep.rs:660-691`), and the default roots leave out a component that
  is nothing but a cycle when there are other roots (`dep.rs:449-466`).
* `WritesForgetNoName`: compaction and undo do forget a name (`columns.rs:108`), and the
  deletion of a task forgets those that only its folded events had used.
* `AddsCommute` compares Adds with Adds and Removes with Removes.

### Seen while modelling, without a run of their own

* The gate accepts links that close a cycle (`dep.rs:36`); README.md:180 says that taska
  "validates against cycles", which `config set` and `config validate` do.
* A merge renumbers events, so a second merge of the same branches finds the fork in the
  wrong place (`merge.rs:94`; `docs/MERGE.md:72-73`). It does not follow the seqs that
  undo marks name (`merge.rs:805`).
* A delete that loses a merge takes its branch's earlier writes out of the comparison
  (`merge.rs:554`; `docs/MERGE.md:85`). A resolution of a contested field repeats the value
  last *set* and so overwrites what its branch appended afterwards (`merge.rs:663`).
* A resolve drops events that another process appended after it read (`resolve.rs:88`). It
  rewrites the log only if it finds an orphan, so a line that does not parse may stay,
  although the message of `storage.rs:521` sends the user there.
* `config set` reads the data and writes the file without the lock (`action/config.rs:149`).
  Two bad hand edits at once cannot be mended by single settings.
* A save that is refused when it is applied loses the user's document, which was in a
  temporary file (`edit.rs`). The editor keeps the configuration it started with.
* `repair --rename` can write values the schema rejects, `--set-type-if-none` stamps the
  first Create and so has no effect on a task made anew, and a default stamped has none
  after an unset.
* An Append of null is logged and changes nothing (`schema.rs:285`).

## Fairness

`store_overlap` has `FairSpec`: weak fairness of `Step(p)` for each process. A process that
has begun a command keeps running, as the code has no step that waits for anything but the
lock; the lock is a blocking `flock`, which the system grants when it is free and releases
when its holder dies. Nothing obliges anyone to start a command or to die. `CommandsEnd`
follows because only finitely many commands are started (`MaxOps`): no one is overtaken for
ever. An unbounded stream of other commands could starve a waiting process, as `flock`
promises no order.

`timeline` has `FairSpec`: weak fairness of `Looking`, the steps of the watch loop, which
wakes every second (`POLL_INTERVAL`) until its deadline. Writes, undos, the deadline and
restarts are not obliged to happen. `StableChangeIsReported` (it is never for ever the case
that a running watch owes a report) follows because others take finitely many steps: a
stream of changes that always undo themselves within the holdout is never reported, and
need not be.

## The proofs

Every theorem holds for all values of the constants that satisfy the named assumptions of
its module: the bounds are naturals (`StoreAssumption`, `KeepAssumption`,
`ReplayAssumption`, `BranchesAssumption`), `Nobody` is no process (`NobodyAssumption`),
commands and drafts have the shape of commands (`CommandsAssumption`), type names and enum
values are texts (`TypesAssumption`), and a store starts from an ordered, readable log of
events that the program writes, or a task map that is lawful (`GenesisAssumption`). TLC
evaluates the assumptions on the instances. What a reader sees rests on four more: names
do not collide (`NamesAssumption`: `Config::problems` refuses a configuration in which
they do), every id has its place in the order of strings (`OrderAssumption`), links name
declared types (`EdgesAssumption`, `dep.rs`), and no guard is on a computed column
(`GuardsAssumption`). Some theorems have a hypothesis besides (`Sheltered`,
`AllMeaningful`, `SumsAreExact`, `OnlyOriginals`, `HasNoDefault(StatusKey)`, `SoundTypes`,
`NamesApart`); each says
below why it is there and which run satisfies it.

**TaskaFoldProofs** has what the others need to know of replay, of logs and of the gate. Replay is the
library's fold, a recursive function that the provers do not unfold by induction;
`MaterializeIsRun` shows instead, by a least counterexample, that it is the end of a *run*
(a sequence of states each made of the one before), and `MaterializeStep` that one more
event makes one more step. All proofs about replay use these two. Two results stand by
themselves, for every baseline and every log:

* `FoldingChangesNothing`: folding a prefix into the baseline and replaying the rest on it
  gives what replaying everything gives.
* `DroppingOrphansChangesNothing`: leaving out all orphans changes no task and leaves no
  orphan. A log without its orphans is a shorter run through the same states
  (`DropKeepsState`); orphans are named by their seqs, so these must differ.

`vet_events` is a fold, too, over the drafts of a command; further lemmas follow it draft
by draft (`VetEventsIsRun`): what a command's drafts are
(`CommandIsBatch`, `UpdateShape`), what a vetted draft logs (`VetLogs`), where the events of
a batch come from (`BatchIsTraced`), what forms values take (`FieldsStayFormed`), and what a
claim asks and writes (`BatchClaims`).

**TaskaReplayProofs**:

* `TypeCorrectness`: well-formed tasks, none of which stores a null; `Basics` adds that the
  task map is the replay of the log so far.
* `TimesAreRight`: `Spec => []TimesFollowTheLog`, from `TimesInv`, which says of each task
  which event of the log made it last and which touched it last.
* `CloseTimeIsRight`: `Spec => []CloseTimeIsLastClosing`. `ClosedInv` relates the close
  time to the replays of all prefixes; `AppendKeepsPrefix` says that they stay as they are
  when the log grows, `ClosingsStep` how the last closing moves.
* `RetentionIsRight`: `Spec => []RetentionIsExact`, by arithmetic over minima and maxima of
  index sets, the empty ones included.
* `OrphansMayGo`: `Spec => []OrphansAreNeutral`, from the result above.
* `SumsCommute`: `Spec => []AddsCommute`, if `SumsAreExact(size)`: the operands are at most
  `size`, as many of them as the log can hold stay within a 64-bit integer, and no field
  is both summed up and collected into. All are needed: past the range a sum becomes
  a float, and of a number and a set the later operand's kind wins. The run's instance
  satisfies it with `size = 3`. The proof compares the two runs: equal up to the swap, equal in
  all fields after it (`ApplyCommutes`, which comes down to `FieldsCommute` and the
  arithmetic of `AccumulateCommutes`), and so to the end (`ApplySameFields`).

**TaskaStoreProofs**, with compact and resolve running from stale copies and processes
dying anywhere:

* `TypeCorrectness`: `Spec => []TypeOK`. The work is in `IsFile`: files remain sequences
  of lines through appends, torn lines and rewrites.
* `Exclusion`: `Spec => []MutualExclusion`, inductive with the types; the other theorems
  rest on it.
* `LogStaysOrdered`: `Spec => []LogOrdered`. That the log is ordered is not inductive: a
  rewrite copies lines read earlier, and a batch holds numbers minted earlier. The
  strengthening `PendingInOrder` says that the lines a process has still to write are in
  order, and that while it writes they follow the log. It needs exclusion (nobody else
  moves the log meanwhile), lemmas on concatenating and tearing ordered lines, and
  `NextSeqIsNew`: the next seq is above every seq of the log.
* `BatchIsAtomic`: `Spec => []BatchLandsOnVettedStore`: while a batch is written, the log
  is the vetted one and what has been written of the batch, and the baseline is the vetted
  one. The strengthening `WritersOnlyAppend` says that a write command never skips a line
  or takes the steps of a rewrite; the rest is that a process outside the lock changes no
  file (`StepUntouched`).

Three more, also in TaskaStoreProofs, hold under `Sheltered`: nobody dies, and nobody
writes while compact or resolve runs, nor do these two overlap; readers run at any time.
The code does not see to that. TLC finds a run that breaks each of the three without either
half (`store_claim` is one of them), so the hypothesis is not for the prover's sake.
`store_window` satisfies it.

* `StoreImplementsLedger`: `Spec => ImplementsLedger`, by the mapping `Settled`: in the
  middle of a write the map is that of the files the writer loaded, otherwise that of the
  files. `Inv` says where a process can be with which command (`Role`), that beside whoever
  is in maintenance there are at most readers (`Alone`), that all lines are whole (`Whole`), and what each has
  in memory (`Data`): while a batch is written, the log is what was seen and a prefix of
  the batch; while the files are rewritten, replaying what is in them and in memory gives
  the old map. One step of each command, the last, is the ledger's `Commit`; all others
  leave the map alone, which for compact is `FoldingChangesNothing` and for resolve
  `DroppingOrphansChangesNothing`. The ledger's operators are first shown equal to the store's.
* `ReadersSeeMoments`: `Spec => ReadIsMomentUnlessRewritten`, with writers and maintenance
  beside the reader. The mix of an old baseline with a new log, which does occur
  (`store_read`), is what the property excepts and the theorem does not assume away:
  compact and resolve may load, plan and rewrite between any two steps of a reader. The
  strengthening `ReadInv` says that the history, replayed, is what the files replay to,
  even in the middle of a batch, or, while compact or resolve has the lock, what it will
  leave in them; and that the moment a reader's command began is one of the history.
* `OneClaimWins`: `Spec => []OneWinner`. `ClaimInv` says that a field that someone claimed
  is taken as long as the task is there, and that what a writer saw under the lock is what
  its events follow: a second claim under the same guard is then refused.

**TaskaLedgerProofs**:

* `SchemasHold`: `Spec => []EveryTaskConforms`. It rests on `BatchIsPreviewed`: the working
  copy on which the gate judges a batch agrees with the replay of the events it lets
  through. Its invariant over the vetting fold says so after every draft, also after those
  the gate drops as having no effect (`VetStep`); that a command is judged on this copy is
  `CommitIsVetted`. `SchemasHold` is inductive from there.
* `TerminalStays`: `Spec => TerminalIsForever`: the whole batch is judged against the
  values before it, under the type the task has after it, and every type forbids the move.
* `OneBlockerOneParentAlways`: `Spec => []OneBlockerOneParent`. The edges of a command are
  checked one after the other against what is stored and those before;
  `CommitKeepsUnambiguous` shows that this is enough, for any number of them.
* `NothingLoggedInVain`: `Spec => []EveryLoggedEventCounts`, if `AllMeaningful`: no command
  appends an empty text, and none names one edge twice. Each of the two does log an event
  without effect: `schema.rs:295` calls every append "never a no-op", but an empty
  text after an empty one is, and an edge is compared with what is stored, not with what
  the same command has added. The commands of `gate` satisfy it. Its
  invariant `FormedAll` is that stored values are of the forms that the code can store.
* `OpenWorkAgrees`: `Spec => []OpenWorkIsReadyOrBlocked`, for any edges, cycles included.
  The invariant `Readable` says that there are finitely many tasks under known ids and that
  every edge is of a declared type and to another task. Three reports of readiness are
  compared: status counts, `list --ready` goes along a topological order (`ListIsReady`:
  it lists those of the order that are ready, `OrderedPicks`, and a sort, as
  `RankedOrder` shows that a finite set can be put in order, loses none), and the filter
  of history tests one task. Status reads the tasks with defaults substituted, history does not, so the
  theorem supposes `HasNoDefault(StatusKey)`: no type gives the status itself a default (a
  new task gets `default_status`). `queries` satisfies it.
* `ReadsAreOneGrammar`: `Spec => []OneGrammar`. What show adds under an inverse name is what
  the filter finds under it, as no task links to itself (`ShowIsFilter`). A guard sees what
  list shows, as a stored field that a default could replace does not fit the schema, and
  `EveryTaskConforms` leaves none such (`ReadShows`, `GuardIsList`).
* `NeedsAlwaysReported`: `Spec => []NeedsAreReported`, for any number of tasks and any
  edges. What a task needs is, by definition, in every set that has the blockers of the task
  and of its own members. A walk stays in all such sets and ends as one of them, before its
  bound, as what is on its stack and what it has not seen get fewer with every step
  (`VisitedStep`, `WalkedIsLeads`). Nobody needs themselves exactly when there is a
  topological order: without cycles a task needs more tasks than any it needs does, so
  ordering by that number is one (`OrderedWithoutCycles`); in an order, what a task needs is
  before it (`OrderedHasNoCycles`). The counts of dependents go against the edges
  (`LeadsBack`).
* `PlansAlwaysRight`: `Spec => []PlansAreRight`. A plan is the unfinished tasks of the goal,
  each once, in an order in which blockers come first, whatever order the sort came up with
  (`PlanIsOrder`): all blockers of a task are done or earlier (`PlanIsWorkable`). Depths are
  measured along the plan and do not depend on it (`DepthsAreDepth`, `OneDepth`), so neither
  does the critical path; going back, each task is one less deep, down to one that nothing
  blocks, so the path is as long as the deepest task is deep (`PathBackIsChain`), and no
  chain is longer than its last task is deep (`ChainsAreNoLonger`). That ids have
  different places (`OrderAssumption`) makes the choice among equally deep tasks one.

**TaskaBranchesProofs**: `LogsStayOrdered`: `Spec => []LogsOrdered`, through commits,
reverts, compactions, fast-forwards and merges under every policy and clock. The
invariant `AllLogs` includes the log at the merge base; `MergeLogs` restacks one branch's
events after the other's and numbers the resolutions after both.

**TaskaTimelineProofs**, from `Inv`: the log is a history (ordered, with sound marks and no
seq that stands for none), the baseline a map of finitely many tasks, and the waiting plan
would leave a history too, one that goes on from what is kept of the log (`GoesOn`), unless
the log changed since the preview:

* `MarksStaySound`: `Spec => []UndoMarksAreSound`. What makes it hold is that a cut drops
  the marks of what it frees (`inert marks`) and that a compensation is numbered after
  everything it could name.
* `CommittedStays`: `Spec => UndoKeepsCommitted`.
* `NamesStayKnown`: `Spec => WritesForgetNoName`: what a write can take out of the tasks
  was in a payload of the log, and the log only grows.
* `NoChangeIsMissed`: `Spec => []NothingMissed`, for any query. What a poll tells depends
  on the cursor, so the strengthening `WatchInv` says what a cursor stands for (`Stands`):
  unless events past it were folded, the newest event up to it has its seq, and the state
  the watch was told is the replay of the events up to it. Appending, cutting off what lies
  past it and folding keep that (`StandsLonger`, `StandsCut`, `StandsFolded`, the last of
  which is `FoldingChangesNothing`). `PollTellsChanges` is the rest: a task none of the
  later events names is as it was (`UnnamedStay`), and the filter poll uses, which walks a
  topological order of all tasks, selects what the task-by-task one does unless a cycle
  makes it refuse (`FilterAgrees`).
* `HistoryAddsUp`: `Spec => []PollIsNetOfHistory`, for any columns whose names are known.
  An event that history does not list changes nothing of how its task looks, or is of a
  task that was missing then and is now: one that was there and is gone was deleted on the
  way (`GoneByDelete`), so history selects it (`NotSelected`). Hence a task looks the same
  between two of its entries, before the first and after the last (`QuietBetween`). Of the
  log only `Inv` is needed.
* `UndoLooksAsIfNever`: `Spec => []UndoIsAsIfNever`, and `PreviewsAreHonest`:
  `Spec => []PreviewIsHonest`, both if `OnlyOriginals`: the store starts with nothing undone.
  It is needed, as the ghost `kept` starts as the log; `timeline` satisfies it. The
  exceptions are in the properties: a plan that went stale, and a compensation whose
  original was folded, which a later undo takes for an event of its own. That they
  spread to later previews is what the proof attempt showed: `PreviewIsHonest` first had no
  such condition on its first half, and five steps, one more than the run takes, refute
  that (a stale plan confirmed, then another undo previewed).

**TaskaUndoProofs** is what the last two rest on: what undo does to a log, for every log,
baseline and choice of targets. The invariant `UndoInv` says

* that `kept` is the events that stood when they were folded, and after them those of the log
  that *stand*: that are original and not undone (`KeptAs`);
* that the log over the baseline *tells* of every task what these tell, and not only the
  whole log, but every beginning of it of which no event of the task is reversed later
  (`Tells`). Without the parts it is not inductive: compaction folds a prefix, and undo
  cuts at one;
* that a plan that is not outdated is what `UndoPlan` makes of the log as it is
  (`HasPlan`), and that no stored field is null (`IsSettled`): a compensation could not
  restore one that is.

Why it is kept: a compensation takes its task from one state to another, whatever their
fields and edges (`Compensated`); the compensations of a plan take a task from how it
looks with all targets to how it looks with none (`TargetsTaken`), one target after the
other; the plan's partial replay, of the tasks it is about only, shows of them what a whole
replay would (`ScopedOriginals`). So the log an undo writes tells what stands (`TaskWithout`,
`UndoTells`), a write goes on with both (`WriteTells`), and a fold moves what stands from
the log to what was folded (`FoldTells`).

Some definitions of the model have a form chosen for the prover, equal to the obvious one:
`Picked` for a sequence's elements at a set of indices rather than `SelectSeq`, a closed
form for the compensations of an undo, `Over` and `Put` for functions put over another,
`Arranged` for a sorted list rather than `SortSeq`. The loops in the graph (`Walked`,
`Depths`, `CriticalPath`) count their steps up to a bound which they cannot exceed, so that
the provers can follow them step by step.

**TaskaDeskProofs** is about the edit form, for one configuration of schemas, types and
closed statuses (TaskaDesk's constants) and any document and store:

* `PreviewsTellTheWrite`: on the store the form was opened on, a save that previews as
  ready passes if and only if new fields are agreed to or there are none, one that previews
  as an error fails, and an untouched document writes nothing (`PreviewTellsWrite`).
* `SavesKeepOthersWork`: a save made on any later store, whoever changed it since the form
  was opened, leaves the fields its document does not touch as they are by then, up to a
  default that the task lacks (`KeepsUnedited`).

Both suppose `NamesApart`: no field is stored under a name that the form shows another one
by (the exception of `NamesRoundTrip`). The second supposes `SoundTypes` of the
configuration: that the type is not a field of itself and that defaults conform, which
validation sees to, and that no type has the empty name, which it does not.

### Only model-checked

* Liveness (`CommandsEnd`, `StableChangeIsReported`), which the prover does not do.
* `TreeIsComplete`, as TaskaTree is recursive.
* Of `evolve` everything but what TaskaDeskProofs shows under one configuration: the
  operators of a configuration are those of an instance with parameters, `Desk(c)`, which
  the prover does not expand, so `PreviewedSaveLands` and `SaveKeepsOthersWork` themselves,
  which quantify over configurations, are checked.
* `MergeConverges`, `NewestWriteWins`, `LossIsWarned`: they compare replays of two merged logs, for
  which induction over both branches' events at once is needed.

## What is abstracted

* Text is a short sequence of lines; wording, JSON, colours, argument parsing and exit
  codes are left out. All refusals are one outcome. Host, user and provenance metadata
  of an event are left out; in TaskaBranches a history key takes their place in telling
  events apart.
* A line of a batch is written in two steps as in the code; one system call is
  taken as all or nothing. Baseline lines are not torn.
* In TaskaStore, TaskaTimeline and TaskaEvolve all timestamps are equal: no decision there
  reads one. In TaskaTimeline and TaskaEvolve a command is one step. For commands under
  the write lock and for compaction TaskaStore has the parts; repair, which reads before
  the lock as compaction does, and `config set`, which takes none, have theirs nowhere: what
  others write between their reading and their writing is not modelled.
* The gate's checks are in the code's order where the order shows; the two checks of the
  typo guard and of schemas only decide whether the command is refused. Untyped tasks are
  denied or not; the warning between is left out.
* Field kinds are string, int, float, enum, set and any; date, boolean and array are left
  out. A text is taken for a number if it is the numeral of an integer; fractions are left
  out, and so is the kind of a set's elements. Regular expressions appear as the set of texts they match. The order in which
  `list` sorts is modelled and no property is about it.
* If a store already holds two parents of a task, which one a message names is arbitrary;
  only the refusal is modelled.
* The `surface` policy merges like `ours` and then fails for a human to look; the marker
  file is not modelled. In `Revert` the reverted commit's log is the branch's log up to
  the event. Merges of logs with undo marks are not modelled.
* Documents of the editor are records of fields; the text and its parsing are left out.

## Not modelled

* `scm.rs`, `action/init.rs`: creating a store, registering drivers and committing are
  calls to git and hg; of them only what undo and merge depend on appears, as the
  committed count and as the way a merge is driven.
* `cli`, `format.rs`, `main.rs`: stateless parsing and rendering. The order in which a
  command calls the operations is in the actions.
* `migrate.rs`: its list of passes is empty; a store older than 1.0 is refused.
* Parsing and serialising TOML and JSON, legacy spellings of settings, display settings,
  environment variables in paths.
* The conflict marker of `resolve`, and `append_events`, which only tests call on files.
