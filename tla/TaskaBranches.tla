---------------------------- MODULE TaskaBranches ----------------------------
(***************************************************************************)
(* A task store under version control: two branches on which commands are  *)
(* committed, reverted and compacted, and which merge each other, the      *)
(* merge driver of module TaskaMerge reconciling their logs.               *)
(*                                                                         *)
(* What git does is modelled from how the driver is registered: a merge    *)
(* starts from the merge base, fast-forwards when it can, takes a file     *)
(* that only one side changed from that side, and runs the driver for a    *)
(* file that both changed.                                                 *)
(***************************************************************************)
EXTENDS TaskaGate, TaskaMerge

CONSTANTS
    Commands,    \* the commands that may be committed
    Genesis,     \* the log the branches start from
    Times,       \* the clock readings a commit may carry
    Policy,      \* the on_conflict policy
    KeepEvents,  \* the keep_events of the compaction configuration
    MaxCommits,  \* bound on the number of commands
    MaxReverts,  \* bound on the number of reverts
    MaxFolds,    \* bound on the number of compactions, on either branch
    MaxSteps,    \* bound on the number of commands, reverts and compactions
    MaxMerges    \* bound on the number of merges

ASSUME BranchesAssumption ==
    /\ Times \subseteq Nat \ {NoTime}
    /\ Policy \in {"surface", "ours", "theirs", "latest"}
    /\ {KeepEvents, MaxCommits, MaxReverts, MaxFolds, MaxSteps, MaxMerges} \subseteq Nat

\* The branches start from a log that loads.
ASSUME GenesisAssumption ==
    /\ Genesis \in Seq({Genesis[i] : i \in DOMAIN Genesis})
    /\ \A i \in DOMAIN Genesis : "seq" \in DOMAIN Genesis[i] /\ Genesis[i].seq \in Nat
    /\ SeqOrdered(Genesis)

Branches == {"main", "topic"}

Other(b) == IF b = "main" THEN "topic" ELSE "main"

VARIABLES
    repo,    \* the files at the tip of each branch
    fork,    \* the files at the merge base
    moved,   \* the branches with commits that the other one lacks
    used,    \* the clock readings used up: no two commits carry the same one
    budget,  \* commits, reverts, compactions and merges made
    lastMerge  \* history: what the last merge lost, warned about and came from

vars == << repo, fork, moved, used, budget, lastMerge >>

\* A tip: the log; the baseline; and as history the keys of the events folded into
\* the baseline, and of all the events the branch should hold.  A key is the
\* time and operation of the event.
Tip(log, baseline, folded, knows) ==
    [log |-> log, baseline |-> baseline, folded |-> folded, knows |-> knows]

Keys(log) == {log[i].key : i \in DOMAIN log} \ {ResolutionKey}

StateOf(tip) == Materialize(tip.baseline, tip.log)

NoMerge == [lost |-> {}, warned |-> {}, alike |-> TRUE]

Init ==
    /\ repo = [b \in Branches |-> Tip(Genesis, << >>, {}, Keys(Genesis))]
    /\ fork = Tip(Genesis, << >>, {}, Keys(Genesis))
    /\ moved = {}
    /\ used = {}
    /\ budget = [commits |-> 0, reverts |-> 0, folds |-> 0, merges |-> 0]
    /\ lastMerge = NoMerge

Spend(what, max) ==
    /\ budget[what] < max
    /\ what # "merges" => budget.commits + budget.reverts + budget.folds < MaxSteps
    /\ budget' = [budget EXCEPT ![what] = @ + 1]

Change(b, tip) ==
    /\ repo' = [repo EXCEPT ![b] = tip]
    /\ moved' = moved \cup {b}
    /\ UNCHANGED << fork, lastMerge >>

\* A command that writes one event, and the commit of it.
Commit(b, c, ts) ==
    /\ Spend("commits", MaxCommits)
    /\ ts \notin used
    /\ used' = used \cup {ts}
    /\ \E out \in {Build(c, StateOf(repo[b]), {}).out} :
          /\ Len(out) = 1
          /\ LET tip == repo[b]
                 key == <<ts, out[1].op>>
                 e   == [seq |-> NextSeq(tip.log), ts |-> ts, op |-> out[1].op,
                         id |-> out[1].id, payload |-> out[1].payload,
                         undoes |-> 0, key |-> key]
             IN  Change(b, Tip(Append(tip.log, e), tip.baseline, tip.folded,
                               tip.knows \cup {key}))

\* The revert of the commit that added an event: a merge whose ancestor is that
\* commit, and whose other side is the one before it.
Revert(b, i) ==
    /\ Spend("reverts", MaxReverts)
    /\ LET tip    == repo[b]
           before == SubSeq(tip.log, 1, i - 1)
           after  == SubSeq(tip.log, 1, i)
           log    == IF i = Len(tip.log) THEN before
                     ELSE MergeLogs(after, tip.log, before, Policy).log
       IN  /\ tip.log[i].key # ResolutionKey
           /\ Change(b, Tip(log, tip.baseline, tip.folded, tip.knows \ {tip.log[i].key}))
    /\ UNCHANGED used

Compact(b) ==
    /\ Spend("folds", MaxFolds)
    /\ LET tip    == repo[b]
           split  == RetentionSplit(tip.log, KeepEvents, 0, 0)
           folded == SubSeq(tip.log, 1, split)
       IN  /\ split # 0
           /\ Change(b, Tip(SubSeq(tip.log, split + 1, Len(tip.log)),
                            Materialize(tip.baseline, folded),
                            tip.folded \cup Keys(folded), tip.knows))
    /\ UNCHANGED used

\* A file merges to the side that changed it; the driver is asked when both did.
ThreeWay(base, ours, theirs, driver) ==
    IF ours = base THEN theirs ELSE IF theirs = base THEN ours ELSE driver

\* The baseline driver keeps ours.
Merged(base, ours, theirs) ==
    LET mine == ours.baseline # base.baseline
    IN  Tip(ThreeWay(base.log, ours.log, theirs.log,
                     MergeLogs(base.log, ours.log, theirs.log, Policy).log),
            IF mine THEN ours.baseline ELSE theirs.baseline,
            IF mine THEN ours.folded ELSE theirs.folded,
            (ours.knows \cap theirs.knows)
                \cup (ours.knows \ base.knows) \cup (theirs.knows \ base.knows))

\* Events a tip should hold and does not.  A delete that lost to a change is left
\* out on purpose.
Lost(tip) == {k \in tip.knows \ (Keys(tip.log) \cup tip.folded) : k[2] # "Delete"}

\* Events that a tip holds twice, or that accumulate and are replayed over a
\* baseline that counts them already.  Replaying a create starts its task afresh.
Doubled(tip) ==
    LET log == tip.log
        Refolded(j) == /\ log[j].key \in tip.folded
                       /\ log[j].op \in {"Append", "Add", "Remove"}
                       /\ ~ \E i \in 1..j : log[i].op = "Create" /\ log[i].id = log[j].id
        Repeated(j) == \E i \in 1 .. j - 1 : log[i].key = log[j].key
    IN  {log[j].key : j \in {i \in DOMAIN log : Refolded(i) \/ Repeated(i)}}
            \ {ResolutionKey}

\* Both branches have compacted since the base or neither has, and none of the
\* events folded came after the base.
CompactedAlike(base, ours, theirs) ==
    /\ (ours.baseline = base.baseline) <=> (theirs.baseline = base.baseline)
    /\ ours.folded \cup theirs.folded \subseteq Keys(base.log) \cup base.folded

Merge(b) ==
    /\ moved = Branches
    /\ Spend("merges", MaxMerges)
    /\ LET ours   == repo[b]
           theirs == repo[Other(b)]
           tip    == Merged(fork, ours, theirs)
       IN  /\ repo' = [repo EXCEPT ![b] = tip]
           /\ fork' = theirs
           /\ lastMerge' =
                [lost   |-> (Lost(tip) \cup Doubled(tip))
                               \ UNION {Lost(t) \cup Doubled(t) : t \in {ours, theirs}},
                 warned |-> MergeLogs(fork.log, ours.log, theirs.log, Policy).warned,
                 alike  |-> CompactedAlike(fork, ours, theirs)]
    /\ moved' = {b}
    /\ UNCHANGED used

FastForward(b) ==
    /\ moved = {Other(b)}
    /\ repo' = [repo EXCEPT ![b] = repo[Other(b)]]
    /\ fork' = repo[Other(b)]
    /\ moved' = {}
    /\ UNCHANGED << used, budget, lastMerge >>

Next ==
    \E b \in Branches :
        \/ \E c \in Commands, ts \in Times : Commit(b, c, ts)
        \/ \E i \in DOMAIN repo[b].log : Revert(b, i)
        \/ Compact(b)
        \/ Merge(b)
        \/ FastForward(b)

Spec == Init /\ [][Next]_vars

----------------------------------------------------------------------------
(* Properties.                                                             *)

\* Every log is strictly increasing by seq, after any number of merges, reverts
\* and compactions on either side (assemble renumbers what it restacks).
LogsOrdered == \A b \in Branches : SeqOrdered(repo[b].log)

\* Each event that was committed on a branch or merged into it, and not reverted,
\* takes effect on it exactly once: in the log, or folded into the baseline.
EveryEventOnce == \A b \in Branches : Lost(repo[b]) = {} /\ Doubled(repo[b]) = {}

\* A merge that loses an event, or has it take effect twice, warns of it, provided
\* that the branches have compacted alike.
LossIsWarned == lastMerge.lost # {} /\ lastMerge.alike => lastMerge.warned # {}

Content(tip) ==
    LET state == StateOf(tip)
    IN  [id \in DOMAIN state |-> <<state[id].fields, state[id].edges>>]

\* The events of the base that a branch has reverted.
Reverted(base, tip) ==
    {i \in DOMAIN base.log : base.log[i].key \notin Keys(tip.log) \cup tip.folded}

\* No event was reverted at or below a watermark, where the driver cannot tell a revert
\* from a compaction (removed_seqs, "LIMITATION").
RevertsShow(base, ours, theirs) ==
    \A tip \in {ours, theirs} : \A i \in Reverted(base, tip) :
        base.log[i].seq > Max({Watermark(ours.log), Watermark(theirs.log)})

\* The driver promises nothing when a shared seq was used again or an event was
\* reverted that a branch has folded or that was its earliest; and it does not
\* compare the writes that a branch made before it deleted the task (see
\* NewestWriteWins).
Reconcilable(base, ours, theirs) ==
    /\ ContentMismatches(base.log, ours.log, theirs.log) = {}
    /\ RevertsShow(base, ours, theirs)
    /\ \A log \in {ours.log, theirs.log} :
          \A i, j \in DOMAIN log :
             i < j /\ log[j].op = "Delete" /\ log[i].id = log[j].id => log[i].seq <= Fork(base.log)

\* Two branches that have diverged get the same tasks whichever merges the other, also
\* when both have compacted, provided that they compacted alike (docs/MERGE.md).
MergeConverges ==
    budget.merges = 0 /\ moved = Branches
        /\ Reconcilable(fork, repo["main"], repo["topic"])
        /\ CompactedAlike(fork, repo["main"], repo["topic"]) =>
        Content(Merged(fork, repo["main"], repo["topic"]))
            = Content(Merged(fork, repo["topic"], repo["main"]))

\* Under the latest policy, a field that both branches wrote gets the value of the
\* branch that wrote it last, unless one of them deleted the task: a delete that
\* loses takes its branch's earlier writes out of the comparison (resolve).  A write
\* that a branch has folded since is not compared.
NewestWriteWins ==
    budget.merges = 0 /\ moved = Branches /\ Policy = "latest"
        /\ Reconcilable(fork, repo["main"], repo["topic"]) =>
        \A b \in Branches :
            LET ours   == repo[b]
                theirs == repo[Other(b)]
                New(tip, id) == Delta(Above(tip.log, Fork(fork.log)), id).fields
                Deleted(tip, id) == \E i \in DOMAIN tip.log :
                    /\ tip.log[i].seq > Fork(fork.log)
                    /\ tip.log[i].op = "Delete" /\ tip.log[i].id = id
            IN  \A state \in {StateOf(Merged(fork, ours, theirs))} :
                \A id \in {t \in DOMAIN state : ~ Deleted(ours, t) /\ ~ Deleted(theirs, t)} :
                   \A k \in DOMAIN New(ours, id) \cap DOMAIN New(theirs, id) :
                      New(ours, id)[k].ts > New(theirs, id)[k].ts =>
                         /\ k \in DOMAIN state[id].fields
                         /\ state[id].fields[k] = New(ours, id)[k].payload[k]
=============================================================================
