----------------------------- MODULE TaskaMerge -----------------------------
(***************************************************************************)
(* The merge driver of taska: two logs that diverged from an ancestor are  *)
(* merged by keeping ours, restacking the events of theirs above the fork  *)
(* on top, and appending events that settle what both sides changed to     *)
(* incompatible values.                                                    *)
(*                                                                         *)
(* A policy is one of "surface", "ours", "theirs" and "latest"; a side is  *)
(* "ours" or "theirs".                                                     *)
(***************************************************************************)
EXTENDS TaskaEngine

Seqs(log) == {log[i].seq : i \in DOMAIN log}

\* The last seq both branches share.
Fork(anc) == NextSeq(anc) - 1

Above(log, n) == Picked(log, {i \in DOMAIN log : log[i].seq > n})

\* What lies at or below the watermark has been folded into the baseline.
Watermark(log) == IF log = << >> THEN 0 ELSE Min(Seqs(log)) - 1

\* Mutant: what was folded is taken for removed.
RemovedSeqsFromOne(anc, branch) == Seqs(anc) \ Seqs(branch)

\* The events of the ancestor that a branch has dropped, by a revert.
RemovedSeqs(anc, branch) ==
    {s \in Seqs(anc) : s > Watermark(branch)} \ Seqs(branch)

\* The shared seqs under which the three logs do not hold the same event.
ContentMismatches(anc, ours, theirs) ==
    LET Held(n) == UNION {{log[i] : i \in {j \in DOMAIN log : log[j].seq = n}} :
                             log \in {anc, ours, theirs}}
    IN  {n \in 1..Fork(anc) : \E e, f \in Held(n) : e # f}

\* The shared seqs that one side holds and the other has dropped.
RewrittenSeqs(anc, ours, theirs) ==
    LET kept == Max({Watermark(ours), Watermark(theirs)}) + 1 .. Fork(anc)
    IN  kept \cap ((Seqs(ours) \ Seqs(theirs)) \cup (Seqs(theirs) \ Seqs(ours)))

----------------------------------------------------------------------------
(* What one branch did to one task since the fork.                         *)

\* The events that wrote to a field or an edge last, by field and by edge; the
\* time of a delete that no create followed; the time of the newest change.
Delta(events, id) ==
    LET Mine(ops) == {i \in DOMAIN events : events[i].id = id /\ events[i].op \in ops}
        sets      == Mine({"Create", "Update"})
        links     == Mine({"AddEdge", "RemoveEdge"})
        lives     == Mine({"Create", "Delete"})
        changes   == Mine({"Create", "Update", "Append", "Add", "Remove",
                           "AddEdge", "RemoveEdge"})
        gone      == lives # {} /\ events[Max(lives)].op = "Delete"
    IN  [fields  |-> [k \in UNION {DOMAIN events[i].payload : i \in sets} |->
                        events[Max({i \in sets : k \in DOMAIN events[i].payload})]],
         edges   |-> [x \in {events[i].payload : i \in links} |->
                        events[Max({i \in links : events[i].payload = x})]],
         deleted |-> IF gone THEN events[Max(lives)].ts ELSE NoTime,
         changed |-> Max({NoTime} \cup {events[i].ts : i \in changes})]

----------------------------------------------------------------------------
(* Settling what contradicts.                                              *)

\* Mutant: latest is read the wrong way round.
PickOldest(policy, oursTs, theirsTs) ==
    IF policy = "theirs" \/ (policy = "latest" /\ theirsTs < oursTs)
    THEN "theirs" ELSE "ours"

\* A tie goes to ours; surface settles as ours until someone has looked.
Pick(policy, oursTs, theirsTs) ==
    IF policy = "theirs" \/ (policy = "latest" /\ theirsTs > oursTs)
    THEN "theirs" ELSE "ours"

\* The history key of the events that a merge writes.
ResolutionKey == <<0, "resolution">>

Resolution(op, id, payload, ts) ==
    [seq |-> 0, ts |-> ts, op |-> op, id |-> id, payload |-> payload,
     undoes |-> 0, key |-> ResolutionKey]

\* The events to append, the sides and tasks whose deletes to leave out, and what
\* was in conflict.
Plan(events, drops, conflicts) ==
    [events |-> events, drops |-> drops, conflicts |-> conflicts]

DeletedOnlyBy(d, other) ==
    d.deleted # NoTime /\ other.deleted = NoTime /\ other.changed # NoTime

ResolveDelete(id, o, t, policy) ==
    LET deleter == IF o.deleted # NoTime THEN "ours" ELSE "theirs"
        winner  == IF deleter = "ours" THEN Pick(policy, o.deleted, t.changed)
                                       ELSE Pick(policy, o.changed, t.deleted)
        deleted == Max({o.deleted, t.deleted})
    IN  IF winner = deleter
        THEN Plan(<< Resolution("Delete", id, << >>, deleted) >>, {}, {<<id, "task">>})
        ELSE Plan(<< >>, {<<deleter, id>>}, {<<id, "task">>})

\* One update with the picked value of every field that both branches wrote.
ResolveFields(id, o, t, policy) ==
    LET contested == {k \in DOMAIN o.fields \cap DOMAIN t.fields :
                         o.fields[k].payload[k] # t.fields[k].payload[k]}
        Winner(k) == IF Pick(policy, o.fields[k].ts, t.fields[k].ts) = "ours"
                     THEN o.fields[k] ELSE t.fields[k]
    IN  IF contested = {} THEN << >>
        ELSE << Resolution("Update", id, [k \in contested |-> Winner(k).payload[k]],
                           Max({Winner(k).ts : k \in contested})) >>

\* One event for every edge that one branch added and the other removed.
ResolveEdges(id, o, t, policy) ==
    LET contested == {x \in DOMAIN o.edges \cap DOMAIN t.edges :
                         o.edges[x].op # t.edges[x].op}
        Winner(x) == IF Pick(policy, o.edges[x].ts, t.edges[x].ts) = "ours"
                     THEN o.edges[x] ELSE t.edges[x]
    IN  SetToSeq({Resolution(Winner(x).op, id, x, Winner(x).ts) : x \in contested})

ResolveTask(id, o, t, policy) ==
    IF DeletedOnlyBy(o, t) \/ DeletedOnlyBy(t, o) THEN ResolveDelete(id, o, t, policy)
    ELSE LET fields == ResolveFields(id, o, t, policy)
             edges  == ResolveEdges(id, o, t, policy)
         IN  Plan(fields \o edges, {},
                  {<<id, k>> : k \in UNION {DOMAIN fields[i].payload : i \in DOMAIN fields}}
                  \cup {<<id, edges[i].payload>> : i \in DOMAIN edges})

\* Only tasks that both branches touched can be in conflict.  Events on different
\* tasks commute, so the order of the tasks is left open.
Resolve(ours, theirs, policy) ==
    LET Touches(events) == {events[i].id : i \in DOMAIN events}
        both  == Touches(ours) \cap Touches(theirs)
        plans == SetToSeq({ResolveTask(id, Delta(ours, id), Delta(theirs, id), policy) :
                              id \in both})
    IN  Plan(FlattenSeq([i \in DOMAIN plans |-> plans[i].events]),
             UNION {plans[i].drops : i \in DOMAIN plans},
             UNION {plans[i].conflicts : i \in DOMAIN plans})

----------------------------------------------------------------------------
(* The merged log.                                                         *)

\* Mutant: what comes after the fork keeps the seq it had.
AssembleKeepingSeqs(shared, ours, theirs, plan, fork) ==
    shared \o ours \o theirs \o plan.events

\* Deletes that lost are left out; everything above the fork is renumbered.
Assemble(shared, ours, theirs, plan, fork) ==
    LET Stays(side, e) == ~ (e.op = "Delete" /\ <<side, e.id>> \in plan.drops)
        Kept(events, side) == Picked(events, {i \in DOMAIN events : Stays(side, events[i])})
        tail == Kept(ours, "ours") \o Kept(theirs, "theirs") \o plan.events
    IN  shared \o [i \in DOMAIN tail |-> [tail[i] EXCEPT !.seq = fork + i]]

\* Mutant: what theirs has dropped stays.
SharedTailKeepingRemoved(anc, ours, theirs) ==
    Picked(ours, {i \in DOMAIN ours : ours[i].seq <= Fork(anc)})

\* The shared events of ours, without those that theirs has dropped.
SharedTail(anc, ours, theirs) ==
    LET removed == RemovedSeqs(anc, theirs)
    IN  Picked(ours, {i \in DOMAIN ours :
                         ours[i].seq <= Fork(anc) /\ ours[i].seq \notin removed})

MergeLogs(anc, ours, theirs, policy) ==
    LET fork    == Fork(anc)
        ourNew  == Above(ours, fork)
        theirNew == Above(theirs, fork)
        plan    == Resolve(ourNew, theirNew, policy)
    IN  [log       |-> Assemble(SharedTail(anc, ours, theirs), ourNew, theirNew, plan, fork),
         conflicts |-> plan.conflicts,
         warned    |-> ContentMismatches(anc, ours, theirs) \cup RewrittenSeqs(anc, ours, theirs)]
=============================================================================
