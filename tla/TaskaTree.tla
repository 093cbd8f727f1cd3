----------------------------- MODULE TaskaTree ------------------------------
(***************************************************************************)
(* The dependency forest that `dep tree` shows: every task under the tasks *)
(* that depend on it, a task that several depend on expanded once.         *)
(*                                                                         *)
(* Siblings come in the order of a rank, a function on the ids: what the   *)
(* sort keys make of the tasks, those that do not exist last.              *)
(***************************************************************************)
EXTENDS TaskaGraph

\* The edge shown: every blocker but the default one is tagged.
EdgeTag(rel, default) ==
    IF rel \in Hierarchy THEN "subtask" ELSE IF rel = default THEN "" ELSE rel

InOrder(edges, rank) ==
    SetToSortSeq(edges, LAMBDA e, f : rank[e.target] < rank[f.target])

\* Whether a task or anything it depends on is open, with what is known so far;
\* on the way back to a task on the path the answer is no.
RECURSIVE SubtreeOpen(_, _, _, _)
SubtreeOpen(state, id, memo, path) ==
    IF id \in DOMAIN memo THEN [open |-> memo[id], memo |-> memo]
    ELSE IF id \in path THEN [open |-> FALSE, memo |-> memo]
    ELSE LET Visit(acc, c) ==
                LET sub == SubtreeOpen(state, c, acc.memo, path \cup {id})
                IN  [open |-> acc.open \/ sub.open, memo |-> sub.memo]
             targets == IF id \in DOMAIN state THEN BlockerTargets(state, id) ELSE {}
             all     == FoldLeft(Visit, [open |-> id \in OpenTasks(state), memo |-> memo],
                                 SetToSeq(targets))
         IN  [open |-> all.open, memo |-> (id :> all.open) @@ all.memo]

\* Mutant: a task that is done is left out with all that hangs below it.
OpenSubtreesByTask(state, order) == OpenTasks(state)

\* The tasks that an --open tree keeps; the tasks are visited in some order.
OpenSubtrees(state, order) ==
    LET Visit(memo, id) == SubtreeOpen(state, id, memo, {}).memo
        memo == FoldLeft(Visit, << >>, order)
    IN  {id \in DOMAIN memo : memo[id]}

Leaf(id, tag, kids) == [id |-> id, edge |-> tag, kids |-> kids, children |-> << >>]

\* A shared task is shown once in full; one without blockers has nothing to hide.
Collapsed(state, id, expanded) == id \in expanded /\ BlockerEdges(state, id) # {}

\* The node of a task and the tasks expanded so far.  ctx has the state, the
\* rank, the default blocker and the tasks to keep.
RECURSIVE BuildNode(_, _, _, _, _)
BuildNode(ctx, id, tag, path, expanded) ==
    IF id \notin DOMAIN ctx.state THEN [node |-> Leaf(id, "", "missing"), expanded |-> expanded]
    ELSE IF id \in path THEN [node |-> Leaf(id, tag, "cycle"), expanded |-> expanded]
    ELSE IF Collapsed(ctx.state, id, expanded)
         THEN [node |-> Leaf(id, tag, "collapsed"), expanded |-> expanded]
    ELSE LET edges == {e \in BlockerEdges(ctx.state, id) : e.target \in ctx.keep}
             Grow(acc, e) ==
                 LET sub == BuildNode(ctx, e.target, EdgeTag(e.rel, ctx.default),
                                      path \cup {id}, acc.expanded)
                 IN  [children |-> Append(acc.children, sub.node), expanded |-> sub.expanded]
             all == FoldLeft(Grow, [children |-> << >>, expanded |-> expanded \cup {id}],
                             InOrder(edges, ctx.rank))
         IN  [node |-> [Leaf(id, tag, "children") EXCEPT !.children = all.children],
              expanded |-> all.expanded]

\* The tasks nothing depends on; all of them when a cycle leaves none.
DefaultRoots(state) ==
    LET top == DOMAIN state \ UNION {BlockerTargets(state, id) : id \in DOMAIN state}
    IN  IF top = {} THEN DOMAIN state ELSE top

\* The forest; asked is the set of roots asked for, keep the tasks to keep.
Forest(state, asked, rank, default, keep) ==
    LET ctx   == [state |-> state, rank |-> rank, default |-> default, keep |-> keep]
        roots == (IF asked = {} THEN DefaultRoots(state) ELSE asked) \cap keep
        Grow(acc, id) ==
            LET sub == BuildNode(ctx, id, "", {}, acc.expanded)
            IN  [forest |-> Append(acc.forest, sub.node), expanded |-> sub.expanded]
    IN  FoldLeft(Grow, [forest |-> << >>, expanded |-> {}],
                 SetToSortSeq(roots, LAMBDA a, b : rank[a] < rank[b])).forest

RECURSIVE NodesOf(_)
NodesOf(nodes) ==
    FoldLeft(LAMBDA acc, n : acc \o << n >> \o NodesOf(n.children), << >>, nodes)
=============================================================================
