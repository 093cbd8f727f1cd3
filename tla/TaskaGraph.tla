----------------------------- MODULE TaskaGraph -----------------------------
(***************************************************************************)
(* The dependency graph of a task map: which tasks are ready, what blocks  *)
(* what, the order in which to work, and the cycles.                       *)
(*                                                                         *)
(* The nodes are the tasks that exist; a task's prerequisites are the      *)
(* targets of its blocker edges.  An edge may dangle: its target may have  *)
(* been deleted.                                                           *)
(***************************************************************************)
EXTENDS TaskaGate

CONSTANT StringRank  \* the place of each id, and of each word, in the order of strings

ASSUME GraphAssumption == \A s \in DOMAIN StringRank : StringRank[s] \in Nat

\* blocker_edges: the edges that gate readiness.
BlockerEdges(state, id) == {e \in state[id].edges : e.rel \in Blockers}

BlockerTargets(state, id) == {e.target : e \in BlockerEdges(state, id)}

\* The graph as adjacency: prerequisites that exist, and dependents.
Prereqs(state) ==
    [id \in DOMAIN state |-> BlockerTargets(state, id) \cap DOMAIN state]

Dependents(state) ==
    [id \in DOMAIN state |-> {d \in DOMAIN state : id \in BlockerTargets(state, d)}]

OpenTasks(state) == {id \in DOMAIN state : ~ IsDone(state[id].fields)}

DuplicateBlockers(state) ==
    {p \in (DOMAIN state) \X UNION {BlockerTargets(state, id) : id \in DOMAIN state} :
        Cardinality({e \in BlockerEdges(state, p[1]) : e.target = p[2]}) > 1}

\* The children of a task, one for each hierarchy edge.
ChildEdges(state, id) == {e \in state[id].edges : e.rel \in Hierarchy}

MultiParentTasks(state) ==
    LET ParentsOf(child) == {id \in DOMAIN state :
            \E e \in ChildEdges(state, id) : e.target = child}
    IN  {child \in UNION {{e.target : e \in ChildEdges(state, id)} : id \in DOMAIN state} :
            Cardinality(ParentsOf(child)) > 1}

SubtaskCounts(state, id) ==
    LET done == {e \in ChildEdges(state, id) : /\ e.target \in DOMAIN state
                                              /\ IsDone(state[e.target].fields)}
    IN  << Cardinality(done), Cardinality(ChildEdges(state, id)) >>

----------------------------------------------------------------------------
(* Reachability.                                                           *)

\* One step of a depth-first walk: a node is taken from the stack, and what it leads to
\* is put there, unless it was come upon before.
Visited(walk, adj) ==
    LET node == CHOOSE x \in walk.stack : TRUE
        new  == adj[node] \ walk.seen
    IN  IF walk.stack = {} THEN walk
        ELSE [stack |-> (walk.stack \ {node}) \cup new, seen |-> walk.seen \cup new]

\* What a walk comes upon that starts with some nodes on the stack and some marked.
\* All but those are on the stack once at most.
Walked(stack, seen, adj) ==
    LET all == Cardinality(DOMAIN adj) + 1
        Walk[n \in 0..all] ==
            IF n = 0 THEN [stack |-> stack, seen |-> seen] ELSE Visited(Walk[n - 1], adj)
    IN  Walk[all].seen

\* What is reached from a task, which is not marked beforehand.
Reach(start, adj) == Walked({start}, {}, adj)

\* Mutant: a task that is done is not walked through.
ReachThroughOpen(start, adj, open) ==
    Cardinality(Reach(start, [id \in DOMAIN adj |-> adj[id] \cap open]))

ReachNotDone(start, adj, open) == Cardinality(Reach(start, adj) \cap open)

ReachabilityCounts(state) ==
    LET prereqs    == Prereqs(state)
        dependents == Dependents(state)
        open       == OpenTasks(state)
    IN  [id \in DOMAIN state |->
            [unblocks |-> ReachNotDone(id, dependents, open),
             blocked_by |-> ReachNotDone(id, prereqs, open)]]

----------------------------------------------------------------------------
(* Order and cycles.  The graph library sorts and finds the strongly       *)
(* connected components; of several orders it returns any one.             *)

TopologicalOrders(state) ==
    {order \in SetToSeqs(DOMAIN state) :
        \A i, j \in DOMAIN order : order[i] \in Prereqs(state)[order[j]] => i < j}

\* The empty set stands for the cycle error.
ValidateAndSort(state) == TopologicalOrders(state)

\* The strongly connected components of several tasks, and the self-loops.
DependencyCycles(state) ==
    LET adj == Prereqs(state)
        To  == [id \in DOMAIN state |-> Reach(id, adj)]
        Component(id) == {id} \cup {other \in To[id] : id \in To[other]}
    IN  {Component(id) : id \in {x \in DOMAIN state : Component(x) # {x}}}
            \cup {{id} : id \in {x \in DOMAIN state : x \in adj[x]}}

\* Mutant: a dangling dependency blocks.
IsReadyUnlessDangling(state, id) ==
    /\ ~ IsDone(state[id].fields)
    /\ BlockerTargets(state, id) \subseteq DOMAIN state \ OpenTasks(state)

\* Not done, and no blocker that exists is open.
IsReady(state, id) ==
    /\ ~ IsDone(state[id].fields)
    /\ BlockerTargets(state, id) \cap OpenTasks(state) = {}

\* A cycle anywhere is an error, for which the set of orders is empty.
ReadyTasks(state) ==
    {Picked(order, {i \in DOMAIN order : IsReady(state, order[i])}) :
        order \in ValidateAndSort(state)}

----------------------------------------------------------------------------
(* What to do to get a goal done.                                          *)

\* The goals and everything they transitively depend on.  The code marks a task when it
\* leaves the stack; that it is put there more than once before changes nothing.
Closure(state, goals) == Walked(goals, goals, Prereqs(state))

\* Mutant: the smallest id, however deep.
SmallestOf(cands, depth) ==
    CHOOSE c \in cands : \A d \in cands \ {c} : StringRank[c] < StringRank[d]

\* The deepest candidate; of two equally deep ones the smaller id.
Deepest(cands, depth) ==
    CHOOSE c \in cands : \A d \in cands \ {c} :
        depth[c] > depth[d] \/ (depth[c] = depth[d] /\ StringRank[c] < StringRank[d])

\* A task is one deeper than the deepest of its prerequisites.
Measured(depth, id, prereqs) ==
    Put(depth, id, IF prereqs[id] = {} THEN 1 ELSE 1 + depth[Deepest(prereqs[id], depth)])

\* How deep the tasks are, measured in an order in which prerequisites come first.
Depths(order, prereqs) ==
    LET Depth[n \in 0..Len(order)] ==
            IF n = 0 THEN << >> ELSE Measured(Depth[n - 1], order[n], prereqs)
    IN  Depth[Len(order)]

\* A chain goes back to the deepest prerequisite of its first task.
TakenBack(chain, prereqs, depth) ==
    LET before == prereqs[chain[1]]
    IN  IF before = {} THEN chain ELSE << Deepest(before, depth) >> \o chain

\* A chain from the deepest task back through its deepest prerequisites.
CriticalPath(state, remaining) ==
    LET left    == {remaining[i] : i \in DOMAIN remaining}
        prereqs == [id \in left |-> BlockerTargets(state, id) \cap left]
        depth   == Depths(remaining, prereqs)
        Back[n \in 0..Len(remaining)] ==
            IF n = 0 THEN << Deepest(left, depth) >> ELSE TakenBack(Back[n - 1], prereqs, depth)
    IN  IF remaining = << >> THEN << >> ELSE Back[Len(remaining)]

\* The plans that the possible orders give: none when the goals have a cycle
\* among their prerequisites.
Plans(state, goals, critical) ==
    LET sub == Restrict(state, Closure(state, goals))
        Remaining(order) == Picked(order, {i \in DOMAIN order : order[i] \in OpenTasks(sub)})
    IN  {IF critical THEN CriticalPath(sub, Remaining(order)) ELSE Remaining(order) :
            order \in ValidateAndSort(sub)}
=============================================================================
