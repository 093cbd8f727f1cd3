----------------------------- MODULE TaskaReads -----------------------------
(***************************************************************************)
(* What a reader is told of the tasks of a ledger: that the commands that  *)
(* ask one question in two ways - list --ready, status and history, list,  *)
(* show and --if - get one answer.                                         *)
(***************************************************************************)
EXTENDS TaskaLedger, TaskaQuery

CONSTANT Guards  \* the conditions a reader compares, each [field, op, value]

RelationshipNames ==
    (DOMAIN InverseName \cup {InverseName[rel] : rel \in DOMAIN InverseName}) \ {""}

\* What a store is called on to name apart: Config::problems refuses a
\* configuration that gives one name two roles.
ASSUME NamesAssumption ==
    /\ StatusField # TypeField
    /\ \A w \in DOMAIN TimeColumns : TimeColumns[w] \notin {StatusKey, TypeKey}
    /\ RelationshipNames \cap {"id", "deps"} = {}

\* The tasks a command writes to.
Named(c) ==
    IF c.cmd \in {"link", "unlink"} THEN {c.edges[i].id : i \in DOMAIN c.edges} ELSE {c.id}

Ids == {Genesis[i].id : i \in DOMAIN Genesis}
           \cup UNION {Named(c) : c \in {d \in Commands : d.cmd \in Writers}}

\* Every id has its own place in the order of strings.
ASSUME OrderAssumption ==
    /\ Ids \subseteq DOMAIN StringRank
    /\ \A a, b \in Ids : StringRank[a] = StringRank[b] => a = b

\* Edges are of a declared type, and to another task.
Linked(state) ==
    \A id \in DOMAIN state : \A e \in state[id].edges :
        e.rel \in DOMAIN InverseName /\ e.target # id

\* A link names its type by a declared name, or is refused (dep.rs).
ASSUME EdgesAssumption ==
    /\ Linked(Materialize(<< >>, Genesis))
    /\ \A c \in Commands : c.cmd = "link" =>
          \A i \in DOMAIN c.edges : c.edges[i].payload.rel \in DOMAIN InverseName

\* A condition on a computed column is refused.
ASSUME GuardsAssumption == \A c \in Guards : ~ IsComputed(c.field)

----------------------------------------------------------------------------

WhatIsReady ==
    [criteria |-> {}, ids |-> {}, open |-> FALSE, ready |-> TRUE, columns |-> {},
     sort |-> << >>, requested |-> TRUE, reverse |-> FALSE]

Acyclic == ValidateAndSort(tasks) # {}

\* The work that is not done is either ready or blocked, and status, list --ready
\* and the filter that history tests on one task agree which.  A cycle makes
\* status and list --ready fail together (status_summary, ready_tasks, is_ready).
OpenWorkIsReadyOrBlocked ==
    LET s == StatusSummary(Read(tasks))
        l == ListTasks(tasks, << >>, WhatIsReady)
    IN  /\ s.ok = Acyclic /\ l.ok = Acyclic
        /\ s.ready + s.blocked + s.closed = s.total
        /\ l.ok => Range(l.tasks) = {id \in DOMAIN tasks : FilterMatches(tasks, id, WhatIsReady)}

\* What a task needs, however indirectly: every set that has, of the task and of its
\* own members, all the blockers that exist, has it.
Needs(id) ==
    {x \in DOMAIN tasks : \A S \in SUBSET DOMAIN tasks :
        (\A y \in S \cup {id} : BlockerTargets(tasks, y) \cap DOMAIN tasks \subseteq S) => x \in S}

\* dep cycles reports a task exactly when a chain of blockers leads from it back
\* to it, and reports nothing exactly when list --ready and dep plan work.
CyclesAreReported ==
    /\ UNION DependencyCycles(tasks) = {id \in DOMAIN tasks : id \in Needs(id)}
    /\ DependencyCycles(tasks) = {} <=> Acyclic

\* Off the cycles blocked_by is the number of open tasks a task needs, however
\* indirectly and also through tasks that are done, unblocks the number of open
\* tasks that need it.  On a cycle both also count the task itself.
CountsAreTransitive ==
    LET counts == ReachabilityCounts(tasks)
    IN  \A id \in {t \in DOMAIN tasks : t \notin Needs(t)} :
            /\ counts[id].blocked_by = Cardinality(Needs(id) \cap OpenTasks(tasks))
            /\ counts[id].unblocks = Cardinality({t \in OpenTasks(tasks) : id \in Needs(t)})

\* What the graph says a task needs, as a cycle and as counts, is what chains of
\* blockers make of it (dependency_cycles, reachability_counts).
NeedsAreReported == CyclesAreReported /\ CountsAreTransitive

\* The tasks once some are finished with a closed status.
WorkedOff(finished, status) ==
    [id \in DOMAIN tasks |-> IF id \in finished
        THEN [tasks[id] EXCEPT !.fields = Put(@, StatusKey, status)] ELSE tasks[id]]

\* Working a plan off in its order, every task is ready when its turn comes, no
\* task is done already, and in the end the goal is done (dep plan).
PlansAreWorkable ==
    \A goal \in DOMAIN tasks, status \in ClosedStatuses :
        \A plan \in Plans(tasks, {goal}, FALSE) :
            LET Before(i) == WorkedOff({plan[j] : j \in 1..(i - 1)}, status)
            IN  /\ \A i \in DOMAIN plan : IsReady(Before(i), plan[i])
                /\ IsDone(Before(Len(plan) + 1)[goal].fields)

\* The chains of open tasks that a goal needs, each blocked by the one before.
Chains(goal) ==
    LET open == OpenTasks(tasks) \cap ({goal} \cup Needs(goal))
    IN  {c \in UNION {[1..n -> open] : n \in 0..Cardinality(open)} :
            \A i \in 2..Len(c) : c[i - 1] \in BlockerTargets(tasks, c[i])}

\* The critical path to a goal is one such chain, none is longer, and it does not
\* depend on the order the sort came up with (dep plan --critical).
CriticalPathIsLongest ==
    Acyclic => \A goal \in DOMAIN tasks :
        \E path \in Chains(goal) :
            /\ Plans(tasks, {goal}, TRUE) = {path}
            /\ \A c \in Chains(goal) : Len(c) <= Len(path)

\* A plan can be worked off as it stands, and what it calls critical is (dep plan).
PlansAreRight == PlansAreWorkable /\ CriticalPathIsLongest

\* `list blocks=X` and show X's `blocks:` line agree: what the filter finds under an
\* inverse name is what show adds under it, and for a symmetric relationship the
\* task's own edges as well (inverse_index, inverse_edges).
ShowAgreesWithFilter ==
    \A id \in DOMAIN tasks, name \in {InverseName[rel] : rel \in DOMAIN InverseName} \ {""} :
        LET added == InverseEdges(tasks, id)
            own   == {e.target : e \in {f \in tasks[id].edges : f.rel = name}}
        IN  FieldValues(tasks, id, name) =
                {Word(o) : o \in own \cup (IF name \in DOMAIN added THEN added[name] ELSE {})}

\* A field of this name has a declared default that the task has not been given.
LacksDefault(fields, name) ==
    LET decl == Declared(Value(fields, TypeKey))
    IN  \E k \in DOMAIN decl \ DOMAIN fields : DisplayName(k) = name /\ decl[k].default # Null

\* A condition of --if lets a write through exactly where list shows the task for
\* it, as long as what is stored conforms: of a task that lacks a declared default
\* list sees the default and the guard nothing (unmet_criteria).
GuardMeansList ==
    LET seen == Read(tasks)
    IN  \A id \in DOMAIN tasks, c \in Guards :
            ~ LacksDefault(tasks[id].fields, c.field) =>
                (UnmetCriteria(tasks, id, {c}) = {} <=> Matches(seen, id, c))

\* Filters, guards and show read a task by one grammar (list.rs: "a write guard
\* means precisely what `ta list` means").
OneGrammar == ShowAgreesWithFilter /\ GuardMeansList
=============================================================================
