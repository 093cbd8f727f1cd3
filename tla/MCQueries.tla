------------------------------ MODULE MCQueries ------------------------------
(***************************************************************************)
(* What reads say of every task map a ledger of four tasks comes to: the   *)
(* graph of w, x, y and z with a diamond, a subtask, a symmetric link, an  *)
(* edge that closes a cycle, a target that is deleted, and a field that a  *)
(* schema gives a default.                                                 *)
(***************************************************************************)
EXTENDS TaskaReads, TaskaTree

Todo == Word("todo")
Done == Word("done")
Job  == Word("job")

McClosed == {Done}

Size == [kind |-> "int", required |-> FALSE, default |-> Num(1), values |-> {},
         refused |-> {}, moves |-> << >>]

McTypes == Job :> [fields |-> "size" :> Size, closed |-> FALSE]

McInverse == ("depends_on" :> "blocks") @@ ("parent_of" :> "subtask_of")
             @@ ("related" :> "related")

McTimes == [created |-> "create_time", updated |-> "", closed |-> "close_time"]

McBlockers  == {"depends_on", "parent_of"}
McHierarchy == {"parent_of"}
McReserved  == {"id", "deps", "unblocks", "blocked_by", "subtasks", "create_time", "close_time"}
                   \cup DOMAIN McInverse \cup {"blocks", "subtask_of"}
McColumns   == {StatusKey}

Wxyz == {"w", "x", "y", "z"}

McRank == [s \in Wxyz |-> CHOOSE n \in 1..4 : <<"w", "x", "y", "z">>[n] = s]
          @@ ("1" :> 0) @@ ("done" :> 5) @@ ("todo" :> 6) @@ ("" :> 0)

McGuards == {[field |-> f, op |-> op, value |-> v] :
              f \in {"size", "state", "depends_on", "related"},
              op \in {"eq", "ne", "gt", "le"}, v \in {Num(1), Num(2), Todo, Blank, Word("x")}}

Set(id, k, v) ==
    [cmd |-> "update", id |-> id, guard |-> << >>, newField |-> TRUE,
     ops |-> [set |-> k :> v, append |-> << >>, subtract |-> << >>]]

Edges == {<<"w", "depends_on", "y">>, <<"x", "parent_of", "z">>, <<"y", "depends_on", "z">>,
          <<"x", "depends_on", "y">>, <<"z", "depends_on", "w">>, <<"z", "related", "x">>}

EdgeDraft(op, e) == [op |-> op, id |-> e[1], payload |-> [rel |-> e[2], target |-> e[3]]]

McCommands ==
    {Set(id, StatusKey, s) : id \in {"x", "y", "z"}, s \in {Todo, Done}}
    \cup {[cmd |-> "link", edges |-> << EdgeDraft("AddEdge", e) >>] : e \in Edges}
    \cup {[cmd |-> "unlink", edges |-> << EdgeDraft("RemoveEdge", <<"x", "parent_of", "z">>) >>],
          Set("w", "size", Num(2)), Set("w", "size", Blank),
          [cmd |-> "delete", id |-> "z", guard |-> << >>],
          [cmd |-> "create", id |-> "z", payload |-> << >>, newField |-> FALSE]}

GenesisWXYZ ==
    [i \in 1..4 |-> [seq |-> i, ts |-> 1, op |-> "Create", id |-> <<"w", "x", "y", "z">>[i],
        payload |-> (StatusKey :> Todo)
                    @@ (IF i = 1 THEN TypeKey :> Job ELSE << >>)]]
    \o << [seq |-> 5, ts |-> 1, op |-> "AddEdge", id |-> "w",
           payload |-> [rel |-> "depends_on", target |-> "x"]] >>

----------------------------------------------------------------------------

Nodes(keep, rank) == NodesOf(Forest(tasks, {}, rank, "depends_on", keep))

IdRank == [id \in Wxyz |-> StringRank[id]]

\* Without cycles the tree shows every task, expands each one that has blockers
\* exactly once, and under it shows all of them (dep tree).
TreeExpandsOnce ==
    \A nodes \in {Nodes(Wxyz, IdRank)} :
        Acyclic => \A id \in DOMAIN tasks :
            LET full == {i \in DOMAIN nodes : nodes[i].id = id /\ nodes[i].kids = "children"}
            IN  /\ full # {}
                /\ BlockerEdges(tasks, id) # {} => Cardinality(full) = 1
                /\ \A i \in full : {nodes[i].children[c].id : c \in DOMAIN nodes[i].children}
                                      = BlockerTargets(tasks, id)

\* Without cycles dep tree --open keeps exactly the tasks that are open or need an
\* open one, in whatever order the tasks are visited.
OpenTreeKeepsOpenWork ==
    Acyclic => \A order \in SetToSeqs(DOMAIN tasks) :
        OpenSubtrees(tasks, order) =
            {id \in DOMAIN tasks : ({id} \cup Needs(id)) \cap OpenTasks(tasks) # {}}

\* The tree leaves out nothing it should show, whole or pruned to open work.
TreeIsComplete == TreeExpandsOnce /\ OpenTreeKeepsOpenWork
=============================================================================
