----------------------------- MODULE MCBranches -----------------------------
(***************************************************************************)
(* Small instances of the branches.                                        *)
(***************************************************************************)
EXTENDS TaskaBranches

McClosed   == {Word("done")}
McNoTypes  == << >>
McStatus   == Null
McReserved == {"seq", "id", "deps"}
McColumns  == {"status"}
McBlockers == {"depends_on"}

PointsType == (Word("bug") :>
    [fields |-> "points" :> [kind |-> "int", required |-> FALSE, default |-> Null,
                            values |-> {}, refused |-> {}, moves |-> << >>],
     closed |-> FALSE])

Update(set, append) ==
    [cmd |-> "update", id |-> "x", guard |-> << >>, newField |-> TRUE,
     ops |-> [set |-> set, append |-> append, subtract |-> << >>]]

Set(k, v)  == Update(k :> v, << >>)
Plus(k, v) == Update(<< >>, k :> v)

Edge(op) == << [op |-> op, id |-> "x", payload |-> [rel |-> "depends_on", target |-> "y"]] >>

Create(id) == [cmd |-> "create", id |-> id, payload |-> << >>, newField |-> FALSE]

Delete(id) == [cmd |-> "delete", id |-> id, guard |-> << >>]

Event(seq, op, id, payload) ==
    [seq |-> seq, ts |-> 1, op |-> op, id |-> id, payload |-> payload,
     undoes |-> 0, key |-> <<-seq, op>>]

GenesisXY ==
    << Event(1, "Create", "x", "task_type" :> Word("bug")), Event(2, "Create", "y", << >>),
       Event(3, "AddEdge", "x", [rel |-> "depends_on", target |-> "y"]) >>

MergeCommands ==
    {Set("owner", Word("a")), Set("owner", Word("b")), Plus("points", Num(1)),
     [cmd |-> "link", edges |-> Edge("AddEdge")],
     [cmd |-> "unlink", edges |-> Edge("RemoveEdge")], Delete("x")}

\* The second event accumulates, and a compaction that keeps two events folds the
\* first one only.
GenesisPoints ==
    << Event(1, "Create", "x", "task_type" :> Word("bug")), Event(2, "Add", "x", "points" :> Num(1)),
       Event(3, "Update", "x", "owner" :> Word("a")) >>

FoldCommands == {Set("owner", Word("b")), Plus("points", Num(1))}
=============================================================================
