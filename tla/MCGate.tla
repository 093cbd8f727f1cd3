------------------------------- MODULE MCGate -------------------------------
(***************************************************************************)
(* The write gate under a strict schema: two closed task types with a       *)
(* workflow, every task typed, blockers and subtasks between them.  The     *)
(* machine is the ledger, in which commands are accepted one at a time.     *)
(***************************************************************************)
EXTENDS TaskaLedger

Bug  == Word("bug")
Epic == Word("epic")
Todo == Word("todo")
Done == Word("done")

McClosed == {Done}

Schema(kind, required, default, values, refused) ==
    [kind |-> kind, required |-> required, default |-> default,
     values |-> values, refused |-> refused, moves |-> << >>]

Workflow(moves) == [Schema("enum", TRUE, Todo, DOMAIN moves, {}) EXCEPT !.moves = moves]

Doing == Word("doing")

BugFields ==
    ("status" :> Workflow((Todo :> {Doing}) @@ (Doing :> {Todo, Done}) @@ (Done :> {})))
    @@ ("points" :> Schema("int", FALSE, Num(0), {}, {Num(-1), Num(-2)}))
    @@ ("tags" :> Schema("set", FALSE, Null, {}, {}))

\* The longest owner is two lines.
EpicFields ==
    ("status" :> Workflow((Todo :> {Done}) @@ (Done :> {})))
    @@ ("owner" :> Schema("string", TRUE, Null, {},
                        {Blank} \cup {Text(<<w, "b", "b">>) : w \in {"a", "b", "1"}}))

McTypes == (Bug :> [fields |-> BugFields, closed |-> TRUE])
        @@ (Epic :> [fields |-> EpicFields, closed |-> TRUE])

McReserved  == {"seq", "id", "deps", "depends_on", "after", "parent_of"}
McColumns   == {"status"}
McBlockers  == {"depends_on", "after", "parent_of"}
McHierarchy == {"parent_of"}

Create(id, payload) == [cmd |-> "create", id |-> id, payload |-> payload, newField |-> FALSE]

Update(set, append, subtract) ==
    [cmd |-> "update", id |-> "x", guard |-> << >>, newField |-> TRUE,
     ops |-> [set |-> set, append |-> append, subtract |-> subtract]]

Set(k, v)  == Update(k :> v, << >>, << >>)
Plus(k, v) == Update(<< >>, k :> v, << >>)
Less(k, v) == Update(<< >>, << >>, k :> v)

Type(t) == TypeKey :> t

CreateCommands ==
    {Create("x", << >>), Create("x", Type(Bug)), Create("x", Type(Epic)),
     Create("x", Type(Epic) @@ ("owner" :> Num(1))),
     Create("x", Type(Bug) @@ ("points" :> Word("1")))}

MoveCommands ==
    {Set("status", Todo), Set("status", Doing), Set("status", Done), Set("status", Blank),
     Set(TypeKey, Bug), Set(TypeKey, Blank), Set("owner", Blank),
     Update(Type(Epic) @@ ("owner" :> Word("a")) @@ ("points" :> Null) @@ ("tags" :> Null),
            << >>, << >>),
     Update(Type(Bug) @@ ("owner" :> Blank), << >>, << >>)}

SumCommands ==
    {Plus("points", Num(1)), Less("points", Num(1)), Plus("status", Done),
     Update("points" :> Num(0), "points" :> Num(1), << >>),
     Update("status" :> Done, "points" :> Num(1), "tags" :> Word("a")),
     Plus("tags", Word("a")), Less("tags", Word("a")), Set("tags", Word("b")),
     Plus("owner", Word("b")), Set("size", Num(1))}

Delete == [cmd |-> "delete", id |-> "x", guard |-> << >>]

SchemaCommands == CreateCommands \cup MoveCommands \cup SumCommands \cup {Delete}

Edge(op, id, rel, target) == [op |-> op, id |-> id, payload |-> [rel |-> rel, target |-> target]]

Link(id, rel, target)   == [cmd |-> "link", edges |-> << Edge("AddEdge", id, rel, target) >>]
Unlink(id, rel, target) == [cmd |-> "unlink", edges |-> << Edge("RemoveEdge", id, rel, target) >>]

Singles == {"depends_on", "parent_of"}

\* Single edges from x and from y, and commands of two edges that clash with each
\* other: two blockers of one task, two parents of one task.
EdgeCommands ==
    {Link(p[1], rel, p[2]) : p \in {<<"x", "y">>, <<"z", "y">>, <<"y", "x">>}, rel \in Singles}
    \cup {Unlink(p[1], rel, p[2]) : p \in {<<"x", "y">>, <<"z", "y">>}, rel \in Singles}
    \cup {Link("x", "after", "x"),
          [cmd |-> "link", edges |-> << Edge("AddEdge", "x", "depends_on", "y"),
                                        Edge("AddEdge", "x", "after", "y") >>],
          [cmd |-> "link", edges |-> << Edge("AddEdge", "x", "parent_of", "y"),
                                        Edge("AddEdge", "z", "parent_of", "y") >>]}

McCommands == SchemaCommands \cup EdgeCommands

GenesisXYZ == [i \in 1..3 |-> [seq |-> i, ts |-> 1, op |-> "Create",
                               id |-> <<"x", "y", "z">>[i], payload |-> Type(Bug)
                               @@ ("status" :> Todo) @@ ("points" :> Num(0)), undoes |-> 0]]
=============================================================================
