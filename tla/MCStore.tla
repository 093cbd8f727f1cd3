------------------------------- MODULE MCStore -------------------------------
(***************************************************************************)
(* Small instances of the store: a schema-agnostic configuration, tasks x  *)
(* and y, and the commands that race in them.                              *)
(***************************************************************************)
EXTENDS TaskaStore

McClosed   == {Word("done")}
McNoTypes  == << >>
McStatus   == Word("todo")
McReserved == {"seq", "id", "deps"}
McColumns  == {"status"}
McBlockers == {"depends_on"}

Ops(set, append) == [set |-> set, append |-> append, subtract |-> << >>]

CreateX == [cmd |-> "create", id |-> "x", payload |-> << >>, newField |-> FALSE]
DeleteX == [cmd |-> "delete", id |-> "x", guard |-> << >>]

Update(ops, guard) ==
    [cmd |-> "update", id |-> "x", ops |-> ops, guard |-> guard, newField |-> TRUE]

\* ta update x owner=... --if owner=
Claim(who) == Update(Ops("owner" :> Word(who), << >>), "owner" :> Blank)

\* ta update x status=done notes+=n, a batch of two events
Report == Update(Ops("status" :> Word("done"), "notes" :> Word("n")), << >>)

\* ta update x notes+=n
Note == Update(Ops(<< >>, "notes" :> Word("n")), << >>)

\* ta dep add y depends_on x
LinkYX ==
    [cmd |-> "link",
     edges |-> << [id |-> "y", op |-> "AddEdge",
                   payload |-> [rel |-> "depends_on", target |-> "x"]] >>]

Read    == [cmd |-> "read"]
Compact == [cmd |-> "compact"]
Resolve == [cmd |-> "resolve"]

Event(seq, op, id, payload) ==
    [seq |-> seq, ts |-> 1, op |-> op, id |-> id, payload |-> payload, undoes |-> 0]

GenesisXY == << Event(1, "Create", "x", "status" :> Word("todo")),
                Event(2, "Create", "y", << >>) >>

\* A claim among the events to be folded.
GenesisClaim == << Event(1, "Create", "x", << >>),
                   Event(2, "Update", "x", "owner" :> Word("a")),
                   Event(3, "Create", "y", << >>) >>

\* The second event is an orphan, as a merge leaves one: its task was deleted on
\* the other branch.
GenesisOrphan == << Event(1, "Create", "x", "notes" :> Word("m")),
                    Event(2, "Update", "z", "status" :> Word("done")) >>

GenesisOrphanY == Append(GenesisOrphan, Event(3, "Create", "y", << >>))

\* Which process is which makes no difference.
ProcsAlike == Permutations(Procs)

WindowCommands  == {CreateX, DeleteX, Claim("a"), Claim("b"), Report, LinkYX, Read,
                    Compact, Resolve}
ReadCommands    == {Read, Compact}
OverlapCommands == {Note, Report, Compact, Resolve}
ClaimCommands   == {Claim("a"), Claim("b"), Compact}
=============================================================================
