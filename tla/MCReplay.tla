------------------------------ MODULE MCReplay ------------------------------
(***************************************************************************)
(* Small instances of the replay machine.                                  *)
(***************************************************************************)
EXTENDS TaskaReplay

McClosed == {Word("done"), Word("dropped")}

On(op, id, payload) == [op |-> op, id |-> id, payload |-> payload]

Status(op, s) == On(op, "x", StatusKey :> Word(s))

Edge == [rel |-> "depends_on", target |-> "y"]

Full == (StatusKey :> Word("todo")) @@ ("n" :> Num(1)) @@ ("s" :> SetOf({"a"}))

\* The life of a task: created open or closed, moved between two closed statuses,
\* reopened by an unset, deleted, touched without a change of status.
LifeDrafts == {On("Create", "x", Full), Status("Create", "done"),
               Status("Update", "done"), Status("Update", "dropped"),
               On("Update", "x", StatusKey :> Null), On("Delete", "x", << >>),
               On("AddEdge", "x", Edge), On("RemoveEdge", "x", Edge)}

\* Accumulating on numbers, sets and text, one with an operand of the wrong shape.
SumDrafts == {On("Add", "x", ("n" :> Num(2)) @@ ("s" :> SetOf({"b"}))),
              On("Add", "x", ("n" :> Num(-3)) @@ (StatusKey :> Num(1))),
              On("Remove", "x", ("n" :> Num(1)) @@ ("s" :> SetOf({"a"}))),
              On("Append", "x", "s" :> Word("u"))}

McDrafts == LifeDrafts \cup SumDrafts
=============================================================================
