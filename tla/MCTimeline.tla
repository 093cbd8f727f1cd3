----------------------------- MODULE MCTimeline -----------------------------
(***************************************************************************)
(* A store of two tasks, x with a note and y, in which x is written,       *)
(* linked and deleted, while events are undone, committed and folded and a *)
(* watch follows along.                                                    *)
(***************************************************************************)
EXTENDS TaskaTimeline

Todo == Word("todo")
Done == Word("done")

McClosed    == {Done}
McInverse   == "depends_on" :> "blocks"
McTimes     == [created |-> "create_time", updated |-> "", closed |-> ""]
McBlockers  == {"depends_on"}
McReserved  == {"id", "deps", "depends_on", "blocks", "create_time"} \cup GraphColumns
McColumns   == {StatusKey}
McNoTypes   == << >>
McRank      == ("x" :> 1) @@ ("y" :> 2)

Set(k, v) ==
    [cmd |-> "update", id |-> "x", guard |-> << >>, newField |-> TRUE,
     ops |-> [set |-> k :> v, append |-> << >>, subtract |-> << >>]]

Note == [Set("notes", Blank) EXCEPT !.ops = [set |-> << >>, append |-> "notes" :> Word("n"),
                                            subtract |-> << >>]]

Link == [op |-> "AddEdge", id |-> "x", payload |-> [rel |-> "depends_on", target |-> "y"]]

McCommands ==
    {Set(StatusKey, Done), Note,
     [cmd |-> "link", edges |-> << Link >>],
     [cmd |-> "delete", id |-> "x", guard |-> << >>],
     [cmd |-> "create", id |-> "x", payload |-> << >>, newField |-> FALSE]}

GenesisXY ==
    << [seq |-> 1, ts |-> 1, op |-> "Create", id |-> "y", payload |-> << >>, undoes |-> NoUndo],
       [seq |-> 2, ts |-> 1, op |-> "Create", id |-> "x", payload |-> StatusKey :> Todo,
        undoes |-> NoUndo] >>

ASSUME McStartsWithNothingUndone == OnlyOriginals

AllTasks == [criteria |-> {}, ids |-> {}, open |-> FALSE, ready |-> FALSE, columns |-> {},
             sort |-> << >>, requested |-> TRUE, reverse |-> FALSE]

IsTodo == [field |-> "state", op |-> "eq", value |-> Todo]

McWatch == [AllTasks EXCEPT !.criteria = {IsTodo}]

McQueries == {McWatch, [AllTasks EXCEPT !.open = TRUE],
              [AllTasks EXCEPT !.ready = TRUE, !.columns = {"state", "deps"}]}

McStarts == {[watched |-> TRUE, steps |-> 3], [watched |-> FALSE, steps |-> 4]}

----------------------------------------------------------------------------
Due == phase \notin {"off", "none"} /\ Polling.updates # {}

\* A change that stays is reported, however the watch's looks at the fingerprint, its
\* two reads and the writes interleave (cmd_watch).
StableChangeIsReported == []<> ~ Due
=============================================================================
