---------------------------- MODULE TaskaLedger ----------------------------
(***************************************************************************)
(* What the store of taska promises its users: a task map that changes     *)
(* only by whole commands, each one accepted by the write gate in the very *)
(* map it changes.  Refused commands, reads, compaction and resolve leave  *)
(* the map alone.                                                          *)
(***************************************************************************)
EXTENDS TaskaGate

CONSTANTS
    Commands,  \* the commands that may be run
    Genesis    \* the events the map starts from

VARIABLE tasks

ASSUME CommandsAssumption == \A c \in Commands : IsCommand(c)

\* Names of types and values of enums are texts, and defaults are values.
ASSUME TypesAssumption ==
    /\ IsValue(DefaultStatus)
    /\ \A type \in DOMAIN TaskTypes :
          /\ IsText(type)
          /\ LET decl == TaskTypes[type].fields
             IN  \A k \in DOMAIN decl :
                    /\ IsValue(decl[k].default)
                    /\ decl[k].kind = "enum" => \A v \in decl[k].values : IsText(v)

FieldNames == UNION {DOMAIN c.guard : c \in {d \in Commands : d.cmd \in {"update", "delete"}}}

Stamped(drafts) ==
    [i \in DOMAIN drafts |->
        [seq |-> 0, ts |-> 1, op |-> drafts[i].op, id |-> drafts[i].id,
         payload |-> drafts[i].payload]]

Init == tasks = Materialize(<< >>, Genesis)

\* past, the fields the log remembers, only decides which names a guard may use.
Commit(c) ==
    \E state \in {tasks}, past \in SUBSET FieldNames :
        \E out \in {Build(c, state, past).out} :
            /\ out # << >>
            /\ tasks' = Materialize(state, Stamped(out))

Next == \E c \in Commands : c.cmd \in Writers /\ Commit(c)

Spec == Init /\ [][Next]_tasks

----------------------------------------------------------------------------
(* What no accepted command can break, whatever the schemas.               *)

Lawful(fields) ==
    DOMAIN TaskTypes # {} /\ (DenyUntyped \/ TypeKey \in DOMAIN fields) => Conforms(fields)

EdgesOf(t, rels) == {e \in t.edges : e.rel \in rels}

Unambiguous(state) ==
    \A id, other \in DOMAIN state :
        /\ \A e, f \in EdgesOf(state[id], Blockers) : e.target = f.target => e.rel = f.rel
        /\ \A e \in EdgesOf(state[id], Hierarchy), f \in EdgesOf(state[other], Hierarchy) :
              e.target = f.target => id = other

\* The map starts lawful; the log it starts from holds events.
ASSUME GenesisAssumption ==
    /\ Genesis \in Seq({Genesis[i] : i \in DOMAIN Genesis})
    /\ \A i \in DOMAIN Genesis :
          /\ Genesis[i].op \in EventOps
          /\ CarriesFields(Genesis[i]) => AreValues(Genesis[i].payload)
    /\ LET state == Materialize(<< >>, Genesis)
       IN  Unambiguous(state) /\ \A id \in DOMAIN state : Lawful(state[id].fields)

\* Every task there is conforms to its type, all its fields together and after
\* every batch, retype and accumulation: what the gate previews is what replay
\* makes of the events it let through (vet_events, enforce_schemas).
EveryTaskConforms == \A id \in DOMAIN tasks : Lawful(tasks[id].fields)

\* Between two tasks there is at most one blocking relationship per direction, and
\* a task has at most one parent, whether the edges come one at a time, in one
\* command, or around a delete and a new create (validate_blocker_additions).
OneBlockerOneParent == Unambiguous(tasks)

Contents(state) == [id \in DOMAIN state |-> <<state[id].fields, state[id].edges>>]

\* Each event changes a field or an edge, or creates or deletes a task.
EachCounts(state, events) ==
    \A i \in DOMAIN events :
        Contents(Materialize(state, SubSeq(events, 1, i)))
            # Contents(Materialize(state, SubSeq(events, 1, i - 1)))

\* Whatever command comes, each event it would log counts: the log is never bloated,
\* and no write is reported that changed nothing (vet_events drops what is already
\* so).  This is of commands that append a line and name an edge once: for an empty
\* text appended to an empty one, and an edge named twice, an event is logged.
EveryLoggedEventCounts ==
    \A c \in {d \in Commands : d.cmd \in Writers} :
        \A events \in {Stamped(Build(c, tasks, FieldNames).out)} : EachCounts(tasks, events)

\* Whatever its type, a task with this value has no declared way out of it, and no
\* way to lose the field.
Terminal(k, v) ==
    /\ DOMAIN TaskTypes # {} /\ DenyUntyped
    /\ \A type \in DOMAIN TaskTypes :
          LET decl == TaskTypes[type].fields
          IN  /\ k \in DOMAIN decl /\ decl[k].required /\ decl[k].kind = "enum"
              /\ v \in DOMAIN decl[k].moves /\ decl[k].moves[v] = {}

\* A task in a terminal status stays in it until it is deleted, also when it is
\* retyped or its status cleared first (enforce_transitions).
TerminalIsForever ==
    [][\A id \in (DOMAIN tasks) \cap (DOMAIN tasks') : \A k \in DOMAIN tasks[id].fields :
        LET v == tasks[id].fields[k]
        IN  Terminal(k, v) => Value(tasks'[id].fields, k) = v]_tasks
=============================================================================
