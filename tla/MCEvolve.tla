------------------------------ MODULE MCEvolve ------------------------------
(***************************************************************************)
(* A store that was begun without schemas - x is a Job by its own column   *)
(* "kind", y has nothing but a status - and is then given types, other     *)
(* display names and stricter rules.                                       *)
(***************************************************************************)
EXTENDS TaskaEvolve

Todo  == Word("todo")
Doing == Word("doing")
Done  == Word("done")
Job   == Word("Job")

Reserved == {"id", "deps", "unblocks", "blocked_by", "subtasks"}

Rank == ("x" :> 1) @@ ("y" :> 2) @@ ("z" :> 3)

Schema == [kind |-> "any", required |-> FALSE, default |-> Null, values |-> {},
           refused |-> {}, moves |-> << >>]

Flow(moves) == [Schema EXCEPT !.kind = "enum", !.values = {Todo, Doing, Done}, !.moves = moves]

Moves == (Todo :> {Doing}) @@ (Doing :> {Todo, Done}) @@ (Done :> {})

\* What a Job is, under the name its status has.
JobType(status, flow) ==
    Job :> [closed |-> FALSE,
            fields |-> (status :> flow)
                @@ ("points" :> [Schema EXCEPT !.kind = "int", !.required = TRUE,
                                               !.default = Num(1), !.refused = {Num(3)}])
                @@ ("tags" :> [Schema EXCEPT !.kind = "set"])]

\* Two types; a Chore has only a status.
Chore == Word("Chore")

TwoTypes == JobType("status", Flow(Moves)) @@ (Chore :> [closed |-> FALSE, fields |-> << >>])

BadDefault(types) == [types EXCEPT ![Job].fields["points"].default = Num(3)]

Rels == ("depends_on" :> [kind |-> "blocker", inverse |-> "blocks"])
        @@ ("about" :> [kind |-> "info", inverse |-> ""])

Config0 ==
    [keep_events |-> 2, status_field |-> "status", type_field |-> "type", closed |-> {Done},
     default_status |-> Todo, untyped |-> "allow",
     times |-> [created |-> "create_time", updated |-> "", closed |-> ""],
     rels |-> Rels, types |-> << >>, columns |-> {"title"}]

Setting(key, value) == [key |-> key, value |-> value]

Made ==
    {Setting("types", JobType("status", Flow(Moves))),
     Setting("types", TwoTypes),
     Setting("types", JobType("state", Flow(Moves))),
     Setting("types", JobType("status", Flow([Moves EXCEPT ![Doing] = {Todo}]))),
     Setting("types", BadDefault(JobType("status", Flow(Moves)))),
     Setting("status_field", "state"), Setting("status_field", "about"),
     Setting("type_field", "kind"),
     Setting("untyped", "deny"), Setting("closed", {Doing}), Setting("closed", {}),
     Setting("rels", "depends_on" :> Rels["depends_on"]),
     Setting("rels", [Rels EXCEPT !["about"].kind = "blocker"])}

ByHand == {Setting("rels", "about" :> Rels["about"])}

Event(seq, op, id, payload) ==
    [seq |-> seq, ts |-> 1, op |-> op, id |-> id, payload |-> payload]

Begin ==
    << Event(1, "Create", "y", (StatusKey :> Todo) @@ ("kind" :> Word("Task"))),
       Event(2, "Create", "x", (StatusKey :> Doing) @@ ("kind" :> Job)
                                   @@ ("points" :> Word("-2")) @@ ("tags" :> Word("a"))),
       Event(3, "AddEdge", "x", [rel |-> "about", target |-> "y"]) >>

Ops(set, append) == [set |-> set, append |-> append, subtract |-> << >>]

Update(id, ops) == [cmd |-> "update", id |-> id, ops |-> ops, guard |-> << >>, newField |-> FALSE]

Work ==
    {Update("y", Ops(TypeKey :> Job, << >>)),
     Update("y", Ops("kind" :> Chore, << >>)),
     Update("x", Ops("tags" :> Word("b"), << >>)),
     Update("x", Ops(<< >>, "tags" :> Word("c"))),
     [cmd |-> "delete", id |-> "y", guard |-> << >>]}

McRenames   == {<< >>, << TypeKey, "kind" >>}
McBackfills == {Null, Job}

\* The document as it came, emptied, or with one line changed, deleted or added.
Documents(template, c) ==
    {template, << >>, Put(template, c.status_field, Done), Put(template, "titel", Word("t")),
     Put(template, StatusKey, Done), Put(template, c.type_field, Job)}
    \cup {Without(template, {k}) : k \in {"points", "tags"}}
    \cup {Put(template, "tags", v) : v \in {Blank, SetOf({Word("c")})}}
    \cup {Put(template, "points", Num(3))}

----------------------------------------------------------------------------

\* Saving a form writes what the user changed and nothing else: whatever others did
\* to the task since it was opened stays, but for a declared default the task lacks
\* (EditForm::payload: a form is a partial view).
SaveKeepsOthersWork ==
    form.open =>
        \A edited \in Edits(form.doc.template, form.config), state \in {State} :
          \A new \in {Desk(config)!Materialize(state, Saved(Preview(edited), state))} :
              Desk(form.config)!KeepsUnedited(form.doc, edited,
                  Desk(form.config)!FieldsOf(state, form.doc.id),
                  Desk(form.config)!FieldsOf(new, form.doc.id))

\* The preview says exactly what the write would (EditForm::preview, EditForm::apply).
PreviewedSaveLands ==
    form.open =>
        \A edited \in Edits(form.doc.template, form.config) :
            Desk(form.config)!PreviewTellsWrite(form.doc, edited)

\* A suggestion of a new task's form that the user leaves alone is part of what is
\* created (edit.rs: "untouched suggestions stay out, so `write::create` stamps them").
UntouchedSuggestionsAreStamped ==
    form.open /\ form.doc.creating =>
        \A edited \in Edits(form.doc.template, form.config) :
            LET payload   == Desk(form.config)!FormPayload(form.doc, edited)
                drafts    == Desk(form.config)!DraftEvents(form.doc,
                                 Desk(form.config)!CanonicalizeFields(payload))
                Untouched == {k \in DOMAIN edited :
                                 k \notin DOMAIN payload /\ edited[k] # Blank}
            IN  payload # << >> /\ Desk(form.config)!Writable(payload) =>
                    \A k \in Untouched :
                        Desk(form.config)!CanonicalName(k) \in DOMAIN drafts[1].payload

\* The tasks that no read warns of.
Conforming(state) ==
    DOMAIN state \ Desk(config)!ReadWarnings(baseline, log, state).nonconforming

\* The state after a command, nothing when it is refused.
After(state, c) ==
    {Desk(config)!Materialize(state, Events(b.out)) :
        b \in {r \in {Desk(config)!Build(c, state, {})} : r.ok}}

\* Every task that no read warns of can be finished by updates of its status, one
\* after the other, as the write gate accepts them: the declared machine, the closed
\* statuses and the gate agree (collect_reachability_problems).
EveryTaskCanFinish ==
    Valid(config) /\ config.closed # {} =>
        \A state \in {State} : \A id \in Conforming(state) :
            LET Step(S, i) == S \cup UNION {After(t, Update(id, Ops(StatusKey :> v, << >>))) :
                                              t \in S, v \in {Todo, Doing, Done}}
            IN  \E t \in FoldLeft(Step, {Restrict(state, {id})}, << 1, 2, 3 >>) :
                    Value(t[id].fields, StatusKey) \in config.closed

\* A type whose required fields all have defaults takes a task of which nothing is said
\* but the type, when the status every task starts with is one of its own.
BareCreateLands ==
    Valid(config) =>
        \A state \in {State}, type \in DOMAIN config.types :
            LET decl == Desk(config)!Declared(type)
            IN  (/\ \A k \in DOMAIN decl : decl[k].required => decl[k].default # Null
                 /\ StatusKey \in DOMAIN decl =>
                        Desk(config)!MatchesSchema(config.default_status, decl[StatusKey])) =>
                    After(state, [cmd |-> "create", id |-> "w", payload |-> TypeKey :> type,
                                  newField |-> FALSE]) # {}

\* A declared type can be lived in: its tasks can be made and can be finished.
TypesAreUsable == EveryTaskCanFinish /\ BareCreateLands

\* Under a valid configuration a field is read under the name it is shown under, by a
\* filter as by the editor, and written back to the key it came from - unless a setting
\* gave the name of a stored field to something else (the one namespace of
\* collect_name_collision_problems).
NamesRoundTrip ==
    Valid(config) =>
        \A state \in {State} : \A id \in DOMAIN state :
            LET fields == state[id].fields
                shown  == Desk(config)!RenameToDisplay(fields)
                taken  == ({config.status_field, config.type_field} \ {StatusKey, TypeKey})
                             \cup RelationshipNames(config) \cup TimestampNames(config)
            IN  DOMAIN fields \cap taken = {} =>
                    /\ Desk(config)!Writable(shown)
                    /\ Desk(config)!CanonicalizeFields(shown) = fields
                    /\ \A k \in DOMAIN fields :
                          Desk(config)!FieldValues(state, id, Desk(config)!DisplayName(k))
                              = IF IsSet(fields[k]) THEN fields[k][2] ELSE {fields[k]}

----------------------------------------------------------------------------
(* Repair.                                                                 *)

Repairs == {r \in Renames \X Backfills : Valid(config) /\ Desk(config)!MayRepair(r[1], r[2])}

\* A later event changes the field in place, unsets it or makes the task anew: the
\* record a value is fixed in does not decide what the field is.
Reworked(store) ==
    {p \in {store.log[i].id : i \in DOMAIN store.log} \X {"tags", "points", TypeKey} :
        \E i \in DOMAIN store.log :
            LET e == store.log[i]
            IN  /\ e.id = p[1]
                /\ \/ e.op \in {"Append", "Add", "Remove"} /\ p[2] \in DOMAIN e.payload
                   \/ e.op = "Update" /\ p[2] \in DOMAIN e.payload /\ e.payload[p[2]] = Null
                   \/ e.op = "Delete"}

\* A rename gives the task another type: a record later than the last that sets its type
\* carries the name of a declared type in the column that becomes the type (apply_rename
\* asks of each record alone whether it has the new name).
Retyped(rename, id) ==
    /\ rename # << >>
    /\ \E i \in DOMAIN log :
          /\ log[i].id = id /\ Desk(config)!CarriesFields(log[i])
          /\ Desk(config)!RenamedFields(log[i].payload, rename[1], rename[2]) # log[i].payload
          /\ \A j \in i + 1..Len(log) : ~ (log[j].id = id /\ TypeKey \in DOMAIN log[j].payload)

\* Repair gives a task no type that is not declared and, unless a rename meets a later
\* record with the old column, a typed task keeps its type; of the other fields it
\* touches only those that do not fit their declared kind and those that are missing:
\* what conformed is what it was (repair never guesses).  Of the renamed column itself
\* nothing is asked.
RepairKeepsWhatFits ==
    \A r \in Repairs :
        \A old \in {State}, new \in {Desk(config)!StateOf(Repaired(r[1], r[2]))} :
            /\ DOMAIN new = DOMAIN old
            /\ \A id \in DOMAIN new :
                LET f    == old[id].fields
                    g    == new[id].fields
                    decl == Desk(config)!Declared(Value(g, TypeKey))
                IN  /\ new[id].edges = old[id].edges
                    /\ TypeKey \in DOMAIN f /\ ~ Retyped(r[1], id) => Value(g, TypeKey) = f[TypeKey]
                    /\ Value(g, TypeKey) # Value(f, TypeKey) => g[TypeKey] \in DOMAIN config.types
                    /\ \A k \in (DOMAIN f \cup DOMAIN g) \ {TypeKey, "kind"} :
                         \/ Value(f, k) = Value(g, k)
                         \/ k \in DOMAIN decl /\ k \notin DOMAIN f /\ decl[k].required
                         \/ k \in DOMAIN decl /\ k \in DOMAIN f
                              /\ (Desk(config)!MatchesKind(f[k], decl[k]) => << id, k >> \in Reworked(Store))

\* What repair can fix it has fixed: nothing is left for the next one, except where a
\* later event reworked the field.
RepairConverges ==
    \A r \in Repairs : \A new \in {Repaired(r[1], r[2])} :
        \A f \in Desk(config)!LosslessFixes(Desk(config)!StateOf(new)) :
            << f.id, f.key >> \in Reworked(Store)

\* Two records of the task speak of the column that is renamed, under its old name or
\* its new one: which of them the rename reaches depends on whether they are folded.
Split(rename, id) ==
    LET names == {rename[2], IF rename[1] = config.type_field THEN TypeKey ELSE rename[1]}
        Speaks(fields) == names \cap DOMAIN fields # {}
        events == {i \in DOMAIN log :
                      log[i].id = id /\ Desk(config)!CarriesFields(log[i]) /\ Speaks(log[i].payload)}
    IN  Cardinality(events)
            + (IF id \in DOMAIN baseline /\ Speaks(baseline[id].fields) THEN 1 ELSE 0) > 1

\* Repairing a store before it is compacted and after it leads to the same tasks, so
\* clones that compacted at different times agree, except where a later event reworked
\* a field and for the tasks whose renamed column is split over several records.
RepairCommutesWithCompact ==
    Reworked(Store) = {} =>
        \A r \in Repairs, n \in 1..Len(log) :
            \A folded \in {[baseline |-> Desk(config)!Materialize(baseline, SubSeq(log, 1, n)),
                            log |-> SubSeq(log, n + 1, Len(log))]} :
                \A early \in {Desk(config)!StateOf(Repaired(r[1], r[2]))},
                   late \in {Desk(config)!StateOf(Desk(config)!RepairSchema(folded, r[1], r[2]))} :
                    /\ DOMAIN early = DOMAIN late
                    /\ \A id \in DOMAIN early :
                          (r[1] = << >> \/ ~ Split(r[1], id)) => early[id] = late[id]

\* A repair leaves nothing to the next one (README: "All idempotent") and, but for split
\* columns, does not depend on how far the log was folded.
RepairSettles == RepairConverges /\ RepairCommutesWithCompact
=============================================================================
