----------------------------- MODULE TaskaGate -----------------------------
(***************************************************************************)
(* The write gate of taska: what a create, update, delete or dependency    *)
(* command turns into, as a function of the state it is vetted against.    *)
(* Build(cmd, state, past) is the verifier closure each command hands to    *)
(* the store, which runs it under the write lock (module TaskaStore).      *)
(*                                                                         *)
(* A draft is [op, id, payload]; the store adds seq and timestamp.  Of the *)
(* configuration the model keeps what the gate decides on; every error is  *)
(* the one outcome Refused.                                                *)
(***************************************************************************)
EXTENDS TaskaEngine

CONSTANTS
    TaskTypes,      \* type name -> [fields: name -> schema, closed: BOOLEAN]
    DenyUntyped,    \* untyped_tasks = "deny"
    DefaultStatus,  \* the status a create stamps, Null when none
    ReservedNames,  \* reserved and computed field names
    DisplayColumns, \* the configured display columns
    Blockers,       \* relationship types that gate readiness
    Hierarchy       \* the blocker types that make a parent

ASSUME GateAssumption ==
    /\ DenyUntyped \in BOOLEAN
    /\ Hierarchy \subseteq Blockers

\* A field schema is [kind, required, default, values, refused, moves]:
\* values is the enum, refused the values its constraints exclude, moves the
\* declared transitions (old value -> allowed new values).

Draft(op, id, payload) == [op |-> op, id |-> id, payload |-> payload]

CarriesFields(d) == d.op \in {"Create", "Update", "Append", "Add", "Remove"}

FieldsOf(state, id) == IF id \in DOMAIN state THEN state[id].fields ELSE << >>

Declared(type) ==
    IF type \in DOMAIN TaskTypes THEN TaskTypes[type].fields ELSE << >>

\* The type a write is judged by: the payload's own wins over the current one.
WriteType(current, payload) ==
    IF TypeKey \in DOMAIN payload THEN payload[TypeKey] ELSE Value(current, TypeKey)

----------------------------------------------------------------------------
(* Shaping a command into drafts.                                          *)

DefaultStamps(current, payload, touched) ==
    LET decl   == Declared(WriteType(current, payload))
        absent == DOMAIN decl \ (DOMAIN payload \cup touched \cup DOMAIN current)
    IN  [k \in {j \in absent : decl[j].default # Null} |-> decl[k].default]

Numerals(v) == {n \in -IntMax..IntMax : v = Word(ToString(n))}

CoerceValue(v, kind) ==
    CASE kind = "string" /\ IsNumber(v) -> Text(TextLines(v))
      [] kind \in {"int", "float"} /\ Numerals(v) # {} -> Num(CHOOSE n \in Numerals(v) : TRUE)
      [] kind = "set" /\ ~ IsSet(v) -> SetOf({v})
      [] OTHER -> v

\* An empty value unsets a field that is not required; the rest is lifted to
\* its declared kind.
CoerceFields(current, payload) ==
    LET decl == Declared(WriteType(current, payload))
        Required(k) == k \in DOMAIN decl /\ decl[k].required
        Coerced(k) ==
            IF payload[k] = Blank /\ ~ Required(k) THEN Null
            ELSE IF payload[k] # Null /\ k \in DOMAIN decl
                 THEN CoerceValue(payload[k], decl[k].kind)
            ELSE payload[k]
    IN  [k \in DOMAIN payload |-> Coerced(k)]

Accumulating == {"int", "float", "set"}

\* += and -= become Append, Add or Remove by the declared kind of each field.
DispatchAccumulate(current, ops) ==
    LET decl == Declared(WriteType(current, ops.set))
        Kind(k) == IF k \in DOMAIN decl THEN decl[k].kind ELSE "any"
        Lift(f) == [k \in DOMAIN f |-> CoerceValue(f[k], Kind(k))]
        counted == {k \in DOMAIN ops.append : Kind(k) \in Accumulating}
    IN  [ok     |-> /\ \A k \in DOMAIN ops.append : Kind(k) # "enum"
                    /\ \A k \in DOMAIN ops.subtract : Kind(k) \in Accumulating,
         text   |-> Without(ops.append, counted),
         add    |-> Lift(Restrict(ops.append, counted)),
         remove |-> Lift(ops.subtract)]

\* The set comes first, so that a reset applies before what accumulates on it;
\* declared defaults the task still lacks are stamped by any write to it.
BuildFieldEvents(id, current, ops) ==
    LET acc     == DispatchAccumulate(current, ops)
        touched == DOMAIN acc.text \cup DOMAIN acc.add \cup DOMAIN acc.remove
        set     == Over(ops.set, DefaultStamps(current, ops.set, touched))
        Some(op, payload) == IF DOMAIN payload = {} THEN << >> ELSE << Draft(op, id, payload) >>
    IN  Some("Update", CoerceFields(current, set)) \o Some("Append", acc.text)
            \o Some("Add", acc.add) \o Some("Remove", acc.remove)

CreateDraft(id, payload) ==
    LET status  == IF DefaultStatus = Null THEN << >> ELSE Put(<< >>, StatusKey, DefaultStatus)
        stamped == Over(payload, status)
    IN  Draft("Create", id,
              CoerceFields(<< >>, Over(stamped, DefaultStamps(<< >>, stamped, {}))))

----------------------------------------------------------------------------
(* Vetting drafts against the state they will be applied to.  preview      *)
(* holds the resulting fields of every task the kept drafts touch.         *)

Vetting(ok, out, preview) == [ok |-> ok, out |-> out, preview |-> preview]

Refused == Vetting(FALSE, << >>, << >>)

\* Mutant: unsetting an absent field counts as a change.
ChangesOrUnsets(current, payload) ==
    {k \in DOMAIN payload : payload[k] = Null \/ payload[k] # Value(current, k)}

Changes(current, payload) == {k \in DOMAIN payload : payload[k] # Value(current, k)}

HasEdge(t, edge) == edge \in t.edges

\* What refuses a draft whatever came before it in its batch.
Refuses(state, d) ==
    \/ CarriesFields(d) /\ DOMAIN d.payload \cap ReservedNames # {}
    \/ d.id \in DOMAIN state <=> d.op = "Create"
    \/ /\ d.op \in {"Append", "Add", "Remove"}
       /\ DOMAIN d.payload \cap {StatusKey, TypeKey} # {}
    \/ d.op = "AddEdge" /\ d.payload.target \notin DOMAIN state \ {d.id}

VetDraft(state, r, d) ==
    LET current == FieldsOf(state, d.id)
        working == IF d.id \in DOMAIN r.preview /\ ~ r.preview[d.id].gone
                   THEN r.preview[d.id].fields ELSE current
        Seen(fields) == Put(r.preview, d.id, [gone |-> FALSE, fields |-> fields])
        Kept(fields) == Vetting(TRUE, Append(r.out, d), Seen(fields))
        KeptEdge     == Vetting(TRUE, Append(r.out, d), r.preview)
        trimmed == Restrict(d.payload, Changes(current, d.payload))
        summed  == ApplyAccumulate(working, d.payload, d.op = "Add")
    IN  IF ~ r.ok \/ Refuses(state, d) THEN Refused
        ELSE CASE d.op = "Create" -> Kept(ApplySet(working, d.payload))
          [] d.op = "Update" ->
                IF DOMAIN trimmed = {} THEN r
                ELSE Vetting(TRUE, Append(r.out, Draft("Update", d.id, trimmed)),
                             Seen(ApplySet(working, trimmed)))
          [] d.op = "Append" -> Kept(ApplyAppend(working, d.payload))
          [] d.op \in {"Add", "Remove"} ->
                IF summed # working THEN Kept(summed)
                ELSE Vetting(TRUE, r.out, Seen(summed))
          [] d.op = "AddEdge" ->
                IF HasEdge(state[d.id], d.payload) THEN r ELSE KeptEdge
          [] d.op = "RemoveEdge" ->
                IF HasEdge(state[d.id], d.payload) THEN KeptEdge ELSE r
          [] OTHER ->  \* Delete
                Vetting(TRUE, Append(r.out, d),
                        Put(r.preview, d.id, [gone |-> TRUE, fields |-> << >>]))

MatchesKind(v, s) ==
    CASE s.kind = "string" -> IsText(v)
      [] s.kind = "int"    -> v[1] = "num"
      [] s.kind = "float"  -> IsNumber(v)
      [] s.kind = "enum"   -> v \in s.values
      [] s.kind = "set"    -> IsSet(v)
      [] OTHER             -> TRUE

MatchesSchema(v, s) == MatchesKind(v, s) /\ v \notin s.refused

Conforms(fields) ==
    LET type == Value(fields, TypeKey)
        decl == Declared(type)
    IN  /\ type \in DOMAIN TaskTypes
        /\ \A k \in DOMAIN decl :
              IF k \in DOMAIN fields THEN MatchesSchema(fields[k], decl[k])
                                     ELSE ~ decl[k].required
        /\ TaskTypes[type].closed =>
              DOMAIN fields \subseteq DOMAIN decl \cup {TypeKey, StatusKey}

\* Mutant: untyped tasks are never held to a schema.
SchemaHoldsIfTyped(fields) == TypeKey \notin DOMAIN fields \/ Conforms(fields)

SchemaHolds(fields) ==
    \/ DOMAIN TaskTypes = {}
    \/ TypeKey \notin DOMAIN fields /\ ~ DenyUntyped
    \/ Conforms(fields)

\* Mutant: a value with no way out is taken for an unconstrained one.
TransitionsHoldUnlessTerminal(before, after) ==
    LET decl == Declared(WriteType(before, after))
    IN  \A k \in DOMAIN decl :
            LET old == Value(before, k)
                new == Value(after, k)
            IN  (/\ old # Null /\ new # Null /\ old # new
                 /\ old \in DOMAIN decl[k].moves
                 /\ decl[k].moves[old] # {}) => new \in decl[k].moves[old]

\* Judged against the value before the batch; setting an absent field, unsetting
\* one and leaving an undeclared value are not transitions.
TransitionsHold(before, after) ==
    LET decl == Declared(WriteType(before, after))
    IN  \A k \in DOMAIN decl :
            LET old == Value(before, k)
                new == Value(after, k)
            IN  (/\ IsText(old) /\ IsText(new) /\ old # new
                 /\ old \in DOMAIN decl[k].moves) => new \in decl[k].moves[old]

EnforceSchemas(state, preview) ==
    \A id \in DOMAIN preview : ~ preview[id].gone =>
        /\ SchemaHolds(preview[id].fields)
        /\ id \in DOMAIN state => TransitionsHold(state[id].fields, preview[id].fields)

Vetted(state, r) == IF r.ok /\ EnforceSchemas(state, r.preview) THEN r ELSE Refused

\* VetDraft, with the draft and what was vetted before it bound to values first.
Vet(state, acc, d) == CHOOSE v \in {VetDraft(state, a, e) : a \in {acc}, e \in {d}} : TRUE

VetEvents(drafts, state) ==
    CHOOSE v \in {Vetted(state, r) :
        r \in {FoldLeft(LAMBDA acc, d : Vet(state, acc, d),
                       Vetting(TRUE, << >>, << >>), drafts)}} : TRUE

----------------------------------------------------------------------------
(* The typo guard and the --if condition.                                  *)

PayloadFields(events) ==
    UNION {DOMAIN events[i].payload : i \in {j \in DOMAIN events : CarriesFields(events[j])}}

\* The fields the tasks use.
UsedFields(state) == UNION {DOMAIN state[id].fields : id \in DOMAIN state}

EditableFields(state) ==
    ({StatusKey, TypeKey} \cup DisplayColumns
        \cup (UNION {DOMAIN TaskTypes[type].fields : type \in DOMAIN TaskTypes})
        \cup UsedFields(state)) \ ReservedNames

VetNewFields(drafts, state, allow) ==
    \/ PayloadFields(drafts) \subseteq EditableFields(state) \cup ReservedNames
    \/ allow
    \/ DOMAIN state = {}

\* A set matches by any of its elements, an absent field only the empty query.
EqMatches(fields, k, wanted) ==
    IF k \notin DOMAIN fields THEN wanted = Blank
    ELSE IF IsSet(fields[k])
         THEN \/ wanted \in fields[k][2]
              \/ fields[k][2] = {} /\ wanted = Blank
         ELSE wanted = fields[k]

\* Mutant: the fields must be known and the task there, but any value will do.
EnsureGuardNames(state, past, id, guard, introduces) ==
    DOMAIN guard # {} =>
        /\ DOMAIN guard \subseteq EditableFields(state) \cup past \cup introduces
        /\ id \in DOMAIN state

\* guard maps each tested field to the wanted value; no guard is << >>.  past is
\* the set of fields the retained log ever wrote.  Criteria other than equality
\* on a field are left out.
EnsureGuard(state, past, id, guard, introduces) ==
    DOMAIN guard # {} =>
        /\ DOMAIN guard \subseteq EditableFields(state) \cup past \cup introduces
        /\ DOMAIN guard \cap ReservedNames = {}
        /\ id \in DOMAIN state
        /\ \A k \in DOMAIN guard : EqMatches(state[id].fields, k, guard[k])

StoredEdges(state) ==
    UNION {{[id |-> id, payload |-> e] : e \in state[id].edges} : id \in DOMAIN state}

Clash(new, old) ==
    /\ new.payload.target = old.payload.target
    /\ new.payload.rel \in Blockers
    /\ \/ /\ new.id = old.id
          /\ old.payload.rel \in Blockers \ {new.payload.rel}
       \/ /\ new.id # old.id
          /\ {new.payload.rel, old.payload.rel} \subseteq Hierarchy

\* Mutant: the edges of one command are not checked against each other.
BlockersAllowedOneByOne(edges, state) ==
    \A i \in DOMAIN edges : \A old \in StoredEdges(state) : ~ Clash(edges[i], old)

\* At most one blocking relationship between two tasks, at most one parent;
\* checked against the state and the edges added before in the same command.
BlockersAllowed(edges, state) ==
    LET Before(i) == StoredEdges(state)
            \cup {[id |-> edges[j].id, payload |-> edges[j].payload] : j \in 1..(i - 1)}
    IN  \A i \in DOMAIN edges : \A old \in Before(i) : ~ Clash(edges[i], old)

----------------------------------------------------------------------------
(* The commands.  Each is a record with a field cmd; the result is a       *)
(* Vetting, of which the store appends out.                                *)

\* The commands that write; the others leave the tasks alone.
Writers == {"create", "update", "delete", "link", "unlink"}

IsCommand(c) ==
    /\ c.cmd \in Writers \cup {"read", "compact", "resolve"}
    /\ c.cmd = "create" => AreValues(c.payload)
    /\ c.cmd = "update" => /\ AreValues(c.ops.set) /\ AreValues(c.ops.append)
                           /\ AreValues(c.ops.subtract)
    /\ c.cmd \in {"link", "unlink"} =>
          /\ c.edges \in Seq({c.edges[i] : i \in DOMAIN c.edges})
          /\ \A i \in DOMAIN c.edges :
                c.edges[i].op = IF c.cmd = "link" THEN "AddEdge" ELSE "RemoveEdge"

\* A command that names field k claims it: sets it to a text, if it is empty.
OnlyClaims(c, k) ==
    k \in DOMAIN c.ops.set \cup DOMAIN c.ops.append \cup DOMAIN c.ops.subtract =>
        /\ k \notin DOMAIN c.ops.append \cup DOMAIN c.ops.subtract
        /\ IsText(c.ops.set[k]) /\ c.ops.set[k] # Blank
        /\ k \in DOMAIN c.guard /\ c.guard[k] = Blank

HasNoDefault(k) ==
    \A type \in DOMAIN TaskTypes :
        k \in DOMAIN TaskTypes[type].fields => TaskTypes[type].fields[k].default = Null

Build(c, state, past) ==
    CASE c.cmd = "create" ->
            LET drafts == << CreateDraft(c.id, c.payload) >>
            IN  IF VetNewFields(drafts, state, c.newField)
                THEN VetEvents(drafts, state) ELSE Refused
      [] c.cmd = "update" ->
            LET current == FieldsOf(state, c.id)
                drafts  == BuildFieldEvents(c.id, current, c.ops)
                named   == DOMAIN c.ops.set \cup DOMAIN c.ops.append \cup DOMAIN c.ops.subtract
            IN  IF /\ EnsureGuard(state, past, c.id, c.guard, named)
                   /\ DispatchAccumulate(current, c.ops).ok
                   /\ VetNewFields(drafts, state, c.newField)
                THEN VetEvents(drafts, state) ELSE Refused
      [] c.cmd = "delete" ->
            IF EnsureGuard(state, past, c.id, c.guard, {})
            THEN VetEvents(<< Draft("Delete", c.id, << >>) >>, state) ELSE Refused
      [] c.cmd = "link" ->
            IF BlockersAllowed(c.edges, state) THEN VetEvents(c.edges, state) ELSE Refused
      [] c.cmd = "unlink" -> VetEvents(c.edges, state)
=============================================================================
