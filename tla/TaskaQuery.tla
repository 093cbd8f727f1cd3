----------------------------- MODULE TaskaQuery -----------------------------
(***************************************************************************)
(* Reading a store: the shape tasks are shown in, the columns a command    *)
(* may name, the filter criteria, and what list, show and status return.   *)
(*                                                                         *)
(* A criterion is [field, op, value]; the value of a regular expression is *)
(* the set of texts it matches.  A query is                                *)
(*   [criteria, ids, open, ready, columns, sort, requested, reverse]       *)
(* with ids the bare task ids and sort a sequence of [column, descending]. *)
(* Sort columns are scalar: arrays, which the code orders by their text,   *)
(* all have one place.                                                     *)
(***************************************************************************)
EXTENDS TaskaGraph

CONSTANTS
    InverseName,  \* declared relationship type -> its inverse name, "" for none
    TimeColumns,  \* [created, updated, closed |-> the column's name, "" for none]
    StatusField,  \* the name the status is shown under
    TypeField     \* the name the task type is shown under

ASSUME QueryAssumption ==
    /\ Blockers \subseteq DOMAIN InverseName
    /\ DOMAIN TimeColumns = {"created", "updated", "closed"}

GraphColumns == {"unblocks", "blocked_by", "subtasks"}

----------------------------------------------------------------------------
(* Display shape.                                                          *)

DisplayName(key) ==
    CASE key = StatusKey -> StatusField
      [] key = TypeKey   -> TypeField
      [] OTHER           -> key

StoredName(fields, name) ==
    CASE name = StatusField /\ StatusKey \in DOMAIN fields -> StatusKey
      [] name = TypeField /\ TypeKey \in DOMAIN fields     -> TypeKey
      [] OTHER                                             -> name

\* Canonical keys become their display names, over whatever is stored under those.
RenameToDisplay(fields) ==
    [name \in {DisplayName(k) : k \in DOMAIN fields} |-> fields[StoredName(fields, name)]]

\* Mutant: a declared default is read whatever is stored.
DefaultsAlways(fields) ==
    LET decl == Declared(Value(fields, TypeKey))
    IN  Over([k \in {f \in DOMAIN decl : decl[f].default # Null} |-> decl[k].default], fields)

\* A declared field that is missing or invalid reads as its default.
SubstituteSchemaDefaults(fields) ==
    LET decl  == Declared(Value(fields, TypeKey))
        wrong == {k \in DOMAIN decl :
                     /\ decl[k].default # Null
                     /\ k \in DOMAIN fields => ~ MatchesSchema(fields[k], decl[k])}
    IN  Over([k \in wrong |-> decl[k].default], fields)

Spelled(n) == Word(ToString(n))

\* A column that is off, or a time that is not set, adds no field.
TimeFields(t) ==
    LET on == {w \in DOMAIN TimeColumns : TimeColumns[w] # "" /\ t[w] # NoTime}
    IN  [name \in {TimeColumns[w] : w \in on} |->
            Spelled(t[CHOOSE w \in on : TimeColumns[w] = name])]

\* The state a read works on; the keys stay canonical until they are shown.
Read(state) ==
    [id \in DOMAIN state |-> [state[id] EXCEPT
        !.fields = Over(TimeFields(state[id]), SubstituteSchemaDefaults(@))]]

\* The conditions a read warns of.
ReadWarnings(baseline, log, state) ==
    [orphans |-> Cardinality(Orphans(baseline, log)),
     nonconforming |-> {id \in DOMAIN state : DOMAIN TaskTypes # {} /\
                           (TypeKey \in DOMAIN state[id].fields \/ DenyUntyped) /\
                           ~ Conforms(state[id].fields)}]

Fraction(c) == Word(ToString(c[1]) \o "/" \o ToString(c[2]))

\* The graph columns a query names, as ordinary fields.
InjectComputedColumns(state, wanted) ==
    LET counts == ReachabilityCounts(state)
        Reached(id) == IF wanted \cap {"unblocks", "blocked_by"} = {} THEN << >>
                       ELSE [c \in {"unblocks", "blocked_by"} |-> Num(counts[id][c])]
        Progress(id) ==
            LET c == SubtaskCounts(state, id)
            IN  IF "subtasks" \notin wanted \/ c[2] = 0 THEN << >>
                ELSE Put(<< >>, "subtasks", Fraction(c))
    IN  [id \in DOMAIN state |->
            [state[id] EXCEPT !.fields = Over(Reached(id), Over(Progress(id), @))]]

----------------------------------------------------------------------------
(* The columns a store knows, in display names.                            *)

VocabularyFromConfig ==
    [columns |-> ({"id", "deps", StatusField, TypeField} \cup GraphColumns
                    \cup {TimeColumns[w] : w \in DOMAIN TimeColumns}
                    \cup {DisplayName(c) : c \in DisplayColumns}
                    \cup UNION {{DisplayName(k) : k \in DOMAIN TaskTypes[type].fields} :
                                   type \in DOMAIN TaskTypes}) \ {""},
     relationships |-> (DOMAIN InverseName \cup {InverseName[rel] : rel \in DOMAIN InverseName}) \ {""}]

\* Mutant: only what a task uses now is known.
VocabularyOfState(state, log) ==
    [VocabularyFromConfig EXCEPT
        !.columns = @ \cup {DisplayName(k) : k \in EditableFields(state)}]

\* With every field a task uses and every field the retained log ever wrote.
Vocabulary(state, log) ==
    [VocabularyFromConfig EXCEPT
        !.columns = @ \cup {DisplayName(k) : k \in EditableFields(state)
                                                     \cup (PayloadFields(log) \ ReservedNames)}]

Accepts(vocab, name, use) ==
    \/ name \in vocab.columns
    \/ use \in {"show", "filter"} /\ name \in vocab.relationships

IsComputed(name) ==
    name # "" /\ name \in GraphColumns \cup {TimeColumns[w] : w \in DOMAIN TimeColumns}

\* A filter of watch, history or a guard: known, and stored.
StoredFilter(vocab, criteria) ==
    \A c \in criteria : Accepts(vocab, c.field, "filter") /\ ~ IsComputed(c.field)

----------------------------------------------------------------------------
(* Criteria.                                                               *)

\* The tasks with an edge to this one whose type has the inverse name.
InverseOwners(state, id, name) ==
    {o \in DOMAIN state : \E e \in state[o].edges :
        e.target = id /\ e.rel \in DOMAIN InverseName /\ InverseName[e.rel] = name}

IsInverseName(name) == \E rel \in DOMAIN InverseName : InverseName[rel] = name

\* The values a field offers for matching: one for each element of a set, each
\* target of a relationship, each owner of an inverse; none when absent.
FieldValues(state, id, field) ==
    LET fields  == RenameToDisplay(state[id].fields)
        forward == {Word(e.target) : e \in {f \in state[id].edges : f.rel = field}}
    IN  CASE field = "id"   -> {Word(id)}
          [] field = "deps" -> {Word(e.target) : e \in state[id].edges}
          [] field \in DOMAIN InverseName \/ IsInverseName(field) ->
                (IF field \in DOMAIN InverseName THEN forward ELSE {})
                \cup {Word(o) : o \in InverseOwners(state, id, field)}
          [] OTHER ->
                IF field \notin DOMAIN fields THEN {}
                ELSE IF IsSet(fields[field]) THEN fields[field][2] ELSE {fields[field]}

Rank(v) == IF v = Null THEN 0 ELSE IF IsNumber(v) THEN 2 ELSE IF IsText(v) THEN 3 ELSE 4

Place(v) == IF IsNumber(v) THEN v[2] ELSE IF IsText(v) THEN StringRank[v[2][1]] ELSE 0

\* cmp_json: by type, then numbers by size and texts by the order of strings.
Less(a, b) ==
    \/ Rank(a) < Rank(b)
    \/ Rank(a) = Rank(b) /\ Place(a) < Place(b)

\* Only numbers compare with numbers and texts with texts.
CmpHolds(op, v, q) ==
    /\ \/ IsNumber(v) /\ IsNumber(q)
       \/ IsText(v) /\ IsText(q)
    /\ CASE op = "gt" -> Less(q, v)
         [] op = "ge" -> ~ Less(v, q)
         [] op = "lt" -> Less(v, q)
         [] op = "le" -> ~ Less(q, v)

Matches(state, id, c) ==
    LET values == FieldValues(state, id, c.field)
        Eq == IF values = {} THEN c.value = Blank ELSE c.value \in values
        Re == \E v \in values : Text(TextLines(v)) \in c.value
    IN  CASE c.op = "eq"    -> Eq
          [] c.op = "ne"    -> ~ Eq
          [] c.op = "re"    -> Re
          [] c.op = "notre" -> ~ Re
          [] c.op = "oneof" -> values \cap c.value # {}
          [] OTHER          -> \E v \in values : CmpHolds(c.op, v, c.value)

\* Bare ids are alternatives; everything else must hold.
CompileCriteria(q) ==
    q.criteria \cup
        (IF q.ids = {} THEN {}
         ELSE {[field |-> "id", op |-> "oneof", value |-> {Word(id) : id \in q.ids}]})

\* A cycle anywhere is an error for a query of ready tasks.
FilterIds(state, q) ==
    LET orders == ReadyTasks(state)
        ready  == UNION {Range(order) : order \in orders}
    IN  [ok  |-> q.ready => orders # {},
         ids |-> {id \in DOMAIN state :
                     /\ q.open  => id \in OpenTasks(state)
                     /\ q.ready => id \in ready
                     /\ \A c \in CompileCriteria(q) : Matches(state, id, c)}]

\* One task at a time, as history tests them: cycles are no error.
FilterMatches(state, id, q) ==
    /\ id \in DOMAIN state
    /\ q.open  => id \in OpenTasks(state)
    /\ q.ready => IsReady(state, id)
    /\ \A c \in CompileCriteria(q) : Matches(state, id, c)

UnmetCriteria(state, id, criteria) ==
    {c \in criteria : id \in DOMAIN state => ~ Matches(state, id, c)}

----------------------------------------------------------------------------
(* Order and output.                                                       *)

CellValue(state, id, column) ==
    IF column = "id" THEN Word(id)
    ELSE IF column = "deps" THEN SetOf(state[id].edges)
    ELSE Value(RenameToDisplay(state[id].fields), column)

\* By one sort key: what is missing comes last in either direction.
KeyPrecedes(x, y, descending) ==
    /\ x # Null
    /\ y = Null \/ IF descending THEN Less(y, x) ELSE Less(x, y)

\* task_cmp: the keys in turn, then the id.
TaskPrecedes(state, keys, a, b) ==
    LET By(k, c, d) == KeyPrecedes(CellValue(state, c, keys[k].column),
                                   CellValue(state, d, keys[k].column), keys[k].descending)
        Tied(k) == ~ By(k, a, b) /\ ~ By(k, b, a)
    IN  \/ \E k \in DOMAIN keys : By(k, a, b) /\ \A j \in 1..(k - 1) : Tied(j)
        \/ (\A k \in DOMAIN keys : Tied(k)) /\ StringRank[a] < StringRank[b]

\* Sorted by the keys: SortSeq in a form the provers know.
Arranged(state, keys, ids) ==
    CHOOSE order \in SetToSeqs(ids) :
        \A i, j \in DOMAIN order : i < j => TaskPrecedes(state, keys, order[i], order[j])

KnownIds(baseline, log) == DOMAIN baseline \cup {log[i].id : i \in DOMAIN log}

NoList == [ok |-> FALSE, tasks |-> << >>, warnings |-> {}]

\* list; an unknown key of a configured sort is only warned of.
ListTasks(baseline, log, q) ==
    LET raw    == Materialize(baseline, log)
        vocab  == Vocabulary(raw, log)
        keys   == {q.sort[k].column : k \in DOMAIN q.sort}
        odd    == {k \in keys : ~ Accepts(vocab, k, "sort")}
        state  == InjectComputedColumns(Read(raw),
                      q.columns \cup keys \cup {c.field : c \in q.criteria})
        found  == FilterIds(state, q)
        sorted == Arranged(state, q.sort, found.ids)
    IN  IF /\ \A c \in q.criteria : Accepts(vocab, c.field, "filter")
           /\ \A c \in q.columns \ keys : Accepts(vocab, c, "list")
           /\ q.requested => odd = {}
           /\ q.ids \subseteq DOMAIN raw \cup KnownIds(baseline, log)
           /\ found.ok
        THEN [ok |-> TRUE, warnings |-> odd,
              tasks |-> IF q.reverse THEN Reverse(sorted) ELSE sorted]
        ELSE NoList

\* What show adds to a task: the other tasks that have an edge to it, under the inverse
\* name of the edge.
InverseEdges(state, id) ==
    LET Surfaced(e) == e.target = id /\ e.rel \in DOMAIN InverseName /\ InverseName[e.rel] # ""
        display == UNION {{<< InverseName[e.rel], other >> : e \in {f \in state[other].edges : Surfaced(f)}} :
                          other \in DOMAIN state \ {id}}
    IN  [name \in {d[1] : d \in display} |-> {d[2] : d \in {x \in display : x[1] = name}}]

StatusSummary(state) ==
    LET open   == OpenTasks(state)
        Status(id) == Value(state[id].fields, StatusKey)
        With(v) == Cardinality({id \in DOMAIN state : Status(id) = v})
    IN  [ok |-> ValidateAndSort(state) # {}, total |-> Cardinality(DOMAIN state),
         by_status |-> [v \in {Status(id) : id \in DOMAIN state} \ {Null} |-> With(v)],
         no_status |-> With(Null),
         ready |-> Cardinality({id \in DOMAIN state : IsReady(state, id)}),
         blocked |-> Cardinality({id \in open : BlockerTargets(state, id) \cap open # {}}),
         closed |-> Cardinality(DOMAIN state \ open)]
=============================================================================
