----------------------------- MODULE TaskaRepair -----------------------------
(***************************************************************************)
(* Repair: the one command that rewrites logged events and the baseline.   *)
(* A store is [baseline, log]; a value is fixed in the record it comes     *)
(* from, and the log is then replayed.                                     *)
(*                                                                         *)
(* Of the conversions, dates are left out with the date kind.  The format  *)
(* migrations of this version are none.                                    *)
(***************************************************************************)
EXTENDS TaskaQuery

CONSTANT StaticReserved  \* names no configuration makes a field

StateOf(store) == Materialize(store.baseline, store.log)

CarriesSet(e) == e.op \in {"Create", "Update"}

InEvent(store, i, key, v) == [store EXCEPT !.log[i].payload = Put(@, key, v)]

InBaseline(store, id, key, v) == [store EXCEPT !.baseline[id].fields = Put(@, key, v)]

----------------------------------------------------------------------------
(* --rename new=old.                                                       *)

IsTypeName(name) == name \in {TypeKey, TypeField}

MayRename(new, old) ==
    /\ old # new
    /\ IsTypeName(new) \/ new \notin StaticReserved \cup {StatusKey, StatusField}

\* Mutant: a value that names no type becomes one too.
RenamedAll(fields, new, old) ==
    LET target == IF IsTypeName(new) THEN TypeKey ELSE new
    IN  IF old \in DOMAIN fields /\ target \notin DOMAIN fields
        THEN Put(Without(fields, {old}), target, fields[old])
        ELSE fields

\* A record that has the new name keeps both; only the name of a declared type
\* becomes a type.
RenamedFields(fields, new, old) ==
    LET target == IF IsTypeName(new) THEN TypeKey ELSE new
    IN  IF /\ old \in DOMAIN fields /\ target \notin DOMAIN fields
           /\ IsTypeName(new) => fields[old] \in DOMAIN TaskTypes
        THEN Put(Without(fields, {old}), target, fields[old])
        ELSE fields

RenamedEvent(e, new, old) ==
    IF CarriesFields(e) THEN [e EXCEPT !.payload = RenamedFields(@, new, old)] ELSE e

ApplyRename(store, new, old) ==
    [baseline |-> [id \in DOMAIN store.baseline |->
                      [store.baseline[id] EXCEPT !.fields = RenamedFields(@, new, old)]],
     log |-> FoldLeft(LAMBDA acc, e : Append(acc, RenamedEvent(e, new, old)),
                      << >>, store.log)]

----------------------------------------------------------------------------
(* --set-type-if-none and the lossless fixes.                              *)

\* A new field goes to the record that establishes the task: its first Create,
\* or its baseline.
StampNewField(store, id, key, v) ==
    LET made == {i \in DOMAIN store.log : store.log[i].op = "Create" /\ store.log[i].id = id}
    IN  IF made # {} THEN InEvent(store, Min(made), key, v)
        ELSE IF id \in DOMAIN store.baseline THEN InBaseline(store, id, key, v)
        ELSE store

\* Mutant: the first record that carries the field is the one rewritten.
RewriteFirstSource(store, id, key, v) ==
    LET sources == {i \in DOMAIN store.log :
                       CarriesSet(store.log[i]) /\ store.log[i].id = id
                       /\ Value(store.log[i].payload, key) # Null}
    IN  IF id \in DOMAIN store.baseline /\ key \in DOMAIN store.baseline[id].fields
        THEN InBaseline(store, id, key, v)
        ELSE IF sources # {} THEN InEvent(store, Min(sources), key, v)
        ELSE store

\* A fixed value goes to the last record that set the field.
RewriteFieldSource(store, id, key, v) ==
    LET sources == {i \in DOMAIN store.log :
                       CarriesSet(store.log[i]) /\ store.log[i].id = id
                       /\ Value(store.log[i].payload, key) # Null}
    IN  IF sources # {} THEN InEvent(store, Max(sources), key, v)
        ELSE IF id \in DOMAIN store.baseline /\ key \in DOMAIN store.baseline[id].fields
        THEN InBaseline(store, id, key, v)
        ELSE store

BackfillType(store, type) ==
    LET state   == StateOf(store)
        untyped == {id \in DOMAIN state : TypeKey \notin DOMAIN state[id].fields}
    IN  FoldSet(LAMBDA id, s : StampNewField(s, id, TypeKey, type), store, untyped)

\* The fields of typed tasks that can be fixed without guessing: a required one that
\* is missing and has a default, and one whose value converts to the declared kind.
LosslessFixes(state) ==
    LET Decl(id) == Declared(Value(state[id].fields, TypeKey))
        Fix(id, k) ==
            LET s == Decl(id)[k]
                v == Value(state[id].fields, k)
            IN  CASE v = Null /\ s.required /\ s.default # Null -> s.default
                  [] v # Null /\ ~ MatchesKind(v, s) /\ MatchesKind(CoerceValue(v, s.kind), s) ->
                        CoerceValue(v, s.kind)
                  [] OTHER -> Null
    IN  {f \in UNION {{[id |-> id, key |-> k, value |-> Fix(id, k),
                        new |-> k \notin DOMAIN state[id].fields] : k \in DOMAIN Decl(id)} :
                         id \in DOMAIN state} : f.value # Null}

ApplyLosslessFixes(store) ==
    FoldSet(LAMBDA f, s : IF f.new THEN StampNewField(s, f.id, f.key, f.value)
                                   ELSE RewriteFieldSource(s, f.id, f.key, f.value),
            store, LosslessFixes(StateOf(store)))

\* rename is << >> or << new, old >>; type is Null or the type for untyped tasks.
MayRepair(rename, type) ==
    /\ rename # << >> => MayRename(rename[1], rename[2])
    /\ type # Null => type \in DOMAIN TaskTypes

\* Each pass works on what the one before it left.
RepairSchema(store, rename, type) ==
    LET Renamed(s) == IF rename = << >> THEN s ELSE ApplyRename(s, rename[1], rename[2])
        Typed(s)   == IF type = Null THEN s ELSE BackfillType(s, type)
    IN  ApplyLosslessFixes(Typed(Renamed(store)))
=============================================================================
