----------------------------- MODULE TaskaConfig -----------------------------
(***************************************************************************)
(* The configuration of a store, which `ta config set` and a text editor   *)
(* change while the store holds data: what makes it valid, on its own and  *)
(* against the task graph.                                                 *)
(*                                                                         *)
(* A configuration is                                                      *)
(*   [keep_events, status_field, type_field, closed, default_status,       *)
(*    untyped, times, rels, types, columns]                                *)
(* with rels a function from names to [kind, inverse] and types one from   *)
(* names to [closed, fields]; field schemas are those of module TaskaGate, *)
(* under their display names.  Each problem the code reports makes a       *)
(* configuration invalid.  Left out are settings no other module depends   *)
(* on, and of the constraints of a field all but the values they exclude.  *)
(***************************************************************************)
EXTENDS TaskaValues

CONSTANTS
    IntMax, ExactMax,  \* as in module TaskaEngine
    StringRank,        \* as in module TaskaGraph
    StaticReserved,    \* names no configuration makes a field
    MinKeepEvents      \* the floor of compaction.keep_events

RelationshipNames(c) ==
    (DOMAIN c.rels \cup {c.rels[r].inverse : r \in DOMAIN c.rels}) \ {""}

TimestampNames(c) == {c.times[w] : w \in DOMAIN c.times} \ {""}

OfKind(c, kinds) == {r \in DOMAIN c.rels : c.rels[r].kind \in kinds}

\* The key a declared field is stored under.
DeclaredFieldKey(c, name) == IF name = c.status_field THEN StatusKey ELSE name

StoredFields(c, fields) ==
    [k \in {DeclaredFieldKey(c, name) : name \in DOMAIN fields} |->
        fields[IF k = StatusKey THEN c.status_field ELSE k]]

CanonicalColumn(c, column) ==
    CASE column = c.status_field -> StatusKey
      [] column = c.type_field   -> TypeKey
      [] OTHER                   -> column

\* Everything that depends on the configuration, under this one.
Desk(c) == INSTANCE TaskaDesk WITH
    ClosedStatuses <- c.closed,
    TaskTypes      <- [t \in DOMAIN c.types |->
                         [c.types[t] EXCEPT !.fields = StoredFields(c, @)]],
    DenyUntyped    <- c.untyped = "deny",
    DefaultStatus  <- c.default_status,
    ReservedNames  <- StaticReserved \cup TimestampNames(c) \cup RelationshipNames(c),
    DisplayColumns <- {CanonicalColumn(c, column) : column \in c.columns},
    Blockers       <- OfKind(c, {"blocker", "hierarchy"}),
    Hierarchy      <- OfKind(c, {"hierarchy"}),
    InverseName    <- [r \in DOMAIN c.rels |-> c.rels[r].inverse],
    TimeColumns    <- c.times,
    StatusField    <- c.status_field,
    TypeField      <- c.type_field

----------------------------------------------------------------------------
(* Names: one namespace.                                                   *)

\* What claims a name, and the name; a display name that is its own canonical key
\* claims nothing more.  Empty names are switched off, or reported elsewhere.
Claims(c) ==
    LET Renamed(role, name, key) == IF name = key THEN {} ELSE {<< role, "", name >>}
        inverses == {r \in DOMAIN c.rels :
                        c.rels[r].inverse \notin {r} \cup DOMAIN c.rels}
    IN  {x \in {<< "status key", "", StatusKey >>, << "type key", "", TypeKey >>}
               \cup Renamed("status_field", c.status_field, StatusKey)
               \cup Renamed("type_field", c.type_field, TypeKey)
               \cup {<< "time", w, c.times[w] >> : w \in DOMAIN c.times}
               \cup {<< "relationship", r, r >> : r \in DOMAIN c.rels}
               \cup {<< "inverse", r, c.rels[r].inverse >> : r \in inverses} : x[3] # ""}

\* Mutant: relationships and their inverses are not compared with the rest.
FieldNamesDistinct(c) ==
    \A a, b \in {x \in Claims(c) : x[1] \notin {"relationship", "inverse"}} :
        /\ a[3] \notin StaticReserved
        /\ a[3] = b[3] => a = b

\* Every name has one owner, and an inverse that is a declared type is the type's own.
NamesDistinct(c) ==
    /\ \A a, b \in Claims(c) :
          /\ a[3] \notin StaticReserved
          /\ a[3] = b[3] => a = b
    /\ \A r \in DOMAIN c.rels : c.rels[r].inverse \in DOMAIN c.rels => c.rels[r].inverse = r

----------------------------------------------------------------------------
(* Declared fields.                                                        *)

Kinds == {"string", "int", "float", "enum", "set", "any"}

FieldNameUsable(c, name) ==
    /\ name \notin StaticReserved \cup RelationshipNames(c) \cup TimestampNames(c)
    /\ name \notin {c.type_field, TypeKey}
    /\ name = StatusKey => c.status_field = StatusKey

\* The values from which a closed status can be reached, walking backwards.
ReachesDone(s, closed) ==
    LET Flood(S, i) == S \cup {v \in DOMAIN s.moves : s.moves[v] \cap S # {}}
    IN  FoldLeft(Flood, closed \cap s.values, [i \in 1..Cardinality(s.values) |-> i])

\* Mutant: one value that reaches a closed status is enough.
SomeTransition(c, name, s) ==
    s.moves # << >> =>
        /\ s.kind = "enum"
        /\ DOMAIN s.moves = s.values
        /\ \A v \in DOMAIN s.moves : s.moves[v] \subseteq s.values
        /\ name = c.status_field /\ c.closed # {} => ReachesDone(s, c.closed) # {}

\* A state machine speaks of every value of a scalar enum; of the status, every value
\* leads to a closed one.
TransitionsValid(c, name, s) ==
    s.moves # << >> =>
        /\ s.kind = "enum"
        /\ DOMAIN s.moves = s.values
        /\ \A v \in DOMAIN s.moves : s.moves[v] \subseteq s.values
        /\ name = c.status_field /\ c.closed # {} => s.values \subseteq ReachesDone(s, c.closed)

\* An enum has values and no other kind has; constraints fit the kind; a default
\* satisfies everything a value must.
FieldValid(c, name, s) ==
    /\ FieldNameUsable(c, name)
    /\ s.kind \in Kinds
    /\ s.kind = "enum" <=> s.values # {}
    /\ s.refused # {} => s.kind \notin {"enum", "any"}
    /\ s.default # Null => Desk(c)!MatchesSchema(s.default, s)
    /\ TransitionsValid(c, name, s)

----------------------------------------------------------------------------
(* Validity.                                                               *)

\* What every command but config and resolve asks of the configuration.
Valid(c) ==
    /\ c.keep_events >= MinKeepEvents
    /\ OfKind(c, {"blocker"}) # {}
    /\ c.status_field # "" /\ c.type_field # ""
    /\ NamesDistinct(c)
    /\ \A t \in DOMAIN c.types : \A name \in DOMAIN c.types[t].fields :
          FieldValid(c, name, c.types[t].fields[name])

\* What `config set` and `config validate` ask of it besides.
FitsGraph(c, state) ==
    /\ \A id \in DOMAIN state : \A e \in state[id].edges : e.rel \in DOMAIN c.rels
    /\ Desk(c)!DependencyCycles(state) = {}
    /\ Desk(c)!DuplicateBlockers(state) = {}
    /\ Desk(c)!MultiParentTasks(state) = {}
=============================================================================
