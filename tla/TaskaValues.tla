---------------------------- MODULE TaskaValues ----------------------------
(***************************************************************************)
(* The values a field may have, and records of fields.                     *)
(*                                                                         *)
(* A JSON value is a tagged tuple, so that values of different shapes can  *)
(* be compared: <<"text", lines>>, <<"num", i>>, <<"float", i>>,           *)
(* <<"set", S>> (an array in its canonical set form) and Null, the unset   *)
(* marker.  A text is the sequence of its lines; "" is one empty line.     *)
(***************************************************************************)
EXTENDS Integers, Sequences, SequencesExt, TLC

Null      == <<"null">>
Text(ls)  == <<"text", ls>>
Num(n)    == <<"num", n>>
Float(n)  == <<"float", n>>
SetOf(S)  == <<"set", S>>
Word(w)   == Text(<<w>>)
Blank     == Word("")

IsText(v)   == v[1] = "text"
IsNumber(v) == v[1] \in {"num", "float"}
IsSet(v)    == v[1] = "set"

\* A text is a sequence of lines.
IsValue(v)       == IsText(v) => v[2] \in Seq({v[2][i] : i \in DOMAIN v[2]})
AreValues(fields) == \A k \in DOMAIN fields : IsValue(fields[k])

NoTime == 0

\* The keys under which the status and the type of a task are stored.
StatusKey == "status"
TypeKey   == "task_type"

Value(fields, k) == IF k \in DOMAIN fields THEN fields[k] ELSE Null

\* f @@ g, in a form the provers know.
Over(f, g) == [x \in DOMAIN f \cup DOMAIN g |-> IF x \in DOMAIN f THEN f[x] ELSE g[x]]

Put(fields, k, v) == [x \in DOMAIN fields \cup {k} |-> IF x = k THEN v ELSE fields[x]]

Without(f, keys) == Restrict(f, DOMAIN f \ keys)
=============================================================================
