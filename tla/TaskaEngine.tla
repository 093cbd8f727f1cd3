---------------------------- MODULE TaskaEngine ----------------------------
(***************************************************************************)
(* The replay engine of taska: how a mutation event changes the task map,  *)
(* and how a log of them is folded over a baseline.                        *)
(*                                                                         *)
(* Values are those of module TaskaValues.                                 *)
(* A task map is a function whose domain is the ids of the existing tasks. *)
(***************************************************************************)
EXTENDS TaskaValues

CONSTANTS
    ClosedStatuses,  \* the status values that count as done
    IntMax,          \* largest integer the 64-bit arithmetic represents
    ExactMax         \* largest integer a float represents exactly

ASSUME EngineAssumption ==
    /\ IntMax \in Nat
    /\ ExactMax \in Nat
    /\ ExactMax <= IntMax

EventOps == {"Create", "Update", "Append", "Add", "Remove", "AddEdge", "RemoveEdge", "Delete"}

NewTask == [fields |-> << >>, edges |-> {},
            created |-> NoTime, updated |-> NoTime, closed |-> NoTime]

----------------------------------------------------------------------------
(* Field arithmetic: one operator per apply_* function of engine.rs.       *)

\* A null unsets the field and never reaches the state.
ApplySet(fields, payload) ==
    LET unset == {k \in DOMAIN payload : payload[k] = Null}
    IN  Over(Without(payload, unset), Without(fields, unset))

TextLines(v) == IF IsText(v) THEN v[2] ELSE <<ToString(v[2])>>

AppendText(old, v) ==
    IF old \in {Null, Blank} THEN Text(TextLines(v))
                             ELSE Text(TextLines(old) \o TextLines(v))

ApplyAppend(fields, payload) ==
    LET added == {k \in DOMAIN payload : payload[k] # Null}
    IN  Over([k \in added |-> AppendText(Value(fields, k), payload[k])], fields)

\* The nearest float at or below n: beyond ExactMax only even integers exist.
ToFloat(n) == IF -ExactMax <= n /\ n <= ExactMax THEN n ELSE 2 * (n \div 2)

\* Mutant: counters stop at zero.
AccumulateFromZero(old, n, add) ==
    LET c   == IF old = Null THEN 0 ELSE old[2]
        sum == IF add THEN c + n[2] ELSE c - n[2]
    IN  Num(IF sum < 0 THEN 0 ELSE sum)

\* Exact integers while both sides and the result are 64-bit, floats beyond.
AccumulateNumbers(old, n, add) ==
    LET c     == IF old = Null THEN Num(0) ELSE old
        Op(x, y) == IF add THEN x + y ELSE x - y
        exact == Op(c[2], n[2])
    IN  IF c[1] = "num" /\ n[1] = "num" /\ -IntMax <= exact /\ exact <= IntMax
        THEN Num(exact)
        ELSE Float(ToFloat(Op(ToFloat(c[2]), ToFloat(n[2]))))

AccumulateSets(old, v, add) ==
    LET S == IF old = Null THEN {} ELSE old[2]
    IN  SetOf(IF add THEN S \cup v[2] ELSE S \ v[2])

\* Operands whose shape does not match the stored value change nothing.
Accumulated(old, v, add) ==
    CASE IsNumber(v) /\ (old = Null \/ IsNumber(old)) ->
            AccumulateNumbers(old, v, add)
      [] IsSet(v) /\ (old = Null \/ IsSet(old)) ->
            AccumulateSets(old, v, add)
      [] OTHER -> old

ApplyAccumulate(fields, payload, add) ==
    LET result == [k \in DOMAIN payload |->
                      Accumulated(Value(fields, k), payload[k], add)]
    IN  Over(Without(result, {k \in DOMAIN result : result[k] = Null}), fields)

IsDone(fields) == Value(fields, StatusKey) \in ClosedStatuses

\* Mutant: moving between closed statuses counts as closing again.
RefreshCloseTimeAlways(t, fields, ts) == IF IsDone(fields) THEN ts ELSE NoTime

\* The most recent entry into a closed status; cleared while not done.
RefreshCloseTime(t, fields, ts) ==
    IF ~ IsDone(fields) THEN NoTime
    ELSE IF IsDone(t.fields) THEN t.closed ELSE ts

----------------------------------------------------------------------------
(* One event.                                                              *)

\* Mutant: only the close time is kept up.
SetFieldsQuietly(t, e) ==
    LET fields == ApplySet(t.fields, e.payload)
    IN  [t EXCEPT !.fields = fields, !.closed = RefreshCloseTime(t, fields, e.ts)]

SetFields(t, e) ==
    LET fields == ApplySet(t.fields, e.payload)
    IN  [t EXCEPT !.fields = fields, !.updated = e.ts,
                  !.closed = RefreshCloseTime(t, fields, e.ts)]

Touched(t, e) ==
    CASE e.op = "Create" ->
            [SetFields(t, e) EXCEPT
                !.created = IF t.created = NoTime THEN e.ts ELSE t.created]
      [] e.op = "Update" -> SetFields(t, e)
      [] e.op = "Append" ->
            [t EXCEPT !.fields = ApplyAppend(t.fields, e.payload),
                      !.updated = e.ts]
      [] e.op \in {"Add", "Remove"} ->
            [t EXCEPT !.fields = ApplyAccumulate(t.fields, e.payload, e.op = "Add"),
                      !.updated = e.ts]
      [] e.op = "AddEdge" ->
            [t EXCEPT !.edges = t.edges \cup {e.payload}, !.updated = e.ts]
      [] e.op = "RemoveEdge" ->
            [t EXCEPT !.edges = t.edges \ {e.payload}, !.updated = e.ts]

IsOrphan(state, e) == e.op # "Create" /\ e.id \notin DOMAIN state

\* Mutant: an event on a missing task creates it.
ApplyUpsert(state, e) ==
    IF e.op = "Delete" THEN Without(state, {e.id})
    ELSE Put(state, e.id,
             Touched(IF e.id \in DOMAIN state THEN state[e.id] ELSE NewTask, e))

Apply(state, e) ==
    IF IsOrphan(state, e) THEN state
    ELSE IF e.op = "Delete" THEN Without(state, {e.id})
    ELSE Put(state, e.id,
             Touched(IF e.id \in DOMAIN state THEN state[e.id] ELSE NewTask, e))

----------------------------------------------------------------------------
(* A log of events.                                                        *)

\* Apply, with the state bound to a value first: TLC would otherwise evaluate
\* it again for every mention.
Applied(state, e) == CHOOSE t \in {Apply(s, e) : s \in {state}} : TRUE

\* The log is bound to a value first, too.
Materialize(baseline, events) ==
    CHOOSE t \in {FoldLeft(Applied, baseline, es) : es \in {events}} : TRUE

Orphans(baseline, events) ==
    {events[i].seq : i \in {j \in DOMAIN events :
        IsOrphan(Materialize(baseline, SubSeq(events, 1, j - 1)), events[j])}}

\* The events at some places, in their order: SelectSeq in a form the provers know.
Picked(events, places) ==
    LET kept[i \in 0..Len(events)] ==
            IF i = 0 THEN << >>
            ELSE IF i \in places THEN Append(kept[i - 1], events[i]) ELSE kept[i - 1]
    IN  kept[Len(events)]

DropSeqs(events, seqs) ==
    Picked(events, {i \in 1..Len(events) : events[i].seq \notin seqs})

\* verify_seq_order compares neighbours; the order is strict, hence transitive.
SeqOrdered(events) ==
    \A i, j \in DOMAIN events : i < j => events[i].seq < events[j].seq

\* Mutant: the next seq is the number of events.
NextSeqByCount(events) == Len(events) + 1

NextSeq(events) ==
    IF events = << >> THEN 1 ELSE Max({events[i].seq : i \in DOMAIN events}) + 1

\* Mutant: the first event in the time window is folded too.
RetentionSplitLate(events, keepEvents, keepDays, now) ==
    LET n       == Len(events)
        recent  == {i \in 1..n : events[i].ts >= now - keepDays}
        byTime  == IF keepDays = 0 \/ recent = {} THEN n ELSE Min(recent)
    IN  Min({Max({n - keepEvents, 0}), byTime, Max({n - 1, 0})})

\* How many leading events compaction folds.  keepDays = 0 disables the time
\* window, and the last event always stays.
RetentionSplit(events, keepEvents, keepDays, now) ==
    LET n       == Len(events)
        recent  == {i \in 1..n : events[i].ts >= now - keepDays}
        byCount == Max({n - keepEvents, 0})
        byTime  == IF keepDays = 0 \/ recent = {} THEN n ELSE Min(recent) - 1
    IN  Min({byCount, byTime, Max({n - 1, 0})})
=============================================================================
