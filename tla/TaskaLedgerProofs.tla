------------------------- MODULE TaskaLedgerProofs --------------------------
(***************************************************************************)
(* The write gate for every schema, every state and every command: the map *)
(* a vetted batch leads to is the one the gate looked at when it judged    *)
(* the batch, so no accepted command ever breaks a schema or leaves a      *)
(* terminal value.                                                         *)
(***************************************************************************)
EXTENDS TaskaReads, TaskaFoldProofs

----------------------------------------------------------------------------
(* Stamping.                                                               *)

Stamp(d) == [seq |-> 0, ts |-> 1, op |-> d.op, id |-> d.id, payload |-> d.payload]

\* Stamping goes event by event.
LEMMA StampedSeq ==
    ASSUME NEW out, IsSeq(out)
    PROVE  /\ IsSeq(Stamped(out)) /\ Len(Stamped(out)) = Len(out)
           /\ \A i \in 1..Len(out) : Stamped(out)[i] = Stamp(out[i])
<1>1. Len(out) \in Nat /\ DOMAIN out = 1..Len(out)
  BY SeqBasics
<1>2. Stamped(out) = [i \in 1..Len(out) |-> Stamp(out[i])]
  BY <1>1 DEF Stamped, Stamp
<1> DEFINE S == {Stamp(out[i]) : i \in 1..Len(out)}
<1>3. Stamped(out) \in [1..Len(out) -> S]
  BY <1>2
<1>4. Stamped(out) \in Seq(S)
  BY <1>1, <1>3
<1>5. Len(Stamped(out)) = Len(out)
  BY <1>1, <1>3, <1>4
<1> QED BY <1>2, <1>4, <1>5 DEF IsSeq

LEMMA StampedAppend ==
    ASSUME NEW out, IsSeq(out), NEW d
    PROVE  Stamped(Append(out, d)) = Append(Stamped(out), Stamp(d))
<1> DEFINE n == Len(out)
           a == Stamped(Append(out, d))
           b == Append(Stamped(out), Stamp(d))
           longer == Append(out, d)
<1>1. n \in Nat
  BY SeqBasics
<1>2. IsSeq(longer) /\ Len(longer) = n + 1 /\ longer[n + 1] = d
      /\ \A i \in 1..n : longer[i] = out[i]
  BY SeqAppend
<1> HIDE DEF longer
<1>3. IsSeq(a) /\ Len(a) = n + 1 /\ \A i \in 1..(n + 1) : a[i] = Stamp(longer[i])
  BY <1>2, StampedSeq DEF longer
<1>4. IsSeq(Stamped(out)) /\ Len(Stamped(out)) = n
      /\ \A i \in 1..n : Stamped(out)[i] = Stamp(out[i])
  BY StampedSeq
<1>5. IsSeq(b) /\ Len(b) = n + 1 /\ b[n + 1] = Stamp(d)
      /\ \A i \in 1..n : b[i] = Stamped(out)[i]
  BY <1>4, SeqAppend
<1> HIDE DEF a, b
<1>6. \A i \in 1..(n + 1) : a[i] = b[i]
  <2>1. ASSUME NEW i \in 1..(n + 1) PROVE a[i] = b[i]
    <3>1. CASE i = n + 1
      BY <1>2, <1>3, <1>5, <2>1, <3>1
    <3>2. CASE i # n + 1
      <4>1. i \in 1..n
        BY <1>1, <3>2
      <4> QED BY <1>2, <1>3, <1>4, <1>5, <4>1
    <3> QED BY <3>1, <3>2
  <2> QED BY <2>1
<1>7. a = b
  BY <1>3, <1>5, <1>6, SameElements
<1> QED BY <1>7 DEF a, b

----------------------------------------------------------------------------
(* What the gate previews is what replay makes of the drafts it kept.      *)

\* result is a task map that replay made of state; every task in it is as
\* previewed, or as it was when the batch did not touch its fields.
Agrees(state, preview, result) ==
    /\ AllTasks(result)
    /\ \A id \in DOMAIN result :
          IF id \in DOMAIN preview
          THEN ~ preview[id].gone /\ result[id].fields = preview[id].fields
          ELSE id \in DOMAIN state /\ result[id].fields = state[id].fields
    /\ \A id \in DOMAIN preview : id \in DOMAIN state \/ id \in DOMAIN result

Outcome(state, r) == Materialize(state, Stamped(r.out))

Previews(state, r) == IsEvents(r.out) /\ Agrees(state, r.preview, Outcome(state, r))

\* The fields the gate takes the task to have are those it has, if it is there for the
\* draft to apply to.
LEMMA WorkingIsCurrent ==
    ASSUME NEW state, NEW preview, NEW result, Agrees(state, preview, result),
           NEW e, e.id \in DOMAIN state <=> e.op # "Create",
           e.id \in DOMAIN result \/ e.op = "Create"
    PROVE  Before(result, e).fields = Working(state, preview, e.id)
<1>1. CASE e.id \in DOMAIN result
  BY <1>1 DEF Agrees, Before, Working, FieldsOf
<1>2. CASE e.id \notin DOMAIN result
  <2>1. e.id \notin DOMAIN state /\ e.id \notin DOMAIN preview
    BY <1>2 DEF Agrees
  <2>2. Before(result, e).fields = << >>
    BY <1>2 DEF Before, NewTask
  <2> QED BY <2>1, <2>2 DEF Working, FieldsOf
<1> QED BY <1>1, <1>2

\* One kept draft that sets fields.
LEMMA FieldDraftAgrees ==
    ASSUME NEW state, NEW preview, NEW result, Agrees(state, preview, result),
           NEW e, e.op \in EventOps, e.op # "Delete",
           e.id \in DOMAIN state <=> e.op # "Create"
    PROVE  Agrees(state,
                  Put(preview, e.id,
                      [gone |-> FALSE,
                       fields |-> FieldsAfter(Working(state, preview, e.id), e)]),
                  Apply(result, e))
<1> DEFINE seen  == [gone |-> FALSE, fields |-> FieldsAfter(Working(state, preview, e.id), e)]
           after == Put(preview, e.id, seen)
           next  == Apply(result, e)
<1>1. AllTasks(next)
  BY ApplyKeepsTasks DEF Agrees
<1>2. /\ \A id : id \in DOMAIN after <=> id \in DOMAIN preview \/ id = e.id
      /\ \A id \in DOMAIN preview : id # e.id => after[id] = preview[id]
      /\ after[e.id] = seen
  BY DEF Put
<1>3. /\ \A id : id # e.id => (id \in DOMAIN next <=> id \in DOMAIN result)
      /\ \A id \in DOMAIN result : id # e.id => next[id] = result[id]
      /\ e.id \in DOMAIN next <=> e.id \in DOMAIN result \/ e.op = "Create"
      /\ e.id \in DOMAIN next => next[e.id] = Touched(Before(result, e), e)
  BY ApplyFrame
<1>4. e.id \in DOMAIN next => next[e.id].fields = seen.fields
  <2> SUFFICES ASSUME e.id \in DOMAIN next PROVE next[e.id].fields = seen.fields
    OBVIOUS
  <2>1. Before(result, e).fields = Working(state, preview, e.id)
    BY <1>3, WorkingIsCurrent
  <2>2. IsTask(Before(result, e))
    BY DEF Before, Agrees, AllTasks, IsTask, NewTask
  <2> QED BY <1>3, <2>1, <2>2, TouchedFields
<1>5. ~ seen.gone
  OBVIOUS
<1> HIDE DEF seen, after, next
<1>6. \A id \in DOMAIN next :
          IF id \in DOMAIN after
          THEN ~ after[id].gone /\ next[id].fields = after[id].fields
          ELSE id \in DOMAIN state /\ next[id].fields = state[id].fields
  BY <1>2, <1>3, <1>4, <1>5 DEF Agrees
<1>7. \A id \in DOMAIN after : id \in DOMAIN state \/ id \in DOMAIN next
  BY <1>2, <1>3 DEF Agrees
<1>8. Agrees(state, after, next)
  BY <1>1, <1>6, <1>7 DEF Agrees
<1> QED BY <1>8 DEF seen, after, next

\* A dropped draft: it would have changed nothing.
LEMMA DroppedDraftAgrees ==
    ASSUME NEW state, NEW preview, NEW result, Agrees(state, preview, result),
           NEW id \in DOMAIN state
    PROVE  Agrees(state,
                  Put(preview, id, [gone |-> FALSE, fields |-> Working(state, preview, id)]),
                  result)
<1> DEFINE seen  == [gone |-> FALSE, fields |-> Working(state, preview, id)]
           after == Put(preview, id, seen)
<1>1. /\ \A x : x \in DOMAIN after <=> x \in DOMAIN preview \/ x = id
      /\ \A x \in DOMAIN preview : x # id => after[x] = preview[x]
      /\ after[id] = seen
  BY DEF Put
<1>2. ~ seen.gone /\ seen.fields = Working(state, preview, id)
  OBVIOUS
<1>3. id \in DOMAIN result => result[id].fields = Working(state, preview, id)
  BY DEF Agrees, Working, FieldsOf
<1> HIDE DEF seen, after
<1>4. Agrees(state, after, result)
  BY <1>1, <1>2, <1>3 DEF Agrees
<1> QED BY <1>4 DEF seen, after

\* A kept edge, which changes no field.
LEMMA EdgeDraftAgrees ==
    ASSUME NEW state, NEW preview, NEW result, Agrees(state, preview, result),
           NEW e, e.op \in {"AddEdge", "RemoveEdge"}
    PROVE  Agrees(state, preview, Apply(result, e))
<1> DEFINE next == Apply(result, e)
<1>1. e.op \in EventOps /\ e.op # "Create" /\ e.op # "Delete"
  BY DEF EventOps
<1>2. AllTasks(next)
  BY <1>1, ApplyKeepsTasks DEF Agrees
<1>3. /\ \A id : id \in DOMAIN next <=> id \in DOMAIN result
      /\ \A id \in DOMAIN result : id # e.id => next[id] = result[id]
      /\ e.id \in DOMAIN result => next[e.id] = Touched(result[e.id], e)
  BY <1>1, ApplyFrame DEF Before
<1>4. e.id \in DOMAIN result => next[e.id].fields = result[e.id].fields
  BY <1>1, <1>3, TouchedFields DEF Agrees, AllTasks, FieldsAfter
<1> HIDE DEF next
<1>5. Agrees(state, preview, next)
  BY <1>2, <1>3, <1>4 DEF Agrees
<1> QED BY <1>5 DEF next

\* A kept delete.
LEMMA DeleteDraftAgrees ==
    ASSUME NEW state, NEW preview, NEW result, Agrees(state, preview, result),
           NEW e, e.op = "Delete", e.id \in DOMAIN state
    PROVE  Agrees(state, Put(preview, e.id, [gone |-> TRUE, fields |-> << >>]), Apply(result, e))
<1> DEFINE after == Put(preview, e.id, [gone |-> TRUE, fields |-> << >>])
           next  == Apply(result, e)
<1>1. AllTasks(next)
  BY ApplyKeepsTasks DEF Agrees, EventOps
<1>2. /\ \A id : id \in DOMAIN after <=> id \in DOMAIN preview \/ id = e.id
      /\ \A id \in DOMAIN preview : id # e.id => after[id] = preview[id]
  BY DEF Put
<1>3. /\ \A id : id \in DOMAIN next <=> id \in DOMAIN result /\ id # e.id
      /\ \A id \in DOMAIN result : id # e.id => next[id] = result[id]
  BY ApplyFrame
<1> HIDE DEF after, next
<1>4. Agrees(state, after, next)
  BY <1>1, <1>2, <1>3 DEF Agrees
<1> QED BY <1>4 DEF after, next

\* One draft more, kept: its preview agrees with the batch it makes.
LEMMA Keeping ==
    ASSUME NEW state, NEW r, Previews(state, r), NEW d, d.op \in EventOps, NEW preview,
           Agrees(state, preview, Apply(Outcome(state, r), Stamp(d)))
    PROVE  Previews(state, Vetting(TRUE, Append(r.out, d), preview))
<1> DEFINE q == Vetting(TRUE, Append(r.out, d), preview)
           n == Len(r.out)
<1>1. q.out = Append(r.out, d) /\ q.preview = preview
  BY DEF Vetting
<1> HIDE DEF q
<1>2. IsSeq(r.out) /\ n \in Nat /\ \A i \in 1..n : r.out[i].op \in EventOps
  BY SeqBasics DEF Previews, IsEvents
<1>3. IsEvents(q.out)
  <2>1. IsSeq(q.out) /\ Len(q.out) = n + 1 /\ q.out[n + 1] = d
        /\ \A i \in 1..n : q.out[i] = r.out[i]
    BY <1>1, <1>2, SeqAppend
  <2>2. ASSUME NEW i \in 1..(n + 1) PROVE q.out[i].op \in EventOps
    <3>1. i = n + 1 \/ i \in 1..n
      BY <1>2
    <3> QED BY <1>2, <2>1, <3>1
  <2> QED BY <2>1, <2>2 DEF IsEvents
<1>4. Stamped(q.out) = Append(Stamped(r.out), Stamp(d))
  BY <1>1, <1>2, StampedAppend
<1>5. Outcome(state, q) = Apply(Outcome(state, r), Stamp(d))
  BY <1>2, <1>4, StampedSeq, MaterializeAppend DEF Outcome
<1>6. Previews(state, q)
  BY <1>1, <1>3, <1>5 DEF Previews
<1> QED BY <1>6 DEF q

\* One draft vetted.
LEMMA VetStep ==
    ASSUME NEW state, NEW r, r.ok => Previews(state, r), NEW d, d.op \in EventOps,
           VetDraft(state, r, d).ok
    PROVE  Previews(state, VetDraft(state, r, d))
<1> DEFINE v == VetDraft(state, r, d)
           w == Working(state, r.preview, d.id)
           result == Outcome(state, r)
<1>1. r.ok /\ ~ Refuses(state, d)
  BY DEF VetDraft, Refused, Vetting
<1>2. Previews(state, r) /\ Agrees(state, r.preview, result)
  BY <1>1 DEF Previews
<1>3. d.id \in DOMAIN state <=> d.op # "Create"
  BY <1>1 DEF Refuses
<1> DEFINE Seen(fields) == Put(r.preview, d.id, [gone |-> FALSE, fields |-> fields])
<1>4. ASSUME NEW e, e.op = d.op, e.id = d.id, d.op \in {"Create", "Update", "Append", "Add", "Remove"},
             v = Vetting(TRUE, Append(r.out, e), Seen(FieldsAfter(w, e)))
      PROVE  Previews(state, v)
  <2>1. Stamp(e).op = d.op /\ Stamp(e).id = d.id /\ Stamp(e).payload = e.payload
    BY <1>4 DEF Stamp
  <2>2. FieldsAfter(w, Stamp(e)) = FieldsAfter(w, e)
    BY <1>4, <2>1 DEF FieldsAfter
  <2>3. Agrees(state, Seen(FieldsAfter(w, e)), Apply(result, Stamp(e)))
    BY <1>2, <1>3, <1>4, <2>1, <2>2, FieldDraftAgrees
  <2> HIDE DEF v, w, result
  <2> QED BY <1>2, <1>4, <2>3, Keeping DEF result
<1>5. CASE d.op = "Create"
  <2>1. v = Vetting(TRUE, Append(r.out, d), Seen(ApplySet(w, d.payload)))
    BY <1>1, <1>5 DEF VetDraft, Working
  <2> QED BY <1>4, <1>5, <2>1 DEF FieldsAfter
<1>6. CASE d.op = "Update"
  <2> DEFINE trimmed == Restrict(d.payload, Changes(FieldsOf(state, d.id), d.payload))
             e == Draft("Update", d.id, trimmed)
  <2>1. \/ v = r
        \/ v = Vetting(TRUE, Append(r.out, e), Seen(ApplySet(w, trimmed)))
    BY <1>1, <1>6 DEF VetDraft, Working
  <2>2. e.op = d.op /\ e.id = d.id /\ e.payload = trimmed
    BY <1>6 DEF Draft
  <2> HIDE DEF trimmed, e, v, w
  <2>3. FieldsAfter(w, e) = ApplySet(w, trimmed)
    BY <1>6, <2>2 DEF FieldsAfter
  <2>4. CASE v = r
    BY <1>2, <2>4 DEF v
  <2>5. CASE v = Vetting(TRUE, Append(r.out, e), Seen(ApplySet(w, trimmed)))
    BY <1>4, <1>6, <2>2, <2>3, <2>5 DEF v
  <2> QED BY <2>1, <2>4, <2>5
<1>7. CASE d.op = "Append"
  <2>1. v = Vetting(TRUE, Append(r.out, d), Seen(ApplyAppend(w, d.payload)))
    BY <1>1, <1>7 DEF VetDraft, Working
  <2> QED BY <1>4, <1>7, <2>1 DEF FieldsAfter
<1>8. CASE d.op \in {"Add", "Remove"}
  <2> DEFINE summed == ApplyAccumulate(w, d.payload, d.op = "Add")
  <2>1. \/ v = Vetting(TRUE, Append(r.out, d), Seen(summed))
        \/ summed = w /\ v = Vetting(TRUE, r.out, Seen(w))
    BY <1>1, <1>8 DEF VetDraft, Working
  <2>2. summed = FieldsAfter(w, d)
    BY <1>8 DEF FieldsAfter
  <2> HIDE DEF summed, v, w
  <2>3. CASE v = Vetting(TRUE, Append(r.out, d), Seen(summed))
    BY <1>4, <1>8, <2>2, <2>3 DEF v
  <2>4. CASE v = Vetting(TRUE, r.out, Seen(w))
    <3>1. v.out = r.out /\ v.preview = Seen(w)
      BY <2>4 DEF Vetting
    <3>2. Agrees(state, Seen(w), result)
      BY <1>2, <1>3, <1>8, DroppedDraftAgrees DEF w
    <3>3. Previews(state, v)
      BY <1>2, <3>1, <3>2 DEF Previews, Outcome
    <3> QED BY <3>3 DEF v
  <2> QED BY <2>1, <2>3, <2>4
<1>9. CASE d.op \in {"AddEdge", "RemoveEdge"}
  <2>1. v = r \/ v = Vetting(TRUE, Append(r.out, d), r.preview)
    BY <1>1, <1>9 DEF VetDraft
  <2>2. Agrees(state, r.preview, Apply(result, Stamp(d)))
    <3>1. Stamp(d).op = d.op
      BY DEF Stamp
    <3> QED BY <1>2, <1>9, <3>1, EdgeDraftAgrees
  <2> HIDE DEF v, result
  <2>3. CASE v = r
    BY <1>2, <2>3 DEF v
  <2>4. CASE v = Vetting(TRUE, Append(r.out, d), r.preview)
    BY <1>2, <2>2, <2>4, Keeping DEF v, result
  <2> QED BY <2>1, <2>3, <2>4
<1>10. CASE d.op = "Delete"
  <2> DEFINE after == Put(r.preview, d.id, [gone |-> TRUE, fields |-> << >>])
  <2>1. v = Vetting(TRUE, Append(r.out, d), after)
    BY <1>1, <1>10 DEF VetDraft
  <2>2. Agrees(state, after, Apply(result, Stamp(d)))
    <3>1. Stamp(d).op = "Delete" /\ Stamp(d).id = d.id /\ d.id \in DOMAIN state
      BY <1>3, <1>10 DEF Stamp
    <3> QED BY <1>2, <3>1, DeleteDraftAgrees
  <2> HIDE DEF v, result, after
  <2> QED BY <1>2, <2>1, <2>2, Keeping DEF v, result
<1> QED BY <1>5, <1>6, <1>7, <1>8, <1>9, <1>10 DEF EventOps

\* Any number of them.
LEMMA RunIsPreviewed ==
    ASSUME NEW state, AllTasks(state), NEW drafts, IsEvents(drafts),
           NEW f, IsVetRun(f, state, drafts)
    PROVE  \A k \in 0..Len(drafts) : f[k].ok => Previews(state, f[k])
<1> DEFINE n == Len(drafts)
           G == {k \in 0..n : f[k].ok => Previews(state, f[k])}
<1>1. n \in Nat
  BY SeqBasics DEF IsEvents
<1>2. 0 \in G
  <2>1. NothingVetted.out = << >> /\ NothingVetted.preview = << >>
    BY DEF NothingVetted, Vetting
  <2>2. IsSeq(<< >>) /\ Len(<< >>) = 0
    BY DEF IsSeq
  <2>3. Stamped(<< >>) = << >>
    BY <2>2, StampedSeq, SameElements
  <2>4. Outcome(state, NothingVetted) = state
    BY <2>1, <2>3, MaterializeEmpty DEF Outcome
  <2>5. Agrees(state, << >>, state)
    BY DEF Agrees
  <2>6. Previews(state, NothingVetted)
    BY <2>1, <2>2, <2>4, <2>5 DEF Previews, IsEvents
  <2>7. f[0] = NothingVetted
    BY DEF IsVetRun
  <2> QED BY <1>1, <2>6, <2>7
<1>3. ASSUME NEW k \in 1..n, k - 1 \in G PROVE k \in G
  <2>1. f[k] = VetDraft(state, f[k - 1], drafts[k]) /\ k \in 0..n
    BY <1>1, VetIsVetDraft DEF IsVetRun
  <2>2. drafts[k].op \in EventOps /\ (f[k - 1].ok => Previews(state, f[k - 1]))
    BY <1>3 DEF IsEvents
  <2>3. f[k].ok => Previews(state, f[k])
    BY <2>1, <2>2, VetStep
  <2> QED BY <2>1, <2>3
<1>4. \A k \in 1..n : k - 1 \in G => k \in G
  BY <1>3
<1> HIDE DEF G
<1>5. \A k \in 0..n : k \in G
  BY <1>1, <1>2, <1>4, UpTo
<1> QED BY <1>5 DEF G

\* A whole batch.
LEMMA BatchIsPreviewed ==
    ASSUME NEW state, AllTasks(state), NEW drafts, IsEvents(drafts),
           NEW r, r = VetEvents(drafts, state), r.ok
    PROVE  Previews(state, r) /\ EnforceSchemas(state, r.preview)
<1> DEFINE n == Len(drafts)
<1>1. n \in 0..n
  BY SeqBasics DEF IsEvents
<1>2. PICK f : IsVetRun(f, state, drafts) /\ r = Vetted(state, f[n])
  BY VetEventsIsRun DEF IsEvents
<1>3. f[n].ok /\ r = f[n] /\ EnforceSchemas(state, r.preview)
  BY <1>2 DEF Vetted, Refused, Vetting
<1> QED BY <1>1, <1>2, <1>3, RunIsPreviewed

----------------------------------------------------------------------------
(* The edges a batch leaves.                                               *)

LEMMA ApplyEdges ==
    ASSUME NEW state, AllTasks(state), NEW e, e.op \in EventOps
    PROVE  \A id \in DOMAIN Apply(state, e) : \A x \in Apply(state, e)[id].edges :
              \/ id \in DOMAIN state /\ x \in state[id].edges
              \/ e.op = "AddEdge" /\ id = e.id /\ x = e.payload
<1> DEFINE after == Apply(state, e)
<1>1. SUFFICES ASSUME NEW id \in DOMAIN after, NEW x \in after[id].edges
               PROVE  \/ id \in DOMAIN state /\ x \in state[id].edges
                      \/ e.op = "AddEdge" /\ id = e.id /\ x = e.payload
  OBVIOUS
<1>2. CASE id # e.id
  <2>1. id \in DOMAIN state /\ after[id] = state[id]
    BY <1>2, ApplyFrame
  <2> QED BY <1>1, <2>1
<1>3. CASE id = e.id
  <2>1. e.op # "Delete" /\ after[id] = Touched(Before(state, e), e)
        /\ (id \in DOMAIN state \/ e.op = "Create")
    BY <1>3, ApplyFrame
  <2>2. IsTask(Before(state, e))
    BY DEF Before, AllTasks, IsTask, NewTask
  <2>3. x \in Before(state, e).edges \/ (e.op = "AddEdge" /\ x = e.payload)
    BY <1>1, <2>1, <2>2, TouchedEdges
  <2>4. x \in Before(state, e).edges => id \in DOMAIN state /\ x \in state[id].edges
    BY <1>3 DEF Before, NewTask
  <2> QED BY <1>3, <2>3, <2>4
<1> QED BY <1>2, <1>3

LEMMA VetsAfterOk ==
    ASSUME NEW state, NEW r, NEW d, VetDraft(state, r, d).ok
    PROVE  r.ok /\ ~ Refuses(state, d)
BY DEF VetDraft, Refused, Vetting

\* Every task was there or is named, and every edge was there, or is added by one of
\* the first k drafts and leads to another task.
Sourced(state, result, drafts, k) ==
    \A id \in DOMAIN result :
        /\ id \in DOMAIN state \/ \E j \in 1..k : drafts[j].id = id
        /\ \A x \in result[id].edges :
              \/ id \in DOMAIN state /\ x \in state[id].edges
              \/ \E j \in 1..k :
                    /\ drafts[j].op = "AddEdge" /\ drafts[j].id = id /\ drafts[j].payload = x
                    /\ x.target # id

LEMMA SourcedStep ==
    ASSUME NEW state, NEW drafts, NEW k \in Nat, k # 0, drafts[k].op \in EventOps,
           NEW r, Previews(state, r), Sourced(state, Outcome(state, r), drafts, k - 1),
           VetDraft(state, r, drafts[k]).ok
    PROVE  Sourced(state, Outcome(state, VetDraft(state, r, drafts[k])), drafts, k)
<1> DEFINE d == drafts[k]
           v == VetDraft(state, r, d)
           was == Outcome(state, r)
           now == Outcome(state, v)
<1>1. \/ v.out = r.out
      \/ \E e : /\ e.op = d.op /\ e.id = d.id /\ (e.op = "AddEdge" => e.payload = d.payload)
                /\ v.out = Append(r.out, e)
  <2> DEFINE trimmed == Restrict(d.payload, Changes(FieldsOf(state, d.id), d.payload))
             e == Draft("Update", d.id, trimmed)
  <2>1. \/ v = Refused \/ v = r
        \/ \E preview : v = Vetting(TRUE, r.out, preview)
        \/ \E preview : v = Vetting(TRUE, Append(r.out, d), preview)
        \/ d.op = "Update" /\ \E preview : v = Vetting(TRUE, Append(r.out, e), preview)
    BY DEF VetDraft, EventOps
  <2>2. v # Refused
    BY DEF Refused, Vetting
  <2>3. e.op = "Update" /\ e.id = d.id
    BY DEF Draft
  <2> HIDE DEF v, e
  <2> QED BY <2>1, <2>2, <2>3 DEF Vetting
<1> HIDE DEF v, was, now
<1>2. CASE v.out = r.out
  <2>1. now = was
    BY <1>2 DEF now, was, Outcome
  <2>2. Sourced(state, now, drafts, k)
    BY <2>1 DEF Sourced, was
  <2> QED BY <2>2 DEF now, v
<1>3. ASSUME NEW e, e.op = d.op, e.id = d.id, e.op = "AddEdge" => e.payload = d.payload,
             v.out = Append(r.out, e)
      PROVE  Sourced(state, now, drafts, k)
  <2>1. IsSeq(r.out) /\ AllTasks(was)
    BY DEF Previews, IsEvents, Agrees, was
  <2>2. Stamped(v.out) = Append(Stamped(r.out), Stamp(e))
    BY <1>3, <2>1, StampedAppend
  <2>3. now = Apply(was, Stamp(e))
    BY <2>1, <2>2, StampedSeq, MaterializeAppend DEF Outcome, now, was
  <2>4. Stamp(e).op = e.op /\ Stamp(e).id = e.id /\ Stamp(e).payload = e.payload
    BY DEF Stamp
  <2>5. \A id \in DOMAIN now : \A x \in now[id].edges :
            \/ id \in DOMAIN was /\ x \in was[id].edges
            \/ d.op = "AddEdge" /\ id = d.id /\ x = d.payload
    BY <1>3, <2>1, <2>3, <2>4, ApplyEdges
  <2>6. \A id \in DOMAIN now : id \in DOMAIN was \/ id = d.id
    BY <1>3, <2>3, <2>4, ApplyFrame
  <2>7. d.op = "AddEdge" => d.payload.target # d.id
    BY VetsAfterOk DEF Refuses
  <2>8. (\A j \in 1..(k - 1) : j \in 1..k) /\ k \in 1..k
    OBVIOUS
  <2>9. Sourced(state, was, drafts, k - 1)
    BY DEF was
  <2> SUFFICES ASSUME NEW id \in DOMAIN now
               PROVE  /\ id \in DOMAIN state \/ \E j \in 1..k : drafts[j].id = id
                      /\ \A x \in now[id].edges :
                            \/ id \in DOMAIN state /\ x \in state[id].edges
                            \/ \E j \in 1..k :
                                  /\ drafts[j].op = "AddEdge" /\ drafts[j].id = id
                                  /\ drafts[j].payload = x /\ x.target # id
    BY DEF Sourced
  <2>10. id \in DOMAIN state \/ \E j \in 1..k : drafts[j].id = id
    BY <2>6, <2>8, <2>9 DEF Sourced
  <2>11. ASSUME NEW x \in now[id].edges
         PROVE  \/ id \in DOMAIN state /\ x \in state[id].edges
                \/ \E j \in 1..k :
                      /\ drafts[j].op = "AddEdge" /\ drafts[j].id = id
                      /\ drafts[j].payload = x /\ x.target # id
    <3>1. CASE id \in DOMAIN was /\ x \in was[id].edges
      BY <2>8, <2>9, <3>1 DEF Sourced
    <3>2. CASE d.op = "AddEdge" /\ id = d.id /\ x = d.payload
      BY <2>7, <2>8, <3>2
    <3> QED BY <2>5, <3>1, <3>2
  <2> QED BY <2>10, <2>11
<1> QED BY <1>1, <1>2, <1>3 DEF now, v

LEMMA BatchIsSourced ==
    ASSUME NEW state, AllTasks(state), NEW drafts, IsEvents(drafts),
           NEW r, r = VetEvents(drafts, state), r.ok
    PROVE  Sourced(state, Outcome(state, r), drafts, Len(drafts))
<1> DEFINE n == Len(drafts)
<1>1. n \in Nat /\ n \in 0..n
  BY SeqBasics DEF IsEvents
<1>2. PICK f : IsVetRun(f, state, drafts) /\ r = Vetted(state, f[n])
  BY VetEventsIsRun DEF IsEvents
<1>3. f[n].ok /\ r = f[n]
  BY <1>2 DEF Vetted, Refused, Vetting
<1>4. \A k \in 0..n : f[k].ok => Previews(state, f[k])
  BY <1>2, RunIsPreviewed
<1> DEFINE G == {k \in 0..n : f[k].ok => Sourced(state, Outcome(state, f[k]), drafts, k)}
<1>5. 0 \in G
  <2>0. IsSeq(<< >>) /\ Len(<< >>) = 0
    BY DEF IsSeq
  <2>1. Stamped(<< >>) = << >>
    BY <2>0, StampedSeq, SameElements
  <2>2. f[0].out = << >>
    BY <1>2 DEF IsVetRun, NothingVetted, Vetting
  <2>3. Outcome(state, f[0]) = state
    BY <2>1, <2>2, MaterializeEmpty DEF Outcome
  <2>4. Sourced(state, state, drafts, 0)
    BY DEF Sourced
  <2> QED BY <1>1, <2>3, <2>4
<1>6. ASSUME NEW k \in 1..n, k - 1 \in G PROVE k \in G
  <2>1. f[k] = VetDraft(state, f[k - 1], drafts[k]) /\ k \in 0..n /\ k - 1 \in 0..n
    BY <1>1, <1>2, VetIsVetDraft DEF IsVetRun
  <2>2. drafts[k].op \in EventOps
    BY DEF IsEvents
  <2>3. ASSUME f[k].ok PROVE Sourced(state, Outcome(state, f[k]), drafts, k)
    <3>1. f[k - 1].ok
      BY <2>1, <2>3, VetsAfterOk
    <3>2. Previews(state, f[k - 1]) /\ Sourced(state, Outcome(state, f[k - 1]), drafts, k - 1)
      BY <1>4, <1>6, <2>1, <3>1
    <3>3. k \in Nat /\ k # 0
      BY <1>1
    <3> QED BY <2>1, <2>2, <2>3, <3>2, <3>3, SourcedStep
  <2> QED BY <2>1, <2>3
<1>7. \A k \in 1..n : k - 1 \in G => k \in G
  BY <1>6
<1> HIDE DEF G
<1>8. \A k \in 0..n : k \in G
  BY <1>1, <1>5, <1>7, UpTo
<1> QED BY <1>1, <1>3, <1>8 DEF G

----------------------------------------------------------------------------
(* One command.                                                            *)

\* It is a vetted batch.
LEMMA CommitIsBatch ==
    ASSUME Next
    PROVE  \E drafts : \E r \in {VetEvents(drafts, tasks)} :
               /\ IsEvents(drafts) /\ r.ok /\ tasks' = Outcome(tasks, r)
               /\ AddsNone(drafts) \/ BlockersAllowed(drafts, tasks)
<1>1. PICK c \in Commands : c.cmd \in Writers /\ Commit(c)
  BY DEF Next
<1>2. PICK past : /\ Build(c, tasks, past).out # << >>
                  /\ tasks' = Materialize(tasks, Stamped(Build(c, tasks, past).out))
  BY <1>1 DEF Commit
<1>3. PICK drafts : /\ IsEvents(drafts) /\ Build(c, tasks, past) = VetEvents(drafts, tasks)
                    /\ AddsNone(drafts) \/ BlockersAllowed(drafts, tasks)
  BY <1>1, <1>2, CommandsAssumption, CommandIsBatch
<1>4. PICK r : r = VetEvents(drafts, tasks)
  OBVIOUS
<1>5. r.ok
  <2>1. PICK v : r = Vetted(tasks, v)
    BY <1>3, <1>4, VetEventsIsRun DEF IsEvents
  <2> QED BY <1>2, <1>3, <1>4, <2>1 DEF Vetted, Refused, Vetting
<1>6. tasks' = Outcome(tasks, r)
  BY <1>2, <1>3, <1>4 DEF Outcome
<1> QED BY <1>3, <1>4, <1>5, <1>6

\* What a command leaves is as it was, or has passed the schemas.
LEMMA CommitIsVetted ==
    ASSUME AllTasks(tasks), Next
    PROVE  /\ AllTasks(tasks')
           /\ \A id \in DOMAIN tasks' :
                 \/ id \in DOMAIN tasks /\ tasks'[id].fields = tasks[id].fields
                 \/ /\ SchemaHolds(tasks'[id].fields)
                    /\ id \in DOMAIN tasks =>
                          TransitionsHold(tasks[id].fields, tasks'[id].fields)
<1>1. PICK drafts : \E r \in {VetEvents(drafts, tasks)} :
                       IsEvents(drafts) /\ r.ok /\ tasks' = Outcome(tasks, r)
  BY CommitIsBatch
<1>2. PICK r : r = VetEvents(drafts, tasks) /\ r.ok /\ tasks' = Outcome(tasks, r)
  BY <1>1
<1>3. Previews(tasks, r) /\ EnforceSchemas(tasks, r.preview)
  BY <1>1, <1>2, BatchIsPreviewed
<1>4. Agrees(tasks, r.preview, tasks')
  BY <1>2, <1>3 DEF Previews
<1> QED BY <1>3, <1>4 DEF Agrees, EnforceSchemas

\* Two edges a task map must not hold together.
Ambiguous(id, x, other, y) ==
    /\ x.target = y.target
    /\ \/ id = other /\ {x.rel, y.rel} \subseteq Blockers /\ x.rel # y.rel
       \/ id # other /\ {x.rel, y.rel} \subseteq Hierarchy

LEMMA UnambiguousPairs ==
    ASSUME NEW state
    PROVE  Unambiguous(state) <=>
               \A id, other \in DOMAIN state : \A x \in state[id].edges, y \in state[other].edges :
                   ~ Ambiguous(id, x, other, y)
BY DEF Unambiguous, EdgesOf, Ambiguous

\* The check of a link refuses them, whichever of the two comes first.
LEMMA AmbiguousClash ==
    ASSUME NEW id, NEW x, NEW other, NEW y, Ambiguous(id, x, other, y)
    PROVE  /\ Clash([id |-> id, payload |-> x], [id |-> other, payload |-> y])
           /\ Ambiguous(other, y, id, x)
BY GateAssumption DEF Ambiguous, Clash

LEMMA CommitKeepsUnambiguous ==
    ASSUME AllTasks(tasks), Unambiguous(tasks), Next
    PROVE  Unambiguous(tasks')
<1>1. PICK drafts : \E r \in {VetEvents(drafts, tasks)} :
                       /\ IsEvents(drafts) /\ r.ok /\ tasks' = Outcome(tasks, r)
                       /\ AddsNone(drafts) \/ BlockersAllowed(drafts, tasks)
  BY CommitIsBatch
<1> DEFINE n == Len(drafts)
           Old(id, x) == id \in DOMAIN tasks /\ x \in tasks[id].edges
           New(id, x, i) ==
               drafts[i].op = "AddEdge" /\ drafts[i].id = id /\ drafts[i].payload = x
<1>2. n \in Nat /\ DOMAIN drafts = 1..n
  BY <1>1, SeqBasics DEF IsEvents
<1>3. Sourced(tasks, tasks', drafts, n)
  BY <1>1, BatchIsSourced
<1>4. \A id \in DOMAIN tasks' : \A x \in tasks'[id].edges :
         Old(id, x) \/ \E i \in 1..n : New(id, x, i)
  BY <1>3 DEF Sourced
<1>5. ASSUME NEW i \in 1..n, NEW id, NEW x, New(id, x, i), NEW other, NEW y,
             Old(other, y) \/ \E j \in 1..(i - 1) : New(other, y, j)
      PROVE  ~ Ambiguous(id, x, other, y)
  <2>1. ~ AddsNone(drafts)
    BY <1>5 DEF AddsNone
  <2>2. BlockersAllowed(drafts, tasks)
    BY <1>1, <2>1
  <2> DEFINE before == StoredEdges(tasks)
                 \cup {[id |-> drafts[j].id, payload |-> drafts[j].payload] : j \in 1..(i - 1)}
             this == [id |-> drafts[i].id, payload |-> drafts[i].payload]
             that == [id |-> other, payload |-> y]
  <2>3. \A old \in before : ~ Clash(drafts[i], old)
    BY <1>2, <2>2 DEF BlockersAllowed
  <2>4. that \in before
    <3>1. CASE Old(other, y)
      BY <3>1 DEF StoredEdges
    <3>2. CASE \E j \in 1..(i - 1) : New(other, y, j)
      BY <3>2
    <3> QED BY <1>5, <3>1, <3>2
  <2>5. Clash(this, that) <=> Clash(drafts[i], that)
    BY DEF Clash
  <2>6. this = [id |-> id, payload |-> x]
    BY <1>5
  <2> HIDE DEF before, this, Old, New
  <2>7. ~ Clash([id |-> id, payload |-> x], [id |-> other, payload |-> y])
    BY <2>3, <2>4, <2>5, <2>6
  <2> QED BY <2>7, AmbiguousClash
<1>6. ASSUME NEW id \in DOMAIN tasks', NEW other \in DOMAIN tasks',
             NEW x \in tasks'[id].edges, NEW y \in tasks'[other].edges,
             Ambiguous(id, x, other, y)
      PROVE  FALSE
  <2> HIDE DEF New
  <2>1. Ambiguous(other, y, id, x)
    BY <1>6, AmbiguousClash
  <2>2. CASE Old(id, x) /\ Old(other, y)
    BY <1>6, <2>2, UnambiguousPairs
  <2> HIDE DEF Old
  <2>3. ASSUME NEW i \in 1..n, New(id, x, i), Old(other, y) PROVE FALSE
    BY <1>5, <1>6, <2>3
  <2>4. ASSUME NEW i \in 1..n, New(other, y, i), Old(id, x) PROVE FALSE
    BY <1>5, <2>1, <2>4
  <2>5. ASSUME NEW i \in 1..n, NEW j \in 1..n, New(id, x, i), New(other, y, j) PROVE FALSE
    <3>1. CASE j < i
      <4>1. j \in 1..(i - 1)
        BY <1>2, <3>1
      <4> QED BY <1>5, <1>6, <2>5, <4>1
    <3>2. CASE i < j
      <4>1. i \in 1..(j - 1)
        BY <1>2, <3>2
      <4> QED BY <1>5, <2>1, <2>5, <4>1
    <3>3. CASE i = j
      BY <1>6, <2>5, <3>3 DEF New, Ambiguous
    <3> QED BY <1>2, <3>1, <3>2, <3>3
  <2> QED BY <1>4, <2>2, <2>3, <2>4, <2>5
<1> QED BY <1>6, UnambiguousPairs

----------------------------------------------------------------------------
(* Nothing is logged in vain.                                              *)

\* A command that appends something and names an edge once.
Meaningful(c) ==
    /\ c.cmd = "update" => \A k \in DOMAIN c.ops.append : Says(c.ops.append[k])
    /\ c.cmd \in {"link", "unlink"} =>
          \A i, j \in DOMAIN c.edges :
              i # j => c.edges[i].id # c.edges[j].id \/ c.edges[i].payload # c.edges[j].payload

IsWhole(drafts) ==
    /\ Len(drafts) = 1 /\ drafts[1].op \in {"Create", "Delete"}
    /\ CarriesFields(drafts[1]) => Formed(drafts[1].payload)

LinkDrafts(drafts) ==
    /\ \A i \in 1..Len(drafts) : drafts[i].op \in {"AddEdge", "RemoveEdge"}
    /\ \A i, j \in 1..Len(drafts) :
          i # j => drafts[i].id # drafts[j].id \/ drafts[i].payload # drafts[j].payload

LEMMA OneDraft ==
    ASSUME NEW d
    PROVE  Len(<< d >>) = 1 /\ << d >>[1] = d
OBVIOUS

\* The drafts of such a command make or delete one task, write its fields, or name
\* different edges.
LEMMA CommandIsPlain ==
    ASSUME NEW c, IsCommand(c), c.cmd \in Writers, Meaningful(c), NEW state, NEW past,
           Build(c, state, past).out # << >>
    PROVE  \E drafts :
               /\ IsEvents(drafts) /\ Build(c, state, past) = VetEvents(drafts, state)
               /\ IsWhole(drafts) \/ UpdateDrafts(drafts) \/ LinkDrafts(drafts)
<1> DEFINE b == Build(c, state, past)
<1>0. DefaultsFormed
  BY TypesAssumption DEF DefaultsFormed, IsValue, IsSeq
<1>1. b # Refused
  BY DEF Refused, Vetting
<1>2. CASE c.cmd = "create"
  <2> DEFINE d == CreateDraft(c.id, c.payload)
  <2>1. Formed(c.payload)
    BY <1>2, ValuesAreFormed DEF IsCommand
  <2>2. d.op = "Create" /\ Formed(d.payload)
    <3> DEFINE status  == IF DefaultStatus = Null THEN << >> ELSE Put(<< >>, StatusKey, DefaultStatus)
               stamped == Over(c.payload, status)
               stamps  == DefaultStamps(<< >>, stamped, {})
               all     == Over(stamped, stamps)
    <3>1. d = Draft("Create", c.id, CoerceFields(<< >>, all))
      BY DEF CreateDraft
    <3>2. Formed(status)
      BY <1>0 DEF Formed, Put, DefaultsFormed
    <3>3. Formed(stamps)
      BY <1>0, StampsAreFormed
    <3> HIDE DEF status, stamps
    <3>4. Formed(stamped)
      BY <2>1, <3>2, OverIsFormed
    <3> HIDE DEF stamped
    <3>5. Formed(all)
      BY <3>3, <3>4, OverIsFormed
    <3> HIDE DEF all
    <3>6. Formed(CoerceFields(<< >>, all))
      BY <3>5, CoercedAreFormed
    <3> QED BY <3>1, <3>6 DEF Draft
  <2>3. b = VetEvents(<< d >>, state)
    BY <1>1, <1>2 DEF Build
  <2> HIDE DEF d, b
  <2>4. IsEvents(<< d >>)
    BY <2>2, OneEvent DEF EventOps
  <2>5. IsWhole(<< d >>)
    BY <2>2, OneDraft DEF IsWhole
  <2> QED BY <2>3, <2>4, <2>5 DEF b
<1>3. CASE c.cmd = "update"
  <2> DEFINE drafts == BuildFieldEvents(c.id, FieldsOf(state, c.id), c.ops)
  <2>1. Formed(c.ops.set) /\ Formed(c.ops.append) /\ Formed(c.ops.subtract)
    BY <1>3, ValuesAreFormed DEF IsCommand
  <2>2. UpdateDrafts(drafts)
    BY <1>0, <1>3, <2>1, UpdateIsDrafts DEF Meaningful
  <2>3. b = VetEvents(drafts, state)
    BY <1>1, <1>3 DEF Build
  <2> HIDE DEF drafts
  <2>4. IsEvents(drafts)
    BY <2>2 DEF UpdateDrafts, FieldDraft, IsEvents, EventOps
  <2> QED BY <2>2, <2>3, <2>4
<1>4. CASE c.cmd = "delete"
  <2> DEFINE d == Draft("Delete", c.id, << >>)
  <2>1. d.op = "Delete"
    BY DEF Draft
  <2>2. b = VetEvents(<< d >>, state)
    BY <1>1, <1>4 DEF Build
  <2> HIDE DEF d, b
  <2>3. IsEvents(<< d >>)
    BY <2>1, OneEvent DEF EventOps
  <2>4. IsWhole(<< d >>)
    BY <2>1, OneDraft DEF IsWhole, CarriesFields
  <2> QED BY <2>2, <2>3, <2>4 DEF b
<1>5. CASE c.cmd \in {"link", "unlink"}
  <2>1. c.edges \in Seq({c.edges[i] : i \in DOMAIN c.edges})
        /\ \A i \in DOMAIN c.edges :
              c.edges[i].op = IF c.cmd = "link" THEN "AddEdge" ELSE "RemoveEdge"
    BY <1>5 DEF IsCommand
  <2>2. IsSeq(c.edges)
    BY <2>1 DEF IsSeq
  <2>3. DOMAIN c.edges = 1..Len(c.edges)
    BY <2>2, SeqBasics
  <2>4. IsEvents(c.edges) /\ LinkDrafts(c.edges)
    BY <1>5, <2>1, <2>2, <2>3 DEF IsEvents, EventOps, LinkDrafts, Meaningful
  <2>5. b = VetEvents(c.edges, state)
    BY <1>1, <1>5 DEF Build
  <2> QED BY <2>4, <2>5
<1> QED BY <1>2, <1>3, <1>4, <1>5 DEF Writers

LEMMA ContentsDiffer ==
    ASSUME NEW a, NEW b, NEW id, id \in DOMAIN a \/ id \in DOMAIN b,
           id \in DOMAIN a /\ id \in DOMAIN b =>
               a[id].fields # b[id].fields \/ a[id].edges # b[id].edges
    PROVE  Contents(a) # Contents(b)
<1> SUFFICES ASSUME Contents(a) = Contents(b) PROVE FALSE
  OBVIOUS
<1>1. DOMAIN Contents(a) = DOMAIN a /\ DOMAIN Contents(b) = DOMAIN b
  BY DEF Contents
<1>2. id \in DOMAIN a /\ id \in DOMAIN b
  BY <1>1
<1>3. Contents(a)[id] = <<a[id].fields, a[id].edges>> /\ Contents(b)[id] = <<b[id].fields, b[id].edges>>
  BY <1>2 DEF Contents
<1> QED BY <1>2, <1>3

LEMMA OutcomeAppend ==
    ASSUME NEW state, NEW r, IsSeq(r.out), NEW e, NEW v, v.out = Append(r.out, e)
    PROVE  Outcome(state, v) = Apply(Outcome(state, r), Stamp(e))
<1>1. Stamped(v.out) = Append(Stamped(r.out), Stamp(e))
  BY StampedAppend
<1> QED BY <1>1, StampedSeq, MaterializeAppend DEF Outcome

\* One event more that counts.
LEMMA CountsOn ==
    ASSUME NEW state, NEW r, IsSeq(r.out), EachCounts(state, Stamped(r.out)),
           NEW e, NEW v, v.out = Append(r.out, e),
           Contents(Outcome(state, v)) # Contents(Outcome(state, r))
    PROVE  EachCounts(state, Stamped(v.out))
<1> DEFINE es == Stamped(r.out)
           longer == Stamped(v.out)
           Start(i) == SubSeq(longer, 1, i)
<1>1. PICK n \in Nat : n = Len(r.out)
  BY SeqBasics
<1>2. IsSeq(es) /\ Len(es) = n
  BY <1>1, StampedSeq
<1>3. longer = Append(es, Stamp(e))
  BY StampedAppend
<1>4. Outcome(state, v) = Materialize(state, longer) /\ Outcome(state, r) = Materialize(state, es)
  BY DEF Outcome
<1>5. EachCounts(state, es)
  OBVIOUS
<1> HIDE DEF es, longer
<1>6. IsSeq(longer) /\ Len(longer) = n + 1
  BY <1>2, <1>3, SeqAppend
<1>7. DOMAIN longer = 1..(n + 1) /\ DOMAIN es = 1..n
  BY <1>2, <1>6, SeqBasics
<1>8. \A i \in 0..n : Start(i) = SubSeq(es, 1, i)
  BY <1>2, <1>3, AppendKeepsPrefix
<1>9. Start(n + 1) = longer /\ SubSeq(es, 1, n) = es
  BY <1>2, <1>6, WholePrefix
<1>10. Start(n) = es
  <2>1. n \in 0..n
    OBVIOUS
  <2> HIDE DEF Start
  <2> QED BY <1>8, <1>9, <2>1
<1> HIDE DEF Start
<1>11. ASSUME NEW i \in 1..(n + 1)
       PROVE  Contents(Materialize(state, Start(i))) # Contents(Materialize(state, Start(i - 1)))
  <2>1. CASE i = n + 1
    <3>1. i - 1 = n
      BY <2>1
    <3> QED BY <1>4, <1>9, <1>10, <2>1, <3>1
  <2>2. CASE i # n + 1
    <3>1. i \in 0..n /\ i - 1 \in 0..n /\ i \in DOMAIN es
      BY <1>7, <2>2
    <3> QED BY <1>5, <1>8, <3>1 DEF EachCounts
  <2> QED BY <2>1, <2>2
<1>12. EachCounts(state, longer)
  BY <1>7, <1>11 DEF EachCounts, Start
<1> QED BY <1>12 DEF longer

\* Setting what differs makes a difference.
LEMMA SetChanges ==
    ASSUME NEW current, NEW payload, NEW trimmed,
           trimmed = Restrict(payload, Changes(current, payload)), DOMAIN trimmed # {}
    PROVE  ApplySet(current, trimmed) # current
<1>1. PICK k \in DOMAIN trimmed : TRUE
  OBVIOUS
<1>2. k \in DOMAIN payload /\ trimmed[k] = payload[k] /\ payload[k] # Value(current, k)
  BY <1>1 DEF Restrict, Changes
<1> DEFINE unset == {x \in DOMAIN trimmed : trimmed[x] = Null}
           a == Without(trimmed, unset)
           b == Without(current, unset)
<1>3. ApplySet(current, trimmed) = Over(a, b)
  BY DEF ApplySet
<1>4. k \in unset <=> trimmed[k] = Null
  OBVIOUS
<1>5. /\ k \in DOMAIN a <=> k \notin unset
      /\ k \notin unset => a[k] = trimmed[k]
      /\ k \in DOMAIN b => k \notin unset
  BY Remains
<1> HIDE DEF unset, a, b
<1>6. /\ k \in DOMAIN Over(a, b) <=> k \in DOMAIN a \/ k \in DOMAIN b
      /\ k \in DOMAIN a => Over(a, b)[k] = a[k]
  BY Overridden
<1> QED BY <1>2, <1>3, <1>4, <1>5, <1>6 DEF Value

LEMMA TextIsLonger ==
    ASSUME NEW old, IsText(old) => IsSeq(old[2]), NEW v, Says(v)
    PROVE  AppendText(old, v) # old
<1>1. CASE old \in {Null, Blank}
  <2> DEFINE t == TextLines(v)
  <2>1. AppendText(old, v) = <<"text", t>>
    BY <1>1 DEF AppendText, Text
  <2>2. t # << "" >>
    BY DEF Says
  <2> HIDE DEF t
  <2>3. <<"null">> # <<"text", t>>
    OBVIOUS
  <2>4. << "text", << "" >> >> # <<"text", t>>
    BY <2>2
  <2> QED BY <1>1, <2>1, <2>3, <2>4 DEF Null, Blank, Word, Text
<1>2. CASE old \notin {Null, Blank}
  <2> DEFINE s == TextLines(old)
             t == TextLines(v)
  <2>1. AppendText(old, v) = <<"text", s \o t>>
    BY <1>2 DEF AppendText, Text
  <2>2. IsSeq(s) /\ IsSeq(t) /\ t # << >>
    BY LinesOfText DEF Says
  <2>3. IsText(old) => old[2] = s
    BY DEF TextLines
  <2> HIDE DEF s, t
  <2>4. SUFFICES ASSUME old = <<"text", s \o t>> PROVE FALSE
    BY <2>1
  <2>5. s = s \o t
    BY <2>3, <2>4 DEF IsText
  <2>6. Len(s) \in Nat /\ Len(t) \in Nat /\ Len(s \o t) = Len(s) + Len(t)
    BY <2>2, SeqBasics, SeqConcat
  <2>7. Len(t) = 0
    BY <2>5, <2>6
  <2>8. t = << >>
    BY <2>2, <2>7, SeqEmpty, SameElements
  <2> QED BY <2>2, <2>8
<1> QED BY <1>1, <1>2

LEMMA AppendChanges ==
    ASSUME NEW fields, Formed(fields), NEW payload, NEW k \in DOMAIN payload, Says(payload[k])
    PROVE  ApplyAppend(fields, payload) # fields
<1> DEFINE added == {x \in DOMAIN payload : payload[x] # Null}
           a == [x \in added |-> AppendText(Value(fields, x), payload[x])]
           old == Value(fields, k)
<1>1. ApplyAppend(fields, payload) = Over(a, fields)
  BY DEF ApplyAppend
<1>2. k \in DOMAIN a /\ a[k] = AppendText(old, payload[k])
  BY DEF Says
<1>3. IsText(old) => IsSeq(old[2])
  BY DEF Formed, Value, Null, IsText
<1>4. k \in DOMAIN fields => old = fields[k]
  BY DEF Value
<1> HIDE DEF a, old
<1>5. a[k] # old
  BY <1>2, <1>3, TextIsLonger
<1>6. k \in DOMAIN Over(a, fields) /\ Over(a, fields)[k] = a[k]
  BY <1>2, Overridden
<1> QED BY <1>1, <1>4, <1>5, <1>6

Counting(state, r) == EachCounts(state, Stamped(r.out))

LEMMA NothingCounts ==
    ASSUME NEW state, NEW r, r.out = << >>
    PROVE  Counting(state, r) /\ Outcome(state, r) = state
<1>1. IsSeq(<< >>) /\ Len(<< >>) = 0
  BY SeqEmpty
<1>2. IsSeq(Stamped(r.out)) /\ Len(Stamped(r.out)) = 0
  BY <1>1, StampedSeq
<1>3. Stamped(r.out) = << >>
  BY <1>1, <1>2, SameElements
<1>4. DOMAIN Stamped(r.out) = {}
  BY <1>3
<1> QED BY <1>3, <1>4, MaterializeEmpty DEF Counting, EachCounts, Outcome

\* A kept draft that sets fields changes one, and goes on from well-formed values to
\* well-formed ones.
LEMMA FieldDraftCounts ==
    ASSUME NEW state, NEW r, Previews(state, r), Counting(state, r),
           FormedTasks(Outcome(state, r)), DOMAIN Outcome(state, r) = DOMAIN state,
           NEW d, FieldDraft(d), d.op = "Update" => r.preview = << >>,
           NEW v, v = VetDraft(state, r, d), v.ok
    PROVE  /\ Counting(state, v)
           /\ FormedTasks(Outcome(state, v)) /\ DOMAIN Outcome(state, v) = DOMAIN state
<1> DEFINE was == Outcome(state, r)
           now == Outcome(state, v)
           w == Working(state, r.preview, d.id)
<1>1. d.op \in EventOps /\ d.op # "Create" /\ d.op # "Delete"
  BY DEF FieldDraft, EventOps
<1>2. ~ Refuses(state, d) /\ d.id \in DOMAIN state
  <2>1. ~ Refuses(state, d)
    BY <1>1, VetLogs
  <2> QED BY <1>1, <2>1 DEF Refuses
<1>3. IsSeq(r.out) /\ Agrees(state, r.preview, was) /\ AllTasks(was)
  BY DEF Previews, IsEvents, Agrees
<1>4. was[d.id].fields = w /\ IsTask(was[d.id]) /\ Formed(w)
  <2>1. d.id \in DOMAIN was /\ Before(was, d) = was[d.id]
    BY <1>2 DEF Before
  <2>2. (d.id \in DOMAIN state <=> d.op # "Create") /\ (d.id \in DOMAIN was \/ d.op = "Create")
    BY <1>1, <1>2, <2>1
  <2> HIDE DEF was
  <2>3. Before(was, d).fields = Working(state, r.preview, d.id)
    BY <1>3, <2>2, WorkingIsCurrent
  <2>4. Formed(was[d.id].fields)
    BY <2>1 DEF FormedTasks, was
  <2> QED BY <1>3, <2>1, <2>3, <2>4 DEF AllTasks
<1>5. CASE v.out = r.out
  <2>1. now = was /\ (Counting(state, v) <=> Counting(state, r))
    BY <1>5 DEF Outcome, Counting
  <2> QED BY <2>1
<1>6. ASSUME NEW e, v.out = Append(r.out, e), e.op = d.op, e.id = d.id, Formed(e.payload),
             FieldsAfter(w, e) # w
      PROVE  Counting(state, v) /\ FormedTasks(now) /\ DOMAIN now = DOMAIN state
  <2> DEFINE x == Stamp(e)
  <2>1. x.op = d.op /\ x.id = d.id /\ x.payload = e.payload
    BY <1>6 DEF Stamp
  <2>2. FieldsAfter(w, x) = FieldsAfter(w, e)
    BY <1>6, <2>1 DEF FieldsAfter
  <2>3. now = Apply(was, x)
    BY <1>3, <1>6, OutcomeAppend
  <2> HIDE DEF x, w, now
  <2>4. FormedTasks(now)
    <3>1. CarriesFields(x) => Formed(x.payload)
      BY <1>6, <2>1
    <3> QED BY <1>1, <1>3, <2>1, <2>3, <3>1, ApplyKeepsFormed
  <2>5. /\ \A id : id # d.id => (id \in DOMAIN now <=> id \in DOMAIN was)
        /\ d.id \in DOMAIN now /\ now[d.id] = Touched(was[d.id], x)
    BY <1>1, <1>2, <2>1, <2>3, ApplyFrame DEF Before
  <2>6. now[d.id].fields # was[d.id].fields
    BY <1>1, <1>4, <1>6, <2>1, <2>2, <2>5, TouchedFields, SMTT(30)
  <2>7. Contents(now) # Contents(was)
    BY <2>5, <2>6, ContentsDiffer
  <2>8. Counting(state, v)
    BY <1>3, <1>6, <2>7, CountsOn DEF now, Counting
  <2>9. DOMAIN now = DOMAIN state
    <3>1. \A id : id \in DOMAIN now <=> id \in DOMAIN was
      BY <1>2, <2>5
    <3> QED BY <3>1
  <2> QED BY <2>4, <2>8, <2>9
<1>7. CASE v.out # r.out
  <2>1. PICK e :
            /\ v.out = Append(r.out, e) /\ e.op = d.op /\ e.id = d.id
            /\ IF d.op = "Update"
               THEN /\ e.payload = Restrict(d.payload, Changes(FieldsOf(state, d.id), d.payload))
                    /\ DOMAIN e.payload # {}
               ELSE e = d
            /\ d.op \in {"Add", "Remove"} => FieldsAfter(w, d) # w
    BY <1>1, <1>7, VetLogs
  <2>2. Formed(e.payload)
    <3>1. Formed(d.payload)
      BY DEF FieldDraft
    <3>2. \A s : s \subseteq DOMAIN d.payload => Formed(Restrict(d.payload, s))
      BY <3>1 DEF Formed, Restrict
    <3>3. Changes(FieldsOf(state, d.id), d.payload) \subseteq DOMAIN d.payload
      BY DEF Changes
    <3> QED BY <2>1, <3>1, <3>2, <3>3
  <2>3. FieldsAfter(w, e) # w
    <3>1. CASE d.op = "Update"
      <4>1. w = FieldsOf(state, d.id)
        BY <3>1 DEF Working
      <4>2. FieldsAfter(w, e) = ApplySet(w, e.payload)
        BY <2>1, <3>1 DEF FieldsAfter
      <4> HIDE DEF w
      <4>3. e.payload = Restrict(d.payload, Changes(w, d.payload)) /\ DOMAIN e.payload # {}
        BY <2>1, <3>1, <4>1
      <4> QED BY <4>2, <4>3, SetChanges
    <3>2. CASE d.op = "Append"
      <4>1. PICK k \in DOMAIN d.payload : Says(d.payload[k])
        BY <3>2 DEF FieldDraft
      <4>2. FieldsAfter(w, e) = ApplyAppend(w, d.payload)
        BY <2>1, <3>2 DEF FieldsAfter
      <4> HIDE DEF w
      <4> QED BY <1>4, <4>1, <4>2, AppendChanges
    <3>3. CASE d.op \in {"Add", "Remove"}
      BY <2>1, <3>3
    <3> QED BY <3>1, <3>2, <3>3 DEF FieldDraft
  <2> QED BY <1>6, <2>1, <2>2, <2>3
<1> QED BY <1>5, <1>7

LEMMA UpdateCounts ==
    ASSUME NEW state, AllTasks(state), FormedTasks(state),
           NEW drafts, IsEvents(drafts), UpdateDrafts(drafts),
           NEW f, IsVetRun(f, state, drafts)
    PROVE  \A k \in 0..Len(drafts) : f[k].ok =>
              Counting(state, f[k]) /\ FormedTasks(Outcome(state, f[k]))
<1>1. PICK n \in Nat : n = Len(drafts)
  BY SeqBasics DEF IsEvents
<1> DEFINE Good(r) == /\ Counting(state, r) /\ FormedTasks(Outcome(state, r))
                      /\ DOMAIN Outcome(state, r) = DOMAIN state
           G == {k \in 0..n : f[k].ok => Good(f[k])}
<1>2. f[0].out = << >> /\ f[0].preview = << >>
  BY DEF IsVetRun, NothingVetted, Vetting
<1>3. 0 \in G
  <2>1. Good(f[0])
    BY <1>2, NothingCounts
  <2> QED BY <2>1
<1>4. ASSUME NEW k \in 1..n, k - 1 \in G PROVE k \in G
  <2> SUFFICES ASSUME f[k].ok PROVE Good(f[k])
    OBVIOUS
  <2> DEFINE r == f[k - 1]
             d == drafts[k]
  <2>1. f[k] = VetDraft(state, r, d)
    BY <1>1, VetIsVetDraft DEF IsVetRun
  <2>2. r.ok
    BY <2>1, VetsAfterOk
  <2>3. Good(r)
    BY <1>4, <2>2
  <2>4. k - 1 \in 0..Len(drafts)
    BY <1>1
  <2>5. Previews(state, r)
    BY <2>2, <2>4, RunIsPreviewed
  <2>6. FieldDraft(d) /\ (d.op = "Update" => k = 1)
    BY <1>1 DEF UpdateDrafts
  <2>7. d.op = "Update" => r.preview = << >>
    <3>1. k = 1 => k - 1 = 0
      OBVIOUS
    <3> QED BY <1>2, <2>6, <3>1
  <2> HIDE DEF r, d
  <2> QED BY <2>1, <2>3, <2>5, <2>6, <2>7, FieldDraftCounts
<1> HIDE DEF G
<1>5. \A k \in 0..n : k \in G
  BY <1>3, <1>4, UpTo
<1> QED BY <1>1, <1>5 DEF G

\* A create, or a delete, changes which tasks there are.
LEMMA WholeCounts ==
    ASSUME NEW state, AllTasks(state), FormedTasks(state),
           NEW drafts, IsEvents(drafts), IsWhole(drafts),
           NEW f, IsVetRun(f, state, drafts)
    PROVE  \A k \in 0..Len(drafts) : f[k].ok =>
              Counting(state, f[k]) /\ FormedTasks(Outcome(state, f[k]))
<1> DEFINE r == f[0]
           v == f[1]
           d == drafts[1]
           now == Outcome(state, v)
<1>1. Len(drafts) = 1 /\ d.op \in EventOps /\ d.op \in {"Create", "Delete"}
  BY DEF IsWhole, EventOps
<1>2. r.out = << >>
  BY DEF IsVetRun, NothingVetted, Vetting
<1>3. Counting(state, r) /\ Outcome(state, r) = state
  BY <1>2, NothingCounts
<1>4. ASSUME v.ok PROVE Counting(state, v) /\ FormedTasks(now)
  <2>1. v = VetDraft(state, r, d)
    BY <1>1, VetIsVetDraft DEF IsVetRun
  <2>2. ~ Refuses(state, d) /\ (v.out = r.out \/ v.out = Append(r.out, d))
    BY <1>1, <1>4, <2>1, VetLogs
  <2>3. d.id \in DOMAIN state <=> d.op # "Create"
    BY <2>2 DEF Refuses
  <2>4. CASE v.out = r.out
    <3>1. Counting(state, v) /\ now = state
      BY <1>2, <2>4, NothingCounts
    <3> QED BY <3>1
  <2>5. CASE v.out = Append(r.out, d)
    <3> DEFINE x == Stamp(d)
    <3>1. x.op = d.op /\ x.id = d.id /\ x.payload = d.payload
      BY DEF Stamp
    <3>2. IsSeq(r.out)
      BY <1>2, SeqEmpty
    <3>3. now = Apply(state, x)
      BY <1>3, <2>5, <3>2, OutcomeAppend
    <3> HIDE DEF x, now, v, r
    <3>4. d.id \in DOMAIN now <=> d.op = "Create"
      BY <1>1, <3>1, <3>3, ApplyFrame
    <3>5. Contents(now) # Contents(state)
      BY <1>1, <2>3, <3>4, ContentsDiffer
    <3>6. Contents(Outcome(state, v)) # Contents(Outcome(state, r))
      BY <1>3, <3>5 DEF now
    <3> HIDE DEF d
    <3>7. Counting(state, v)
      BY <1>3, <2>5, <3>2, <3>6, CountsOn DEF Counting
    <3>8. CarriesFields(x) => Formed(x.payload)
      BY <3>1 DEF IsWhole, CarriesFields, d
    <3>9. FormedTasks(now)
      BY <1>1, <3>1, <3>3, <3>8, ApplyKeepsFormed
    <3> QED BY <3>7, <3>9
  <2> QED BY <2>2, <2>4, <2>5
<1> HIDE DEF r, v, now
<1>5. ASSUME NEW k \in 0..Len(drafts) PROVE k = 0 \/ k = 1
  BY <1>1
<1> QED BY <1>3, <1>4, <1>5 DEF r, v, now

\* Edges differ from the stored ones only where an edge draft did it.
EdgesFollow(state, result, drafts, k) ==
    \A id \in DOMAIN state : \A x :
        (x \in result[id].edges) # (x \in state[id].edges) =>
            \E i \in 1..k : drafts[i].id = id /\ drafts[i].payload = x

\* An edge draft changes the one edge it names.
LEMMA TouchedByEdge ==
    ASSUME NEW t, IsTask(t), NEW e, e.op \in {"AddEdge", "RemoveEdge"}
    PROVE  /\ IsTask(Touched(t, e)) /\ Touched(t, e).fields = t.fields
           /\ \A x : x \in Touched(t, e).edges <=>
                 IF x = e.payload THEN e.op = "AddEdge" ELSE x \in t.edges
<1>1. CASE e.op = "AddEdge"
  <2>1. Touched(t, e) = [t EXCEPT !.edges = t.edges \cup {e.payload}, !.updated = e.ts]
    BY <1>1 DEF Touched
  <2> HIDE DEF Touched
  <2>2. /\ IsTask(Touched(t, e)) /\ Touched(t, e).fields = t.fields
        /\ Touched(t, e).edges = t.edges \cup {e.payload}
    BY <2>1 DEF IsTask
  <2> QED BY <1>1, <2>2
<1>2. CASE e.op = "RemoveEdge"
  <2>1. Touched(t, e) = [t EXCEPT !.edges = t.edges \ {e.payload}, !.updated = e.ts]
    BY <1>2 DEF Touched
  <2>2. /\ IsTask(Touched(t, e)) /\ Touched(t, e).fields = t.fields
        /\ Touched(t, e).edges = t.edges \ {e.payload}
    BY <2>1 DEF IsTask
  <2> QED BY <1>2, <2>2
<1> QED BY <1>1, <1>2

LEMMA EdgeDraftCounts ==
    ASSUME NEW state, NEW r, Previews(state, r), Counting(state, r),
           FormedTasks(Outcome(state, r)), DOMAIN Outcome(state, r) = DOMAIN state,
           NEW drafts, NEW k \in Nat, k # 0, EdgesFollow(state, Outcome(state, r), drafts, k - 1),
           drafts[k].op \in {"AddEdge", "RemoveEdge"},
           \A i \in 1..(k - 1) :
              drafts[i].id # drafts[k].id \/ drafts[i].payload # drafts[k].payload,
           NEW v, v = VetDraft(state, r, drafts[k]), v.ok
    PROVE  /\ Counting(state, v)
           /\ FormedTasks(Outcome(state, v)) /\ DOMAIN Outcome(state, v) = DOMAIN state
           /\ EdgesFollow(state, Outcome(state, v), drafts, k)
<1> DEFINE was == Outcome(state, r)
           now == Outcome(state, v)
           d == drafts[k]
           x == Stamp(d)
<1>1. d.op \in EventOps /\ d.op # "Create" /\ d.op # "Delete" /\ d.op # "Update" /\ ~ CarriesFields(d)
  BY DEF EventOps, CarriesFields
<1>2. /\ ~ Refuses(state, d)
      /\ \/ v.out = r.out
         \/ /\ v.out = Append(r.out, d)
            /\ d.op = "AddEdge" => d.payload \notin state[d.id].edges
            /\ d.op = "RemoveEdge" => d.payload \in state[d.id].edges
  BY <1>1, VetLogs
<1>3. d.id \in DOMAIN state
  BY <1>1, <1>2 DEF Refuses
<1>4. IsSeq(r.out) /\ AllTasks(was)
  BY DEF Previews, IsEvents, Agrees
<1>5. k \in 1..k /\ \A i \in 1..(k - 1) : i \in 1..k
  OBVIOUS
<1>6. CASE v.out = r.out
  <2>1. now = was /\ (Counting(state, v) <=> Counting(state, r))
    BY <1>6 DEF Outcome, Counting
  <2> HIDE DEF now, was
  <2>2. EdgesFollow(state, now, drafts, k)
    BY <1>5, <2>1 DEF EdgesFollow, was
  <2> QED BY <2>1, <2>2 DEF now, was
<1>7. CASE v.out # r.out
  <2>1. now = Apply(was, x)
    BY <1>2, <1>4, <1>7, OutcomeAppend
  <2>2. x.op = d.op /\ x.id = d.id /\ x.payload = d.payload
    BY DEF Stamp
  <2>3. EdgesFollow(state, was, drafts, k - 1) /\ DOMAIN was = DOMAIN state
    OBVIOUS
  <2> HIDE DEF x, now, was
  <2>4. /\ \A id : id # d.id => (id \in DOMAIN now <=> id \in DOMAIN was)
        /\ \A id \in DOMAIN was : id # d.id => now[id] = was[id]
        /\ d.id \in DOMAIN now /\ now[d.id] = Touched(was[d.id], x)
    BY <1>1, <1>3, <2>1, <2>2, <2>3, ApplyFrame DEF Before
  <2>5. /\ now[d.id].fields = was[d.id].fields
        /\ \A y : y \in now[d.id].edges <=>
              IF y = d.payload THEN d.op = "AddEdge" ELSE y \in was[d.id].edges
    <3>1. IsTask(was[d.id])
      BY <1>3, <1>4, <2>3 DEF AllTasks
    <3> QED BY <2>2, <2>4, <3>1, TouchedByEdge, SMTT(30)
  <2>6. DOMAIN now = DOMAIN state
    <3>1. \A id : id \in DOMAIN now <=> id \in DOMAIN state
      BY <1>3, <2>3, <2>4
    <3> QED BY <3>1
  <2>7. (d.payload \in was[d.id].edges) = (d.payload \in state[d.id].edges)
    BY <1>3, <2>3 DEF EdgesFollow
  <2>8. now[d.id].edges # was[d.id].edges
    BY <1>2, <1>7, <2>5, <2>7
  <2>9. Contents(now) # Contents(was)
    BY <1>3, <2>3, <2>6, <2>8, ContentsDiffer
  <2>10. Counting(state, v)
    BY <1>2, <1>4, <1>7, <2>9, CountsOn DEF now, was, Counting
  <2>11. FormedTasks(now)
    BY <1>3, <2>3, <2>4, <2>5, <2>6 DEF FormedTasks, was
  <2>12. ASSUME NEW id \in DOMAIN state, NEW y,
                (y \in now[id].edges) # (y \in state[id].edges)
         PROVE  \E i \in 1..k : drafts[i].id = id /\ drafts[i].payload = y
    <3>1. CASE id = d.id /\ y = d.payload
      BY <1>5, <3>1
    <3>2. CASE ~ (id = d.id /\ y = d.payload)
      <4>1. (y \in now[id].edges) = (y \in was[id].edges)
        BY <2>3, <2>4, <2>5, <3>2
      <4>2. (y \in was[id].edges) # (y \in state[id].edges)
        BY <2>12, <4>1
      <4> QED BY <1>5, <2>3, <4>2 DEF EdgesFollow
    <3> QED BY <3>1, <3>2
  <2>13. EdgesFollow(state, now, drafts, k)
    BY <2>12 DEF EdgesFollow
  <2> QED BY <2>6, <2>10, <2>11, <2>13 DEF now
<1> QED BY <1>6, <1>7

LEMMA LinkCounts ==
    ASSUME NEW state, AllTasks(state), FormedTasks(state),
           NEW drafts, IsEvents(drafts), LinkDrafts(drafts),
           NEW f, IsVetRun(f, state, drafts)
    PROVE  \A k \in 0..Len(drafts) : f[k].ok =>
              Counting(state, f[k]) /\ FormedTasks(Outcome(state, f[k]))
<1>1. PICK n \in Nat : n = Len(drafts)
  BY SeqBasics DEF IsEvents
<1> DEFINE Good(r, k) == /\ Counting(state, r) /\ FormedTasks(Outcome(state, r))
                         /\ DOMAIN Outcome(state, r) = DOMAIN state
                         /\ EdgesFollow(state, Outcome(state, r), drafts, k)
           G == {k \in 0..n : f[k].ok => Good(f[k], k)}
<1>2. 0 \in G
  <2>1. f[0].out = << >>
    BY DEF IsVetRun, NothingVetted, Vetting
  <2>2. Counting(state, f[0]) /\ Outcome(state, f[0]) = state
    BY <2>1, NothingCounts
  <2>3. EdgesFollow(state, state, drafts, 0)
    BY DEF EdgesFollow
  <2> QED BY <2>2, <2>3
<1>3. ASSUME NEW k \in 1..n, k - 1 \in G PROVE k \in G
  <2> SUFFICES ASSUME f[k].ok PROVE Good(f[k], k)
    OBVIOUS
  <2> DEFINE r == f[k - 1]
  <2>1. f[k] = VetDraft(state, r, drafts[k])
    BY <1>1, VetIsVetDraft DEF IsVetRun
  <2>2. r.ok
    BY <2>1, VetsAfterOk
  <2>3. Good(r, k - 1)
    BY <1>3, <2>2
  <2>4. k - 1 \in 0..Len(drafts) /\ k \in Nat /\ k # 0
    BY <1>1
  <2>5. Previews(state, r)
    BY <2>2, <2>4, RunIsPreviewed
  <2>6. drafts[k].op \in {"AddEdge", "RemoveEdge"}
    BY <1>1 DEF LinkDrafts
  <2>7. \A i \in 1..(k - 1) :
            drafts[i].id # drafts[k].id \/ drafts[i].payload # drafts[k].payload
    <3>1. ASSUME NEW i \in 1..(k - 1) PROVE i \in 1..n /\ i # k
      BY <1>1
    <3> QED BY <1>1, <3>1 DEF LinkDrafts
  <2> HIDE DEF r
  <2> QED BY <2>1, <2>3, <2>4, <2>5, <2>6, <2>7, EdgeDraftCounts
<1> HIDE DEF G
<1>4. \A k \in 0..n : k \in G
  BY <1>2, <1>3, UpTo
<1> QED BY <1>1, <1>4 DEF G

\* What a meaningful command logs counts, and leaves well-formed values.
LEMMA BuildCounts ==
    ASSUME NEW c \in Commands, c.cmd \in Writers, Meaningful(c),
           AllTasks(tasks), FormedTasks(tasks), NEW past, NEW r, r = Build(c, tasks, past)
    PROVE  /\ Counting(tasks, r)
           /\ r.out # << >> => AllTasks(Outcome(tasks, r)) /\ FormedTasks(Outcome(tasks, r))
<1>1. CASE r.out = << >>
  BY <1>1, NothingCounts
<1>2. CASE r.out # << >>
  <2>1. IsCommand(c)
    BY CommandsAssumption
  <2>2. PICK drafts :
            /\ IsEvents(drafts) /\ r = VetEvents(drafts, tasks)
            /\ IsWhole(drafts) \/ UpdateDrafts(drafts) \/ LinkDrafts(drafts)
    BY <1>2, <2>1, CommandIsPlain
  <2>3. PICK f : IsVetRun(f, tasks, drafts) /\ r = Vetted(tasks, f[Len(drafts)])
    BY <2>2, VetEventsIsRun DEF IsEvents
  <2>4. Refused.out = << >>
    BY DEF Refused, Vetting
  <2>5. f[Len(drafts)].ok /\ r = f[Len(drafts)]
    BY <1>2, <2>3, <2>4 DEF Vetted
  <2>6. Len(drafts) \in 0..Len(drafts)
    BY <2>2, SeqBasics DEF IsEvents
  <2>7. Counting(tasks, r) /\ FormedTasks(Outcome(tasks, r))
    BY <2>2, <2>3, <2>5, <2>6, WholeCounts, UpdateCounts, LinkCounts
  <2>8. Previews(tasks, r)
    BY <2>2, <2>3, <2>5, <2>6, RunIsPreviewed
  <2> QED BY <2>7, <2>8 DEF Previews, Agrees
<1> QED BY <1>1, <1>2

----------------------------------------------------------------------------
(* The ledger.                                                             *)

LawfulTasks == AllTasks(tasks) /\ EveryTaskConforms

LEMMA LawfulInit == Init => LawfulTasks
<1> SUFFICES ASSUME Init PROVE LawfulTasks
  OBVIOUS
<1>1. IsSeq(Genesis)
  BY GenesisAssumption DEF IsSeq
<1>2. IsEvents(Genesis)
  BY <1>1, SeqBasics, GenesisAssumption DEF IsEvents
<1>3. AllTasks(<< >>)
  BY DEF AllTasks
<1>4. AllTasks(tasks)
  BY <1>2, <1>3, MaterializeKeepsTasks DEF Init
<1>5. EveryTaskConforms
  BY GenesisAssumption DEF Init, EveryTaskConforms
<1> QED BY <1>4, <1>5 DEF LawfulTasks

LEMMA LawfulStep == LawfulTasks /\ [Next]_tasks => LawfulTasks'
<1> SUFFICES ASSUME LawfulTasks, [Next]_tasks PROVE LawfulTasks'
  OBVIOUS
<1>1. CASE Next
  <2>1. AllTasks(tasks')
    BY <1>1, CommitIsVetted DEF LawfulTasks
  <2>2. ASSUME NEW id \in DOMAIN tasks' PROVE Lawful(tasks'[id].fields)
    <3>1. CASE id \in DOMAIN tasks /\ tasks'[id].fields = tasks[id].fields
      BY <3>1 DEF LawfulTasks, EveryTaskConforms
    <3>2. CASE SchemaHolds(tasks'[id].fields)
      BY <3>2 DEF SchemaHolds, Lawful
    <3> QED BY <1>1, <3>1, <3>2, CommitIsVetted DEF LawfulTasks
  <2>3. EveryTaskConforms'
    BY <2>2 DEF EveryTaskConforms, Lawful, Conforms, Declared, Value, MatchesSchema, MatchesKind
  <2> QED BY <2>1, <2>3 DEF LawfulTasks, AllTasks
<1>2. CASE UNCHANGED tasks
  BY <1>2 DEF LawfulTasks, AllTasks, EveryTaskConforms, Lawful, Conforms
<1> QED BY <1>1, <1>2

\* No command the gate accepts ever leaves a task that breaks the schema of its type,
\* for any schemas, any commands with any payloads, and batches that set, retype,
\* accumulate and delete at once.
THEOREM SchemasHold == Spec => []EveryTaskConforms
<1>1. LawfulTasks => EveryTaskConforms
  BY DEF LawfulTasks
<1> QED BY <1>1, LawfulInit, LawfulStep, PTL DEF Spec

LEMMA TerminalStep ==
    ASSUME LawfulTasks, LawfulTasks', Next, NEW id \in DOMAIN tasks, id \in DOMAIN tasks',
           NEW k \in DOMAIN tasks[id].fields, Terminal(k, tasks[id].fields[k])
    PROVE  Value(tasks'[id].fields, k) = tasks[id].fields[k]
<1> DEFINE old == tasks[id].fields
           new == tasks'[id].fields
<1>1. CASE new = old
  BY <1>1 DEF Value
<1>2. CASE SchemaHolds(new) /\ TransitionsHold(old, new)
  <2>1. Conforms(old) /\ Conforms(new)
    BY <1>2 DEF LawfulTasks, EveryTaskConforms, Lawful, Terminal, SchemaHolds
  <2> DEFINE type == Value(new, TypeKey)
             decl == TaskTypes[type].fields
  <2>2. type \in DOMAIN TaskTypes /\ Declared(type) = decl
    BY <2>1 DEF Conforms, Declared
  <2>3. type # Null
    BY <2>2, TypesAssumption DEF IsText, Null
  <2>4. WriteType(old, new) = type
    BY <2>3 DEF WriteType, Value
  <2>5. /\ k \in DOMAIN decl /\ decl[k].required /\ decl[k].kind = "enum"
        /\ old[k] \in DOMAIN decl[k].moves /\ decl[k].moves[old[k]] = {}
    BY <2>2 DEF Terminal
  <2>6. k \in DOMAIN new /\ MatchesSchema(new[k], decl[k])
    BY <2>1, <2>2, <2>5 DEF Conforms
  <2>7. IsText(new[k])
    <3>1. new[k] \in decl[k].values
      BY <2>5, <2>6 DEF MatchesSchema, MatchesKind
    <3> QED BY <2>2, <2>5, <3>1, TypesAssumption
  <2>8. IsText(old[k])
    <3> DEFINE before == Value(old, TypeKey)
               held   == TaskTypes[before].fields
    <3>1. before \in DOMAIN TaskTypes /\ Declared(before) = held
      BY <2>1 DEF Conforms, Declared
    <3>2. k \in DOMAIN held /\ held[k].kind = "enum"
      BY <3>1 DEF Terminal
    <3>3. MatchesSchema(old[k], held[k])
      BY <2>1, <3>1, <3>2 DEF Conforms
    <3>4. old[k] \in held[k].values
      BY <3>2, <3>3 DEF MatchesSchema, MatchesKind
    <3> QED BY <3>1, <3>2, <3>4, TypesAssumption
  <2>9. (IsText(old[k]) /\ IsText(new[k]) /\ old[k] # new[k] /\ old[k] \in DOMAIN decl[k].moves)
            => new[k] \in decl[k].moves[old[k]]
    <3>1. Value(old, k) = old[k] /\ Value(new, k) = new[k]
      BY <2>6 DEF Value
    <3> HIDE DEF old, new, type, decl
    <3>2. Declared(WriteType(old, new)) = decl
      BY <2>2, <2>4
    <3> QED BY <1>2, <2>5, <3>1, <3>2 DEF TransitionsHold
  <2>10. old[k] = new[k]
    BY <2>5, <2>7, <2>8, <2>9
  <2> QED BY <2>6, <2>10 DEF Value
<1> QED BY <1>1, <1>2, CommitIsVetted DEF LawfulTasks

\* A task never leaves a value that no type lets it leave, short of being deleted:
\* not by unsetting it, by changing its type, or by both in one command.
THEOREM TerminalStays == Spec => TerminalIsForever
<1> DEFINE Stays ==
        \A id \in (DOMAIN tasks) \cap (DOMAIN tasks') : \A k \in DOMAIN tasks[id].fields :
            LET v == tasks[id].fields[k]
            IN  Terminal(k, v) => Value(tasks'[id].fields, k) = v
<1>1. LawfulTasks /\ LawfulTasks' /\ [Next]_tasks => [Stays]_tasks
  BY TerminalStep
<1>2. Spec => []LawfulTasks
  BY LawfulInit, LawfulStep, PTL DEF Spec
<1>3. Spec => [][Stays]_tasks
  BY <1>1, <1>2, PTL DEF Spec
<1> QED BY <1>3 DEF TerminalIsForever

----------------------------------------------------------------------------

UnambiguousTasks == AllTasks(tasks) /\ OneBlockerOneParent

LEMMA UnambiguousInit == Init => UnambiguousTasks
BY LawfulInit, GenesisAssumption DEF Init, LawfulTasks, UnambiguousTasks, OneBlockerOneParent

LEMMA UnambiguousStep == UnambiguousTasks /\ [Next]_tasks => UnambiguousTasks'
<1> SUFFICES ASSUME UnambiguousTasks, [Next]_tasks PROVE UnambiguousTasks'
  OBVIOUS
<1>1. CASE Next
  <2>1. AllTasks(tasks') /\ Unambiguous(tasks')
    BY <1>1, CommitIsVetted, CommitKeepsUnambiguous DEF UnambiguousTasks, OneBlockerOneParent
  <2> QED BY <2>1 DEF UnambiguousTasks, OneBlockerOneParent, AllTasks, Unambiguous, EdgesOf
<1>2. CASE UNCHANGED tasks
  BY <1>2 DEF UnambiguousTasks, OneBlockerOneParent, AllTasks, Unambiguous, EdgesOf
<1> QED BY <1>1, <1>2

\* No accepted command gives two tasks a second blocking relationship in the same
\* direction or a task a second parent, for any relationship types and commands of
\* any number of edges: checking a command's edges one after the other, each against
\* what is stored and those before it, is enough.
THEOREM OneBlockerOneParentAlways == Spec => []OneBlockerOneParent
<1>1. UnambiguousTasks => OneBlockerOneParent
  BY DEF UnambiguousTasks
<1> QED BY <1>1, UnambiguousInit, UnambiguousStep, PTL DEF Spec

----------------------------------------------------------------------------

AllMeaningful == \A c \in Commands : c.cmd \in Writers => Meaningful(c)

FormedAll == AllTasks(tasks) /\ FormedTasks(tasks)

LEMMA FormedInit == Init => FormedAll
<1> SUFFICES ASSUME Init PROVE FormedAll
  OBVIOUS
<1>1. IsSeq(Genesis)
  BY GenesisAssumption DEF IsSeq
<1>2. IsEvents(Genesis) /\ FormedEvents(Genesis)
  BY <1>1, SeqBasics, GenesisAssumption, ValuesAreFormed DEF IsEvents, FormedEvents
<1>3. AllTasks(<< >>) /\ FormedTasks(<< >>)
  BY DEF AllTasks, FormedTasks
<1> QED BY <1>2, <1>3, MaterializeKeepsTasks, MaterializeKeepsFormed DEF Init, FormedAll

LEMMA FormedStep ==
    ASSUME AllMeaningful
    PROVE  FormedAll /\ [Next]_tasks => FormedAll'
<1> SUFFICES ASSUME FormedAll, [Next]_tasks PROVE FormedAll'
  OBVIOUS
<1>1. CASE Next
  <2>1. PICK c \in Commands : c.cmd \in Writers /\ Commit(c)
    BY <1>1 DEF Next
  <2>2. PICK past : /\ Build(c, tasks, past).out # << >>
                    /\ tasks' = Materialize(tasks, Stamped(Build(c, tasks, past).out))
    BY <2>1 DEF Commit
  <2>3. PICK r : r = Build(c, tasks, past)
    OBVIOUS
  <2>4. tasks' = Outcome(tasks, r) /\ r.out # << >>
    BY <2>2, <2>3 DEF Outcome
  <2>5. AllTasks(tasks') /\ FormedTasks(tasks')
    BY <2>1, <2>3, <2>4, BuildCounts DEF FormedAll, AllMeaningful
  <2> QED BY <2>5 DEF FormedAll, AllTasks, FormedTasks, Formed
<1>2. CASE UNCHANGED tasks
  BY <1>2 DEF FormedAll, AllTasks, FormedTasks, Formed
<1> QED BY <1>1, <1>2

\* Each event a command would log changes a field or an edge, or makes or deletes a
\* task, for any schemas and commands, as long as what is appended says something and
\* an edge is named once: the log holds no event that replay would not miss, and no
\* command reports a write that changed nothing.
THEOREM NothingLoggedInVain ==
    ASSUME AllMeaningful
    PROVE  Spec => []EveryLoggedEventCounts
<1>1. FormedAll => EveryLoggedEventCounts
  <2> SUFFICES ASSUME FormedAll, NEW c \in Commands, c.cmd \in Writers
               PROVE  EachCounts(tasks, Stamped(Build(c, tasks, FieldNames).out))
    BY DEF EveryLoggedEventCounts
  <2>1. PICK r : r = Build(c, tasks, FieldNames)
    OBVIOUS
  <2>2. Counting(tasks, r)
    BY <2>1, BuildCounts DEF AllMeaningful, FormedAll
  <2> QED BY <2>1, <2>2 DEF Counting
<1>2. FormedAll /\ [Next]_tasks => FormedAll'
  BY FormedStep
<1> QED BY <1>1, <1>2, FormedInit, PTL DEF Spec
----------------------------------------------------------------------------
(* What a reader is told.                                                  *)

\* A sequence of members of a set.
From(s, S) == IsSeq(s) /\ \A i \in 1..Len(s) : s[i] \in S

LEMMA FromConcat ==
    ASSUME NEW S, NEW s, From(s, S), NEW t, From(t, S)
    PROVE  From(s \o t, S)
<1> DEFINE u == s \o t
<1>1. /\ IsSeq(u) /\ Len(u) = Len(s) + Len(t)
      /\ \A i \in 1..Len(s) : u[i] = s[i]
      /\ \A i \in 1..Len(t) : u[Len(s) + i] = t[i]
  BY SeqConcat DEF From
<1>2. Len(s) \in Nat /\ Len(t) \in Nat
  BY SeqBasics DEF From
<1> HIDE DEF u
<1>3. ASSUME NEW i \in 1..Len(u) PROVE u[i] \in S
  <2>1. CASE i \in 1..Len(s)
    BY <1>1, <2>1 DEF From
  <2>2. CASE i \notin 1..Len(s)
    <3>1. i - Len(s) \in 1..Len(t) /\ Len(s) + (i - Len(s)) = i
      BY <1>1, <1>2, <2>2
    <3>2. u[i] = t[i - Len(s)]
      BY <1>1, <3>1
    <3> QED BY <3>1, <3>2 DEF From
  <2> QED BY <2>1, <2>2
<1>4. From(u, S)
  BY <1>1, <1>3 DEF From
<1> QED BY <1>4 DEF u

\* A draft of a command is about a task it names, and adds an edge that it names.
IsDraftOf(d, c) ==
    /\ d.id \in Named(c)
    /\ d.op = "AddEdge" => c.cmd = "link" /\ \E j \in DOMAIN c.edges : d.payload = c.edges[j].payload

LEMMA CommandNames ==
    ASSUME NEW c, IsCommand(c), c.cmd \in Writers, NEW state, NEW past,
           Build(c, state, past).out # << >>
    PROVE  \E drafts :
               /\ IsEvents(drafts) /\ Build(c, state, past) = VetEvents(drafts, state)
               /\ \A i \in 1..Len(drafts) : IsDraftOf(drafts[i], c)
<1> DEFINE b == Build(c, state, past)
<1>1. b # Refused
  BY DEF Refused, Vetting
<1>2. CASE c.cmd \in {"create", "delete"}
  <2>1. PICK d : b = VetEvents(<< d >>, state) /\ d.op \in {"Create", "Delete"} /\ d.id = c.id
    <3>1. CASE c.cmd = "create"
      <4> DEFINE d == CreateDraft(c.id, c.payload)
      <4>1. d.op = "Create" /\ d.id = c.id
        BY DEF CreateDraft, Draft
      <4>2. b = VetEvents(<< d >>, state)
        BY <1>1, <3>1 DEF Build
      <4> QED BY <4>1, <4>2
    <3>2. CASE c.cmd = "delete"
      <4> DEFINE d == Draft("Delete", c.id, << >>)
      <4>1. d.op = "Delete" /\ d.id = c.id
        BY DEF Draft
      <4>2. b = VetEvents(<< d >>, state)
        BY <1>1, <3>2 DEF Build
      <4> QED BY <4>1, <4>2
    <3> QED BY <1>2, <3>1, <3>2
  <2>2. IsEvents(<< d >>)
    BY <2>1, OneEvent DEF EventOps
  <2>3. IsDraftOf(d, c)
    BY <1>2, <2>1 DEF IsDraftOf, Named
  <2>4. \A i \in 1..Len(<< d >>) : IsDraftOf(<< d >>[i], c)
    BY <2>3, OneDraft
  <2> HIDE DEF b
  <2> QED BY <2>1, <2>2, <2>4 DEF b
<1>3. CASE c.cmd = "update"
  <2> DEFINE drafts == BuildFieldEvents(c.id, FieldsOf(state, c.id), c.ops)
             Some(op, payload) ==
                 IF DOMAIN payload = {} THEN << >> ELSE << Draft(op, c.id, payload) >>
             Ops == {"Update", "Append", "Add", "Remove"}
  <2>1. \E v, w, x, y : drafts = Some("Update", v) \o Some("Append", w)
                                     \o Some("Add", x) \o Some("Remove", y)
    BY DEF BuildFieldEvents
  <2>2. PICK v, w, x, y : drafts = Some("Update", v) \o Some("Append", w)
                                       \o Some("Add", x) \o Some("Remove", y)
    BY <2>1
  <2> DEFINE S == {Draft(op, c.id, payload) : op \in Ops, payload \in {v, w, x, y}}
  <2>3. ASSUME NEW op \in Ops, NEW payload \in {v, w, x, y}
        PROVE  From(Some(op, payload), S)
    <3>1. Draft(op, c.id, payload) \in S
      OBVIOUS
    <3> HIDE DEF S
    <3>2. IsSeq(<< Draft(op, c.id, payload) >>)
      <4>1. << Draft(op, c.id, payload) >> \in Seq(S)
        BY <3>1
      <4> QED BY <4>1 DEF IsSeq
    <3>3. From(<< Draft(op, c.id, payload) >>, S)
      BY <3>1, <3>2, OneDraft DEF From
    <3>4. From(<< >>, S)
      BY SeqEmpty DEF From
    <3> QED BY <3>3, <3>4
  <2>4. \A d \in S : d.id = c.id /\ d.op \in Ops
    BY DEF Draft
  <2>5. b = VetEvents(drafts, state)
    BY <1>1, <1>3 DEF Build
  <2>6. /\ From(Some("Update", v), S) /\ From(Some("Append", w), S)
        /\ From(Some("Add", x), S) /\ From(Some("Remove", y), S)
    BY <2>3
  <2> HIDE DEF S, Some, drafts
  <2>7. From(drafts, S)
    BY <2>2, <2>6, FromConcat
  <2>8. \A i \in 1..Len(drafts) : drafts[i].id = c.id /\ drafts[i].op \in Ops
    BY <2>4, <2>7 DEF From
  <2>9. IsEvents(drafts)
    BY <2>7, <2>8 DEF From, IsEvents, EventOps
  <2>10. \A i \in 1..Len(drafts) : IsDraftOf(drafts[i], c)
    BY <1>3, <2>8 DEF IsDraftOf, Named
  <2> QED BY <2>5, <2>9, <2>10
<1>4. CASE c.cmd \in {"link", "unlink"}
  <2>1. c.edges \in Seq({c.edges[i] : i \in DOMAIN c.edges})
        /\ \A i \in DOMAIN c.edges :
              c.edges[i].op = IF c.cmd = "link" THEN "AddEdge" ELSE "RemoveEdge"
    BY <1>4 DEF IsCommand
  <2>2. IsSeq(c.edges)
    BY <2>1 DEF IsSeq
  <2>3. DOMAIN c.edges = 1..Len(c.edges)
    BY <2>2, SeqBasics
  <2>4. IsEvents(c.edges)
    BY <2>1, <2>2, <2>3 DEF IsEvents, EventOps
  <2>5. b = VetEvents(c.edges, state)
    BY <1>1, <1>4 DEF Build
  <2>6. \A i \in 1..Len(c.edges) : IsDraftOf(c.edges[i], c)
    BY <1>4, <2>1, <2>3 DEF IsDraftOf, Named
  <2> QED BY <2>4, <2>5, <2>6
<1> QED BY <1>2, <1>3, <1>4 DEF Writers

\* Finitely many tasks of known ids, and edges that mean something.
Readable == IsStored(tasks) /\ Linked(tasks) /\ DOMAIN tasks \subseteq Ids

LEMMA ReadableInit == Init => Readable
<1> SUFFICES ASSUME Init PROVE Readable
  OBVIOUS
<1>1. IsSeq(Genesis)
  BY GenesisAssumption DEF IsSeq
<1>2. IsEvents(Genesis) /\ DOMAIN Genesis = 1..Len(Genesis) /\ Len(Genesis) \in Nat
  BY <1>1, SeqBasics, GenesisAssumption DEF IsEvents
<1>3. IsStored(<< >>)
  BY FS_EmptySet DEF IsStored, AllTasks
<1>4. IsStored(tasks)
  BY <1>2, <1>3, MaterializeKeepsStored DEF Init
<1>5. Linked(tasks)
  BY EdgesAssumption DEF Init
<1>6. ASSUME NEW id \in DOMAIN tasks PROVE id \in Ids
  <2>1. CASE \E i \in 1..Len(Genesis) : Genesis[i].id = id
    BY <1>2, <2>1 DEF Ids
  <2>2. CASE \A i \in 1..Len(Genesis) : Genesis[i].id # id
    <3>1. PICK start : start = SubSeq(Genesis, 1, 0)
      OBVIOUS
    <3>2. 0 \in 0..Len(Genesis)
      BY <1>2
    <3>3. IsSeq(start) /\ Len(start) = 0
      BY <1>1, <3>1, <3>2, SeqPrefix
    <3>4. start = << >>
      BY <3>3, SeqEmpty, SameElements
    <3>5. Materialize(<< >>, start) = << >>
      BY <3>4, MaterializeEmpty
    <3>6. id \in DOMAIN << >>
      BY <1>1, <1>6, <2>2, <3>1, <3>2, <3>5, UnnamedStay DEF Init
    <3> QED BY <3>6
  <2> QED BY <2>1, <2>2
<1> QED BY <1>4, <1>5, <1>6 DEF Readable

LEMMA ReadableStep == Readable /\ [Next]_tasks => Readable'
<1> SUFFICES ASSUME Readable, [Next]_tasks PROVE Readable'
  OBVIOUS
<1>1. CASE Next
  <2>1. PICK c \in Commands : c.cmd \in Writers /\ Commit(c)
    BY <1>1 DEF Next
  <2>2. PICK past : /\ Build(c, tasks, past).out # << >>
                    /\ tasks' = Materialize(tasks, Stamped(Build(c, tasks, past).out))
    BY <2>1 DEF Commit
  <2>3. PICK drafts : /\ IsEvents(drafts) /\ Build(c, tasks, past) = VetEvents(drafts, tasks)
                      /\ \A i \in 1..Len(drafts) : IsDraftOf(drafts[i], c)
    BY <2>1, <2>2, CommandsAssumption, CommandNames
  <2>4. PICK r : r = VetEvents(drafts, tasks) /\ r.out # << >> /\ tasks' = Outcome(tasks, r)
    BY <2>2, <2>3 DEF Outcome
  <2>5. r.ok
    <3>1. PICK v : r = Vetted(tasks, v)
      BY <2>3, <2>4, VetEventsIsRun DEF IsEvents
    <3> QED BY <2>4, <3>1 DEF Vetted, Refused, Vetting
  <2>6. AllTasks(tasks)
    BY DEF Readable, IsStored
  <2>7. IsEvents(r.out)
    BY <2>3, <2>4, <2>5, <2>6, BatchIsPreviewed DEF Previews
  <2>8. IsEvents(Stamped(r.out))
    <3>1. IsSeq(r.out) /\ \A i \in 1..Len(r.out) : r.out[i].op \in EventOps
      BY <2>7 DEF IsEvents
    <3>2. /\ IsSeq(Stamped(r.out)) /\ Len(Stamped(r.out)) = Len(r.out)
          /\ \A i \in 1..Len(r.out) : Stamped(r.out)[i] = Stamp(r.out[i])
      BY <3>1, StampedSeq
    <3>3. \A d : Stamp(d).op = d.op
      BY DEF Stamp
    <3> QED BY <3>1, <3>2, <3>3 DEF IsEvents
  <2>9. IsStored(tasks')
    BY <2>4, <2>8, MaterializeKeepsStored DEF Readable, Outcome
  <2>10. Sourced(tasks, tasks', drafts, Len(drafts))
    BY <2>3, <2>4, <2>5, <2>6, BatchIsSourced
  <2>11. ASSUME NEW id \in DOMAIN tasks' PROVE id \in Ids
    <3>1. \A j \in 1..Len(drafts) : drafts[j].id \in Ids
      BY <2>1, <2>3 DEF IsDraftOf, Ids
    <3> QED BY <2>10, <3>1 DEF Sourced, Readable
  <2>12. ASSUME NEW id \in DOMAIN tasks', NEW e \in tasks'[id].edges
         PROVE  e.rel \in DOMAIN InverseName /\ e.target # id
    <3>1. CASE id \in DOMAIN tasks /\ e \in tasks[id].edges
      BY <3>1 DEF Readable, Linked
    <3>2. ASSUME NEW j \in 1..Len(drafts), drafts[j].op = "AddEdge", drafts[j].payload = e
          PROVE  e.rel \in DOMAIN InverseName
      BY <2>1, <2>3, <3>2, EdgesAssumption DEF IsDraftOf
    <3> QED BY <2>10, <3>1, <3>2 DEF Sourced
  <2> QED BY <2>9, <2>11, <2>12 DEF Readable, Linked, IsStored, AllTasks
<1>2. CASE UNCHANGED tasks
  BY <1>2 DEF Readable, Linked, IsStored, AllTasks
<1> QED BY <1>1, <1>2

----------------------------------------------------------------------------

\* What a read substitutes and adds leaves the tasks, their edges and who is done alone,
\* when no type declares a default for the status.
SameGraph(s, t) ==
    /\ DOMAIN s = DOMAIN t
    /\ \A id \in DOMAIN t : s[id].edges = t[id].edges /\ (IsDone(s[id].fields) <=> IsDone(t[id].fields))

LEMMA OverAt ==
    ASSUME NEW f, NEW g, NEW k
    PROVE  /\ k \in DOMAIN Over(f, g) <=> k \in DOMAIN f \cup DOMAIN g
           /\ k \in DOMAIN f => Over(f, g)[k] = f[k]
           /\ k \in DOMAIN g /\ k \notin DOMAIN f => Over(f, g)[k] = g[k]
           /\ k \notin DOMAIN f => Value(Over(f, g), k) = Value(g, k)
BY DEF Over, Value

LEMMA TimeNames ==
    ASSUME NEW t, NEW name \in DOMAIN TimeFields(t)
    PROVE  name \notin {StatusKey, TypeKey} /\ IsComputed(name)
<1>1. PICK w \in DOMAIN TimeColumns : TimeColumns[w] = name /\ name # ""
  BY DEF TimeFields
<1> QED BY <1>1, NamesAssumption DEF IsComputed

LEMMA DeclaredOf ==
    ASSUME NEW type, NEW k \in DOMAIN Declared(type)
    PROVE  type \in DOMAIN TaskTypes /\ Declared(type) = TaskTypes[type].fields
BY DEF Declared

\* A default is substituted for a declared field that has one.
LEMMA SubstitutedAt ==
    ASSUME NEW fields, NEW k,
           \A type \in DOMAIN TaskTypes :
               k \in DOMAIN TaskTypes[type].fields =>
                   \/ TaskTypes[type].fields[k].default = Null
                   \/ Value(fields, TypeKey) # type
                   \/ k \in DOMAIN fields /\ MatchesSchema(fields[k], TaskTypes[type].fields[k])
    PROVE  LET read == SubstituteSchemaDefaults(fields)
           IN  /\ k \in DOMAIN read <=> k \in DOMAIN fields
               /\ k \in DOMAIN fields => read[k] = fields[k]
               /\ Value(read, k) = Value(fields, k)
<1> DEFINE type  == Value(fields, TypeKey)
           decl  == Declared(type)
           wrong == {j \in DOMAIN decl :
                        /\ decl[j].default # Null
                        /\ j \in DOMAIN fields => ~ MatchesSchema(fields[j], decl[j])}
           f == [j \in wrong |-> decl[j].default]
<1>1. k \notin wrong
  <2> SUFFICES ASSUME k \in DOMAIN decl
               PROVE  \/ decl[k].default = Null
                      \/ k \in DOMAIN fields /\ MatchesSchema(fields[k], decl[k])
    OBVIOUS
  <2>1. type \in DOMAIN TaskTypes /\ decl = TaskTypes[type].fields
    BY DeclaredOf
  <2> QED BY <2>1
<1>2. SubstituteSchemaDefaults(fields) = Over(f, fields)
  BY DEF SubstituteSchemaDefaults
<1>3. k \notin DOMAIN f
  BY <1>1
<1> HIDE DEF f
<1> QED BY <1>2, <1>3, OverAt DEF Value

LEMMA ReadAt ==
    ASSUME NEW state, AllTasks(state), NEW id \in DOMAIN state
    PROVE  /\ DOMAIN Read(state) = DOMAIN state
           /\ Read(state)[id].edges = state[id].edges
           /\ Read(state)[id].fields =
                 Over(TimeFields(state[id]), SubstituteSchemaDefaults(state[id].fields))
           /\ IsTask(Read(state)[id])
BY DEF Read, AllTasks, IsTask

LEMMA ReadSameGraph ==
    ASSUME HasNoDefault(StatusKey), NEW state, AllTasks(state)
    PROVE  SameGraph(Read(state), state) /\ AllTasks(Read(state))
<1>1. ASSUME NEW id \in DOMAIN state
      PROVE  IsDone(Read(state)[id].fields) <=> IsDone(state[id].fields)
  <2> DEFINE fields == state[id].fields
             read   == SubstituteSchemaDefaults(fields)
  <2>1. Value(read, StatusKey) = Value(fields, StatusKey)
    BY SubstitutedAt DEF HasNoDefault
  <2>2. StatusKey \notin DOMAIN TimeFields(state[id])
    BY TimeNames
  <2>3. Value(Over(TimeFields(state[id]), read), StatusKey) = Value(read, StatusKey)
    BY <2>2, OverAt
  <2> QED BY <2>1, <2>3, ReadAt DEF IsDone
<1>2. DOMAIN Read(state) = DOMAIN state
  BY DEF Read
<1> QED BY <1>1, <1>2, ReadAt DEF SameGraph, AllTasks

\* A list that names no graph column has none.
LEMMA InjectedSameGraph ==
    ASSUME NEW state, AllTasks(state)
    PROVE  SameGraph(InjectComputedColumns(state, {}), state)
<1> DEFINE s == InjectComputedColumns(state, {})
<1>1. s = [id \in DOMAIN state |->
              [state[id] EXCEPT !.fields = Over(<< >>, Over(<< >>, @))]]
  BY DEF InjectComputedColumns
<1> HIDE DEF s
<1>2. ASSUME NEW id \in DOMAIN state
      PROVE  s[id].edges = state[id].edges /\ (IsDone(s[id].fields) <=> IsDone(state[id].fields))
  <2>1. /\ s[id].edges = state[id].edges
        /\ s[id].fields = Over(<< >>, Over(<< >>, state[id].fields))
    BY <1>1 DEF AllTasks, IsTask
  <2>2. StatusKey \notin DOMAIN << >>
    OBVIOUS
  <2>3. Value(s[id].fields, StatusKey) = Value(state[id].fields, StatusKey)
    BY <2>1, <2>2, OverAt
  <2> QED BY <2>1, <2>3 DEF IsDone
<1> QED BY <1>1, <1>2 DEF SameGraph, s

LEMMA SameReady ==
    ASSUME NEW s, NEW t, SameGraph(s, t)
    PROVE  /\ OpenTasks(s) = OpenTasks(t)
           /\ \A id \in DOMAIN t : /\ BlockerTargets(s, id) = BlockerTargets(t, id)
                                   /\ IsReady(s, id) <=> IsReady(t, id)
           /\ ValidateAndSort(s) = ValidateAndSort(t)
<1>1. OpenTasks(s) = OpenTasks(t)
  BY DEF SameGraph, OpenTasks
<1>2. \A id \in DOMAIN t : BlockerTargets(s, id) = BlockerTargets(t, id)
  BY DEF SameGraph, BlockerTargets, BlockerEdges
<1>3. \A id \in DOMAIN t : IsReady(s, id) <=> IsReady(t, id)
  BY <1>1, <1>2 DEF SameGraph, IsReady
<1>4. Prereqs(s) = Prereqs(t) /\ DOMAIN s = DOMAIN t
  BY <1>2 DEF SameGraph, Prereqs
<1>5. ValidateAndSort(s) = ValidateAndSort(t)
  BY <1>4 DEF ValidateAndSort, TopologicalOrders
<1> QED BY <1>1, <1>2, <1>3, <1>5

\* Without cycles the ready tasks in their order are the tasks that are ready.
LEMMA ReadyAreListed ==
    ASSUME NEW state, IsFiniteSet(DOMAIN state), ValidateAndSort(state) # {}, NEW id
    PROVE  id \in UNION {Range(order) : order \in ReadyTasks(state)}
               <=> id \in DOMAIN state /\ IsReady(state, id)
<1> DEFINE S == DOMAIN state
           orders == ValidateAndSort(state)
           good == {x \in S : IsReady(state, x)}
<1>1. ReadyTasks(state) = {Picked(order, {i \in DOMAIN order : order[i] \in good}) : order \in orders}
  <2>1. ASSUME NEW order \in orders
        PROVE  {i \in DOMAIN order : IsReady(state, order[i])}
                   = {i \in DOMAIN order : order[i] \in good}
    <3>1. order \in SetToSeqs(S)
      BY <2>1 DEF ValidateAndSort, TopologicalOrders
    <3>2. \A i \in DOMAIN order : order[i] \in S
      BY <3>1, OrderHasAll, SeqBasics
    <3> QED BY <3>2
  <2> QED BY <2>1 DEF ReadyTasks
<1>2. orders \subseteq SetToSeqs(S)
  BY DEF ValidateAndSort, TopologicalOrders
<1>0. IsFiniteSet(S)
  OBVIOUS
<1> HIDE DEF orders, S, good
<1>3. PICK s : s = PicksOf(orders, good)
  OBVIOUS
<1>4. /\ id \in UNION {Range(p) : p \in s} => id \in S /\ id \in good
      /\ id \in S /\ id \in good /\ orders # {} => id \in UNION {Range(p) : p \in s}
  BY <1>0, <1>2, <1>3, OrderedPicks
<1>5. s = ReadyTasks(state)
  BY <1>1, <1>3 DEF PicksOf
<1>6. id \in S /\ id \in good <=> id \in DOMAIN state /\ IsReady(state, id)
  BY DEF S, good
<1>7. orders # {}
  BY DEF orders
<1> QED BY <1>4, <1>5, <1>6, <1>7

\* Sorted by nothing but their ids, the tasks are all there.
LEMMA ArrangedHasAll ==
    ASSUME NEW state, NEW ids, IsFiniteSet(ids), ids \subseteq Ids
    PROVE  Range(Arranged(state, << >>, ids)) = ids
<1>1. PICK rank : rank = StringRank
  OBVIOUS
<1>2. /\ \A x \in ids : rank[x] \in Nat
      /\ \A x, y \in ids : rank[x] = rank[y] => x = y
  BY <1>1, GraphAssumption, OrderAssumption
<1>3. PICK best \in SetToSeqs(ids) : \A i, j \in DOMAIN best : i < j => rank[best[i]] < rank[best[j]]
  BY <1>2, RankedOrder
<1>4. ASSUME NEW a, NEW b PROVE rank[a] < rank[b] => TaskPrecedes(state, << >>, a, b)
  <2>1. DOMAIN << >> = {}
    OBVIOUS
  <2> QED BY <1>1, <2>1 DEF TaskPrecedes
<1> DEFINE Good(order) ==
        \A i, j \in DOMAIN order : i < j => TaskPrecedes(state, << >>, order[i], order[j])
           order == Arranged(state, << >>, ids)
<1>5. Good(best)
  BY <1>3, <1>4
<1>6. order = CHOOSE p \in SetToSeqs(ids) : Good(p)
  BY DEF Arranged
<1> HIDE DEF Good, order
<1>7. order \in SetToSeqs(ids)
  BY <1>3, <1>5, <1>6
<1>8. /\ \A i \in 1..Len(order) : order[i] \in ids
      /\ \A x \in ids : \E i \in 1..Len(order) : order[i] = x
      /\ DOMAIN order = 1..Len(order)
  BY <1>7, OrderHasAll, SeqBasics
<1>9. Range(order) = ids
  BY <1>8 DEF Range
<1> QED BY <1>9 DEF order

\* Of a map without cycles list --ready gives the tasks that are ready, and of another
\* none.
LEMMA ListIsReady ==
    ASSUME Readable, HasNoDefault(StatusKey), NEW l, l = ListTasks(tasks, << >>, WhatIsReady)
    PROVE  /\ l.ok <=> Acyclic
           /\ l.ok => Range(l.tasks) = {id \in DOMAIN tasks : IsReady(tasks, id)}
<1> DEFINE state == InjectComputedColumns(Read(tasks), {})
           found == FilterIds(state, WhatIsReady)
           ready == {id \in DOMAIN tasks : IsReady(tasks, id)}
<1>1. AllTasks(tasks) /\ IsFiniteSet(DOMAIN tasks) /\ DOMAIN tasks \subseteq Ids
  BY DEF Readable, IsStored
<1>2. SameGraph(state, tasks)
  <2>1. SameGraph(Read(tasks), tasks) /\ AllTasks(Read(tasks))
    BY <1>1, ReadSameGraph
  <2>2. SameGraph(state, Read(tasks))
    BY <2>1, InjectedSameGraph
  <2> HIDE DEF state
  <2> QED BY <2>1, <2>2 DEF SameGraph
<1>3. /\ DOMAIN state = DOMAIN tasks
      /\ \A id \in DOMAIN tasks : IsReady(state, id) <=> IsReady(tasks, id)
      /\ ValidateAndSort(state) = ValidateAndSort(tasks)
  BY <1>2, SameReady DEF SameGraph
<1>4. l = IF found.ok
          THEN [ok |-> TRUE, warnings |-> {}, tasks |-> Arranged(state, << >>, found.ids)]
          ELSE NoList
  <2>1. Materialize(tasks, << >>) = tasks
    BY MaterializeEmpty
  <2>2. DOMAIN << >> = {}
    OBVIOUS
  <2> DEFINE q == WhatIsReady
             keys  == {q.sort[k].column : k \in DOMAIN q.sort}
             vocab == Vocabulary(tasks, << >>)
             odd   == {k \in keys : ~ Accepts(vocab, k, "sort")}
  <2>3. /\ q.criteria = {} /\ q.ids = {} /\ q.columns = {} /\ q.sort = << >>
        /\ q.requested /\ ~ q.reverse
    BY DEF WhatIsReady
  <2>4. keys = {} /\ odd = {} /\ q.columns \cup keys \cup {c.field : c \in q.criteria} = {}
    BY <2>2, <2>3
  <2> HIDE DEF state, found, keys, vocab, odd, q
  <2>5. l = IF /\ \A c \in q.criteria : Accepts(vocab, c.field, "filter")
               /\ \A c \in q.columns \ keys : Accepts(vocab, c, "list")
               /\ q.requested => odd = {}
               /\ q.ids \subseteq DOMAIN tasks \cup KnownIds(tasks, << >>)
               /\ found.ok
            THEN [ok |-> TRUE, warnings |-> odd,
                  tasks |-> IF q.reverse THEN Reverse(Arranged(state, q.sort, found.ids))
                            ELSE Arranged(state, q.sort, found.ids)]
            ELSE NoList
    BY <2>1, <2>4 DEF ListTasks, state, found, keys, vocab, odd, q
  <2> QED BY <2>3, <2>4, <2>5
<1>5. /\ found.ok <=> Acyclic
      /\ Acyclic => found.ids = ready
  <2>1. WhatIsReady.ready /\ ~ WhatIsReady.open /\ CompileCriteria(WhatIsReady) = {}
    BY DEF WhatIsReady, CompileCriteria
  <2> DEFINE all == UNION {Range(order) : order \in ReadyTasks(state)}
  <2> HIDE DEF state
  <2>2. found.ok <=> ReadyTasks(state) # {}
    BY <2>1 DEF FilterIds
  <2>3. ReadyTasks(state) # {} <=> ValidateAndSort(state) # {}
    BY DEF ReadyTasks
  <2>4. found.ids = {id \in DOMAIN state : id \in all}
    BY <2>1 DEF FilterIds
  <2>5. ASSUME Acyclic, NEW id PROVE id \in all <=> id \in DOMAIN state /\ IsReady(state, id)
    BY <1>1, <1>3, <2>5, ReadyAreListed DEF Acyclic
  <2> HIDE DEF all, found
  <2>6. Acyclic => found.ids = ready
    BY <1>3, <2>4, <2>5
  <2> QED BY <1>3, <2>2, <2>3, <2>6 DEF Acyclic
<1>6. Range(Arranged(state, << >>, ready)) = ready
  <2>1. IsFiniteSet(ready)
    <3>1. ready \in SUBSET DOMAIN tasks
      OBVIOUS
    <3> QED BY <1>1, <3>1, FS_Subset
  <2>2. ready \subseteq Ids
    BY <1>1
  <2> QED BY <2>1, <2>2, ArrangedHasAll
<1> HIDE DEF state, found, ready
<1>7. (l.ok <=> Acyclic) /\ (l.ok => Range(l.tasks) = ready)
  BY <1>4, <1>5, <1>6 DEF NoList
<1> QED BY <1>7 DEF ready

\* The tasks are the ready, the blocked and the closed ones.
LEMMA OpenIsReadyOrBlocked ==
    ASSUME NEW state, IsFiniteSet(DOMAIN state), NEW s, s = StatusSummary(state)
    PROVE  s.ready + s.blocked + s.closed = s.total
<1> DEFINE all     == DOMAIN state
           open    == OpenTasks(state)
           ready   == {id \in all : IsReady(state, id)}
           blocked == {id \in open : BlockerTargets(state, id) \cap open # {}}
           closed  == all \ open
<1>1. /\ s.ready = Cardinality(ready) /\ s.blocked = Cardinality(blocked)
      /\ s.closed = Cardinality(closed) /\ s.total = Cardinality(all)
  BY DEF StatusSummary
<1>2. ready \cup blocked = open /\ ready \cap blocked = {}
  BY DEF IsReady, OpenTasks
<1>3. open \cup closed = all /\ open \cap closed = {}
  BY DEF OpenTasks
<1> HIDE DEF ready, blocked, closed, open
<1>4. \A part \in SUBSET all : IsFiniteSet(part) /\ Cardinality(part) \in Nat
  BY FS_Subset, FS_CardinalityType
<1>5. {ready, blocked, open, closed} \subseteq SUBSET all
  BY <1>2, <1>3
<1>6. /\ IsFiniteSet(ready) /\ IsFiniteSet(blocked) /\ IsFiniteSet(open) /\ IsFiniteSet(closed)
      /\ Cardinality(ready) \in Nat /\ Cardinality(blocked) \in Nat
      /\ Cardinality(open) \in Nat /\ Cardinality(closed) \in Nat
  BY <1>4, <1>5
<1>7. Cardinality({}) = 0
  BY FS_EmptySet
<1>8. Cardinality(open) = Cardinality(ready) + Cardinality(blocked) - 0
  <2>1. Cardinality(ready \cup blocked)
            = Cardinality(ready) + Cardinality(blocked) - Cardinality(ready \cap blocked)
    BY <1>6, FS_Union
  <2> QED BY <1>2, <1>7, <2>1
<1>9. Cardinality(all) = Cardinality(open) + Cardinality(closed) - 0
  <2>1. Cardinality(open \cup closed)
            = Cardinality(open) + Cardinality(closed) - Cardinality(open \cap closed)
    BY <1>6, FS_Union
  <2> QED BY <1>3, <1>7, <2>1
<1> HIDE DEF all
<1> QED BY <1>1, <1>6, <1>8, <1>9

\* Whatever the commands and the graph they make, status, list --ready and the filter
\* of history count the same open tasks as ready, and every other open task as blocked;
\* a cycle anywhere makes the first two fail, and nothing else does.  A declared default
\* of the status would part them: a read substitutes it, history does not.
THEOREM OpenWorkAgrees ==
    ASSUME HasNoDefault(StatusKey)
    PROVE  Spec => []OpenWorkIsReadyOrBlocked
<1>1. Readable => OpenWorkIsReadyOrBlocked
  <2> SUFFICES ASSUME Readable PROVE OpenWorkIsReadyOrBlocked
    OBVIOUS
  <2>1. AllTasks(tasks) /\ IsFiniteSet(DOMAIN tasks)
    BY DEF Readable, IsStored
  <2>2. PICK s : s = StatusSummary(Read(tasks))
    OBVIOUS
  <2>3. PICK l : l = ListTasks(tasks, << >>, WhatIsReady)
    OBVIOUS
  <2>4. SameGraph(Read(tasks), tasks)
    BY <2>1, ReadSameGraph
  <2>5. s.ready + s.blocked + s.closed = s.total
    <3>1. IsFiniteSet(DOMAIN Read(tasks))
      BY <2>1, <2>4 DEF SameGraph
    <3> QED BY <2>2, <3>1, OpenIsReadyOrBlocked
  <2>6. s.ok = Acyclic
    <3>1. s.ok = (ValidateAndSort(Read(tasks)) # {})
      BY <2>2 DEF StatusSummary
    <3>2. ValidateAndSort(Read(tasks)) = ValidateAndSort(tasks)
      BY <2>4, SameReady
    <3> QED BY <3>1, <3>2 DEF Acyclic
  <2>7. (l.ok <=> Acyclic) /\ l.ok \in BOOLEAN
    <3>1. l.ok <=> Acyclic
      BY <2>3, ListIsReady
    <3>2. l = NoList \/ \E t, w : l = [ok |-> TRUE, tasks |-> t, warnings |-> w]
      BY <2>3 DEF ListTasks
    <3>3. CASE l = NoList
      BY <3>1, <3>3 DEF NoList
    <3>4. ASSUME NEW t, NEW w, l = [ok |-> TRUE, tasks |-> t, warnings |-> w]
          PROVE  l.ok \in BOOLEAN
      BY <3>4
    <3> QED BY <3>1, <3>2, <3>3, <3>4
  <2>8. l.ok => Range(l.tasks) = {id \in DOMAIN tasks : FilterMatches(tasks, id, WhatIsReady)}
    <3>1. WhatIsReady.ready /\ ~ WhatIsReady.open /\ CompileCriteria(WhatIsReady) = {}
      BY DEF WhatIsReady, CompileCriteria
    <3>2. \A id \in DOMAIN tasks : FilterMatches(tasks, id, WhatIsReady) <=> IsReady(tasks, id)
      BY <3>1 DEF FilterMatches
    <3> QED BY <2>3, <3>2, ListIsReady
  <2>9. l.ok = Acyclic
    BY <2>7 DEF Acyclic
  <2> QED BY <2>2, <2>3, <2>5, <2>6, <2>8, <2>9 DEF OpenWorkIsReadyOrBlocked
<1> QED BY <1>1, ReadableInit, ReadableStep, PTL DEF Spec

----------------------------------------------------------------------------

\* A set of pairs, by its first halves.
LEMMA PairsByFirst ==
    ASSUME NEW pairs, \A x \in pairs : x = << x[1], x[2] >>, NEW a
    PROVE  /\ \A b : b \in {x[2] : x \in {y \in pairs : y[1] = a}} <=> << a, b >> \in pairs
           /\ a \in {x[1] : x \in pairs} <=> \E b : << a, b >> \in pairs
<1>1. \A b : << a, b >>[1] = a /\ << a, b >>[2] = b
  OBVIOUS
<1>2. ASSUME NEW b PROVE b \in {x[2] : x \in {y \in pairs : y[1] = a}} <=> << a, b >> \in pairs
  BY <1>1
<1>3. a \in {x[1] : x \in pairs} <=> \E b : << a, b >> \in pairs
  BY <1>1
<1> QED BY <1>2, <1>3

\* The other tasks with an edge to a task that has this inverse name.
Inverses(state, id, name) ==
    {o \in DOMAIN state \ {id} : \E e \in state[o].edges :
        /\ e.target = id /\ e.rel \in DOMAIN InverseName
        /\ InverseName[e.rel] # "" /\ InverseName[e.rel] = name}

\* What show adds to a task under a name are these tasks.
LEMMA InverseEdgesAre ==
    ASSUME NEW state, NEW id, NEW name
    PROVE  LET added == InverseEdges(state, id)
           IN  (IF name \in DOMAIN added THEN added[name] ELSE {}) = Inverses(state, id, name)
<1> DEFINE surfaced(o) == {f \in state[o].edges :
                              f.target = id /\ f.rel \in DOMAIN InverseName /\ InverseName[f.rel] # ""}
           pairs == UNION {{<< InverseName[e.rel], o >> : e \in surfaced(o)} : o \in DOMAIN state \ {id}}
           under(n) == {x[2] : x \in {y \in pairs : y[1] = n}}
           from == Inverses(state, id, name)
<1>1. InverseEdges(state, id) = [n \in {x[1] : x \in pairs} |-> under(n)]
  BY DEF InverseEdges
<1>2. ASSUME NEW o PROVE o \in from <=> o \in DOMAIN state \ {id} /\ \E e \in surfaced(o) : InverseName[e.rel] = name
  BY DEF Inverses
<1> HIDE DEF surfaced, from
<1>3. ASSUME NEW x PROVE x \in pairs <=>
          \E o \in DOMAIN state \ {id} : \E e \in surfaced(o) : x = << InverseName[e.rel], o >>
  OBVIOUS
<1> HIDE DEF pairs
<1>4. ASSUME NEW x \in pairs PROVE x = << x[1], x[2] >>
  <2>1. PICK o \in DOMAIN state \ {id} : \E e \in surfaced(o) : x = << InverseName[e.rel], o >>
    BY <1>3
  <2>2. PICK e \in surfaced(o) : x = << InverseName[e.rel], o >>
    BY <2>1
  <2> QED BY <2>2
<1>5. ASSUME NEW o PROVE << name, o >> \in pairs <=> o \in from
  <2>1. \A n, p : << name, o >> = << n, p >> <=> name = n /\ o = p
    OBVIOUS
  <2> QED BY <1>2, <1>3, <2>1
<1>6. /\ \A o : o \in under(name) <=> << name, o >> \in pairs
      /\ name \in {x[1] : x \in pairs} <=> \E o : << name, o >> \in pairs
  BY <1>4, PairsByFirst
<1>7. under(name) = from
  BY <1>5, <1>6
<1> HIDE DEF under
<1>8. CASE name \in {x[1] : x \in pairs}
  BY <1>1, <1>7, <1>8 DEF from
<1>9. CASE name \notin {x[1] : x \in pairs}
  <2>1. from = {}
    BY <1>5, <1>6, <1>9
  <2> QED BY <1>1, <1>9, <2>1 DEF from
<1> QED BY <1>8, <1>9

\* What `list blocks=X` finds of a task is what show adds to it.
LEMMA ShowIsFilter == Readable => ShowAgreesWithFilter
<1> SUFFICES ASSUME Readable, NEW id \in DOMAIN tasks,
                    NEW name \in {InverseName[rel] : rel \in DOMAIN InverseName} \ {""}
             PROVE  LET added == InverseEdges(tasks, id)
                        own   == {e.target : e \in {f \in tasks[id].edges : f.rel = name}}
                    IN  FieldValues(tasks, id, name) =
                            {Word(o) : o \in own \cup (IF name \in DOMAIN added THEN added[name] ELSE {})}
  BY DEF ShowAgreesWithFilter
<1> DEFINE owners == InverseOwners(tasks, id, name)
           own == {e.target : e \in {f \in tasks[id].edges : f.rel = name}}
           forward == {Word(e.target) : e \in {f \in tasks[id].edges : f.rel = name}}
           added == InverseEdges(tasks, id)
<1>1. id \notin owners
  BY DEF Readable, Linked, InverseOwners
<1>2. (IF name \in DOMAIN added THEN added[name] ELSE {}) = owners
  <2>1. owners = Inverses(tasks, id, name)
    BY <1>1 DEF InverseOwners, Inverses
  <2> HIDE DEF owners
  <2> QED BY <2>1, InverseEdgesAre
<1>3. name \notin DOMAIN InverseName => own = {}
  BY DEF Readable, Linked
<1>4. FieldValues(tasks, id, name) =
          (IF name \in DOMAIN InverseName THEN forward ELSE {}) \cup {Word(o) : o \in owners}
  <2>1. name \notin {"id", "deps"} /\ IsInverseName(name)
    BY NamesAssumption DEF RelationshipNames, IsInverseName
  <2> DEFINE fields == RenameToDisplay(tasks[id].fields)
             named  == (IF name \in DOMAIN InverseName THEN forward ELSE {}) \cup {Word(o) : o \in owners}
  <2>2. FieldValues(tasks, id, name) =
            CASE name = "id"   -> {Word(id)}
              [] name = "deps" -> {Word(e.target) : e \in tasks[id].edges}
              [] name \in DOMAIN InverseName \/ IsInverseName(name) -> named
              [] OTHER -> IF name \notin DOMAIN fields THEN {}
                          ELSE IF IsSet(fields[name]) THEN fields[name][2] ELSE {fields[name]}
    BY DEF FieldValues
  <2> HIDE DEF fields, named
  <2> DEFINE ids == {Word(id)}
             deps == {Word(e.target) : e \in tasks[id].edges}
             held == IF name \notin DOMAIN fields THEN {}
                     ELSE IF IsSet(fields[name]) THEN fields[name][2] ELSE {fields[name]}
  <2>3. PICK values : values = FieldValues(tasks, id, name)
    OBVIOUS
  <2>4. PICK inverse \in BOOLEAN : inverse <=> name \in DOMAIN InverseName \/ IsInverseName(name)
    OBVIOUS
  <2>5. values = CASE name = "id"   -> ids
                   [] name = "deps" -> deps
                   [] inverse -> named
                   [] OTHER -> held
    BY <2>2, <2>3, <2>4
  <2> HIDE DEF ids, deps, held
  <2>6. name # "id" /\ name # "deps" /\ inverse
    BY <2>1, <2>4
  <2>7. values = named
    BY <2>5, <2>6
  <2> QED BY <2>3, <2>7 DEF named
<1>5. forward = {Word(o) : o \in own}
  OBVIOUS
<1> HIDE DEF owners, own, forward, added
<1>6. FieldValues(tasks, id, name) =
          {Word(o) : o \in own \cup (IF name \in DOMAIN added THEN added[name] ELSE {})}
  <2>1. FieldValues(tasks, id, name) = {Word(o) : o \in own} \cup {Word(o) : o \in owners}
    BY <1>3, <1>4, <1>5
  <2> QED BY <1>2, <2>1
<1> QED BY <1>6 DEF own, added

\* A lawful task that lacks no default under a stored name shows under it what it stores.
LEMMA ReadShows ==
    ASSUME NEW state, AllTasks(state), NEW id \in DOMAIN state, Lawful(state[id].fields),
           NEW name, ~ IsComputed(name), ~ LacksDefault(state[id].fields, name)
    PROVE  LET seen == RenameToDisplay(Read(state)[id].fields)
               own  == RenameToDisplay(state[id].fields)
           IN  /\ name \in DOMAIN seen <=> name \in DOMAIN own
               /\ name \in DOMAIN own => seen[name] = own[name]
<1> DEFINE fields == state[id].fields
           read   == SubstituteSchemaDefaults(fields)
           times  == TimeFields(state[id])
           all    == Over(times, read)
<1>1. Read(state)[id].fields = all
  BY ReadAt
<1>2. ASSUME NEW k, DisplayName(k) = name
      PROVE  /\ k \in DOMAIN all <=> k \in DOMAIN fields
             /\ k \in DOMAIN fields => all[k] = fields[k]
  <2>1. k \notin DOMAIN times
    <3>1. ASSUME k \in DOMAIN times PROVE FALSE
      <4>1. k \notin {StatusKey, TypeKey} /\ IsComputed(k)
        BY <3>1, TimeNames
      <4>2. DisplayName(k) = k
        BY <4>1 DEF DisplayName
      <4> QED BY <1>2, <4>1, <4>2
    <3> QED BY <3>1
  <2>2. ASSUME NEW type \in DOMAIN TaskTypes, k \in DOMAIN TaskTypes[type].fields,
               TaskTypes[type].fields[k].default # Null, Value(fields, TypeKey) = type
        PROVE  k \in DOMAIN fields /\ MatchesSchema(fields[k], TaskTypes[type].fields[k])
    <3>1. Declared(type) = TaskTypes[type].fields
      BY DEF Declared
    <3>2. k \in DOMAIN fields
      BY <1>2, <2>2, <3>1 DEF LacksDefault
    <3>3. TypeKey \in DOMAIN fields
      <4>1. type # Null
        BY TypesAssumption DEF IsText, Null
      <4> QED BY <2>2, <4>1 DEF Value
    <3>4. Conforms(fields)
      BY <3>3 DEF Lawful
    <3> QED BY <2>2, <3>1, <3>2, <3>4 DEF Conforms
  <2>3. (k \in DOMAIN read <=> k \in DOMAIN fields) /\ (k \in DOMAIN fields => read[k] = fields[k])
    BY <2>2, SubstitutedAt
  <2> QED BY <2>1, <2>3, OverAt
<1> HIDE DEF all
<1>3. name \in DOMAIN RenameToDisplay(all) <=> name \in DOMAIN RenameToDisplay(fields)
  <2>1. \A f : name \in DOMAIN RenameToDisplay(f) <=> \E k \in DOMAIN f : DisplayName(k) = name
    BY DEF RenameToDisplay
  <2> QED BY <1>2, <2>1
<1>4. ASSUME name \in DOMAIN RenameToDisplay(fields)
      PROVE  RenameToDisplay(all)[name] = RenameToDisplay(fields)[name]
  <2>1. \A f : name \in DOMAIN RenameToDisplay(f) =>
            RenameToDisplay(f)[name] = f[StoredName(f, name)]
    BY DEF RenameToDisplay
  <2>2. PICK k \in DOMAIN fields : DisplayName(k) = name
    BY <1>4 DEF RenameToDisplay
  <2>3. StoredName(all, name) = StoredName(fields, name)
    <3>1. name = StatusField => (StatusKey \in DOMAIN all <=> StatusKey \in DOMAIN fields)
      <4>1. DisplayName(StatusKey) = StatusField
        BY DEF DisplayName, StatusKey, TypeKey
      <4> QED BY <1>2, <4>1
    <3>2. name = TypeField => (TypeKey \in DOMAIN all <=> TypeKey \in DOMAIN fields)
      <4>1. DisplayName(TypeKey) = TypeField
        BY DEF DisplayName, StatusKey, TypeKey
      <4> QED BY <1>2, <4>1
    <3> QED BY <3>1, <3>2, NamesAssumption DEF StoredName
  <2>4. PICK j : j = StoredName(fields, name)
    OBVIOUS
  <2>5. j \in DOMAIN fields /\ DisplayName(j) = name
    BY <2>2, <2>4, NamesAssumption DEF StoredName, DisplayName, StatusKey, TypeKey
  <2> QED BY <1>2, <1>3, <1>4, <2>1, <2>3, <2>4, <2>5
<1> QED BY <1>1, <1>3, <1>4

\* A guard tests what list would.
LEMMA GuardIsList == Readable /\ EveryTaskConforms => GuardMeansList
<1> SUFFICES ASSUME Readable, EveryTaskConforms, NEW id \in DOMAIN tasks, NEW c \in Guards,
                    ~ LacksDefault(tasks[id].fields, c.field)
             PROVE  UnmetCriteria(tasks, id, {c}) = {} <=> Matches(Read(tasks), id, c)
  BY DEF GuardMeansList
<1>1. PICK seen : seen = Read(tasks)
  OBVIOUS
<1>2. PICK name : name = c.field
  OBVIOUS
<1>3. AllTasks(tasks) /\ Lawful(tasks[id].fields) /\ ~ IsComputed(name)
  BY <1>2, GuardsAssumption DEF Readable, IsStored, EveryTaskConforms
<1>4. DOMAIN seen = DOMAIN tasks /\ \A o \in DOMAIN tasks : seen[o].edges = tasks[o].edges
  BY <1>1, <1>3, ReadAt
<1>5. InverseOwners(seen, id, name) = InverseOwners(tasks, id, name)
  BY <1>4 DEF InverseOwners
<1>6. /\ name \in DOMAIN RenameToDisplay(seen[id].fields)
             <=> name \in DOMAIN RenameToDisplay(tasks[id].fields)
      /\ name \in DOMAIN RenameToDisplay(tasks[id].fields) =>
             RenameToDisplay(seen[id].fields)[name] = RenameToDisplay(tasks[id].fields)[name]
  BY <1>1, <1>2, <1>3, ReadShows
<1>7. FieldValues(seen, id, name) = FieldValues(tasks, id, name)
  BY <1>4, <1>5, <1>6 DEF FieldValues
<1>8. Matches(seen, id, c) <=> Matches(tasks, id, c)
  BY <1>2, <1>7 DEF Matches
<1>9. UnmetCriteria(tasks, id, {c}) = {} <=> Matches(tasks, id, c)
  BY DEF UnmetCriteria
<1> QED BY <1>1, <1>8, <1>9

\* Whatever the schemas, the relationships and the conditions: what list finds under an
\* inverse name is what show adds under it, and a condition of --if lets a write through
\* exactly where list finds the task, unless the task has yet to be given a default.
\* It rests on every task being lawful, which only the write gate ensures: of a stored
\* value that breaks its schema list would see the default, and a guard the value.
THEOREM ReadsAreOneGrammar == Spec => []OneGrammar
<1>1. Readable /\ LawfulTasks => OneGrammar
  BY ShowIsFilter, GuardIsList DEF LawfulTasks, OneGrammar
<1> QED BY <1>1, ReadableInit, ReadableStep, LawfulInit, LawfulStep, PTL DEF Spec

----------------------------------------------------------------------------
(* Walks.                                                                  *)

\* What the edges of a graph lead to from a node.
Leads(adj, x) ==
    {y \in DOMAIN adj : \A S \in SUBSET DOMAIN adj :
        (\A z \in S \cup {x} : adj[z] \subseteq S) => y \in S}

IsWalk(walk, n, first, adj) ==
    walk = [k \in 0..n |-> IF k = 0 THEN first ELSE Visited(walk[k - 1], adj)]

\* The function it is defined by exists.
LEMMA WalkExists ==
    ASSUME NEW first, NEW adj, NEW n \in Nat
    PROVE  \E walk : IsWalk(walk, n, first, adj)
<1> DEFINE G == {m \in 0..n : \E walk : IsWalk(walk, m, first, adj)}
<1>1. 0 \in G
  <2> DEFINE walk == [k \in 0..0 |-> first]
  <2>1. IsWalk(walk, 0, first, adj)
    BY DEF IsWalk
  <2> QED BY <2>1
<1>2. ASSUME NEW m \in 1..n, m - 1 \in G PROVE m \in G
  <2>1. PICK g : IsWalk(g, m - 1, first, adj)
    BY <1>2
  <2> DEFINE last == Visited(g[m - 1], adj)
             walk == [k \in 0..m |-> IF k = m THEN last ELSE g[k]]
             next == [k \in 0..m |-> IF k = 0 THEN first ELSE Visited(walk[k - 1], adj)]
  <2>2. ASSUME NEW k \in 0..m PROVE walk[k] = next[k]
    <3>1. CASE k = m
      <4>1. m - 1 \in 0..m /\ m - 1 # m /\ m # 0
        OBVIOUS
      <4> QED BY <3>1, <4>1
    <3>2. CASE k # m
      <4>1. k \in 0..(m - 1) /\ (k # 0 => k - 1 \in 0..m /\ k - 1 # m)
        BY <3>2
      <4>2. g[k] = IF k = 0 THEN first ELSE Visited(g[k - 1], adj)
        BY <2>1, <4>1 DEF IsWalk
      <4> QED BY <3>2, <4>1, <4>2
    <3> QED BY <3>1, <3>2
  <2>3. walk = next
    BY <2>2
  <2>4. IsWalk(walk, m, first, adj)
    BY <2>3 DEF IsWalk
  <2> QED BY <2>4
<1> HIDE DEF G
<1>3. n \in G
  BY <1>1, <1>2, UpTo
<1> QED BY <1>3 DEF G

\* Where a walk can be: it goes on from what is on the stack.
Underway(w, start, known, adj) ==
    LET D == DOMAIN adj
    IN  /\ w.stack \subseteq D /\ known \subseteq w.seen
        /\ w.seen \subseteq Leads(adj, start) \cup known
        /\ w.stack \subseteq w.seen \cup {start}
        /\ \A y \in (w.seen \cup {start}) \ w.stack : adj[y] \subseteq w.seen

\* How many steps it has still to make at most.
StepsLeft(w, adj) == Cardinality(DOMAIN adj \ w.seen) + Cardinality(w.stack)

LEMMA LeadsOn ==
    ASSUME NEW adj, \A z \in DOMAIN adj : adj[z] \subseteq DOMAIN adj,
           NEW x \in DOMAIN adj, NEW y, y \in Leads(adj, x) \/ y = x
    PROVE  adj[y] \subseteq Leads(adj, x)
<1> SUFFICES ASSUME NEW z \in adj[y] PROVE z \in Leads(adj, x)
  OBVIOUS
<1>1. y \in DOMAIN adj
  BY DEF Leads
<1>2. z \in DOMAIN adj
  BY <1>1
<1>3. ASSUME NEW S \in SUBSET DOMAIN adj, \A u \in S \cup {x} : adj[u] \subseteq S
      PROVE  z \in S
  <2>1. y \in S \cup {x}
    BY <1>3 DEF Leads
  <2> QED BY <1>3, <2>1
<1> QED BY <1>2, <1>3 DEF Leads

\* A step of a walk.
LEMMA VisitedStep ==
    ASSUME NEW adj, IsFiniteSet(DOMAIN adj), \A z \in DOMAIN adj : adj[z] \subseteq DOMAIN adj,
           NEW start \in DOMAIN adj, NEW known \in SUBSET {start},
           NEW w, Underway(w, start, known, adj), w.stack # {},
           NEW v, v = Visited(w, adj)
    PROVE  Underway(v, start, known, adj) /\ StepsLeft(v, adj) < StepsLeft(w, adj)
<1> DEFINE D == DOMAIN adj
<1>1. PICK node \in w.stack : node = CHOOSE x \in w.stack : TRUE
  OBVIOUS
<1>2. PICK new : new = adj[node] \ w.seen
  OBVIOUS
<1>3. v = [stack |-> (w.stack \ {node}) \cup new, seen |-> w.seen \cup new]
  BY <1>1, <1>2 DEF Visited
<1>4. v.stack = (w.stack \ {node}) \cup new /\ v.seen = w.seen \cup new
  BY <1>3
<1>5. /\ w.stack \subseteq D /\ known \subseteq w.seen
      /\ w.seen \subseteq Leads(adj, start) \cup known
      /\ w.stack \subseteq w.seen \cup {start}
      /\ \A y \in (w.seen \cup {start}) \ w.stack : adj[y] \subseteq w.seen
  BY DEF Underway
<1>6. new \subseteq D /\ new \subseteq Leads(adj, start)
  <2>1. node \in Leads(adj, start) \/ node = start
    BY <1>5
  <2>2. adj[node] \subseteq Leads(adj, start)
    BY <2>1, LeadsOn
  <2> QED BY <1>2, <1>5, <2>2
<1>7. Underway(v, start, known, adj)
  <2>1. /\ v.stack \subseteq D /\ known \subseteq v.seen
        /\ v.seen \subseteq Leads(adj, start) \cup known
    BY <1>4, <1>5, <1>6
  <2>2. v.stack \subseteq v.seen \cup {start}
    BY <1>4, <1>5
  <2>3. ASSUME NEW y \in (v.seen \cup {start}) \ v.stack PROVE adj[y] \subseteq v.seen
    <3>1. y = node \/ y \in (w.seen \cup {start}) \ w.stack
      BY <1>4, <2>3
    <3> QED BY <1>2, <1>4, <1>5, <3>1
  <2> QED BY <2>1, <2>2, <2>3 DEF Underway
<1>8. StepsLeft(v, adj) < StepsLeft(w, adj)
  <2> DEFINE unseen == D \ w.seen
             still == D \ v.seen
             rest == w.stack \ {node}
  <2>1. IsFiniteSet(unseen) /\ IsFiniteSet(still) /\ IsFiniteSet(new) /\ IsFiniteSet(w.stack)
    <3>1. \A T \in SUBSET D : IsFiniteSet(T)
      BY FS_Subset
    <3> QED BY <1>5, <1>6, <3>1
  <2>2. still \cup new = unseen /\ still \cap new = {}
    BY <1>2, <1>4, <1>6
  <2>3. IsFiniteSet(rest) /\ Cardinality(rest) = Cardinality(w.stack) - 1
    BY <1>1, <2>1, FS_RemoveElement
  <2>4. PICK a, b, c, d, e : /\ a = Cardinality(unseen) /\ b = Cardinality(still)
                             /\ c = Cardinality(new) /\ d = Cardinality(w.stack)
                             /\ e = Cardinality(rest \cap new)
    OBVIOUS
  <2> HIDE DEF unseen, still, rest
  <2>5. a = b + c - 0
    <3>1. Cardinality(still \cup new)
              = Cardinality(still) + Cardinality(new) - Cardinality(still \cap new)
      BY <2>1, FS_Union
    <3>2. Cardinality({}) = 0
      BY FS_EmptySet
    <3> QED BY <2>2, <2>4, <3>1, <3>2
  <2>6. IsFiniteSet(rest \cap new)
    BY <2>1, FS_Subset
  <2>7. a \in Nat /\ b \in Nat /\ c \in Nat /\ d \in Nat /\ e \in Nat
    BY <2>1, <2>4, <2>6, FS_CardinalityType
  <2>8. Cardinality(rest \cup new) = d - 1 + c - e
    <3>1. Cardinality(rest \cup new)
              = Cardinality(rest) + Cardinality(new) - Cardinality(rest \cap new)
      BY <2>1, <2>3, FS_Union
    <3> QED BY <2>3, <2>4, <3>1
  <2>9. StepsLeft(w, adj) = a + d /\ StepsLeft(v, adj) = b + (d - 1 + c - e)
    BY <1>4, <2>4, <2>8 DEF StepsLeft, unseen, still, rest
  <2> QED BY <2>5, <2>7, <2>9
<1> QED BY <1>7, <1>8

\* A walk comes upon what the edges lead to.
LEMMA WalkedIsLeads ==
    ASSUME NEW adj, IsFiniteSet(DOMAIN adj), \A z \in DOMAIN adj : adj[z] \subseteq DOMAIN adj,
           NEW start \in DOMAIN adj, NEW known \in SUBSET {start}
    PROVE  Walked({start}, known, adj) = Leads(adj, start) \cup known
<1> DEFINE D == DOMAIN adj
           first == [stack |-> {start}, seen |-> known]
           all == Cardinality(D) + 1
           walk == CHOOSE f : IsWalk(f, all, first, adj)
<1>1. all \in Nat
  BY FS_CardinalityType
<1>2. IsWalk(walk, all, first, adj)
  BY <1>1, WalkExists
<1>3. Walked({start}, known, adj) = walk[all].seen
  BY DEF Walked, IsWalk
<1> HIDE DEF walk, all
<1> DEFINE G == {k \in 0..all : /\ Underway(walk[k], start, known, adj)
                                /\ walk[k].stack = {} \/ StepsLeft(walk[k], adj) <= all - k
                                /\ StepsLeft(walk[k], adj) \in Nat}
<1>4. 0 \in G
  <2>1. walk[0] = first /\ 0 \in 0..all
    BY <1>1, <1>2 DEF IsWalk
  <2>2. walk[0].stack = {start} /\ walk[0].seen = known
    BY <2>1
  <2>3. Underway(walk[0], start, known, adj)
    BY <2>2 DEF Underway
  <2>4. StepsLeft(walk[0], adj) \in Nat /\ StepsLeft(walk[0], adj) <= all - 0
    <3>1. Cardinality({start}) = 1
      BY FS_Singleton
    <3>2. PICK unseen : unseen = D \ known
      OBVIOUS
    <3>3. unseen \in SUBSET D
      BY <3>2
    <3>4. /\ Cardinality(unseen) \in Nat /\ Cardinality(D) \in Nat
          /\ Cardinality(unseen) <= Cardinality(D)
      BY <3>3, FS_Subset, FS_CardinalityType
    <3>5. StepsLeft(walk[0], adj) = Cardinality(unseen) + 1
      BY <2>2, <3>1, <3>2 DEF StepsLeft
    <3> QED BY <3>4, <3>5 DEF all
  <2> QED BY <1>1, <2>1, <2>3, <2>4
<1>5. ASSUME NEW k \in 1..all, k - 1 \in G PROVE k \in G
  <2>1. k \in 0..all /\ k # 0 /\ k \in Int
    BY <1>1
  <2>2. walk[k] = Visited(walk[k - 1], adj)
    BY <1>2, <2>1 DEF IsWalk
  <2>3. PICK w, v : w = walk[k - 1] /\ v = walk[k]
    OBVIOUS
  <2>4. /\ Underway(w, start, known, adj) /\ StepsLeft(w, adj) \in Nat
        /\ w.stack = {} \/ StepsLeft(w, adj) <= all - (k - 1)
    BY <1>5, <2>3
  <2>5. CASE w.stack = {}
    <3>1. v = w
      BY <2>2, <2>3, <2>5 DEF Visited
    <3> QED BY <2>1, <2>3, <2>4, <2>5, <3>1
  <2>6. CASE w.stack # {}
    <3>1. Underway(v, start, known, adj) /\ StepsLeft(v, adj) < StepsLeft(w, adj)
      BY <2>2, <2>3, <2>4, <2>6, VisitedStep
    <3>2. StepsLeft(v, adj) \in Nat
      <4>1. IsFiniteSet(D \ v.seen) /\ IsFiniteSet(v.stack)
        BY <3>1, FS_Subset DEF Underway
      <4>2. Cardinality(D \ v.seen) \in Nat /\ Cardinality(v.stack) \in Nat
        BY <4>1, FS_CardinalityType
      <4> QED BY <4>2 DEF StepsLeft
    <3>3. StepsLeft(v, adj) <= all - k
      BY <1>1, <2>1, <2>4, <2>6, <3>1, <3>2
    <3> QED BY <2>1, <2>3, <3>1, <3>2, <3>3
  <2> QED BY <2>5, <2>6
<1> HIDE DEF G
<1>6. all \in G
  BY <1>1, <1>4, <1>5, UpTo
<1>7. PICK w : w = walk[all]
  OBVIOUS
<1>8. Underway(w, start, known, adj) /\ (w.stack = {} \/ StepsLeft(w, adj) <= 0)
  BY <1>1, <1>6, <1>7 DEF G
<1>9. w.stack = {}
  <2> SUFFICES ASSUME w.stack # {} PROVE FALSE
    OBVIOUS
  <2>1. IsFiniteSet(D \ w.seen) /\ IsFiniteSet(w.stack)
    BY <1>8, FS_Subset DEF Underway
  <2>2. Cardinality(D \ w.seen) \in Nat /\ Cardinality(w.stack) \in Nat
    BY <2>1, FS_CardinalityType
  <2>3. Cardinality(w.stack) # 0
    BY <2>1, FS_EmptySet
  <2> QED BY <1>8, <2>2, <2>3 DEF StepsLeft
<1>10. Leads(adj, start) \subseteq w.seen
  <2>1. w.seen \in SUBSET D /\ \A z \in w.seen \cup {start} : adj[z] \subseteq w.seen
    BY <1>8, <1>9 DEF Underway, Leads
  <2> QED BY <2>1 DEF Leads
<1> QED BY <1>3, <1>7, <1>8, <1>10 DEF Underway

LEMMA ReachIsLeads ==
    ASSUME NEW adj, IsFiniteSet(DOMAIN adj), \A z \in DOMAIN adj : adj[z] \subseteq DOMAIN adj,
           NEW start \in DOMAIN adj
    PROVE  Reach(start, adj) = Leads(adj, start)
<1>1. Walked({start}, {}, adj) = Leads(adj, start) \cup {}
  BY WalkedIsLeads
<1> QED BY <1>1 DEF Reach

\* What leads to a node leads to what the node leads to.
LEMMA LeadsThrough ==
    ASSUME NEW adj, \A z \in DOMAIN adj : adj[z] \subseteq DOMAIN adj,
           NEW x \in DOMAIN adj, NEW y \in Leads(adj, x)
    PROVE  Leads(adj, y) \subseteq Leads(adj, x)
<1>1. Leads(adj, x) \in SUBSET DOMAIN adj
  BY DEF Leads
<1>2. \A z \in Leads(adj, x) \cup {y} : adj[z] \subseteq Leads(adj, x)
  BY LeadsOn
<1>3. PICK S : S = Leads(adj, x)
  OBVIOUS
<1>4. Leads(adj, y) \subseteq S
  BY <1>1, <1>2, <1>3 DEF Leads
<1> QED BY <1>3, <1>4

\* The way to a node is one edge, or one edge and a way from there.
LEMMA LeadsSplit ==
    ASSUME NEW adj, \A z \in DOMAIN adj : adj[z] \subseteq DOMAIN adj,
           NEW x \in DOMAIN adj, NEW y \in Leads(adj, x)
    PROVE  y \in adj[x] \/ \E p \in adj[x] : y \in Leads(adj, p)
<1> DEFINE S == adj[x] \cup UNION {Leads(adj, p) : p \in adj[x]}
<1>1. S \in SUBSET DOMAIN adj
  BY DEF Leads
<1>2. ASSUME NEW z \in S \cup {x} PROVE adj[z] \subseteq S
  <2>1. CASE z = x
    BY <2>1
  <2>2. CASE z \in adj[x]
    <3>1. z \in DOMAIN adj
      BY <2>2
    <3>2. adj[z] \subseteq Leads(adj, z)
      BY <3>1, LeadsOn
    <3> QED BY <2>2, <3>2
  <2>3. ASSUME NEW p \in adj[x], z \in Leads(adj, p) PROVE adj[z] \subseteq S
    <3>1. p \in DOMAIN adj
      OBVIOUS
    <3>2. adj[z] \subseteq Leads(adj, p)
      BY <2>3, <3>1, LeadsOn
    <3> QED BY <3>2
  <2> QED BY <2>1, <2>2, <2>3
<1> HIDE DEF S
<1>3. y \in S
  BY <1>1, <1>2 DEF Leads
<1> QED BY <1>3 DEF S

\* Against the edges, what leads to a node is what the node leads to.
LEMMA LeadsBack ==
    ASSUME NEW adj, \A z \in DOMAIN adj : adj[z] \subseteq DOMAIN adj,
           NEW back, DOMAIN back = DOMAIN adj,
           \A x, y \in DOMAIN adj : y \in back[x] <=> x \in adj[y],
           \A z \in DOMAIN adj : back[z] \subseteq DOMAIN adj,
           NEW x \in DOMAIN adj, NEW y \in DOMAIN adj, y \notin Leads(back, x)
    PROVE  x \notin Leads(adj, y)
<1> DEFINE D == DOMAIN adj
           S == (D \ Leads(back, x)) \ {x}
<1>1. ASSUME NEW z \in S \cup {y} PROVE adj[z] \subseteq S
  <2> SUFFICES ASSUME NEW p \in adj[z], p \notin S PROVE FALSE
    OBVIOUS
  <2>1. z \in D /\ p \in D /\ z \notin Leads(back, x)
    OBVIOUS
  <2>2. p \in Leads(back, x) \/ p = x
    BY <2>1
  <2>3. z \in back[p]
    BY <2>1
  <2>4. back[p] \subseteq Leads(back, x)
    BY <2>2, LeadsOn
  <2> QED BY <2>1, <2>3, <2>4
<1>2. S \in SUBSET D /\ x \notin S
  OBVIOUS
<1> HIDE DEF S
<1> QED BY <1>1, <1>2 DEF Leads

\* The nodes of a graph can be put in an order in which edges lead back, unless some
\* node leads to itself.
LEMMA OrderedWithoutCycles ==
    ASSUME NEW adj, IsFiniteSet(DOMAIN adj), \A z \in DOMAIN adj : adj[z] \subseteq DOMAIN adj,
           \A x \in DOMAIN adj : x \notin Leads(adj, x)
    PROVE  \E order \in SetToSeqs(DOMAIN adj) :
               \A i, j \in DOMAIN order : order[i] \in adj[order[j]] => i < j
<1> DEFINE D == DOMAIN adj
           size == [x \in D |-> Cardinality(Leads(adj, x))]
<1>1. \A x \in D : IsFiniteSet(Leads(adj, x)) /\ Leads(adj, x) \subseteq D
  BY FS_Subset DEF Leads
<1>2. \A x \in D : size[x] \in Nat
  BY <1>1, FS_CardinalityType
<1>3. ASSUME NEW x \in D, NEW y \in adj[x] PROVE size[y] < size[x]
  <2>1. y \in D /\ y \in Leads(adj, x) /\ y \notin Leads(adj, y)
    BY LeadsOn
  <2>2. Leads(adj, y) \in SUBSET Leads(adj, x)
    BY <2>1, LeadsThrough
  <2>3. /\ Cardinality(Leads(adj, y)) <= Cardinality(Leads(adj, x))
        /\ Cardinality(Leads(adj, y)) # Cardinality(Leads(adj, x))
    BY <1>1, <2>1, <2>2, FS_Subset
  <2>4. size[y] = Cardinality(Leads(adj, y)) /\ size[x] = Cardinality(Leads(adj, x))
    BY <2>1
  <2> QED BY <1>2, <2>1, <2>3, <2>4
<1> HIDE DEF size
<1>4. PICK n, tie : n \in Nat /\ tie \in Bijection(1..n, D)
  BY FS_CardinalityType DEF ExistsBijection
<1>5. \A x \in D : \E i \in 1..n : tie[i] = x
  BY <1>4 DEF Bijection, Surjection
<1> DEFINE place == [x \in D |-> CHOOSE i \in 1..n : tie[i] = x]
<1>6. \A x \in D : place[x] \in 1..n /\ tie[place[x]] = x
  BY <1>5
<1> HIDE DEF place
<1>7. PICK before : before = {p \in D \X D : \/ size[p[1]] < size[p[2]]
                                             \/ size[p[1]] = size[p[2]] /\ place[p[1]] < place[p[2]]}
  OBVIOUS
<1>8. \A x, y \in D : <<x, y>> \in before <=> \/ size[x] < size[y]
                                              \/ size[x] = size[y] /\ place[x] < place[y]
  BY <1>7
<1>9. /\ \A x \in D : <<x, x>> \notin before
      /\ \A x, y, z \in D : <<x, y>> \in before /\ <<y, z>> \in before => <<x, z>> \in before
  BY <1>2, <1>6, <1>8
<1>10. ASSUME NEW x \in D, NEW y \in D, x # y PROVE <<x, y>> \in before \/ <<y, x>> \in before
  <2>1. place[x] # place[y]
    BY <1>6, <1>10
  <2>2. place[x] \in Nat /\ place[y] \in Nat /\ size[x] \in Nat /\ size[y] \in Nat
    BY <1>2, <1>6
  <2> QED BY <1>8, <2>1, <2>2
<1>11. PICK order \in SetToSeqs(D) :
           \A i, j \in DOMAIN order : i < j => <<order[i], order[j]>> \in before
  BY <1>9, <1>10, StrictOrder
<1>12. /\ DOMAIN order = 1..Len(order) /\ Len(order) \in Nat
       /\ \A i \in DOMAIN order : order[i] \in D
  BY OrderHasAll, SeqBasics
<1>13. ASSUME NEW i \in DOMAIN order, NEW j \in DOMAIN order, order[i] \in adj[order[j]]
       PROVE  i < j
  <2>1. size[order[i]] < size[order[j]]
    BY <1>3, <1>12, <1>13
  <2>2. size[order[i]] \in Nat /\ size[order[j]] \in Nat
    BY <1>2, <1>12
  <2>3. i # j
    BY <2>1, <2>2
  <2>4. ~ (j < i)
    <3>1. PICK x \in D, y \in D : x = order[i] /\ y = order[j]
      BY <1>12
    <3>2. <<y, x>> \notin before
      BY <1>8, <2>1, <2>2, <3>1
    <3> QED BY <1>11, <3>1, <3>2
  <2>5. i \in Nat /\ j \in Nat
    BY <1>12
  <2> QED BY <2>3, <2>4, <2>5
<1> QED BY <1>11, <1>13

\* And the other way round.
LEMMA OrderedHasNoCycles ==
    ASSUME NEW adj, IsFiniteSet(DOMAIN adj), \A z \in DOMAIN adj : adj[z] \subseteq DOMAIN adj,
           NEW order \in SetToSeqs(DOMAIN adj),
           \A i, j \in DOMAIN order : order[i] \in adj[order[j]] => i < j,
           NEW x \in DOMAIN adj
    PROVE  x \notin Leads(adj, x)
<1>1. /\ DOMAIN order = 1..Len(order) /\ Len(order) \in Nat
      /\ \A i \in DOMAIN order : order[i] \in DOMAIN adj
      /\ \A y \in DOMAIN adj : \E i \in DOMAIN order : order[i] = y
  BY OrderHasAll, SeqBasics
<1>2. \A i, j \in DOMAIN order : order[i] = order[j] => i = j
  BY <1>1 DEF SetToSeqs
<1>3. PICK k \in DOMAIN order : order[k] = x
  BY <1>1
<1>4. PICK S : S = {order[i] : i \in {j \in DOMAIN order : j < k}}
  OBVIOUS
<1>5. S \in SUBSET DOMAIN adj
  BY <1>1, <1>4
<1>6. x \notin S
  BY <1>1, <1>2, <1>3, <1>4
<1>7. ASSUME NEW z \in S \cup {x} PROVE adj[z] \subseteq S
  <2>1. PICK j \in DOMAIN order : order[j] = z /\ j <= k
    BY <1>1, <1>3, <1>4
  <2>2. ASSUME NEW y \in adj[z] PROVE y \in S
    <3>1. PICK i \in DOMAIN order : order[i] = y
      BY <1>1, <1>5
    <3>2. i < j
      BY <2>1, <3>1
    <3>3. i < k
      BY <1>1, <2>1, <3>2
    <3> QED BY <1>4, <3>1, <3>3
  <2> QED BY <2>2
<1> QED BY <1>5, <1>6, <1>7 DEF Leads

----------------------------------------------------------------------------
(* What a task needs.                                                      *)

\* The graph of the prerequisites.
LEMMA PrereqsGraph ==
    /\ DOMAIN Prereqs(tasks) = DOMAIN tasks
    /\ \A x \in DOMAIN tasks : /\ Prereqs(tasks)[x] \subseteq DOMAIN tasks
                               /\ Prereqs(tasks)[x] = BlockerTargets(tasks, x) \cap DOMAIN tasks
BY DEF Prereqs

LEMMA NeedsIsLeads ==
    ASSUME NEW id \in DOMAIN tasks
    PROVE  Needs(id) = Leads(Prereqs(tasks), id)
<1>1. PICK adj : adj = Prereqs(tasks)
  OBVIOUS
<1>2. /\ DOMAIN adj = DOMAIN tasks
      /\ \A x \in DOMAIN tasks : adj[x] = BlockerTargets(tasks, x) \cap DOMAIN tasks
  BY <1>1, PrereqsGraph
<1>3. ASSUME NEW S \in SUBSET DOMAIN tasks
      PROVE  (\A y \in S \cup {id} : BlockerTargets(tasks, y) \cap DOMAIN tasks \subseteq S)
                 <=> (\A y \in S \cup {id} : adj[y] \subseteq S)
  BY <1>2
<1>4. Needs(id) = Leads(adj, id)
  BY <1>2, <1>3 DEF Needs, Leads
<1> QED BY <1>1, <1>4

\* A cycle through a task goes through another one or is an edge to itself.
LEMMA CyclesAreRight ==
    ASSUME NEW D, D = DOMAIN tasks, IsFiniteSet(D)
    PROVE  CyclesAreReported
<1>1. PICK adj : adj = Prereqs(tasks)
  OBVIOUS
<1>2. DOMAIN adj = D /\ \A x \in D : adj[x] \subseteq D
  BY <1>1, PrereqsGraph
<1>3. PICK to : to = [x \in D |-> Reach(x, adj)]
  OBVIOUS
<1>4. \A x \in D : to[x] = Leads(adj, x) /\ Needs(x) = to[x] /\ to[x] \subseteq D
  <2> SUFFICES ASSUME NEW x \in D
               PROVE  to[x] = Leads(adj, x) /\ Needs(x) = to[x] /\ to[x] \subseteq D
    OBVIOUS
  <2>1. Reach(x, adj) = Leads(adj, x)
    BY <1>2, ReachIsLeads
  <2>2. Needs(x) = Leads(adj, x)
    BY <1>1, NeedsIsLeads
  <2>3. Leads(adj, x) \subseteq D
    BY <1>2 DEF Leads
  <2> QED BY <1>3, <2>1, <2>2, <2>3
<1> DEFINE Component(x) == {x} \cup {y \in to[x] : x \in to[y]}
           cycles == {Component(x) : x \in {y \in D : Component(y) # {y}}}
                         \cup {{x} : x \in {y \in D : y \in adj[y]}}
<1>5. DependencyCycles(tasks) = cycles
  BY <1>1, <1>3 DEF DependencyCycles
<1>6. ASSUME NEW x \in D, x \in to[x]
      PROVE  x \in UNION cycles
  <2>1. CASE x \in adj[x]
    <3>1. {x} \in cycles
      BY <2>1
    <3> HIDE DEF cycles
    <3> QED BY <3>1
  <2>2. CASE x \notin adj[x]
    <3>1. PICK p \in adj[x] : x \in Leads(adj, p)
      BY <1>2, <1>4, <1>6, <2>2, LeadsSplit
    <3>2. p \in D /\ p # x /\ x \in to[p]
      BY <1>2, <1>4, <2>2, <3>1
    <3>3. p \in to[x]
      BY <1>2, <1>4, <3>1, LeadsOn
    <3>4. p \in Component(x) /\ x \in Component(x)
      BY <3>2, <3>3
    <3> HIDE DEF Component
    <3>5. Component(x) \in cycles
      BY <3>2, <3>4
    <3> HIDE DEF cycles
    <3> QED BY <3>4, <3>5
  <2> QED BY <2>1, <2>2
<1>7. ASSUME NEW x \in UNION cycles
      PROVE  x \in D /\ x \in to[x]
  <2>1. CASE x \in D /\ x \in adj[x]
    <3>1. x \in Leads(adj, x)
      BY <1>2, <2>1, LeadsOn
    <3> QED BY <1>4, <2>1, <3>1
  <2>2. ASSUME NEW y \in D, Component(y) # {y}, x \in Component(y)
        PROVE  x \in D /\ x \in to[x]
    <3>1. PICK z : z \in to[y] /\ y \in to[z] /\ z # y
      BY <2>2
    <3>2. ASSUME NEW u \in to[y], y \in to[u] PROVE u \in D /\ u \in to[u] /\ y \in to[y]
      <4>1. u \in D
        BY <1>4
      <4>2. Leads(adj, u) \subseteq Leads(adj, y) /\ Leads(adj, y) \subseteq Leads(adj, u)
        BY <1>2, <1>4, <3>2, <4>1, LeadsThrough
      <4> QED BY <1>4, <3>2, <4>1, <4>2
    <3>3. x = y \/ (x \in to[y] /\ y \in to[x])
      BY <2>2
    <3> QED BY <2>2, <3>1, <3>2, <3>3
  <2>3. \/ x \in D /\ x \in adj[x]
        \/ \E y \in D : Component(y) # {y} /\ x \in Component(y)
    BY <1>7
  <2> HIDE DEF Component
  <2> QED BY <2>1, <2>2, <2>3
<1>8. UNION cycles = {x \in D : x \in Needs(x)}
  <2> HIDE DEF cycles
  <2> QED BY <1>4, <1>6, <1>7
<1>9. cycles = {} <=> \A x \in D : x \notin Leads(adj, x)
  <2>1. \A c \in cycles : c # {}
    OBVIOUS
  <2> HIDE DEF cycles
  <2>2. cycles = {} <=> UNION cycles = {}
    BY <2>1
  <2>3. UNION cycles = {} <=> \A x \in D : x \notin Leads(adj, x)
    BY <1>4, <1>8
  <2> QED BY <2>2, <2>3
<1>10. Acyclic <=> \A x \in D : x \notin Leads(adj, x)
  <2>1. Acyclic <=> \E order \in SetToSeqs(D) :
                        \A i, j \in DOMAIN order : order[i] \in adj[order[j]] => i < j
    BY <1>1 DEF Acyclic, ValidateAndSort, TopologicalOrders
  <2>2. ASSUME Acyclic PROVE \A x \in D : x \notin Leads(adj, x)
    BY <1>2, <2>1, <2>2, OrderedHasNoCycles
  <2>3. ASSUME \A x \in D : x \notin Leads(adj, x) PROVE Acyclic
    BY <1>2, <2>1, <2>3, OrderedWithoutCycles
  <2> QED BY <2>2, <2>3
<1> HIDE DEF cycles
<1> QED BY <1>5, <1>8, <1>9, <1>10 DEF CyclesAreReported

\* What a task unblocks is what needs it.
LEMMA CountsAreRight ==
    ASSUME NEW D, D = DOMAIN tasks, IsFiniteSet(D)
    PROVE  CountsAreTransitive
<1>1. PICK adj, back : adj = Prereqs(tasks) /\ back = Dependents(tasks)
  OBVIOUS
<1>2. DOMAIN adj = D /\ \A x \in D : adj[x] \subseteq D
  BY <1>1, PrereqsGraph
<1>3. /\ DOMAIN back = D /\ \A x \in D : back[x] \subseteq D
      /\ \A x, y \in D : y \in back[x] <=> x \in adj[y]
  BY <1>1, PrereqsGraph DEF Dependents
<1>4. PICK open : open = OpenTasks(tasks)
  OBVIOUS
<1>5. open \subseteq D
  BY <1>4 DEF OpenTasks
<1>6. ASSUME NEW id \in D
      PROVE  /\ ReachabilityCounts(tasks)[id].blocked_by = Cardinality(Needs(id) \cap open)
             /\ ReachabilityCounts(tasks)[id].unblocks = Cardinality({t \in open : id \in Needs(t)})
  <2>1. /\ ReachabilityCounts(tasks)[id].blocked_by = Cardinality(Reach(id, adj) \cap open)
        /\ ReachabilityCounts(tasks)[id].unblocks = Cardinality(Reach(id, back) \cap open)
    BY <1>1, <1>4 DEF ReachabilityCounts, ReachNotDone
  <2>2. Reach(id, adj) = Needs(id)
    BY <1>1, <1>2, ReachIsLeads, NeedsIsLeads
  <2>3. Reach(id, back) = Leads(back, id)
    BY <1>3, ReachIsLeads
  <2>4. ASSUME NEW t \in D PROVE t \in Leads(back, id) <=> id \in Leads(adj, t)
    <3>1. t \notin Leads(back, id) => id \notin Leads(adj, t)
      BY <1>2, <1>3, LeadsBack
    <3>2. \A x, y \in DOMAIN back : y \in adj[x] <=> x \in back[y]
      BY <1>3
    <3>3. id \notin Leads(adj, t) => t \notin Leads(back, id)
      BY <1>2, <1>3, <3>2, LeadsBack
    <3> QED BY <3>1, <3>3
  <2>5. Leads(back, id) \cap open = {t \in open : id \in Needs(t)}
    BY <1>1, <1>5, <2>4, NeedsIsLeads
  <2> QED BY <2>1, <2>2, <2>3, <2>5
<1> QED BY <1>4, <1>6 DEF CountsAreTransitive

\* For any number of tasks and any edges, dangling ones and cycles included: dep cycles
\* names exactly the tasks that need themselves, list --ready and dep plan fail exactly
\* then, and off the cycles the two counts are of what a task needs and what needs it.
THEOREM NeedsAlwaysReported == Spec => []NeedsAreReported
<1>1. Readable => NeedsAreReported
  BY CyclesAreRight, CountsAreRight DEF Readable, IsStored, NeedsAreReported
<1> QED BY <1>1, ReadableInit, ReadableStep, PTL DEF Spec

----------------------------------------------------------------------------
(* Depth.                                                                  *)

\* Every node has its own place in the order of strings.
Ranked(D) ==
    /\ D \subseteq DOMAIN StringRank
    /\ \A a, b \in D : StringRank[a] = StringRank[b] => a = b

IsGraph(adj) ==
    IsFiniteSet(DOMAIN adj) /\ \A x \in DOMAIN adj : adj[x] \subseteq DOMAIN adj

\* An order of the nodes in which edges lead back.
EdgesLeadBack(order, adj) ==
    /\ IsSeq(order) /\ \A i \in 1..Len(order) : order[i] \in DOMAIN adj
    /\ \A x \in DOMAIN adj : \E i \in 1..Len(order) : order[i] = x
    /\ \A i, j \in 1..Len(order) : order[i] = order[j] => i = j
    /\ \A i, j \in 1..Len(order) : order[i] \in adj[order[j]] => i < j

\* The one that comes first, deeper ones before less deep ones.
Foremost(c, cands, depth) ==
    /\ c \in cands
    /\ \A d \in cands \ {c} :
           depth[c] > depth[d] \/ (depth[c] = depth[d] /\ StringRank[c] < StringRank[d])

LEMMA DeepestIsForemost ==
    ASSUME NEW cands, IsFiniteSet(cands), cands # {}, Ranked(cands), NEW depth,
           \A c \in cands : depth[c] \in Nat
    PROVE  Foremost(Deepest(cands, depth), cands, depth)
<1> DEFINE ahead(c, d) ==
               depth[c] > depth[d] \/ (depth[c] = depth[d] /\ StringRank[c] < StringRank[d])
<1>1. \A c \in cands : StringRank[c] \in Nat
  BY GraphAssumption DEF Ranked
<1>2. PICK before : before = {p \in cands \X cands : ahead(p[1], p[2])}
  OBVIOUS
<1>3. \A c, d \in cands : <<c, d>> \in before <=> ahead(c, d)
  BY <1>2
<1>4. /\ \A x \in cands : <<x, x>> \notin before
      /\ \A x, y, z \in cands : <<x, y>> \in before /\ <<y, z>> \in before => <<x, z>> \in before
      /\ \A x, y \in cands : x # y => <<x, y>> \in before \/ <<y, x>> \in before
  BY <1>1, <1>3 DEF Ranked
<1>5. PICK order \in SetToSeqs(cands) :
          \A i, j \in DOMAIN order : i < j => <<order[i], order[j]>> \in before
  BY <1>4, StrictOrder
<1>6. /\ IsSeq(order) /\ \A i \in 1..Len(order) : order[i] \in cands
      /\ \A x \in cands : \E i \in 1..Len(order) : order[i] = x
  BY <1>5, OrderHasAll
<1>7. DOMAIN order = 1..Len(order) /\ Len(order) \in Nat
  BY <1>6, SeqBasics
<1>8. 1 \in 1..Len(order) /\ order[1] \in cands
  BY <1>6, <1>7
<1>9. ASSUME NEW d \in cands \ {order[1]} PROVE ahead(order[1], d)
  <2>1. PICK i \in 1..Len(order) : order[i] = d
    BY <1>6
  <2>2. 1 < i
    BY <1>7, <1>9, <2>1
  <2>3. <<order[1], d>> \in before
    BY <1>5, <1>7, <1>8, <2>1, <2>2
  <2> QED BY <1>3, <1>8, <2>3
<1>10. \E c \in cands : \A d \in cands \ {c} : ahead(c, d)
  BY <1>8, <1>9
<1> QED BY <1>10 DEF Deepest, Foremost

LEMMA ForemostIsOne ==
    ASSUME NEW cands, Ranked(cands), NEW depth, \A c \in cands : depth[c] \in Nat,
           NEW c, Foremost(c, cands, depth), NEW d, Foremost(d, cands, depth)
    PROVE  c = d
<1>1. \A x \in cands : StringRank[x] \in Nat
  BY GraphAssumption DEF Ranked
<1> QED BY <1>1 DEF Foremost

\* Which is the deepest depends on how deep the candidates are.
LEMMA SameDeepest ==
    ASSUME NEW cands, IsFiniteSet(cands), cands # {}, Ranked(cands), NEW depth, NEW other,
           \A c \in cands : depth[c] \in Nat /\ other[c] = depth[c]
    PROVE  Deepest(cands, depth) = Deepest(cands, other)
<1>1. Foremost(Deepest(cands, depth), cands, depth)
  BY DeepestIsForemost
<1>2. Foremost(Deepest(cands, other), cands, other)
  BY DeepestIsForemost
<1>3. Foremost(Deepest(cands, other), cands, depth)
  BY <1>2 DEF Foremost
<1> QED BY <1>1, <1>3, ForemostIsOne

\* One deeper than the deepest prerequisite.
DepthAt(depth, x, adj) ==
    IF adj[x] = {} THEN 1 ELSE 1 + depth[Deepest(adj[x], depth)]

LEMMA SameDepthAt ==
    ASSUME NEW adj, IsGraph(adj), Ranked(DOMAIN adj), NEW x \in DOMAIN adj, NEW depth, NEW other,
           \A y \in adj[x] : depth[y] \in Nat /\ other[y] = depth[y]
    PROVE  /\ DepthAt(depth, x, adj) = DepthAt(other, x, adj)
           /\ DepthAt(depth, x, adj) \in Nat \ {0}
           /\ \A y \in adj[x] : depth[y] < DepthAt(depth, x, adj)
           /\ adj[x] # {} => \E y \in adj[x] : DepthAt(depth, x, adj) = 1 + depth[y]
<1>1. CASE adj[x] = {}
  BY <1>1 DEF DepthAt
<1>2. CASE adj[x] # {}
  <2>1. PICK cands : cands = adj[x]
    OBVIOUS
  <2>2. IsFiniteSet(cands) /\ Ranked(cands) /\ cands # {}
    BY <1>2, <2>1, FS_Subset DEF IsGraph, Ranked
  <2>3. PICK c : c = Deepest(cands, depth)
    OBVIOUS
  <2>4. Foremost(c, cands, depth) /\ c = Deepest(cands, other)
    BY <2>1, <2>2, <2>3, DeepestIsForemost, SameDeepest
  <2>5. DepthAt(depth, x, adj) = 1 + depth[c] /\ DepthAt(other, x, adj) = 1 + other[c]
    BY <1>2, <2>1, <2>3, <2>4 DEF DepthAt
  <2>6. c \in adj[x] /\ depth[c] \in Nat /\ other[c] = depth[c]
    BY <2>1, <2>4 DEF Foremost
  <2>7. ASSUME NEW y \in adj[x] PROVE depth[y] <= depth[c]
    BY <2>1, <2>4, <2>6, <2>7 DEF Foremost
  <2> QED BY <2>5, <2>6, <2>7
<1> QED BY <1>1, <1>2

IsDepth(depth, adj) ==
    /\ DOMAIN depth = DOMAIN adj /\ depth = [x \in DOMAIN depth |-> depth[x]]
    /\ \A x \in DOMAIN adj : depth[x] \in Nat \ {0} /\ depth[x] = DepthAt(depth, x, adj)

MeasuredTo(f, n, order, adj) ==
    f = [k \in 0..n |-> IF k = 0 THEN << >> ELSE Measured(f[k - 1], order[k], adj)]

LEMMA MeasureExists ==
    ASSUME NEW order, NEW adj, NEW n \in Nat
    PROVE  \E f : MeasuredTo(f, n, order, adj)
<1> DEFINE G == {m \in 0..n : \E f : MeasuredTo(f, m, order, adj)}
<1>1. 0 \in G
  <2> DEFINE f == [k \in 0..0 |-> << >>]
  <2>1. MeasuredTo(f, 0, order, adj)
    BY DEF MeasuredTo
  <2> QED BY <2>1
<1>2. ASSUME NEW m \in 1..n, m - 1 \in G PROVE m \in G
  <2>1. PICK g : MeasuredTo(g, m - 1, order, adj)
    BY <1>2
  <2> DEFINE last == Measured(g[m - 1], order[m], adj)
             f == [k \in 0..m |-> IF k = m THEN last ELSE g[k]]
             next == [k \in 0..m |-> IF k = 0 THEN << >> ELSE Measured(f[k - 1], order[k], adj)]
  <2>2. ASSUME NEW k \in 0..m PROVE f[k] = next[k]
    <3>1. CASE k = m
      <4>1. m - 1 \in 0..m /\ m - 1 # m /\ m # 0
        OBVIOUS
      <4> QED BY <3>1, <4>1
    <3>2. CASE k # m
      <4>1. k \in 0..(m - 1) /\ (k # 0 => k - 1 \in 0..m /\ k - 1 # m)
        BY <3>2
      <4>2. g[k] = IF k = 0 THEN << >> ELSE Measured(g[k - 1], order[k], adj)
        BY <2>1, <4>1 DEF MeasuredTo
      <4> QED BY <3>2, <4>1, <4>2
    <3> QED BY <3>1, <3>2
  <2>3. f = next
    BY <2>2
  <2>4. MeasuredTo(f, m, order, adj)
    BY <2>3 DEF MeasuredTo
  <2> QED BY <2>4
<1> HIDE DEF G
<1>3. n \in G
  BY <1>1, <1>2, UpTo
<1> QED BY <1>3 DEF G

\* What is measured so far, in an order in which edges lead back.
DeepUpTo(depth, k, order, adj) ==
    /\ DOMAIN depth = {order[i] : i \in 1..k} /\ depth = [x \in DOMAIN depth |-> depth[x]]
    /\ \A i \in 1..k : depth[order[i]] \in 1..i /\ depth[order[i]] = DepthAt(depth, order[i], adj)

LEMMA MeasuredStep ==
    ASSUME NEW adj, IsGraph(adj), Ranked(DOMAIN adj), NEW order, EdgesLeadBack(order, adj),
           NEW k \in 1..Len(order), NEW depth, DeepUpTo(depth, k - 1, order, adj),
           NEW next, next = Measured(depth, order[k], adj)
    PROVE  DeepUpTo(next, k, order, adj)
<1>1. Len(order) \in Nat /\ k \in Nat
  BY SeqBasics DEF EdgesLeadBack
<1>2. PICK x \in DOMAIN adj : x = order[k]
  BY DEF EdgesLeadBack
<1>3. \A i \in 1..k : i \in 1..Len(order) /\ order[i] \in DOMAIN adj
  BY <1>1 DEF EdgesLeadBack
<1>4. PICK v : v = DepthAt(depth, x, adj)
  OBVIOUS
<1>5. next = [y \in DOMAIN depth \cup {x} |-> IF y = x THEN v ELSE depth[y]]
  BY <1>2, <1>4 DEF Measured, Put, DepthAt
<1>6. DOMAIN depth = {order[i] : i \in 1..(k - 1)} /\ \A i \in 1..(k - 1) : order[i] # x
  <2>1. \A i \in 1..(k - 1) : i \in 1..Len(order) /\ i # k
    BY <1>1
  <2>2. \A i \in 1..(k - 1) : order[i] # x
    BY <1>2, <2>1 DEF EdgesLeadBack
  <2> QED BY <2>2 DEF DeepUpTo
<1>7. DOMAIN next = {order[i] : i \in 1..k} /\ next = [y \in DOMAIN next |-> next[y]]
  <2>1. DOMAIN next = DOMAIN depth \cup {x}
    BY <1>5
  <2>2. {order[i] : i \in 1..k} = {order[i] : i \in 1..(k - 1)} \cup {order[k]}
    BY <1>1
  <2> QED BY <1>2, <1>5, <1>6, <2>1, <2>2
<1>8. \A i \in 1..(k - 1) : next[order[i]] = depth[order[i]] /\ depth[order[i]] \in 1..i
  BY <1>5, <1>6 DEF DeepUpTo
<1>9. ASSUME NEW i \in 1..k, NEW y \in adj[order[i]]
      PROVE  \E j \in 1..(i - 1) : y = order[j]
  <2>1. PICK j \in 1..Len(order) : order[j] = y
    BY <1>3 DEF EdgesLeadBack, IsGraph
  <2>2. j < i
    BY <1>3, <2>1 DEF EdgesLeadBack
  <2>3. j \in 1..(i - 1)
    BY <1>1, <2>2
  <2> QED BY <2>1, <2>3
<1>10. ASSUME NEW i \in 1..k
       PROVE  /\ \A y \in adj[order[i]] : next[y] = depth[y] /\ depth[y] \in 1..(i - 1)
              /\ DepthAt(depth, order[i], adj) = DepthAt(next, order[i], adj)
              /\ DepthAt(depth, order[i], adj) \in 1..i
  <2>1. ASSUME NEW y \in adj[order[i]] PROVE next[y] = depth[y] /\ depth[y] \in 1..(i - 1)
    <3>1. PICK j \in 1..(i - 1) : y = order[j]
      BY <1>9
    <3>2. j \in 1..(k - 1) /\ 1..j \subseteq 1..(i - 1)
      BY <1>1
    <3> QED BY <1>8, <3>1, <3>2
  <2>2. \A y \in adj[order[i]] : depth[y] \in Nat /\ next[y] = depth[y]
    BY <2>1
  <2>3. /\ DepthAt(depth, order[i], adj) = DepthAt(next, order[i], adj)
        /\ DepthAt(depth, order[i], adj) \in Nat \ {0}
        /\ adj[order[i]] # {} =>
               \E y \in adj[order[i]] : DepthAt(depth, order[i], adj) = 1 + depth[y]
    BY <1>3, <2>2, SameDepthAt
  <2>4. DepthAt(depth, order[i], adj) <= i
    <3>1. CASE adj[order[i]] = {}
      BY <1>1, <3>1 DEF DepthAt
    <3>2. CASE adj[order[i]] # {}
      BY <1>1, <2>1, <2>3, <3>2
    <3> QED BY <3>1, <3>2
  <2> QED BY <1>1, <2>1, <2>3, <2>4
<1>11. ASSUME NEW i \in 1..k
       PROVE  next[order[i]] \in 1..i /\ next[order[i]] = DepthAt(next, order[i], adj)
  <2>1. CASE i = k
    <3>1. next[order[k]] = v
      BY <1>2, <1>5
    <3> QED BY <1>2, <1>4, <1>10, <2>1, <3>1
  <2>2. CASE i # k
    <3>1. i \in 1..(k - 1)
      BY <1>1, <2>2
    <3>2. depth[order[i]] = DepthAt(depth, order[i], adj)
      BY <3>1 DEF DeepUpTo
    <3> QED BY <1>8, <1>10, <3>1, <3>2
  <2> QED BY <2>1, <2>2
<1> QED BY <1>7, <1>11 DEF DeepUpTo

\* What is measured is the depth, and no more than the place in the order.
LEMMA DepthsAreDepth ==
    ASSUME NEW adj, IsGraph(adj), Ranked(DOMAIN adj), NEW order, EdgesLeadBack(order, adj),
           NEW depth, depth = Depths(order, adj)
    PROVE  IsDepth(depth, adj) /\ \A i \in 1..Len(order) : depth[order[i]] <= i
<1>1. PICK n \in Nat : n = Len(order)
  BY SeqBasics DEF EdgesLeadBack
<1> DEFINE f == CHOOSE g : MeasuredTo(g, n, order, adj)
<1>2. MeasuredTo(f, n, order, adj)
  BY MeasureExists
<1>3. depth = f[n]
  BY <1>1 DEF Depths, MeasuredTo
<1> HIDE DEF f
<1> DEFINE G == {k \in 0..n : DeepUpTo(f[k], k, order, adj)}
<1>4. 0 \in G
  <2>1. f[0] = << >>
    BY <1>2 DEF MeasuredTo
  <2>2. << >> = [x \in {} |-> << >>[x]] /\ DOMAIN << >> = {}
    OBVIOUS
  <2>3. {order[i] : i \in 1..0} = {} /\ 1..0 = {}
    OBVIOUS
  <2>4. DeepUpTo(f[0], 0, order, adj)
    BY <2>1, <2>2, <2>3 DEF DeepUpTo
  <2> QED BY <2>4
<1>5. ASSUME NEW k \in 1..n, k - 1 \in G PROVE k \in G
  <2>1. k \in 0..n /\ k # 0
    OBVIOUS
  <2>2. f[k] = Measured(f[k - 1], order[k], adj)
    BY <1>2, <2>1 DEF MeasuredTo
  <2>3. DeepUpTo(f[k], k, order, adj)
    BY <1>1, <1>5, <2>2, MeasuredStep
  <2> QED BY <2>1, <2>3
<1> HIDE DEF G
<1>6. n \in G
  BY <1>4, <1>5, UpTo
<1>7. DeepUpTo(depth, n, order, adj)
  BY <1>3, <1>6 DEF G
<1>8. DOMAIN adj = {order[i] : i \in 1..n}
  <2>1. \A x \in DOMAIN adj : \E i \in 1..n : order[i] = x
    BY <1>1 DEF EdgesLeadBack
  <2>2. \A i \in 1..n : order[i] \in DOMAIN adj
    BY <1>1 DEF EdgesLeadBack
  <2> QED BY <2>1, <2>2
<1>9. ASSUME NEW x \in DOMAIN adj
      PROVE  depth[x] \in Nat \ {0} /\ depth[x] = DepthAt(depth, x, adj)
  <2>1. PICK i \in 1..n : order[i] = x
    BY <1>8
  <2> QED BY <1>7, <2>1 DEF DeepUpTo
<1> QED BY <1>1, <1>7, <1>8, <1>9 DEF DeepUpTo, IsDepth

\* There is one depth.
LEMMA OneDepth ==
    ASSUME NEW adj, IsGraph(adj), Ranked(DOMAIN adj), NEW order, EdgesLeadBack(order, adj),
           NEW depth, IsDepth(depth, adj), NEW other, IsDepth(other, adj)
    PROVE  depth = other
<1>1. PICK n \in Nat : n = Len(order)
  BY SeqBasics DEF EdgesLeadBack
<1> DEFINE G == {k \in 0..n : \A i \in 1..k : depth[order[i]] = other[order[i]]}
<1>2. 0 \in G
  OBVIOUS
<1>3. ASSUME NEW k \in 1..n, k - 1 \in G PROVE k \in G
  <2>1. PICK x \in DOMAIN adj : x = order[k]
    BY <1>1 DEF EdgesLeadBack
  <2>2. ASSUME NEW y \in adj[x] PROVE depth[y] \in Nat /\ other[y] = depth[y]
    <3>1. y \in DOMAIN adj
      BY DEF IsGraph
    <3>2. PICK j \in 1..n : order[j] = y
      BY <1>1, <3>1 DEF EdgesLeadBack
    <3>3. j < k
      BY <1>1, <2>1, <3>2 DEF EdgesLeadBack
    <3>4. j \in 1..(k - 1)
      BY <3>3
    <3> QED BY <1>3, <3>1, <3>2, <3>4 DEF IsDepth
  <2>3. DepthAt(depth, x, adj) = DepthAt(other, x, adj)
    BY <2>2, SameDepthAt
  <2>4. depth[order[k]] = other[order[k]]
    BY <2>1, <2>3 DEF IsDepth
  <2>5. \A i \in 1..k : i = k \/ i \in 1..(k - 1)
    OBVIOUS
  <2>6. k \in 0..n
    OBVIOUS
  <2> QED BY <1>3, <2>4, <2>5, <2>6
<1> HIDE DEF G
<1>4. n \in G
  BY <1>2, <1>3, UpTo
<1>5. \A x \in DOMAIN adj : depth[x] = other[x]
  BY <1>1, <1>4 DEF G, EdgesLeadBack
<1> QED BY <1>5 DEF IsDepth

----------------------------------------------------------------------------
(* The critical path.                                                      *)

BackTo(b, n, first, adj, depth) ==
    b = [k \in 0..n |-> IF k = 0 THEN << first >> ELSE TakenBack(b[k - 1], adj, depth)]

LEMMA BackExists ==
    ASSUME NEW first, NEW adj, NEW depth, NEW n \in Nat
    PROVE  \E b : BackTo(b, n, first, adj, depth)
<1> DEFINE G == {m \in 0..n : \E b : BackTo(b, m, first, adj, depth)}
<1>1. 0 \in G
  <2> DEFINE b == [k \in 0..0 |-> << first >>]
  <2>1. BackTo(b, 0, first, adj, depth)
    BY DEF BackTo
  <2> QED BY <2>1
<1>2. ASSUME NEW m \in 1..n, m - 1 \in G PROVE m \in G
  <2>1. PICK g : BackTo(g, m - 1, first, adj, depth)
    BY <1>2
  <2> DEFINE last == TakenBack(g[m - 1], adj, depth)
             b == [k \in 0..m |-> IF k = m THEN last ELSE g[k]]
             next == [k \in 0..m |->
                         IF k = 0 THEN << first >> ELSE TakenBack(b[k - 1], adj, depth)]
  <2>2. ASSUME NEW k \in 0..m PROVE b[k] = next[k]
    <3>1. CASE k = m
      <4>1. m - 1 \in 0..m /\ m - 1 # m /\ m # 0
        OBVIOUS
      <4> QED BY <3>1, <4>1
    <3>2. CASE k # m
      <4>1. k \in 0..(m - 1) /\ (k # 0 => k - 1 \in 0..m /\ k - 1 # m)
        BY <3>2
      <4>2. g[k] = IF k = 0 THEN << first >> ELSE TakenBack(g[k - 1], adj, depth)
        BY <2>1, <4>1 DEF BackTo
      <4> QED BY <3>2, <4>1, <4>2
    <3> QED BY <3>1, <3>2
  <2>3. b = next
    BY <2>2
  <2>4. BackTo(b, m, first, adj, depth)
    BY <2>3 DEF BackTo
  <2> QED BY <2>4
<1> HIDE DEF G
<1>3. n \in G
  BY <1>1, <1>2, UpTo
<1> QED BY <1>3 DEF G

\* The end of a longest chain: each node is one deeper than the one before, the last
\* as deep as any.
IsTail(chain, adj, depth, top) ==
    /\ IsSeq(chain) /\ Len(chain) \in Nat \ {0}
    /\ \A i \in 1..Len(chain) : /\ chain[i] \in DOMAIN adj
                                /\ depth[chain[i]] = top - Len(chain) + i
    /\ \A i \in 2..Len(chain) : chain[i - 1] \in adj[chain[i]]

LEMMA TakenBackIsTail ==
    ASSUME NEW adj, IsGraph(adj), Ranked(DOMAIN adj), NEW depth, IsDepth(depth, adj),
           NEW top \in Nat, NEW chain, IsTail(chain, adj, depth, top),
           NEW next, next = TakenBack(chain, adj, depth)
    PROVE  /\ IsTail(next, adj, depth, top)
           /\ adj[chain[1]] = {} => next = chain
           /\ adj[chain[1]] # {} => Len(next) = Len(chain) + 1
<1>1. 1 \in 1..Len(chain) /\ chain[1] \in DOMAIN adj
  BY DEF IsTail
<1>2. CASE adj[chain[1]] = {}
  BY <1>2 DEF TakenBack
<1>3. CASE adj[chain[1]] # {}
  <2>1. PICK x, cands : x \in DOMAIN adj /\ x = chain[1] /\ cands = adj[x]
    BY <1>1
  <2>2. IsFiniteSet(cands) /\ Ranked(cands) /\ cands # {} /\ \A c \in cands : depth[c] \in Nat
    BY <1>3, <2>1, FS_Subset DEF IsGraph, Ranked, IsDepth
  <2>3. PICK d : d = Deepest(cands, depth)
    OBVIOUS
  <2>4. d \in cands
    BY <2>2, <2>3, DeepestIsForemost DEF Foremost
  <2>5. d \in DOMAIN adj /\ depth[d] \in Nat /\ depth[x] = 1 + depth[d]
    BY <1>3, <2>1, <2>2, <2>3, <2>4 DEF IsDepth, DepthAt, IsGraph
  <2>6. PICK one : one = << d >>
    OBVIOUS
  <2>7. IsSeq(one) /\ Len(one) = 1 /\ one[1] = d
    <3>1. << d >> \in Seq({d})
      OBVIOUS
    <3>2. IsSeq(<< d >>)
      BY <3>1 DEF IsSeq
    <3> QED BY <2>6, <3>2
  <2>8. next = one \o chain
    BY <1>3, <2>1, <2>3, <2>6 DEF TakenBack
  <2>9. PICK n \in Nat \ {0} : n = Len(chain)
    BY DEF IsTail
  <2>10. /\ IsSeq(next) /\ Len(next) = n + 1 /\ next[1] = d
         /\ \A i \in 1..n : next[1 + i] = chain[i]
    <3>1. IsSeq(one) /\ IsSeq(chain)
      BY <2>7 DEF IsTail
    <3>2. /\ IsSeq(one \o chain) /\ Len(one \o chain) = Len(one) + Len(chain)
          /\ \A i \in 1..Len(one) : (one \o chain)[i] = one[i]
          /\ \A i \in 1..Len(chain) : (one \o chain)[Len(one) + i] = chain[i]
      BY <3>1, SeqConcat
    <3>3. 1 \in 1..Len(one)
      BY <2>7
    <3> QED BY <2>7, <2>8, <2>9, <3>2, <3>3
  <2>11. \A i \in 1..n : depth[chain[i]] = top - n + i /\ chain[i] \in DOMAIN adj
    BY <2>9 DEF IsTail
  <2>12. depth[d] = top - (n + 1) + 1
    <3>1. 1 \in 1..n
      OBVIOUS
    <3> QED BY <2>1, <2>5, <2>11, <3>1
  <2>13. ASSUME NEW i \in 1..(n + 1)
         PROVE  next[i] \in DOMAIN adj /\ depth[next[i]] = top - (n + 1) + i
    <3>1. CASE i = 1
      BY <2>5, <2>10, <2>12, <3>1
    <3>2. CASE i # 1
      <4>1. PICK j \in 1..n : i = 1 + j
        <5>1. i - 1 \in 1..n /\ i = 1 + (i - 1)
          BY <3>2
        <5> QED BY <5>1
      <4>2. next[i] = chain[j] /\ depth[chain[j]] = top - n + j /\ chain[j] \in DOMAIN adj
        BY <2>10, <2>11, <4>1
      <4> QED BY <4>1, <4>2
    <3> QED BY <3>1, <3>2
  <2>14. ASSUME NEW i \in 2..(n + 1) PROVE next[i - 1] \in adj[next[i]]
    <3>1. CASE i = 2
      BY <2>1, <2>4, <2>10, <3>1
    <3>2. CASE i # 2
      <4>1. PICK j \in 2..n : i = 1 + j
        <5>1. i - 1 \in 2..n /\ i = 1 + (i - 1)
          BY <3>2
        <5> QED BY <5>1
      <4>2. next[i] = chain[j] /\ next[i - 1] = chain[j - 1]
        <5>1. j \in 1..n /\ j - 1 \in 1..n /\ i - 1 = 1 + (j - 1)
          BY <4>1
        <5> QED BY <2>10, <4>1, <5>1
      <4> QED BY <2>9, <4>1, <4>2 DEF IsTail
    <3> QED BY <3>1, <3>2
  <2>15. IsTail(next, adj, depth, top)
    BY <2>10, <2>13, <2>14 DEF IsTail
  <2> QED BY <1>3, <2>9, <2>10, <2>15
<1> QED BY <1>2, <1>3

\* What CriticalPath goes back through.
PathBack(n, adj, depth) ==
    LET Back[k \in 0..n] ==
            IF k = 0 THEN << Deepest(DOMAIN adj, depth) >> ELSE TakenBack(Back[k - 1], adj, depth)
    IN  Back[n]

\* A chain, and as long as the deepest node is deep.
LEMMA PathBackIsChain ==
    ASSUME NEW adj, IsGraph(adj), Ranked(DOMAIN adj), DOMAIN adj # {},
           NEW depth, IsDepth(depth, adj), NEW n \in Nat, \A x \in DOMAIN adj : depth[x] <= n,
           NEW path, path = PathBack(n, adj, depth)
    PROVE  /\ IsSeq(path) /\ Len(path) <= n
           /\ \A i \in 1..Len(path) : path[i] \in DOMAIN adj
           /\ \A i \in 2..Len(path) : path[i - 1] \in adj[path[i]]
           /\ \A x \in DOMAIN adj : depth[x] <= Len(path)
<1> DEFINE D == DOMAIN adj
<1>1. PICK first : first = Deepest(D, depth)
  OBVIOUS
<1>2. \A x \in D : depth[x] \in Nat \ {0}
  BY DEF IsDepth
<1>3. Foremost(first, D, depth)
  BY <1>1, <1>2, DeepestIsForemost DEF IsGraph
<1>4. PICK top \in Nat : top = depth[first]
  BY <1>2, <1>3 DEF Foremost
<1>5. first \in D /\ top <= n /\ \A x \in D : depth[x] <= top
  BY <1>2, <1>3, <1>4 DEF Foremost
<1> DEFINE b == CHOOSE g : BackTo(g, n, first, adj, depth)
<1>6. BackTo(b, n, first, adj, depth)
  BY BackExists
<1>7. path = b[n]
  BY <1>1 DEF PathBack, BackTo
<1> HIDE DEF b
<1> DEFINE G == {k \in 0..n : /\ IsTail(b[k], adj, depth, top)
                              /\ adj[b[k][1]] = {} \/ Len(b[k]) = k + 1}
<1>8. 0 \in G
  <2>1. b[0] = << first >>
    BY <1>6 DEF BackTo
  <2>2. IsSeq(b[0]) /\ Len(b[0]) = 1 /\ b[0][1] = first
    <3>1. << first >> \in Seq({first})
      OBVIOUS
    <3>2. IsSeq(<< first >>)
      BY <3>1 DEF IsSeq
    <3> QED BY <2>1, <3>2
  <2>3. IsTail(b[0], adj, depth, top)
    BY <1>4, <1>5, <2>2 DEF IsTail
  <2> QED BY <2>2, <2>3
<1>9. ASSUME NEW k \in 1..n, k - 1 \in G PROVE k \in G
  <2>1. k \in 0..n /\ k # 0
    OBVIOUS
  <2>2. b[k] = TakenBack(b[k - 1], adj, depth)
    BY <1>6, <2>1 DEF BackTo
  <2>3. PICK chain, next : chain = b[k - 1] /\ next = b[k]
    OBVIOUS
  <2>4. IsTail(chain, adj, depth, top) /\ (adj[chain[1]] = {} \/ Len(chain) = k)
    BY <1>9, <2>3
  <2>5. /\ IsTail(next, adj, depth, top)
        /\ adj[chain[1]] = {} => next = chain
        /\ adj[chain[1]] # {} => Len(next) = Len(chain) + 1
    <3>1. next = TakenBack(chain, adj, depth)
      BY <2>2, <2>3
    <3>2. IsTail(chain, adj, depth, top)
      BY <2>4
    <3> QED BY <3>1, <3>2, TakenBackIsTail
  <2>6. adj[next[1]] = {} \/ Len(next) = k + 1
    BY <2>4, <2>5
  <2> QED BY <2>1, <2>3, <2>5, <2>6
<1> HIDE DEF G
<1>10. n \in G
  BY <1>8, <1>9, UpTo
<1>11. IsTail(path, adj, depth, top) /\ (adj[path[1]] = {} \/ Len(path) = n + 1)
  BY <1>7, <1>10 DEF G
<1>12. PICK m \in Nat \ {0} : m = Len(path)
  BY <1>11 DEF IsTail
<1>13. path[1] \in D /\ depth[path[1]] = top - m + 1
  BY <1>11, <1>12 DEF IsTail
<1>14. m <= n
  BY <1>2, <1>5, <1>12, <1>13
<1>15. adj[path[1]] = {}
  BY <1>11, <1>12, <1>14
<1>16. depth[path[1]] = 1
  BY <1>13, <1>15 DEF IsDepth, DepthAt
<1>17. m = top
  BY <1>12, <1>13, <1>16
<1> QED BY <1>5, <1>11, <1>12, <1>14, <1>17 DEF IsTail

\* No chain is longer than its last node is deep.
LEMMA ChainsAreNoLonger ==
    ASSUME NEW adj, IsGraph(adj), Ranked(DOMAIN adj), NEW depth, IsDepth(depth, adj),
           NEW m \in Nat \ {0}, NEW chain, \A i \in 1..m : chain[i] \in DOMAIN adj,
           \A i \in 2..m : chain[i - 1] \in adj[chain[i]]
    PROVE  m <= depth[chain[m]]
<1> DEFINE G == {k \in 0..m : k > 0 => k <= depth[chain[k]]}
<1>1. 0 \in G
  OBVIOUS
<1>2. ASSUME NEW k \in 1..m, k - 1 \in G PROVE k \in G
  <2>1. k \in 0..m /\ k \in Nat
    OBVIOUS
  <2>2. PICK x \in DOMAIN adj : x = chain[k]
    OBVIOUS
  <2>3. depth[x] \in Nat \ {0}
    BY DEF IsDepth
  <2>4. CASE k = 1
    BY <2>1, <2>2, <2>3, <2>4
  <2>5. CASE k # 1
    <3>1. k \in 2..m /\ k - 1 \in 1..m
      BY <2>5
    <3>2. PICK y \in adj[x] : y = chain[k - 1]
      BY <2>2, <3>1
    <3>3. \A z \in adj[x] : depth[z] \in Nat
      BY DEF IsDepth, IsGraph
    <3>4. depth[y] < DepthAt(depth, x, adj)
      BY <3>2, <3>3, SameDepthAt
    <3>5. depth[y] < depth[x] /\ k - 1 <= depth[y]
      BY <1>2, <3>1, <3>2, <3>4 DEF IsDepth
    <3> QED BY <2>1, <2>2, <2>3, <3>3, <3>5
  <2> QED BY <2>4, <2>5
<1> HIDE DEF G
<1>3. m \in G
  BY <1>1, <1>2, UpTo
<1> QED BY <1>3 DEF G

----------------------------------------------------------------------------
(* Plans.                                                                  *)

\* The tasks a goal concerns, and those of them that are open, as a graph.
Concerned(goal) == {goal} \cup Needs(goal)

Unfinished(goal) ==
    LET left == OpenTasks(tasks) \cap Concerned(goal)
    IN  [id \in left |-> BlockerTargets(tasks, id) \cap left]

LEMMA ClosureIsConcerned ==
    ASSUME Readable, NEW goal \in DOMAIN tasks
    PROVE  /\ Closure(tasks, {goal}) = Concerned(goal)
           /\ goal \in Concerned(goal) /\ Concerned(goal) \subseteq DOMAIN tasks
           /\ \A x \in Concerned(goal) :
                  BlockerTargets(tasks, x) \cap DOMAIN tasks \subseteq Concerned(goal)
<1>1. PICK adj : adj = Prereqs(tasks)
  OBVIOUS
<1>2. /\ DOMAIN adj = DOMAIN tasks /\ IsFiniteSet(DOMAIN adj)
      /\ \A x \in DOMAIN adj : /\ adj[x] \subseteq DOMAIN adj
                               /\ adj[x] = BlockerTargets(tasks, x) \cap DOMAIN tasks
  BY <1>1, PrereqsGraph DEF Readable, IsStored
<1>3. PICK known : known = {goal}
  OBVIOUS
<1>4. Walked({goal}, known, adj) = Leads(adj, goal) \cup known
  <2>1. known \in SUBSET {goal} /\ goal \in DOMAIN adj
    BY <1>2, <1>3
  <2> QED BY <1>2, <2>1, WalkedIsLeads
<1>5. Needs(goal) = Leads(adj, goal)
  BY <1>1, NeedsIsLeads
<1>6. Closure(tasks, {goal}) = Concerned(goal)
  BY <1>1, <1>3, <1>4, <1>5 DEF Closure, Concerned
<1>7. Leads(adj, goal) \subseteq DOMAIN adj
  BY DEF Leads
<1>8. ASSUME NEW x \in Concerned(goal)
      PROVE  BlockerTargets(tasks, x) \cap DOMAIN tasks \subseteq Concerned(goal)
  <2>1. x \in Leads(adj, goal) \/ x = goal
    BY <1>5 DEF Concerned
  <2>2. adj[x] \subseteq Leads(adj, goal)
    BY <1>2, <2>1, LeadsOn
  <2>3. x \in DOMAIN adj
    BY <1>2, <1>7, <2>1
  <2> QED BY <1>2, <1>5, <2>2, <2>3 DEF Concerned
<1> QED BY <1>2, <1>5, <1>6, <1>7, <1>8 DEF Concerned

\* The tasks that dep plan looks at.
LEMMA PlannedTasks ==
    ASSUME Readable, NEW goal \in DOMAIN tasks,
           NEW sub, sub = Restrict(tasks, Closure(tasks, {goal}))
    PROVE  /\ DOMAIN sub = Concerned(goal) /\ IsFiniteSet(DOMAIN sub)
           /\ \A x \in DOMAIN sub : BlockerTargets(sub, x) = BlockerTargets(tasks, x)
           /\ OpenTasks(sub) = OpenTasks(tasks) \cap Concerned(goal)
           /\ DOMAIN Prereqs(sub) = Concerned(goal)
           /\ \A x \in Concerned(goal) :
                  Prereqs(sub)[x] = BlockerTargets(tasks, x) \cap Concerned(goal)
<1>1. /\ Closure(tasks, {goal}) = Concerned(goal) /\ Concerned(goal) \subseteq DOMAIN tasks
      /\ IsFiniteSet(DOMAIN tasks)
  BY ClosureIsConcerned DEF Readable, IsStored
<1>2. sub = [x \in Concerned(goal) |-> tasks[x]]
  BY <1>1 DEF Restrict
<1>3. DOMAIN sub = Concerned(goal) /\ \A x \in DOMAIN sub : sub[x] = tasks[x]
  BY <1>2
<1>4. IsFiniteSet(DOMAIN sub)
  BY <1>1, <1>3, FS_Subset
<1>5. ASSUME NEW x \in DOMAIN sub PROVE BlockerTargets(sub, x) = BlockerTargets(tasks, x)
  BY <1>3 DEF BlockerTargets, BlockerEdges
<1>6. OpenTasks(sub) = OpenTasks(tasks) \cap Concerned(goal)
  BY <1>1, <1>3 DEF OpenTasks
<1> QED BY <1>3, <1>4, <1>5, <1>6 DEF Prereqs

\* A plan is the unfinished tasks in an order in which blockers come first.
LEMMA PlanIsOrder ==
    ASSUME Readable, NEW goal \in DOMAIN tasks,
           NEW sub, sub = Restrict(tasks, Closure(tasks, {goal})),
           NEW order \in ValidateAndSort(sub),
           NEW plan, plan = Picked(order, {i \in DOMAIN order : order[i] \in OpenTasks(sub)})
    PROVE  EdgesLeadBack(plan, Unfinished(goal))
<1>0. PICK adj, left, places : /\ adj = Unfinished(goal)
                               /\ left = OpenTasks(tasks) \cap Concerned(goal)
                               /\ places = {i \in DOMAIN order : order[i] \in OpenTasks(sub)}
  OBVIOUS
<1>1. /\ DOMAIN sub = Concerned(goal) /\ IsFiniteSet(DOMAIN sub)
      /\ OpenTasks(sub) = left
      /\ \A x \in Concerned(goal) : Prereqs(sub)[x] = BlockerTargets(tasks, x) \cap Concerned(goal)
  BY <1>0, PlannedTasks
<1>2. /\ order \in SetToSeqs(DOMAIN sub)
      /\ \A i, j \in DOMAIN order : order[i] \in Prereqs(sub)[order[j]] => i < j
  BY DEF ValidateAndSort, TopologicalOrders
<1>3. /\ IsSeq(order) /\ \A i \in 1..Len(order) : order[i] \in DOMAIN sub
      /\ \A x \in DOMAIN sub : \E i \in 1..Len(order) : order[i] = x
  BY <1>1, <1>2, OrderHasAll
<1>4. DOMAIN order = 1..Len(order) /\ Len(order) \in Nat
  BY <1>3, SeqBasics
<1>5. \A i, j \in 1..Len(order) : order[i] = order[j] => i = j
  BY <1>2, <1>4 DEF SetToSeqs
<1>6. DOMAIN adj = left /\ \A x \in left : adj[x] = BlockerTargets(tasks, x) \cap left
  BY <1>0 DEF Unfinished
<1>7. plan = Picked(order, places)
  BY <1>0
<1>8. /\ IsSeq(plan)
      /\ \A i \in 1..Len(plan) : \E k \in 1..Len(order) : k \in places /\ plan[i] = order[k]
      /\ \A k \in 1..Len(order) : k \in places => \E i \in 1..Len(plan) : plan[i] = order[k]
      /\ \A i, j \in 1..Len(plan) : plan[i] = plan[j] => i = j
      /\ InOrderOf(plan, order)
  <2>1. IsSeq(order)
    BY <1>3
  <2> QED BY <1>5, <1>7, <2>1, PickedInOrder
<1>9. \A k \in 1..Len(order) : k \in places <=> order[k] \in left
  BY <1>0, <1>1, <1>4
<1>10. ASSUME NEW i \in 1..Len(plan) PROVE plan[i] \in left
  BY <1>8, <1>9
<1>11. ASSUME NEW x \in left PROVE \E i \in 1..Len(plan) : plan[i] = x
  <2>1. x \in DOMAIN sub
    BY <1>0, <1>1
  <2>2. PICK k \in 1..Len(order) : order[k] = x
    BY <1>3, <2>1
  <2> QED BY <1>8, <1>9, <2>2
<1>12. ASSUME NEW i \in 1..Len(plan), NEW j \in 1..Len(plan), plan[i] \in adj[plan[j]]
       PROVE  i < j
  <2>1. PICK x \in left, y \in left : x = plan[i] /\ y = plan[j]
    BY <1>10
  <2>2. y \in Concerned(goal) /\ x \in Concerned(goal) /\ x \in adj[y]
    BY <1>0, <1>12, <2>1
  <2>3. x \in Prereqs(sub)[y]
    BY <1>1, <1>6, <2>1, <2>2
  <2>4. PICK k \in 1..Len(order), l \in 1..Len(order) : x = order[k] /\ y = order[l]
    BY <1>8, <2>1
  <2>5. k \in DOMAIN order /\ l \in DOMAIN order
    BY <1>4
  <2>6. order[k] \in Prereqs(sub)[order[l]]
    BY <2>3, <2>4
  <2>7. k < l
    BY <1>2, <2>5, <2>6
  <2>8. plan[i] = order[k] /\ plan[j] = order[l]
    BY <2>1, <2>4
  <2> QED BY <1>8, <2>7, <2>8 DEF InOrderOf
<1> QED BY <1>0, <1>6, <1>8, <1>10, <1>11, <1>12 DEF EdgesLeadBack

\* The unfinished tasks are finitely many, and blocked by each other only.
LEMMA UnfinishedGraph ==
    ASSUME Readable, NEW goal \in DOMAIN tasks
    PROVE  /\ IsGraph(Unfinished(goal)) /\ Ranked(DOMAIN Unfinished(goal))
           /\ DOMAIN Unfinished(goal) = OpenTasks(tasks) \cap Concerned(goal)
           /\ \A x \in DOMAIN Unfinished(goal) :
                  Unfinished(goal)[x] = BlockerTargets(tasks, x) \cap DOMAIN Unfinished(goal)
<1>1. PICK left : left = OpenTasks(tasks) \cap Concerned(goal)
  OBVIOUS
<1>2. Unfinished(goal) = [id \in left |-> BlockerTargets(tasks, id) \cap left]
  BY <1>1 DEF Unfinished
<1>3. left \subseteq DOMAIN tasks /\ IsFiniteSet(DOMAIN tasks) /\ DOMAIN tasks \subseteq Ids
  BY <1>1, ClosureIsConcerned DEF Readable, IsStored
<1>4. IsFiniteSet(left)
  BY <1>3, FS_Subset
<1>5. Ranked(left)
  BY <1>3, OrderAssumption DEF Ranked
<1> QED BY <1>1, <1>2, <1>4, <1>5 DEF IsGraph

LEMMA PlanIsWorkable ==
    ASSUME Readable, NEW goal \in DOMAIN tasks, NEW plan, EdgesLeadBack(plan, Unfinished(goal)),
           NEW status \in ClosedStatuses, NEW k \in 1..(Len(plan) + 1),
           NEW then, then = WorkedOff({plan[j] : j \in 1..(k - 1)}, status)
    PROVE  /\ k \in DOMAIN plan => IsReady(then, plan[k])
           /\ k = Len(plan) + 1 => IsDone(then[goal].fields)
<1> DEFINE left == OpenTasks(tasks) \cap Concerned(goal)
<1>1. PICK adj : adj = Unfinished(goal)
  OBVIOUS
<1>2. DOMAIN adj = left /\ \A x \in left : adj[x] = BlockerTargets(tasks, x) \cap left
  BY <1>1, UnfinishedGraph
<1>3. PICK finished : finished = {plan[j] : j \in 1..(k - 1)}
  OBVIOUS
<1>4. Len(plan) \in Nat /\ DOMAIN plan = 1..Len(plan)
  BY SeqBasics DEF EdgesLeadBack
<1>5. /\ DOMAIN then = DOMAIN tasks
      /\ \A x \in DOMAIN tasks : then[x] = IF x \in finished
             THEN [tasks[x] EXCEPT !.fields = Put(@, StatusKey, status)] ELSE tasks[x]
  BY <1>3 DEF WorkedOff
<1>6. ASSUME NEW x \in DOMAIN tasks
      PROVE  /\ BlockerTargets(then, x) = BlockerTargets(tasks, x)
             /\ IsDone(then[x].fields) <=> x \in finished \/ IsDone(tasks[x].fields)
  <2>0. IsTask(tasks[x])
    BY DEF Readable, IsStored, AllTasks
  <2>1. CASE x \in finished
    <3>1. then[x] = [tasks[x] EXCEPT !.fields = Put(tasks[x].fields, StatusKey, status)]
      BY <1>5, <2>1
    <3>2. then[x].edges = tasks[x].edges /\ then[x].fields = Put(tasks[x].fields, StatusKey, status)
      BY <2>0, <3>1 DEF IsTask
    <3>3. Value(then[x].fields, StatusKey) = status
      BY <3>2 DEF Put, Value
    <3> QED BY <2>1, <3>2, <3>3 DEF IsDone, BlockerTargets, BlockerEdges
  <2>2. CASE x \notin finished
    <3>1. then[x] = tasks[x]
      BY <1>5, <2>2
    <3> QED BY <2>2, <3>1 DEF BlockerTargets, BlockerEdges
  <2> QED BY <2>1, <2>2
<1>7. OpenTasks(then) = OpenTasks(tasks) \ finished
  BY <1>5, <1>6 DEF OpenTasks
<1>8. ASSUME k \in DOMAIN plan PROVE IsReady(then, plan[k])
  <2>1. PICK x \in left : x = plan[k]
    BY <1>1, <1>2, <1>4, <1>8 DEF EdgesLeadBack
  <2>2. x \in DOMAIN tasks /\ ~ IsDone(tasks[x].fields) /\ x \in Concerned(goal)
    BY <2>1 DEF OpenTasks
  <2>3. x \notin finished
    <3>1. \A j \in 1..(k - 1) : j \in 1..Len(plan) /\ j # k
      BY <1>4, <1>8
    <3> QED BY <1>3, <1>4, <1>8, <2>1, <3>1 DEF EdgesLeadBack
  <2>4. ASSUME NEW y \in BlockerTargets(tasks, x), y \in OpenTasks(tasks) PROVE y \in finished
    <3>1. y \in DOMAIN tasks
      BY <2>4 DEF OpenTasks
    <3>2. y \in Concerned(goal)
      BY <2>2, <2>4, <3>1, ClosureIsConcerned
    <3>3. y \in left /\ y \in adj[x]
      BY <1>2, <2>1, <2>4, <3>2
    <3>4. PICK j \in 1..Len(plan) : plan[j] = y
      BY <1>1, <1>2, <3>3 DEF EdgesLeadBack
    <3>5. j < k
      BY <1>1, <1>4, <1>8, <2>1, <3>3, <3>4 DEF EdgesLeadBack
    <3>6. j \in 1..(k - 1)
      BY <1>4, <3>5
    <3> QED BY <1>3, <3>4, <3>6
  <2>5. BlockerTargets(then, x) \cap OpenTasks(then) = {}
    BY <1>6, <1>7, <2>2, <2>4
  <2>6. ~ IsDone(then[x].fields)
    BY <1>6, <2>2, <2>3
  <2> QED BY <2>1, <2>5, <2>6 DEF IsReady
<1>9. ASSUME k = Len(plan) + 1 PROVE IsDone(then[goal].fields)
  <2>1. CASE IsDone(tasks[goal].fields)
    BY <1>6, <2>1
  <2>2. CASE ~ IsDone(tasks[goal].fields)
    <3>1. goal \in left
      BY <2>2 DEF OpenTasks, Concerned
    <3>2. PICK j \in 1..Len(plan) : plan[j] = goal
      BY <1>1, <1>2, <3>1 DEF EdgesLeadBack
    <3>3. j \in 1..(k - 1)
      BY <1>4, <1>9
    <3>4. goal \in finished
      BY <1>3, <3>2, <3>3
    <3> QED BY <1>6, <3>4
  <2> QED BY <2>1, <2>2
<1> QED BY <1>8, <1>9

LEMMA PlansCanBeWorkedOff ==
    ASSUME Readable
    PROVE  PlansAreWorkable
<1> SUFFICES ASSUME NEW goal \in DOMAIN tasks, NEW status \in ClosedStatuses,
                    NEW plan \in Plans(tasks, {goal}, FALSE)
             PROVE  LET Till(i) == WorkedOff({plan[j] : j \in 1..(i - 1)}, status)
                    IN  /\ \A i \in DOMAIN plan : IsReady(Till(i), plan[i])
                        /\ IsDone(Till(Len(plan) + 1)[goal].fields)
  BY DEF PlansAreWorkable
<1>1. PICK sub : sub = Restrict(tasks, Closure(tasks, {goal}))
  OBVIOUS
<1>2. PICK order \in ValidateAndSort(sub) :
          plan = Picked(order, {i \in DOMAIN order : order[i] \in OpenTasks(sub)})
  BY <1>1 DEF Plans
<1>3. EdgesLeadBack(plan, Unfinished(goal))
  BY <1>1, <1>2, PlanIsOrder
<1>4. Len(plan) \in Nat /\ DOMAIN plan = 1..Len(plan)
  BY <1>3, SeqBasics DEF EdgesLeadBack
<1>5. ASSUME NEW i \in DOMAIN plan
      PROVE  IsReady(WorkedOff({plan[j] : j \in 1..(i - 1)}, status), plan[i])
  <2>1. i \in 1..(Len(plan) + 1)
    BY <1>4
  <2> QED BY <1>3, <1>5, <2>1, PlanIsWorkable
<1>6. IsDone(WorkedOff({plan[j] : j \in 1..(Len(plan) + 1 - 1)}, status)[goal].fields)
  <2>1. Len(plan) + 1 \in 1..(Len(plan) + 1)
    BY <1>4
  <2> QED BY <1>3, <2>1, PlanIsWorkable
<1> QED BY <1>5, <1>6

\* A plan has as many places as there are unfinished tasks.
LEMMA PlanHasAll ==
    ASSUME NEW adj, IsGraph(adj), NEW plan, EdgesLeadBack(plan, adj)
    PROVE  Len(plan) = Cardinality(DOMAIN adj)
<1>1. PICK n \in Nat : n = Len(plan)
  BY SeqBasics DEF EdgesLeadBack
<1>2. PICK f : f = [i \in 1..n |-> plan[i]]
  OBVIOUS
<1>3. f \in [1..n -> DOMAIN adj]
  BY <1>1, <1>2 DEF EdgesLeadBack
<1>4. f \in Injection(1..n, DOMAIN adj) /\ f \in Surjection(1..n, DOMAIN adj)
  BY <1>1, <1>2, <1>3 DEF EdgesLeadBack, Injection, IsInjective, Surjection
<1>5. IsFiniteSet(1..n) /\ Cardinality(1..n) = n
  BY FS_Interval
<1>6. Cardinality(DOMAIN adj) = Cardinality(1..n)
  BY <1>4, <1>5, FS_Surjection
<1> QED BY <1>1, <1>5, <1>6

\* What CriticalPath makes of a plan.
LEMMA CriticalPathOfPlan ==
    ASSUME Readable, NEW goal \in DOMAIN tasks,
           NEW sub, sub = Restrict(tasks, Closure(tasks, {goal})),
           NEW adj, adj = Unfinished(goal), NEW plan, EdgesLeadBack(plan, adj)
    PROVE  /\ DOMAIN adj = {} => CriticalPath(sub, plan) = << >>
           /\ DOMAIN adj # {} =>
                  CriticalPath(sub, plan) =
                      PathBack(Cardinality(DOMAIN adj), adj, Depths(plan, adj))
<1>1. DOMAIN plan = 1..Len(plan) /\ Len(plan) \in Nat /\ IsSeq(plan)
  BY SeqBasics DEF EdgesLeadBack
<1>2. PICK left : left = {plan[i] : i \in DOMAIN plan}
  OBVIOUS
<1>3. left = DOMAIN adj
  <2>1. \A x \in DOMAIN adj : \E i \in 1..Len(plan) : plan[i] = x
    BY DEF EdgesLeadBack
  <2>2. \A i \in 1..Len(plan) : plan[i] \in DOMAIN adj
    BY DEF EdgesLeadBack
  <2> QED BY <1>1, <1>2, <2>1, <2>2
<1>4. /\ \A x \in left : adj[x] = BlockerTargets(tasks, x) \cap left
      /\ left \subseteq Concerned(goal)
  BY <1>3, UnfinishedGraph
<1>5. \A x \in left : BlockerTargets(sub, x) = BlockerTargets(tasks, x)
  BY <1>4, PlannedTasks
<1>6. adj = [x \in left |-> BlockerTargets(sub, x) \cap left]
  <2>1. adj = [x \in DOMAIN adj |-> adj[x]]
    BY DEF Unfinished
  <2> QED BY <1>3, <1>4, <1>5, <2>1
<1>7. Len(plan) = Cardinality(left)
  BY <1>3, UnfinishedGraph, PlanHasAll
<1>8. CASE left = {}
  <2>1. Len(plan) = 0
    BY <1>7, <1>8, FS_EmptySet
  <2>2. plan = << >>
    BY <1>1, <2>1, SeqEmpty, SameElements
  <2> QED BY <1>3, <1>8, <2>2 DEF CriticalPath
<1>9. CASE left # {}
  <2>1. plan # << >>
    <3>1. DOMAIN plan # {}
      BY <1>2, <1>9
    <3> QED BY <3>1
  <2>2. CriticalPath(sub, plan) = PathBack(Len(plan), adj, Depths(plan, adj))
    BY <1>2, <1>3, <1>6, <2>1 DEF CriticalPath, PathBack
  <2> QED BY <1>3, <1>7, <1>9, <2>2
<1> QED BY <1>8, <1>9

\* Without cycles the tasks of a goal have an order.
LEMMA PlansExist ==
    ASSUME Readable, Acyclic, NEW goal \in DOMAIN tasks,
           NEW sub, sub = Restrict(tasks, Closure(tasks, {goal}))
    PROVE  ValidateAndSort(sub) # {}
<1>1. PICK adj, part : adj = Prereqs(tasks) /\ part = Prereqs(sub)
  OBVIOUS
<1>2. PICK S : S = Concerned(goal)
  OBVIOUS
<1>3. /\ DOMAIN adj = DOMAIN tasks /\ IsFiniteSet(DOMAIN adj)
      /\ \A x \in DOMAIN adj : /\ adj[x] \subseteq DOMAIN adj
                               /\ adj[x] = BlockerTargets(tasks, x) \cap DOMAIN tasks
  BY <1>1, PrereqsGraph DEF Readable, IsStored
<1>4. /\ DOMAIN part = S /\ DOMAIN sub = S /\ IsFiniteSet(S)
      /\ \A x \in S : part[x] = BlockerTargets(tasks, x) \cap S
  BY <1>1, <1>2, PlannedTasks
<1>5. S \subseteq DOMAIN tasks
  BY <1>2, ClosureIsConcerned
<1>6. ASSUME NEW x \in S PROVE x \notin Leads(part, x)
  <2>1. \E order \in SetToSeqs(DOMAIN adj) :
            \A i, j \in DOMAIN order : order[i] \in adj[order[j]] => i < j
    BY <1>1, <1>3 DEF Acyclic, ValidateAndSort, TopologicalOrders
  <2>2. x \in DOMAIN adj
    BY <1>3, <1>5
  <2>3. x \notin Leads(adj, x)
    BY <1>3, <2>1, <2>2, OrderedHasNoCycles
  <2>4. PICK T \in SUBSET DOMAIN adj : (\A z \in T \cup {x} : adj[z] \subseteq T) /\ x \notin T
    BY <2>2, <2>3 DEF Leads
  <2>5. PICK U : U = T \cap S
    OBVIOUS
  <2>6. ASSUME NEW z \in U \cup {x} PROVE part[z] \subseteq U
    <3>1. z \in S /\ z \in DOMAIN adj /\ z \in T \cup {x}
      BY <1>3, <1>5, <2>5
    <3>2. part[z] \subseteq adj[z] /\ part[z] \subseteq S
      BY <1>3, <1>4, <1>5, <3>1
    <3> QED BY <2>4, <2>5, <3>1, <3>2
  <2>7. U \in SUBSET DOMAIN part /\ x \notin U
    BY <1>4, <2>4, <2>5
  <2> QED BY <2>6, <2>7 DEF Leads
<1>7. PICK order \in SetToSeqs(DOMAIN part) :
          \A i, j \in DOMAIN order : order[i] \in part[order[j]] => i < j
  <2>1. IsFiniteSet(DOMAIN part) /\ \A z \in DOMAIN part : part[z] \subseteq DOMAIN part
    BY <1>4
  <2> QED BY <1>4, <1>6, <2>1, OrderedWithoutCycles
<1> QED BY <1>1, <1>4, <1>7 DEF ValidateAndSort, TopologicalOrders

\* The chains of a goal, and how long they are.
LEMMA ChainsOf ==
    ASSUME Readable, NEW goal \in DOMAIN tasks, NEW left, left = DOMAIN Unfinished(goal), NEW c
    PROVE  c \in Chains(goal) <=>
               \E n \in 0..Cardinality(left) :
                   /\ c \in [1..n -> left]
                   /\ Len(c) = n
                   /\ \A i \in 2..n : c[i - 1] \in BlockerTargets(tasks, c[i])
<1>1. left = OpenTasks(tasks) \cap ({goal} \cup Needs(goal))
  BY UnfinishedGraph DEF Concerned
<1>2. \A n \in Nat : \A d \in [1..n -> left] : Len(d) = n
  OBVIOUS
<1>3. Cardinality(left) \in Nat
  BY UnfinishedGraph, FS_CardinalityType DEF IsGraph
<1>4. c \in Chains(goal) <=>
          /\ \E n \in 0..Cardinality(left) : c \in [1..n -> left]
          /\ \A i \in 2..Len(c) : c[i - 1] \in BlockerTargets(tasks, c[i])
  BY <1>1 DEF Chains
<1> QED BY <1>2, <1>3, <1>4

\* The critical path of any plan is the one of the depth, and a longest chain.
LEMMA PathIsLongest ==
    ASSUME Readable, Acyclic, NEW goal \in DOMAIN tasks
    PROVE  \E path \in Chains(goal) :
               /\ Plans(tasks, {goal}, TRUE) = {path}
               /\ \A c \in Chains(goal) : Len(c) <= Len(path)
<1>1. PICK sub, adj, left : /\ sub = Restrict(tasks, Closure(tasks, {goal}))
                            /\ adj = Unfinished(goal) /\ left = DOMAIN adj
  OBVIOUS
<1>2. /\ IsGraph(adj) /\ Ranked(DOMAIN adj)
      /\ \A x \in left : adj[x] = BlockerTargets(tasks, x) \cap left
  BY <1>1, UnfinishedGraph
<1>3. PICK n \in Nat : n = Cardinality(left)
  BY <1>1, <1>2, FS_CardinalityType DEF IsGraph
<1>4. PICK order \in ValidateAndSort(sub) : TRUE
  BY <1>1, PlansExist
<1>5. PICK plan : plan = Picked(order, {i \in DOMAIN order : order[i] \in OpenTasks(sub)})
  OBVIOUS
<1>6. EdgesLeadBack(plan, adj)
  BY <1>1, <1>4, <1>5, PlanIsOrder
<1>7. PICK depth : depth = Depths(plan, adj)
  OBVIOUS
<1>8. IsDepth(depth, adj) /\ \A x \in left : depth[x] <= n
  <2>1. IsDepth(depth, adj) /\ \A i \in 1..Len(plan) : depth[plan[i]] <= i
    BY <1>2, <1>6, <1>7, DepthsAreDepth
  <2>2. Len(plan) = n
    BY <1>1, <1>2, <1>3, <1>6, PlanHasAll
  <2>3. ASSUME NEW x \in left PROVE depth[x] <= n
    <3>1. PICK i \in 1..Len(plan) : plan[i] = x
      BY <1>1, <1>6 DEF EdgesLeadBack
    <3>2. depth[x] \in Nat /\ depth[x] <= i
      BY <1>1, <2>1, <3>1 DEF IsDepth
    <3> QED BY <2>2, <3>2
  <2> QED BY <2>1, <2>3
<1>9. PICK path : path = IF left = {} THEN << >> ELSE PathBack(n, adj, depth)
  OBVIOUS
<1>10. ASSUME NEW other, EdgesLeadBack(other, adj) PROVE CriticalPath(sub, other) = path
  <2>1. IsDepth(Depths(other, adj), adj)
    BY <1>2, <1>10, DepthsAreDepth
  <2>2. Depths(other, adj) = depth
    BY <1>2, <1>6, <1>8, <2>1, OneDepth
  <2>3. /\ left = {} => CriticalPath(sub, other) = << >>
        /\ left # {} => CriticalPath(sub, other) = PathBack(n, adj, Depths(other, adj))
    BY <1>1, <1>3, <1>10, CriticalPathOfPlan
  <2> QED BY <1>9, <2>2, <2>3
<1>11. Plans(tasks, {goal}, TRUE) = {path}
  <2>1. Plans(tasks, {goal}, TRUE) =
            {CriticalPath(sub, Picked(o, {i \in DOMAIN o : o[i] \in OpenTasks(sub)})) :
                 o \in ValidateAndSort(sub)}
    BY <1>1 DEF Plans
  <2>2. ASSUME NEW o \in ValidateAndSort(sub)
        PROVE  CriticalPath(sub, Picked(o, {i \in DOMAIN o : o[i] \in OpenTasks(sub)})) = path
    <3>1. PICK p : p = Picked(o, {i \in DOMAIN o : o[i] \in OpenTasks(sub)})
      OBVIOUS
    <3>2. EdgesLeadBack(p, adj)
      BY <1>1, <3>1, PlanIsOrder
    <3> QED BY <1>10, <3>1, <3>2
  <2> QED BY <1>4, <2>1, <2>2
<1>12. CASE left = {}
  <2>1. path = << >> /\ Len(path) = 0 /\ Cardinality(left) = 0
    BY <1>9, <1>12, FS_EmptySet
  <2>2. path \in [1..0 -> left]
    BY <2>1
  <2>3. path \in Chains(goal)
    <3>1. /\ 0 \in 0..Cardinality(left)
          /\ \A i \in 2..0 : path[i - 1] \in BlockerTargets(tasks, path[i])
      BY <2>1
    <3> QED BY <1>1, <2>1, <2>2, <3>1, ChainsOf
  <2>4. ASSUME NEW c \in Chains(goal) PROVE Len(c) <= Len(path)
    BY <1>1, <2>1, ChainsOf
  <2> QED BY <1>11, <2>3, <2>4
<1>13. CASE left # {}
  <2>1. path = PathBack(n, adj, depth)
    BY <1>9, <1>13
  <2>2. /\ IsSeq(path) /\ Len(path) <= n
        /\ \A i \in 1..Len(path) : path[i] \in left
        /\ \A i \in 2..Len(path) : path[i - 1] \in adj[path[i]]
        /\ \A x \in left : depth[x] <= Len(path)
    BY <1>1, <1>2, <1>8, <1>13, <2>1, PathBackIsChain
  <2>3. PICK m \in 0..n : m = Len(path)
    BY <2>2, SeqBasics
  <2>4. path \in [1..m -> left]
    <3>1. \E T : path \in Seq(T)
      BY <2>2 DEF IsSeq
    <3>2. path = [i \in 1..m |-> path[i]]
      BY <2>3, <3>1
    <3> QED BY <2>2, <2>3, <3>2
  <2>5. \A i \in 2..m : path[i - 1] \in BlockerTargets(tasks, path[i])
    <3> SUFFICES ASSUME NEW i \in 2..m PROVE path[i - 1] \in BlockerTargets(tasks, path[i])
      OBVIOUS
    <3>1. i \in 1..m
      OBVIOUS
    <3> QED BY <1>2, <2>2, <2>3, <3>1
  <2>6. path \in Chains(goal)
    BY <1>1, <1>3, <2>3, <2>4, <2>5, ChainsOf
  <2>7. ASSUME NEW c \in Chains(goal) PROVE Len(c) <= Len(path)
    <3>1. PICK k \in 0..n : /\ c \in [1..k -> left] /\ Len(c) = k
                            /\ \A i \in 2..k : c[i - 1] \in BlockerTargets(tasks, c[i])
      BY <1>1, <1>3, <2>7, ChainsOf
    <3>2. CASE k = 0
      BY <2>3, <3>1, <3>2
    <3>3. CASE k # 0
      <4>1. k \in Nat \ {0} /\ \A i \in 1..k : c[i] \in DOMAIN adj
        BY <1>1, <3>1, <3>3
      <4>2. ASSUME NEW i \in 2..k PROVE c[i - 1] \in adj[c[i]]
        <5>1. i \in 1..k /\ i - 1 \in 1..k
          BY <4>1
        <5> QED BY <1>1, <1>2, <3>1, <4>1, <5>1
      <4>3. k <= depth[c[k]]
        BY <1>2, <1>8, <4>1, <4>2, ChainsAreNoLonger
      <4>4. c[k] \in left
        BY <1>1, <4>1
      <4>5. depth[c[k]] \in Nat /\ depth[c[k]] <= Len(path)
        BY <1>1, <1>8, <2>2, <4>4 DEF IsDepth
      <4> QED BY <2>3, <3>1, <4>3, <4>5
    <3> QED BY <3>2, <3>3
  <2> QED BY <1>11, <2>6, <2>7
<1> QED BY <1>12, <1>13

\* For any number of tasks and any order the sort comes up with, a plan can be worked off
\* as it stands; without cycles the critical path is the same for every order, a chain of
\* open tasks that the goal needs, and as long as any.
THEOREM PlansAlwaysRight == Spec => []PlansAreRight
<1>1. Readable => PlansAreRight
  BY PlansCanBeWorkedOff, PathIsLongest DEF PlansAreRight, CriticalPathIsLongest
<1> QED BY <1>1, ReadableInit, ReadableStep, PTL DEF Spec
=============================================================================
