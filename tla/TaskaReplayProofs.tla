------------------------- MODULE TaskaReplayProofs --------------------------
(***************************************************************************)
(* The replay machine for every log: what the incremental state has to do  *)
(* with the log it came from.                                              *)
(***************************************************************************)
EXTENDS TaskaReplay, TaskaFoldProofs

----------------------------------------------------------------------------
(* Fields.                                                                 *)

\* Accumulating makes no value a text, and leaves a text as it is.
LEMMA AccumulateNoText ==
    ASSUME NEW old, NEW v, NEW add
    PROVE  \/ Accumulated(old, v, add) = old
           \/ ~ IsText(old) /\ ~ IsText(Accumulated(old, v, add))
<1>1. CASE IsNumber(v) /\ (old = Null \/ IsNumber(old))
  <2>1. Accumulated(old, v, add) = AccumulateNumbers(old, v, add)
    BY <1>1 DEF Accumulated, IsNumber, IsSet
  <2>2. \E n : AccumulateNumbers(old, v, add) \in {Num(n), Float(n)}
    BY DEF AccumulateNumbers
  <2>3. AccumulateNumbers(old, v, add)[1] \in {"num", "float"}
    BY <2>2 DEF Num, Float
  <2> QED BY <1>1, <2>1, <2>3 DEF IsText, IsNumber, Null
<1>2. CASE ~ (IsNumber(v) /\ (old = Null \/ IsNumber(old))) /\ IsSet(v) /\ (old = Null \/ IsSet(old))
  <2>1. Accumulated(old, v, add) = AccumulateSets(old, v, add)
    BY <1>2 DEF Accumulated
  <2>2. AccumulateSets(old, v, add)[1] = "set"
    BY DEF AccumulateSets, SetOf
  <2> QED BY <1>2, <2>1, <2>2 DEF IsText, IsSet, Null
<1>3. CASE /\ ~ (IsNumber(v) /\ (old = Null \/ IsNumber(old)))
           /\ ~ (IsSet(v) /\ (old = Null \/ IsSet(old)))
  BY <1>3 DEF Accumulated
<1> QED BY <1>1, <1>2, <1>3

\* Accumulating neither closes nor reopens a task.
LEMMA AccumulateKeepsDone ==
    ASSUME NEW fields, NEW payload, NEW add
    PROVE  IsDone(ApplyAccumulate(fields, payload, add)) = IsDone(fields)
<1> DEFINE result == [k \in DOMAIN payload |-> Accumulated(Value(fields, k), payload[k], add)]
           a   == Without(result, {k \in DOMAIN result : result[k] = Null})
           old == Value(fields, StatusKey)
           new == Value(Over(a, fields), StatusKey)
<1>1. ApplyAccumulate(fields, payload, add) = Over(a, fields)
  BY DEF ApplyAccumulate
<1>2. CASE StatusKey \notin DOMAIN a
  <2> HIDE DEF a
  <2> QED BY <1>1, <1>2, Overridden DEF IsDone, Value
<1>3. CASE StatusKey \in DOMAIN a
  <2>1. StatusKey \in DOMAIN result /\ a[StatusKey] = result[StatusKey]
    BY <1>3, Remains
  <2>2. result[StatusKey] = Accumulated(old, payload[StatusKey], add)
    BY <2>1
  <2> HIDE DEF a, result
  <2>3. new = Accumulated(old, payload[StatusKey], add)
    BY <1>3, <2>1, <2>2, Overridden DEF Value
  <2>4. new = old \/ (~ IsText(old) /\ ~ IsText(new))
    BY <2>3, AccumulateNoText
  <2>5. IsDone(Over(a, fields)) = (new \in ClosedStatuses) /\ IsDone(fields) = (old \in ClosedStatuses)
    BY DEF IsDone
  <2> QED BY <1>1, <2>4, <2>5, ReplayAssumption
<1> QED BY <1>2, <1>3

\* Appending to other fields neither closes nor reopens a task.
LEMMA AppendKeepsDone ==
    ASSUME NEW fields, NEW payload, StatusKey \notin DOMAIN payload
    PROVE  IsDone(ApplyAppend(fields, payload)) = IsDone(fields)
<1> DEFINE a == [k \in {j \in DOMAIN payload : payload[j] # Null} |->
                    AppendText(Value(fields, k), payload[k])]
<1>1. ApplyAppend(fields, payload) = Over(a, fields) /\ StatusKey \notin DOMAIN a
  BY DEF ApplyAppend
<1> HIDE DEF a
<1> QED BY <1>1, Overridden DEF IsDone, Value

----------------------------------------------------------------------------
(* One event on one task, and on the task map.                             *)

Sound(t) ==
    /\ IsTask(t)
    /\ NoNulls(t.fields)
    /\ ~ IsDone(t.fields) => t.closed = NoTime

IsDraft(e) == e.op \in EventOps /\ (e.op = "Append" => StatusKey \notin DOMAIN e.payload)

\* What every event does to the task it touches.
Advances(t, e, u) ==
    /\ Sound(u)
    /\ u.updated = e.ts
    /\ u.created = IF e.op = "Create" /\ t.created = NoTime THEN e.ts ELSE t.created
    /\ IsDone(u.fields) => u.closed = IF IsDone(t.fields) THEN t.closed ELSE e.ts

\* Setting fields, for Create and Update.
LEMMA SetAdvances ==
    ASSUME NEW t, Sound(t), NEW e
    PROVE  LET u == SetFields(t, e)
           IN  /\ Sound(u) /\ u.updated = e.ts /\ u.created = t.created
               /\ IsDone(u.fields) => u.closed = IF IsDone(t.fields) THEN t.closed ELSE e.ts
<1> DEFINE f == ApplySet(t.fields, e.payload)
           u == SetFields(t, e)
<1>1. NoNulls(f)
  BY SetStoresNoNull DEF Sound
<1> HIDE DEF f
<1>2. u = [t EXCEPT !.fields = f, !.updated = e.ts, !.closed = RefreshCloseTime(t, f, e.ts)]
  BY DEF SetFields, f
<1>3. /\ IsTask(u) /\ u.fields = f /\ u.updated = e.ts /\ u.created = t.created
      /\ u.closed = RefreshCloseTime(t, f, e.ts)
  BY <1>2 DEF Sound, IsTask
<1> HIDE DEF u
<1>4. ~ IsDone(f) => u.closed = NoTime
  BY <1>3 DEF RefreshCloseTime
<1>5. IsDone(f) => u.closed = IF IsDone(t.fields) THEN t.closed ELSE e.ts
  BY <1>3 DEF RefreshCloseTime
<1> QED BY <1>1, <1>3, <1>4, <1>5 DEF Sound, u

\* Every event but a delete.
LEMMA TouchedAdvances ==
    ASSUME NEW t, Sound(t), NEW e, IsDraft(e), e.op # "Delete"
    PROVE  Advances(t, e, Touched(t, e))
<1> DEFINE u == Touched(t, e)
<1>1. CASE e.op = "Create"
  <2> DEFINE w == SetFields(t, e)
  <2>1. /\ Sound(w) /\ w.updated = e.ts /\ w.created = t.created
        /\ IsDone(w.fields) => w.closed = IF IsDone(t.fields) THEN t.closed ELSE e.ts
    BY SetAdvances
  <2> HIDE DEF w
  <2>2. u = [w EXCEPT !.created = IF t.created = NoTime THEN e.ts ELSE t.created]
    BY <1>1 DEF Touched, w
  <2>3. /\ IsTask(u) /\ u.fields = w.fields /\ u.updated = w.updated /\ u.closed = w.closed
        /\ u.created = IF t.created = NoTime THEN e.ts ELSE t.created
    BY <2>1, <2>2 DEF Sound, IsTask
  <2> HIDE DEF u
  <2> QED BY <1>1, <2>1, <2>3 DEF Advances, Sound, u
<1>2. CASE e.op = "Update"
  <2>1. u = SetFields(t, e)
    BY <1>2 DEF Touched
  <2> QED BY <1>2, <2>1, SetAdvances DEF Advances
<1>3. CASE e.op = "Append"
  <2> DEFINE f == ApplyAppend(t.fields, e.payload)
  <2>1. NoNulls(f) /\ IsDone(f) = IsDone(t.fields)
    BY <1>3, AppendStoresNoNull, AppendKeepsDone DEF Sound, IsDraft
  <2> HIDE DEF f
  <2>2. u = [t EXCEPT !.fields = f, !.updated = e.ts]
    BY <1>3 DEF Touched, f
  <2>3. /\ IsTask(u) /\ u.fields = f /\ u.updated = e.ts
        /\ u.created = t.created /\ u.closed = t.closed
    BY <2>2 DEF Sound, IsTask
  <2> HIDE DEF u
  <2> QED BY <1>3, <2>1, <2>3 DEF Advances, Sound, u
<1>4. CASE e.op \in {"Add", "Remove"}
  <2> DEFINE f == ApplyAccumulate(t.fields, e.payload, e.op = "Add")
  <2>1. NoNulls(f) /\ IsDone(f) = IsDone(t.fields)
    BY AccumulateStoresNoNull, AccumulateKeepsDone DEF Sound
  <2> HIDE DEF f
  <2>2. u = [t EXCEPT !.fields = f, !.updated = e.ts]
    BY <1>4 DEF Touched, f
  <2>3. /\ IsTask(u) /\ u.fields = f /\ u.updated = e.ts
        /\ u.created = t.created /\ u.closed = t.closed
    BY <2>2 DEF Sound, IsTask
  <2> HIDE DEF u
  <2> QED BY <1>4, <2>1, <2>3 DEF Advances, Sound, u
<1>5. CASE e.op \in {"AddEdge", "RemoveEdge"}
  <2>1. \E edges : u = [t EXCEPT !.edges = edges, !.updated = e.ts]
    BY <1>5 DEF Touched
  <2>2. /\ IsTask(u) /\ u.fields = t.fields /\ u.updated = e.ts
        /\ u.created = t.created /\ u.closed = t.closed
    BY <2>1 DEF Sound, IsTask
  <2> HIDE DEF u
  <2> QED BY <1>5, <2>2 DEF Advances, Sound, u
<1> QED BY <1>1, <1>2, <1>3, <1>4, <1>5 DEF IsDraft, EventOps

\* A task that does not exist yet is sound, and open.
LEMMA NewTaskSound ==
    Sound(NewTask) /\ NewTask.created = NoTime /\ ~ IsDone(NewTask.fields)
<1>1. Null \notin ClosedStatuses
  BY ReplayAssumption DEF IsText, Null
<1> QED BY <1>1 DEF Sound, NewTask, IsTask, NoNulls, IsDone, Value

----------------------------------------------------------------------------
(* The machine.                                                            *)

\* The log is numbered from 1, and what it holds are drafts with a time.
Numbered ==
    /\ IsSeq(log)
    /\ \A i \in 1..Len(log) :
          log[i].seq = i /\ log[i].ts \in Times /\ IsDraft(log[i])

\* The state is kept up, event by event, and is the one replay computes.
KeptUp == tasks = Materialize(<< >>, log)

AllSound == \A id \in DOMAIN tasks : Sound(tasks[id])

Basics == Numbered /\ KeptUp /\ AllSound

Event(d, ts) ==
    [seq |-> Len(log) + 1, ts |-> ts, op |-> d.op, id |-> d.id, payload |-> d.payload]

\* What a step adds, with everything the proofs of the invariants need to know.
LEMMA StepFacts ==
    ASSUME Numbered, NEW d \in Drafts, NEW ts \in Times, Replay(d, ts)
    PROVE  LET e == Event(d, ts)
               n == Len(log)
           IN  /\ log' = Append(log, e) /\ tasks' = Apply(tasks, e)
               /\ n \in Nat /\ IsSeq(log') /\ Len(log') = n + 1
               /\ \A i \in 1..n : log'[i] = log[i]
               /\ log'[n + 1] = e
               /\ e.seq = n + 1 /\ e.ts = ts /\ e.op = d.op /\ e.id = d.id /\ IsDraft(e)
<1> DEFINE e == Event(d, ts)
<1>1. log' = Append(log, e) /\ tasks' = Apply(tasks, e)
  BY DEF Replay, Event
<1>2. e.seq = Len(log) + 1 /\ e.ts = ts /\ e.op = d.op /\ e.id = d.id /\ e.payload = d.payload
  BY DEF Event
<1>3. IsDraft(e)
  BY <1>2, ReplayAssumption DEF IsDraft
<1> HIDE DEF e
<1>4. IsSeq(log) /\ Len(log) \in Nat
  BY SeqBasics DEF Numbered
<1>5. /\ IsSeq(log') /\ Len(log') = Len(log) + 1
      /\ \A i \in 1..Len(log) : log'[i] = log[i]
      /\ log'[Len(log) + 1] = e
  BY <1>1, <1>4, SeqAppend
<1> QED BY <1>1, <1>2, <1>3, <1>4, <1>5 DEF e

LEMMA BasicsInit == Init => Basics
<1> SUFFICES ASSUME Init PROVE Basics
  OBVIOUS
<1>1. IsSeq(<< >>) /\ Len(<< >>) = 0
  BY DEF IsSeq
<1>2. Numbered
  BY <1>1 DEF Init, Numbered
<1>3. KeptUp
  BY MaterializeEmpty DEF Init, KeptUp
<1>4. AllSound
  BY DEF Init, AllSound
<1> QED BY <1>2, <1>3, <1>4 DEF Basics

LEMMA BasicsStep == Basics /\ [Next]_vars => Basics'
<1> SUFFICES ASSUME Basics, [Next]_vars PROVE Basics'
  OBVIOUS
<1> USE DEF Basics
<1>1. ASSUME NEW d \in Drafts, NEW ts \in Times, Replay(d, ts) PROVE Basics'
  <2> DEFINE e == Event(d, ts)
             n == Len(log)
  <2>1. /\ log' = Append(log, e) /\ tasks' = Apply(tasks, e)
        /\ n \in Nat /\ IsSeq(log') /\ Len(log') = n + 1
        /\ \A i \in 1..n : log'[i] = log[i]
        /\ log'[n + 1] = e
        /\ e.seq = n + 1 /\ e.ts = ts /\ e.op = d.op /\ e.id = d.id /\ IsDraft(e)
    BY <1>1, StepFacts
  <2> HIDE DEF e
  <2>2. Numbered'
    <3>1. ASSUME NEW i \in 1..(n + 1)
          PROVE  log'[i].seq = i /\ log'[i].ts \in Times /\ IsDraft(log'[i])
      <4>1. CASE i = n + 1
        BY <2>1, <4>1
      <4>2. CASE i # n + 1
        <5>1. i \in 1..n
          BY <2>1, <4>2
        <5> QED BY <2>1, <5>1 DEF Numbered
      <4> QED BY <4>1, <4>2
    <3> QED BY <2>1, <3>1 DEF Numbered, IsDraft
  <2>3. KeptUp'
    BY <2>1, MaterializeAppend DEF KeptUp, Numbered
  <2>4. AllSound'
    <3>1. ASSUME NEW id \in DOMAIN tasks' PROVE Sound(tasks'[id])
      <4>1. CASE id # e.id
        BY <2>1, <4>1, ApplyFrame DEF AllSound
      <4>2. CASE id = e.id
        <5>1. e.op # "Delete" /\ tasks'[id] = Touched(Before(tasks, e), e)
          BY <2>1, <4>2, ApplyFrame
        <5>2. Sound(Before(tasks, e))
          BY NewTaskSound DEF Before, AllSound
        <5> QED BY <2>1, <5>1, <5>2, TouchedAdvances DEF Advances
      <4> QED BY <4>1, <4>2
    <3> QED BY <3>1 DEF AllSound, Sound, IsTask, NoNulls, IsDone, Value
  <2> QED BY <2>2, <2>3, <2>4
<1>2. CASE UNCHANGED vars
  BY <1>2 DEF vars, Numbered, IsDraft, KeptUp, AllSound, Sound, IsTask, NoNulls, IsDone, Value
<1> QED BY <1>1, <1>2 DEF Next

LEMMA BasicsAlways == Spec => []Basics
BY BasicsInit, BasicsStep, PTL DEF Spec

\* Every log the machine reaches is ordered, and no task ever holds a null or lacks
\* a part of its record, whatever the values and however operands mismatch.
THEOREM TypeCorrectness == Spec => []TypeOK
<1>1. Basics => TypeOK
  <2> SUFFICES ASSUME Basics PROVE TypeOK
    OBVIOUS
  <2>1. Len(log) \in Nat /\ DOMAIN log = 1..Len(log)
    BY SeqBasics DEF Basics, Numbered
  <2>2. SeqOrdered(log)
    BY <2>1 DEF Basics, Numbered, SeqOrdered
  <2>3. \A id \in DOMAIN tasks :
            /\ DOMAIN tasks[id] = DOMAIN NewTask
            /\ \A k \in DOMAIN tasks[id].fields : tasks[id].fields[k] # Null
    BY DEF Basics, AllSound, Sound, IsTask, NoNulls, NewTask
  <2> QED BY <2>2, <2>3 DEF TypeOK
<1> QED BY <1>1, BasicsAlways, PTL

----------------------------------------------------------------------------
(* The times.                                                              *)

\* A task exists if and only if it was created and not deleted since.
BornMeansThere == \A id : id \in DOMAIN tasks <=> Births(id) # {}

TimesInv == BornMeansThere /\ TimesFollowTheLog

\* The events of a task, and its creates, after one more event.
LEMMA BirthsStep ==
    ASSUME Numbered, NEW d \in Drafts, NEW ts \in Times, Replay(d, ts), NEW id
    PROVE  LET e == Event(d, ts)
               n == Len(log)
           IN  /\ Mine(id)' = IF e.id = id THEN Mine(id) \cup {n + 1} ELSE Mine(id)
               /\ Births(id)' = IF e.id # id THEN Births(id)
                                ELSE IF e.op = "Delete" THEN {}
                                ELSE IF e.op = "Create" THEN Births(id) \cup {n + 1}
                                ELSE Births(id)
<1> DEFINE e == Event(d, ts)
           n == Len(log)
<1>1. /\ n \in Nat /\ IsSeq(log') /\ Len(log') = n + 1
      /\ \A i \in 1..n : log'[i] = log[i]
      /\ log'[n + 1] = e
  BY StepFacts
<1>2. DOMAIN log = 1..n /\ DOMAIN log' = 1..(n + 1)
  BY <1>1, SeqBasics DEF Numbered
<1> HIDE DEF e
<1>3. \A i : i \in DOMAIN log' <=> i \in DOMAIN log \/ i = n + 1
  BY <1>1, <1>2
<1>4. \A i \in DOMAIN log : log'[i] = log[i] /\ i # n + 1 /\ i < n + 1 /\ ~ (n + 1 < i)
  BY <1>1, <1>2
<1> HIDE DEF n
<1>5. Mine(id)' = {i \in DOMAIN log' : log'[i].id = id}
  BY DEF Mine
<1>6. \A i : i \in Mine(id)' <=> i \in Mine(id) \/ (i = n + 1 /\ e.id = id)
  BY <1>1, <1>3, <1>4, <1>5 DEF Mine
<1>7. Births(id)' = {i \in Mine(id)' : /\ log'[i].op = "Create"
                                      /\ \A j \in Mine(id)' : log'[j].op = "Delete" => j < i}
  BY DEF Births
<1>8. ~ (n + 1 < n + 1)
  BY <1>1 DEF n
<1>9. \A i \in Mine(id) : i \in DOMAIN log
  BY DEF Mine
<1>10. \A i : i \in Births(id)' <=>
           \/ i \in Births(id) /\ ~ (e.id = id /\ e.op = "Delete")
           \/ i = n + 1 /\ e.id = id /\ e.op = "Create"
  <2>1. ASSUME NEW i \in Mine(id)
        PROVE  i \in Births(id)' <=> i \in Births(id) /\ ~ (e.id = id /\ e.op = "Delete")
    BY <1>1, <1>4, <1>6, <1>7, <1>9, <2>1 DEF Births
  <2>2. ASSUME NEW i, i = n + 1, e.id = id
        PROVE  i \in Births(id)' <=> e.op = "Create"
    BY <1>1, <1>4, <1>6, <1>7, <1>8, <1>9, <2>2
  <2>3. \A i \in Births(id) : i \in Mine(id)
    BY DEF Births
  <2>4. \A i \in Births(id)' : i \in Mine(id)'
    BY <1>7
  <2> QED BY <1>6, <1>9, <1>4, <2>1, <2>2, <2>3, <2>4
<1> QED BY <1>6, <1>10 DEF e, n

LEMMA TimesInit == Init => TimesInv
  BY DEF Init, TimesInv, BornMeansThere, TimesFollowTheLog, Births, Mine

LEMMA TimesStep == Basics /\ Basics' /\ TimesInv /\ [Next]_vars => TimesInv'
<1> SUFFICES ASSUME Basics, Basics', TimesInv, [Next]_vars PROVE TimesInv'
  OBVIOUS
<1>1. ASSUME NEW d \in Drafts, NEW ts \in Times, Replay(d, ts) PROVE TimesInv'
  <2> DEFINE e == Event(d, ts)
             n == Len(log)
  <2>1. /\ log' = Append(log, e) /\ tasks' = Apply(tasks, e)
        /\ n \in Nat /\ IsSeq(log') /\ Len(log') = n + 1
        /\ \A i \in 1..n : log'[i] = log[i]
        /\ log'[n + 1] = e
        /\ e.seq = n + 1 /\ e.ts = ts /\ e.op = d.op /\ e.id = d.id /\ IsDraft(e)
    BY <1>1, StepFacts DEF Basics
  <2>2. \A id : /\ Mine(id)' = IF e.id = id THEN Mine(id) \cup {n + 1} ELSE Mine(id)
                /\ Births(id)' = IF e.id # id THEN Births(id)
                                 ELSE IF e.op = "Delete" THEN {}
                                 ELSE IF e.op = "Create" THEN Births(id) \cup {n + 1}
                                 ELSE Births(id)
    BY <1>1, BirthsStep DEF Basics
  <2> HIDE DEF e
  <2>3. \A id : Births(id) \subseteq Mine(id) /\ Mine(id) \subseteq 1..n
    BY SeqBasics DEF Births, Mine, Basics, Numbered
  <2>4. BornMeansThere'
    <3>1. ASSUME NEW id PROVE id \in DOMAIN tasks' <=> Births(id)' # {}
      <4>1. id \in DOMAIN tasks <=> Births(id) # {}
        BY DEF TimesInv, BornMeansThere
      <4>2. CASE e.id # id
        BY <2>1, <2>2, <4>1, <4>2, ApplyFrame
      <4>3. CASE e.id = id
        <5>1. id \in DOMAIN tasks' <=> /\ e.op # "Delete"
                                       /\ id \in DOMAIN tasks \/ e.op = "Create"
          BY <2>1, <4>3, ApplyFrame
        <5> QED BY <2>2, <4>1, <4>3, <5>1
      <4> QED BY <4>2, <4>3
    <3> QED BY <3>1 DEF BornMeansThere
  <2>5. ASSUME NEW id \in DOMAIN tasks'
        PROVE  /\ tasks'[id].created = log'[Min(Births(id)')].ts
               /\ tasks'[id].updated = log'[Max(Mine(id)')].ts
    <3>1. CASE e.id # id
      <4>1. id \in DOMAIN tasks /\ tasks'[id] = tasks[id]
        BY <2>1, <3>1, ApplyFrame
      <4>2. /\ tasks[id].created = log[Min(Births(id))].ts
            /\ tasks[id].updated = log[Max(Mine(id))].ts
        BY <4>1 DEF TimesInv, TimesFollowTheLog
      <4>3. Births(id) # {}
        BY <4>1 DEF TimesInv, BornMeansThere
      <4>4. Min(Births(id)) \in 1..n
        BY <2>1, <2>3, <4>3, MinAndMaxIn
      <4>5. Max(Mine(id)) \in 1..n
        BY <2>1, <2>3, <4>3, MinAndMaxIn
      <4>6. Births(id)' = Births(id) /\ Mine(id)' = Mine(id)
        BY <2>2, <3>1
      <4> QED BY <2>1, <4>1, <4>2, <4>4, <4>5, <4>6
    <3>2. CASE e.id = id
      <4>1. e.op # "Delete" /\ tasks'[id] = Touched(Before(tasks, e), e)
        BY <2>1, <3>2, ApplyFrame
      <4>2. Advances(Before(tasks, e), e, tasks'[id])
        <5>1. Sound(Before(tasks, e))
          BY NewTaskSound DEF Before, Basics, AllSound
        <5> QED BY <2>1, <4>1, <5>1, TouchedAdvances
      <4>3. tasks'[id].updated = log'[Max(Mine(id)')].ts
        <5>1. n + 1 \in Mine(id)' /\ \A y \in Mine(id)' : y \in Int /\ n + 1 >= y
          BY <2>1, <2>2, <2>3, <3>2
        <5>2. Max(Mine(id)') = n + 1
          BY <5>1, MaxOf
        <5> QED BY <2>1, <4>2, <5>2 DEF Advances
      <4>4. CASE id \notin DOMAIN tasks
        <5>1. Births(id) = {} /\ e.op = "Create"
          BY <2>1, <3>2, <4>4, ApplyFrame DEF TimesInv, BornMeansThere
        <5>2. n + 1 \in Births(id)' /\ \A y \in Births(id)' : y \in Int /\ n + 1 <= y
          BY <2>1, <2>2, <3>2, <5>1
        <5>3. Min(Births(id)') = n + 1
          BY <5>2, MinOf
        <5>4. Before(tasks, e).created = NoTime
          BY <3>2, <4>4, NewTaskSound DEF Before
        <5> QED BY <2>1, <4>2, <4>3, <5>1, <5>3, <5>4 DEF Advances
      <4>5. CASE id \in DOMAIN tasks
        <5>1. Births(id) # {} /\ tasks[id].created = log[Min(Births(id))].ts
          BY <4>5 DEF TimesInv, BornMeansThere, TimesFollowTheLog
        <5>2. PICK least \in Births(id) : Min(Births(id)) = least /\ \A y \in Births(id) : least <= y
          BY <2>1, <2>3, <5>1, MinAndMaxIn
        <5>3. \A y \in Births(id) : y \in Int /\ least <= y
          BY <2>3, <5>2
        <5>4. Min(Births(id)) = least
          BY <5>2
        <5>5. least \in Births(id)' /\ \A y \in Births(id)' : y \in Int /\ least <= y
          <6>1. least \in 1..n
            BY <2>3
          <6>2. least \in Births(id)'
            BY <2>2, <3>2, <4>1
          <6>3. \A y : y \in Births(id)' => y \in Births(id) \/ y = n + 1
            BY <2>2, <3>2, <4>1
          <6>4. ASSUME NEW y \in Births(id)' PROVE y \in Int /\ least <= y
            <7>1. CASE y \in Births(id)
              BY <5>3, <7>1
            <7>2. CASE y = n + 1
              BY <2>1, <6>1, <7>2
            <7> QED BY <6>3, <7>1, <7>2
          <6> QED BY <6>2, <6>4
        <5>6. Min(Births(id)') = least
          BY <5>5, MinOf
        <5>7. log'[least].ts = log[least].ts /\ log[least].ts \in Times
          <6>1. least \in 1..n
            BY <2>3
          <6> QED BY <2>1, <6>1 DEF Basics, Numbered
        <5>8. Before(tasks, e).created # NoTime
          BY <3>2, <4>5, <5>1, <5>4, <5>7, ReplayAssumption DEF Before
        <5>9. tasks'[id].created = tasks[id].created
          BY <3>2, <4>2, <4>5, <5>8 DEF Advances, Before
        <5> QED BY <4>3, <5>1, <5>4, <5>6, <5>7, <5>9
      <4> QED BY <4>4, <4>5
    <3> QED BY <3>1, <3>2
  <2>6. TimesFollowTheLog'
    BY <2>5 DEF TimesFollowTheLog
  <2> QED BY <2>4, <2>6 DEF TimesInv
<1>2. CASE UNCHANGED vars
  BY <1>2 DEF vars, TimesInv, BornMeansThere, TimesFollowTheLog, Births, Mine
<1> QED BY <1>1, <1>2 DEF Next

\* create_time is that of the first create since the last delete, update_time that of
\* the last event, for logs of every length and clocks that run as they like.
THEOREM TimesAreRight == Spec => []TimesFollowTheLog
<1>1. Spec => []TimesInv
  BY BasicsAlways, TimesInit, TimesStep, PTL DEF Spec
<1>2. TimesInv => TimesFollowTheLog
  BY DEF TimesInv
<1> QED BY <1>1, <1>2, PTL
----------------------------------------------------------------------------
(* The close time.                                                         *)

\* The task is there, and closed.
ClosedNow(id) == id \in DOMAIN tasks /\ IsDone(tasks[id].fields)

\* What the log says of the task before the step and after it.
LEMMA ClosingsStep ==
    ASSUME Basics, Basics', NEW d \in Drafts, NEW ts \in Times, Replay(d, ts), NEW id
    PROVE  \A i : i \in Closings(id)' <=>
               \/ i \in Closings(id)
               \/ i = Len(log) + 1 /\ ClosedNow(id)' /\ ~ ClosedNow(id)
<1> DEFINE e == Event(d, ts)
<1>0. PICK n \in Nat : n = Len(log)
  BY SeqBasics DEF Basics, Numbered
<1>1. /\ log' = Append(log, e) /\ n = Len(log)
      /\ n \in Nat /\ IsSeq(log') /\ Len(log') = n + 1 /\ IsSeq(log)
  BY <1>0, StepFacts DEF Basics, Numbered
<1>2. DOMAIN log = 1..n /\ DOMAIN log' = 1..(n + 1)
  BY <1>1, SeqBasics
<1> HIDE DEF e
<1>3. \A i \in 0..n : After(i)' = After(i)
  <2>1. \A i \in 0..n : SubSeq(log', 1, i) = SubSeq(log, 1, i)
    BY <1>1, AppendKeepsPrefix
  <2> QED BY <2>1 DEF After
<1>4. After(n) = tasks
  BY <1>1, WholePrefix DEF After, Basics, KeptUp
<1>5. After(n + 1)' = tasks'
  <2>1. SubSeq(log', 1, n + 1) = log'
    BY <1>1, WholePrefix
  <2> QED BY <2>1 DEF After, Basics, KeptUp
<1>6. \A i \in DOMAIN log : i \in 0..n /\ i - 1 \in 0..n /\ i # n + 1
  BY <1>1, <1>2
<1>7. \A i \in 0..n : ClosedAfter(i, id)' <=> ClosedAfter(i, id)
  BY <1>3 DEF ClosedAfter, IsDone, Value
<1>8. ClosedAfter(n, id) <=> ClosedNow(id)
  BY <1>4 DEF ClosedAfter, ClosedNow
<1>9. ClosedAfter(n + 1, id)' <=> ClosedNow(id)'
  BY <1>5 DEF ClosedAfter, ClosedNow, IsDone, Value
<1>10. Closings(id)' = {i \in DOMAIN log' : ClosedAfter(i, id)' /\ ~ ClosedAfter(i - 1, id)'}
  BY DEF Closings, ClosedAfter, After
<1>11. ASSUME NEW i \in DOMAIN log PROVE i \in Closings(id)' <=> i \in Closings(id)
  <2>1. i \in DOMAIN log'
    BY <1>1, <1>2
  <2> QED BY <1>6, <1>7, <1>10, <2>1 DEF Closings
<1>12. n + 1 \in Closings(id)' <=> ClosedNow(id)' /\ ~ ClosedNow(id)
  <2>1. n + 1 \in DOMAIN log' /\ n \in 0..n /\ (n + 1) - 1 = n
    BY <1>1, <1>2
  <2>2. n + 1 \in Closings(id)' <=> ClosedAfter(n + 1, id)' /\ ~ ClosedAfter((n + 1) - 1, id)'
    BY <1>10, <2>1
  <2> QED BY <1>7, <1>8, <1>9, <2>1, <2>2
<1>13. \A i : i \in DOMAIN log' <=> i \in DOMAIN log \/ i = n + 1
  BY <1>1, <1>2
<1>14. \A i \in Closings(id)' : i \in DOMAIN log'
  BY <1>10
<1>15. \A i \in Closings(id) : i \in DOMAIN log
  BY DEF Closings
<1> QED BY <1>6, <1>11, <1>12, <1>13, <1>14, <1>15, <1>0

ClosedInv ==
    \A id : ClosedNow(id) => /\ Closings(id) # {}
                             /\ tasks[id].closed = log[Max(Closings(id))].ts

LEMMA ClosedInit == Init => ClosedInv
  BY DEF Init, ClosedInv, ClosedNow

LEMMA ClosedStep == Basics /\ Basics' /\ ClosedInv /\ [Next]_vars => ClosedInv'
<1> SUFFICES ASSUME Basics, Basics', ClosedInv, [Next]_vars PROVE ClosedInv'
  OBVIOUS
<1>1. ASSUME NEW d \in Drafts, NEW ts \in Times, Replay(d, ts), NEW id, ClosedNow(id)'
      PROVE  /\ Closings(id)' # {}
             /\ tasks'[id].closed = log'[Max(Closings(id)')].ts
  <2> DEFINE e == Event(d, ts)
             n == Len(log)
  <2>1. /\ tasks' = Apply(tasks, e)
        /\ n \in Nat /\ IsSeq(log') /\ Len(log') = n + 1
        /\ \A i \in 1..n : log'[i] = log[i]
        /\ log'[n + 1] = e
        /\ e.ts = ts /\ IsDraft(e)
    BY <1>1, StepFacts DEF Basics
  <2>2. \A i : i \in Closings(id)' <=>
            i \in Closings(id) \/ (i = n + 1 /\ ClosedNow(id)' /\ ~ ClosedNow(id))
    BY <1>1, ClosingsStep
  <2> HIDE DEF e
  <2>3. \A i \in Closings(id) : i \in 1..n
    BY SeqBasics DEF Closings, Basics, Numbered
  <2>4. CASE ClosedNow(id)
    <3>1. tasks'[id].closed = tasks[id].closed
      <4>1. CASE e.id # id
        BY <2>1, <2>4, <4>1, ApplyFrame DEF ClosedNow
      <4>2. CASE e.id = id
        <5>1. Before(tasks, e) = tasks[id]
          BY <2>4, <4>2 DEF Before, ClosedNow
        <5>2. e.op # "Delete" /\ tasks'[id] = Touched(tasks[id], e)
          BY <1>1, <2>1, <4>2, <5>1, ApplyFrame DEF ClosedNow
        <5>3. Advances(tasks[id], e, tasks'[id])
          BY <2>1, <2>4, <5>2, TouchedAdvances DEF Basics, AllSound, ClosedNow
        <5>4. IsDone(tasks'[id].fields) /\ IsDone(tasks[id].fields)
          BY <1>1, <2>4 DEF ClosedNow, IsDone, Value
        <5> QED BY <5>3, <5>4 DEF Advances
      <4> QED BY <4>1, <4>2
    <3>2. Closings(id)' = Closings(id)
      BY <2>2, <2>4
    <3>3. Closings(id) # {} /\ tasks[id].closed = log[Max(Closings(id))].ts
      BY <2>4 DEF ClosedInv
    <3>4. Max(Closings(id)) \in 1..n
      BY <2>1, <2>3, <3>3, MinAndMaxIn
    <3> QED BY <2>1, <3>1, <3>2, <3>3, <3>4
  <2>5. CASE ~ ClosedNow(id)
    <3>1. n + 1 \in Closings(id)' /\ \A y \in Closings(id)' : y \in Int /\ n + 1 >= y
      BY <1>1, <2>1, <2>2, <2>3, <2>5
    <3>2. Max(Closings(id)') = n + 1
      BY <3>1, MaxOf
    <3>3. tasks'[id].closed = e.ts
      <4>1. id \in DOMAIN tasks' /\ IsDone(tasks'[id].fields)
        BY <1>1 DEF ClosedNow, IsDone, Value
      <4>2. e.id = id
        BY <2>1, <2>5, <4>1, ApplyFrame DEF ClosedNow
      <4>3. e.op # "Delete" /\ tasks'[id] = Touched(Before(tasks, e), e)
        BY <2>1, <4>1, <4>2, ApplyFrame
      <4>4. Sound(Before(tasks, e)) /\ ~ IsDone(Before(tasks, e).fields)
        BY <2>5, <4>2, NewTaskSound DEF Before, Basics, AllSound, ClosedNow
      <4>5. Advances(Before(tasks, e), e, tasks'[id])
        BY <2>1, <4>3, <4>4, TouchedAdvances
      <4> QED BY <4>1, <4>4, <4>5 DEF Advances
    <3> QED BY <2>1, <3>1, <3>2, <3>3
  <2> QED BY <2>4, <2>5
<1>2. CASE UNCHANGED vars
  BY <1>2 DEF vars, ClosedInv, ClosedNow, Closings, ClosedAfter, After, IsDone, Value
<1>3. CASE Next
  BY <1>1, <1>3 DEF Next, ClosedInv
<1> QED BY <1>2, <1>3

\* A closed task's close time is the time of the event that closed it last, an open
\* one has none: for every log, however often the status moves, the task is deleted
\* and created again, or the clocks step back.
THEOREM CloseTimeIsRight == Spec => []CloseTimeIsLastClosing
<1>1. Spec => []ClosedInv
  BY BasicsAlways, ClosedInit, ClosedStep, PTL DEF Spec
<1>2. Basics /\ ClosedInv => CloseTimeIsLastClosing
  <2> SUFFICES ASSUME Basics, ClosedInv, NEW id \in DOMAIN tasks
               PROVE  tasks[id].closed = IF ClosedAfter(Len(log), id)
                                         THEN log[Max(Closings(id))].ts ELSE NoTime
    BY DEF CloseTimeIsLastClosing
  <2>1. After(Len(log)) = tasks
    BY WholePrefix DEF After, Basics, Numbered, KeptUp
  <2>2. ClosedAfter(Len(log), id) <=> IsDone(tasks[id].fields)
    BY <2>1 DEF ClosedAfter
  <2> QED BY <2>2 DEF ClosedInv, ClosedNow, Basics, AllSound, Sound
<1> QED BY <1>1, <1>2, BasicsAlways, PTL

----------------------------------------------------------------------------
(* Retention.                                                              *)

\* Compaction keeps exactly what the two windows cover and the last event, for every
\* log, however far apart its timestamps and in whatever order (retention_split).
THEOREM RetentionIsRight == Spec => []RetentionIsExact
<1>1. Basics => RetentionIsExact
  <2> SUFFICES ASSUME Basics, NEW keep \in 0..MaxLen, NEW days \in 0..2, NEW now \in Times,
                      NEW i \in DOMAIN log
               PROVE  i > RetentionSplit(log, keep, days, now) <=>
                          \/ i = Len(log)
                          \/ i > Len(log) - keep
                          \/ days # 0 /\ \E j \in 1..i : log[j].ts >= now - days
    BY DEF RetentionIsExact
  <2> DEFINE n       == Len(log)
             recent  == {j \in 1..n : log[j].ts >= now - days}
             byCount == Max({n - keep, 0})
             byTime  == IF days = 0 \/ recent = {} THEN n ELSE Min(recent) - 1
             byLast  == Max({n - 1, 0})
  <2>1. n \in Nat /\ i \in 1..n /\ keep \in Nat
    BY SeqBasics, ReplayAssumption DEF Basics, Numbered
  <2>2. RetentionSplit(log, keep, days, now) = Min({byCount, byTime, byLast})
    BY DEF RetentionSplit
  <2>3. byCount \in Int /\ (i > byCount <=> i > n - keep)
    BY <2>1, MaxWithZero
  <2>4. byLast \in Int /\ (i > byLast <=> i = n)
    BY <2>1, MaxWithZero
  <2>5. /\ byTime \in Int
        /\ i > byTime <=> days # 0 /\ \E j \in 1..i : log[j].ts >= now - days
    <3>1. \A j : j \in recent <=> j \in 1..n /\ log[j].ts >= now - days
      OBVIOUS
    <3>2. CASE days = 0
      BY <2>1, <3>2
    <3>3. CASE days # 0 /\ recent = {}
      <4>1. byTime = n
        BY <3>3
      <4>2. ~ \E j \in 1..i : log[j].ts >= now - days
        BY <2>1, <3>1, <3>3
      <4> QED BY <2>1, <3>3, <4>1, <4>2
    <3>4. CASE days # 0 /\ recent # {}
      <4>1. \A j \in recent : j \in 1..n
        BY <3>1
      <4> HIDE DEF recent
      <4>2. PICK first \in recent : Min(recent) = first /\ \A y \in recent : first <= y
        BY <2>1, <3>4, <4>1, MinAndMaxIn
      <4>4. byTime = first - 1
        BY <3>4, <4>2
      <4>5. first \in 1..n /\ log[first].ts >= now - days
        BY <3>1
      <4> HIDE DEF byTime, n
      <4>6. i > byTime <=> first <= i
        BY <2>1, <4>4, <4>5
      <4>7. first <= i <=> \E j \in 1..i : log[j].ts >= now - days
        <5>1. ASSUME NEW j \in 1..i, log[j].ts >= now - days PROVE first <= i
          <6>1. j \in recent
            BY <2>1, <3>1, <5>1
          <6> QED BY <2>1, <4>2, <4>5, <5>1, <6>1
        <5>2. first <= i => first \in 1..i
          BY <2>1, <4>5
        <5> QED BY <4>5, <5>1, <5>2
      <4> QED BY <3>4, <4>4, <4>5, <4>6, <4>7
    <3> QED BY <3>2, <3>3, <3>4
  <2> HIDE DEF byCount, byTime, byLast
  <2>6. i > Min({byCount, byTime, byLast}) <=> i > byCount \/ i > byTime \/ i > byLast
    BY <2>1, <2>3, <2>4, <2>5, OverMinOfThree
  <2> QED BY <2>2, <2>3, <2>4, <2>5, <2>6
<1> QED BY <1>1, BasicsAlways, PTL

----------------------------------------------------------------------------
(* Orphans.                                                                *)

\* Resolve may drop all orphans of a log at once: no task changes, and no event that
\* was fine becomes an orphan.
THEOREM OrphansMayGo == Spec => []OrphansAreNeutral
<1>1. Basics => OrphansAreNeutral
  <2> SUFFICES ASSUME Basics PROVE OrphansAreNeutral
    OBVIOUS
  <2>1. IsSeq(log) /\ DistinctSeqs(log)
    BY DEF Basics, Numbered, DistinctSeqs
  <2>2. tasks = Materialize(<< >>, log)
    BY DEF Basics, KeptUp
  <2> QED BY <2>1, <2>2, DroppingOrphansChangesNothing DEF OrphansAreNeutral
<1> QED BY <1>1, BasicsAlways, PTL
----------------------------------------------------------------------------
(* Sums and sets.                                                          *)

EdgeOps == {"AddEdge", "RemoveEdge"}
SumOps  == {"Add", "Remove"}

\* The numbers among some fields are exact, and at most as large as this.
WithinSize(fields, size) ==
    \A k \in DOMAIN fields : IsNumber(fields[k]) => \E n \in (-size)..size : fields[k] = Num(n)

Modest(e, size) == e.op \notin EdgeOps => WithinSize(e.payload, size)

\* No field is summed up by one event and collected into by another.
OneKind(d, e) ==
    d.op \in SumOps /\ e.op \in SumOps =>
        \A k \in DOMAIN d.payload \cap DOMAIN e.payload :
            ~ (IsNumber(d.payload[k]) /\ IsSet(e.payload[k]))

\* Whatever a log of the drafts adds up stays exact, and fields have one kind each.
SumsAreExact(size) ==
    /\ MaxLen * size <= IntMax
    /\ \A d \in Drafts : Modest(d, size)
    /\ \A d, e \in Drafts : OneKind(d, e)

Added(old, v) == Accumulated(old, v, TRUE)
TakenOff(old, v) == Accumulated(old, v, FALSE)

\* An integer of 64 bits.
Exact(n) == n \in Int /\ -IntMax <= n /\ n <= IntMax

LEMMA AccumulateNumber ==
    ASSUME NEW old, NEW c \in Int, (old = Null /\ c = 0) \/ old = Num(c), NEW x \in Int,
           Exact(c + x), Exact(c - x)
    PROVE  /\ Added(old, Num(x)) = Num(c + x)
           /\ TakenOff(old, Num(x)) = Num(c - x)
<1>1. IsNumber(Num(x)) /\ ~ IsSet(Num(x)) /\ Num(x)[1] = "num" /\ Num(x)[2] = x
  BY DEF IsNumber, IsSet, Num
<1>2. old = Null \/ IsNumber(old)
  BY DEF IsNumber, Num
<1>3. \A add : Accumulated(old, Num(x), add) = AccumulateNumbers(old, Num(x), add)
  BY <1>1, <1>2 DEF Accumulated
<1> DEFINE d == IF old = Null THEN Num(0) ELSE old
<1>4. d[1] = "num" /\ d[2] = c
  <2>1. Num(c) # Null
    BY DEF Num, Null
  <2> QED BY <2>1 DEF Num
<1> HIDE DEF d
<1>5. AccumulateNumbers(old, Num(x), TRUE) =
          LET exact == d[2] + Num(x)[2]
          IN  IF d[1] = "num" /\ Num(x)[1] = "num" /\ -IntMax <= exact /\ exact <= IntMax
              THEN Num(exact) ELSE Float(ToFloat(ToFloat(d[2]) + ToFloat(Num(x)[2])))
  BY DEF AccumulateNumbers, d
<1>6. AccumulateNumbers(old, Num(x), FALSE) =
          LET exact == d[2] - Num(x)[2]
          IN  IF d[1] = "num" /\ Num(x)[1] = "num" /\ -IntMax <= exact /\ exact <= IntMax
              THEN Num(exact) ELSE Float(ToFloat(ToFloat(d[2]) - ToFloat(Num(x)[2])))
  BY DEF AccumulateNumbers, d
<1>7. AccumulateNumbers(old, Num(x), TRUE) = Num(c + x)
  BY <1>1, <1>4, <1>5 DEF Exact
<1>8. AccumulateNumbers(old, Num(x), FALSE) = Num(c - x)
  BY <1>1, <1>4, <1>6 DEF Exact
<1> QED BY <1>3, <1>7, <1>8, Zenon DEF Added, TakenOff

LEMMA AccumulateSet ==
    ASSUME NEW old, NEW S, (old = Null /\ S = {}) \/ (IsSet(old) /\ S = old[2]), NEW v, IsSet(v)
    PROVE  /\ Added(old, v) = SetOf(S \cup v[2])
           /\ TakenOff(old, v) = SetOf(S \ v[2])
<1>1. ~ IsNumber(v)
  BY DEF IsNumber, IsSet
<1>2. \A add : Accumulated(old, v, add) = AccumulateSets(old, v, add)
  BY <1>1 DEF Accumulated
<1>3. IsSet(old) => old # Null
  BY DEF IsSet, Null
<1>4. S = IF old = Null THEN {} ELSE old[2]
  BY <1>3
<1>5. /\ AccumulateSets(old, v, TRUE) = SetOf(S \cup v[2])
      /\ AccumulateSets(old, v, FALSE) = SetOf(S \ v[2])
  BY <1>4 DEF AccumulateSets
<1> QED BY <1>2, <1>5, Zenon DEF Added, TakenOff

\* Operands of the wrong shape.
LEMMA AccumulateNothing ==
    ASSUME NEW old, NEW v, NEW add, IsNumber(v) => old # Null /\ ~ IsNumber(old),
           IsSet(v) => old # Null /\ ~ IsSet(old)
    PROVE  Accumulated(old, v, add) = old
BY DEF Accumulated

LEMMA AgainSet ==
    ASSUME NEW T, NEW v, IsSet(v)
    PROVE  /\ Added(SetOf(T), v) = SetOf(T \cup v[2])
           /\ TakenOff(SetOf(T), v) = SetOf(T \ v[2])
<1> DEFINE old == SetOf(T)
<1>1. IsSet(old) /\ T = old[2]
  BY DEF SetOf, IsSet
<1> HIDE DEF old
<1>2. /\ Added(old, v) = SetOf(T \cup v[2])
      /\ TakenOff(old, v) = SetOf(T \ v[2])
  BY <1>1, AccumulateSet
<1> QED BY <1>2 DEF old

LEMMA SetsCommute ==
    ASSUME NEW old, old = Null \/ IsSet(old), NEW v, IsSet(v), NEW w, IsSet(w)
    PROVE  /\ Added(Added(old, v), w) = Added(Added(old, w), v)
           /\ TakenOff(TakenOff(old, v), w) = TakenOff(TakenOff(old, w), v)
<1> DEFINE S == IF old = Null THEN {} ELSE old[2]
<1>1. (old = Null /\ S = {}) \/ (IsSet(old) /\ S = old[2])
  BY DEF IsSet, Null
<1> HIDE DEF S
<1>2. ASSUME NEW u, IsSet(u)
      PROVE  Added(old, u) = SetOf(S \cup u[2]) /\ TakenOff(old, u) = SetOf(S \ u[2])
  BY ONLY <1>1, <1>2, AccumulateSet, ZenonT(60)
<1>3. /\ Added(old, v) = SetOf(S \cup v[2]) /\ TakenOff(old, v) = SetOf(S \ v[2])
      /\ Added(old, w) = SetOf(S \cup w[2]) /\ TakenOff(old, w) = SetOf(S \ w[2])
  BY <1>2
<1>4. /\ Added(SetOf(S \cup v[2]), w) = SetOf((S \cup v[2]) \cup w[2])
      /\ Added(SetOf(S \cup w[2]), v) = SetOf((S \cup w[2]) \cup v[2])
  BY AgainSet
<1>5. /\ TakenOff(SetOf(S \ v[2]), w) = SetOf((S \ v[2]) \ w[2])
      /\ TakenOff(SetOf(S \ w[2]), v) = SetOf((S \ w[2]) \ v[2])
  BY AgainSet
<1>6. /\ (S \cup v[2]) \cup w[2] = (S \cup w[2]) \cup v[2]
      /\ (S \ v[2]) \ w[2] = (S \ w[2]) \ v[2]
  OBVIOUS
<1> QED BY <1>2, <1>3, <1>4, <1>5, <1>6

LEMMA AgainNumber ==
    ASSUME NEW c \in Int, NEW x \in Int, Exact(c + x), Exact(c - x)
    PROVE  /\ Added(Num(c), Num(x)) = Num(c + x)
           /\ TakenOff(Num(c), Num(x)) = Num(c - x)
<1> DEFINE old == Num(c)
<1>1. (old = Null /\ c = 0) \/ old = Num(c)
  OBVIOUS
<1> HIDE DEF old
<1>2. /\ Added(old, Num(x)) = Num(c + x)
      /\ TakenOff(old, Num(x)) = Num(c - x)
  BY <1>1, AccumulateNumber
<1> QED BY <1>2 DEF old

LEMMA NumbersCommute ==
    ASSUME NEW c \in Int, NEW x \in Int, NEW y \in Int,
           NEW old, (old = Null /\ c = 0) \/ old = Num(c),
           Exact(c + x), Exact(c - x), Exact(c + y), Exact(c - y),
           Exact(c + x + y), Exact(c + x - y), Exact(c - x + y), Exact(c - x - y)
    PROVE  /\ Added(Added(old, Num(x)), Num(y)) = Added(Added(old, Num(y)), Num(x))
           /\ TakenOff(TakenOff(old, Num(x)), Num(y)) = TakenOff(TakenOff(old, Num(y)), Num(x))
<1>1. /\ Added(old, Num(x)) = Num(c + x)
      /\ TakenOff(old, Num(x)) = Num(c - x)
  BY AccumulateNumber
<1>2. /\ Added(old, Num(y)) = Num(c + y)
      /\ TakenOff(old, Num(y)) = Num(c - y)
  BY AccumulateNumber
<1>3. ASSUME NEW d \in Int, NEW z \in Int, Exact(d + z), Exact(d - z)
      PROVE  /\ Added(Num(d), Num(z)) = Num(d + z)
             /\ TakenOff(Num(d), Num(z)) = Num(d - z)
  BY <1>3, AgainNumber
<1>4. c + x \in Int /\ c - x \in Int /\ c + y \in Int /\ c - y \in Int
  OBVIOUS
<1>5. /\ c + y + x = c + x + y /\ c + y - x = c - x + y
      /\ c - y + x = c + x - y /\ c - y - x = c - x - y
  OBVIOUS
<1>6. Exact(c + y + x) /\ Exact(c + y - x) /\ Exact(c - y + x) /\ Exact(c - y - x)
  BY <1>5
<1>7. /\ Added(Num(c + x), Num(y)) = Num(c + x + y)
      /\ TakenOff(Num(c - x), Num(y)) = Num(c - x - y)
  BY <1>3, <1>4
<1>8. /\ Added(Num(c + y), Num(x)) = Num(c + y + x)
      /\ TakenOff(Num(c - y), Num(x)) = Num(c - y - x)
  BY <1>3, <1>4, <1>6
<1> QED BY <1>1, <1>2, <1>5, <1>7, <1>8

\* Two Adds to one value, or two Removes, in either order.
LEMMA AccumulateCommutes ==
    ASSUME NEW size \in Nat, NEW wide \in Nat, wide + 2 * size <= IntMax, NEW old,
           IsNumber(old) => \E n \in (-wide)..wide : old = Num(n),
           NEW v, IsNumber(v) => \E n \in (-size)..size : v = Num(n),
           NEW w, IsNumber(w) => \E n \in (-size)..size : w = Num(n),
           ~ (IsNumber(v) /\ IsSet(w)), ~ (IsNumber(w) /\ IsSet(v)), NEW add \in BOOLEAN
    PROVE  Accumulated(Accumulated(old, v, add), w, add)
               = Accumulated(Accumulated(old, w, add), v, add)
<1>1. IntMax \in Nat
  BY EngineAssumption
<1>2. /\ ~ (IsNumber(v) /\ IsSet(v)) /\ ~ (IsNumber(w) /\ IsSet(w))
      /\ ~ (IsNumber(old) /\ IsSet(old))
  BY DEF IsNumber, IsSet
<1>3. ~ IsNumber(Null) /\ ~ IsSet(Null)
  BY DEF IsNumber, IsSet, Null
<1> DEFINE Takes(x) == \/ IsNumber(x) /\ (old = Null \/ IsNumber(old))
                       \/ IsSet(x) /\ (old = Null \/ IsSet(old))
<1>4. ASSUME NEW x, ~ Takes(x) PROVE Accumulated(old, x, add) = old
  BY <1>4, AccumulateNothing
<1>5. CASE IsNumber(v) /\ IsNumber(w) /\ (old = Null \/ IsNumber(old))
  <2>1. PICK x \in (-size)..size : v = Num(x)
    BY <1>5
  <2>2. PICK y \in (-size)..size : w = Num(y)
    BY <1>5
  <2>3. PICK c \in (-wide)..wide : (old = Null /\ c = 0) \/ old = Num(c)
    BY <1>5
  <2>4. /\ Exact(c + x) /\ Exact(c - x) /\ Exact(c + y) /\ Exact(c - y)
        /\ Exact(c + x + y) /\ Exact(c + x - y) /\ Exact(c - x + y) /\ Exact(c - x - y)
    BY <1>1 DEF Exact
  <2>5. c \in Int /\ x \in Int /\ y \in Int
    OBVIOUS
  <2>6. /\ Added(Added(old, v), w) = Added(Added(old, w), v)
        /\ TakenOff(TakenOff(old, v), w) = TakenOff(TakenOff(old, w), v)
    BY ONLY <2>1, <2>2, <2>3, <2>4, <2>5, NumbersCommute
  <2>7. add = TRUE \/ add = FALSE
    OBVIOUS
  <2> QED BY ONLY <2>6, <2>7, Zenon DEF Added, TakenOff
<1>6. CASE IsSet(v) /\ IsSet(w) /\ (old = Null \/ IsSet(old))
  <2>1. /\ Added(Added(old, v), w) = Added(Added(old, w), v)
        /\ TakenOff(TakenOff(old, v), w) = TakenOff(TakenOff(old, w), v)
    BY ONLY <1>6, SetsCommute
  <2>2. add = TRUE \/ add = FALSE
    OBVIOUS
  <2> QED BY ONLY <2>1, <2>2, Zenon DEF Added, TakenOff
<1>7. CASE ~ Takes(v) /\ ~ Takes(w)
  BY <1>4, <1>7
<1>8. ASSUME NEW x, Takes(x), NEW y, ~ Takes(y), ~ (IsNumber(x) /\ IsSet(y)),
             ~ (IsNumber(y) /\ IsSet(x)), x \in {v, w}
      PROVE  Accumulated(Accumulated(old, x, add), y, add) = Accumulated(Accumulated(old, y, add), x, add)
  <2>1. ~ IsNumber(y) /\ ~ IsSet(y)
    BY <1>2, <1>8, <1>3 DEF IsNumber, IsSet
  <2>2. \A o : Accumulated(o, y, add) = o
    BY <2>1, AccumulateNothing
  <2> QED BY <2>2
<1>9. Takes(v) /\ Takes(w) =>
          \/ IsNumber(v) /\ IsNumber(w) /\ (old = Null \/ IsNumber(old))
          \/ IsSet(v) /\ IsSet(w) /\ (old = Null \/ IsSet(old))
  BY <1>2
<1> HIDE DEF Takes
<1>10. CASE Takes(v) /\ ~ Takes(w)
  BY <1>8, <1>10
<1>11. CASE ~ Takes(v) /\ Takes(w)
  BY <1>8, <1>11
<1> QED BY <1>5, <1>6, <1>7, <1>9, <1>10, <1>11

----------------------------------------------------------------------------
(* Accumulating in several fields.                                         *)

LEMMA AccumulateNull ==
    ASSUME NEW old, NEW v, NEW add, Accumulated(old, v, add) = Null
    PROVE  old = Null
<1>1. CASE IsNumber(v) /\ (old = Null \/ IsNumber(old))
  <2>1. Accumulated(old, v, add) = AccumulateNumbers(old, v, add)
    BY <1>1 DEF Accumulated, IsNumber, IsSet
  <2>2. \E n : AccumulateNumbers(old, v, add) \in {Num(n), Float(n)}
    BY DEF AccumulateNumbers
  <2> QED BY <2>1, <2>2 DEF Num, Float, Null
<1>2. CASE ~ (IsNumber(v) /\ (old = Null \/ IsNumber(old))) /\ IsSet(v) /\ (old = Null \/ IsSet(old))
  <2>1. Accumulated(old, v, add) = AccumulateSets(old, v, add)
    BY <1>2 DEF Accumulated
  <2> QED BY <2>1 DEF AccumulateSets, SetOf, Null
<1>3. CASE /\ ~ (IsNumber(v) /\ (old = Null \/ IsNumber(old)))
           /\ ~ (IsSet(v) /\ (old = Null \/ IsSet(old)))
  BY <1>3 DEF Accumulated
<1> QED BY <1>1, <1>2, <1>3

\* What every field becomes.
LEMMA ValueAccumulated ==
    ASSUME NEW fields, NoNulls(fields), NEW payload, NEW add, NEW k
    PROVE  Value(ApplyAccumulate(fields, payload, add), k) =
               IF k \in DOMAIN payload THEN Accumulated(Value(fields, k), payload[k], add)
               ELSE Value(fields, k)
<1> DEFINE result == [j \in DOMAIN payload |-> Accumulated(Value(fields, j), payload[j], add)]
           a == Without(result, {j \in DOMAIN result : result[j] = Null})
<1>1. ApplyAccumulate(fields, payload, add) = Over(a, fields)
  BY DEF ApplyAccumulate
<1>2. /\ k \in DOMAIN a <=> k \in DOMAIN payload /\ result[k] # Null
      /\ k \in DOMAIN a => a[k] = result[k]
  BY Remains
<1>3. k \in DOMAIN payload => result[k] = Accumulated(Value(fields, k), payload[k], add)
  OBVIOUS
<1> HIDE DEF a, result
<1>4. CASE k \in DOMAIN a
  BY <1>1, <1>2, <1>3, <1>4, Overridden DEF Value
<1>5. CASE k \notin DOMAIN a
  <2>1. Value(Over(a, fields), k) = Value(fields, k)
    BY <1>5, Overridden DEF Value
  <2>2. k \in DOMAIN payload => Value(fields, k) = Null /\ result[k] = Null
    BY <1>2, <1>3, <1>5, AccumulateNull
  <2> QED BY <1>1, <1>3, <2>1, <2>2
<1> QED BY <1>4, <1>5

LEMMA AccumulateIsFcn ==
    ASSUME NEW fields, NEW payload, NEW add
    PROVE  IsFcn(ApplyAccumulate(fields, payload, add))
<1>1. \A f, g : IsFcn(Over(f, g))
  BY DEF Over, IsFcn
<1> QED BY <1>1 DEF ApplyAccumulate

\* Two Adds to one task, or two Removes, in either order.
LEMMA FieldsCommute ==
    ASSUME NEW size \in Nat, NEW wide \in Nat, wide + 2 * size <= IntMax,
           NEW fields, NoNulls(fields), WithinSize(fields, wide),
           NEW p, WithinSize(p, size), NEW q, WithinSize(q, size), NEW add \in BOOLEAN,
           \A k \in DOMAIN p \cap DOMAIN q :
               ~ (IsNumber(p[k]) /\ IsSet(q[k])) /\ ~ (IsNumber(q[k]) /\ IsSet(p[k]))
    PROVE  ApplyAccumulate(ApplyAccumulate(fields, p, add), q, add)
               = ApplyAccumulate(ApplyAccumulate(fields, q, add), p, add)
<1> DEFINE fp == ApplyAccumulate(fields, p, add)
           fq == ApplyAccumulate(fields, q, add)
           a  == ApplyAccumulate(fp, q, add)
           b  == ApplyAccumulate(fq, p, add)
<1>1. NoNulls(fp) /\ NoNulls(fq)
  BY AccumulateStoresNoNull
<1>2. \A k : Value(fp, k) = IF k \in DOMAIN p THEN Accumulated(Value(fields, k), p[k], add)
                            ELSE Value(fields, k)
  BY ValueAccumulated
<1>3. \A k : Value(fq, k) = IF k \in DOMAIN q THEN Accumulated(Value(fields, k), q[k], add)
                            ELSE Value(fields, k)
  BY ValueAccumulated
<1> HIDE DEF fp, fq
<1>4. NoNulls(a) /\ NoNulls(b) /\ IsFcn(a) /\ IsFcn(b)
  BY <1>1, AccumulateStoresNoNull, AccumulateIsFcn
<1>5. \A k : Value(a, k) = IF k \in DOMAIN q THEN Accumulated(Value(fp, k), q[k], add)
                           ELSE Value(fp, k)
  BY <1>1, ValueAccumulated
<1>6. \A k : Value(b, k) = IF k \in DOMAIN p THEN Accumulated(Value(fq, k), p[k], add)
                           ELSE Value(fq, k)
  BY <1>1, ValueAccumulated
<1> HIDE DEF a, b
<1>7. ASSUME NEW k, k \in DOMAIN p, k \in DOMAIN q
      PROVE  Value(a, k) = Value(b, k)
  <2> DEFINE old == Value(fields, k)
  <2>1. IsNumber(old) => \E n \in (-wide)..wide : old = Num(n)
    BY DEF WithinSize, Value, IsNumber, Null
  <2>2. /\ IsNumber(p[k]) => \E n \in (-size)..size : p[k] = Num(n)
        /\ IsNumber(q[k]) => \E n \in (-size)..size : q[k] = Num(n)
    BY <1>7 DEF WithinSize
  <2>3. ~ (IsNumber(p[k]) /\ IsSet(q[k])) /\ ~ (IsNumber(q[k]) /\ IsSet(p[k]))
    BY <1>7
  <2> HIDE DEF old
  <2>4. Accumulated(Accumulated(old, p[k], add), q[k], add)
            = Accumulated(Accumulated(old, q[k], add), p[k], add)
    BY <2>1, <2>2, <2>3, AccumulateCommutes
  <2> QED BY <1>2, <1>3, <1>5, <1>6, <1>7, <2>4 DEF old
<1>8. \A k : Value(a, k) = Value(b, k)
  BY <1>2, <1>3, <1>5, <1>6, <1>7
<1>9. a = b
  BY <1>4, <1>8, SameFcn
<1> QED BY <1>9 DEF a, b, fp, fq

\* What an event can bring a number in a field to.
LEMMA AccumulateWithin ==
    ASSUME NEW size \in Nat, NEW wide \in Nat, wide + size <= IntMax, NEW old,
           IsNumber(old) => \E n \in (-wide)..wide : old = Num(n),
           NEW v, IsNumber(v) => \E n \in (-size)..size : v = Num(n),
           NEW add \in BOOLEAN, IsNumber(Accumulated(old, v, add))
    PROVE  \E n \in (-(wide + size))..(wide + size) : Accumulated(old, v, add) = Num(n)
<1> DEFINE new == Accumulated(old, v, add)
<1>1. IntMax \in Nat
  BY EngineAssumption
<1>2. CASE IsNumber(v) /\ (old = Null \/ IsNumber(old))
  <2>1. PICK x \in (-size)..size : v = Num(x)
    BY <1>2
  <2>2. PICK c \in (-wide)..wide : (old = Null /\ c = 0) \/ old = Num(c)
    BY <1>2
  <2>3. Exact(c + x) /\ Exact(c - x) /\ c \in Int /\ x \in Int
    BY <1>1 DEF Exact
  <2>4. Added(old, v) = Num(c + x) /\ TakenOff(old, v) = Num(c - x)
    BY ONLY <2>1, <2>2, <2>3, AccumulateNumber
  <2>5. add = TRUE \/ add = FALSE
    OBVIOUS
  <2>6. new = Num(c + x) \/ new = Num(c - x)
    BY ONLY <2>4, <2>5, Zenon DEF Added, TakenOff, new
  <2>7. /\ c + x \in (-(wide + size))..(wide + size)
        /\ c - x \in (-(wide + size))..(wide + size)
    OBVIOUS
  <2> HIDE DEF new
  <2> QED BY <2>6, <2>7 DEF new
<1>3. CASE ~ (IsNumber(v) /\ (old = Null \/ IsNumber(old))) /\ IsSet(v) /\ (old = Null \/ IsSet(old))
  <2>1. new = AccumulateSets(old, v, add)
    BY <1>3 DEF Accumulated
  <2>2. new[1] = "set"
    BY <2>1 DEF AccumulateSets, SetOf
  <2> QED BY <2>2 DEF IsNumber
<1>4. CASE /\ ~ (IsNumber(v) /\ (old = Null \/ IsNumber(old)))
           /\ ~ (IsSet(v) /\ (old = Null \/ IsSet(old)))
  <2>1. new = old
    BY <1>4 DEF Accumulated
  <2>2. PICK n \in (-wide)..wide : old = Num(n)
    BY <2>1
  <2>3. n \in (-(wide + size))..(wide + size)
    OBVIOUS
  <2> HIDE DEF new
  <2> QED BY <2>1, <2>2, <2>3 DEF new
<1> QED BY <1>2, <1>3, <1>4

LEMMA WithinMore ==
    ASSUME NEW fields, NEW wide \in Nat, NEW more \in Nat, wide <= more, WithinSize(fields, wide)
    PROVE  WithinSize(fields, more)
<1>1. \A n \in (-wide)..wide : n \in (-more)..more
  OBVIOUS
<1> QED BY <1>1 DEF WithinSize

LEMMA WithinOver ==
    ASSUME NEW f, NEW g, NEW size, WithinSize(f, size), WithinSize(g, size)
    PROVE  WithinSize(Over(f, g), size)
BY Overridden DEF WithinSize

\* One event more, and the numbers are at most so much larger.
LEMMA FieldsWithin ==
    ASSUME NEW size \in Nat, NEW wide \in Nat, wide + size <= IntMax,
           NEW fields, WithinSize(fields, wide), NEW e, e.op \in EventOps, Modest(e, size)
    PROVE  WithinSize(FieldsAfter(fields, e), wide + size)
<1> DEFINE p == e.payload
           more == wide + size
<1>1. more \in Nat /\ wide <= more /\ size <= more
  OBVIOUS
<1> HIDE DEF more
<1>2. WithinSize(fields, more)
  BY <1>1, WithinMore
<1>3. e.op \notin EdgeOps => WithinSize(p, more)
  BY <1>1, WithinMore DEF Modest
<1>4. \A f, keys : WithinSize(f, more) => WithinSize(Without(f, keys), more)
  BY Remains DEF WithinSize
<1>5. CASE e.op \in {"Create", "Update"}
  <2> DEFINE unset == {k \in DOMAIN p : p[k] = Null}
             a == Without(p, unset)
             b == Without(fields, unset)
  <2>1. FieldsAfter(fields, e) = Over(a, b)
    BY <1>5 DEF FieldsAfter, ApplySet
  <2>2. WithinSize(a, more) /\ WithinSize(b, more)
    BY <1>2, <1>3, <1>4, <1>5 DEF EdgeOps
  <2> HIDE DEF a, b
  <2> QED BY <2>1, <2>2, WithinOver DEF more
<1>6. CASE e.op = "Append"
  <2> DEFINE a == [k \in {j \in DOMAIN p : p[j] # Null} |-> AppendText(Value(fields, k), p[k])]
  <2>1. FieldsAfter(fields, e) = Over(a, fields)
    BY <1>6 DEF FieldsAfter, ApplyAppend
  <2>2. \A k \in DOMAIN a : a[k][1] = "text"
    BY DEF AppendText, Text
  <2>3. WithinSize(a, more)
    BY <2>2 DEF WithinSize, IsNumber
  <2> HIDE DEF a
  <2> QED BY <1>2, <2>1, <2>3, WithinOver DEF more
<1>7. CASE e.op \in {"Add", "Remove"}
  <2> DEFINE add == e.op = "Add"
             result == [k \in DOMAIN p |-> Accumulated(Value(fields, k), p[k], add)]
             a == Without(result, {k \in DOMAIN result : result[k] = Null})
  <2>1. FieldsAfter(fields, e) = Over(a, fields)
    BY <1>7 DEF FieldsAfter, ApplyAccumulate
  <2>2. add \in BOOLEAN
    OBVIOUS
  <2> HIDE DEF add
  <2>3. ASSUME NEW k \in DOMAIN result, IsNumber(result[k])
        PROVE  \E n \in (-more)..more : result[k] = Num(n)
    <3> DEFINE old == Value(fields, k)
               v == p[k]
    <3>1. IsNumber(old) => \E n \in (-wide)..wide : old = Num(n)
      BY DEF WithinSize, Value, IsNumber, Null
    <3>2. IsNumber(v) => \E n \in (-size)..size : v = Num(n)
      BY <1>7 DEF WithinSize, Modest, EdgeOps
    <3>3. result[k] = Accumulated(old, v, add)
      OBVIOUS
    <3> HIDE DEF old, v, result
    <3>4. IsNumber(Accumulated(old, v, add))
      BY <2>3, <3>3
    <3>5. size \in Nat /\ wide \in Nat /\ wide + size <= IntMax
      OBVIOUS
    <3>6. \E n \in (-(wide + size))..(wide + size) : Accumulated(old, v, add) = Num(n)
      BY ONLY <2>2, <3>1, <3>2, <3>4, <3>5, AccumulateWithin
    <3> QED BY ONLY <3>3, <3>6 DEF more
  <2>4. WithinSize(result, more)
    BY <2>3 DEF WithinSize
  <2>5. WithinSize(a, more)
    BY <1>4, <2>4
  <2> HIDE DEF a
  <2> QED BY <1>2, <2>1, <2>5, WithinOver DEF more
<1>8. CASE e.op \in EdgeOps \cup {"Delete"}
  <2>1. FieldsAfter(fields, e) = fields
    BY <1>8 DEF FieldsAfter, EdgeOps
  <2> QED BY <1>2, <2>1 DEF more
<1> QED BY <1>5, <1>6, <1>7, <1>8 DEF EventOps, EdgeOps

----------------------------------------------------------------------------
(* Neighbouring events.                                                    *)

Fine(state, wide) == \A id \in DOMAIN state : Sound(state[id]) /\ WithinSize(state[id].fields, wide)

LEMMA FineTasks ==
    ASSUME NEW state, NEW wide, Fine(state, wide)
    PROVE  AllTasks(state)
BY DEF Fine, AllTasks, Sound

LEMMA ApplyFine ==
    ASSUME NEW size \in Nat, NEW wide \in Nat, wide + size <= IntMax,
           NEW state, Fine(state, wide), NEW e, IsDraft(e), Modest(e, size)
    PROVE  Fine(Apply(state, e), wide + size)
<1> DEFINE more == wide + size
           new == Apply(state, e)
<1>1. more \in Nat /\ wide <= more
  OBVIOUS
<1>2. ASSUME NEW id \in DOMAIN new PROVE Sound(new[id]) /\ WithinSize(new[id].fields, more)
  <2>1. CASE id # e.id
    <3>1. id \in DOMAIN state /\ new[id] = state[id]
      BY <2>1, ApplyFrame
    <3>2. Sound(state[id]) /\ WithinSize(state[id].fields, wide)
      BY <3>1 DEF Fine
    <3> HIDE DEF more, new
    <3> QED BY <1>1, <3>1, <3>2, WithinMore
  <2>2. CASE id = e.id
    <3> DEFINE t == Before(state, e)
    <3>1. e.op # "Delete" /\ new[id] = Touched(t, e)
      BY <2>2, ApplyFrame
    <3>2. Sound(t) /\ WithinSize(t.fields, wide)
      <4>1. WithinSize(NewTask.fields, wide)
        BY DEF NewTask, WithinSize
      <4> QED BY <4>1, NewTaskSound DEF Before, Fine
    <3> HIDE DEF t, new
    <3>3. Sound(Touched(t, e))
      BY <3>1, <3>2, TouchedAdvances DEF Advances
    <3>4. Touched(t, e).fields = FieldsAfter(t.fields, e)
      BY <3>1, <3>2, TouchedFields DEF Sound, IsDraft
    <3>5. WithinSize(FieldsAfter(t.fields, e), wide + size)
      BY <3>2, FieldsWithin DEF IsDraft
    <3> QED BY <3>1, <3>3, <3>4, <3>5
  <2> QED BY <2>1, <2>2
<1> QED BY <1>2 DEF Fine

LEMMA Products ==
    ASSUME NEW n \in Nat, NEW k \in 1..n, NEW size \in Nat
    PROVE  /\ (k - 1) * size \in Nat /\ (k - 1) * size + size = k * size
           /\ k * size <= n * size
OBVIOUS

LEMMA RunFine ==
    ASSUME NEW size \in Nat, NEW events, IsSeq(events), Len(events) * size <= IntMax,
           \A i \in 1..Len(events) : IsDraft(events[i]) /\ Modest(events[i], size),
           NEW f, IsRun(f, << >>, events)
    PROVE  \A k \in 0..Len(events) : Fine(f[k], k * size)
<1> DEFINE n == Len(events)
           G == {k \in 0..n : Fine(f[k], k * size)}
<1>1. n \in Nat
  BY SeqBasics
<1>2. 0 \in G
  <2>1. f[0] = << >>
    BY DEF IsRun
  <2> QED BY <1>1, <2>1 DEF Fine
<1>3. ASSUME NEW k \in 1..n, k - 1 \in G PROVE k \in G
  <2>1. f[k] = Apply(f[k - 1], events[k])
    BY AppliedIsApply DEF IsRun
  <2>2. Fine(f[k - 1], (k - 1) * size)
    BY <1>3
  <2>3. /\ (k - 1) * size \in Nat /\ (k - 1) * size + size = k * size
        /\ k * size <= n * size
    BY <1>1, Products
  <2>4. (k - 1) * size + size <= IntMax
    <3>1. k * size <= n * size /\ n * size <= IntMax /\ k * size \in Int /\ n * size \in Int
      BY <1>1, <2>3
    <3>2. IntMax \in Int
      BY EngineAssumption
    <3> DEFINE a == k * size
               b == n * size
    <3> HIDE DEF a, b
    <3>3. a <= b /\ b <= IntMax /\ a \in Int /\ b \in Int
      BY <3>1 DEF a, b
    <3>4. a <= IntMax
      BY <3>2, <3>3
    <3> QED BY <2>3, <3>4 DEF a
  <2>5. IsDraft(events[k]) /\ Modest(events[k], size)
    OBVIOUS
  <2>6. Fine(Apply(f[k - 1], events[k]), (k - 1) * size + size)
    <3> DEFINE wide == (k - 1) * size
    <3>1. wide \in Nat /\ wide + size <= IntMax /\ Fine(f[k - 1], wide)
      BY <2>2, <2>3, <2>4
    <3> HIDE DEF wide
    <3>2. Fine(Apply(f[k - 1], events[k]), wide + size)
      BY <2>5, <3>1, ApplyFine
    <3> QED BY <3>2 DEF wide
  <2> QED BY <1>1, <2>1, <2>3, <2>6
<1>4. \A k \in 1..n : k - 1 \in G => k \in G
  BY <1>3
<1> HIDE DEF G
<1>5. \A k \in 0..n : k \in G
  BY <1>1, <1>2, <1>4, UpTo
<1> QED BY <1>5 DEF G

SameFields(s, t) == DOMAIN s = DOMAIN t /\ \A id \in DOMAIN s : s[id].fields = t[id].fields

\* What an event does to the fields depends on the fields alone.
LEMMA ApplySameFields ==
    ASSUME NEW s, AllTasks(s), NEW t, AllTasks(t), SameFields(s, t), NEW e, e.op \in EventOps
    PROVE  SameFields(Apply(s, e), Apply(t, e))
<1>1. \A id : id \in DOMAIN Apply(s, e) <=> id \in DOMAIN Apply(t, e)
  BY ApplyFrame DEF SameFields
<1>2. ASSUME NEW id \in DOMAIN Apply(s, e) PROVE Apply(s, e)[id].fields = Apply(t, e)[id].fields
  <2>1. CASE id # e.id
    BY <1>1, <2>1, ApplyFrame DEF SameFields
  <2>2. CASE id = e.id
    <3> DEFINE u == Before(s, e)
               w == Before(t, e)
    <3>1. e.op # "Delete" /\ Apply(s, e)[id] = Touched(u, e) /\ Apply(t, e)[id] = Touched(w, e)
      BY <1>1, <2>2, ApplyFrame
    <3>2. IsTask(u) /\ IsTask(w) /\ u.fields = w.fields
      BY DEF Before, AllTasks, SameFields, NewTask, IsTask
    <3> HIDE DEF u, w
    <3> QED BY <3>1, <3>2, TouchedFields
  <2> QED BY <2>1, <2>2
<1> QED BY <1>1, <1>2 DEF SameFields

\* What an Add or a Remove does to the fields of each task.
LEMMA ApplySum ==
    ASSUME NEW s, AllTasks(s), NEW e, e.op \in SumOps
    PROVE  /\ DOMAIN Apply(s, e) = DOMAIN s /\ AllTasks(Apply(s, e))
           /\ \A id \in DOMAIN s : Apply(s, e)[id].fields =
                  IF id = e.id THEN ApplyAccumulate(s[id].fields, e.payload, e.op = "Add")
                  ELSE s[id].fields
<1>1. e.op \in EventOps /\ e.op # "Delete" /\ e.op # "Create"
  BY DEF SumOps, EventOps
<1>2. \A id : id \in DOMAIN Apply(s, e) <=> id \in DOMAIN s
  BY <1>1, ApplyFrame
<1>3. ASSUME NEW id \in DOMAIN s
      PROVE  /\ IsTask(Apply(s, e)[id])
             /\ Apply(s, e)[id].fields =
                  IF id = e.id THEN ApplyAccumulate(s[id].fields, e.payload, e.op = "Add")
                  ELSE s[id].fields
  <2>1. CASE id # e.id
    BY <2>1, ApplyFrame DEF AllTasks
  <2>2. CASE id = e.id
    <3>1. Apply(s, e)[id] = Touched(s[id], e)
      BY <1>2, <2>2, ApplyFrame DEF Before
    <3>2. IsTask(s[id])
      BY DEF AllTasks
    <3>3. FieldsAfter(s[id].fields, e) = ApplyAccumulate(s[id].fields, e.payload, e.op = "Add")
      BY DEF FieldsAfter, SumOps
    <3> QED BY <1>1, <2>2, <3>1, <3>2, <3>3, TouchedFields
  <2> QED BY <2>1, <2>2
<1> QED BY <1>2, <1>3 DEF AllTasks

\* Two such events, in either order.
LEMMA ApplyCommutes ==
    ASSUME NEW size \in Nat, NEW wide \in Nat, wide + 2 * size <= IntMax,
           NEW s, Fine(s, wide), NEW a, NEW b, a.op = b.op, a.op \in SumOps,
           Modest(a, size), Modest(b, size), OneKind(a, b), OneKind(b, a)
    PROVE  SameFields(Apply(Apply(s, a), b), Apply(Apply(s, b), a))
<1> DEFINE sa == Apply(s, a)
           sb == Apply(s, b)
           sab == Apply(sa, b)
           sba == Apply(sb, a)
           add == a.op = "Add"
           A(f) == ApplyAccumulate(f, a.payload, add)
           B(f) == ApplyAccumulate(f, b.payload, add)
<1>1. AllTasks(s)
  BY FineTasks
<1>2. /\ DOMAIN sa = DOMAIN s /\ AllTasks(sa)
      /\ \A id \in DOMAIN s : sa[id].fields = IF id = a.id THEN A(s[id].fields) ELSE s[id].fields
  BY <1>1, ApplySum
<1>3. /\ DOMAIN sb = DOMAIN s /\ AllTasks(sb)
      /\ \A id \in DOMAIN s : sb[id].fields = IF id = b.id THEN B(s[id].fields) ELSE s[id].fields
  BY <1>1, ApplySum
<1> HIDE DEF sa, sb
<1>4. /\ DOMAIN sab = DOMAIN s
      /\ \A id \in DOMAIN s : sab[id].fields = IF id = b.id THEN B(sa[id].fields) ELSE sa[id].fields
  BY <1>2, ApplySum
<1>5. /\ DOMAIN sba = DOMAIN s
      /\ \A id \in DOMAIN s : sba[id].fields = IF id = a.id THEN A(sb[id].fields) ELSE sb[id].fields
  BY <1>3, ApplySum
<1> HIDE DEF sab, sba
<1>6. ASSUME NEW id \in DOMAIN s PROVE sab[id].fields = sba[id].fields
  <2>1. CASE id = a.id /\ id = b.id
    <3> DEFINE f == s[id].fields
    <3>1. NoNulls(f) /\ WithinSize(f, wide)
      BY DEF Fine, Sound
    <3>2. WithinSize(a.payload, size) /\ WithinSize(b.payload, size)
      BY DEF Modest, SumOps, EdgeOps
    <3>3. \A k \in DOMAIN a.payload \cap DOMAIN b.payload :
              /\ ~ (IsNumber(a.payload[k]) /\ IsSet(b.payload[k]))
              /\ ~ (IsNumber(b.payload[k]) /\ IsSet(a.payload[k]))
      BY DEF OneKind
    <3>4. add \in BOOLEAN
      OBVIOUS
    <3> HIDE DEF f, add
    <3>5. ApplyAccumulate(ApplyAccumulate(f, a.payload, add), b.payload, add)
              = ApplyAccumulate(ApplyAccumulate(f, b.payload, add), a.payload, add)
      BY <3>1, <3>2, <3>3, <3>4, FieldsCommute
    <3>6. B(A(f)) = A(B(f))
      BY <3>5
    <3> HIDE DEF A, B
    <3> QED BY <1>2, <1>3, <1>4, <1>5, <2>1, <3>6 DEF f
  <2>2. CASE ~ (id = a.id /\ id = b.id)
    <3> HIDE DEF A, B
    <3> QED BY <1>2, <1>3, <1>4, <1>5, <2>2
  <2> QED BY <2>1, <2>2
<1> QED BY <1>4, <1>5, <1>6 DEF SameFields, sab, sba, sa, sb

\* Two neighbours of a log that are swapped.
LEMMA SwappedRuns ==
    ASSUME NEW size \in Nat, NEW events, IsSeq(events), Len(events) * size <= IntMax,
           \A j \in 1..Len(events) : IsDraft(events[j]) /\ Modest(events[j], size),
           NEW i \in 1..(Len(events) - 1), events[i].op = events[i + 1].op,
           events[i].op \in SumOps,
           OneKind(events[i], events[i + 1]), OneKind(events[i + 1], events[i]),
           NEW swapped, IsSeq(swapped), Len(swapped) = Len(events),
           swapped[i] = events[i + 1], swapped[i + 1] = events[i],
           \A j \in 1..Len(events) : j \notin {i, i + 1} => swapped[j] = events[j]
    PROVE  SameFields(Materialize(<< >>, swapped), Materialize(<< >>, events))
<1> DEFINE n == Len(events)
<1>1. n \in Nat /\ i \in 1..n /\ i + 1 \in 1..n /\ i - 1 \in 0..n /\ i - 1 \in Nat
  BY SeqBasics
<1>2. PICK f : IsRun(f, << >>, events) /\ Materialize(<< >>, events) = f[n]
  BY MaterializeIsRun
<1>3. PICK g : IsRun(g, << >>, swapped) /\ Materialize(<< >>, swapped) = g[n]
  BY MaterializeIsRun
<1>4. \A j \in 1..n : IsDraft(swapped[j]) /\ Modest(swapped[j], size)
  BY <1>1
<1>5. \A k \in 0..n : Fine(f[k], k * size) /\ Fine(g[k], k * size)
  BY <1>2, <1>3, <1>4, RunFine
<1>6. f[i - 1] = g[i - 1]
  <2>1. \A j \in 1..(i - 1) : events[j] = swapped[j]
    OBVIOUS
  <2> QED BY <1>1, <1>2, <1>3, <2>1, RunsAgree
<1>7. SameFields(f[i + 1], g[i + 1])
  <2> DEFINE s == f[i - 1]
             wide == (i - 1) * size
  <2>1. /\ f[i] = Apply(s, events[i]) /\ f[i + 1] = Apply(f[i], events[i + 1])
        /\ g[i] = Apply(s, events[i + 1]) /\ g[i + 1] = Apply(g[i], events[i])
    <3>1. i + 1 - 1 = i
      OBVIOUS
    <3> QED BY <1>1, <1>2, <1>3, <1>6, <3>1, AppliedIsApply DEF IsRun
  <2>2. Fine(s, wide)
    BY <1>1, <1>5
  <2>3. wide \in Nat /\ wide + 2 * size <= IntMax
    <3>1. wide \in Nat /\ wide + size = i * size
      BY <1>1, Products
    <3>2. (i + 1 - 1) * size + size = (i + 1) * size /\ (i + 1) * size <= n * size
      BY <1>1, Products
    <3>3. i * size + size <= n * size
      BY <3>2
    <3>4. n * size \in Int /\ i * size \in Int /\ IntMax \in Int
      BY <1>1, EngineAssumption
    <3> DEFINE a == i * size
               b == n * size
    <3>5. wide + size = a /\ a + size <= b /\ b <= IntMax /\ a \in Int /\ b \in Int
      BY <3>1, <3>3, <3>4
    <3> HIDE DEF wide, a, b
    <3> QED BY <3>1, <3>4, <3>5
  <2>4. Modest(events[i], size) /\ Modest(events[i + 1], size)
    BY <1>1
  <2> HIDE DEF s, wide
  <2>5. SameFields(Apply(Apply(s, events[i]), events[i + 1]),
                   Apply(Apply(s, events[i + 1]), events[i]))
    BY <2>2, <2>3, <2>4, ApplyCommutes
  <2> QED BY <2>1, <2>5
<1> DEFINE G == {k \in 0..n : k > i => SameFields(f[k], g[k])}
<1>8. 0 \in G
  BY <1>1
<1>9. ASSUME NEW k \in 1..n, k - 1 \in G PROVE k \in G
  <2>1. CASE k > i + 1
    <3>1. SameFields(f[k - 1], g[k - 1])
      BY <1>9, <2>1
    <3>2. f[k] = Apply(f[k - 1], events[k]) /\ g[k] = Apply(g[k - 1], events[k])
      BY <1>2, <1>3, <2>1, AppliedIsApply DEF IsRun
    <3>3. AllTasks(f[k - 1]) /\ AllTasks(g[k - 1])
      <4> DEFINE wide == (k - 1) * size
      <4>1. k - 1 \in 0..n
        BY <1>1
      <4>2. Fine(f[k - 1], wide) /\ Fine(g[k - 1], wide)
        BY <1>5, <4>1
      <4> HIDE DEF wide
      <4> QED BY <4>2, FineTasks
    <3>4. events[k].op \in EventOps
      BY DEF IsDraft
    <3>5. SameFields(f[k], g[k])
      BY <3>1, <3>2, <3>3, <3>4, ApplySameFields
    <3> QED BY <1>1, <3>5
  <2>2. CASE k <= i
    BY <1>1, <2>2
  <2>3. CASE k = i + 1
    BY <1>1, <1>7, <2>3
  <2> QED BY <1>1, <2>1, <2>2, <2>3
<1>10. \A k \in 1..n : k - 1 \in G => k \in G
  BY <1>9
<1> HIDE DEF G
<1>11. \A k \in 0..n : k \in G
  BY <1>1, <1>8, <1>10, UpTo
<1>12. SameFields(f[n], g[n])
  BY <1>1, <1>11 DEF G
<1> QED BY <1>2, <1>3, <1>12 DEF SameFields

\* The log holds drafts, and no more than it may.
Drafted ==
    /\ Len(log) <= MaxLen
    /\ \A i \in 1..Len(log) : \E d \in Drafts :
          log[i].op = d.op /\ log[i].payload = d.payload

LEMMA DraftedNext == Basics /\ Drafted /\ [Next]_vars => Drafted'
<1> SUFFICES ASSUME Basics, Drafted, [Next]_vars PROVE Drafted'
  OBVIOUS
<1>1. ASSUME NEW d \in Drafts, NEW ts \in Times, Replay(d, ts) PROVE Drafted'
  <2> DEFINE e == Event(d, ts)
             n == Len(log)
  <2>1. /\ n \in Nat /\ Len(log') = n + 1
        /\ \A i \in 1..n : log'[i] = log[i]
        /\ log'[n + 1] = e
    BY <1>1, StepFacts DEF Basics
  <2>2. e.op = d.op /\ e.payload = d.payload
    BY DEF Event
  <2>3. n + 1 <= MaxLen
    BY <1>1, <2>1, ReplayAssumption DEF Replay
  <2> HIDE DEF e
  <2>4. ASSUME NEW i \in 1..(n + 1)
        PROVE  \E x \in Drafts : log'[i].op = x.op /\ log'[i].payload = x.payload
    <3>1. CASE i = n + 1
      BY <2>1, <2>2, <3>1
    <3>2. CASE i # n + 1
      <4>1. i \in 1..n
        BY <2>1, <3>2
      <4> QED BY <2>1, <4>1 DEF Drafted
    <3> QED BY <3>1, <3>2
  <2> QED BY <2>1, <2>3, <2>4 DEF Drafted
<1>2. CASE UNCHANGED vars
  BY <1>2 DEF vars, Drafted
<1> QED BY <1>1, <1>2 DEF Next

\* Branches that only add to numbers and sets, or only remove, can be merged in either
\* direction, as long as sums stay in 64 bits and no field is both a number and a set:
\* a sum that leaves the range of exact integers depends on the order.
THEOREM SumsCommute ==
    ASSUME NEW size \in Nat, SumsAreExact(size)
    PROVE  Spec => []AddsCommute
<1>1. Init => Drafted
  BY SeqEmpty, ReplayAssumption DEF Init, Drafted
<1>2. Basics /\ Drafted => AddsCommute
  <2> SUFFICES ASSUME Basics, Drafted, NEW i \in 1..(Len(log) - 1),
                      log[i].op = log[i + 1].op, log[i].op \in {"Add", "Remove"}
               PROVE  Commute(i)
    BY DEF AddsCommute
  <2> DEFINE n == Len(log)
             swapped == Swapped(i)
  <2>1. IsSeq(log) /\ n \in Nat /\ DOMAIN log = 1..n /\ i \in 1..n /\ i + 1 \in 1..n /\ n <= MaxLen
    BY SeqBasics DEF Basics, Numbered, Drafted
  <2>2. n * size <= IntMax
    <3>1. MaxLen \in Nat /\ MaxLen * size <= IntMax /\ IntMax \in Nat
      BY ReplayAssumption, EngineAssumption DEF SumsAreExact
    <3>2. n * size <= MaxLen * size
      BY <2>1, <3>1
    <3>3. n * size \in Int /\ MaxLen * size \in Int
      BY <2>1, <3>1
    <3> DEFINE a == n * size
               b == MaxLen * size
    <3>4. a <= b /\ b <= IntMax /\ a \in Int /\ b \in Int
      BY <3>1, <3>2, <3>3
    <3> HIDE DEF a, b
    <3>5. a <= IntMax
      BY <3>1, <3>4
    <3> QED BY <3>5 DEF a
  <2>3. \A j \in 1..n : IsDraft(log[j]) /\ Modest(log[j], size)
    BY DEF Basics, Numbered, Drafted, SumsAreExact, Modest
  <2>4. OneKind(log[i], log[i + 1]) /\ OneKind(log[i + 1], log[i])
    BY <2>1 DEF Drafted, SumsAreExact, OneKind
  <2>5. /\ DOMAIN swapped = 1..n /\ swapped[i] = log[i + 1] /\ swapped[i + 1] = log[i]
        /\ \A j \in 1..n : j \notin {i, i + 1} => swapped[j] = log[j]
        /\ swapped = [j \in 1..n |-> swapped[j]]
    BY <2>1 DEF Swapped
  <2> HIDE DEF swapped
  <2>6. IsSeq(swapped) /\ Len(swapped) = n
    <3> DEFINE S == {swapped[j] : j \in 1..n}
    <3>1. swapped \in [1..n -> S]
      BY <2>5
    <3> HIDE DEF S
    <3>2. swapped \in Seq(S)
      BY <2>1, <3>1
    <3>3. IsSeq(swapped)
      BY <3>2 DEF IsSeq
    <3>4. DOMAIN swapped = 1..Len(swapped) /\ Len(swapped) \in Nat
      BY <3>3, SeqBasics
    <3>5. Len(swapped) = n
      BY <2>1, <2>5, <3>4
    <3> QED BY <3>3, <3>5
  <2>7. SameFields(Materialize(<< >>, swapped), Materialize(<< >>, log))
    <3>1. log[i].op \in SumOps
      BY DEF SumOps
    <3> QED BY <2>1, <2>2, <2>3, <2>4, <2>5, <2>6, <3>1, SwappedRuns
  <2>8. tasks = Materialize(<< >>, log)
    BY DEF Basics, KeptUp
  <2>9. Fields(Materialize(<< >>, swapped)) = Fields(tasks)
    BY <2>7, <2>8 DEF SameFields, Fields
  <2> QED BY <2>9 DEF Commute, swapped
<1> QED BY <1>1, <1>2, DraftedNext, BasicsAlways, PTL DEF Spec
=============================================================================
