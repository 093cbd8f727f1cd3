------------------------ MODULE TaskaBranchesProofs -------------------------
(***************************************************************************)
(* The logs of the branches, for any commands, policy, clock and number of *)
(* commits, reverts, compactions and merges: the merge driver makes a log  *)
(* that loads out of logs that load.                                       *)
(***************************************************************************)
EXTENDS TaskaBranches, TaskaFoldProofs

LEMMA ForkIsLast ==
    ASSUME NEW log, IsLog(log)
    PROVE  Fork(log) \in Nat
BY NextSeqIsNext DEF Fork

----------------------------------------------------------------------------
(* Merging.                                                                *)

\* Events one after the other are events.
LEMMA EventsConcat ==
    ASSUME NEW s, HasSeqs(s), NEW t, HasSeqs(t)
    PROVE  HasSeqs(s \o t)
<1> DEFINE u == s \o t
<1>1. /\ IsSeq(u) /\ Len(u) = Len(s) + Len(t)
      /\ \A i \in 1..Len(s) : u[i] = s[i]
      /\ \A i \in 1..Len(t) : u[Len(s) + i] = t[i]
  BY SeqConcat DEF HasSeqs
<1>2. Len(s) \in Nat /\ Len(t) \in Nat
  BY SeqBasics DEF HasSeqs
<1> HIDE DEF u
<1>3. ASSUME NEW i \in 1..Len(u) PROVE "seq" \in DOMAIN u[i]
  <2>1. CASE i \in 1..Len(s)
    BY <1>1, <2>1 DEF HasSeqs
  <2>2. CASE i \notin 1..Len(s)
    <3>1. i - Len(s) \in 1..Len(t) /\ Len(s) + (i - Len(s)) = i
      BY <1>1, <1>2, <2>2
    <3>2. u[i] = t[i - Len(s)]
      BY <1>1, <3>1
    <3> QED BY <3>1, <3>2 DEF HasSeqs
  <2> QED BY <2>1, <2>2
<1>4. HasSeqs(u)
  BY <1>1, <1>3 DEF HasSeqs
<1> QED BY <1>4 DEF u

LEMMA NoEventOrOne ==
    /\ HasSeqs(<< >>)
    /\ \A e : "seq" \in DOMAIN e => HasSeqs(<< e >>)
<1>1. IsSeq(<< >>) /\ Len(<< >>) = 0
  BY SeqEmpty
<1>2. ASSUME NEW e, "seq" \in DOMAIN e PROVE HasSeqs(<< e >>)
  <2>1. << e >> \in Seq({e}) /\ Len(<< e >>) = 1 /\ << e >>[1] = e
    OBVIOUS
  <2>2. IsSeq(<< e >>)
    BY <2>1 DEF IsSeq
  <2>3. \A i \in 1..Len(<< e >>) : "seq" \in DOMAIN << e >>[i]
    BY <1>2, <2>1
  <2> QED BY <2>2, <2>3 DEF HasSeqs
<1> QED BY <1>1, <1>2 DEF HasSeqs

LEMMA ResolutionHasSeq ==
    ASSUME NEW op, NEW id, NEW payload, NEW ts
    PROVE  "seq" \in DOMAIN Resolution(op, id, payload, ts)
BY DEF Resolution

\* What the driver settles of one task is a sequence of events.
LEMMA TaskPlanIsEvents ==
    ASSUME NEW id, NEW ours, IsSeq(ours), NEW theirs, NEW policy
    PROVE  HasSeqs(ResolveTask(id, Delta(ours, id), Delta(theirs, id), policy).events)
<1> DEFINE o == Delta(ours, id)
           t == Delta(theirs, id)
           plan == ResolveTask(id, o, t, policy)
<1>1. HasSeqs(ResolveFields(id, o, t, policy))
  <2> DEFINE contested == {k \in DOMAIN o.fields \cap DOMAIN t.fields :
                              o.fields[k].payload[k] # t.fields[k].payload[k]}
             Winner(k) == IF Pick(policy, o.fields[k].ts, t.fields[k].ts) = "ours"
                          THEN o.fields[k] ELSE t.fields[k]
             e == Resolution("Update", id, [k \in contested |-> Winner(k).payload[k]],
                             Max({Winner(k).ts : k \in contested}))
  <2>1. ResolveFields(id, o, t, policy) = IF contested = {} THEN << >> ELSE << e >>
    BY DEF ResolveFields
  <2> HIDE DEF o, t
  <2>2. "seq" \in DOMAIN e
    BY ResolutionHasSeq
  <2> HIDE DEF contested, e
  <2> QED BY <2>1, <2>2, NoEventOrOne
<1>2. HasSeqs(ResolveEdges(id, o, t, policy))
  <2> DEFINE contested == {x \in DOMAIN o.edges \cap DOMAIN t.edges :
                              o.edges[x].op # t.edges[x].op}
             Winner(x) == IF Pick(policy, o.edges[x].ts, t.edges[x].ts) = "ours"
                          THEN o.edges[x] ELSE t.edges[x]
             Settled(x) == Resolution(Winner(x).op, id, x, Winner(x).ts)
             settled == {Settled(x) : x \in contested}
             f == [x \in contested |-> Settled(x)]
  <2>1. ResolveEdges(id, o, t, policy) = SetToSeq(settled)
    BY DEF ResolveEdges
  <2>2. IsFiniteSet(contested)
    <3> DEFINE links == {i \in DOMAIN ours : ours[i].id = id
                                             /\ ours[i].op \in {"AddEdge", "RemoveEdge"}}
               payloads == {ours[i].payload : i \in links}
               g == [i \in links |-> ours[i].payload]
    <3>1. IsFiniteSet(DOMAIN ours)
      BY SeqBasics, FS_Interval
    <3>2. IsFiniteSet(links)
      BY <3>1, FS_Subset
    <3>3. DOMAIN o.edges = payloads
      BY DEF Delta
    <3>4. payloads = {g[i] : i \in links}
      OBVIOUS
    <3> HIDE DEF links, payloads, g
    <3>5. IsFiniteSet(payloads)
      BY <3>2, <3>4, FiniteImage
    <3>6. contested \in SUBSET payloads
      BY <3>3
    <3> HIDE DEF contested
    <3> QED BY <3>5, <3>6, FS_Subset
  <2>3. settled = {f[x] : x \in contested}
    OBVIOUS
  <2>4. \A e \in settled : "seq" \in DOMAIN e
    BY ResolutionHasSeq
  <2> HIDE DEF contested, f, settled, o, t
  <2>5. IsFiniteSet(settled)
    BY <2>2, <2>3, FiniteImage
  <2> QED BY <2>1, <2>4, <2>5, SetInOrder DEF HasSeqs
<1>3. \/ \E e : plan.events = << >> \/ ("seq" \in DOMAIN e /\ plan.events = << e >>)
      \/ plan.events = ResolveFields(id, o, t, policy) \o ResolveEdges(id, o, t, policy)
  <2> HIDE DEF o, t
  <2>1. CASE DeletedOnlyBy(o, t) \/ DeletedOnlyBy(t, o)
    <3> DEFINE e == Resolution("Delete", id, << >>, Max({o.deleted, t.deleted}))
    <3>1. plan = ResolveDelete(id, o, t, policy)
      BY <2>1 DEF ResolveTask
    <3>2. plan.events = << >> \/ plan.events = << e >>
      BY <3>1 DEF ResolveDelete, Plan
    <3>3. "seq" \in DOMAIN e
      BY ResolutionHasSeq
    <3> QED BY <3>2, <3>3
  <2>2. CASE ~ (DeletedOnlyBy(o, t) \/ DeletedOnlyBy(t, o))
    BY <2>2 DEF ResolveTask, Plan
  <2> QED BY <2>1, <2>2
<1> HIDE DEF o, t, plan
<1>4. HasSeqs(plan.events)
  BY <1>1, <1>2, <1>3, NoEventOrOne, EventsConcat
<1> QED BY <1>4 DEF plan, o, t

\* So is all it settles.
LEMMA PlanIsEvents ==
    ASSUME NEW ours, IsSeq(ours), NEW theirs, NEW policy
    PROVE  HasSeqs(Resolve(ours, theirs, policy).events)
<1> DEFINE both == {ours[i].id : i \in DOMAIN ours} \cap {theirs[i].id : i \in DOMAIN theirs}
           One(id) == ResolveTask(id, Delta(ours, id), Delta(theirs, id), policy)
           all == {One(id) : id \in both}
           plans == SetToSeq(all)
           lists == [i \in DOMAIN plans |-> plans[i].events]
<1>1. Resolve(ours, theirs, policy).events = FlattenSeq(lists)
  BY DEF Resolve, Plan
<1>2. \A p \in all : HasSeqs(p.events)
  BY TaskPlanIsEvents
<1>3. IsFiniteSet(all)
  <2> DEFINE ids == {ours[i].id : i \in DOMAIN ours}
             g == [i \in DOMAIN ours |-> ours[i].id]
             f == [id \in both |-> One(id)]
  <2>1. IsFiniteSet(DOMAIN ours)
    BY SeqBasics, FS_Interval
  <2>2. ids = {g[i] : i \in DOMAIN ours}
    OBVIOUS
  <2>3. both \in SUBSET ids /\ all = {f[id] : id \in both}
    OBVIOUS
  <2> HIDE DEF ids, g, f, both, all
  <2>4. IsFiniteSet(ids)
    BY <2>1, <2>2, FiniteImage
  <2>5. IsFiniteSet(both)
    BY <2>3, <2>4, FS_Subset
  <2> QED BY <2>3, <2>5, FiniteImage
<1> HIDE DEF all
<1>4. IsSeq(plans) /\ \A i \in 1..Len(plans) : plans[i] \in all
  BY <1>3, SetInOrder
<1> HIDE DEF plans
<1>5. Len(plans) \in Nat /\ DOMAIN plans = 1..Len(plans)
  BY <1>4, SeqBasics
<1>6. IsSeq(lists) /\ Len(lists) = Len(plans) /\ \A i \in 1..Len(plans) : HasSeqs(lists[i])
  <2> DEFINE S == {plans[i].events : i \in 1..Len(plans)}
  <2>1. lists \in [1..Len(plans) -> S]
    BY <1>5
  <2>2. lists \in Seq(S) /\ Len(lists) = Len(plans)
    BY <1>5, <2>1
  <2>3. \A i \in 1..Len(plans) : HasSeqs(lists[i])
    BY <1>2, <1>4, <1>5
  <2> QED BY <2>2, <2>3 DEF IsSeq
<1> HIDE DEF lists
<1>7. HasSeqs(FlattenSeq(lists))
  <2> DEFINE flat == FlattenSeq(lists)
  <2>1. /\ IsSeq(flat)
        /\ \A j \in 1..Len(flat) : \E i \in 1..Len(lists) : \E k \in 1..Len(lists[i]) :
              flat[j] = lists[i][k]
    BY <1>6, FlattenedElements DEF HasSeqs
  <2> HIDE DEF flat
  <2>2. HasSeqs(flat)
    BY <1>6, <2>1 DEF HasSeqs
  <2> QED BY <2>2 DEF flat
<1> QED BY <1>1, <1>7

\* What comes after the fork is renumbered, above all that is shared.
LEMMA AssembledLog ==
    ASSUME NEW point \in Nat, NEW shared, IsLog(shared),
           \A i \in 1..Len(shared) : shared[i].seq <= point,
           NEW ours, IsLog(ours), NEW theirs, IsLog(theirs), NEW plan, HasSeqs(plan.events)
    PROVE  IsLog(Assemble(shared, ours, theirs, plan, point))
<1> DEFINE Stays(side, e) == ~ (e.op = "Delete" /\ <<side, e.id>> \in plan.drops)
           a == Picked(ours, {i \in DOMAIN ours : Stays("ours", ours[i])})
           b == Picked(theirs, {i \in DOMAIN theirs : Stays("theirs", theirs[i])})
           tail == a \o b \o plan.events
           above == [i \in DOMAIN tail |-> [tail[i] EXCEPT !.seq = point + i]]
           log == shared \o above
<1>1. Assemble(shared, ours, theirs, plan, point) = log
  BY DEF Assemble
<1>2. HasSeqs(a) /\ HasSeqs(b)
  BY PickedLog DEF IsLog
<1> HIDE DEF a, b
<1>3. HasSeqs(tail)
  BY <1>2, EventsConcat
<1> HIDE DEF tail
<1>4. Len(tail) \in Nat /\ DOMAIN tail = 1..Len(tail)
  BY <1>3, SeqBasics DEF HasSeqs
<1>5. /\ IsSeq(above) /\ Len(above) = Len(tail)
      /\ \A i \in 1..Len(tail) : "seq" \in DOMAIN above[i] /\ above[i].seq = point + i
  <2> DEFINE S == {above[i] : i \in 1..Len(tail)}
  <2>1. above \in [1..Len(tail) -> S]
    BY <1>4
  <2>2. above \in Seq(S) /\ Len(above) = Len(tail)
    BY <1>4, <2>1
  <2>3. ASSUME NEW i \in 1..Len(tail) PROVE "seq" \in DOMAIN above[i] /\ above[i].seq = point + i
    <3>1. above[i] = [tail[i] EXCEPT !.seq = point + i]
      BY <1>4
    <3>2. "seq" \in DOMAIN tail[i]
      BY <1>3 DEF HasSeqs
    <3> QED BY <3>1, <3>2
  <2> QED BY <2>2, <2>3 DEF IsSeq
<1> HIDE DEF above
<1>6. IsLog(shared \o above)
  BY <1>5, StackedLog
<1> QED BY <1>1, <1>6

\* The driver makes a log of logs, whatever they hold, also when they do not share a
\* past: the log a revert starts from ends before the one it is given as theirs.
LEMMA MergedLog ==
    ASSUME NEW anc, IsLog(anc), NEW ours, IsLog(ours), NEW theirs, IsLog(theirs), NEW policy
    PROVE  IsLog(MergeLogs(anc, ours, theirs, policy).log)
<1> DEFINE point == Fork(anc)
           shared == SharedTail(anc, ours, theirs)
           a == Above(ours, point)
           b == Above(theirs, point)
           plan == Resolve(a, b, policy)
<1>1. MergeLogs(anc, ours, theirs, policy).log = Assemble(shared, a, b, plan, point)
  BY DEF MergeLogs
<1>2. point \in Nat
  BY ForkIsLast
<1>3. IsLog(a) /\ IsLog(b)
  BY PickedLog DEF Above
<1>4. IsLog(shared) /\ \A i \in 1..Len(shared) : shared[i].seq <= point
  <2> DEFINE places == {i \in DOMAIN ours :
                           ours[i].seq <= point /\ ours[i].seq \notin RemovedSeqs(anc, theirs)}
  <2>1. shared = Picked(ours, places)
    BY DEF SharedTail
  <2>2. \A j \in places : ours[j].seq <= point
    OBVIOUS
  <2> HIDE DEF places, point, shared
  <2> QED BY <2>1, <2>2, PickedLog
<1>5. HasSeqs(plan.events)
  BY <1>3, PlanIsEvents, LogBasics
<1> HIDE DEF point, shared, a, b, plan
<1> QED BY <1>1, <1>2, <1>3, <1>4, <1>5, AssembledLog

----------------------------------------------------------------------------
(* The branches.                                                           *)

AllLogs ==
    /\ DOMAIN repo = Branches
    /\ \A b \in Branches : IsLog(repo[b].log)
    /\ IsLog(fork.log)

LEMMA AllLogsInit == Init => AllLogs
<1> SUFFICES ASSUME Init PROVE AllLogs
  OBVIOUS
<1>1. IsLog(Genesis)
  <2>1. IsSeq(Genesis)
    BY GenesisAssumption DEF IsSeq
  <2> QED BY <2>1, SeqBasics, GenesisAssumption DEF IsLog, HasSeqs
<1> QED BY <1>1 DEF Init, AllLogs, Tip

\* Only the log of the changed branch is to be looked at.
LEMMA ChangedTip ==
    ASSUME AllLogs, NEW b \in Branches, NEW tip, Change(b, tip), IsLog(tip.log)
    PROVE  AllLogs'
<1>1. repo' = [repo EXCEPT ![b] = tip] /\ fork' = fork
  BY DEF Change
<1>2. DOMAIN repo' = Branches
      /\ \A c \in Branches : repo'[c] = IF c = b THEN tip ELSE repo[c]
  BY <1>1 DEF AllLogs
<1> QED BY <1>1, <1>2 DEF AllLogs, IsLog, HasSeqs, SeqOrdered

LEMMA CommitKeepsLogs ==
    ASSUME AllLogs, NEW b \in Branches, NEW c \in Commands, NEW ts \in Times, Commit(b, c, ts)
    PROVE  AllLogs'
<1>1. PICK out : Len(out) = 1 /\ \E tip \in {repo[b]} :
          \E key \in {<<ts, out[1].op>>} :
              \E e \in {[seq |-> NextSeq(tip.log), ts |-> ts, op |-> out[1].op,
                         id |-> out[1].id, payload |-> out[1].payload,
                         undoes |-> 0, key |-> key]} :
                  Change(b, Tip(Append(tip.log, e), tip.baseline, tip.folded,
                                tip.knows \cup {key}))
  BY DEF Commit
<1>2. PICK e, x, y, z : /\ "seq" \in DOMAIN e /\ e.seq = NextSeq(repo[b].log)
                        /\ Change(b, Tip(Append(repo[b].log, e), x, y, z))
  BY <1>1
<1>3. IsLog(Append(repo[b].log, e))
  BY <1>2, LongerLog DEF AllLogs
<1> QED BY <1>2, <1>3, ChangedTip DEF Tip

LEMMA RevertKeepsLogs ==
    ASSUME AllLogs, NEW b \in Branches, NEW i \in DOMAIN repo[b].log, Revert(b, i)
    PROVE  AllLogs'
<1> DEFINE old == repo[b].log
           before == SubSeq(old, 1, i - 1)
           after == SubSeq(old, 1, i)
           log == IF i = Len(old) THEN before ELSE MergeLogs(after, old, before, Policy).log
<1>1. PICK x, y, z : Change(b, Tip(log, x, y, z))
  BY DEF Revert
<1>2. IsLog(old)
  BY DEF AllLogs
<1>3. i \in 0..Len(old) /\ i - 1 \in 0..Len(old)
  BY <1>2, LogBasics
<1> HIDE DEF old
<1>4. IsLog(before) /\ IsLog(after)
  BY <1>2, <1>3, PrefixLog
<1> HIDE DEF before, after
<1>5. IsLog(log)
  BY <1>2, <1>4, MergedLog
<1> HIDE DEF log
<1> QED BY <1>1, <1>5, ChangedTip DEF Tip

LEMMA CompactKeepsLogs ==
    ASSUME AllLogs, NEW b \in Branches, Compact(b)
    PROVE  AllLogs'
<1> DEFINE old == repo[b].log
           split == RetentionSplit(old, KeepEvents, 0, 0)
           log == SubSeq(old, split + 1, Len(old))
<1>1. PICK x, y, z : Change(b, Tip(log, x, y, z))
  BY DEF Compact
<1>2. IsLog(old)
  BY DEF AllLogs
<1> HIDE DEF old
<1>3. split \in 0..Len(old)
  BY <1>2, LogBasics, SplitIsInLog, BranchesAssumption
<1> HIDE DEF split
<1>4. IsLog(log)
  BY <1>2, <1>3, SuffixLog
<1> HIDE DEF log
<1> QED BY <1>1, <1>4, ChangedTip DEF Tip

LEMMA MergeKeepsLogs ==
    ASSUME AllLogs, NEW b \in Branches, Merge(b)
    PROVE  AllLogs'
<1> DEFINE ours == repo[b]
           theirs == repo[Other(b)]
           tip == Merged(fork, ours, theirs)
<1>1. repo' = [repo EXCEPT ![b] = tip] /\ fork' = theirs
  BY DEF Merge
<1>2. Other(b) \in Branches
  BY DEF Other, Branches
<1>3. IsLog(ours.log) /\ IsLog(theirs.log) /\ IsLog(fork.log)
  BY <1>2 DEF AllLogs
<1>4. IsLog(tip.log)
  <2> HIDE DEF ours, theirs
  <2>1. \/ tip.log = theirs.log \/ tip.log = ours.log
        \/ tip.log = MergeLogs(fork.log, ours.log, theirs.log, Policy).log
    BY DEF Merged, Tip, ThreeWay
  <2> QED BY <1>3, <2>1, MergedLog
<1> HIDE DEF ours, theirs, tip
<1>5. DOMAIN repo' = Branches
      /\ \A c \in Branches : repo'[c] = IF c = b THEN tip ELSE repo[c]
  BY <1>1 DEF AllLogs
<1> QED BY <1>1, <1>3, <1>4, <1>5 DEF AllLogs, IsLog, HasSeqs, SeqOrdered

LEMMA FastForwardKeepsLogs ==
    ASSUME AllLogs, NEW b \in Branches, FastForward(b)
    PROVE  AllLogs'
<1>1. repo' = [repo EXCEPT ![b] = repo[Other(b)]] /\ fork' = repo[Other(b)]
  BY DEF FastForward
<1>2. Other(b) \in Branches
  BY DEF Other, Branches
<1>3. DOMAIN repo' = Branches
      /\ \A c \in Branches : repo'[c] = IF c = b THEN repo[Other(b)] ELSE repo[c]
  BY <1>1 DEF AllLogs
<1> QED BY <1>1, <1>2, <1>3 DEF AllLogs, IsLog, HasSeqs, SeqOrdered

LEMMA AllLogsNext == AllLogs /\ [Next]_vars => AllLogs'
<1> SUFFICES ASSUME AllLogs, [Next]_vars PROVE AllLogs'
  OBVIOUS
<1>1. CASE UNCHANGED vars
  BY <1>1 DEF vars, AllLogs, IsLog, HasSeqs, SeqOrdered
<1>2. ASSUME NEW b \in Branches, NEW c \in Commands, NEW ts \in Times, Commit(b, c, ts)
      PROVE  AllLogs'
  BY <1>2, CommitKeepsLogs
<1>3. ASSUME NEW b \in Branches, NEW i \in DOMAIN repo[b].log, Revert(b, i) PROVE AllLogs'
  BY <1>3, RevertKeepsLogs
<1>4. ASSUME NEW b \in Branches, Compact(b) PROVE AllLogs'
  BY <1>4, CompactKeepsLogs
<1>5. ASSUME NEW b \in Branches, Merge(b) PROVE AllLogs'
  BY <1>5, MergeKeepsLogs
<1>6. ASSUME NEW b \in Branches, FastForward(b) PROVE AllLogs'
  BY <1>6, FastForwardKeepsLogs
<1> QED BY <1>1, <1>2, <1>3, <1>4, <1>5, <1>6 DEF Next

\* However two branches commit, revert, compact, merge each other and fast-forward,
\* the log at the tip of each, and at their merge base, loads: its seqs strictly
\* increase.
THEOREM LogsStayOrdered == Spec => []LogsOrdered
<1>1. AllLogs => LogsOrdered
  BY DEF AllLogs, LogsOrdered, IsLog
<1> QED BY <1>1, AllLogsInit, AllLogsNext, PTL DEF Spec
=============================================================================
