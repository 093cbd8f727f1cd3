----------------------------- MODULE TaskaStore -----------------------------
(***************************************************************************)
(* The file store of taska: processes running commands against one         *)
(* mutation log and one baseline, serialized by an exclusive lock on the   *)
(* log file.                                                               *)
(*                                                                         *)
(*   write commands   lock; read log and baseline; vet; append; unlock     *)
(*   compact          read baseline; read log; fold; lock; overwrite both  *)
(*   resolve          read both; find orphans; read log; lock; overwrite   *)
(*   read             read baseline; read log                              *)
(*                                                                         *)
(* Only what stands between lock and unlock is protected: compact and      *)
(* resolve read before they lock, and readers never lock.                  *)
(*                                                                         *)
(* A log line is written by two calls, the event and then its newline, and *)
(* a process may die between any two steps.  An event appended after a     *)
(* missing newline shares its line with the event before it; such a line   *)
(* does not parse.                                                         *)
(***************************************************************************)
EXTENDS TaskaGate

CONSTANTS
    Procs,       \* processes running ta
    Commands,    \* the commands they may run
    Genesis,     \* the events already in the log
    KeepEvents,  \* the keep_events of the compaction configuration
    MaxOps,      \* bound on the number of commands started
    MaxCrashes,  \* bound on the number of processes that die in a command
    MaxBatch,    \* bound on the events of one command
    Exclusive    \* whether compact and resolve are only run while at most readers run

ASSUME StoreAssumption ==
    /\ MaxOps \in Nat
    /\ MaxCrashes \in Nat
    /\ MaxBatch \in Nat \ {0}
    /\ KeepEvents \in Nat
    /\ Exclusive \in BOOLEAN

VARIABLES
    log,       \* the mutation log file: its lines, and whether the last is ended
    baseline,  \* the baseline file, as the task map it holds
    lock,      \* the process holding the lock on the log file, or Nobody
    pc,        \* where each process is in its command
    mem,       \* what each process has read and has still to write
    hist,      \* history: every event a command has written, in order
    budget     \* commands started and processes died

vars == << log, baseline, lock, pc, mem, hist, budget >>

Nobody == "nobody"

ASSUME NobodyAssumption == Nobody \notin Procs

ASSUME CommandsAssumption == \A c \in Commands : IsCommand(c)

----------------------------------------------------------------------------
(* Files.  seq 0 marks a line that does not parse.                         *)

Torn == [seq |-> 0]

Content(lines, ended) == [lines |-> lines, ended |-> ended]

Parsed(lines) == DropSeqs(lines, {0})

AreLines(s) ==
    /\ s \in Seq({s[i] : i \in DOMAIN s})
    /\ \A i \in DOMAIN s : s[i].seq \in Nat

Readable(lines) == \A i \in DOMAIN lines : lines[i].seq # 0

\* verify_seq_order, over the lines that parse.
Ordered(lines) ==
    \A i, j \in DOMAIN lines :
        i < j /\ lines[i].seq # 0 /\ lines[j].seq # 0 => lines[i].seq < lines[j].seq

ASSUME GenesisAssumption ==
    /\ AreLines(Genesis) /\ Readable(Genesis) /\ Ordered(Genesis)
    /\ \A i \in DOMAIN Genesis : Genesis[i].op \in EventOps

\* An event after a missing newline ends up on the line before it.
PutBody(file, event) ==
    Content(IF file.ended THEN Append(file.lines, event)
            ELSE [file.lines EXCEPT ![Len(file.lines)] = Torn],
            FALSE)

PutNewline(file) == Content(file.lines, TRUE)

\* The lines of the file once all of events have been appended to it.
WithAppended(file, events) ==
    IF file.ended \/ events = << >> THEN file.lines \o events
    ELSE [file.lines EXCEPT ![Len(file.lines)] = Torn] \o Tail(events)

Minted(lines, drafts) ==
    [i \in 1..Len(drafts) |->
        [seq |-> NextSeq(lines) + i - 1, ts |-> 1, op |-> drafts[i].op,
         id |-> drafts[i].id, payload |-> drafts[i].payload, undoes |-> 0]]

----------------------------------------------------------------------------
(* Processes.                                                              *)

NoCommand == [cmd |-> "none"]

\* cmd: the command; base, seen: the files as last read (base also the baseline
\* to be written); todo, drop: the lines still to write and the seqs to leave
\* out.  History: goal, the lines a vetted batch must leave in the log; since,
\* how many events had been written when the command began.
Begun(c, n) == [cmd |-> c, base |-> << >>, seen |-> Content(<< >>, TRUE),
                todo |-> << >>, drop |-> {}, goal |-> << >>, since |-> n]

Fresh == Begun(NoCommand, 0)

\* The files are read, and what is to be written is known.
Holding(m, base, seen, todo, drop, goal) ==
    [cmd |-> m.cmd, base |-> base, seen |-> seen, todo |-> todo, drop |-> drop,
     goal |-> goal, since |-> m.since]

IsWriter(c)      == c.cmd \in Writers
IsMaintenance(c) == c.cmd \in {"compact", "resolve"}

Init ==
    /\ log = Content(Genesis, TRUE)
    /\ baseline = << >>
    /\ lock = Nobody
    /\ pc = [p \in Procs |-> "idle"]
    /\ mem = [p \in Procs |-> Fresh]
    /\ hist = Genesis
    /\ budget = [ops |-> 0, crashes |-> 0]

Finish(p) ==
    /\ pc' = [pc EXCEPT ![p] = "idle"]
    /\ mem' = [mem EXCEPT ![p] = Fresh]

Start(p, c) ==
    /\ pc[p] = "idle"
    /\ budget.ops < MaxOps
    /\ Exclusive /\ c.cmd # "read" =>
          /\ \A q \in Procs : ~ IsMaintenance(mem[q].cmd)
          /\ IsMaintenance(c) => \A q \in Procs : ~ IsWriter(mem[q].cmd)
    /\ pc' = [pc EXCEPT ![p] = IF IsWriter(c) THEN "lock" ELSE "loadBaseline"]
    /\ mem' = [mem EXCEPT ![p] = Begun(c, Len(hist))]
    /\ budget' = [budget EXCEPT !.ops = @ + 1]
    /\ UNCHANGED << log, baseline, lock, hist >>

WaitsForLock(p) == pc[p] = "lock"

TakeLock(p) ==
    /\ lock' = p
    /\ pc' = [pc EXCEPT ![p] = IF IsWriter(mem[p].cmd) THEN "vet"
                                 ELSE IF mem[p].cmd.cmd = "compact" THEN "swap"
                                 ELSE "truncate"]
    /\ UNCHANGED << log, baseline, mem, hist, budget >>

\* Mutant: compact and resolve do not wait for it.
LockWritersOnly(p) ==
    WaitsForLock(p) /\ (IsWriter(mem[p].cmd) => lock = Nobody) /\ TakeLock(p)

Lock(p) == WaitsForLock(p) /\ lock = Nobody /\ TakeLock(p)

----------------------------------------------------------------------------
(* Write commands.                                                         *)

Verdict(p) ==
    LET state == Materialize(baseline, log.lines)
    IN  CHOOSE v \in {Build(mem[p].cmd, s, PayloadFields(log.lines)) : s \in {state}} : TRUE

\* A log that does not parse to the last line, a refused command, or one that
\* would change nothing: the command ends and the files stay as they are.
Decline(p) ==
    /\ pc[p] = "vet"
    /\ Readable(log.lines) /\ Ordered(log.lines) => Verdict(p).out = << >>
    /\ lock' = Nobody
    /\ Finish(p)
    /\ UNCHANGED << log, baseline, hist, budget >>

Accept(p) ==
    /\ pc[p] = "vet"
    /\ Readable(log.lines)
    /\ Ordered(log.lines)
    /\ \E drafts \in {Verdict(p).out} :
          /\ Len(drafts) \in 1..MaxBatch
          /\ LET batch == Minted(log.lines, drafts)
             IN  mem' = [mem EXCEPT ![p] =
                    Holding(@, baseline, log, batch, {}, WithAppended(log, batch))]
    /\ pc' = [pc EXCEPT ![p] = "write"]
    /\ UNCHANGED << log, baseline, lock, hist, budget >>

----------------------------------------------------------------------------
(* Reading without the lock: readers, and the plan of a compact or resolve. *)

LoadBaseline(p) ==
    /\ pc[p] = "loadBaseline"
    /\ mem' = [mem EXCEPT ![p].base = baseline]
    /\ pc' = [pc EXCEPT ![p] = "loadLog"]
    /\ UNCHANGED << log, baseline, lock, hist, budget >>

\* read_events refuses a log out of order; compact stops when nothing is old
\* enough to fold, resolve when there is no orphan.
LoadLogStops(p) ==
    /\ pc[p] = "loadLog"
    /\ LET events == Parsed(log.lines)
       IN  Ordered(log.lines) =>
              \/ /\ mem[p].cmd.cmd = "compact"
                 /\ RetentionSplit(events, KeepEvents, 0, 0) = 0
              \/ /\ mem[p].cmd.cmd = "resolve"
                 /\ Orphans(mem[p].base, events) = {}
    /\ Finish(p)
    /\ UNCHANGED << log, baseline, lock, hist, budget >>

\* Mutant: a reader takes the last line for one that is still being written.
LoadLogButLast(p) ==
    /\ pc[p] = "loadLog"
    /\ mem[p].cmd.cmd = "read"
    /\ Ordered(log.lines)
    /\ mem' = [mem EXCEPT ![p].seen =
          Content(SubSeq(log.lines, 1, Len(log.lines) - 1), TRUE)]
    /\ pc' = [pc EXCEPT ![p] = "show"]
    /\ UNCHANGED << log, baseline, lock, hist, budget >>

LoadLogToRead(p) ==
    /\ pc[p] = "loadLog"
    /\ mem[p].cmd.cmd = "read"
    /\ Ordered(log.lines)
    /\ mem' = [mem EXCEPT ![p].seen = log]
    /\ pc' = [pc EXCEPT ![p] = "show"]
    /\ UNCHANGED << log, baseline, lock, hist, budget >>

Show(p) ==
    /\ pc[p] = "show"
    /\ Finish(p)
    /\ UNCHANGED << log, baseline, lock, hist, budget >>

LoadLogToCompact(p) ==
    /\ pc[p] = "loadLog"
    /\ mem[p].cmd.cmd = "compact"
    /\ Ordered(log.lines)
    /\ LET events == Parsed(log.lines)
           split  == RetentionSplit(events, KeepEvents, 0, 0)
           folded == SubSeq(events, 1, split)
       IN  /\ split # 0
           /\ mem' = [mem EXCEPT ![p] =
                 Holding(@, Materialize(@.base, folded), log, log.lines,
                         {folded[i].seq : i \in DOMAIN folded}, << >>)]
    /\ pc' = [pc EXCEPT ![p] = "lock"]
    /\ UNCHANGED << log, baseline, lock, hist, budget >>

LoadLogToResolve(p) ==
    /\ pc[p] = "loadLog"
    /\ mem[p].cmd.cmd = "resolve"
    /\ Ordered(log.lines)
    /\ LET orphans == Orphans(mem[p].base, Parsed(log.lines))
       IN  /\ orphans # {}
           /\ mem' = [mem EXCEPT ![p].drop = orphans]
    /\ pc' = [pc EXCEPT ![p] = "reload"]
    /\ UNCHANGED << log, baseline, lock, hist, budget >>

\* Once the plan is confirmed resolve reads the log again, still unlocked.
Reload(p) ==
    /\ pc[p] = "reload"
    /\ IF Ordered(log.lines)
       THEN /\ mem' = [mem EXCEPT ![p] =
                 Holding(@, @.base, log, log.lines, @.drop, << >>)]
            /\ pc' = [pc EXCEPT ![p] = "lock"]
       ELSE Finish(p)
    /\ UNCHANGED << log, baseline, lock, hist, budget >>

----------------------------------------------------------------------------
(* Overwriting the files under the lock.                                   *)

TruncateBaseline(p) ==
    /\ pc[p] = "swap"
    /\ baseline' = << >>
    /\ pc' = [pc EXCEPT ![p] = "writeBaseline"]
    /\ UNCHANGED << log, lock, mem, hist, budget >>

WriteBaselineTask(p) ==
    /\ pc[p] = "writeBaseline"
    /\ \E id \in DOMAIN mem[p].base \ DOMAIN baseline :
          baseline' = Put(baseline, id, mem[p].base[id])
    /\ UNCHANGED << log, lock, pc, mem, hist, budget >>

\* Mutant: the log is emptied, but writing goes on in the middle of a line.
TruncateLogMidLine(p) ==
    /\ \/ pc[p] = "truncate"
       \/ pc[p] = "writeBaseline" /\ DOMAIN mem[p].base = DOMAIN baseline
    /\ log' = Content(<< >>, log.ended)
    /\ pc' = [pc EXCEPT ![p] = "write"]
    /\ UNCHANGED << baseline, lock, mem, hist, budget >>

TruncateLog(p) ==
    /\ \/ pc[p] = "truncate"
       \/ pc[p] = "writeBaseline" /\ DOMAIN mem[p].base = DOMAIN baseline
    /\ log' = Content(<< >>, TRUE)
    /\ pc' = [pc EXCEPT ![p] = "write"]
    /\ UNCHANGED << baseline, lock, mem, hist, budget >>

----------------------------------------------------------------------------
(* Writing the lines of a batch, or of a rewritten log.                    *)

SkipLine(p) ==
    /\ pc[p] = "write"
    /\ mem[p].todo # << >>
    /\ Head(mem[p].todo).seq \in mem[p].drop \cup {0}
    /\ mem' = [mem EXCEPT ![p].todo = Tail(@)]
    /\ UNCHANGED << log, baseline, lock, pc, hist, budget >>

WriteBody(p) ==
    /\ pc[p] = "write"
    /\ mem[p].todo # << >>
    /\ Head(mem[p].todo).seq \notin mem[p].drop \cup {0}
    /\ log' = PutBody(log, Head(mem[p].todo))
    /\ mem' = [mem EXCEPT ![p].todo = Tail(@)]
    /\ hist' = IF IsWriter(mem[p].cmd) THEN Append(hist, Head(mem[p].todo)) ELSE hist
    /\ pc' = [pc EXCEPT ![p] = "newline"]
    /\ UNCHANGED << baseline, lock, budget >>

WriteNewline(p) ==
    /\ pc[p] = "newline"
    /\ log' = PutNewline(log)
    /\ pc' = [pc EXCEPT ![p] = "write"]
    /\ UNCHANGED << baseline, lock, mem, hist, budget >>

\* Mutant: the lock is freed after any line.
UnlockEarly(p) ==
    /\ pc[p] = "write"
    /\ lock' = Nobody
    /\ Finish(p)
    /\ UNCHANGED << log, baseline, hist, budget >>

Unlock(p) ==
    /\ pc[p] = "write"
    /\ mem[p].todo = << >>
    /\ lock' = Nobody
    /\ Finish(p)
    /\ UNCHANGED << log, baseline, hist, budget >>

\* Mutant: the lock outlives the process that held it.
CrashKeepsLock(p) ==
    /\ pc[p] # "idle"
    /\ budget.crashes < MaxCrashes
    /\ Finish(p)
    /\ budget' = [budget EXCEPT !.crashes = @ + 1]
    /\ UNCHANGED << log, baseline, lock, hist >>

\* The process dies; the system closes its files, which frees the lock.
Crash(p) ==
    /\ pc[p] # "idle"
    /\ budget.crashes < MaxCrashes
    /\ lock' = IF lock = p THEN Nobody ELSE lock
    /\ Finish(p)
    /\ budget' = [budget EXCEPT !.crashes = @ + 1]
    /\ UNCHANGED << log, baseline, hist >>

----------------------------------------------------------------------------

Step(p) ==
    \/ Lock(p) \/ Decline(p) \/ Accept(p)
    \/ LoadBaseline(p) \/ LoadLogStops(p)
    \/ LoadLogToRead(p) \/ Show(p)
    \/ LoadLogToCompact(p) \/ LoadLogToResolve(p) \/ Reload(p)
    \/ TruncateBaseline(p) \/ WriteBaselineTask(p) \/ TruncateLog(p)
    \/ SkipLine(p) \/ WriteBody(p) \/ WriteNewline(p) \/ Unlock(p)

\* Every command allowed has been run and has ended.
Quiet ==
    /\ budget.ops = MaxOps
    /\ \A p \in Procs : pc[p] = "idle"
    /\ UNCHANGED vars

Next ==
    \/ \E p \in Procs :
          \/ \E c \in Commands : Start(p, c)
          \/ Step(p)
          \/ Crash(p)
    \/ Quiet

Spec == Init /\ [][Next]_vars

\* A command that has begun keeps running, and one that waits gets the lock once
\* it is free for good; nothing obliges anyone to start a command, or to die.
FairSpec == Spec /\ \A p \in Procs : WF_vars(Step(p))

----------------------------------------------------------------------------
(* Properties.                                                             *)

PcValues == {"idle", "lock", "vet", "write", "newline", "loadBaseline", "loadLog",
             "show", "reload", "swap", "writeBaseline", "truncate"}

Locked  == {"vet", "write", "newline", "swap", "writeBaseline", "truncate"}
Writing == {"write", "newline"}

\* Files are sequences of lines with a seq; only a file with a line can lack a
\* newline.
IsFile(f) ==
    /\ f = Content(f.lines, f.ended)
    /\ AreLines(f.lines)
    /\ f.ended \in BOOLEAN
    /\ f.lines = << >> => f.ended

IsMem(m) ==
    /\ m = [cmd |-> m.cmd, base |-> m.base, seen |-> m.seen, todo |-> m.todo,
            drop |-> m.drop, goal |-> m.goal, since |-> m.since]
    /\ AreLines(m.todo)

\* The shape of every variable.
TypeOK ==
    /\ IsFile(log)
    /\ lock \in Procs \cup {Nobody}
    /\ pc \in [Procs -> PcValues]
    /\ DOMAIN mem = Procs
    /\ \A p \in Procs : IsMem(mem[p])
    /\ budget \in [ops : 0..MaxOps, crashes : 0..MaxCrashes]

\* Whoever is between taking and releasing the lock is its one holder, also when
\* a holder dies: no two processes ever touch the files at once
\* (open_log_locked).
MutualExclusion == \A p \in Procs : pc[p] \in Locked <=> lock = p

\* The log is strictly increasing by seq at every moment, through appends,
\* rewrites from a stale copy, crashes inside either, and lines lost to a missing
\* newline: no seq is ever handed out twice within one log (verify_seq_order is
\* never violated by the store's own writes).
LogOrdered == Ordered(log.lines)

\* What is in the log, with what a write command still has to write, is exactly
\* the log it vetted followed by its batch: nothing was slipped in, rewritten or
\* dropped between the check and the last line, whatever others run, and the
\* baseline it was vetted against is still the one on file (append_checked holds
\* the lock from the read to the last write, compact swaps the baseline under it).
BatchLandsOnVettedStore ==
    \A p \in Procs : IsWriter(mem[p].cmd) =>
        /\ pc[p] = "write"   => WithAppended(log, mem[p].todo) = mem[p].goal
        /\ pc[p] = "newline" => log.lines \o mem[p].todo = mem[p].goal
        /\ pc[p] \in Writing => baseline = mem[p].base

\* What makes LogOrdered and the property above inductive: the lines still to
\* be written are in order, and follow the log they are written to; a write command
\* never overwrites a file, skips a line or writes one that does not parse.
PendingInOrder ==
    \A p \in Procs :
        /\ Ordered(mem[p].todo)
        /\ pc[p] \in Writing => Ordered(log.lines \o mem[p].todo)

WritersOnlyAppend ==
    \A p \in Procs : IsWriter(mem[p].cmd) =>
        /\ pc[p] \in {"lock", "vet"} \cup Writing
        /\ mem[p].drop = {}
        /\ Readable(mem[p].todo)

StateNow == Materialize(baseline, Parsed(log.lines))

StateOf(events) == Materialize(<< >>, events)

\* What a reader is shown is the state at some moment of the history no earlier than
\* the start of its command.
ShowsMoment(p) ==
    \E k \in mem[p].since .. Len(hist) :
        Materialize(mem[p].base, Parsed(mem[p].seen.lines)) = StateOf(SubSeq(hist, 1, k))

\* The files are being rewritten.
IsRewriting ==
    /\ lock # Nobody
    /\ IsMaintenance(mem[lock].cmd)
    /\ pc[lock] \in Writing \cup {"writeBaseline"}

\* A reader takes no lock.  It may read while writers append, in the middle of their
\* batches, and around a resolve or the planning of a compact; if only nobody is in the
\* middle of rewriting the files as it reads the log, and the baseline it read before
\* is still the one on file, it is shown the state of one moment, and misses no write
\* acknowledged before it began (read).
ReadIsMomentUnlessRewritten ==
    [][\A p \in Procs :
          /\ pc[p] = "loadLog" /\ pc'[p] = "show"
          /\ mem[p].base = baseline
          /\ ~ IsRewriting
          => ShowsMoment(p)']_vars


\* A field every command that names it claims: sets it to a text, if it is empty.
IsClaimed(k) ==
    /\ \A c \in Commands : c.cmd = "update" => OnlyClaims(c, k)
    /\ HasNoDefault(k)

\* Of two processes that claim a field of a task under --if field=, exactly one
\* wins: no claim is written over another one, unless the task is deleted between
\* them (README, `ta update --if`).
OneWinner ==
    \A i, j \in Len(Genesis) + 1 .. Len(hist) :
        /\ i < j /\ hist[i].op = "Update" /\ hist[j].op = "Update"
        /\ hist[i].id = hist[j].id
        /\ \E k \in DOMAIN hist[i].payload \cap DOMAIN hist[j].payload : IsClaimed(k)
        => \E n \in i..j : hist[n].op = "Delete" /\ hist[n].id = hist[i].id

\* Every command that has begun ends.
CommandsEnd == \A p \in Procs : pc[p] # "idle" ~> pc[p] = "idle"

----------------------------------------------------------------------------
(* What the store promises: the ledger of module TaskaLedger.  While a     *)
(* batch or a rewrite is under way the ledger is still what it started     *)
(* from.                                                                   *)

Settled ==
    IF lock # Nobody /\ pc[lock] \in Writing \cup {"writeBaseline"}
    THEN Materialize(mem[lock].base, DropSeqs(mem[lock].seen.lines, mem[lock].drop \cup {0}))
    ELSE StateNow

Ledger == INSTANCE TaskaLedger WITH tasks <- Settled

\* Ledger!Spec, as it looks for a command only where the map changes.
ImplementsLedger == Ledger!Init /\ [][Settled' # Settled => Ledger!Next]_Settled
=============================================================================
