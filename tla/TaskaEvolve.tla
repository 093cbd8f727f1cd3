----------------------------- MODULE TaskaEvolve -----------------------------
(***************************************************************************)
(* A store whose configuration changes under its data: settings are made   *)
(* by `ta config set` or by hand, commands write, compaction folds, repair *)
(* rewrites what no longer fits, and one user has a task in an editor all  *)
(* the while.  The editing process works under the configuration it        *)
(* started with.                                                           *)
(*                                                                         *)
(* Every other step is one command.  For a write and for the saving of a   *)
(* form that is what the write lock makes of them.  Compaction and repair  *)
(* read log and baseline before they take the lock, and config set takes   *)
(* none: that each is one step is an assumption here, and what others      *)
(* write between their reading and their writing is not in this module     *)
(* (of compaction it is in module TaskaStore).                             *)
(***************************************************************************)
EXTENDS TaskaConfig

CONSTANTS
    Settings,     \* [key, value]: the settings that are made
    HandMade,     \* the settings made by editing the file
    FirstConfig,  \* the configuration the store starts with
    Genesis,      \* the events it starts from
    Commands,     \* the commands that may be run
    Renames,      \* the renames repair is asked for: << >> or << new, old >>
    Backfills,    \* the types it is asked to give untyped tasks, Null for none
    Edits(_, _),  \* the documents a user makes of a template (with the form's config)
    EditedIds,    \* bound: the tasks that are opened in an editor
    KeepEvents,   \* compaction retains this many events
    Steps         \* bound: the number of steps

VARIABLES
    config,    \* the configuration on file
    baseline,  \* the folded state
    log,       \* the mutation log
    form,      \* the open form and its configuration, or Closed
    left       \* steps left

vars == << config, baseline, log, form, left >>

Closed == [open |-> FALSE]

Store == [baseline |-> baseline, log |-> log]

State == Desk(config)!StateOf(Store)

Events(drafts) ==
    [i \in DOMAIN drafts |->
        [seq |-> Desk(config)!NextSeq(log) + i - 1, ts |-> 1,
         op |-> drafts[i].op, id |-> drafts[i].id, payload |-> drafts[i].payload]]

Init ==
    /\ config = FirstConfig
    /\ baseline = << >> /\ log = Genesis
    /\ form = Closed
    /\ left = Steps

Tick == left > 0 /\ left' = left - 1

\* The file is left alone unless the outcome is valid and fits the data.
ConfigSet(s) ==
    /\ Tick
    /\ \E new \in {[config EXCEPT ![s.key] = s.value]} :
          /\ new # config
          /\ Valid(new)
          /\ \E state \in {State} : FitsGraph(new, state)
          /\ config' = new
    /\ UNCHANGED << baseline, log, form >>

HandEdit(s) ==
    /\ Tick
    /\ config' = [config EXCEPT ![s.key] = s.value] /\ config' # config
    /\ UNCHANGED << baseline, log, form >>

Write(c) ==
    /\ Tick
    /\ Valid(config)
    /\ \E state \in {State} :
          \E out \in {Desk(config)!Build(c, state, Desk(config)!PayloadFields(log)).out} :
             out # << >> /\ log' = log \o Events(out)
    /\ UNCHANGED << config, baseline, form >>

Compact ==
    /\ Tick
    /\ Valid(config)
    /\ \E n \in {Desk(config)!RetentionSplit(log, KeepEvents, 0, 1)} :
          /\ n > 0
          /\ baseline' = Desk(config)!Materialize(baseline, SubSeq(log, 1, n))
          /\ log' = SubSeq(log, n + 1, Len(log))
    /\ UNCHANGED << config, form >>

Repaired(rename, type) == Desk(config)!RepairSchema(Store, rename, type)

Repair(rename, type) ==
    /\ Tick
    /\ Valid(config)
    /\ Desk(config)!MayRepair(rename, type)
    /\ \E new \in {Repaired(rename, type)} :
          new # Store /\ baseline' = new.baseline /\ log' = new.log
    /\ UNCHANGED << config, form >>

----------------------------------------------------------------------------
(* The editor.                                                             *)

Open(id, creating) ==
    /\ Tick
    /\ ~ form.open
    /\ Valid(config)
    /\ \E state \in {State} :
          /\ Desk(config)!MayOpen(state, id, creating)
          /\ form' = [open |-> TRUE, config |-> config,
                      doc |-> Desk(config)!OpenForm(state, id, creating)]
    /\ UNCHANGED << config, baseline, log >>

Preview(edited) == Desk(form.config)!PreviewEdit(form.doc, edited)

Saved(p, state) == Events(Desk(form.config)!SavedDrafts(form.doc, p, state))

\* A document that would be accepted is written and the command ends.
SaveAndQuit(edited) ==
    /\ form.open
    /\ \E p \in {Preview(edited)}, state \in {State} :
          /\ p.outcome # "error"
          /\ log' = log \o Saved(p, state)
    /\ form' = Closed
    /\ UNCHANGED << config, baseline, left >>

\* After an error, or at the question about new names, the user gives up.
Discard ==
    /\ form.open
    /\ form' = Closed
    /\ UNCHANGED << config, baseline, log, left >>

Next ==
    \/ \E s \in Settings : ConfigSet(s)
    \/ \E s \in HandMade : HandEdit(s)
    \/ \E c \in Commands : Write(c)
    \/ Compact
    \/ \E rename \in Renames, type \in Backfills : Repair(rename, type)
    \/ \E id \in EditedIds, creating \in BOOLEAN : Open(id, creating)
    \/ \E edited \in (IF form.open THEN Edits(form.doc.template, form.config) ELSE {}) :
          SaveAndQuit(edited)
    \/ Discard

Spec == Init /\ [][Next]_vars
=============================================================================
