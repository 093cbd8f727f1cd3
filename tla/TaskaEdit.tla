------------------------------ MODULE TaskaEdit ------------------------------
(***************************************************************************)
(* The edit form: the document an editor shows for one task, what a saved  *)
(* document means, and the write it becomes.                               *)
(*                                                                         *)
(* A form is [id, creating, stored, template, snapshot]: the state as of   *)
(* when it was opened and, in display names, what the task stored then and *)
(* what the document offers.  A document is a record of fields in display  *)
(* names; the text it is written as is left out.                           *)
(***************************************************************************)
EXTENDS TaskaQuery

\* What the document suggests besides the stored fields.
Suggested(stored, creating) ==
    LET status == IF DefaultStatus = Null THEN << >> ELSE Put(<< >>, StatusKey, DefaultStatus)
        start  == IF DenyUntyped /\ Cardinality(DOMAIN TaskTypes) = 1
                  THEN Put(status, TypeKey, CHOOSE t \in DOMAIN TaskTypes : TRUE) ELSE status
    IN  IF creating THEN Over(start, DefaultStamps(<< >>, start, {}))
                    ELSE DefaultStamps(stored, << >>, {})

\* The blanks come last, so that none hides a field the task stores.
BuildTemplate(stored, state, creating) ==
    Over(RenameToDisplay(Over(stored, Suggested(stored, creating))),
         [name \in {DisplayName(k) : k \in EditableFields(state)} |-> Blank])

MayOpen(state, id, creating) == id \in DOMAIN state <=> ~ creating

OpenForm(state, id, creating) ==
    LET stored == FieldsOf(state, id)
    IN  [id |-> id, creating |-> creating, snapshot |-> state,
         stored |-> RenameToDisplay(stored),
         template |-> BuildTemplate(stored, state, creating)]

----------------------------------------------------------------------------
(* What a saved document means.                                            *)

\* Mutant: every line of the document is written.
WholeDocument(form, edited) ==
    edited @@ [k \in (DOMAIN form.stored) \ DOMAIN edited |-> Null]

\* The lines that were changed, and an unset for each stored line deleted.
FormPayload(form, edited) ==
    LET Untouched(k) ==
            IF k \in DOMAIN form.stored THEN edited[k] = form.stored[k]
            ELSE k \in DOMAIN form.template /\ edited[k] = form.template[k]
    IN  Over([k \in {j \in DOMAIN edited : ~ Untouched(j)} |-> edited[k]],
             [k \in (DOMAIN form.stored) \ DOMAIN edited |-> Null])

\* The names a write may use: each concept has the one it is configured to have.
Writable(fields) ==
    /\ StatusField # StatusKey => StatusKey \notin DOMAIN fields
    /\ TypeField # TypeKey     => TypeKey \notin DOMAIN fields

CanonicalName(name) ==
    CASE name = StatusField -> StatusKey
      [] name = TypeField   -> TypeKey
      [] OTHER              -> name

\* The display names of the status and the type become their canonical keys.
CanonicalizeFields(fields) ==
    [k \in {CanonicalName(name) : name \in DOMAIN fields} |-> fields[DisplayName(k)]]

SetOnly(set) == [set |-> set, append |-> << >>, subtract |-> << >>]

\* Mutant: the preview of a create forgets the defaults.
DraftsWithoutDefaults(form, set) ==
    IF form.creating THEN << Draft("Create", form.id, CoerceFields(<< >>, set)) >>
    ELSE BuildFieldEvents(form.id, FieldsOf(form.snapshot, form.id), SetOnly(set))

DraftEvents(form, set) ==
    IF form.creating THEN << CreateDraft(form.id, set) >>
    ELSE BuildFieldEvents(form.id, FieldsOf(form.snapshot, form.id), SetOnly(set))

NoPreview == [outcome |-> "error", set |-> << >>, news |-> {}]

\* An empty payload writes nothing; a new field name needs the user's consent, except
\* in the first task of a store.
PreviewDrafts(form, set, drafts) ==
    IF ~ VetEvents(drafts, form.snapshot).ok THEN NoPreview
    ELSE [outcome |-> "ready", set |-> set,
          news |-> IF form.creating /\ form.snapshot = << >> THEN {}
                   ELSE PayloadFields(drafts) \ (EditableFields(form.snapshot) \cup ReservedNames)]

PreviewSet(form, set) ==
    IF set = << >> THEN [NoPreview EXCEPT !.outcome = "ready"]
    ELSE PreviewDrafts(form, set, DraftEvents(form, set))

PreviewPayload(form, payload) ==
    IF Writable(payload) THEN PreviewSet(form, CanonicalizeFields(payload)) ELSE NoPreview

\* An empty document discards.
PreviewEdit(form, edited) ==
    IF edited = << >> THEN [NoPreview EXCEPT !.outcome = "empty"]
    ELSE PreviewPayload(form, FormPayload(form, edited))

\* The write a previewed payload becomes, against the state of its moment.
ApplyEdit(form, set, consent, state) ==
    Build(IF form.creating
          THEN [cmd |-> "create", id |-> form.id, payload |-> set, newField |-> consent]
          ELSE [cmd |-> "update", id |-> form.id, ops |-> SetOnly(set),
                guard |-> << >>, newField |-> consent],
          state, {})

\* What a document of which p is the preview writes to the tasks as they are now:
\* nothing if it changes nothing, or the write is refused by now.
SavedDrafts(form, p, state) ==
    IF p.outcome = "error" \/ p.set = << >> THEN << >>
    ELSE ApplyEdit(form, p.set, p.news # {}, state).out

----------------------------------------------------------------------------
(* What the form promises.                                                 *)

\* The preview says exactly what the write would: a document the preview accepts is
\* accepted by the write as long as the store did not change, one it rejects would
\* have been rejected, and a document left as it came writes nothing.
PreviewTellsWrite(form, edited) ==
    \A p \in {PreviewEdit(form, edited)} :
        LET payload == FormPayload(form, edited)
        IN  /\ p.outcome = "ready" /\ p.set # << >> =>
                  \A consent \in BOOLEAN :
                      ApplyEdit(form, p.set, consent, form.snapshot).ok <=> consent \/ p.news = {}
            /\ p.outcome = "error" =>
                  \/ ~ Writable(payload)
                  \/ ~ ApplyEdit(form, CanonicalizeFields(payload), TRUE, form.snapshot).ok
            /\ edited = form.template /\ edited # << >> => p.outcome = "ready" /\ p.set = << >>

\* The document shows the same under this name as the form.
LeavesAlone(form, edited, name) ==
    \/ /\ name \in (DOMAIN form.template) \cap DOMAIN edited
       /\ form.template[name] = edited[name]
    \/ name \notin DOMAIN form.stored \cup DOMAIN edited

\* Of the fields the task had before a save and has after it, those that the document
\* leaves alone stay what they were, whatever others made of them since the form was
\* opened; but a declared default or default status that the task lacked is stamped.
KeepsUnedited(form, edited, before, after) ==
    LET decl == Declared(Value(after, TypeKey))
    IN  \A k \in DOMAIN before \cup DOMAIN after : LeavesAlone(form, edited, DisplayName(k)) =>
            \/ k \in (DOMAIN before) \cap DOMAIN after /\ before[k] = after[k]
            \/ /\ k \notin DOMAIN before
               /\ \/ k \in DOMAIN decl /\ after[k] = decl[k].default
                  \/ /\ k = StatusKey
                     /\ after[k] = CoerceFields(after, Put(<< >>, k, DefaultStatus))[k]
=============================================================================
