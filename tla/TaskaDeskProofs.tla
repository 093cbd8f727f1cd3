-------------------------- MODULE TaskaDeskProofs ---------------------------
(***************************************************************************)
(* The editor and repair, for every configuration, store and document.     *)
(***************************************************************************)
EXTENDS TaskaDesk, TaskaFoldProofs

----------------------------------------------------------------------------
(* The write a form becomes.                                               *)

\* An update that only sets is one draft, or none.
SetPayload(current, set) == CoerceFields(current, Over(set, DefaultStamps(current, set, {})))

LEMMA SetIsOneDraft ==
    ASSUME NEW id, NEW current, NEW set
    PROVE  /\ DispatchAccumulate(current, SetOnly(set)).ok
           /\ BuildFieldEvents(id, current, SetOnly(set)) =
                 IF DOMAIN SetPayload(current, set) = {} THEN << >>
                 ELSE << Draft("Update", id, SetPayload(current, set)) >>
<1> DEFINE ops == SetOnly(set)
           acc == DispatchAccumulate(current, ops)
           Some(op, payload) == IF DOMAIN payload = {} THEN << >> ELSE << Draft(op, id, payload) >>
<1>1. ops.set = set /\ DOMAIN ops.append = {} /\ DOMAIN ops.subtract = {}
  BY DEF SetOnly
<1> HIDE DEF ops
<1>2. acc.ok /\ DOMAIN acc.text = {} /\ DOMAIN acc.add = {} /\ DOMAIN acc.remove = {}
  BY <1>1 DEF DispatchAccumulate, Without, Restrict
<1> HIDE DEF acc
<1>3. BuildFieldEvents(id, current, ops) =
          Some("Update", SetPayload(current, set)) \o Some("Append", acc.text)
              \o Some("Add", acc.add) \o Some("Remove", acc.remove)
  <2>1. DOMAIN acc.text \cup DOMAIN acc.add \cup DOMAIN acc.remove = {}
    BY <1>2
  <2> QED BY <1>1, <2>1 DEF BuildFieldEvents, SetPayload, acc
<1>4. /\ Some("Append", acc.text) = << >>
      /\ Some("Add", acc.add) = << >>
      /\ Some("Remove", acc.remove) = << >>
  BY <1>2
<1>5. IsSeq(Some("Update", SetPayload(current, set)))
  BY MaterializeOne, SeqEmpty
<1>6. ASSUME NEW s, IsSeq(s) PROVE s \o << >> = s
  BY <1>6 DEF IsSeq
<1> HIDE DEF Some
<1>7. BuildFieldEvents(id, current, ops) = Some("Update", SetPayload(current, set))
  BY <1>3, <1>4, <1>5, <1>6
<1> QED BY <1>2, <1>7 DEF Some, ops, acc

\* The drafts of a form, in the state it is written to.
FormDrafts(form, set, state) ==
    IF form.creating THEN << CreateDraft(form.id, set) >>
    ELSE BuildFieldEvents(form.id, FieldsOf(state, form.id), SetOnly(set))

\* The write a form becomes is refused over a new name, or as its drafts are.
LEMMA ApplyIsVetting ==
    ASSUME NEW form, NEW set, NEW consent, NEW state
    PROVE  ApplyEdit(form, set, consent, state) =
               IF VetNewFields(FormDrafts(form, set, state), state, consent)
               THEN VetEvents(FormDrafts(form, set, state), state) ELSE Refused
<1>1. CASE form.creating
  BY <1>1 DEF ApplyEdit, Build, FormDrafts
<1>2. CASE ~ form.creating
  <2> DEFINE c == [cmd |-> "update", id |-> form.id, ops |-> SetOnly(set),
                   guard |-> << >>, newField |-> consent]
  <2>1. ApplyEdit(form, set, consent, state) = Build(c, state, {})
    BY <1>2 DEF ApplyEdit
  <2>2. ASSUME NEW introduces PROVE EnsureGuard(state, {}, c.id, c.guard, introduces)
    BY DEF EnsureGuard
  <2>3. DispatchAccumulate(FieldsOf(state, c.id), c.ops).ok
    BY SetIsOneDraft
  <2>4. FormDrafts(form, set, state) = BuildFieldEvents(c.id, FieldsOf(state, c.id), c.ops)
    BY <1>2 DEF FormDrafts
  <2>5. c.cmd = "update" /\ c.newField = consent
    OBVIOUS
  <2> HIDE DEF c
  <2> QED BY <2>1, <2>2, <2>3, <2>4, <2>5 DEF Build
<1> QED BY <1>1, <1>2

----------------------------------------------------------------------------
(* The preview.                                                            *)

\* No field is stored under the name that the status or the type is shown under.
NamesApart(fields) ==
    /\ StatusField # TypeField
    /\ StatusField \in DOMAIN fields => StatusField = StatusKey
    /\ TypeField \in DOMAIN fields => TypeField = TypeKey

LEMMA EmptyIsNothing ==
    ASSUME NEW f, IsFcn(f)
    PROVE  f = << >> <=> DOMAIN f = {}
BY DEF IsFcn

\* What is stored is shown, whatever is suggested.
LEMMA TemplateShowsStored ==
    ASSUME NEW state, NEW id, NEW creating, NamesApart(FieldsOf(state, id)),
           NEW name \in DOMAIN OpenForm(state, id, creating).stored
    PROVE  LET form == OpenForm(state, id, creating)
           IN  name \in DOMAIN form.template /\ form.template[name] = form.stored[name]
<1> DEFINE form == OpenForm(state, id, creating)
           fields == FieldsOf(state, id)
           more == Suggested(fields, creating)
           all == Over(fields, more)
           shown == RenameToDisplay(all)
           blanks == [n \in {DisplayName(k) : k \in EditableFields(state)} |-> Blank]
<1>1. form.stored = RenameToDisplay(fields) /\ form.template = Over(shown, blanks)
  BY DEF OpenForm, BuildTemplate
<1>2. PICK k \in DOMAIN fields : name = DisplayName(k)
  BY <1>1 DEF RenameToDisplay
<1>3. form.stored[name] = fields[StoredName(fields, name)]
  BY <1>1 DEF RenameToDisplay
<1> HIDE DEF fields, more
<1>4. k \in DOMAIN all /\ \A j \in DOMAIN fields : j \in DOMAIN all /\ all[j] = fields[j]
  BY <1>2, Overridden
<1> HIDE DEF all
<1>5. name \in DOMAIN shown /\ shown[name] = all[StoredName(all, name)]
  BY <1>2, <1>4 DEF RenameToDisplay
<1>6. StoredName(fields, name) = k /\ StoredName(all, name) = k
  <2>1. StatusKey # TypeKey
    BY DEF StatusKey, TypeKey
  <2>2. NamesApart(fields)
    BY DEF fields
  <2> QED BY <1>2, <1>4, <2>1, <2>2 DEF StoredName, DisplayName, NamesApart
<1> HIDE DEF shown, blanks, form
<1>7. name \in DOMAIN Over(shown, blanks) /\ Over(shown, blanks)[name] = shown[name]
  BY <1>5, Overridden
<1>8. name \in DOMAIN form.template /\ form.template[name] = form.stored[name]
  BY <1>1, <1>2, <1>3, <1>4, <1>5, <1>6, <1>7
<1> QED BY <1>8 DEF form

\* A document left as it came is no write.
LEMMA TemplateWritesNothing ==
    ASSUME NEW state, NEW id, NEW creating, NamesApart(FieldsOf(state, id))
    PROVE  LET form == OpenForm(state, id, creating)
           IN  FormPayload(form, form.template) = << >>
<1> DEFINE form == OpenForm(state, id, creating)
           edited == form.template
           Untouched(k) ==
               IF k \in DOMAIN form.stored THEN edited[k] = form.stored[k]
               ELSE k \in DOMAIN form.template /\ edited[k] = form.template[k]
           changed == [k \in {j \in DOMAIN edited : ~ Untouched(j)} |-> edited[k]]
           unset == [k \in (DOMAIN form.stored) \ DOMAIN edited |-> Null]
<1>1. \A k \in DOMAIN form.stored : k \in DOMAIN edited /\ edited[k] = form.stored[k]
  BY TemplateShowsStored
<1>2. FormPayload(form, edited) = Over(changed, unset)
  BY DEF FormPayload
<1> HIDE DEF form
<1>3. DOMAIN changed = {} /\ DOMAIN unset = {}
  BY <1>1
<1> HIDE DEF changed, unset
<1>4. Over(changed, unset) = << >>
  BY <1>3 DEF Over
<1> QED BY <1>2, <1>4 DEF form

\* A write goes through over the names when the preview had none to ask about, or
\* the user agreed to them.
LEMMA NewsAreAskedAbout ==
    ASSUME NEW form, NEW set, NEW consent \in BOOLEAN, NEW state, IsFcn(state),
           form.snapshot = state, form.creating \/ DOMAIN state # {},
           VetEvents(DraftEvents(form, set), state).ok
    PROVE  VetNewFields(DraftEvents(form, set), state, consent)
               <=> consent \/ PreviewDrafts(form, set, DraftEvents(form, set)).news = {}
<1> DEFINE drafts == DraftEvents(form, set)
           known == EditableFields(state) \cup ReservedNames
<1>1. state = << >> <=> DOMAIN state = {}
  BY EmptyIsNothing
<1>2. PreviewDrafts(form, set, drafts).news =
          IF form.creating /\ DOMAIN state = {} THEN {} ELSE PayloadFields(drafts) \ known
  BY <1>1 DEF PreviewDrafts
<1>3. VetNewFields(drafts, state, consent)
          <=> PayloadFields(drafts) \subseteq known \/ consent \/ DOMAIN state = {}
  BY DEF VetNewFields
<1> HIDE DEF drafts, known
<1>4. VetNewFields(drafts, state, consent) <=> consent \/ PreviewDrafts(form, set, drafts).news = {}
  BY <1>2, <1>3
<1> QED BY <1>4 DEF drafts

\* The preview of a form says what its write would do, for every configuration, every
\* state of the tasks and every document; no field of the task may be stored under the
\* name that the status or the type is shown under (EditForm::preview, EditForm::apply).
THEOREM PreviewsTellTheWrite ==
    ASSUME NEW state, IsFcn(state), NEW id, NEW creating \in BOOLEAN,
           MayOpen(state, id, creating), NamesApart(FieldsOf(state, id)), NEW edited
    PROVE  PreviewTellsWrite(OpenForm(state, id, creating), edited)
<1> DEFINE form == OpenForm(state, id, creating)
           p == PreviewEdit(form, edited)
           payload == FormPayload(form, edited)
           set == CanonicalizeFields(payload)
           drafts == DraftEvents(form, set)
<1>1. form.snapshot = state /\ form.creating = creating
  BY DEF OpenForm
<1>2. form.creating \/ DOMAIN state # {}
  BY <1>1 DEF MayOpen
<1>3. edited # << >> => FormPayload(form, form.template) = << >>
  BY TemplateWritesNothing
<1>4. edited = << >> => p = [outcome |-> "empty", set |-> << >>, news |-> {}]
  BY DEF PreviewEdit, NoPreview
<1>5. edited # << >> => p = PreviewPayload(form, payload)
  BY DEF PreviewEdit
<1> HIDE DEF form, p
<1>6. edited # << >> => p = IF Writable(payload) THEN PreviewSet(form, set) ELSE NoPreview
  BY <1>5 DEF PreviewPayload
<1>7. PreviewSet(form, set) = IF set = << >> THEN [outcome |-> "ready", set |-> << >>, news |-> {}]
                              ELSE PreviewDrafts(form, set, drafts)
  BY DEF PreviewSet, NoPreview
<1>8. /\ VetEvents(drafts, state).ok =>
            /\ PreviewDrafts(form, set, drafts).outcome = "ready"
            /\ PreviewDrafts(form, set, drafts).set = set
      /\ ~ VetEvents(drafts, state).ok => PreviewDrafts(form, set, drafts) = NoPreview
  BY <1>1 DEF PreviewDrafts
<1>9. ASSUME NEW consent
      PROVE  ApplyEdit(form, set, consent, state) =
                 IF VetNewFields(drafts, state, consent) THEN VetEvents(drafts, state) ELSE Refused
  <2>1. FormDrafts(form, set, state) = drafts
    BY <1>1 DEF FormDrafts, DraftEvents
  <2> QED BY <2>1, ApplyIsVetting
<1>10. ASSUME NEW consent \in BOOLEAN, VetEvents(drafts, state).ok
       PROVE  VetNewFields(drafts, state, consent)
                  <=> consent \/ PreviewDrafts(form, set, drafts).news = {}
  BY <1>1, <1>2, <1>10, NewsAreAskedAbout
<1> HIDE DEF set, drafts
<1>11. NoPreview = [outcome |-> "error", set |-> << >>, news |-> {}] /\ ~ Refused.ok
  BY DEF NoPreview, Refused, Vetting
<1>12. ASSUME p.outcome = "ready", p.set # << >>, NEW consent \in BOOLEAN
       PROVE  ApplyEdit(form, p.set, consent, state).ok <=> consent \/ p.news = {}
  <2>1. edited # << >> /\ p = PreviewDrafts(form, set, drafts) /\ VetEvents(drafts, state).ok
    BY <1>4, <1>6, <1>7, <1>8, <1>11, <1>12
  <2>2. p.set = set
    BY <1>8, <2>1
  <2>3. VetNewFields(drafts, state, consent) <=> consent \/ p.news = {}
    BY <1>10, <2>1
  <2> QED BY <1>9, <1>11, <2>1, <2>2, <2>3
<1>13. ASSUME p.outcome = "error", Writable(payload)
       PROVE  ~ ApplyEdit(form, set, TRUE, state).ok
  <2>1. ~ VetEvents(drafts, state).ok
    BY <1>4, <1>6, <1>7, <1>8, <1>13
  <2> QED BY <1>9, <1>11, <2>1
<1>14. ASSUME edited = form.template, edited # << >>
       PROVE  p.outcome = "ready" /\ p.set = << >>
  <2>1. payload = << >>
    BY <1>3, <1>14
  <2>2. Writable(payload) /\ set = << >>
    BY <2>1 DEF Writable, set, CanonicalizeFields
  <2> QED BY <1>6, <1>7, <1>14, <2>2
<1>15. PreviewTellsWrite(form, edited)
  BY <1>1, <1>12, <1>13, <1>14 DEF PreviewTellsWrite, p, set
<1> QED BY <1>15 DEF form

----------------------------------------------------------------------------
(* What a save makes of a task.                                            *)

\* What setting some fields makes of them; those that have the value already may be
\* left out.
LEMMA SetOutcome ==
    ASSUME NEW current, NEW pl, NEW pay,
           pay = pl \/ pay = Restrict(pl, Changes(current, pl))
    PROVE  LET after == ApplySet(current, pay)
           IN  /\ \A k : k \notin DOMAIN pl =>
                      /\ k \in DOMAIN after <=> k \in DOMAIN current
                      /\ k \in DOMAIN after => after[k] = current[k]
               /\ \A k \in DOMAIN pl : Value(after, k) = pl[k]
               /\ \A k \in DOMAIN pl : k \in DOMAIN after /\ k \notin DOMAIN current =>
                      pl[k] # Null /\ after[k] = pl[k]
<1> DEFINE after == ApplySet(current, pay)
           unset == {k \in DOMAIN pay : pay[k] = Null}
<1>1. /\ \A k : k \in DOMAIN pay =>
             k \in DOMAIN pl /\ pay[k] = pl[k]
      /\ \A k \in DOMAIN pl : k \in DOMAIN pay \/ pl[k] = Value(current, k)
  BY DEF Restrict, Changes
<1>2. after = Over(Without(pay, unset), Without(current, unset))
  BY DEF ApplySet
<1>3. /\ \A k : k \in DOMAIN after <=>
             \/ k \in DOMAIN pay /\ pay[k] # Null
             \/ k \in DOMAIN current /\ ~ (k \in DOMAIN pay /\ pay[k] = Null)
      /\ \A k \in DOMAIN after :
             after[k] = IF k \in DOMAIN pay /\ pay[k] # Null THEN pay[k] ELSE current[k]
  BY <1>2, Overridden, Remains
<1> HIDE DEF after, unset
<1>4. ASSUME NEW k, k \notin DOMAIN pl
      PROVE  /\ k \in DOMAIN after <=> k \in DOMAIN current
             /\ k \in DOMAIN after => after[k] = current[k]
  BY <1>1, <1>3, <1>4
<1>5. ASSUME NEW k \in DOMAIN pl
      PROVE  /\ Value(after, k) = pl[k]
             /\ k \in DOMAIN after /\ k \notin DOMAIN current => pl[k] # Null /\ after[k] = pl[k]
  BY <1>1, <1>3 DEF Value
<1> QED BY <1>4, <1>5 DEF after

\* What is supposed of the declared types.  That the type is not a field of itself and
\* that a default conforms the configuration is checked for; that no type has the empty
\* name, which would also unset the field, it is not (collect_task_type_problems).
SoundTypes ==
    /\ {Null, Blank} \cap DOMAIN TaskTypes = {}
    /\ \A type \in DOMAIN TaskTypes :
          LET decl == TaskTypes[type].fields
          IN  /\ TypeKey \notin DOMAIN decl
              /\ \A k \in DOMAIN decl : decl[k].default # Null => MatchesSchema(decl[k].default, decl[k])

LEMMA DeclaredIsSound ==
    ASSUME SoundTypes, NEW type
    PROVE  /\ TypeKey \notin DOMAIN Declared(type)
           /\ type \in {Null, Blank} => DOMAIN Declared(type) = {}
           /\ \A k \in DOMAIN Declared(type) :
                 Declared(type)[k].default # Null =>
                     MatchesSchema(Declared(type)[k].default, Declared(type)[k])
BY DEF Declared, SoundTypes

\* A value of its kind is its own lift.
LEMMA LiftedStays ==
    ASSUME NEW v, NEW s, MatchesSchema(v, s)
    PROVE  CoerceValue(v, s.kind) = v
<1>1. Numerals(v) # {} => v[1] = "text"
  BY DEF Numerals, Word, Text
<1> QED BY <1>1 DEF MatchesSchema, MatchesKind, CoerceValue, IsText, IsNumber, IsSet

\* A write judges the task by the type it leaves it with.
LEMMA TypeIsJudge ==
    ASSUME SoundTypes, NEW current, NEW all, NEW after,
           Value(after, TypeKey) =
               IF TypeKey \in DOMAIN all THEN CoerceFields(current, all)[TypeKey]
               ELSE Value(current, TypeKey)
    PROVE  /\ DOMAIN Declared(Value(after, TypeKey)) = DOMAIN Declared(WriteType(current, all))
           /\ \A k \in DOMAIN Declared(WriteType(current, all)) :
                 Declared(Value(after, TypeKey))[k] = Declared(WriteType(current, all))[k]
<1> DEFINE type == WriteType(current, all)
<1>1. CASE TypeKey \notin DOMAIN all
  BY <1>1 DEF WriteType
<1>2. CASE TypeKey \in DOMAIN all
  <2>1. type = all[TypeKey] /\ TypeKey \notin DOMAIN Declared(type)
    BY <1>2, DeclaredIsSound DEF WriteType
  <2>2. CoerceFields(current, all)[TypeKey] = IF type = Blank THEN Null ELSE type
    <3> HIDE DEF type
    <3>1. CoerceFields(current, all)[TypeKey] = IF all[TypeKey] = Blank THEN Null ELSE all[TypeKey]
      BY <1>2, <2>1 DEF CoerceFields, type
    <3> QED BY <2>1, <3>1
  <2>3. CASE type = Blank
    <3>1. DOMAIN Declared(type) = {} /\ DOMAIN Declared(Null) = {}
      BY <2>3, DeclaredIsSound
    <3> QED BY <1>2, <2>2, <2>3, <3>1
  <2>4. CASE type # Blank
    BY <1>2, <2>2, <2>4
  <2> QED BY <2>3, <2>4
<1> QED BY <1>1, <1>2

\* What vetting lets through of one draft that makes a task or sets fields of one.
LEMMA VetOneDraft ==
    ASSUME NEW state, NEW d, d.op \in {"Create", "Update"},
           VetEvents(<< d >>, state).out # << >>
    PROVE  /\ d.id \in DOMAIN state <=> d.op = "Update"
           /\ \E e : /\ VetEvents(<< d >>, state).out = << e >>
                    /\ e.op = d.op /\ e.id = d.id
                    /\ \/ e.payload = d.payload
                       \/ e.payload = Restrict(d.payload, Changes(FieldsOf(state, d.id), d.payload))
<1> DEFINE drafts == << d >>
<1>1. IsSeq(drafts) /\ Len(drafts) = 1 /\ drafts[1] = d
  BY MaterializeOne
<1> HIDE DEF drafts
<1>2. PICK r : /\ IsVetRun(r, state, drafts)
               /\ VetEvents(drafts, state) = Vetted(state, r[1])
  BY <1>1, VetEventsIsRun
<1>3. r[0] = NothingVetted /\ r[1] = VetDraft(state, r[0], d)
  BY <1>1, <1>2, VetIsVetDraft DEF IsVetRun
<1>4. r[1].ok /\ VetEvents(drafts, state).out = r[1].out /\ r[1].out # r[0].out
  BY <1>2, <1>3 DEF Vetted, Refused, Vetting, NothingVetted, drafts
<1>5. ~ Refuses(state, d)
  BY <1>3, <1>4, VetLogs DEF EventOps
<1>6. PICK e : /\ r[1].out = Append(r[0].out, e) /\ e.op = d.op /\ e.id = d.id
               /\ IF d.op = "Update"
                  THEN e.payload = Restrict(d.payload, Changes(FieldsOf(state, d.id), d.payload))
                  ELSE e = d
  BY <1>3, <1>4, VetLogs DEF EventOps
<1>7. r[1].out = << e >>
  BY <1>3, <1>6 DEF NothingVetted, Vetting
<1> QED BY <1>4, <1>5, <1>6, <1>7 DEF Refuses, drafts

\* The fields of a task after a write of one draft.
LEMMA FieldsAfterOne ==
    ASSUME NEW state, AllTasks(state), NEW e, e.op \in {"Create", "Update"},
           e.id \in DOMAIN state <=> e.op = "Update", NEW events, events = << e >>
    PROVE  FieldsOf(Materialize(state, events), e.id) = ApplySet(FieldsOf(state, e.id), e.payload)
<1>1. Materialize(state, events) = Apply(state, e)
  BY MaterializeOne
<1>2. /\ e.id \in DOMAIN Apply(state, e)
      /\ Apply(state, e)[e.id] = Touched(Before(state, e), e)
  BY ApplyFrame
<1>3. IsTask(Before(state, e)) /\ Before(state, e).fields = FieldsOf(state, e.id)
  BY DEF AllTasks, Before, IsTask, NewTask, FieldsOf
<1>4. Touched(Before(state, e), e).fields = ApplySet(FieldsOf(state, e.id), e.payload)
  BY <1>3, TouchedFields DEF FieldsAfter, EventOps
<1> QED BY <1>1, <1>2, <1>4 DEF FieldsOf

\* The defaults that are stamped, and no more.
LEMMA StampsAreDefaults ==
    ASSUME SoundTypes, NEW current, NEW payload
    PROVE  LET stamps == DefaultStamps(current, payload, {})
               decl == Declared(WriteType(current, payload))
           IN  /\ \A k \in DOMAIN stamps :
                     /\ k \in DOMAIN decl /\ k \notin DOMAIN payload /\ k \notin DOMAIN current
                     /\ decl[k].default # Null /\ stamps[k] = decl[k].default
               /\ WriteType(current, Over(payload, stamps)) = WriteType(current, payload)
<1> DEFINE stamps == DefaultStamps(current, payload, {})
           decl == Declared(WriteType(current, payload))
<1>1. \A k \in DOMAIN stamps :
          /\ k \in DOMAIN decl /\ k \notin DOMAIN payload /\ k \notin DOMAIN current
          /\ decl[k].default # Null /\ stamps[k] = decl[k].default
  BY DEF DefaultStamps
<1>2. TypeKey \notin DOMAIN stamps
  BY <1>1, DeclaredIsSound
<1> HIDE DEF stamps
<1>3. WriteType(current, Over(payload, stamps)) = WriteType(current, payload)
  BY <1>2, Overridden DEF WriteType
<1> QED BY <1>1, <1>3 DEF stamps

\* The fields a write stamps on a task besides those it sets.
StampedOnly(before, set, all) ==
    LET decl == Declared(WriteType(before, all))
    IN  \A k \in DOMAIN all : k \notin DOMAIN set =>
            /\ k \notin DOMAIN before
            /\ \/ k \in DOMAIN decl /\ decl[k].default # Null /\ all[k] = decl[k].default
               \/ k = StatusKey /\ all[k] = DefaultStatus

LEMMA UpdateStamps ==
    ASSUME SoundTypes, NEW before, NEW set
    PROVE  StampedOnly(before, set, Over(set, DefaultStamps(before, set, {})))
<1> DEFINE stamps == DefaultStamps(before, set, {})
<1>1. /\ \A k : k \in DOMAIN Over(set, stamps) <=> k \in DOMAIN set \/ k \in DOMAIN stamps
      /\ \A k \in DOMAIN stamps : k \notin DOMAIN set => Over(set, stamps)[k] = stamps[k]
  BY Overridden
<1>2. /\ \A k \in DOMAIN stamps :
            LET decl == Declared(WriteType(before, set))
            IN  /\ k \in DOMAIN decl /\ k \notin DOMAIN set /\ k \notin DOMAIN before
                /\ decl[k].default # Null /\ stamps[k] = decl[k].default
      /\ WriteType(before, Over(set, stamps)) = WriteType(before, set)
  BY StampsAreDefaults
<1> HIDE DEF stamps
<1> QED BY <1>1, <1>2 DEF StampedOnly, stamps

LEMMA CreateStamps ==
    ASSUME SoundTypes, NEW id, NEW set
    PROVE  \E all : /\ CreateDraft(id, set) = Draft("Create", id, CoerceFields(<< >>, all))
                   /\ StampedOnly(<< >>, set, all)
<1> DEFINE status == IF DefaultStatus = Null THEN << >> ELSE Put(<< >>, StatusKey, DefaultStatus)
           stamped == Over(set, status)
           stamps == DefaultStamps(<< >>, stamped, {})
           all == Over(stamped, stamps)
<1>1. CreateDraft(id, set) = Draft("Create", id, CoerceFields(<< >>, all))
  BY DEF CreateDraft
<1>2. \A k \in DOMAIN status : k = StatusKey /\ status[k] = DefaultStatus
  BY DEF Put
<1> HIDE DEF status
<1>3. \A k \in DOMAIN stamped : k \in DOMAIN set \/ (k = StatusKey /\ stamped[k] = DefaultStatus)
  BY <1>2, Overridden
<1> HIDE DEF stamped
<1>4. /\ \A k \in DOMAIN stamps :
            LET decl == Declared(WriteType(<< >>, stamped))
            IN  /\ k \in DOMAIN decl /\ k \notin DOMAIN stamped
                /\ decl[k].default # Null /\ stamps[k] = decl[k].default
      /\ WriteType(<< >>, all) = WriteType(<< >>, stamped)
  BY StampsAreDefaults
<1> HIDE DEF stamps
<1>5. \A k \in DOMAIN all : \/ k \in DOMAIN stamped /\ all[k] = stamped[k]
                            \/ k \in DOMAIN stamps /\ all[k] = stamps[k]
  BY Overridden
<1> HIDE DEF all
<1>6. DOMAIN << >> = {}
  OBVIOUS
<1>7. StampedOnly(<< >>, set, all)
  BY <1>3, <1>4, <1>5, <1>6 DEF StampedOnly
<1> QED BY <1>1, <1>7

\* A field that is not set stays, or is stamped.
LEMMA UnsetFieldStays ==
    ASSUME SoundTypes, NEW before, NEW set, NEW all, StampedOnly(before, set, all), NEW pay,
           LET pl == CoerceFields(before, all)
           IN  pay = pl \/ pay = Restrict(pl, Changes(before, pl)),
           NEW after, after = ApplySet(before, pay),
           NEW k \in DOMAIN before \cup DOMAIN after, k \notin DOMAIN set
    PROVE  LET decl == Declared(Value(after, TypeKey))
           IN  \/ k \in (DOMAIN before) \cap DOMAIN after /\ before[k] = after[k]
               \/ /\ k \notin DOMAIN before
                  /\ \/ k \in DOMAIN decl /\ after[k] = decl[k].default
                     \/ /\ k = StatusKey
                        /\ after[k] = CoerceFields(after, Put(<< >>, k, DefaultStatus))[k]
<1> DEFINE pl == CoerceFields(before, all)
           decl == Declared(Value(after, TypeKey))
           judge == Declared(WriteType(before, all))
<1>1. DOMAIN pl = DOMAIN all
  BY DEF CoerceFields
<1>2. /\ \A j : j \notin DOMAIN pl =>
                /\ j \in DOMAIN after <=> j \in DOMAIN before
                /\ j \in DOMAIN after => after[j] = before[j]
      /\ \A j \in DOMAIN pl : Value(after, j) = pl[j]
      /\ \A j \in DOMAIN pl : j \in DOMAIN after /\ j \notin DOMAIN before =>
                pl[j] # Null /\ after[j] = pl[j]
  <2>1. pay = pl \/ pay = Restrict(pl, Changes(before, pl))
    OBVIOUS
  <2> HIDE DEF pl
  <2> QED BY <2>1, SetOutcome
<1>3. CASE k \notin DOMAIN all
  BY <1>1, <1>2, <1>3
<1>4. CASE k \in DOMAIN all
  <2>1. /\ k \notin DOMAIN before
        /\ \/ k \in DOMAIN judge /\ judge[k].default # Null /\ all[k] = judge[k].default
           \/ k = StatusKey /\ all[k] = DefaultStatus
    BY <1>4 DEF StampedOnly
  <2>2. pl[k] # Null /\ after[k] = pl[k]
    BY <1>1, <1>2, <1>4, <2>1
  <2>3. Value(after, TypeKey) =
            IF TypeKey \in DOMAIN all THEN pl[TypeKey] ELSE Value(before, TypeKey)
    BY <1>1, <1>2 DEF Value
  <2>4. DOMAIN decl = DOMAIN judge /\ \A j \in DOMAIN judge : decl[j] = judge[j]
    BY <2>3, TypeIsJudge
  <2>5. pl[k] = IF all[k] = Blank /\ ~ (k \in DOMAIN judge /\ judge[k].required) THEN Null
                ELSE IF all[k] # Null /\ k \in DOMAIN judge THEN CoerceValue(all[k], judge[k].kind)
                ELSE all[k]
    BY <1>4 DEF CoerceFields
  <2>6. CASE k \in DOMAIN judge /\ judge[k].default # Null /\ all[k] = judge[k].default
    <3>1. CoerceValue(all[k], judge[k].kind) = all[k]
      BY <2>6, LiftedStays, DeclaredIsSound
    <3>2. after[k] = judge[k].default
      BY <2>2, <2>5, <2>6, <3>1
    <3> QED BY <2>1, <2>4, <2>6, <3>2
  <2>7. CASE k = StatusKey /\ all[k] = DefaultStatus
    <3> DEFINE one == Put(<< >>, k, DefaultStatus)
    <3>1. DOMAIN one = {k} /\ one[k] = DefaultStatus /\ TypeKey \notin DOMAIN one
      BY <2>7 DEF Put, StatusKey, TypeKey
    <3> HIDE DEF one
    <3>2. WriteType(after, one) = Value(after, TypeKey)
      BY <3>1 DEF WriteType
    <3>3. CoerceFields(after, one)[k] =
              IF one[k] = Blank /\ ~ (k \in DOMAIN decl /\ decl[k].required) THEN Null
              ELSE IF one[k] # Null /\ k \in DOMAIN decl THEN CoerceValue(one[k], decl[k].kind)
              ELSE one[k]
      BY <3>1, <3>2 DEF CoerceFields
    <3>4. CoerceFields(after, one)[k] = pl[k]
      <4> HIDE DEF pl, decl, judge
      <4> QED BY <2>4, <2>5, <2>7, <3>1, <3>3
    <3> QED BY <2>1, <2>2, <2>7, <3>4 DEF one
  <2> QED BY <2>1, <2>6, <2>7
<1> QED BY <1>3, <1>4

\* What a document leaves alone is not set.
LEMMA LeftAloneIsNotSet ==
    ASSUME NEW state, NEW id, NEW creating, NamesApart(FieldsOf(state, id)), NEW edited,
           NEW k, LeavesAlone(OpenForm(state, id, creating), edited, DisplayName(k)),
           Writable(FormPayload(OpenForm(state, id, creating), edited))
    PROVE  k \notin DOMAIN CanonicalizeFields(FormPayload(OpenForm(state, id, creating), edited))
<1> DEFINE form == OpenForm(state, id, creating)
           payload == FormPayload(form, edited)
           Untouched(n) ==
               IF n \in DOMAIN form.stored THEN edited[n] = form.stored[n]
               ELSE n \in DOMAIN form.template /\ edited[n] = form.template[n]
           changed == [n \in {j \in DOMAIN edited : ~ Untouched(j)} |-> edited[n]]
           unset == [n \in (DOMAIN form.stored) \ DOMAIN edited |-> Null]
           name == DisplayName(k)
<1>1. \A n \in DOMAIN form.stored : n \in DOMAIN form.template /\ form.template[n] = form.stored[n]
  BY TemplateShowsStored
<1>2. payload = Over(changed, unset)
  BY DEF FormPayload
<1>3. LeavesAlone(form, edited, name) /\ Writable(payload)
  OBVIOUS
<1> HIDE DEF form, name
<1>4. name \notin DOMAIN changed /\ name \notin DOMAIN unset
  BY <1>1, <1>3 DEF LeavesAlone
<1> HIDE DEF changed, unset
<1>5. name \notin DOMAIN payload
  BY <1>2, <1>4, Overridden
<1> HIDE DEF payload
<1>6. ASSUME NEW n \in DOMAIN payload, CanonicalName(n) = k PROVE FALSE
  <2>1. StatusKey # TypeKey
    BY DEF StatusKey, TypeKey
  <2> QED BY <1>3, <1>5, <1>6, <2>1 DEF CanonicalName, DisplayName, Writable, name
<1>7. k \notin DOMAIN CanonicalizeFields(payload)
  BY <1>6 DEF CanonicalizeFields
<1> QED BY <1>7 DEF payload, form

\* The events that drafts are logged as.
LoggedAs(events, drafts) ==
    /\ IsSeq(events) /\ Len(events) = Len(drafts)
    /\ \A i \in 1..Len(drafts) :
          /\ events[i].op = drafts[i].op /\ events[i].id = drafts[i].id
          /\ events[i].payload = drafts[i].payload

\* The one draft of a form, and the fields it sets.
IsDraftOf(d, all, form, set, state) ==
    LET before == IF d.op = "Create" THEN << >> ELSE FieldsOf(state, form.id)
    IN  /\ d.op \in {"Create", "Update"} /\ d.id = form.id
        /\ d.payload = CoerceFields(before, all) /\ StampedOnly(before, set, all)

\* What a form writes is one draft.
LEMMA FormIsOneDraft ==
    ASSUME SoundTypes, NEW form, NEW set, NEW consent, NEW state,
           NEW out, out = ApplyEdit(form, set, consent, state).out, out # << >>
    PROVE  \E d, all : out = VetEvents(<< d >>, state).out /\ IsDraftOf(d, all, form, set, state)
<1> DEFINE drafts == FormDrafts(form, set, state)
           current == FieldsOf(state, form.id)
<1>1. Refused.out = << >>
  BY DEF Refused, Vetting
<1>2. out = VetEvents(drafts, state).out
  BY <1>1, ApplyIsVetting
<1>3. CASE form.creating
  <2>1. PICK all : /\ CreateDraft(form.id, set) = Draft("Create", form.id, CoerceFields(<< >>, all))
                   /\ StampedOnly(<< >>, set, all)
    BY CreateStamps
  <2> DEFINE d == CreateDraft(form.id, set)
  <2>2. drafts = << d >>
    BY <1>3 DEF FormDrafts
  <2>3. d.op = "Create" /\ d.id = form.id /\ d.payload = CoerceFields(<< >>, all)
    BY <2>1 DEF Draft
  <2> HIDE DEF d, drafts
  <2>4. IsDraftOf(d, all, form, set, state)
    BY <2>1, <2>3 DEF IsDraftOf
  <2> QED BY <1>2, <2>2, <2>4
<1>4. CASE ~ form.creating
  <2> DEFINE all == Over(set, DefaultStamps(current, set, {}))
             d == Draft("Update", form.id, SetPayload(current, set))
  <2>1. StampedOnly(current, set, all)
    BY UpdateStamps
  <2>2. drafts = << >> \/ drafts = << d >>
    BY <1>4, SetIsOneDraft DEF FormDrafts
  <2>3. d.op = "Update" /\ d.id = form.id /\ d.payload = CoerceFields(current, all)
    BY DEF Draft, SetPayload
  <2>4. drafts # << >>
    <3>1. SUFFICES ASSUME drafts = << >> PROVE FALSE
      OBVIOUS
    <3>2. IsSeq(<< >>) /\ Len(<< >>) = 0
      BY SeqEmpty
    <3>3. PICK r : IsVetRun(r, state, << >>) /\ VetEvents(<< >>, state) = Vetted(state, r[0])
      BY <3>2, VetEventsIsRun
    <3>4. r[0].out = << >>
      BY <3>3 DEF IsVetRun, NothingVetted, Vetting
    <3>5. VetEvents(drafts, state).out = << >>
      BY <1>1, <3>1, <3>3, <3>4 DEF Vetted
    <3> QED BY <1>2, <3>5
  <2> HIDE DEF d, drafts, all
  <2>5. IsDraftOf(d, all, form, set, state)
    BY <2>1, <2>3 DEF IsDraftOf
  <2> QED BY <1>2, <2>2, <2>4, <2>5
<1> QED BY <1>3, <1>4

\* A save keeps what others made of the fields its document leaves alone, whatever the
\* store holds by now: only a default the task lacks is stamped besides
\* (EditForm::apply over the diff of EditForm::payload).
THEOREM SavesKeepOthersWork ==
    ASSUME SoundTypes, NEW opened, NEW id, NEW creating \in BOOLEAN,
           NamesApart(FieldsOf(opened, id)), NEW edited,
           NEW state, AllTasks(state), NEW events,
           LET form == OpenForm(opened, id, creating)
           IN  LoggedAs(events, SavedDrafts(form, PreviewEdit(form, edited), state))
    PROVE  KeepsUnedited(OpenForm(opened, id, creating), edited,
                         FieldsOf(state, id), FieldsOf(Materialize(state, events), id))
<1> DEFINE form == OpenForm(opened, id, creating)
           p == PreviewEdit(form, edited)
           payload == FormPayload(form, edited)
           set == CanonicalizeFields(payload)
           drafts == SavedDrafts(form, p, state)
           before == FieldsOf(state, id)
           after == FieldsOf(Materialize(state, events), id)
<1>1. form.id = id
  BY DEF OpenForm
<1>2. LoggedAs(events, drafts)
  OBVIOUS
<1>3. ASSUME NEW k, LeavesAlone(form, edited, DisplayName(k)), Writable(payload)
      PROVE  k \notin DOMAIN set
  BY <1>3, LeftAloneIsNotSet
<1> HIDE DEF form
<1>4. CASE drafts = << >>
  <2>1. Len(<< >>) = 0
    BY SeqEmpty
  <2>2. IsSeq(events) /\ Len(events) = 0
    BY <1>2, <1>4, <2>1 DEF LoggedAs
  <2>3. Materialize(state, events) = state
    BY <2>2, MaterializeEmpty
  <2>4. before = after
    BY <2>3
  <2> HIDE DEF before, after
  <2>5. KeepsUnedited(form, edited, before, after)
    BY <2>4 DEF KeepsUnedited
  <2> QED BY <2>5 DEF form, before, after
<1>5. CASE drafts # << >>
  <2> DEFINE consent == p.news # {}
  <2>1. p.outcome # "error" /\ p.set # << >> /\ drafts = ApplyEdit(form, p.set, consent, state).out
    BY <1>5 DEF SavedDrafts
  <2>2. Writable(payload) /\ p.set = set
    <3>1. NoPreview.set = << >> /\ [NoPreview EXCEPT !.outcome = "empty"].set = << >>
          /\ [NoPreview EXCEPT !.outcome = "ready"].set = << >>
      BY DEF NoPreview
    <3>2. p = PreviewPayload(form, payload)
      BY <2>1, <3>1 DEF PreviewEdit
    <3>3. Writable(payload) /\ p = PreviewSet(form, set)
      BY <2>1, <3>1, <3>2 DEF PreviewPayload
    <3>4. p = PreviewDrafts(form, set, DraftEvents(form, set))
      BY <2>1, <3>1, <3>3 DEF PreviewSet
    <3> QED BY <2>1, <3>1, <3>3, <3>4 DEF PreviewDrafts
  <2> HIDE DEF p, payload, drafts, consent
  <2>3. drafts = ApplyEdit(form, set, consent, state).out
    BY <2>1, <2>2
  <2> HIDE DEF set
  <2>4. PICK d, all : drafts = VetEvents(<< d >>, state).out /\ IsDraftOf(d, all, form, set, state)
    <3> HIDE DEF before, after
    <3> QED BY <1>5, <2>3, FormIsOneDraft
  <2>5. PICK e : /\ d.id \in DOMAIN state <=> d.op = "Update"
                 /\ drafts = << e >> /\ e.op = d.op /\ e.id = d.id
                 /\ \/ e.payload = d.payload
                    \/ e.payload = Restrict(d.payload, Changes(FieldsOf(state, d.id), d.payload))
    BY <1>5, <2>4, VetOneDraft DEF IsDraftOf
  <2> DEFINE pl == CoerceFields(before, all)
  <2>6. d.payload = pl /\ StampedOnly(before, set, all)
    BY <1>1, <2>4, <2>5 DEF IsDraftOf, FieldsOf
  <2> DEFINE one == events[1]
  <2>7. /\ events = << one >>
        /\ one.op = e.op /\ one.id = e.id /\ one.payload = e.payload
    <3>1. Len(drafts) = 1 /\ drafts[1] = e
      BY <2>5
    <3>2. IsSeq(events) /\ Len(events) = 1
      BY <1>2, <3>1 DEF LoggedAs
    <3> QED BY <1>2, <3>1, <3>2 DEF LoggedAs, IsSeq
  <2> HIDE DEF one, pl
  <2>8. one.op \in {"Create", "Update"} /\ one.id = id /\ (id \in DOMAIN state <=> one.op = "Update")
    BY <1>1, <2>4, <2>5, <2>7 DEF IsDraftOf
  <2>9. after = ApplySet(before, one.payload)
    BY <2>7, <2>8, FieldsAfterOne
  <2>10. one.payload = pl \/ one.payload = Restrict(pl, Changes(before, pl))
    BY <1>1, <2>4, <2>5, <2>6, <2>7 DEF IsDraftOf
  <2> HIDE DEF before, after
  <2>11. ASSUME NEW k \in DOMAIN before \cup DOMAIN after, LeavesAlone(form, edited, DisplayName(k))
         PROVE  LET decl == Declared(Value(after, TypeKey))
                IN  \/ k \in (DOMAIN before) \cap DOMAIN after /\ before[k] = after[k]
                    \/ /\ k \notin DOMAIN before
                       /\ \/ k \in DOMAIN decl /\ after[k] = decl[k].default
                          \/ /\ k = StatusKey
                             /\ after[k] = CoerceFields(after, Put(<< >>, k, DefaultStatus))[k]
    <3>1. k \notin DOMAIN set
      BY <1>3, <2>2, <2>11
    <3> QED BY <2>6, <2>9, <2>10, <3>1, UnsetFieldStays DEF pl
  <2>12. KeepsUnedited(form, edited, before, after)
    BY <2>11 DEF KeepsUnedited
  <2> QED BY <2>12 DEF form, before, after
<1> QED BY <1>4, <1>5
=============================================================================
