-------------------------- MODULE OutreachTemplates --------------------------
(***************************************************************************)
(* The mail templates of the workspace, and the client's editor of them.    *)
(* The API changes them one request at a time, under a lock; other clients  *)
(* change them, too.  The editor keeps a list, a selection and a draft, and *)
(* its calls are answered late, in any order, or not at all: one load of    *)
(* the list may be under way beside one action (save, duplicate, make       *)
(* default, delete), while the user types.                                  *)
(*                                                                          *)
(* What a template says is abstracted to its name, which no two templates   *)
(* of the workspace may share.  The preview of the draft is left out.       *)
(***************************************************************************)
EXTENDS Integers

CONSTANTS
  Templates,  \* ids of the templates that may come to exist
  Names,      \* their names
  MaxOthers   \* bound: the changes made by other clients

VARIABLES
  rows,       \* the templates of the API
  list,       \* the editor's list of them
  selected,   \* the id of the template it shows, NoId for a new one
  draft,      \* the draft, NoDraft if there is none
  loading,    \* the load of the list under way
  action,     \* the action under way
  stale,      \* an action was answered since the load began
  typed,      \* the draft holds text the user typed and has not saved
  others      \* changes made by other clients so far

editorVars == <<rows, list, selected, draft, loading, action, stale, typed, others>>

NoId == "new"
Empty == "" \* the name of a new draft, which cannot be saved
Template == [name : Names, default : BOOLEAN]
Absent == [name |-> Empty, default |-> FALSE]
Table == [Templates -> Template \cup {Absent}]

Draft == [id : Templates \cup {NoId}, name : Names \cup {Empty}]
NoDraft == [id |-> NoId, name |-> "no draft"]

In(table) == {t \in Templates : table[t] # Absent}
Defaults(table) == {t \in In(table) : table[t].default}
NoTable == [t \in Templates |-> Absent]

(* A load remembers what the editor showed when it began.                   *)
Load == [phase : {"none", "asked", "read"}, draft : Draft \cup {NoDraft},
         selected : Templates \cup {NoId}, dirty : BOOLEAN, answer : Table]
NoLoad == [phase |-> "none", draft |-> NoDraft, selected |-> NoId, dirty |-> FALSE,
           answer |-> NoTable]

Action == [kind : {"none", "save", "duplicate", "default", "delete"},
           phase : {"asked", "answered", "failed"}, draft : Draft \cup {NoDraft},
           id : Templates \cup {NoId}, row : Template \cup {Absent}]
NoAction == [kind |-> "none", phase |-> "asked", draft |-> NoDraft, id |-> NoId,
             row |-> Absent]

EditorTypeOK ==
  /\ rows \in Table /\ list \in Table
  /\ selected \in Templates \cup {NoId} /\ draft \in Draft \cup {NoDraft}
  /\ loading \in Load /\ action \in Action
  /\ stale \in BOOLEAN /\ typed \in BOOLEAN /\ others \in 0..MaxOthers

EditorInit ==
  /\ rows = NoTable /\ list = NoTable /\ selected = NoId /\ draft = NoDraft
  /\ loading = NoLoad /\ action = NoAction
  /\ stale = FALSE /\ typed = FALSE /\ others = 0

-----------------------------------------------------------------------------
(* The API: what a request makes of the templates *)

NameFree(table, name, t) == \A u \in In(table) \ {t} : table[u].name # name

Create(t, name) ==
  /\ t \notin In(rows) /\ NameFree(rows, name, t)
  /\ rows' = [rows EXCEPT ![t] = [name |-> name, default |-> In(rows) = {}]]

Rename(t, name) ==
  /\ t \in In(rows) /\ NameFree(rows, name, t)
  /\ rows' = [rows EXCEPT ![t].name = name]

(* The copy gets a name nobody has. *)
Duplicate(t, copy) ==
  /\ t \in In(rows) /\ copy \notin In(rows)
  /\ \E name \in Names : /\ NameFree(rows, name, copy)
                         /\ rows' = [rows EXCEPT ![copy] = [name |-> name, default |-> FALSE]]

SetDefault(t) ==
  /\ t \in In(rows)
  /\ rows' = [u \in Templates |->
                IF u \in In(rows) THEN [rows[u] EXCEPT !.default = (u = t)] ELSE rows[u]]

(* The last template and the default one are kept. *)
Delete(t) ==
  /\ t \in In(rows) /\ In(rows) # {t} /\ ~rows[t].default
  /\ rows' = [rows EXCEPT ![t] = Absent]

ByOthers ==
  /\ others < MaxOthers /\ others' = others + 1
  /\ \E t \in Templates :
       \/ SetDefault(t) \/ Delete(t)
       \/ \E name \in Names : Create(t, name) \/ Rename(t, name)
       \/ \E copy \in Templates : Duplicate(t, copy)
  /\ UNCHANGED <<list, selected, draft, loading, action, stale, typed>>

-----------------------------------------------------------------------------
(* The editor *)

DraftOf(table, t) == [id |-> t, name |-> table[t].name]

(* hasUnsavedTemplateChanges, of a list, a selection and a draft.           *)
Dirty(table, sel, d) ==
  d # NoDraft /\ ~(sel \in In(table) /\ d.id = sel /\ d = DraftOf(table, sel))

Busy == action.kind # "none"
Shows(table, sel, d) ==
  list' = table /\ selected' = sel /\ draft' = d

(* The default, else the first template (any: the model has no order), else *)
(* nothing.                                                                 *)
Fallback(table) ==
  IF In(table) = {} THEN Shows(table, NoId, NoDraft)
  ELSE \E t \in IF Defaults(table) # {} THEN Defaults(table) ELSE In(table) :
         Shows(table, t, DraftOf(table, t))

AskList ==
  /\ loading.phase = "none"
  /\ loading' = [phase |-> "asked", draft |-> draft, selected |-> selected,
                 dirty |-> Dirty(list, selected, draft), answer |-> NoTable]
  /\ stale' = FALSE
  /\ UNCHANGED <<rows, list, selected, draft, action, typed, others>>

ReadList ==
  /\ loading.phase = "asked"
  /\ loading' = [loading EXCEPT !.phase = "read", !.answer = rows]
  /\ UNCHANGED <<rows, list, selected, draft, action, stale, typed, others>>

(* Mutant: only what was dirty when the load began is preserved. *)
KeepDirtyOnly == loading.dirty

(* A draft is preserved if it was dirty or has changed since the load began. *)
Preserve == loading.dirty \/ draft # loading.draft \/ selected # loading.selected

(* A list that an action has overtaken is dropped. *)
ReceiveList ==
  /\ loading.phase = "read" /\ loading' = NoLoad
  /\ IF stale THEN UNCHANGED <<list, selected, draft>>
     ELSE IF Preserve THEN Shows(loading.answer, selected, draft)
     ELSE Fallback(loading.answer)
  /\ typed' = (typed /\ Dirty(list', selected', draft'))
  /\ UNCHANGED <<rows, action, stale, others>>

LoseList ==
  /\ loading.phase \in {"asked", "read"} /\ loading' = NoLoad
  /\ UNCHANGED <<rows, list, selected, draft, action, stale, typed, others>>

EditorWaits == UNCHANGED <<rows, loading, action, stale, others>>

Select(t) ==
  /\ ~Busy /\ ~Dirty(list, selected, draft) /\ t \in In(list)
  /\ Shows(list, t, DraftOf(list, t)) /\ typed' = FALSE /\ EditorWaits

BeginCreating ==
  /\ ~Busy /\ ~Dirty(list, selected, draft)
  /\ Shows(list, NoId, [id |-> NoId, name |-> Empty]) /\ typed' = FALSE /\ EditorWaits

DiscardDraft ==
  /\ ~Busy /\ typed' = FALSE /\ EditorWaits
  /\ IF selected \in In(list) THEN Shows(list, selected, DraftOf(list, selected))
     ELSE Fallback(list)

Type(name) ==
  /\ ~Busy /\ draft # NoDraft
  /\ Shows(list, selected, [draft EXCEPT !.name = name])
  /\ typed' = Dirty(list, selected, draft') /\ EditorWaits

AskAction(kind, id, d) ==
  /\ action' = [NoAction EXCEPT !.kind = kind, !.id = id, !.draft = d]
  /\ UNCHANGED <<rows, list, selected, draft, loading, stale, typed, others>>

Save == ~Busy /\ draft \notin {NoDraft} /\ draft.name # Empty /\ AskAction("save", draft.id, draft)

Act(kind) ==
  /\ ~Busy /\ ~Dirty(list, selected, draft) /\ selected # NoId
  /\ AskAction(kind, selected, NoDraft)

(* The API performs the action, and its answer is on the way; a save of a   *)
(* new draft creates.                                                       *)
PerformAction ==
  /\ action.kind # "none" /\ action.phase = "asked"
  /\ \E t \in Templates :
       /\ \/ action.kind = "save" /\ action.id = NoId /\ Create(t, action.draft.name)
          \/ action.kind = "save" /\ action.id = t /\ Rename(t, action.draft.name)
          \/ action.kind = "duplicate" /\ Duplicate(action.id, t)
          \/ action.kind = "default" /\ action.id = t /\ SetDefault(t)
          \/ action.kind = "delete" /\ action.id = t /\ Delete(t)
       /\ action' = [action EXCEPT !.phase = "answered", !.id = t, !.row = rows'[t]]
  /\ UNCHANGED <<list, selected, draft, loading, stale, typed, others>>

(* It is refused, or its answer is lost. *)
LoseAction ==
  /\ action.kind # "none" /\ action' = NoAction
  /\ UNCHANGED <<rows, list, selected, draft, loading, stale, typed, others>>

(* upsert: a default replaces the one in the list. *)
Upsert(table, t, row, default) ==
  [u \in Templates |->
     IF u = t THEN row
     ELSE IF default /\ u \in In(table) THEN [table[u] EXCEPT !.default = FALSE]
     ELSE table[u]]

ReceiveAction ==
  LET kept == [list EXCEPT ![action.id] = Absent]
      table == Upsert(list, action.id, action.row,
                      action.kind = "default" \/ action.row.default)
  IN /\ action.kind # "none" /\ action.phase = "answered" /\ action' = NoAction
     /\ stale' = TRUE /\ typed' = FALSE
     /\ IF action.kind = "delete" THEN Fallback(kept)
        ELSE Shows(table, action.id, DraftOf(table, action.id))
     /\ UNCHANGED <<rows, loading, others>>

EditorNext ==
  \/ ByOthers
  \/ AskList \/ ReadList \/ ReceiveList \/ LoseList
  \/ BeginCreating \/ DiscardDraft \/ Save \/ PerformAction \/ LoseAction \/ ReceiveAction
  \/ \E t \in Templates : Select(t)
  \/ \E name \in Names : Type(name)
  \/ \E kind \in {"duplicate", "default", "delete"} : Act(kind)

EditorSpec == EditorInit /\ [][EditorNext]_editorVars

-----------------------------------------------------------------------------
(* What the user has typed stays in the draft until he types on, discards   *)
(* it, or has saved just that: no answer that comes late replaces it.       *)
DraftSurvives ==
  [][typed => \/ draft' = draft
              \/ \E name \in Names : Type(name)
              \/ DiscardDraft
              \/ action.kind = "save" /\ draft'.name = draft.name]_editorVars

=============================================================================
