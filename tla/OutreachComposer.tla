-------------------------- MODULE OutreachComposer --------------------------
(***************************************************************************)
(* The composer of the macOS client (OutreachComposerModel) in front of     *)
(* Outreach: the user loads it, edits a draft, previews and confirms it;    *)
(* its calls are answered later and in any order.  Its confirmations are    *)
(* the requests of Outreach, and what Outreach calls abandoning a request   *)
(* is what an edit does to a failed one.  Resends come from elsewhere.      *)
(*                                                                          *)
(* The generations that a call compares when it is answered are one flag of *)
(* the call, `live`: no later load, edit or preview has taken its place.    *)
(***************************************************************************)
EXTENDS Outreach

CONSTANTS
  Drafts,       \* what the user may write
  MaxCalls,     \* bound: calls under way at a time
  MaxEdits      \* bound: loads and edits

ASSUME ComposerBounds == MaxCalls \in Nat /\ MaxEdits \in Nat /\ "none" \notin Drafts
(* currentDraft has recipients. *)
ASSUME SomebodyIsWrittenTo == Creators # {}

VARIABLES
  draft,        \* currentDraft, "none" while it is not complete
  previewed,    \* previewedDraft, the one whose previews are shown
  calls,        \* listTemplates and previewSendBatch calls under way
  attempt,      \* sendAttempt: a draft and its key
  sending,      \* the key of the createSendBatch call under way, 0 if none
  accepted,     \* the key of acceptedBatch, 0 if none
  edits,        \* loads and edits so far
  sentAs        \* history: the draft each key was last sent with

composer == <<draft, previewed, calls, attempt, sending, accepted, edits, sentAs>>
allVars == <<vars, composer>>

NoAttempt == [draft |-> "none", key |-> 0]
Call == [kind : {"templates", "preview"}, draft : Drafts \cup {"none"}, live : BOOLEAN]

ComposerInit ==
  /\ Init
  /\ draft = "none" /\ previewed = "none" /\ calls = {} /\ attempt = NoAttempt
  /\ sending = 0 /\ accepted = 0 /\ edits = 0
  /\ sentAs = [k \in Keys |-> "none"]

IsLoading == \E c \in calls : c.live /\ c.kind = "templates"
IsPreviewing == \E c \in calls : c.live /\ c.kind = "preview"

Retired == {[c EXCEPT !.live = FALSE] : c \in calls}

(* requestPreview, beside the other calls; it takes the previews away.      *)
RequestPreview(d, others) ==
  /\ previewed' = "none"
  /\ IF accepted # 0 \/ d = "none"
       THEN calls' = others
       ELSE /\ Cardinality(others) < MaxCalls
            /\ calls' = others \cup {[kind |-> "preview", draft |-> d, live |-> TRUE]}

(* Mutant: an edit keeps the attempt of the earlier draft. *)
ForgetNothing == UNCHANGED <<attempt, handler, faults>>

(* A new draft needs a new attempt; a failed one is abandoned with its key. *)
Forget ==
  /\ attempt' = NoAttempt
  /\ IF attempt.key # 0 /\ handler[attempt.key].phase = "failed"
       THEN GiveUp(attempt.key)
       ELSE UNCHANGED <<handler, faults>>

ServerWaits == UNCHANGED <<store, work, mailbox, told>>

UserMay == sending = 0 /\ edits < MaxEdits

Load ==
  /\ UserMay /\ Cardinality(Retired) < MaxCalls
  /\ draft' = "none" /\ previewed' = "none" /\ accepted' = 0 /\ edits' = edits + 1
  /\ calls' = Retired \cup {[kind |-> "templates", draft |-> "none", live |-> TRUE]}
  /\ Forget /\ ServerWaits /\ UNCHANGED <<sending, sentAs>>

(* selectTemplate and selectRecipientEmail ask for a preview at once,       *)
(* updateOverride does not.  While templates are loaded there is no draft   *)
(* that an edit could change.                                               *)
Edit(d) ==
  /\ UserMay /\ d # draft /\ ~IsLoading
  /\ draft' = d /\ edits' = edits + 1
  /\ RequestPreview(d, Retired) \/ (previewed' = "none" /\ calls' = Retired)
  /\ Forget /\ ServerWaits /\ UNCHANGED <<sending, accepted, sentAs>>

RefreshPreview ==
  /\ sending = 0 /\ accepted = 0 /\ draft # "none"
  /\ RequestPreview(draft, Retired)
  /\ UNCHANGED <<draft, attempt, sending, accepted, edits, sentAs, vars>>

(* The templates arrive, or there are none or an error.                     *)
TemplatesArrive(c) ==
  /\ c.kind = "templates"
  /\ \/ c.live /\ \E d \in Drafts : draft' = d /\ RequestPreview(d, calls \ {c})
     \/ calls' = calls \ {c} /\ UNCHANGED <<draft, previewed>>
  /\ UNCHANGED <<attempt, sending, accepted, edits, sentAs, vars>>

(* Mutant: an answer is shown whatever has happened since the call. *)
PreviewArrivesLate(c) ==
  /\ c.kind = "preview" /\ calls' = calls \ {c}
  /\ previewed' \in {c.draft, previewed}
  /\ UNCHANGED <<draft, attempt, sending, accepted, edits, sentAs, vars>>

(* A preview arrives, or an error; one that is not of these recipients is   *)
(* an error.                                                                *)
PreviewArrives(c) ==
  /\ c.kind = "preview" /\ calls' = calls \ {c}
  /\ previewed' \in IF c.live THEN {c.draft, previewed} ELSE {previewed}
  /\ UNCHANGED <<draft, attempt, sending, accepted, edits, sentAs, vars>>

CanConfirmSend ==
  /\ accepted = 0 /\ ~IsLoading /\ ~IsPreviewing /\ sending = 0
  /\ previewed # "none" /\ previewed = draft

NewKey == {k \in Keys : /\ handler[k].phase = "unused"
                        /\ \A j \in Keys : j < k => handler[j].phase # "unused"}

(* Mutant: every confirmation is a new attempt. *)
AttemptKeysAnew == NewKey

(* A confirmation of the draft of the last attempt keeps its key.           *)
AttemptKeys == IF attempt.draft = draft THEN {attempt.key} ELSE NewKey

ConfirmSend ==
  /\ CanConfirmSend
  /\ \E k \in AttemptKeys :
       /\ attempt' = [draft |-> draft, key |-> k] /\ sending' = k
       /\ handler' = [handler EXCEPT ![k] =
            [Unused EXCEPT !.phase = "asked",
                           !.request = [kind |-> "create", creators |-> Creators]]]
       /\ sentAs' = [sentAs EXCEPT ![k] = draft]
  /\ ServerWaits /\ UNCHANGED <<draft, previewed, calls, accepted, edits, faults>>

(* The answer to the confirmation: 201, or an error that keeps the attempt. *)
SendAnswered ==
  /\ sending # 0 /\ handler[sending].phase \in {"done", "failed"}
  /\ sending' = 0
  /\ IF handler[sending].phase = "done" /\ record[sending] # None
       THEN accepted' = sending /\ attempt' = NoAttempt
       ELSE UNCHANGED <<accepted, attempt>>
  /\ UNCHANGED <<draft, previewed, calls, edits, sentAs, vars>>

UserStep == Load \/ (\E d \in Drafts \cup {"none"} : Edit(d)) \/ RefreshPreview \/ ConfirmSend

Arrives == (\E c \in calls : TemplatesArrive(c) \/ PreviewArrives(c)) \/ SendAnswered

(* A resend is asked for elsewhere in the client, and once.                 *)
Elsewhere ==
  /\ \E k \in Keys : Ask(k) /\ handler'[k].request.kind = "resend"
  /\ UNCHANGED composer

Server == ServerStep /\ UNCHANGED composer

ComposerNext == UserStep \/ Arrives \/ Elsewhere \/ Server

ComposerSpec == ComposerInit /\ [][ComposerNext]_allVars

(* Calls are answered or time out; the user need do nothing.                *)
ComposerFairSpec == ComposerSpec /\ Fairness /\ WF_allVars(Arrives)

-----------------------------------------------------------------------------
(* Properties *)

(* Drafts, calls and keys have the shapes declared for them; a call is      *)
(* superseded by the next of its kind, and templates and a preview are      *)
(* never awaited together.                                                  *)
ComposerTypeOK ==
  /\ draft \in Drafts \cup {"none"} /\ previewed \in Drafts \cup {"none"}
  /\ calls \in SUBSET Call
  /\ attempt \in [draft : Drafts, key : Keys] \cup {NoAttempt}
  /\ sending \in Keys \cup {0} /\ accepted \in Keys \cup {0} /\ edits \in 0..MaxEdits
  /\ sentAs \in [Keys -> Drafts \cup {"none"}]
  /\ \A c, e \in calls : c.live /\ e.live => c = e

(* The previews shown, and what is being sent, are those of the draft as it *)
(* is now, in whatever order templates, previews and answers arrive.        *)
PreviewIsOfDraft ==
  /\ previewed # "none" => previewed = draft
  /\ sending # 0 => sentAs[sending] = draft /\ previewed = draft

(* The attempt kept is that of the draft as it is now, and every request    *)
(* that has failed and was not given up by an edit is that attempt: the     *)
(* next confirmation repeats it under its key, it does not write twice.     *)
RetryKeepsKey ==
  /\ attempt.key # 0 => attempt.draft = draft /\ sentAs[attempt.key] = draft
  /\ \A k \in Keys :
       handler[k].phase = "failed" /\ handler[k].request.kind = "create" => attempt.key = k

(* After these a delivery may be queued and have no message. *)
Losing == {"database", "retry broker"}

(* A batch shown as accepted is the one of its draft, and all its mail has  *)
(* been handed to the broker at least once: what is queued of it still has  *)
(* a message, unless a worker has lost one.                                 *)
AcceptedIsTaken ==
  accepted # 0 =>
    /\ record[accepted] = [kind |-> "create", creators |-> Creators]
    /\ faults \cap Losing = {} =>
         \A d \in Of(accepted) : delivery[d].state = "queued" => Messages(d) # {}

(* Every delivery is sent or fails, unless its request has failed, which    *)
(* the user sees and may repeat, or was given up by an edit.                *)
DeliveriesSettle ==
  \A d \in Deliveries :
    Open(d) ~> \/ ~Open(d) \/ faults \cap Stranding # {}
               \/ \E k \in Keys : delivery[d].batch = k /\ handler[k].phase = "failed"
=============================================================================
