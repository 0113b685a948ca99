--------------------------- MODULE ComposerProofs ---------------------------
(***************************************************************************)
(* What TLAPS proves of the composer, for any creators, drafts, keys, calls *)
(* under way and faults: what it shows as a preview and what it sends is    *)
(* the draft as it is now, a failed confirmation is repeated under its own  *)
(* key, and the batch it shows as accepted is all there and taken care of.  *)
(*                                                                          *)
(* The argument: one call at most will still be heard, a preview of the     *)
(* draft as it is or the templates while there is no draft; and none will   *)
(* while a confirmation is under way.  Whoever changes the draft forgets    *)
(* the attempt, and only the key of the attempt is alive.                   *)
(*                                                                          *)
(* For the last: of each queued delivery of that key somebody takes care, a *)
(* message, the handler that has yet to publish it, or the attempt that     *)
(* will be repeated; a row has one owner, and rows that were replaced have  *)
(* ended.                                                                   *)
(*                                                                          *)
(* At the end, the composer with its server implements Outreach: it does    *)
(* nothing that a client of Outreach may not do.                            *)
(***************************************************************************)
EXTENDS OutreachComposer, TLAPS

HandlersTyped == handler \in [Keys -> Handler]

(* The call that will be heard is of the draft as it is.                    *)
CallsSound ==
  \A c \in calls : c.live => IF c.kind = "templates" THEN draft = "none" ELSE c.draft = draft

(* A confirmation under way is of the draft shown, and alone.               *)
SendingSound ==
  sending # 0 =>
    /\ draft # "none" /\ previewed = draft /\ sentAs[sending] = draft
    /\ attempt.key = sending
    /\ \A c \in calls : ~c.live

Shown ==
  /\ ComposerTypeOK /\ CallsSound /\ SendingSound
  /\ previewed # "none" => previewed = draft

Alive == {"asked", "send", "failed"}

(* The attempt's key is the only one of a confirmation that may be alive,   *)
(* and has failed or ended when no answer is awaited.                       *)
KeysKept ==
  /\ attempt.key # 0 => attempt.draft = draft /\ sentAs[attempt.key] = draft
  /\ \A k \in Keys : handler[k].phase \in Alive /\ handler[k].request.kind = "create" =>
       attempt.key = k
  /\ sending = 0 /\ attempt.key # 0 => handler[attempt.key].phase \in {"failed", "done"}

ComposerInv == HandlersTyped /\ Shown /\ KeysKept

-----------------------------------------------------------------------------
(* The server *)

(* A handler goes on with the request it has, or has ended.                 *)
Moves(k) ==
  \/ handler'[k] = handler[k]
  \/ /\ handler[k].phase \in {"asked", "send"}
     /\ handler'[k].phase \in {"send", "failed", "done"}
     /\ handler'[k].phase # "done" => handler'[k].request = handler[k].request

LEMMA BecomesIs ==
  ASSUME HandlersTyped, NEW k \in Keys, NEW q \in Handler, Becomes(k, q)
  PROVE  HandlersTyped' /\ handler'[k] = q /\ \A j \in Keys : j # k => handler'[j] = handler[j]
BY DEF HandlersTyped, Becomes

LEMMA HandlerIs ==
  ASSUME HandlersTyped, NEW k \in Keys, NEW phase \in HandlerPhase, NEW left \in SUBSET Deliveries
  PROVE  LET q == [handler[k] EXCEPT !.phase = phase, !.left = left]
         IN q \in Handler /\ q.phase = phase /\ q.request = handler[k].request
BY DEF HandlersTyped, Handler

LEMMA DoneIs ==
  LET q == [Unused EXCEPT !.phase = "done"]
  IN q \in Handler /\ q.phase = "done" /\ q.request = None
BY DEF Unused, Handler, HandlerPhase

(* One handler at a time takes a step. *)
LEMMA OneMoves ==
  ASSUME HandlersTyped, NEW k \in Keys, handler[k].phase \in {"asked", "send"},
         NEW q \in Handler, Becomes(k, q), q.phase \in {"send", "failed", "done"},
         q.phase # "done" => q.request = handler[k].request
  PROVE  HandlersTyped' /\ \A j \in Keys : Moves(j)
BY BecomesIs DEF Moves

LEMMA DispatchMoves ==
  ASSUME HandlersTyped, NEW k \in Keys, handler[k].phase \in {"asked", "send"},
         NEW left \in SUBSET Deliveries, Dispatch(k, left)
  PROVE  HandlersTyped' /\ \A j \in Keys : Moves(j)
<1>1. CASE left = {}
  BY <1>1, DoneIs, OneMoves DEF Dispatch, Done
<1>2. CASE left # {}
  <2>1. "send" \in HandlerPhase
    BY DEF HandlerPhase
  <2> DEFINE q == [handler[k] EXCEPT !.phase = "send", !.left = left]
  <2>2. q \in Handler /\ q.phase = "send" /\ q.request = handler[k].request
    BY <2>1, HandlerIs
  <2>3. Becomes(k, q)
    BY <1>2 DEF Dispatch
  <2> HIDE DEF q
  <2> QED
    BY <2>2, <2>3, OneMoves
<1> QED
  BY <1>1, <1>2

LEMMA FailedMoves ==
  ASSUME HandlersTyped, NEW k \in Keys, handler[k].phase \in {"asked", "send"}, Failed(k)
  PROVE  HandlersTyped' /\ \A j \in Keys : Moves(j)
<1>1. "failed" \in HandlerPhase /\ {} \in SUBSET Deliveries
  BY DEF HandlerPhase
<1> DEFINE q == [handler[k] EXCEPT !.phase = "failed", !.left = {}]
<1>2. q \in Handler /\ q.phase = "failed" /\ q.request = handler[k].request
  BY <1>1, HandlerIs
<1>3. Becomes(k, q)
  BY DEF Failed
<1> HIDE DEF q
<1> QED
  BY <1>2, <1>3, OneMoves

LEMMA ServerMoves ==
  ASSUME HandlersTyped, ServerStep
  PROVE  HandlersTyped' /\ \A j \in Keys : Moves(j)
<1>1. ASSUME NEW k \in Keys, Execute(k)
      PROVE  HandlersTyped' /\ \A j \in Keys : Moves(j)
  <2>1. handler[k].phase \in {"asked", "send"}
    BY <1>1 DEF Execute, Replayed
  <2>2. CASE Dispatch(k, {d \in Of(k) : Claimable(d)})
    BY <2>1, <2>2, DispatchMoves DEF Of
  <2>3. CASE Dispatch(k, {d \in Deliveries : delivery'[d].batch = k})
    BY <2>1, <2>3, DispatchMoves
  <2>4. CASE Refuse(k)
    BY <2>1, <2>4, FailedMoves DEF Refuse
  <2> QED
    BY <1>1, <2>2, <2>3, <2>4 DEF Execute, Replayed
<1>2. ASSUME NEW k \in Keys, Send(k)
      PROVE  HandlersTyped' /\ \A j \in Keys : Moves(j)
  <2>1. handler[k].phase \in {"asked", "send"} /\ handler[k].left \in SUBSET Deliveries
    BY <1>2 DEF Send, HandlersTyped, Handler
  <2>2. PICK d \in handler[k].left : Dispatch(k, handler[k].left \ {d}) \/ Failed(k)
    BY <1>2 DEF Send
  <2> QED
    BY <2>1, <2>2, DispatchMoves, FailedMoves
<1>3. ASSUME NEW k \in Keys, Crash(k)
      PROVE  HandlersTyped' /\ \A j \in Keys : Moves(j)
  BY <1>3, FailedMoves DEF Crash
<1>4. CASE UNCHANGED handler
  BY <1>4 DEF HandlersTyped, Moves
<1>5. \/ \E k \in Keys : Execute(k) \/ Send(k) \/ Crash(k)
      \/ UNCHANGED handler
  BY DEF ServerStep, ApiStep, WorkerStep, Disturbance, Answer
<1> QED
  BY <1>1, <1>2, <1>3, <1>4, <1>5

(* The server does not touch the composer, nor a key that has failed.       *)
LEMMA ServerKeeps ==
  ASSUME ComposerInv, Server
  PROVE  ComposerInv'
<1>1. UNCHANGED <<draft, previewed, calls, attempt, sending, accepted, edits, sentAs>>
  BY DEF Server, composer
<1>2. HandlersTyped' /\ \A j \in Keys : Moves(j)
  BY ServerMoves DEF Server, ComposerInv
<1>3. Shown'
  BY <1>1 DEF ComposerInv, Shown, ComposerTypeOK, CallsSound, SendingSound
<1>4. attempt.key # 0 => attempt.key \in Keys
  BY DEF ComposerInv, Shown, ComposerTypeOK, NoAttempt
<1>5. \A k \in Keys : /\ handler'[k].phase \in Alive => /\ handler[k].phase \in Alive
                                                        /\ handler'[k].request = handler[k].request
                      /\ handler[k].phase \in {"failed", "done"} => handler'[k] = handler[k]
  BY <1>2 DEF Moves, Alive
<1>6. KeysKept'
  BY <1>1, <1>4, <1>5 DEF ComposerInv, KeysKept
<1> QED
  BY <1>2, <1>3, <1>6 DEF ComposerInv
-----------------------------------------------------------------------------
(* What is shown *)

LEMMA TypesAre ==
  ASSUME ComposerTypeOK
  PROVE  /\ attempt.key \in Keys \cup {0} /\ attempt.draft \in Drafts \cup {"none"}
         /\ attempt.key # 0 <=> attempt.draft # "none"
         /\ 0 \notin Keys /\ "none" \notin Drafts
         /\ \A c \in calls : c \in Call /\ c.live \in BOOLEAN
BY ComposerBounds, KeysAreNumbers DEF ComposerTypeOK, NoAttempt, Call

(* Retired calls will not be heard.                                         *)
LEMMA RetiredIs ==
  ASSUME ComposerTypeOK
  PROVE  Retired \in SUBSET Call /\ \A c \in Retired : c.live = FALSE
BY TypesAre DEF Retired, Call

(* A preview is asked for of the draft that is about to be the present one. *)
LEMMA RequestsPreview ==
  ASSUME NEW d \in Drafts \cup {"none"}, NEW others \in SUBSET Call,
         \A c \in others : c.live = FALSE, RequestPreview(d, others)
  PROVE  /\ previewed' = "none" /\ calls' \in SUBSET Call
         /\ \A c \in calls' : c.live => c.kind = "preview" /\ c.draft = d
         /\ \A c, e \in calls' : c.live /\ e.live => c = e
<1> DEFINE call == [kind |-> "preview", draft |-> d, live |-> TRUE]
<1>1. call \in Call /\ call.kind = "preview" /\ call.draft = d
  BY DEF Call
<1>2. previewed' = "none" /\ (calls' = others \/ calls' = others \cup {call})
  BY DEF RequestPreview
<1> HIDE DEF call
<1> QED
  BY <1>1, <1>2

(* Whoever forgets leaves no attempt. *)
LEMMA ForgetIs ==
  ASSUME ComposerInv, sending = 0, Forget
  PROVE  /\ attempt' = NoAttempt /\ HandlersTyped'
         /\ \A k \in Keys : handler'[k].phase \in Alive =>
              handler'[k].request.kind # "create"
<1>1. attempt.key \in Keys \cup {0} /\ 0 \notin Keys
  BY TypesAre DEF ComposerInv, Shown
<1>2. CASE attempt.key # 0 /\ handler[attempt.key].phase = "failed"
  <2>1. Becomes(attempt.key, [Unused EXCEPT !.phase = "done"])
    BY <1>2 DEF Forget, GiveUp, Done
  <2>2. /\ HandlersTyped' /\ handler'[attempt.key].phase = "done"
        /\ \A j \in Keys : j # attempt.key => handler'[j] = handler[j]
    BY <1>1, <1>2, <2>1, DoneIs, BecomesIs DEF ComposerInv
  <2> QED
    BY <2>2 DEF Forget, ComposerInv, KeysKept, Alive
<1>3. CASE ~(attempt.key # 0 /\ handler[attempt.key].phase = "failed")
  <2>1. UNCHANGED handler /\ attempt' = NoAttempt
    BY <1>3 DEF Forget
  <2>2. \A k \in Keys : handler[k].phase \in Alive => handler[k].request.kind # "create"
    <3> SUFFICES ASSUME NEW k \in Keys, handler[k].phase \in Alive,
                        handler[k].request.kind = "create"
                 PROVE  FALSE
      OBVIOUS
    <3>1. attempt.key = k /\ attempt.key # 0
      BY <1>1 DEF ComposerInv, KeysKept
    <3>2. handler[k].phase \in {"failed", "done"}
      BY <3>1 DEF ComposerInv, KeysKept
    <3> QED
      BY <1>3, <3>1, <3>2 DEF Alive
  <2> QED
    BY <2>1, <2>2 DEF ComposerInv, HandlersTyped
<1> QED
  BY <1>2, <1>3

(* A new draft, without previews of another and without an attempt.         *)
LEMMA DraftKeeps ==
  ASSUME ComposerInv, sending = 0, Forget, UNCHANGED <<sending, sentAs>>,
         draft' \in Drafts \cup {"none"}, edits' \in 0..MaxEdits, accepted' \in Keys \cup {0},
         previewed' = "none", calls' \in SUBSET Call,
         \A c, e \in calls' : c.live /\ e.live => c = e,
         \A c \in calls' : c.live => IF c.kind = "templates" THEN draft' = "none"
                                                             ELSE c.draft = draft'
  PROVE  ComposerInv'
<1>1. /\ attempt' = NoAttempt /\ HandlersTyped'
      /\ \A k \in Keys : handler'[k].phase \in Alive => handler'[k].request.kind # "create"
  BY ForgetIs
<1>2. Shown'
  BY <1>1 DEF ComposerInv, Shown, ComposerTypeOK, CallsSound, SendingSound
<1>3. attempt'.key = 0
  BY <1>1 DEF NoAttempt
<1>4. KeysKept'
  BY <1>1, <1>3 DEF KeysKept
<1> QED
  BY <1>1, <1>2, <1>4 DEF ComposerInv

LEMMA LoadKeeps ==
  ASSUME ComposerInv, Load
  PROVE  ComposerInv'
<1> DEFINE call == [kind |-> "templates", draft |-> "none", live |-> TRUE]
<1>1. Retired \in SUBSET Call /\ \A c \in Retired : c.live = FALSE
  BY RetiredIs DEF ComposerInv, Shown
<1>2. call \in Call /\ call.kind = "templates"
  BY DEF Call
<1>3. calls' = Retired \cup {call}
  BY DEF Load
<1> HIDE DEF call
<1>4. /\ sending = 0 /\ Forget /\ UNCHANGED <<sending, sentAs>>
      /\ draft' = "none" /\ edits' = edits + 1 /\ accepted' = 0 /\ previewed' = "none"
      /\ edits' \in 0..MaxEdits
  BY ComposerBounds DEF Load, UserMay, ComposerInv, Shown, ComposerTypeOK
<1> QED
  BY <1>1, <1>2, <1>3, <1>4, DraftKeeps

LEMMA EditKeeps ==
  ASSUME ComposerInv, NEW d \in Drafts \cup {"none"}, Edit(d)
  PROVE  ComposerInv'
<1>1. Retired \in SUBSET Call /\ \A c \in Retired : c.live = FALSE
  BY RetiredIs DEF ComposerInv, Shown
<1>2. /\ previewed' = "none" /\ calls' \in SUBSET Call
      /\ \A c \in calls' : c.live => c.kind = "preview" /\ c.draft = d
      /\ \A c, e \in calls' : c.live /\ e.live => c = e
  <2>1. CASE RequestPreview(d, Retired)
    BY <1>1, <2>1, RequestsPreview
  <2>2. CASE previewed' = "none" /\ calls' = Retired
    BY <1>1, <2>2
  <2> QED
    BY <2>1, <2>2 DEF Edit
<1>3. /\ sending = 0 /\ Forget /\ UNCHANGED <<sending, sentAs, accepted>>
      /\ draft' = d /\ edits' \in 0..MaxEdits /\ accepted' \in Keys \cup {0}
  BY ComposerBounds DEF Edit, UserMay, ComposerInv, Shown, ComposerTypeOK
<1> QED
  BY <1>2, <1>3, DraftKeeps

(* Calls, previews and the draft before the first attempt, but no key.      *)
LEMMA PreviewKeeps ==
  ASSUME ComposerInv, UNCHANGED <<attempt, sending, accepted, edits, sentAs, handler>>,
         draft' = draft \/ (attempt.key = 0 /\ draft' \in Drafts),
         sending # 0 => draft' = draft /\ previewed' = previewed /\ \A c \in calls' : ~c.live,
         previewed' \in {"none", draft'}, calls' \in SUBSET Call,
         \A c, e \in calls' : c.live /\ e.live => c = e,
         \A c \in calls' : c.live => IF c.kind = "templates" THEN draft' = "none"
                                                             ELSE c.draft = draft'
  PROVE  ComposerInv'
<1>1. HandlersTyped'
  BY DEF ComposerInv, HandlersTyped
<1>2. draft' \in Drafts \cup {"none"}
  BY DEF ComposerInv, Shown, ComposerTypeOK
<1>3. Shown'
  <2>1. ComposerTypeOK'
    BY <1>2 DEF ComposerInv, Shown, ComposerTypeOK
  <2>2. CallsSound' /\ (previewed # "none" => previewed = draft)'
    BY DEF CallsSound
  <2>3. SendingSound'
    BY DEF ComposerInv, Shown, SendingSound
  <2> QED
    BY <2>1, <2>2, <2>3 DEF Shown
<1>4. KeysKept'
  BY DEF ComposerInv, KeysKept
<1> QED
  BY <1>1, <1>3, <1>4 DEF ComposerInv

LEMMA RefreshKeeps ==
  ASSUME ComposerInv, RefreshPreview
  PROVE  ComposerInv'
<1>1. Retired \in SUBSET Call /\ \A c \in Retired : c.live = FALSE
  BY RetiredIs DEF ComposerInv, Shown
<1>2. draft \in Drafts \cup {"none"} /\ sending = 0
      /\ UNCHANGED <<draft, attempt, sending, accepted, edits, sentAs, handler>>
  BY DEF RefreshPreview, vars, ComposerInv, Shown, ComposerTypeOK
<1>3. /\ previewed' = "none" /\ calls' \in SUBSET Call
      /\ \A c \in calls' : c.live => c.kind = "preview" /\ c.draft = draft
      /\ \A c, e \in calls' : c.live /\ e.live => c = e
  BY <1>1, <1>2, RequestsPreview DEF RefreshPreview
<1> QED
  BY <1>2, <1>3, PreviewKeeps

LEMMA TemplatesKeep ==
  ASSUME ComposerInv, NEW c \in calls, TemplatesArrive(c)
  PROVE  ComposerInv'
<1>0. ComposerTypeOK /\ c \in Call /\ calls \in SUBSET Call
      /\ \A e \in calls : e.live \in BOOLEAN /\ (c.live /\ e.live => c = e)
  BY TypesAre DEF ComposerInv, Shown, ComposerTypeOK
<1>1. UNCHANGED <<attempt, sending, accepted, edits, sentAs, handler>> /\ c.kind = "templates"
  BY DEF TemplatesArrive, vars
<1>2. CASE calls' = calls \ {c} /\ UNCHANGED <<draft, previewed>>
  <2>1. /\ sending # 0 => \A e \in calls' : ~e.live
        /\ previewed \in {"none", draft}
        /\ \A e \in calls' : e.live => IF e.kind = "templates" THEN draft = "none"
                                                               ELSE e.draft = draft
        /\ \A e, f \in calls' : e.live /\ f.live => e = f
    BY <1>2 DEF ComposerInv, Shown, SendingSound, CallsSound, ComposerTypeOK
  <2> QED
    BY <1>0, <1>1, <1>2, <2>1, PreviewKeeps
<1>3. ASSUME NEW d \in Drafts, c.live, draft' = d, RequestPreview(d, calls \ {c})
      PROVE  ComposerInv'
  <2>1. draft = "none" /\ sending = 0
    BY <1>1, <1>3 DEF ComposerInv, Shown, CallsSound, SendingSound
  <2>2. attempt.key = 0
    BY <1>0, <2>1, TypesAre DEF ComposerInv, KeysKept
  <2>3. \A e \in calls \ {c} : e.live = FALSE
    BY <1>0, <1>3
  <2>4. /\ previewed' = "none" /\ calls' \in SUBSET Call
        /\ \A e \in calls' : e.live => e.kind = "preview" /\ e.draft = d
        /\ \A e, f \in calls' : e.live /\ f.live => e = f
    BY <1>0, <1>3, <2>3, RequestsPreview
  <2> QED
    BY <1>1, <1>3, <2>1, <2>2, <2>4, PreviewKeeps
<1> QED
  BY <1>2, <1>3 DEF TemplatesArrive

LEMMA PreviewsKeep ==
  ASSUME ComposerInv, NEW c \in calls, PreviewArrives(c)
  PROVE  ComposerInv'
<1>1. UNCHANGED <<draft, attempt, sending, accepted, edits, sentAs, handler>>
      /\ c.kind = "preview" /\ calls' = calls \ {c}
  BY DEF PreviewArrives, vars
<1>2. c.live => c.draft = draft /\ sending = 0
  BY <1>1 DEF ComposerInv, Shown, CallsSound, SendingSound
<1>3. previewed' \in {"none", draft} /\ (sending # 0 => previewed' = previewed)
  <2>1. CASE c.live
    BY <1>2, <2>1 DEF PreviewArrives, ComposerInv, Shown
  <2>2. CASE ~c.live
    BY <2>2 DEF PreviewArrives, ComposerInv, Shown
  <2> QED
    BY <2>1, <2>2
<1>4. /\ sending # 0 => \A e \in calls' : ~e.live
      /\ calls' \in SUBSET Call
      /\ \A e \in calls' : e.live => IF e.kind = "templates" THEN draft = "none"
                                                             ELSE e.draft = draft
      /\ \A e, f \in calls' : e.live /\ f.live => e = f
  BY <1>1 DEF ComposerInv, Shown, SendingSound, CallsSound, ComposerTypeOK
<1> QED
  BY <1>1, <1>3, <1>4, PreviewKeeps

-----------------------------------------------------------------------------
(* Keys *)

(* A confirmation takes the key of the attempt, if one is left.             *)
LEMMA ConfirmKeeps ==
  ASSUME ComposerInv, ConfirmSend
  PROVE  ComposerInv'
<1>0. ComposerTypeOK /\ KeysKept /\ sending = 0 /\ draft # "none" /\ previewed = draft
      /\ draft \in Drafts
  BY DEF ComposerInv, Shown, ConfirmSend, CanConfirmSend, ComposerTypeOK
<1>1. \A c \in calls : ~c.live
  <2>1. \A c \in calls : c.kind \in {"templates", "preview"}
    BY <1>0 DEF ComposerTypeOK, Call
  <2> QED
    BY <2>1 DEF ConfirmSend, CanConfirmSend, IsLoading, IsPreviewing
<1> DEFINE request == [kind |-> "create", creators |-> Creators]
           Asked == [Unused EXCEPT !.phase = "asked", !.request = request]
<1>2. PICK k \in AttemptKeys :
        /\ attempt' = [draft |-> draft, key |-> k] /\ sending' = k
        /\ Becomes(k, Asked)
        /\ sentAs' = [sentAs EXCEPT ![k] = draft]
  BY DEF ConfirmSend, Becomes
<1>3. k \in Keys /\ k # 0 /\ (attempt.key # 0 => k = attempt.key)
  <2>1. CASE attempt.draft = draft
    BY <1>0, <1>2, <2>1, TypesAre DEF AttemptKeys
  <2>2. CASE attempt.draft # draft
    BY <1>0, <1>2, <2>2, TypesAre DEF AttemptKeys, NewKey, KeysKept
  <2> QED
    BY <2>1, <2>2
<1>4. Asked \in Handler
  BY DEF Unused, Handler, HandlerPhase, Request
<1> HIDE DEF Asked
<1>5. HandlersTyped' /\ \A j \in Keys : j # k => handler'[j] = handler[j]
  BY <1>2, <1>3, <1>4, BecomesIs DEF ComposerInv
<1>6. UNCHANGED <<draft, previewed, calls, accepted, edits>>
  BY DEF ConfirmSend
<1>7. sentAs'[k] = draft /\ sentAs' \in [Keys -> Drafts \cup {"none"}]
  BY <1>0, <1>2, <1>3 DEF ComposerTypeOK
<1>8. attempt'.draft = draft /\ attempt'.key = k /\ attempt' \in [draft : Drafts, key : Keys]
  BY <1>0, <1>2, <1>3
<1>9. Shown'
  <2>1. ComposerTypeOK'
    BY <1>0, <1>2, <1>3, <1>6, <1>7, <1>8 DEF ComposerTypeOK
  <2>2. CallsSound' /\ SendingSound' /\ previewed' = draft'
    BY <1>0, <1>1, <1>2, <1>6, <1>7, <1>8 DEF CallsSound, SendingSound
  <2> QED
    BY <2>1, <2>2 DEF Shown
<1>10. KeysKept'
  <2>1. ASSUME NEW j \in Keys, handler'[j].phase \in Alive, handler'[j].request.kind = "create"
        PROVE  j = k
    BY <1>0, <1>3, <1>5, <2>1, TypesAre DEF KeysKept
  <2> QED
    BY <1>2, <1>3, <1>6, <1>7, <1>8, <2>1 DEF KeysKept
<1> QED
  BY <1>5, <1>9, <1>10 DEF ComposerInv

LEMMA AnsweredKeeps ==
  ASSUME ComposerInv, SendAnswered
  PROVE  ComposerInv'
<1>0. ComposerTypeOK /\ KeysKept /\ SendingSound /\ sending \in Keys /\ sending # 0
  BY DEF ComposerInv, Shown, SendAnswered, ComposerTypeOK
<1>1. /\ sending' = 0 /\ handler[sending].phase \in {"done", "failed"}
      /\ UNCHANGED <<draft, previewed, calls, edits, sentAs, handler>>
      /\ attempt.key = sending
  BY <1>0 DEF SendAnswered, vars, SendingSound
<1>2. \/ UNCHANGED <<accepted, attempt>>
      \/ handler[sending].phase = "done" /\ accepted' = sending /\ attempt' = NoAttempt
  BY DEF SendAnswered
<1>3. ComposerTypeOK' /\ HandlersTyped'
  BY <1>0, <1>1, <1>2 DEF ComposerTypeOK, ComposerInv, HandlersTyped
<1>4. Shown'
  BY <1>1, <1>3 DEF ComposerInv, Shown, CallsSound, SendingSound
<1>5. KeysKept'
  <2>1. CASE UNCHANGED <<accepted, attempt>>
    BY <1>0, <1>1, <2>1 DEF KeysKept
  <2>2. CASE handler[sending].phase = "done" /\ accepted' = sending /\ attempt' = NoAttempt
    BY <1>0, <1>1, <2>2, TypesAre DEF KeysKept, NoAttempt, Alive
  <2> QED
    BY <1>2, <2>1, <2>2
<1> QED
  BY <1>3, <1>4, <1>5 DEF ComposerInv

LEMMA ElsewhereKeeps ==
  ASSUME ComposerInv, Elsewhere
  PROVE  ComposerInv'
<1>1. UNCHANGED <<draft, previewed, calls, attempt, sending, accepted, edits, sentAs>>
  BY DEF Elsewhere, composer
<1>2. PICK k \in Keys : Ask(k) /\ handler'[k].request.kind = "resend"
  BY DEF Elsewhere
<1>3. handler[k].phase = "unused"
  BY <1>2 DEF Ask
<1>4. PICK r \in Request : Becomes(k, [Unused EXCEPT !.phase = "asked", !.request = r])
  BY <1>2 DEF Ask, Request
<1> DEFINE q == [Unused EXCEPT !.phase = "asked", !.request = r]
<1>5. q \in Handler
  BY DEF Unused, Handler, HandlerPhase
<1>6. HandlersTyped' /\ \A j \in Keys : j # k => handler'[j] = handler[j]
  BY <1>4, <1>5, BecomesIs DEF ComposerInv
<1>7. Shown'
  BY <1>1 DEF ComposerInv, Shown, ComposerTypeOK, CallsSound, SendingSound
<1>8. KeysKept'
  <2>1. sending = 0 /\ attempt.key # 0 => attempt.key \in Keys /\ attempt.key # k
    BY <1>3, TypesAre DEF ComposerInv, Shown, KeysKept
  <2> QED
    BY <1>1, <1>2, <1>6, <2>1 DEF ComposerInv, KeysKept
<1> QED
  BY <1>6, <1>7, <1>8 DEF ComposerInv

-----------------------------------------------------------------------------
LEMMA InitInv == ComposerInit => ComposerInv
<1> SUFFICES ASSUME ComposerInit PROVE ComposerInv
  OBVIOUS
<1>1. Unused \in Handler /\ Unused.phase = "unused"
  BY DEF Unused, Handler, HandlerPhase
<1>2. HandlersTyped /\ \A k \in Keys : handler[k].phase = "unused"
  BY <1>1 DEF ComposerInit, Init, HandlersTyped
<1>3. Shown
  BY ComposerBounds DEF ComposerInit, Shown, ComposerTypeOK, CallsSound, SendingSound
<1>4. KeysKept
  BY <1>2 DEF ComposerInit, KeysKept, NoAttempt, Alive
<1> QED
  BY <1>2, <1>3, <1>4 DEF ComposerInv

LEMMA StepInv == ComposerInv /\ [ComposerNext]_allVars => ComposerInv'
<1> SUFFICES ASSUME ComposerInv, [ComposerNext]_allVars PROVE ComposerInv'
  OBVIOUS
<1>1. CASE UserStep
  BY <1>1, LoadKeeps, EditKeeps, RefreshKeeps, ConfirmKeeps DEF UserStep
<1>2. CASE Arrives
  BY <1>2, TemplatesKeep, PreviewsKeep, AnsweredKeeps DEF Arrives
<1>3. CASE Elsewhere
  BY <1>3, ElsewhereKeeps
<1>4. CASE Server
  BY <1>4, ServerKeeps
<1>5. CASE UNCHANGED allVars
  BY <1>5 DEF allVars, vars, composer, ComposerInv, HandlersTyped, Shown, ComposerTypeOK,
              CallsSound, SendingSound, KeysKept
<1> QED
  BY <1>1, <1>2, <1>3, <1>4, <1>5 DEF ComposerNext

(* The inductive invariant: one call is heard, one key is alive.            *)
THEOREM Invariance == ComposerSpec => []ComposerInv
BY InitInv, StepInv, PTL DEF ComposerSpec

(* What is shown as a preview, and what is being sent, is the draft as it   *)
(* is now (requestPreview, confirmSend).                                    *)
THEOREM PreviewsAreTrue == ComposerSpec => []PreviewIsOfDraft
<1>1. ComposerInv => PreviewIsOfDraft
  BY DEF ComposerInv, Shown, SendingSound, PreviewIsOfDraft
<1> QED
  BY <1>1, Invariance, PTL

(* The attempt is that of the present draft, and a failed confirmation that *)
(* no edit has given up is the attempt: its repetition has its key.         *)
THEOREM RetriesKeepKeys == ComposerSpec => []RetryKeepsKey
<1>1. ComposerInv => RetryKeepsKey
  BY DEF ComposerInv, KeysKept, RetryKeepsKey, Alive
<1> QED
  BY <1>1, Invariance, PTL

-----------------------------------------------------------------------------
(* Batches and their messages *)

(* A delivery that is replaced has ended; whoever has claimed one is alone  *)
(* with it; and a key's record is made of its request.                      *)
RowsKept ==
  /\ HandlersTyped
  /\ work \subseteq Item /\ delivery \in [Deliveries -> Delivery]
  /\ record \in [Keys -> Request \cup {None}]
  /\ \A d \in Deliveries : Open(d) => ~delivery[d].superseded
  /\ \A i \in work : i.phase \in Owning => Sending(i.delivery)
  /\ \A i, j \in work :
       i.phase \in Owning /\ j.phase \in Owning /\ i.delivery = j.delivery => i = j

(* What is queued of the batch of key k has a message, or will get one.     *)
Cared(k) ==
  record[k] # None /\ faults \cap Losing = {} =>
    \A d \in Of(k) : delivery[d].state = "queued" =>
      \/ Messages(d) # {}
      \/ (handler[k].phase = "send" /\ d \in handler[k].left)
      \/ handler[k].phase \in {"asked", "failed"}

AllRequest == [kind |-> "create", creators |-> Creators]

(* The attempt and the accepted batch are of all creators and cared for.    *)
ConfirmedKept ==
  /\ attempt.key # 0 =>
       /\ record[attempt.key] \in {None, AllRequest} /\ Cared(attempt.key)
       /\ handler[attempt.key].phase # "unused"
       /\ handler[attempt.key].phase \in Alive => handler[attempt.key].request = AllRequest
  /\ accepted # 0 =>
       /\ record[accepted] = AllRequest /\ Cared(accepted) /\ handler[accepted].phase = "done"
  /\ \A k \in Keys : handler[k].phase = "unused" => record[k] = None

TakenInv == ComposerInv /\ RowsKept /\ ConfirmedKept

(* Messages *)

LEMMA ItemMoves ==
  ASSUME RowsKept, NEW i \in work, NEW phase \in Phases, NEW tries \in 0..MaxRetries,
         NEW copy \in Copies
  PROVE  LET m == [i EXCEPT !.phase = phase, !.tries = tries, !.copy = copy]
         IN m \in Item /\ m.phase = phase /\ m.delivery = i.delivery
BY DEF RowsKept, Item

LEMMA MoveIs ==
  ASSUME RowsKept, NEW i \in work, NEW phase \in Phases, Move(i, phase)
  PROVE  /\ work' \subseteq Item
         /\ \A d : Messages(d) # {} => Messages(d)' # {}
         /\ \A j \in work' : \/ j \in work /\ j # i
                             \/ j.delivery = i.delivery /\ j.phase = phase
         /\ \A j, l \in work' : j \notin work \ {i} /\ l \notin work \ {i} => j = l
         /\ Messages(i.delivery)' # {}
<1> DEFINE m == [i EXCEPT !.phase = phase]
<1>1. m \in Item /\ m.phase = phase /\ m.delivery = i.delivery
  BY DEF RowsKept, Item
<1>2. work' = (work \ {i}) \cup {m}
  BY DEF Move
<1> HIDE DEF m
<1> QED
  BY <1>1, <1>2 DEF RowsKept, Messages

LEMMA PutIs ==
  ASSUME RowsKept, NEW d \in Deliveries, Put(d)
  PROVE  /\ work \subseteq work' /\ work' \subseteq Item /\ Messages(d)' # {}
         /\ \A j \in work' : j \in work \/ j.phase = "queued"
<1>1. CASE FreeCopies(d) = {}
  <2>1. work' = work
    BY <1>1 DEF Put
  <2>2. Messages(d) # {}
    BY <1>1, CopiesExist DEF FreeCopies
  <2> QED
    BY <2>1, <2>2 DEF RowsKept, Messages
<1>2. CASE FreeCopies(d) # {}
  <2>1. PICK c \in Copies :
          work' = work \cup {[delivery |-> d, copy |-> c, phase |-> "queued", tries |-> 0]}
    BY <1>2 DEF Put, FreeCopies
  <2> DEFINE m == [delivery |-> d, copy |-> c, phase |-> "queued", tries |-> 0]
  <2>2. m \in Item /\ m.delivery = d /\ m.phase = "queued"
    BY BoundsAreNat DEF Item, Phases
  <2> HIDE DEF m
  <2>3. work' = work \cup {m}
    BY <2>1 DEF m
  <2> QED
    BY <2>2, <2>3 DEF RowsKept, Messages
<1> QED
  BY <1>1, <1>2

(* A step of the workers or of a creator, which no handler takes.           *)
LEMMA QuietCares ==
  ASSUME RowsKept, UNCHANGED <<handler, record>>, faults \subseteq faults',
         \A d \in Deliveries :
           /\ delivery'[d].batch = delivery[d].batch
           /\ delivery'[d].state = "queued" =>
                \/ delivery[d].state = "queued" /\ (Messages(d) # {} => Messages(d)' # {})
                \/ Messages(d)' # {}
                \/ faults' \cap Losing # {}
  PROVE  \A k \in Keys : Cared(k) => Cared(k)'
BY DEF Cared, Of

-----------------------------------------------------------------------------
(* The transactions *)

(* What a worker's transaction makes of a delivery that is current: the     *)
(* others stay, and so do the records.                                      *)
LEMMA TransitionIs ==
  ASSUME RowsKept, NEW d \in Deliveries, Current(d), NEW state \in SendState,
         NEW retryable \in BOOLEAN,
         Transition(d, [delivery[d] EXCEPT !.state = state, !.retryable = retryable])
  PROVE  /\ delivery' \in [Deliveries -> Delivery] /\ record' = record
         /\ delivery'[d].state = state /\ Current(d)'
         /\ delivery'[d].batch = delivery[d].batch
         /\ \A e \in Deliveries : e # d => delivery'[e] = delivery[e]
         /\ \A e \in Deliveries : Open(e)' => ~delivery'[e].superseded
<1> DEFINE row == [delivery[d] EXCEPT !.state = state, !.retryable = retryable]
<1>1. row \in Delivery /\ row.state = state /\ row.batch = delivery[d].batch
      /\ row.superseded = delivery[d].superseded /\ state # "none"
  BY DEF RowsKept, Delivery, SendState
<1> HIDE DEF row
<1>2. delivery' = [delivery EXCEPT ![d] = row] /\ record' = record
  BY DEF row, Transition
<1> QED
  BY <1>1, <1>2 DEF RowsKept, Current, Exists, Open

LEMMA ReleasedIs ==
  ASSUME RowsKept, NEW d \in Deliveries, NEW state \in SendState
  PROVE  [delivery[d] EXCEPT !.state = state] =
           [delivery[d] EXCEPT !.state = state, !.retryable = delivery[d].retryable]
BY DEF RowsKept, Delivery

LEMMA QueuedIs ==
  ASSUME NEW k \in Keys
  PROVE  /\ Queued(k) \in Delivery /\ Queued(k).state = "queued" /\ Queued(k).batch = k
         /\ Queued(k).superseded = FALSE
BY DEF Queued, NoRow, Delivery, SendState

(* What a request writes: new deliveries of its key's batch, and a resent   *)
(* one, which has ended, is replaced.                                       *)
LEMMA PerformIs ==
  ASSUME RowsKept, NEW k \in Keys, NEW r \in Request \cup {None}, Perform(k, r)
  PROVE  /\ delivery' \in [Deliveries -> Delivery] /\ record' = [record EXCEPT ![k] = r]
         /\ r \in Request
         /\ \A d \in Deliveries :
              \/ delivery'[d] = delivery[d]
              \/ delivery'[d] = Queued(k) /\ ~Exists(d)
              \/ /\ delivery[d].state \in {"sent", "failed"}
                 /\ delivery'[d] = [delivery[d] EXCEPT !.superseded = TRUE]
<1>1. CASE r.kind = "create" /\ CreateSendBatch(k, r.creators)
  <2>1. r \in Request /\ r = [kind |-> "create", creators |-> r.creators]
    BY <1>1 DEF Request, None
  <2>2. \A d \in Deliveries : \/ delivery'[d] = delivery[d]
                              \/ delivery'[d] = Queued(k) /\ ~Exists(d)
    BY <1>1 DEF CreateSendBatch, RecordRequest, FreeName
  <2>3. delivery' = [d \in Deliveries |-> delivery'[d]]
    BY <1>1 DEF CreateSendBatch, RecordRequest
  <2>4. \A d \in Deliveries : delivery'[d] \in Delivery
    BY <2>2, QueuedIs DEF RowsKept
  <2>5. delivery' \in [Deliveries -> Delivery]
    BY <2>3, <2>4
  <2> QED
    BY <1>1, <2>1, <2>2, <2>5 DEF CreateSendBatch, RecordRequest
<1>2. CASE r.kind = "resend" /\ ResendDelivery(k, r.delivery)
  <2>1. r \in Request /\ r = [kind |-> "resend", delivery |-> r.delivery]
        /\ r.delivery \in Deliveries
    BY <1>2 DEF Request, None
  <2>2. PICK d \in Deliveries : d = r.delivery
    BY <2>1
  <2>3. PICK e \in FreeName(d[1]) :
          delivery' = [delivery EXCEPT ![d].superseded = TRUE, ![e] = Queued(k)]
    BY <1>2, <2>2 DEF ResendDelivery, RecordRequest
  <2>4. e \in Deliveries /\ ~Exists(e)
    BY <2>3 DEF FreeName, History
  <2>5. delivery[d].state \in {"sent", "failed"} /\ delivery[d] \in Delivery
    BY <1>2, <2>2 DEF ResendDelivery, RecordRequest, Resendable, RowsKept
  <2> DEFINE old == [delivery[d] EXCEPT !.superseded = TRUE]
  <2>6. old \in Delivery
    BY <2>5 DEF Delivery
  <2>7. delivery' = [[delivery EXCEPT ![d] = old] EXCEPT ![e] = Queued(k)]
    BY <2>3
  <2>8. record' = [record EXCEPT ![k] = r]
    BY <1>2, <2>1 DEF ResendDelivery, RecordRequest
  <2>9. /\ delivery' \in [Deliveries -> Delivery]
        /\ \A f \in Deliveries : \/ delivery'[f] = delivery[f]
                                 \/ f = e /\ delivery'[f] = Queued(k)
                                 \/ f = d /\ delivery'[f] = old
    BY <2>4, <2>6, <2>7, QueuedIs DEF RowsKept
  <2> QED
    BY <2>1, <2>4, <2>5, <2>8, <2>9
<1> QED
  BY <1>1, <1>2 DEF Perform

-----------------------------------------------------------------------------
(* The API *)

LEMMA DispatchIs ==
  ASSUME HandlersTyped, NEW k \in Keys, NEW left \in SUBSET Deliveries, Dispatch(k, left)
  PROVE  /\ HandlersTyped' /\ \A j \in Keys : j # k => handler'[j] = handler[j]
         /\ left # {} => handler'[k].phase = "send" /\ handler'[k].left = left
<1>1. CASE left = {}
  <2> DEFINE q == [Unused EXCEPT !.phase = "done"]
  <2>1. q \in Handler /\ Becomes(k, q)
    BY <1>1, DoneIs DEF Dispatch, Done
  <2> HIDE DEF q
  <2> QED
    BY <1>1, <2>1, BecomesIs
<1>2. CASE left # {}
  <2> DEFINE q == [handler[k] EXCEPT !.phase = "send", !.left = left]
  <2>1. q \in Handler /\ q.phase = "send" /\ q.left = left
    BY DEF HandlersTyped, Handler, HandlerPhase
  <2>2. Becomes(k, q)
    BY <1>2 DEF Dispatch
  <2> HIDE DEF q
  <2> QED
    BY <2>1, <2>2, BecomesIs
<1> QED
  BY <1>1, <1>2

LEMMA FailedIs ==
  ASSUME HandlersTyped, NEW k \in Keys, Failed(k)
  PROVE  /\ HandlersTyped' /\ \A j \in Keys : j # k => handler'[j] = handler[j]
         /\ handler'[k].phase = "failed"
<1> DEFINE q == [handler[k] EXCEPT !.phase = "failed", !.left = {}]
<1>1. q \in Handler /\ q.phase = "failed"
  BY DEF HandlersTyped, Handler, HandlerPhase
<1>2. Becomes(k, q)
  BY DEF Failed
<1> HIDE DEF q
<1> QED
  BY <1>1, <1>2, BecomesIs

(* A request writes under its key and sends what is queued of its batch.    *)
RecordsMove ==
  \A k \in Keys : /\ record[k] # None => record'[k] = record[k]
                  /\ record'[k] # record[k] =>
                       handler[k].phase = "asked" /\ record'[k] = handler[k].request

(* Messages may come and go, but for those of owners. *)
LEMMA QuietRows ==
  ASSUME RowsKept, HandlersTyped', UNCHANGED <<delivery, record>>, work' \subseteq Item,
         \A j \in work' : j \in work \/ j.phase = "queued"
  PROVE  RowsKept' /\ RecordsMove
<1>1. \A d : (Open(d)' <=> Open(d)) /\ (Sending(d)' <=> Sending(d))
  BY DEF Open, Sending, Current, Exists
<1>2. \A j \in work' : j.phase \in Owning => j \in work
  BY DEF Owning
<1>3. RowsKept'
  BY <1>1, <1>2 DEF RowsKept
<1>4. RecordsMove
  BY DEF RecordsMove
<1> QED
  BY <1>3, <1>4

LEMMA ExecuteCares ==
  ASSUME RowsKept, NEW k \in Keys, Execute(k)
  PROVE  RowsKept' /\ RecordsMove /\ \A j \in Keys : Cared(j) => Cared(j)'
<1>1. handler[k].phase = "asked" /\ UNCHANGED <<work, faults>>
      /\ handler[k].request \in Request \cup {None}
  BY DEF Execute, Replayed, RowsKept, HandlersTyped, Handler
<1>2. CASE record[k] = handler[k].request /\ UNCHANGED store
           /\ Dispatch(k, {d \in Of(k) : Claimable(d)})
  <2> DEFINE left == {d \in Of(k) : Claimable(d)}
  <2>1. left \in SUBSET Deliveries /\ Dispatch(k, left)
    BY <1>2 DEF Of
  <2>2. \A d \in Of(k) : delivery[d].state = "queued" => d \in left
    BY DEF Of, Claimable, Current, Exists, RowsKept, Open
  <2> HIDE DEF left
  <2>3. /\ HandlersTyped' /\ \A j \in Keys : j # k => handler'[j] = handler[j]
        /\ left # {} => handler'[k].phase = "send" /\ handler'[k].left = left
    BY <2>1, DispatchIs DEF RowsKept
  <2>4. RowsKept' /\ RecordsMove
    BY <1>1, <1>2, <2>3, QuietRows DEF store, RowsKept
  <2>5. ASSUME NEW j \in Keys, Cared(j) PROVE Cared(j)'
    <3>1. CASE j = k
      BY <1>1, <1>2, <2>2, <2>3, <3>1 DEF Cared, Of, store, Messages
    <3>2. CASE j # k
      BY <1>1, <1>2, <2>3, <2>5, <3>2 DEF Cared, Of, store, Messages
    <3> QED
      BY <3>1, <3>2
  <2> QED
    BY <2>4, <2>5
<1>3. CASE record[k] = None /\ Perform(k, handler[k].request)
           /\ Dispatch(k, {d \in Deliveries : delivery'[d].batch = k})
  <2> DEFINE left == {d \in Deliveries : delivery'[d].batch = k}
  <2>1. left \in SUBSET Deliveries /\ Dispatch(k, left)
    BY <1>3
  <2>2. \A d \in Deliveries : d \in Of(k)' => d \in left
    BY DEF Of
  <2> HIDE DEF left
  <2>3. /\ HandlersTyped' /\ \A j \in Keys : j # k => handler'[j] = handler[j]
        /\ left # {} => handler'[k].phase = "send" /\ handler'[k].left = left
    BY <2>1, DispatchIs DEF RowsKept
  <2>4. /\ delivery' \in [Deliveries -> Delivery]
        /\ record' = [record EXCEPT ![k] = handler[k].request]
        /\ handler[k].request \in Request
        /\ \A d \in Deliveries :
              \/ delivery'[d] = delivery[d]
              \/ delivery'[d] = Queued(k) /\ ~Exists(d)
              \/ /\ delivery[d].state \in {"sent", "failed"}
                 /\ delivery'[d] = [delivery[d] EXCEPT !.superseded = TRUE]
    BY <1>1, <1>3, PerformIs
  <2>5. \A d \in Deliveries :
          \/ delivery'[d] = delivery[d]
          \/ /\ delivery'[d].state = "queued" /\ delivery'[d].superseded = FALSE
             /\ delivery'[d].batch = k /\ delivery[d].state = "none"
          \/ /\ delivery[d].state \in {"sent", "failed"}
             /\ delivery'[d].state = delivery[d].state
    <3> SUFFICES ASSUME NEW d \in Deliveries
                 PROVE  \/ delivery'[d] = delivery[d]
                        \/ /\ delivery'[d].state = "queued" /\ delivery'[d].superseded = FALSE
                           /\ delivery'[d].batch = k /\ delivery[d].state = "none"
                        \/ /\ delivery[d].state \in {"sent", "failed"}
                           /\ delivery'[d].state = delivery[d].state
      OBVIOUS
    <3>1. [delivery[d] EXCEPT !.superseded = TRUE].state = delivery[d].state
      BY DEF RowsKept, Delivery
    <3>2. CASE delivery'[d] = delivery[d]
      BY <3>2
    <3>3. CASE delivery'[d] = Queued(k) /\ ~Exists(d)
      BY <3>3, QueuedIs DEF Exists
    <3>4. CASE /\ delivery[d].state \in {"sent", "failed"}
               /\ delivery'[d] = [delivery[d] EXCEPT !.superseded = TRUE]
      BY <3>1, <3>4
    <3> QED
      BY <2>4, <3>2, <3>3, <3>4
  <2>6. RecordsMove
    <3>1. \A j \in Keys : record'[j] = IF j = k THEN handler[k].request ELSE record[j]
      BY <2>4 DEF RowsKept
    <3> QED
      BY <1>1, <1>3, <3>1 DEF RecordsMove
  <2>7. RowsKept'
    <3>1. \A d \in Deliveries : Open(d)' => ~delivery'[d].superseded
      BY <2>5 DEF RowsKept, Open
    <3>2. \A i \in work : i.phase \in Owning => Sending(i.delivery)'
      <4> SUFFICES ASSUME NEW i \in work, i.phase \in Owning PROVE Sending(i.delivery)'
        OBVIOUS
      <4>1. i.delivery \in Deliveries /\ Sending(i.delivery)
        BY DEF RowsKept, Item
      <4>2. delivery'[i.delivery] = delivery[i.delivery]
        BY <2>5, <4>1 DEF Sending
      <4> QED
        BY <4>1, <4>2 DEF Sending, Current, Exists
    <3> QED
      BY <1>1, <2>3, <2>4, <3>1, <3>2 DEF RowsKept
  <2>8. ASSUME NEW j \in Keys, Cared(j) PROVE Cared(j)'
    <3>1. CASE j = k
      BY <2>2, <2>3, <3>1 DEF Cared, Of
    <3>2. CASE j # k
      <4>1. \A d \in Deliveries : delivery'[d].batch = j /\ delivery'[d].state = "queued" =>
              delivery'[d] = delivery[d]
        BY <2>5, <3>2
      <4>2. record'[j] = record[j]
        BY <2>4, <3>2 DEF RowsKept
      <4> QED
        BY <1>1, <2>3, <2>8, <3>2, <4>1, <4>2 DEF Cared, Of, Messages
    <3> QED
      BY <3>1, <3>2
  <2> QED
    BY <2>6, <2>7, <2>8
<1>4. CASE Refuse(k)
  <2>1. HandlersTyped' /\ \A j \in Keys : j # k => handler'[j] = handler[j]
    BY <1>4, FailedIs DEF Refuse, RowsKept
  <2>2. RowsKept' /\ RecordsMove
    BY <1>1, <1>4, <2>1, QuietRows DEF Refuse, store, RowsKept
  <2>3. \A j \in Keys : Cared(j) => Cared(j)'
    BY <1>1, <1>4, <2>1 DEF Refuse, Cared, Of, store, Messages
  <2> QED
    BY <2>2, <2>3
<1> QED
  BY <1>2, <1>3, <1>4 DEF Execute, Replayed

LEMMA SendCares ==
  ASSUME RowsKept, NEW k \in Keys, Send(k)
  PROVE  RowsKept' /\ RecordsMove /\ \A j \in Keys : Cared(j) => Cared(j)'
<1>1. /\ handler[k].phase = "send" /\ handler[k].left \in SUBSET Deliveries
      /\ UNCHANGED <<delivery, batch, response, record>>
  BY DEF Send, store, RowsKept, HandlersTyped, Handler
<1>2. PICK d \in handler[k].left :
        \/ Put(d) /\ Dispatch(k, handler[k].left \ {d}) /\ UNCHANGED faults
        \/ Fault("api broker") /\ (Put(d) \/ UNCHANGED work) /\ Failed(k)
  BY DEF Send
<1>3. /\ work \subseteq work' /\ work' \subseteq Item
      /\ \A j \in work' : j \in work \/ j.phase = "queued"
      /\ Put(d) => Messages(d)' # {}
  BY <1>1, <1>2, PutIs DEF RowsKept
<1>5. faults \subseteq faults'
  BY <1>2 DEF Fault
<1>6. CASE Put(d) /\ Dispatch(k, handler[k].left \ {d})
  <2> DEFINE left == handler[k].left \ {d}
  <2>1. /\ HandlersTyped' /\ \A j \in Keys : j # k => handler'[j] = handler[j]
        /\ left # {} => handler'[k].phase = "send" /\ handler'[k].left = left
    BY <1>1, <1>6, DispatchIs DEF RowsKept
  <2>2. RowsKept' /\ RecordsMove
    BY <1>1, <1>3, <2>1, QuietRows
  <2>3. \A j \in Keys : Cared(j) => Cared(j)'
    BY <1>1, <1>3, <1>5, <1>6, <2>1 DEF Cared, Of, Messages
  <2> QED
    BY <2>2, <2>3
<1>7. CASE Failed(k)
  <2>1. /\ HandlersTyped' /\ \A j \in Keys : j # k => handler'[j] = handler[j]
        /\ handler'[k].phase = "failed"
    BY <1>7, FailedIs DEF RowsKept
  <2>2. RowsKept' /\ RecordsMove
    BY <1>1, <1>3, <2>1, QuietRows
  <2>3. \A j \in Keys : Cared(j) => Cared(j)'
    BY <1>1, <1>3, <1>5, <2>1 DEF Cared, Of, Messages
  <2> QED
    BY <2>2, <2>3
<1> QED
  BY <1>2, <1>6, <1>7

LEMMA CrashCares ==
  ASSUME RowsKept, NEW k \in Keys, Crash(k)
  PROVE  RowsKept' /\ RecordsMove /\ \A j \in Keys : Cared(j) => Cared(j)'
<1>1. UNCHANGED <<delivery, batch, response, record, work>> /\ faults \subseteq faults'
  BY DEF Crash, store, Fault
<1>2. /\ HandlersTyped' /\ \A j \in Keys : j # k => handler'[j] = handler[j]
      /\ handler'[k].phase = "failed"
  BY FailedIs DEF RowsKept, Crash
<1>3. RowsKept' /\ RecordsMove
  BY <1>1, <1>2, QuietRows DEF RowsKept
<1>4. \A j \in Keys : Cared(j) => Cared(j)'
  BY <1>1, <1>2 DEF Cared, Of, Messages
<1> QED
  BY <1>3, <1>4

-----------------------------------------------------------------------------
(* The workers, and who answers *)

(* A worker that moves its message. *)
LEMMA MovesCare ==
  ASSUME RowsKept, NEW i \in work, NEW phase \in Phases, Move(i, phase),
         UNCHANGED <<delivery, record, handler>>, faults \subseteq faults',
         phase \in Owning => i.phase \in Owning
  PROVE  RowsKept' /\ RecordsMove /\ \A k \in Keys : Cared(k) => Cared(k)'
<1>1. /\ work' \subseteq Item
      /\ \A d : Messages(d) # {} => Messages(d)' # {}
      /\ \A j \in work' : \/ j \in work /\ j # i
                          \/ j.delivery = i.delivery /\ j.phase = phase
      /\ \A j, l \in work' : j \notin work \ {i} /\ l \notin work \ {i} => j = l
  BY MoveIs
<1>2. \A d : (Open(d)' <=> Open(d)) /\ (Sending(d)' <=> Sending(d))
  BY DEF Open, Sending, Current, Exists
<1>3. \A j \in work' : j.phase \in Owning => Sending(j.delivery)'
  BY <1>1, <1>2 DEF RowsKept
<1>4. \A j, l \in work' :
        j.phase \in Owning /\ l.phase \in Owning /\ j.delivery = l.delivery => j = l
  BY <1>1 DEF RowsKept
<1>5. RowsKept'
  BY <1>1, <1>2, <1>3, <1>4 DEF RowsKept, HandlersTyped
<1>6. RecordsMove
  BY DEF RecordsMove
<1>7. \A k \in Keys : Cared(k) => Cared(k)'
  BY <1>1, QuietCares
<1> QED
  BY <1>5, <1>6, <1>7

(* A worker that ends with its message. *)
LEMMA AckIs ==
  ASSUME RowsKept, NEW i \in work, Ack(i)
  PROVE  /\ work' \subseteq work /\ i \notin work'
         /\ \A d \in Deliveries : d # i.delivery => Messages(d)' = Messages(d)
BY DEF RowsKept, Ack, Messages

LEMMA ClaimsCare ==
  ASSUME RowsKept, NEW i \in work, Claims(i), UNCHANGED <<handler, faults>>
  PROVE  RowsKept' /\ RecordsMove /\ \A k \in Keys : Cared(k) => Cared(k)'
<1>1. i.delivery \in Deliveries /\ i.phase = "queued"
  BY DEF RowsKept, Item, Claims
<1>2. PICK d \in Deliveries : d = i.delivery
  BY <1>1
<1>3. CASE Claim(d) /\ Move(i, "claimed")
  <2>1. Current(d) /\ delivery[d].state = "queued" /\ "sending" \in SendState
        /\ "claimed" \in Phases
    BY <1>3 DEF Claim, Claimable, SendState, Phases, Owning
  <2>2. PICK retryable \in BOOLEAN : retryable = delivery[d].retryable
    BY DEF RowsKept, Delivery
  <2>3. Transition(d, [delivery[d] EXCEPT !.state = "sending", !.retryable = retryable])
    BY <1>3, <2>1, <2>2, ReleasedIs DEF Claim
  <2>4. /\ delivery' \in [Deliveries -> Delivery] /\ record' = record
        /\ delivery'[d].state = "sending" /\ Current(d)'
        /\ delivery'[d].batch = delivery[d].batch
        /\ \A e \in Deliveries : e # d => delivery'[e] = delivery[e]
        /\ \A e \in Deliveries : Open(e)' => ~delivery'[e].superseded
    BY <2>1, <2>3, TransitionIs
  <2>5. /\ work' \subseteq Item
        /\ \A e : Messages(e) # {} => Messages(e)' # {}
        /\ \A j \in work' : \/ j \in work /\ j # i
                            \/ j.delivery = i.delivery /\ j.phase = "claimed"
        /\ \A j, l \in work' : j \notin work \ {i} /\ l \notin work \ {i} => j = l
    BY <1>3, <2>1, MoveIs
  <2>6. \A j \in work : j.phase \in Owning => j.delivery # d /\ j.delivery \in Deliveries
    BY <2>1 DEF RowsKept, Sending, Item
  <2>7. \A e \in Deliveries : e # d /\ Sending(e) => Sending(e)'
    BY <2>4 DEF Sending, Current, Exists
  <2>8. \A j \in work' : j.phase \in Owning => Sending(j.delivery)'
    BY <1>2, <2>4, <2>5, <2>6, <2>7 DEF RowsKept, Sending
  <2>9. \A j, l \in work' :
          j.phase \in Owning /\ l.phase \in Owning /\ j.delivery = l.delivery => j = l
    BY <1>2, <2>5, <2>6 DEF RowsKept
  <2>10. RowsKept'
    BY <2>4, <2>5, <2>8, <2>9 DEF RowsKept, HandlersTyped
  <2>11. RecordsMove
    BY <2>4 DEF RecordsMove
  <2>12. \A e \in Deliveries :
           /\ delivery'[e].batch = delivery[e].batch
           /\ delivery'[e].state = "queued" =>
                delivery[e].state = "queued" /\ (Messages(e) # {} => Messages(e)' # {})
    BY <2>4, <2>5
  <2>13. \A k \in Keys : Cared(k) => Cared(k)'
    BY <2>4, <2>12, QuietCares
  <2> QED
    BY <2>10, <2>11, <2>13
<1>4. CASE ~Claimable(d) /\ Ack(i) /\ UNCHANGED store
  <2>1. UNCHANGED <<delivery, record>>
    BY <1>4 DEF store
  <2>2. delivery[d].state # "queued"
    BY <1>4 DEF Claimable, Current, Exists, RowsKept, Open
  <2>3. RowsKept' /\ RecordsMove
    BY <1>4, <2>1, AckIs, QuietRows DEF RowsKept, HandlersTyped
  <2>4. \A k \in Keys : Cared(k) => Cared(k)'
    BY <1>2, <1>4, <2>1, <2>2, AckIs, QuietCares
  <2> QED
    BY <2>3, <2>4
<1> QED
  BY <1>2, <1>3, <1>4 DEF Claims

LEMMA SendsCare ==
  ASSUME RowsKept, NEW i \in work, Sends(i), UNCHANGED <<handler, faults>>
  PROVE  RowsKept' /\ RecordsMove /\ \A k \in Keys : Cared(k) => Cared(k)'
<1>1. UNCHANGED <<delivery, record>> /\ i.phase \in Owning
  BY DEF Sends, store, Owning
<1>2. PICK phase \in {"accepted", "refused", "transient"} : Move(i, phase)
  BY DEF Sends
<1>3. phase \in Phases
  BY DEF Phases, Owning
<1> QED
  BY <1>1, <1>2, <1>3, MovesCare

(* An outcome is marked by the one who sends; and then nothing is queued.   *)
LEMMA MarksCare ==
  ASSUME RowsKept, NEW i \in work, MarksOutcome(i), UNCHANGED <<handler, faults>>
  PROVE  RowsKept' /\ RecordsMove /\ \A k \in Keys : Cared(k) => Cared(k)'
<1>1. PICK d \in Deliveries : d = i.delivery
  BY DEF RowsKept, Item
<1>2. i.phase \in Owning /\ Sending(d) /\ Ack(i)
  BY <1>1 DEF MarksOutcome, Owning, RowsKept
<1>3. PICK state \in {"sent", "failed"}, retryable \in BOOLEAN :
        Transition(d, [delivery[d] EXCEPT !.state = state, !.retryable = retryable])
  BY <1>1, <1>2 DEF MarksOutcome, MarkSent, MarkFailed, IfSending
<1>4. /\ delivery' \in [Deliveries -> Delivery] /\ record' = record
      /\ delivery'[d].state = state /\ Current(d)'
      /\ delivery'[d].batch = delivery[d].batch
      /\ \A e \in Deliveries : e # d => delivery'[e] = delivery[e]
      /\ \A e \in Deliveries : Open(e)' => ~delivery'[e].superseded
  BY <1>2, <1>3, TransitionIs DEF Sending, SendState
<1>5. /\ work' \subseteq work /\ i \notin work'
      /\ \A e \in Deliveries : e # d => Messages(e)' = Messages(e)
  BY <1>1, <1>2, AckIs
<1>6. \A j \in work' : j.phase \in Owning => j.delivery # d /\ j.delivery \in Deliveries
  BY <1>1, <1>2, <1>5 DEF RowsKept, Item
<1>7. \A e \in Deliveries : e # d /\ Sending(e) => Sending(e)'
  BY <1>4 DEF Sending, Current, Exists
<1>8. RowsKept'
  BY <1>4, <1>5, <1>6, <1>7 DEF RowsKept, HandlersTyped
<1>9. RecordsMove
  BY <1>4 DEF RecordsMove
<1>10. \A k \in Keys : Cared(k) => Cared(k)'
  BY <1>4, <1>5, QuietCares
<1> QED
  BY <1>8, <1>9, <1>10

(* A delivery that is released has its message, or a worker has lost it.    *)
LEMMA ReleasesCare ==
  ASSUME RowsKept, NEW i \in work, Releases(i), UNCHANGED handler
  PROVE  RowsKept' /\ RecordsMove /\ \A k \in Keys : Cared(k) => Cared(k)'
<1>1. PICK d \in Deliveries : d = i.delivery
  BY DEF RowsKept, Item
<1>2. i.phase \in Owning /\ Sending(d)
  BY <1>1 DEF Releases, Owning, RowsKept
<1>3. Transition(d, [delivery[d] EXCEPT !.state = "queued", !.retryable = FALSE])
  BY <1>1, <1>2 DEF Releases, ReleaseForRetry, IfSending
<1>4. /\ delivery' \in [Deliveries -> Delivery] /\ record' = record
      /\ delivery'[d].state = "queued" /\ Current(d)'
      /\ delivery'[d].batch = delivery[d].batch
      /\ \A e \in Deliveries : e # d => delivery'[e] = delivery[e]
      /\ \A e \in Deliveries : Open(e)' => ~delivery'[e].superseded
  BY <1>2, <1>3, TransitionIs DEF Sending, SendState
<1>5. /\ work' \subseteq Item /\ faults \subseteq faults'
      /\ \A j \in work' : (j \in work /\ j # i) \/ j.phase = "queued"
      /\ \A e \in Deliveries : e # d /\ Messages(e) # {} => Messages(e)' # {}
      /\ Messages(d)' # {} \/ faults' \cap Losing # {}
  <2>1. CASE /\ work' = (work \ {i}) \cup {[i EXCEPT !.phase = "queued", !.tries = @ + 1]}
             /\ UNCHANGED faults
    <3> DEFINE m == [i EXCEPT !.phase = "queued", !.tries = @ + 1]
    <3>0. i.tries < MaxRetries /\ i \in Item /\ i.tries \in 0..MaxRetries
      BY DEF Releases, RowsKept, Item
    <3>1. i \in Item /\ i.tries + 1 \in 0..MaxRetries
      BY <3>0, BoundsAreNat
    <3>2. m \in Item /\ m.phase = "queued" /\ m.delivery = d
      BY <1>1, <3>1 DEF Item, Phases
    <3> HIDE DEF m
    <3>3. work' = (work \ {i}) \cup {m}
      BY <2>1 DEF m
    <3> QED
      BY <1>1, <2>1, <3>2, <3>3 DEF RowsKept, Messages
  <2>2. CASE Fault("retry broker") /\ Ack(i)
    <3>1. "retry broker" \in faults' /\ faults \subseteq faults'
      BY <2>2 DEF Fault
    <3> QED
      BY <1>1, <2>2, <3>1, AckIs DEF RowsKept, Losing
  <2>3. CASE Fault("lost worker") /\ Move(i, "queued")
    <3>1. "queued" \in Phases /\ faults \subseteq faults'
      BY <2>3 DEF Fault, Phases
    <3>2. /\ work' \subseteq Item
          /\ \A e : Messages(e) # {} => Messages(e)' # {}
          /\ \A j \in work' : \/ j \in work /\ j # i
                              \/ j.delivery = i.delivery /\ j.phase = "queued"
      BY <2>3, <3>1, MoveIs
    <3>3. Messages(d)' # {}
      BY <1>1, <3>2 DEF Messages
    <3>4. \A j \in work' : (j \in work /\ j # i) \/ j.phase = "queued"
      BY <3>2
    <3> QED
      BY <3>1, <3>2, <3>3, <3>4
  <2> QED
    BY <2>1, <2>2, <2>3 DEF Releases
<1>6. \A j \in work' : j.phase \in Owning => j \in work /\ j.delivery # d /\ j.delivery \in Deliveries
  BY <1>1, <1>2, <1>5 DEF RowsKept, Item, Owning
<1>7. \A e \in Deliveries : e # d /\ Sending(e) => Sending(e)'
  BY <1>4 DEF Sending, Current, Exists
<1>8. RowsKept'
  BY <1>4, <1>5, <1>6, <1>7 DEF RowsKept, HandlersTyped
<1>9. RecordsMove
  BY <1>4 DEF RecordsMove
<1>10. \A k \in Keys : Cared(k) => Cared(k)'
  BY <1>4, <1>5, QuietCares
<1> QED
  BY <1>8, <1>9, <1>10

LEMMA DisturbanceCares ==
  ASSUME RowsKept, NEW i \in work, Disturbance(i)
  PROVE  RowsKept' /\ RecordsMove /\ \A k \in Keys : Cared(k) => Cared(k)'
<1>1. UNCHANGED <<delivery, record, handler>>
  BY DEF Disturbance, store
<1>2. CASE DatabaseFails(i)
  <2>1. Ack(i) /\ faults \subseteq faults' /\ faults' \cap Losing # {}
    BY <1>2 DEF DatabaseFails, Fault, Losing
  <2>2. RowsKept' /\ RecordsMove
    BY <1>1, <2>1, AckIs, QuietRows DEF RowsKept, HandlersTyped
  <2>3. \A k \in Keys : Cared(k) => Cared(k)'
    BY <1>1, <2>1, QuietCares
  <2> QED
    BY <2>2, <2>3
<1>3. CASE WorkerLost(i)
  BY <1>1, <1>3, MovesCare DEF WorkerLost, Fault, Phases, Owning
<1>4. CASE Redeliver(i)
  <2>1. PICK c \in Copies : work' = work \cup {[i EXCEPT !.phase = "queued", !.copy = c]}
    BY <1>4 DEF Redeliver, FreeCopies
  <2> DEFINE m == [i EXCEPT !.phase = "queued", !.copy = c]
  <2>2. m \in Item /\ m.phase = "queued" /\ m.delivery = i.delivery
    BY DEF RowsKept, Item, Phases
  <2> HIDE DEF m
  <2>3. work' = work \cup {m} /\ faults \subseteq faults'
    BY <1>4, <2>1 DEF m, Redeliver, Fault
  <2>4. RowsKept' /\ RecordsMove
    BY <1>1, <2>2, <2>3, QuietRows DEF RowsKept, HandlersTyped
  <2>5. \A k \in Keys : Cared(k) => Cared(k)'
    BY <1>1, <2>3, QuietCares DEF Messages
  <2> QED
    BY <2>4, <2>5
<1> QED
  BY <1>2, <1>3, <1>4 DEF Disturbance

(* An answer is given to a delivery that has been sent. *)
LEMMA AnswerCares ==
  ASSUME RowsKept, NEW d \in Deliveries, Answer(d)
  PROVE  RowsKept' /\ RecordsMove /\ \A k \in Keys : Cared(k) => Cared(k)'
<1>1. UNCHANGED <<record, handler, work, faults>>
  BY DEF Answer, ConfirmResponse
<1>2. PICK choice \in Choice : delivery' = [delivery EXCEPT ![d].response = choice]
  BY DEF Answer, ConfirmResponse
<1> DEFINE row == [delivery[d] EXCEPT !.response = choice]
<1>3. /\ row \in Delivery /\ row.state = delivery[d].state /\ row.batch = delivery[d].batch
      /\ row.superseded = delivery[d].superseded
  BY DEF RowsKept, Delivery
<1> HIDE DEF row
<1>4. delivery' = [delivery EXCEPT ![d] = row]
  BY <1>2 DEF row
<1>5. /\ delivery' \in [Deliveries -> Delivery]
      /\ \A e \in Deliveries : /\ delivery'[e].state = delivery[e].state
                               /\ delivery'[e].batch = delivery[e].batch
                               /\ delivery'[e].superseded = delivery[e].superseded
  BY <1>3, <1>4 DEF RowsKept
<1>6. \A e \in Deliveries : (Open(e)' <=> Open(e)) /\ (Sending(e)' <=> Sending(e))
  BY <1>5 DEF Open, Sending, Current, Exists
<1>7. RowsKept'
  BY <1>1, <1>5, <1>6 DEF RowsKept, HandlersTyped, Item
<1>8. RecordsMove
  BY <1>1 DEF RecordsMove
<1>9. \A k \in Keys : Cared(k) => Cared(k)'
  BY <1>1, <1>5, QuietCares DEF Messages
<1> QED
  BY <1>7, <1>8, <1>9

LEMMA ServerCares ==
  ASSUME RowsKept, ServerStep
  PROVE  RowsKept' /\ RecordsMove /\ \A k \in Keys : Cared(k) => Cared(k)'
<1>1. ASSUME NEW i \in work, WorkerStep(i)
      PROVE  RowsKept' /\ RecordsMove /\ \A k \in Keys : Cared(k) => Cared(k)'
  BY <1>1, ClaimsCare, SendsCare, MarksCare, ReleasesCare DEF WorkerStep
<1> QED
  BY <1>1, ExecuteCares, SendCares, CrashCares, DisturbanceCares, AnswerCares
     DEF ServerStep, ApiStep

-----------------------------------------------------------------------------
(* Every step *)

LEMMA ServerTakes ==
  ASSUME TakenInv, Server
  PROVE  TakenInv'
<1>1. ComposerInv' /\ UNCHANGED <<attempt, accepted>>
  BY ServerKeeps DEF TakenInv, Server, composer
<1>2. RowsKept' /\ RecordsMove /\ \A k \in Keys : Cared(k) => Cared(k)'
  BY ServerCares DEF TakenInv, Server
<1>3. \A k \in Keys : Moves(k)
  BY ServerMoves DEF TakenInv, ComposerInv, Server
<1>4. /\ attempt.key \in Keys \cup {0} /\ accepted \in Keys \cup {0}
  BY TypesAre DEF TakenInv, ComposerInv, Shown, ComposerTypeOK
<1>5. attempt.key # 0 =>
        /\ record'[attempt.key] \in {None, AllRequest} /\ Cared(attempt.key)'
        /\ handler'[attempt.key].phase # "unused"
        /\ handler'[attempt.key].phase \in Alive => handler'[attempt.key].request = AllRequest
  <2> SUFFICES ASSUME NEW k \in Keys, k = attempt.key, k # 0
               PROVE  /\ record'[k] \in {None, AllRequest} /\ Cared(k)'
                      /\ handler'[k].phase # "unused"
                      /\ handler'[k].phase \in Alive => handler'[k].request = AllRequest
    BY <1>1, <1>4
  <2>1. /\ record[k] \in {None, AllRequest} /\ Cared(k) /\ handler[k].phase # "unused"
        /\ handler[k].phase \in Alive => handler[k].request = AllRequest
    BY DEF TakenInv, ConfirmedKept
  <2>2. Cared(k)'
    BY <1>2, <2>1
  <2>3. record'[k] \in {None, AllRequest}
    BY <1>2, <2>1 DEF RecordsMove, Alive
  <2>4. /\ handler'[k].phase # "unused"
        /\ handler'[k].phase \in Alive => handler'[k].request = AllRequest
    BY <1>3, <2>1 DEF Moves, Alive
  <2> QED
    BY <2>2, <2>3, <2>4
<1>6. accepted # 0 =>
        record'[accepted] = AllRequest /\ Cared(accepted)' /\ handler'[accepted].phase = "done"
  <2> SUFFICES ASSUME NEW k \in Keys, k = accepted, k # 0
               PROVE  record'[k] = AllRequest /\ Cared(k)' /\ handler'[k].phase = "done"
    BY <1>1, <1>4
  <2>1. record[k] = AllRequest /\ Cared(k) /\ handler[k].phase = "done"
    BY DEF TakenInv, ConfirmedKept
  <2>2. handler'[k] = handler[k]
    BY <1>3, <2>1 DEF Moves
  <2>3. Cared(k)' /\ record'[k] = record[k]
    BY <1>2, <2>1 DEF RecordsMove
  <2> QED
    BY <2>1, <2>2, <2>3
<1>7. \A k \in Keys : handler'[k].phase = "unused" => record'[k] = None
  <2> SUFFICES ASSUME NEW k \in Keys, handler'[k].phase = "unused" PROVE record'[k] = None
    OBVIOUS
  <2>1. handler[k].phase = "unused"
    BY <1>3 DEF Moves
  <2> QED
    BY <1>2, <2>1 DEF TakenInv, ConfirmedKept, RecordsMove
<1>8. ConfirmedKept'
  <2>1. attempt' = attempt /\ accepted' = accepted
    BY <1>1
  <2> QED
    BY <1>5, <1>6, <1>7, <2>1 DEF ConfirmedKept
<1> QED
  BY <1>1, <1>2, <1>8 DEF TakenInv

(* Only the client's own steps touch a handler from outside.                *)
LEMMA ClientRows ==
  ASSUME TakenInv, ComposerInv', ServerWaits
  PROVE  RowsKept'
<1>1. UNCHANGED <<delivery, record, work>>
  BY DEF ServerWaits, store
<1> QED
  BY <1>1, QuietRows DEF TakenInv, RowsKept, ComposerInv

(* A key whose handler is left alone is cared for as before.                *)
LEMMA CaredStays ==
  ASSUME NEW k \in Keys, Cared(k), UNCHANGED <<delivery, record, work>>,
         faults \subseteq faults', handler'[k] = handler[k]
  PROVE  Cared(k)'
BY DEF Cared, Of, Messages

(* Whoever changes the draft forgets the attempt, which was not accepted.   *)
LEMMA ForgetTakes ==
  ASSUME TakenInv, ComposerInv', ServerWaits, Forget, accepted' \in {accepted, 0}
  PROVE  TakenInv'
<1>1. RowsKept'
  BY ClientRows
<1>2. UNCHANGED <<delivery, record, work>>
  BY DEF ServerWaits, store
<1>3. /\ attempt.key \in Keys \cup {0} /\ accepted \in Keys \cup {0} /\ 0 \notin Keys
  BY TypesAre DEF TakenInv, ComposerInv, Shown, ComposerTypeOK
<1>4. /\ attempt' = NoAttempt /\ faults \subseteq faults'
      /\ \A k \in Keys : \/ handler'[k] = handler[k]
                         \/ handler[k].phase = "failed" /\ handler'[k].phase = "done"
  <2>1. CASE attempt.key # 0 /\ handler[attempt.key].phase = "failed"
    <3>1. Becomes(attempt.key, [Unused EXCEPT !.phase = "done"]) /\ attempt.key \in Keys
      BY <1>3, <2>1 DEF Forget, GiveUp, Done
    <3>2. /\ handler'[attempt.key].phase = "done"
          /\ \A j \in Keys : j # attempt.key => handler'[j] = handler[j]
      BY <3>1, DoneIs, BecomesIs DEF TakenInv, ComposerInv
    <3> QED
      BY <2>1, <3>2 DEF Forget, GiveUp
  <2>2. CASE ~(attempt.key # 0 /\ handler[attempt.key].phase = "failed")
    BY <2>2 DEF Forget
  <2> QED
    BY <2>1, <2>2
<1>5. attempt'.key = 0
  BY <1>4 DEF NoAttempt
<1>6. accepted' # 0 =>
        record'[accepted'] = AllRequest /\ Cared(accepted)' /\ handler'[accepted'].phase = "done"
  <2> SUFFICES ASSUME NEW k \in Keys, k = accepted, k = accepted', k # 0
               PROVE  record'[k] = AllRequest /\ Cared(k)' /\ handler'[k].phase = "done"
    BY <1>3
  <2>1. record[k] = AllRequest /\ Cared(k) /\ handler[k].phase = "done"
    BY DEF TakenInv, ConfirmedKept
  <2>2. handler'[k] = handler[k]
    BY <1>4, <2>1
  <2> QED
    BY <1>2, <1>4, <2>1, <2>2, CaredStays
<1>7. \A k \in Keys : handler'[k].phase = "unused" => record'[k] = None
  BY <1>2, <1>4 DEF TakenInv, ConfirmedKept
<1>8. ConfirmedKept'
  BY <1>5, <1>6, <1>7 DEF ConfirmedKept
<1> QED
  BY <1>1, <1>8 DEF TakenInv

LEMMA QuietTakes ==
  ASSUME TakenInv, ComposerInv', UNCHANGED <<attempt, accepted, vars>>
  PROVE  TakenInv'
<1>1. UNCHANGED <<delivery, record, work, faults, handler>> /\ ServerWaits
  BY DEF vars, store, ServerWaits
<1>2. RowsKept'
  BY <1>1, ClientRows
<1>3. attempt' = attempt /\ accepted' = accepted
  OBVIOUS
<1>4. \A k \in Keys : Cared(k) => Cared(k)'
  BY <1>1, CaredStays
<1>5. attempt.key \in Keys \cup {0} /\ accepted \in Keys \cup {0}
  BY TypesAre DEF TakenInv, ComposerInv, Shown, ComposerTypeOK
<1>6. ConfirmedKept'
  BY <1>1, <1>3, <1>4, <1>5 DEF TakenInv, ConfirmedKept
<1> QED
  BY <1>2, <1>6 DEF TakenInv

LEMMA ConfirmTakes ==
  ASSUME TakenInv, ConfirmSend
  PROVE  TakenInv'
<1>1. ComposerInv' /\ ServerWaits /\ UNCHANGED <<accepted, faults>> /\ accepted = 0
  BY ConfirmKeeps DEF TakenInv, ConfirmSend, CanConfirmSend
<1>2. RowsKept'
  BY <1>1, ClientRows
<1>3. UNCHANGED <<delivery, record, work>>
  BY <1>1 DEF ServerWaits, store
<1> DEFINE Asked == [Unused EXCEPT !.phase = "asked", !.request = AllRequest]
<1>4. PICK k \in AttemptKeys : attempt' = [draft |-> draft, key |-> k] /\ Becomes(k, Asked)
  BY DEF ConfirmSend, Becomes, AllRequest
<1>5. k \in Keys /\ record[k] \in {None, AllRequest}
  <2>1. CASE attempt.draft = draft
    <3>1. k = attempt.key /\ draft # "none"
      BY <1>4, <2>1 DEF AttemptKeys, ConfirmSend, CanConfirmSend
    <3>2. attempt.key \in Keys /\ attempt.key # 0
      BY <2>1, <3>1, TypesAre DEF TakenInv, ComposerInv, Shown
    <3> QED
      BY <3>1, <3>2 DEF TakenInv, ConfirmedKept
  <2>2. CASE attempt.draft # draft
    BY <1>4, <2>2 DEF AttemptKeys, NewKey, TakenInv, ConfirmedKept
  <2> QED
    BY <2>1, <2>2
<1>6. Asked \in Handler /\ Asked.phase = "asked" /\ Asked.request = AllRequest
  BY DEF Unused, Handler, HandlerPhase, Request, AllRequest
<1> HIDE DEF Asked
<1>7. handler'[k] = Asked /\ \A j \in Keys : j # k => handler'[j] = handler[j]
  BY <1>4, <1>5, <1>6, BecomesIs DEF TakenInv, ComposerInv
<1>8. attempt'.key = k
  BY <1>4
<1>9. Cared(k)'
  BY <1>6, <1>7 DEF Cared
<1>10. \A j \in Keys : handler'[j].phase = "unused" => record'[j] = None
  BY <1>3, <1>6, <1>7 DEF TakenInv, ConfirmedKept
<1>11. ConfirmedKept'
  BY <1>1, <1>3, <1>5, <1>6, <1>7, <1>8, <1>9, <1>10 DEF ConfirmedKept
<1> QED
  BY <1>1, <1>2, <1>11 DEF TakenInv

LEMMA AnsweredTakes ==
  ASSUME TakenInv, SendAnswered
  PROVE  TakenInv'
<1>1. ComposerInv'
  BY AnsweredKeeps DEF TakenInv
<1>2. UNCHANGED vars
  BY DEF SendAnswered
<1>3. CASE UNCHANGED <<accepted, attempt>>
  BY <1>1, <1>2, <1>3, QuietTakes
<1>4. CASE /\ handler[sending].phase = "done" /\ record[sending] # None
           /\ accepted' = sending /\ attempt' = NoAttempt
  <2>1. UNCHANGED <<delivery, record, work, faults, handler>> /\ ServerWaits
    BY <1>2 DEF vars, store, ServerWaits
  <2>2. RowsKept'
    BY <1>1, <2>1, ClientRows
  <2>3. sending \in Keys /\ sending # 0 /\ attempt.key = sending /\ attempt'.key = 0
    BY <1>4 DEF TakenInv, ComposerInv, Shown, SendingSound, SendAnswered, ComposerTypeOK, NoAttempt
  <2>4. record[sending] = AllRequest /\ Cared(sending)
    BY <1>4, <2>3 DEF TakenInv, ConfirmedKept
  <2>5. PICK k \in Keys : k = sending
    BY <2>3
  <2>6. Cared(k)'
    BY <2>1, <2>4, <2>5, CaredStays
  <2>7. accepted' = k /\ record'[k] = AllRequest /\ handler'[k].phase = "done"
    BY <1>4, <2>1, <2>4, <2>5
  <2>8. \A j \in Keys : handler'[j].phase = "unused" => record'[j] = None
    BY <2>1 DEF TakenInv, ConfirmedKept
  <2>9. ConfirmedKept'
    BY <2>3, <2>6, <2>7, <2>8 DEF ConfirmedKept
  <2> QED
    BY <1>1, <2>2, <2>9 DEF TakenInv
<1> QED
  BY <1>3, <1>4 DEF SendAnswered

LEMMA ElsewhereTakes ==
  ASSUME TakenInv, Elsewhere
  PROVE  TakenInv'
<1>1. ComposerInv' /\ UNCHANGED <<attempt, accepted>>
  BY ElsewhereKeeps DEF TakenInv, Elsewhere, composer
<1>2. PICK k \in Keys : Ask(k)
  BY DEF Elsewhere
<1>3. handler[k].phase = "unused" /\ ServerWaits /\ UNCHANGED <<delivery, record, work, faults>>
  BY <1>2 DEF Ask, ServerWaits, store
<1>4. RowsKept'
  BY <1>1, <1>3, ClientRows
<1>5. PICK r \in Request : Becomes(k, [Unused EXCEPT !.phase = "asked", !.request = r])
  BY <1>2 DEF Ask, Request
<1> DEFINE q == [Unused EXCEPT !.phase = "asked", !.request = r]
<1>6. q \in Handler /\ q.phase = "asked"
  BY DEF Unused, Handler, HandlerPhase
<1> HIDE DEF q
<1>7. Becomes(k, q)
  BY <1>5 DEF q
<1>8. handler'[k].phase = "asked" /\ \A j \in Keys : j # k => handler'[j] = handler[j]
  BY <1>6, <1>7, BecomesIs DEF TakenInv, ComposerInv
<1>9. attempt.key \in Keys \cup {0} /\ accepted \in Keys \cup {0}
  BY TypesAre DEF TakenInv, ComposerInv, Shown, ComposerTypeOK
<1>10. (attempt.key # 0 => attempt.key # k) /\ (accepted # 0 => accepted # k)
  BY <1>3, <1>9 DEF TakenInv, ConfirmedKept
<1>11. \A j \in Keys : j # k /\ Cared(j) => Cared(j)'
  BY <1>3, <1>8, CaredStays
<1>12. attempt' = attempt /\ accepted' = accepted /\ record' = record
  BY <1>1, <1>3
<1>13. ConfirmedKept'
  BY <1>8, <1>9, <1>10, <1>11, <1>12 DEF TakenInv, ConfirmedKept
<1> QED
  BY <1>1, <1>4, <1>13 DEF TakenInv

LEMMA InitTakes == ComposerInit => TakenInv
<1> SUFFICES ASSUME ComposerInit PROVE TakenInv
  OBVIOUS
<1>1. Unused \in Handler /\ Unused.phase = "unused" /\ NoRow \in Delivery
  BY DEF Unused, Handler, HandlerPhase, NoRow, Delivery
<1>2. HandlersTyped /\ \A k \in Keys : handler[k].phase = "unused" /\ record[k] = None
  BY <1>1 DEF ComposerInit, Init, StoreInit, HandlersTyped
<1>3. delivery \in [Deliveries -> Delivery] /\ \A d \in Deliveries : delivery[d].state = "none"
  BY <1>1 DEF ComposerInit, Init, StoreInit, NoRow
<1>4. RowsKept
  BY <1>2, <1>3 DEF RowsKept, ComposerInit, Init, StoreInit, Open
<1>5. ConfirmedKept
  BY <1>2 DEF ComposerInit, ConfirmedKept, NoAttempt
<1> QED
  BY <1>4, <1>5, InitInv DEF TakenInv

LEMMA StepTakes == TakenInv /\ [ComposerNext]_allVars => TakenInv'
<1> SUFFICES ASSUME TakenInv, [ComposerNext]_allVars PROVE TakenInv'
  OBVIOUS
<1>1. ComposerInv'
  BY StepInv DEF TakenInv
<1>2. CASE UserStep
  <2>1. CASE Load \/ \E d \in Drafts \cup {"none"} : Edit(d)
    BY <1>1, <2>1, ForgetTakes DEF Load, Edit
  <2>2. CASE RefreshPreview
    BY <1>1, <2>2, QuietTakes DEF RefreshPreview
  <2> QED
    BY <1>2, <2>1, <2>2, ConfirmTakes DEF UserStep
<1>3. CASE Arrives
  <2>1. CASE \E c \in calls : TemplatesArrive(c) \/ PreviewArrives(c)
    BY <1>1, <2>1, QuietTakes DEF TemplatesArrive, PreviewArrives
  <2> QED
    BY <1>3, <2>1, AnsweredTakes DEF Arrives
<1>4. CASE UNCHANGED allVars
  BY <1>1, <1>4, QuietTakes DEF allVars, composer
<1> QED
  BY <1>2, <1>3, <1>4, ElsewhereTakes, ServerTakes DEF ComposerNext

(* An accepted batch is the user's, and every mail of it that waits has a   *)
(* message, unless a worker lost one: however the broker failed or the API  *)
(* died before, and however often its request was repeated                  *)
(* (enqueue_send_batch, confirmSend).                                       *)
THEOREM AcceptedBatchesAreTaken == ComposerSpec => []AcceptedIsTaken
<1>1. ComposerSpec => []TakenInv
  BY InitTakes, StepTakes, PTL DEF ComposerSpec
<1>2. TakenInv => AcceptedIsTaken
  <2> SUFFICES ASSUME TakenInv, accepted # 0
               PROVE  /\ record[accepted] = AllRequest
                      /\ faults \cap Losing = {} =>
                           \A d \in Of(accepted) : delivery[d].state = "queued" => Messages(d) # {}
    BY DEF AcceptedIsTaken, AllRequest
  <2>1. record[accepted] = AllRequest /\ Cared(accepted) /\ handler[accepted].phase = "done"
    BY DEF TakenInv, ConfirmedKept
  <2>2. AllRequest # None
    BY DEF AllRequest, None
  <2> QED
    BY <2>1, <2>2 DEF Cared
<1> QED
  BY <1>1, <1>2, PTL

-----------------------------------------------------------------------------
(* The composer is a client of Outreach *)

(* What the handlers leave to the client: a request has failed with nothing *)
(* left to be sent, or has been recorded; and when no answer is awaited,    *)
(* the attempt is a request that failed.                                    *)
HandlersEnd ==
  /\ \A k \in Keys : /\ handler[k].phase = "failed" => handler[k].left = {}
                     /\ handler[k].phase = "send" => record[k] # None
                     /\ handler[k].phase \in Alive => handler[k].request # None
  /\ sending # 0 /\ handler[sending].phase = "done" => record[sending] # None
  /\ sending = 0 /\ attempt.key # 0 => handler[attempt.key].phase = "failed"

ClientInv == TakenInv /\ HandlersEnd

(* A handler's step, as its client will see it.                             *)
Ends(k) ==
  \/ handler'[k] = handler[k]
  \/ handler'[k].phase = "failed" /\ handler'[k].left = {}
  \/ handler'[k].phase \in {"send", "done"} /\ record'[k] # None /\ handler[k].phase # "failed"

LEMMA FailedEnds ==
  ASSUME HandlersTyped, NEW k \in Keys, Failed(k)
  PROVE  \A j \in Keys : Ends(j)
<1> DEFINE q == [handler[k] EXCEPT !.phase = "failed", !.left = {}]
<1>1. q \in Handler /\ q.phase = "failed" /\ q.left = {}
  BY DEF HandlersTyped, Handler, HandlerPhase
<1>2. Becomes(k, q)
  BY DEF Failed
<1> HIDE DEF q
<1> QED
  BY <1>1, <1>2, BecomesIs DEF Ends

LEMMA DispatchEnds ==
  ASSUME HandlersTyped, NEW k \in Keys, handler[k].phase \in {"asked", "send"},
         NEW left \in SUBSET Deliveries, Dispatch(k, left), record'[k] # None
  PROVE  \A j \in Keys : Ends(j)
<1>1. CASE left = {}
  <2> DEFINE q == [Unused EXCEPT !.phase = "done"]
  <2>1. q \in Handler /\ q.phase = "done" /\ Becomes(k, q)
    BY <1>1, DoneIs DEF Dispatch, Done
  <2> HIDE DEF q
  <2> QED
    BY <2>1, BecomesIs DEF Ends
<1>2. CASE left # {}
  BY <1>2, DispatchIs DEF Ends
<1> QED
  BY <1>1, <1>2

LEMMA ServerEnds ==
  ASSUME ClientInv, ServerStep
  PROVE  \A j \in Keys : Ends(j)
<1>0. HandlersTyped /\ RowsKept
  BY DEF ClientInv, TakenInv, ComposerInv
<1>1. ASSUME NEW k \in Keys, Execute(k) PROVE \A j \in Keys : Ends(j)
  <2>1. handler[k].phase = "asked" /\ handler[k].request \in Request \cup {None}
    BY <1>0, <1>1 DEF Execute, Replayed, HandlersTyped, Handler
  <2>2. CASE record[k] = handler[k].request /\ UNCHANGED store
             /\ Dispatch(k, {d \in Of(k) : Claimable(d)})
    <3>1. record'[k] # None
      BY <2>1, <2>2 DEF store, ClientInv, HandlersEnd, Alive
    <3> QED
      BY <1>0, <2>1, <2>2, <3>1, DispatchEnds DEF Of
  <2>3. CASE Perform(k, handler[k].request)
             /\ Dispatch(k, {d \in Deliveries : delivery'[d].batch = k})
    <3>1. record'[k] = handler[k].request /\ handler[k].request \in Request
      BY <1>0, <2>1, <2>3, PerformIs DEF RowsKept
    <3>2. record'[k] # None
      BY <3>1 DEF Request, None
    <3> QED
      BY <1>0, <2>1, <2>3, <3>2, DispatchEnds
  <2>4. CASE Refuse(k)
    BY <1>0, <2>4, FailedEnds DEF Refuse
  <2> QED
    BY <1>1, <2>2, <2>3, <2>4 DEF Execute, Replayed
<1>2. ASSUME NEW k \in Keys, Send(k) PROVE \A j \in Keys : Ends(j)
  <2>1. /\ handler[k].phase = "send" /\ handler[k].left \in SUBSET Deliveries
        /\ record'[k] = record[k] /\ record[k] # None
    BY <1>0, <1>2 DEF Send, store, HandlersTyped, Handler, ClientInv, HandlersEnd
  <2>2. PICK d \in handler[k].left : Dispatch(k, handler[k].left \ {d}) \/ Failed(k)
    BY <1>2 DEF Send
  <2> QED
    BY <1>0, <2>1, <2>2, DispatchEnds, FailedEnds
<1>3. ASSUME NEW k \in Keys, Crash(k) PROVE \A j \in Keys : Ends(j)
  BY <1>0, <1>3, FailedEnds DEF Crash
<1>4. CASE UNCHANGED handler
  BY <1>4 DEF Ends
<1> QED
  BY <1>1, <1>2, <1>3, <1>4 DEF ServerStep, ApiStep, WorkerStep, Disturbance, Answer

(* While the server is at work the composer stays. *)
LEMMA ServerEnding ==
  ASSUME ClientInv, Server
  PROVE  HandlersEnd'
<1>1. \A k \in Keys : Ends(k) /\ Moves(k)
  BY ServerEnds, ServerMoves DEF Server, ClientInv, TakenInv, ComposerInv
<1>2. \A k \in Keys : record[k] # None => record'[k] = record[k]
  BY ServerCares DEF Server, ClientInv, TakenInv, RecordsMove
<1>3. attempt' = attempt /\ sending' = sending
  BY DEF Server, composer
<1>4. attempt.key \in Keys \cup {0} /\ sending \in Keys \cup {0}
  BY TypesAre DEF ClientInv, TakenInv, ComposerInv, Shown, ComposerTypeOK
<1>5. ASSUME NEW k \in Keys
      PROVE  /\ handler'[k].phase = "failed" => handler'[k].left = {}
             /\ handler'[k].phase = "send" => record'[k] # None
             /\ handler'[k].phase \in Alive => handler'[k].request # None
  BY <1>1, <1>2 DEF Ends, Moves, Alive, ClientInv, HandlersEnd
<1>6. sending' # 0 /\ handler'[sending'].phase = "done" => record'[sending'] # None
  BY <1>1, <1>2, <1>3, <1>4 DEF Ends, ClientInv, HandlersEnd
<1>7. sending' = 0 /\ attempt'.key # 0 => handler'[attempt'.key].phase = "failed"
  BY <1>1, <1>3, <1>4 DEF Moves, ClientInv, HandlersEnd
<1> QED
  BY <1>5, <1>6, <1>7 DEF HandlersEnd

(* The composer leaves the handlers alone. *)
LEMMA QuietEnding ==
  ASSUME ClientInv, UNCHANGED <<attempt, sending, vars>>
  PROVE  HandlersEnd'
<1>1. UNCHANGED <<handler, record, attempt, sending>>
  BY DEF vars, store
<1> QED
  BY <1>1 DEF ClientInv, HandlersEnd

(* Who changes the draft gives a failed request up, or has none.            *)
LEMMA ForgetEnding ==
  ASSUME ClientInv, sending = 0, UNCHANGED sending, Forget, ServerWaits
  PROVE  HandlersEnd' /\ (UNCHANGED vars \/ \E k \in Keys : Abandon(k))
<1>1. attempt.key \in Keys \cup {0} /\ 0 \notin Keys /\ record' = record
  BY TypesAre DEF ClientInv, TakenInv, ComposerInv, Shown, ServerWaits, store
<1>2. attempt'.key = 0 /\ HandlersTyped
  BY DEF Forget, NoAttempt, ClientInv, TakenInv, ComposerInv
<1>3. CASE attempt.key # 0 /\ handler[attempt.key].phase = "failed"
  <2>1. PICK k \in Keys : k = attempt.key
    BY <1>1, <1>3
  <2>2. GiveUp(k)
    BY <1>3, <2>1 DEF Forget
  <2>3. Abandon(k)
    BY <1>3, <2>1, <2>2 DEF Abandon, ServerWaits
  <2>4. handler'[k].phase = "done" /\ \A j \in Keys : j # k => handler'[j] = handler[j]
    BY <1>2, <2>2, DoneIs, BecomesIs DEF GiveUp, Done
  <2>5. HandlersEnd'
    BY <1>1, <1>2, <2>4 DEF ClientInv, HandlersEnd, Alive
  <2> QED
    BY <2>3, <2>5
<1>4. CASE ~(attempt.key # 0 /\ handler[attempt.key].phase = "failed")
  <2>1. UNCHANGED <<handler, faults>>
    BY <1>4 DEF Forget
  <2>2. UNCHANGED vars
    BY <2>1 DEF vars, ServerWaits
  <2>3. HandlersEnd'
    BY <1>1, <1>2, <2>1 DEF ClientInv, HandlersEnd
  <2> QED
    BY <2>2, <2>3
<1> QED
  BY <1>3, <1>4

(* A confirmation asks for the first time, or again.                        *)
LEMMA ConfirmEnding ==
  ASSUME ClientInv, ConfirmSend
  PROVE  HandlersEnd' /\ \E k \in Keys : Ask(k) \/ Repeat(k)
<1> DEFINE Asked == [Unused EXCEPT !.phase = "asked", !.request = AllRequest]
<1>0. /\ TakenInv /\ sending = 0 /\ draft # "none" /\ HandlersTyped /\ ComposerTypeOK
      /\ UNCHANGED <<store, work, mailbox, told, faults>> /\ UNCHANGED record
  BY DEF ClientInv, TakenInv, ComposerInv, Shown, ConfirmSend, CanConfirmSend, ServerWaits, store
<1>1. PICK k \in AttemptKeys :
        /\ attempt' = [draft |-> draft, key |-> k] /\ sending' = k /\ Becomes(k, Asked)
  BY DEF ConfirmSend, Becomes, AllRequest
<1>2. Asked \in Handler /\ Asked.phase = "asked" /\ Asked.request = AllRequest /\ Asked.left = {}
  BY DEF Unused, Handler, HandlerPhase, Request, AllRequest
<1>3. ASSUME attempt.draft = draft PROVE k \in Keys /\ Repeat(k)
  <2>1. k = attempt.key /\ k # 0 /\ k \in Keys
    BY <1>0, <1>1, <1>3, TypesAre DEF AttemptKeys
  <2>2. handler[k].phase = "failed" /\ handler[k].left = {} /\ handler[k].request = AllRequest
    BY <1>0, <2>1 DEF ClientInv, HandlersEnd, TakenInv, ConfirmedKept, Alive
  <2>3. handler[k] \in Handler
    BY <1>0, <2>1 DEF HandlersTyped
  <2>4. Asked = [handler[k] EXCEPT !.phase = "asked"]
    <3> DEFINE q == [phase |-> "asked", request |-> AllRequest, left |-> {}]
    <3> HIDE DEF Asked
    <3>1. Asked = q
      BY <1>2 DEF Handler
    <3>2. [handler[k] EXCEPT !.phase = "asked"] = q
      BY <2>2, <2>3 DEF Handler
    <3> QED
      BY <3>1, <3>2
  <2>5. Repeat(k)
    BY <1>0, <1>1, <2>2, <2>4 DEF Repeat
  <2> QED
    BY <2>1, <2>5
<1>4. ASSUME attempt.draft # draft PROVE k \in Keys /\ Ask(k)
  <2>1. k \in NewKey
    BY <1>1, <1>4 DEF AttemptKeys
  <2>2. /\ k \in Keys /\ handler[k].phase = "unused"
        /\ \A j \in Keys : j < k => handler[j].phase # "unused"
    BY <2>1 DEF NewKey
  <2>3. AllRequest \in [kind : {"create"}, creators : (SUBSET Creators) \ {{}}]
    BY SomebodyIsWrittenTo DEF AllRequest
  <2>4. Ask(k)
    BY <1>0, <1>1, <2>2, <2>3 DEF Ask
  <2> QED
    BY <2>2, <2>4
<1>5. k \in Keys /\ k # 0 /\ (Ask(k) \/ Repeat(k))
  BY <1>3, <1>4, KeysAreNumbers
<1> HIDE DEF Asked
<1>6. handler'[k] = Asked /\ \A j \in Keys : j # k => handler'[j] = handler[j]
  BY <1>0, <1>1, <1>2, <1>5, BecomesIs
<1>7. AllRequest # None
  BY DEF AllRequest, None
<1>8. HandlersEnd'
  BY <1>0, <1>1, <1>2, <1>5, <1>6, <1>7 DEF ClientInv, HandlersEnd
<1> QED
  BY <1>5, <1>8

(* The answer is a record, which is accepted, or an error, which leaves the *)
(* attempt with a request that failed.                                      *)
LEMMA AnsweredEnding ==
  ASSUME ClientInv, SendAnswered
  PROVE  HandlersEnd' /\ UNCHANGED vars
<1>1. UNCHANGED <<handler, record, vars>> /\ sending' = 0 /\ sending # 0
  BY DEF SendAnswered, vars, store
<1>2. attempt.key = sending
  BY <1>1 DEF ClientInv, TakenInv, ComposerInv, Shown, SendingSound
<1>3. CASE handler[sending].phase = "done" /\ record[sending] # None
  <2>1. attempt'.key = 0
    BY <1>3 DEF SendAnswered, NoAttempt
  <2> QED
    BY <1>1, <2>1 DEF ClientInv, HandlersEnd
<1>4. CASE ~(handler[sending].phase = "done" /\ record[sending] # None)
  <2>1. attempt' = attempt /\ handler[sending].phase = "failed"
    BY <1>1, <1>4 DEF SendAnswered, ClientInv, HandlersEnd
  <2> QED
    BY <1>1, <1>2, <2>1 DEF ClientInv, HandlersEnd
<1> QED
  BY <1>3, <1>4

LEMMA ElsewhereEnding ==
  ASSUME ClientInv, Elsewhere
  PROVE  HandlersEnd' /\ \E k \in Keys : Ask(k)
<1>1. PICK k \in Keys : Ask(k)
  BY DEF Elsewhere
<1>2. /\ record' = record /\ attempt' = attempt /\ sending' = sending
      /\ handler[k].phase = "unused" /\ HandlersTyped
  BY <1>1 DEF Ask, store, Elsewhere, composer, ClientInv, TakenInv, ComposerInv
<1>3. PICK r \in Request : Becomes(k, [Unused EXCEPT !.phase = "asked", !.request = r])
  BY <1>1 DEF Ask, Request
<1> DEFINE q == [Unused EXCEPT !.phase = "asked", !.request = r]
<1>4. q \in Handler /\ q.phase = "asked" /\ q.request = r
  BY DEF Unused, Handler, HandlerPhase
<1>5. r # None
  BY DEF Request, None
<1>6. Becomes(k, q)
  BY <1>3
<1> HIDE DEF q
<1>7. handler'[k] = q /\ \A j \in Keys : j # k => handler'[j] = handler[j]
  BY <1>2, <1>4, <1>6, BecomesIs
<1>8. attempt.key \in Keys \cup {0} /\ sending \in Keys \cup {0}
  BY TypesAre DEF ClientInv, TakenInv, ComposerInv, Shown, ComposerTypeOK
<1>9. \A j \in Keys : /\ handler'[j].phase = "failed" => handler'[j].left = {}
                      /\ handler'[j].phase = "send" => record'[j] # None
                      /\ handler'[j].phase \in Alive => handler'[j].request # None
  BY <1>2, <1>4, <1>5, <1>7 DEF ClientInv, HandlersEnd
<1>10. sending' # 0 /\ handler'[sending'].phase = "done" => record'[sending'] # None
  BY <1>2, <1>4, <1>7, <1>8 DEF ClientInv, HandlersEnd
<1>11. sending' = 0 /\ attempt'.key # 0 => handler'[attempt'.key].phase = "failed"
  BY <1>2, <1>7, <1>8 DEF ClientInv, HandlersEnd
<1>12. HandlersEnd'
  BY <1>9, <1>10, <1>11 DEF HandlersEnd
<1> QED
  BY <1>1, <1>12

LEMMA InitClient == ComposerInit => ClientInv
<1> SUFFICES ASSUME ComposerInit PROVE ClientInv
  OBVIOUS
<1>1. \A k \in Keys : handler[k].phase = "unused"
  BY DEF ComposerInit, Init, Unused
<1>2. HandlersEnd
  BY <1>1 DEF HandlersEnd, ComposerInit, NoAttempt, Alive
<1> QED
  BY <1>2, InitTakes DEF ClientInv

(* Each step of the composer is one of a client of Outreach, or none.       *)
LEMMA StepClient == ClientInv /\ [ComposerNext]_allVars => ClientInv' /\ [Next]_vars
<1> SUFFICES ASSUME ClientInv, [ComposerNext]_allVars PROVE HandlersEnd' /\ [Next]_vars
  BY StepTakes DEF ClientInv
<1>1. CASE UserStep
  <2>1. CASE Load \/ \E d \in Drafts \cup {"none"} : Edit(d)
    BY <2>1, ForgetEnding DEF Load, Edit, UserMay, Next, ClientStep
  <2>2. CASE RefreshPreview
    BY <2>2, QuietEnding DEF RefreshPreview
  <2>3. CASE ConfirmSend
    BY <2>3, ConfirmEnding DEF Next, ClientStep
  <2> QED
    BY <1>1, <2>1, <2>2, <2>3 DEF UserStep
<1>2. CASE Arrives
  <2>1. CASE \E c \in calls : TemplatesArrive(c) \/ PreviewArrives(c)
    BY <2>1, QuietEnding DEF TemplatesArrive, PreviewArrives
  <2>2. CASE SendAnswered
    BY <2>2, AnsweredEnding
  <2> QED
    BY <1>2, <2>1, <2>2 DEF Arrives
<1>3. CASE Elsewhere
  BY <1>3, ElsewhereEnding DEF Next, ClientStep
<1>4. CASE Server
  BY <1>4, ServerEnding DEF Server, Next
<1>5. CASE UNCHANGED allVars
  BY <1>5, QuietEnding DEF allVars, composer
<1> QED
  BY <1>1, <1>2, <1>3, <1>4, <1>5 DEF ComposerNext

(* The composer asks, repeats and gives up as a client of Outreach may: a   *)
(* confirmation is a new request or repeats the one that failed, and only a *)
(* failed one is given up.  What is proved of Outreach holds of its mail    *)
(* (confirmSend, invalidateComposition).                                    *)
THEOREM ComposerIsAClient == ComposerSpec => Spec
<1>1. ComposerInit => Init
  BY DEF ComposerInit
<1> QED
  BY <1>1, InitClient, StepClient, PTL DEF ComposerSpec, Spec

=============================================================================
