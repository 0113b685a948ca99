--------------------------- MODULE OutreachStore ---------------------------
(***************************************************************************)
(* The Outreach rows of one campaign, whose Match has succeeded: its send   *)
(* batches, deliveries and responses, and the transactions on them.  Each   *)
(* operator below is one transaction of app/outreach or                     *)
(* app/workers/outreach_tasks.py.                                           *)
(*                                                                          *)
(* A delivery is named by its creator and its number among the deliveries   *)
(* of that creator: a resend replaces number n by n + 1.  A batch is named  *)
(* by the Idempotency-Key of the request that created it, since a key       *)
(* creates one batch at most.                                               *)
(***************************************************************************)
EXTENDS Integers, FiniteSets

CONSTANTS
  Creators,       \* the creators of the Match result
  MaxSends,       \* bound: deliveries a creator may have
  Keys            \* Idempotency-Keys, numbered in the order clients make them

ASSUME SendsAreCounted == MaxSends \in Nat \ {0}
ASSUME CreatorsAreFinite == IsFiniteSet(Creators)
ASSUME KeysAreNumbers == Keys \subseteq Nat \ {0}

VARIABLES
  delivery,       \* the deliveries
  batch,          \* the state of the send batch of each key
  response,       \* campaign_creator_responses: choice and the delivery it came by
  record          \* the request each used key stands for (idempotency record)

store == <<delivery, batch, response, record>>

Deliveries == Creators \X (1..MaxSends)
History(c) == {d \in Deliveries : d[1] = c}

SendState == {"queued", "sending", "sent", "failed"}
BatchState == {"queued", "sending", "sent", "partially_failed", "failed"}
Choice == {"accepted", "declined"}

Delivery == [state : SendState \cup {"none"}, retryable : BOOLEAN, superseded : BOOLEAN,
             response : Choice \cup {"none"}, batch : Keys \cup {0}]

Request == [kind : {"create"}, creators : SUBSET Creators]
             \cup [kind : {"resend"}, delivery : Deliveries]
None == [kind |-> "none"]

NoRow == [state |-> "none", retryable |-> FALSE, superseded |-> FALSE,
          response |-> "none", batch |-> 0]
NoResponse == [state |-> "none", by |-> 0]

StoreTypeOK ==
  /\ delivery \in [Deliveries -> Delivery]
  /\ batch \in [Keys -> BatchState \cup {"none"}]
  /\ response \in [Creators -> [state : Choice \cup {"none"}, by : 0..MaxSends]]
  /\ record \in [Keys -> Request \cup {None}]

StoreInit ==
  /\ delivery = [d \in Deliveries |-> NoRow]
  /\ batch = [k \in Keys |-> "none"]
  /\ response = [c \in Creators |-> NoResponse]
  /\ record = [k \in Keys |-> None]

Exists(d) == delivery[d].state # "none"
Current(d) == Exists(d) /\ ~delivery[d].superseded
Of(k) == {d \in Deliveries : delivery[d].batch = k}

-----------------------------------------------------------------------------
(* Creating and resending, under the lock of the key and of the campaign *)

Prior(cs) == \E d \in Deliveries : d[1] \in cs /\ Exists(d)
Confirmed(cs) == \E c \in cs : response[c].state # "none"

Queued(k) == [NoRow EXCEPT !.state = "queued", !.batch = k]

(* _idempotent_replay: key k has been used, for this very request. *)
Replayed(k, r) == record[k] = r
(* _store_batch_idempotency *)
RecordRequest(k, r) == record' = [record EXCEPT ![k] = r]

(* The next free name of a delivery to creator c. *)
FreeName(c) == {d \in History(c) : ~Exists(d) /\ \A e \in History(c) : e[2] < d[2] => Exists(e)}

(* Mutant: an earlier delivery does not stop a new batch. *)
CreatableAgain(cs) == ~Confirmed(cs)

Creatable(cs) == ~Prior(cs) /\ ~Confirmed(cs)

CreateSendBatch(k, cs) ==
  /\ Creatable(cs)
  /\ \A c \in cs : FreeName(c) # {}
  /\ delivery' = [d \in Deliveries |->
                    IF d[1] \in cs /\ d \in FreeName(d[1]) THEN Queued(k) ELSE delivery[d]]
  /\ batch' = [batch EXCEPT ![k] = "queued"]
  /\ RecordRequest(k, [kind |-> "create", creators |-> cs])
  /\ UNCHANGED response

(* Mutant: a delivery that a worker is sending may be resent. *)
ResendableWhileSending(d) ==
  /\ Current(d) /\ delivery[d].state \in {"sending", "sent", "failed"}
  /\ delivery[d].response = "none" /\ response[d[1]].state = "none"

Resendable(d) ==
  /\ Current(d) /\ delivery[d].state \in {"sent", "failed"}
  /\ delivery[d].response = "none" /\ response[d[1]].state = "none"

ResendDelivery(k, d) ==
  /\ Resendable(d)
  /\ \E e \in FreeName(d[1]) :
       delivery' = [delivery EXCEPT ![d].superseded = TRUE, ![e] = Queued(k)]
  /\ batch' = [batch EXCEPT ![k] = "queued"]
  /\ RecordRequest(k, [kind |-> "resend", delivery |-> d])
  /\ UNCHANGED response

-----------------------------------------------------------------------------
(* The transitions of DeliveryTaskStore *)

(* _recompute_batch *)
Summary(states) ==
  IF states = {"queued"} THEN "queued"
  ELSE IF states = {"sent"} THEN "sent"
  ELSE IF states = {"failed"} THEN "failed"
  ELSE IF states \subseteq {"sent", "failed"} THEN "partially_failed"
  ELSE "sending"

Recompute(k) == batch' = [batch EXCEPT ![k] = Summary({delivery'[d].state : d \in Of(k)})]

(* Mutant: the batch is not recomputed. *)
TransitionAlone(d, row) ==
  delivery' = [delivery EXCEPT ![d] = row] /\ UNCHANGED <<batch, response, record>>

Transition(d, row) ==
  /\ delivery' = [delivery EXCEPT ![d] = row]
  /\ Recompute(delivery[d].batch)
  /\ UNCHANGED <<response, record>>

(* Mutants: a delivery is claimed again while it is being sent, or after it
   has ended. *)
ClaimableTwice(d) == Current(d) /\ delivery[d].state \in {"queued", "sending"}
ClaimableEnded(d) == Current(d) /\ delivery[d].state \in {"queued", "sent"}

Claimable(d) == Current(d) /\ delivery[d].state = "queued"
Sending(d) == Current(d) /\ delivery[d].state = "sending"

Claim(d) == Claimable(d) /\ Transition(d, [delivery[d] EXCEPT !.state = "sending"])

(* The other transitions do nothing to a delivery that is not being sent.   *)
IfSending(d, row) == IF Sending(d) THEN Transition(d, row) ELSE UNCHANGED store

(* Mutant: the retry is published without releasing the delivery. *)
ReleaseForgotten(d) == Exists(d) /\ UNCHANGED store

ReleaseForRetry(d) == IfSending(d, [delivery[d] EXCEPT !.state = "queued", !.retryable = FALSE])

MarkSent(d) == IfSending(d, [delivery[d] EXCEPT !.state = "sent", !.retryable = FALSE])

MarkFailed(d, retryable) ==
  IfSending(d, [delivery[d] EXCEPT !.state = "failed", !.retryable = retryable])

-----------------------------------------------------------------------------
(* Responses *)

(* Mutant: the link of a superseded delivery may still be confirmed. *)
EligibleSuperseded(d) == delivery[d].state = "sent" /\ delivery[d].response = "none"

Eligible(d) == Current(d) /\ delivery[d].state = "sent" /\ delivery[d].response = "none"

(* What the page behind a delivery's link offers. *)
Link(d) ==
  IF response[d[1]].state # "none" THEN "final"
  ELSE IF Eligible(d) THEN "confirm" ELSE "inactive"

ConfirmResponse(d, choice) ==
  /\ response[d[1]].state = "none" /\ Eligible(d)
  /\ response' = [response EXCEPT ![d[1]] = [state |-> choice, by |-> d[2]]]
  /\ delivery' = [delivery EXCEPT ![d].response = choice]
  /\ UNCHANGED <<batch, record>>

-----------------------------------------------------------------------------
(* What a campaign reports *)

SentTo(c) == \E d \in History(c) : delivery[d].state = "sent"

(* calculate_campaign_metrics, over _metric_rows *)
Metrics ==
  LET sent == {c \in Creators : SentTo(c)}
      accepted == {c \in sent : response[c].state = "accepted"}
      declined == {c \in sent : response[c].state = "declined"}
      failed == {c \in Creators \ sent :
                   /\ \E d \in History(c) : Current(d) /\ delivery[d].state = "failed"
                   /\ response[c].state = "none"}
  IN [sent |-> Cardinality(sent), accepted |-> Cardinality(accepted),
      declined |-> Cardinality(declined), failed |-> Cardinality(failed),
      no_response |-> Cardinality(sent) - (Cardinality(accepted) + Cardinality(declined))]

(* derive_campaign_state *)
CampaignState ==
  LET current == {delivery[d].state : d \in {e \in Deliveries : Current(e)}}
  IN CASE "sending" \in current -> "sending"
       [] "sending" \notin current /\ "queued" \in current -> "queued"
       [] current \cap {"sending", "queued"} = {} /\ (\E c \in Creators : SentTo(c)) -> "completed"
       [] current = {"failed"} /\ (\A c \in Creators : ~SentTo(c)) -> "failed"
       [] OTHER -> "not_started"

(* _project_campaign_summary *)
CampaignSummary ==
  [state |-> CampaignState, metrics |-> Metrics,
   send_batch_count |-> Cardinality({k \in Keys : batch[k] # "none"})]

(* get_campaign shows every batch by its deliveries, and raises             *)
(* outreach_state_invalid when one has none.                                *)
CampaignIsValid == \A k \in Keys : batch[k] # "none" => Of(k) # {}

(* The delivery that resends d. *)
SupersededBy(d) == {e \in History(d[1]) : Exists(e) /\ e[2] = d[2] + 1}

(* _smtp_error: of a failed delivery, whether another try may succeed. *)
SmtpError(d) == IF delivery[d].state = "failed" THEN {delivery[d].retryable} ELSE {}

(* _project_delivery, of which the client's buttons are made. *)
DeliveryDetail(d) ==
  LET final == response[d[1]].state \in Choice
  IN [superseded_by |-> SupersededBy(d), is_current |-> Current(d),
      can_resend |-> /\ Current(d) /\ delivery[d].state \in {"sent", "failed"}
                     /\ delivery[d].response = "none" /\ ~final,
      smtp_error |-> SmtpError(d)]
=============================================================================
