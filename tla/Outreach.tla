------------------------------ MODULE Outreach ------------------------------
(***************************************************************************)
(* How Outreach mail is asked for, dispatched, sent and answered: clients   *)
(* that keep an Idempotency-Key until they have an answer, the API's        *)
(* handlers, which commit a batch and then send one message for each of its *)
(* deliveries, Celery's workers, the mail server, and creators who follow a *)
(* link.  The transactions are those of OutreachStore.                      *)
(*                                                                          *)
(* A handler is split where another transaction may run in between.  A      *)
(* message and the worker that holds it are one record of `work`.           *)
(***************************************************************************)
EXTENDS OutreachStore

CONSTANTS
  Copies,            \* bound: the messages a delivery may have at a time
  MaxRetries,        \* RetryPolicy.max_retries
  MaxFaults,         \* bound: how many faults a behaviour has
  Faults             \* the kinds of fault that happen, a subset of FaultKinds

FaultKinds == {"lost worker",     \* a worker dies holding a message
               "redelivery",      \* the broker hands out a held message again
               "database",        \* a transaction of a worker raises
               "retry broker",    \* Celery cannot publish a retry
               "api broker",      \* apply_async raises in the API
               "api crash",       \* the API dies while it handles a request
               "abandoned"}       \* a client forgets the key of a failed request
                                  \* of which something was written

(* After these a delivery may be left queued or sending for ever. *)
Stranding == {"lost worker", "database", "retry broker", "abandoned"}

ASSUME CopiesExist == Copies # {}
ASSUME BoundsAreNat == MaxRetries \in Nat /\ MaxFaults \in Nat
ASSUME FaultsAreKnown == Faults \subseteq FaultKinds

VARIABLES
  handler,  \* for each key, the client's request and the API's handling of it
  work,     \* the messages, each with the phase of the worker that holds it
  mailbox,  \* the deliveries whose mail the mail server has accepted
  told,     \* for each delivery, the acceptances a worker has been told of
  faults    \* the kinds of fault that have happened

vars == <<store, handler, work, mailbox, told, faults>>

(* A request is executed ("asked"), sends what is queued of its batch       *)
(* ("send"), and is answered ("done").  When it has failed the client keeps *)
(* its key to ask again.                                                    *)
HandlerPhase == {"unused", "asked", "send", "failed", "done"}
Handler == [phase : HandlerPhase, request : Request \cup {None}, left : SUBSET Deliveries]

(* A worker that has claimed a delivery talks to the mail server            *)
(* ("claimed") and then marks the outcome: "accepted", "refused" for good,  *)
(* or "transient".                                                          *)
Owning == {"claimed", "accepted", "refused", "transient"}
Phases == {"queued"} \cup Owning

Item == [delivery : Deliveries, copy : Copies, phase : Phases, tries : 0..MaxRetries]

Unused == [phase |-> "unused", request |-> None, left |-> {}]

Messages(d) == {i \in work : i.delivery = d}

(* Rows, requests and messages have the shapes declared for them, and no    *)
(* message is retried beyond the policy's budget.                           *)
OutreachTypeOK ==
  /\ StoreTypeOK
  /\ handler \in [Keys -> Handler]
  /\ work \in SUBSET Item
  /\ \A i, j \in work : i.delivery = j.delivery /\ i.copy = j.copy => i = j
  /\ mailbox \in SUBSET Deliveries /\ told \in [Deliveries -> Nat]
  /\ faults \in SUBSET Faults

Init ==
  /\ StoreInit
  /\ handler = [k \in Keys |-> Unused]
  /\ work = {} /\ mailbox = {} /\ told = [d \in Deliveries |-> 0] /\ faults = {}

Fault(kind) ==
  /\ kind \in Faults \ faults /\ Cardinality(faults) < MaxFaults
  /\ faults' = faults \cup {kind}

(* The names that are free for one more message of d.                       *)
FreeCopies(d) == Copies \ {i.copy : i \in Messages(d)}

(* The broker takes a message; beside a full set of others one more adds    *)
(* nothing.                                                                 *)
Put(d) ==
  IF FreeCopies(d) = {} THEN UNCHANGED work
  ELSE \E c \in FreeCopies(d) :
         work' = work \cup {[delivery |-> d, copy |-> c, phase |-> "queued", tries |-> 0]}

-----------------------------------------------------------------------------
(* Clients and the API *)

Becomes(k, q) == handler' = [handler EXCEPT ![k] = q]
Done(k) == Becomes(k, [Unused EXCEPT !.phase = "done"])
Failed(k) == Becomes(k, [handler[k] EXCEPT !.phase = "failed", !.left = {}])

(* A user confirms a batch in the composer, or a resend, under a new key.   *)
Ask(k) ==
  /\ handler[k].phase = "unused" /\ \A j \in Keys : j < k => handler[j].phase # "unused"
  /\ \E r \in [kind : {"create"}, creators : (SUBSET Creators) \ {{}}]
               \cup [kind : {"resend"}, delivery : {d \in Deliveries : Exists(d)}] :
       Becomes(k, [Unused EXCEPT !.phase = "asked", !.request = r])
  /\ UNCHANGED <<store, work, mailbox, told, faults>>

Perform(k, r) ==
  \/ r.kind = "create" /\ CreateSendBatch(k, r.creators)
  \/ r.kind = "resend" /\ ResendDelivery(k, r.delivery)

(* Sends what is left, or answers the client.                               *)
Dispatch(k, left) ==
  IF left = {} THEN Done(k)
               ELSE Becomes(k, [handler[k] EXCEPT !.phase = "send", !.left = left])

(* The composition is not valid now: the SMTP settings, the template, the   *)
(* Match result or a creator's mail addresses have changed.                 *)
Refuse(k) == record[k] = None /\ Failed(k) /\ UNCHANGED store

(* Mutant: a replayed request is answered without dispatching its batch. *)
ExecuteOnce(k) ==
  LET r == handler[k].request
  IN /\ handler[k].phase = "asked"
     /\ \/ record[k] = None /\ Perform(k, r)
           /\ Dispatch(k, {d \in Deliveries : delivery'[d].batch = k})
        \/ Done(k) /\ UNCHANGED store
     /\ UNCHANGED <<work, mailbox, told, faults>>

(* The one transaction of create_batch and resend, and the reading of what  *)
(* is queued of the batch (enqueue_send_batch): nobody else can send what   *)
(* has just been created, and a record does not change, so that the two are *)
(* one step.  A key that has been used dispatches its batch once more.      *)
Execute(k) ==
  LET r == handler[k].request
  IN /\ handler[k].phase = "asked"
     /\ \/ /\ Replayed(k, r) /\ UNCHANGED store
           /\ Dispatch(k, {d \in Of(k) : Claimable(d)})
        \/ /\ record[k] = None /\ Perform(k, r)
           /\ Dispatch(k, {d \in Deliveries : delivery'[d].batch = k})
        \/ Refuse(k)
     /\ UNCHANGED <<work, mailbox, told, faults>>

(* A send that raises may have reached the broker all the same.             *)
Send(k) ==
  /\ handler[k].phase = "send"
  /\ \E d \in handler[k].left :
       \/ Put(d) /\ Dispatch(k, handler[k].left \ {d}) /\ UNCHANGED faults
       \/ Fault("api broker") /\ (Put(d) \/ UNCHANGED work) /\ Failed(k)
  /\ UNCHANGED <<store, mailbox, told>>

Crash(k) ==
  /\ handler[k].phase \in {"asked", "send"}
  /\ Fault("api crash") /\ Failed(k)
  /\ UNCHANGED <<store, work, mailbox, told>>

(* The client asks again with the key it has kept, or has forgotten it.     *)
Repeat(k) ==
  /\ handler[k].phase = "failed" /\ Becomes(k, [handler[k] EXCEPT !.phase = "asked"])
  /\ UNCHANGED <<store, work, mailbox, told, faults>>

(* The user goes on to something else: it is a fault if mail of the request *)
(* has been written and may wait for a repetition.                          *)
GiveUp(k) ==
  /\ Done(k)
  /\ IF record[k] = None THEN UNCHANGED faults
     ELSE "abandoned" \in Faults /\ faults' = faults \cup {"abandoned"}

Abandon(k) ==
  /\ handler[k].phase = "failed" /\ GiveUp(k)
  /\ UNCHANGED <<store, work, mailbox, told>>

ApiStep(k) == Execute(k) \/ Send(k)

-----------------------------------------------------------------------------
(* send_delivery *)

Ack(i) == work' = work \ {i}
Move(i, phase) == work' = (work \ {i}) \cup {[i EXCEPT !.phase = phase]}

Claims(i) ==
  /\ i.phase = "queued"
  /\ \/ Claim(i.delivery) /\ Move(i, "claimed")
     \/ ~Claimable(i.delivery) /\ Ack(i) /\ UNCHANGED store
  /\ UNCHANGED <<mailbox, told>>

Accept(d) == mailbox' = mailbox \cup {d}

(* Settings, the rate limiter and the mail server.  A connection that is    *)
(* lost late leaves the mail accepted and the worker with a transient       *)
(* error.                                                                   *)
Sends(i) ==
  LET d == i.delivery
  IN /\ i.phase = "claimed"
     /\ \/ Accept(d) /\ told' = [told EXCEPT ![d] = @ + 1] /\ Move(i, "accepted")
        \/ Move(i, "refused") /\ UNCHANGED <<mailbox, told>>
        \/ Move(i, "transient") /\ UNCHANGED told /\ (Accept(d) \/ UNCHANGED mailbox)
     /\ UNCHANGED store

MarksOutcome(i) ==
  /\ \/ i.phase = "accepted" /\ MarkSent(i.delivery)
     \/ i.phase = "refused" /\ MarkFailed(i.delivery, FALSE)
     \/ i.phase = "transient" /\ i.tries = MaxRetries /\ MarkFailed(i.delivery, TRUE)
  /\ Ack(i) /\ UNCHANGED <<mailbox, told>>

(* After a transient failure the delivery is released and the message is    *)
(* published once more; Celery rejects one that it cannot publish, and a    *)
(* worker lost in between has its message handed out again.                 *)
Releases(i) ==
  /\ i.phase = "transient" /\ i.tries < MaxRetries
  /\ ReleaseForRetry(i.delivery)
  /\ \/ /\ work' = (work \ {i}) \cup {[i EXCEPT !.phase = "queued", !.tries = @ + 1]}
        /\ UNCHANGED faults
     \/ Fault("retry broker") /\ Ack(i)
     \/ Fault("lost worker") /\ Move(i, "queued")
  /\ UNCHANGED <<mailbox, told>>

WorkerStep(i) ==
  /\ \/ (Claims(i) \/ Sends(i) \/ MarksOutcome(i)) /\ UNCHANGED faults
     \/ Releases(i)
  /\ UNCHANGED handler

-----------------------------------------------------------------------------
(* What may happen to a message and its worker *)

(* A transaction that raises ends the message: only a delivery error is     *)
(* retried.  (The settings are read where every error counts as one.)       *)
DatabaseFails(i) ==
  /\ Fault("database") /\ i.phase # "claimed" /\ Ack(i)

WorkerLost(i) == Fault("lost worker") /\ i.phase # "queued" /\ Move(i, "queued")

Redeliver(i) ==
  /\ Fault("redelivery") /\ i.phase # "queued"
  /\ \E c \in FreeCopies(i.delivery) :
       work' = work \cup {[i EXCEPT !.phase = "queued", !.copy = c]}

Disturbance(i) ==
  /\ DatabaseFails(i) \/ WorkerLost(i) \/ Redeliver(i)
  /\ UNCHANGED <<store, handler, mailbox, told>>

-----------------------------------------------------------------------------
(* A creator who has a mail follows its link and confirms a choice; a link  *)
(* that offers none changes nothing.                                        *)
Answer(d) ==
  /\ d \in mailbox
  /\ \E choice \in Choice : ConfirmResponse(d, choice)
  /\ UNCHANGED <<handler, work, mailbox, told, faults>>

ClientStep(k) == Ask(k) \/ Repeat(k) \/ Abandon(k)

ServerStep ==
  \/ \E k \in Keys : ApiStep(k) \/ Crash(k)
  \/ \E i \in work : WorkerStep(i) \/ Disturbance(i)
  \/ \E d \in Deliveries : Answer(d)

Next == ServerStep \/ \E k \in Keys : ClientStep(k)

Spec == Init /\ [][Next]_vars

(* Handlers run to their end and workers keep consuming.  Nobody has to ask *)
(* again.                                                                   *)
Fairness == WF_vars(\E k \in Keys : ApiStep(k)) /\ WF_vars(\E i \in work : WorkerStep(i))

-----------------------------------------------------------------------------
(* Properties *)

(* A creator who has been written to has exactly one current delivery, the  *)
(* last, whatever batches, resends and repeated requests overlap: the       *)
(* partial unique index is never what refuses a commit.                     *)
OneCurrentDelivery ==
  \A d \in Deliveries :
    Exists(d) => (Current(d) <=> \A e \in History(d[1]) : Exists(e) => e[2] <= d[2])

(* However often a message is repeated, retried or handed out again, at     *)
(* most one worker is between the claim of a delivery and its outcome, and  *)
(* what it sends is a current delivery to a creator who has not answered.   *)
OneSender ==
  \A i \in work : i.phase \in Owning =>
    /\ Sending(i.delivery) /\ response[i.delivery[1]].state = "none"
    /\ \A j \in Messages(i.delivery) : j.phase \in Owning => i = j

(* The mail server tells of a delivery's acceptance once at most: a mail is *)
(* repeated only when its acceptance was never heard of.  A delivery is     *)
(* "sent" exactly when that was heard and recorded, and never "failed".     *)
AcceptanceIsFinal ==
  \A d \in Deliveries :
    /\ told[d] <= 1
    /\ delivery[d].state = "sent" => told[d] = 1
    /\ told[d] = 1 =>
         \/ delivery[d].state = "sent"
         \/ delivery[d].state = "sending"
              /\ \A i \in Messages(d) : i.phase \in Owning => i.phase = "accepted"

(* As long as nothing happened that strands it, every delivery that has not *)
(* ended is being taken further: by a message, by the handler of its batch, *)
(* or by the client that still holds the key of that batch.                 *)
NothingStranded ==
  faults \cap Stranding = {} =>
    \A d \in Deliveries :
      /\ delivery[d].state = "sending" => \E i \in Messages(d) : i.phase \in Owning
      /\ delivery[d].state = "queued" =>
           \/ Messages(d) # {}
           \/ LET q == handler[delivery[d].batch]
              IN q.phase \in {"asked", "failed"} \/ d \in q.left

(* An answer came by the creator's last delivery, which has been sent, and  *)
(* nothing is sent to a creator who has answered.  A link that offers a     *)
(* choice is the only one that does, and no other mail is on its way.       *)
AnswerIsLast ==
  \A d \in Deliveries :
    /\ response[d[1]].by = d[2] => Current(d) /\ delivery[d].state = "sent"
    /\ delivery[d].response # "none" =>
         response[d[1]] = [state |-> delivery[d].response, by |-> d[2]]
    /\ (Link(d) = "confirm" \/ response[d[1]].state # "none") =>
         \A e \in History(d[1]) :
           /\ delivery[e].state \notin {"queued", "sending"}
           /\ e # d => Link(e) # "confirm"

(* What users read is true: the state of a batch is that of its deliveries, *)
(* every answer is counted among the creators written to, and a campaign    *)
(* reported as completed or failed has no worker sending.                   *)
CampaignIsTrue ==
  LET report == CampaignSummary
      metrics == report.metrics
  IN /\ CampaignIsValid
     /\ \A k \in Keys : batch[k] # "none" => batch[k] = Summary({delivery[d].state : d \in Of(k)})
     /\ metrics.accepted + metrics.declined = Cardinality({c \in Creators : Confirmed({c})})
     /\ metrics.sent + metrics.failed <= Cardinality({c \in Creators : Prior({c})})
     /\ report.state \in {"completed", "failed"} => \A i \in work : i.phase \notin Owning

(* A delivery names its successor exactly when it has been superseded, and  *)
(* shows an error only when nobody can have read of its acceptance.  The    *)
(* resend it offers is not refused, and finds no worker sending to its      *)
(* creator.                                                                 *)
DeliveryIsTrue(d) ==
  LET shown == DeliveryDetail(d)
  IN /\ shown.is_current <=> shown.superseded_by = {}
     /\ shown.smtp_error # {} => told[d] = 0
     /\ shown.can_resend =>
          /\ Resendable(d)
          /\ \A i \in work : i.phase \in Owning => i.delivery[1] # d[1]

(* What users read of the campaign and of its deliveries is true. *)
ReportsAreTrue == CampaignIsTrue /\ \A d \in Deliveries : Exists(d) => DeliveryIsTrue(d)

Open(d) == delivery[d].state \in {"queued", "sending"}

(* Batches, messages and workers implement what creators are promised.      *)
Mail == INSTANCE CreatorMail WITH
  letters <- [c \in Creators |-> Cardinality({d \in History(c) : Exists(d)})],
  trying <- [c \in Creators |-> \E d \in History(c) : Open(d)],
  answer <- response

ImplementsMail == Mail!Spec
=============================================================================
