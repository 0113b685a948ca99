---------------------------- MODULE MatchWorkers ----------------------------
(***************************************************************************)
(* The Celery graph that carries one Match Task from creation to            *)
(* publication, over the transactions of MatchStore: the API that creates   *)
(* and retries it, the four kinds of worker message (start, one pairwise    *)
(* job per creator, advance, finalize_ranking), the model provider they     *)
(* call between two transactions, Celery's retries, and the broker.         *)
(*                                                                          *)
(* A message and the worker that holds it are one record of `work`: "queued" *)
(* in the broker, any other phase in a worker.  The broker acknowledges     *)
(* late, so a message is redelivered when its worker is lost and a second   *)
(* copy may run beside the first.  A send that follows a commit in the same *)
(* handler is part of the action that commits, since it only adds a         *)
(* message; the faults below say how it may go wrong instead.               *)
(***************************************************************************)
EXTENDS MatchStore

CONSTANTS
  MaxRetries,       \* RetryPolicy.max_retries
  MaxResumes,       \* bound: how often the user retries the task
  MaxFaults,        \* bound: how many faults a behaviour has
  Faults,           \* the kinds of fault that happen, a subset of FaultKinds
  ProviderFailures  \* how a model call may fail, a subset of Failures

FaultKinds == {"lost worker",      \* a worker dies holding a message
               "redelivery",       \* the broker hands out a held message again
               "database",         \* a transaction raises SQLAlchemyError
               "retry broker",     \* Celery cannot publish a retry
               "api broker",       \* send_task raises in the API
               "pair broker",      \* ... while start sends the pairwise jobs
               "advance broker",   \* ... while a pairwise job sends advance
               "ranking broker",   \* ... while advance sends finalize_ranking
               "api crash"}        \* the API dies between commit and send

Steps == {"start", "advance", "rank"}
Jobs  == Steps \cup {"api"} \cup Creators  \* a creator is its pairwise job

ASSUME JobsAreDistinct == Creators \cap (Steps \cup {"api"}) = {}
ASSUME BoundsAreNat ==
  MaxRetries \in Nat /\ MaxResumes \in Nat /\ MaxFaults \in Nat
ASSUME KindsAreKnown == Faults \subseteq FaultKinds /\ ProviderFailures \subseteq Failures

VARIABLES
  work,     \* the messages, each with the phase of the worker that holds it
  resumes,  \* retries asked for by the user
  faults    \* faults that have happened

vars == <<store, work, resumes, faults>>

(* Phases after "queued": the provider is called outside any transaction;   *)
(* start then prepares; advance or the API undoes a send that raised;       *)
(* "retryable" and "permanent" are a handler about to record that failure   *)
(* (_handle_failure).                                                       *)
Phases == {"queued", "called", "prepare", "undo"} \cup Failures

Item == [job : Jobs, phase : Phases, tries : 0..MaxRetries, copy : {1, 2}]

(* The columns, rows and messages have the shapes declared for them; in     *)
(* particular no message is retried beyond the policy's budget.             *)
WorkersTypeOK ==
  /\ TypeOK
  /\ work \in SUBSET Item
  /\ resumes \in 0..MaxResumes /\ faults \in 0..MaxFaults

New(job) == [job |-> job, phase |-> "queued", tries |-> 0, copy |-> 1]

Ack(i)          == work' = work \ {i}
Send(i, jobs)   == work' = (work \ {i}) \cup {New(j) : j \in jobs}
Move(i, phase)  == work' = (work \ {i}) \cup {[i EXCEPT !.phase = phase]}

(* A handler raised a failure of this kind: Celery retries a retryable one  *)
(* while the budget lasts, any other is recorded by Record.                 *)
AfterRaise(i, failure) ==
  IF failure = "retryable" /\ i.tries < MaxRetries
    THEN [i EXCEPT !.phase = "queued", !.tries = @ + 1]
    ELSE [i EXCEPT !.phase = failure]

Raise(i, failure) ==
  work' = (work \ {i}) \cup {AfterRaise(i, failure)} /\ UNCHANGED store

Fault(kind) ==
  kind \in Faults /\ faults < MaxFaults /\ faults' = faults + 1

Sound == UNCHANGED <<resumes, faults>>

-----------------------------------------------------------------------------
(* The API *)

(* The committed task is handed to the broker.  When send_task raises, the  *)
(* message may have reached the broker all the same, and the API goes on to *)
(* write the queue failure.                                                 *)
Dispatch(job) ==
  \/ work' = work \cup {New(job)} /\ UNCHANGED faults
  \/ /\ Fault("api broker")
     /\ \E sent \in {{}, {New(job)}} :
          work' = work \cup sent \cup {[New("api") EXCEPT !.phase = "undo"]}
  \/ Fault("api crash") /\ UNCHANGED work

CreateMatch ==
  /\ \E eligible \in SUBSET Creators : CreateLockedTask(eligible)
  /\ Dispatch("start")
  /\ UNCHANGED resumes

RetryMatch ==
  /\ resumes < MaxResumes /\ resumes' = resumes + 1
  /\ \/ ResumeInPlace /\ Dispatch(IF task.stage = "ranking" THEN "rank" ELSE "start")
     \/ Supersede /\ UNCHANGED <<work, faults>>

RecordQueueFailure(i) ==
  /\ i.job = "api"
  /\ MarkQueueFailure /\ Ack(i) /\ Sound

-----------------------------------------------------------------------------
(* start_match_task *)

StartLoads(i) ==
  /\ i.job = "start" /\ i.phase = "queued" /\ Sound
  /\ \/ LoadScreening /\ Move(i, "called")
     \/ /\ AlreadyScreened /\ UNCHANGED store
        /\ IF selected = {} THEN Ack(i) ELSE Move(i, "prepare")
     \/ ~Screenable /\ ~AlreadyScreened /\ Raise(i, "retryable")

StartScreens(i) ==
  /\ i.job = "start" /\ i.phase = "called" /\ Sound
  /\ \/ \E chosen \in SUBSET screened :
          ApplyScreening(chosen) /\ IF chosen = {} THEN Ack(i) ELSE Move(i, "prepare")
     \/ /\ SelectionKept /\ UNCHANGED store
        /\ IF selected = {} THEN Ack(i) ELSE Move(i, "prepare")
     \/ ~Selectable /\ ~SelectionKept /\ Raise(i, "retryable")

StartPrepares(i) ==
  /\ i.job = "start" /\ i.phase = "prepare"
  /\ \/ Prepare /\ Send(i, Unfinished) /\ Sound
     \/ NothingToPrepare /\ Ack(i) /\ UNCHANGED store /\ Sound
     \/ ~Preparable /\ ~NothingToPrepare /\ Raise(i, "permanent") /\ Sound
     \* the broker or the worker fails after some of the pairwise jobs were sent
     \/ /\ Prepare /\ UNCHANGED resumes
        /\ \E sent \in SUBSET Unfinished :
             \/ /\ Fault("pair broker")
                /\ work' = (work \ {i}) \cup {New(c) : c \in sent}
                             \cup {AfterRaise(i, "retryable")}
             \/ /\ Fault("lost worker")
                /\ work' = (work \ {i}) \cup {New(c) : c \in sent}
                             \cup {[i EXCEPT !.phase = "queued"]}

-----------------------------------------------------------------------------
(* run_pairwise_match; c is i.job *)

(* dispatch_advance, the last step of run_pair.  A message sent before the  *)
(* worker is lost or the broker raises is the first disjunct followed by a  *)
(* redelivery, so here nothing is sent.                                     *)
SendAdvance(i) ==
  /\ UNCHANGED resumes
  /\ \/ Send(i, {"advance"}) /\ UNCHANGED faults
     \/ /\ Fault("advance broker")
        /\ work' = (work \ {i}) \cup {AfterRaise(i, "retryable")}
     \/ Fault("lost worker") /\ Move(i, "queued")

PairClaims(i) ==
  /\ i.job \in Creators /\ i.phase = "queued"
  /\ \/ Claim(i.job) /\ Move(i, "called") /\ Sound
     \/ pair[i.job] = "succeeded" /\ UNCHANGED store /\ SendAdvance(i)
     \/ ClaimIsTerminal(i.job) /\ Ack(i) /\ UNCHANGED store /\ Sound
     \/ /\ pair[i.job] # "succeeded" /\ ~ClaimIsTerminal(i.job) /\ ~Claimable(i.job)
        /\ Raise(i, "permanent") /\ Sound

PairApplies(i) ==
  /\ i.job \in Creators /\ i.phase = "called"
  /\ \/ ApplySuccess(i.job) /\ SendAdvance(i)
     \/ pair[i.job] = "succeeded" /\ UNCHANGED store /\ SendAdvance(i)
     \/ /\ pair[i.job] # "succeeded" /\ ~SuccessApplicable(i.job)
        /\ Raise(i, "permanent") /\ Sound

-----------------------------------------------------------------------------
(* advance_match_task *)

AdvanceMarks(i) ==
  /\ i.job = "advance" /\ i.phase = "queued" /\ UNCHANGED resumes
  /\ \/ MarkRankingEnqueued /\ Send(i, {"rank"}) /\ UNCHANGED faults
     \/ /\ MarkRankingEnqueued /\ Fault("ranking broker")
        /\ \E sent \in {{}, {New("rank")}} :
             work' = (work \ {i}) \cup sent \cup {[i EXCEPT !.phase = "undo"]}
     \/ MarkRankingEnqueued /\ Fault("lost worker") /\ UNCHANGED work
     \/ ~RankingDue /\ Ack(i) /\ UNCHANGED <<store, faults>>

(* The compensation commits, then advance raises match_queue_unavailable.   *)
AdvanceCompensates(i) ==
  /\ i.job = "advance" /\ i.phase = "undo" /\ Sound
  /\ CompensateRankingEnqueue
  /\ work' = (work \ {i}) \cup {AfterRaise(i, "retryable")}

-----------------------------------------------------------------------------
(* finalize_match_ranking *)

RankLoads(i) ==
  /\ i.job = "rank" /\ i.phase = "queued" /\ Sound
  /\ \/ Rankable /\ Move(i, "called") /\ UNCHANGED store
     \/ Published /\ Ack(i) /\ UNCHANGED store
     \/ ~Rankable /\ ~Published /\ Raise(i, "permanent")

RankPublishes(i) ==
  /\ i.job = "rank" /\ i.phase = "called" /\ Sound
  /\ \/ Publish /\ Ack(i)
     \/ Published /\ Ack(i) /\ UNCHANGED store
     \/ ~Publishable /\ ~Published /\ Raise(i, "permanent")

-----------------------------------------------------------------------------
(* Failures *)

ProviderFails(i) ==
  /\ i.phase = "called" /\ Sound
  /\ i.job = "start" => screened # {}
  /\ \E failure \in ProviderFailures : Raise(i, failure)

(* _handle_failure's last step: the failure becomes the pair's, or the task's. *)
RecordFailure(i) ==
  /\ i.job # "api" /\ i.phase \in Failures /\ Sound
  /\ IF i.job \in Creators THEN FailPair(i.job, i.phase) ELSE FailTask(i.phase)
  /\ Ack(i)

(* A transaction raises SQLAlchemyError.  When it is the one that records a *)
(* failure, the message is retried whatever the failure, or given up.       *)
DatabaseFails(i) ==
  /\ i.job # "api" /\ Fault("database") /\ UNCHANGED <<store, resumes>>
  /\ IF i.phase \in Failures /\ i.tries = MaxRetries
       THEN Ack(i)
       ELSE work' = (work \ {i}) \cup {AfterRaise(i, "retryable")}

(* Celery rejects a message whose retry it cannot publish.                  *)
RetryLost(i) ==
  /\ i.phase = "called" /\ i.tries < MaxRetries
  /\ Fault("retry broker") /\ Ack(i) /\ UNCHANGED <<store, resumes>>

WorkerLost(i) ==
  /\ i.phase # "queued" /\ Fault("lost worker") /\ UNCHANGED <<store, resumes>>
  /\ IF i.job = "api" THEN Ack(i) ELSE Move(i, "queued")

Redeliver(i) ==
  /\ i.job # "api" /\ i.phase # "queued"
  /\ Fault("redelivery") /\ UNCHANGED <<store, resumes>>
  /\ work' = work \cup {[i EXCEPT !.phase = "queued", !.copy = 3 - @]}

-----------------------------------------------------------------------------
(* The hourly retention task, and the clock *)

Retention == (InputsExpire \/ PurgeInputs) /\ UNCHANGED <<work, resumes, faults>>

WorkerStep(i) ==
  \/ RecordQueueFailure(i)
  \/ StartLoads(i) \/ StartScreens(i) \/ StartPrepares(i)
  \/ PairClaims(i) \/ PairApplies(i)
  \/ AdvanceMarks(i) \/ AdvanceCompensates(i)
  \/ RankLoads(i) \/ RankPublishes(i)
  \/ ProviderFails(i) \/ RecordFailure(i)

Disturbance(i) == DatabaseFails(i) \/ RetryLost(i) \/ WorkerLost(i) \/ Redeliver(i)

Init == StoreInit /\ work = {} /\ resumes = 0 /\ faults = 0

Next ==
  \/ CreateMatch \/ RetryMatch \/ Retention
  \/ \E i \in work : WorkerStep(i) \/ Disturbance(i)

Spec == Init /\ [][Next]_vars

(* Celery's workers keep consuming while there is a message to consume, and *)
(* a handler runs to its end unless a fault stops it.                       *)
FairSpec == Spec /\ WF_vars(\E i \in work : WorkerStep(i))

-----------------------------------------------------------------------------
(* Properties *)

(* A Match publishes either a complete result or none: result rows and the  *)
(* one campaign exist exactly when the task succeeded, for exactly the      *)
(* selected creators, each with a checkpointed brief.                       *)
PublishedWhole ==
  IF task.status = "succeeded"
    THEN campaigns = 1 /\ results = selected /\ selected = SucceededIn(pair)
    ELSE campaigns = 0 /\ results = {}

(* Final ranking runs only over a complete set of briefs: whenever the task *)
(* is in stage RANKING, or a worker is calling the model to rank it, every  *)
(* selected pair has succeeded and its snapshot is untouched, whatever      *)
(* failures, compensations and retries came in between.                     *)
RankingComplete ==
  /\ task.ranked <=> task.stage = "ranking"
  /\ \/ task.stage = "ranking"
     \/ \E i \in work : i.job = "rank" /\ i.phase = "called"
     => AllPairsSucceeded

(* While the API shows a failed Match as retryable, and its inputs have not *)
(* expired, the retry it invites is not refused with 409: the checkpoint it *)
(* would resume from is valid.                                              *)
RetryNeverRefused ==
  RetryOffered /\ ~task.expired => Resumable

(* The error a failed Match reports is that of its pairs as they are now:   *)
(* after an error copied from the pairs some pair is still failed, and a    *)
(* retry is offered exactly when every failed pair is retryable; a running  *)
(* Match holds no permanently failed pair.                                  *)
FailureAccounted ==
  /\ task.status = "failed" /\ task.cause = "pairs" =>
       /\ FailedIn(pair) # {}
       /\ task.retryable <=> \A c \in FailedIn(pair) : pair[c] = "retryable"
  /\ task.status = "running" => \A c \in Creators : pair[c] # "permanent"

(* What completed_units and total_units count in each stage.                *)
UnitsCounted ==
  /\ task.status = "succeeded" => task.units = task.total
  /\ task.status # "succeeded" /\ task.stage = "screening" => task.units = 0 /\ task.total = 0
  /\ task.status # "succeeded" /\ task.stage # "screening" =>
       /\ task.units = 1 + Cardinality(SucceededIn(pair)) /\ task.units <= task.total
       /\ task.total = Cardinality(selected) + 2

(* completed_units counts what is checkpointed, through duplicates, late    *)
(* successes and a compensated ranking: it never exceeds total_units and    *)
(* never counts a pair twice.  So no read of a Match is refused as invalid, *)
(* and one that says no creator is suitable is of a screening that chose    *)
(* none.                                                                    *)
ProgressExact ==
  /\ UnitsCounted /\ DetailIsValid
  /\ ResultState = "no_suitable_creators" => selected = {}

(* The worker graph implements the lifecycle a client is promised.          *)
Lifecycle == INSTANCE MatchLifecycle
  WITH status <- task.status, offered <- task.retryable, chosen <- selected,
       finished <- SucceededIn(pair)

ImplementsLifecycle == Lifecycle!Spec

(* The screening and the pairwise half of a Match always come to an end,    *)
(* whatever the model answers and however often messages are repeated: the  *)
(* task ends, or every selected pair is checkpointed.  (The other half does *)
(* not: see Settles.)                                                       *)
PairsSettle ==
  task.status \in {"queued", "running"} /\ ~AllPairsSucceeded
    ~> task.status \notin {"queued", "running"} \/ AllPairsSucceeded

(* Every created Match comes to an end, or to a failure the user can see,   *)
(* once its worker has been restarted.                                      *)
Settles ==
  task.status \in {"queued", "running"} ~> task.status \notin {"queued", "running"}

(* A Match the user has retried runs to an end of some kind.                *)
RetriedMatchSettles ==
  task.status = "running" /\ resumes > 0 ~> task.status # "running"

(* A Match whose model calls only ever fail transiently stays retryable     *)
(* when it fails ("Failed tasks display a safe explanation and can retry    *)
(* from a sensible checkpoint").                                            *)
TransientFailuresStayRetryable ==
  task.status = "failed" => task.retryable
=============================================================================
