----------------------------- MODULE MatchStore -----------------------------
(***************************************************************************)
(* The PostgreSQL side of one Match Task: the columns of its match_tasks    *)
(* row, its screening, candidate and pairwise rows, its published result    *)
(* rows and its Outreach Campaign.  Every operator of the second half is    *)
(* one database transaction of backend/app (row locks make each atomic); a  *)
(* transaction that raises is described by the condition under which it     *)
(* does not, so the worker that runs it (module MatchWorkers) decides what  *)
(* a refusal means.                                                         *)
(*                                                                          *)
(* Briefs, prompts, scores and error texts are abstracted: a checkpointed   *)
(* brief is the state "succeeded" of its pair, and of an error the model    *)
(* keeps where it came from (cause) and whether it may be retried.          *)
(***************************************************************************)
EXTENDS Integers, FiniteSets

CONSTANT Creators       \* the Creator Profiles that may be eligible

ASSUME CreatorsAreFinite == IsFiniteSet(Creators)

VARIABLES
  task,        \* the match_tasks row; status "none" before it is created
  screened,    \* creators with a match_screening_records row
  selected,    \* the screening rows with selected = true
  candidates,  \* creators with a match_candidate_inputs row
  pair,        \* match_pairwise_records: the state of each creator's row
  results,     \* creators with a match_result_items row
  campaigns    \* number of outreach_campaigns rows of the task

store == <<task, screened, selected, candidates, pair, results, campaigns>>
inputs == <<screened, selected, candidates>>
publication == <<results, campaigns>>

Status == {"none", "queued", "running", "succeeded", "failed", "superseded"}
Stage  == {"screening", "pairwise", "ranking"}

(* A pairwise row in state FAILED is "retryable" or "permanent", after its  *)
(* retryable column; "absent" is a row not yet inserted by prepare.         *)
Failures  == {"retryable", "permanent"}
PairState == {"absent", "queued", "running", "succeeded"} \cup Failures

(* Where error_code, error_message and completed_at of a failed task were   *)
(* written: by the API when the broker refused, by fail_task, or copied     *)
(* from the failed pairwise rows.                                           *)
Cause == {"none", "queue", "task", "pairs"}

Task == [status    : Status,
         stage     : Stage,
         cause     : Cause,
         retryable : BOOLEAN,
         units     : Nat,      \* completed_units
         total     : Nat,      \* total_units
         ranked    : BOOLEAN,  \* ranking_enqueued_at is not null
         live      : BOOLEAN,  \* the locked input snapshots are not purged
         expired   : BOOLEAN]  \* input_expires_at <= now

TypeOK ==
  /\ task \in Task
  /\ screened \in SUBSET Creators
  /\ selected \in SUBSET Creators
  /\ candidates \in SUBSET Creators
  /\ pair \in [Creators -> PairState]
  /\ results \in SUBSET Creators
  /\ campaigns \in Nat

StoreInit ==
  /\ task = [status |-> "none", stage |-> "screening", cause |-> "none",
             retryable |-> FALSE, units |-> 0, total |-> 0, ranked |-> FALSE,
             live |-> FALSE, expired |-> FALSE]
  /\ screened = {} /\ selected = {} /\ candidates = {}
  /\ pair = [c \in Creators |-> "absent"]
  /\ results = {} /\ campaigns = 0

Least(m, n) == IF m < n THEN m ELSE n

Rows == {c \in Creators : pair[c] # "absent"}
SucceededIn(p) == {c \in Creators : p[c] = "succeeded"}
FailedIn(p)    == {c \in Creators : p[c] \in Failures}

-----------------------------------------------------------------------------
(* Creation and screening *)

CreateLockedTask(eligible) ==
  /\ task.status = "none"
  /\ task' = [task EXCEPT !.status = "queued", !.live = TRUE]
  /\ screened' = eligible
  /\ candidates' = eligible
  /\ UNCHANGED <<selected, pair, publication>>

Screenable ==
  /\ task.status \in {"queued", "running"} /\ task.stage = "screening"
  /\ task.live /\ candidates = screened

AlreadyScreened ==
  /\ task.status \notin {"none", "failed", "superseded"}
  /\ task.stage # "screening" \/ task.status = "succeeded"
  /\ task.live

LoadScreening ==
  /\ Screenable
  /\ task' = [task EXCEPT !.status = "running"]
  /\ UNCHANGED <<inputs, pair, publication>>

(* Mutant: a repeated selection is applied again. *)
SelectableTwice == task.status \in {"queued", "running"} /\ task.stage # "ranking"

(* apply_screening_output does not look at the snapshots: it applies a      *)
(* selection made from what LoadScreening read.                             *)
Selectable == task.status \in {"queued", "running"} /\ task.stage = "screening"

SelectionKept == task.stage # "screening" \/ task.status = "succeeded"

ApplyScreening(chosen) ==
  /\ Selectable
  /\ selected' = chosen
  /\ candidates' = candidates \cap chosen
  /\ IF chosen # {}
       THEN /\ task' = [task EXCEPT !.status = "running", !.stage = "pairwise",
                                    !.units = 1, !.total = Cardinality(chosen) + 2]
            /\ UNCHANGED campaigns
       ELSE /\ task' = [task EXCEPT !.status = "succeeded", !.units = 1, !.total = 1]
            /\ campaigns' = IF campaigns = 0 THEN 1 ELSE campaigns
  /\ UNCHANGED <<screened, pair, results>>

-----------------------------------------------------------------------------
(* Pairwise checkpoints *)

(* The snapshot of the selection is whole and every selected creator has a  *)
(* checkpointed brief: what mark_ranking_enqueued and the ranking           *)
(* repository require before they look at the task's own columns.           *)
AllPairsSucceeded ==
  /\ selected # {} /\ candidates = selected /\ Rows = selected
  /\ task.total = Cardinality(selected) + 2
  /\ \A c \in selected : pair[c] = "succeeded"

Preparable ==
  /\ task.status = "running" /\ task.stage = "pairwise"
  /\ candidates = selected /\ Rows \subseteq selected

NothingToPrepare ==
  \/ task.status = "succeeded"
  \/ /\ task.status = "running" /\ task.stage = "ranking" /\ task.ranked
     /\ candidates = selected /\ Rows = selected
     /\ \A c \in selected : pair[c] = "succeeded"

(* Mutant: prepare returns only the rows that were never run. *)
UnfinishedNeverRun == {c \in selected : pair[c] \in {"absent", "queued"}}

Unfinished == {c \in selected : pair[c] # "succeeded"}

Prepare ==
  /\ Preparable
  /\ pair' = [c \in Creators |-> IF c \in selected \ Rows THEN "queued" ELSE pair[c]]
  /\ UNCHANGED <<task, inputs, publication>>

(* Mutant: one retryable row makes the task retryable. *)
FailedByAnyPair(p) ==
  [task EXCEPT !.status = "failed", !.cause = "pairs",
               !.retryable = \E c \in FailedIn(p) : p[c] = "retryable"]

(* recompute_pair_failure_task: the task as the failed rows of p leave it.  *)
FailedByPairs(p) ==
  [task EXCEPT !.status = "failed", !.cause = "pairs",
               !.retryable = \A c \in FailedIn(p) : p[c] = "retryable"]

ClaimIsTerminal(c) == task.status = "failed" /\ pair[c] \in Failures

Claimable(c) ==
  /\ task.status = "running" /\ task.stage = "pairwise" /\ task.live
  /\ pair[c] \in {"queued", "running", "retryable"}
  /\ c \in selected \cap candidates

Claim(c) ==
  /\ Claimable(c)
  /\ pair' = [pair EXCEPT ![c] = "running"]
  /\ UNCHANGED <<task, inputs, publication>>

SuccessApplicable(c) ==
  /\ pair[c] \in {"running"} \cup Failures
  /\ task.status \in {"running", "failed"} /\ task.stage = "pairwise"

(* Mutant: the failed rows are counted before the success is flushed, and a *)
(* late success does not hand the task back.                                *)
ApplySuccessKeepsFailure(c) ==
  /\ SuccessApplicable(c)
  /\ pair' = [pair EXCEPT ![c] = "succeeded"]
  /\ task' = [task EXCEPT
                !.units = Least(1 + Cardinality(SucceededIn(pair')), task.total)]
  /\ UNCHANGED <<inputs, publication>>

ApplySuccess(c) ==
  LET after   == [pair EXCEPT ![c] = "succeeded"]
      owned   == /\ task.status = "failed" /\ task.cause = "pairs"
                 /\ pair[c] \in Failures
      settled == IF FailedIn(after) # {} THEN FailedByPairs(after)
                 ELSE IF owned
                   THEN [task EXCEPT !.status = "running", !.cause = "none",
                                     !.retryable = FALSE]
                 ELSE task
  IN /\ SuccessApplicable(c)
     /\ pair' = after
     /\ task' = [settled EXCEPT
                   !.units = Least(1 + Cardinality(SucceededIn(after)), task.total)]
     /\ UNCHANGED <<inputs, publication>>

(* fail_pair returns False, changing nothing, for a missing or a succeeded  *)
(* row; it leaves a superseded or succeeded task's own columns alone.       *)
FailPair(c, failure) ==
  LET after == [pair EXCEPT ![c] = failure]
  IN IF pair[c] \in {"absent", "succeeded"}
       THEN UNCHANGED store
       ELSE /\ pair' = after
            /\ task' = IF task.status \in {"succeeded", "superseded"}
                         THEN task ELSE FailedByPairs(after)
            /\ UNCHANGED <<inputs, publication>>

FailTask(failure) ==
  /\ task' = IF task.status \in {"none", "succeeded", "superseded", "failed"}
               THEN task
               ELSE [task EXCEPT !.status = "failed", !.cause = "task",
                                 !.retryable = (failure = "retryable")]
  /\ UNCHANGED <<inputs, pair, publication>>

-----------------------------------------------------------------------------
(* Ranking and publication *)

(* Mutant: the readiness check looks at the task only. *)
RankingDueUnchecked ==
  task.status = "running" /\ task.stage = "pairwise" /\ ~task.ranked

RankingDue ==
  /\ task.status = "running" /\ task.stage = "pairwise" /\ ~task.ranked
  /\ AllPairsSucceeded

MarkRankingEnqueued ==
  /\ RankingDue
  /\ task' = [task EXCEPT !.stage = "ranking", !.ranked = TRUE,
                          !.units = Cardinality(selected) + 1]
  /\ UNCHANGED <<inputs, pair, publication>>

(* Mutant: compensation counts the pairs that are still to be ranked. *)
CompensateWithoutUnits ==
  /\ task' = IF task.status = "running" /\ task.stage = "ranking" /\ task.ranked
               THEN [task EXCEPT !.stage = "pairwise", !.ranked = FALSE,
                       !.units = Least(Cardinality(SucceededIn(pair)), task.total)]
               ELSE task
  /\ UNCHANGED <<inputs, pair, publication>>

CompensateRankingEnqueue ==
  /\ task' = IF task.status = "running" /\ task.stage = "ranking" /\ task.ranked
               THEN [task EXCEPT !.stage = "pairwise", !.ranked = FALSE,
                       !.units = Least(1 + Cardinality(SucceededIn(pair)), task.total)]
               ELSE task
  /\ UNCHANGED <<inputs, pair, publication>>

Published == AllPairsSucceeded /\ task.status = "succeeded"

Rankable ==
  /\ AllPairsSucceeded
  /\ task.status = "running" /\ task.stage = "ranking" /\ task.ranked

(* Mutant: publish does not see that it was done by another delivery. *)
PublishableAgain ==
  AllPairsSucceeded /\ task.stage = "ranking" /\ task.ranked

(* publish, unlike load, also accepts a task that failed while the model    *)
(* was ranking.                                                             *)
Publishable ==
  /\ AllPairsSucceeded
  /\ task.status \in {"running", "failed"} /\ task.stage = "ranking" /\ task.ranked

Publish ==
  /\ Publishable
  /\ results' = selected
  /\ campaigns' = campaigns + 1
  /\ task' = [task EXCEPT !.status = "succeeded", !.cause = "none",
                          !.retryable = FALSE, !.units = task.total]
  /\ UNCHANGED <<inputs, pair>>

-----------------------------------------------------------------------------
(* Retry, broker failure seen by the API, and retention *)

RetryOffered == task.status = "failed" /\ task.retryable

(* _required_resume_stage answers rather than raising 409. *)
Resumable ==
  /\ task.live
  /\ \/ task.stage = "screening"
     \/ /\ task.stage = "pairwise"
        /\ selected # {} /\ candidates = selected
        /\ \A c \in Creators : pair[c] # "permanent"
     \/ /\ task.stage = "ranking"
        /\ selected # {} /\ candidates = selected /\ Rows = selected
        /\ \A c \in selected : pair[c] = "succeeded"

ResumeInPlace ==
  /\ RetryOffered /\ ~task.expired /\ Resumable
  /\ task' = [task EXCEPT !.status = "running", !.cause = "none", !.retryable = FALSE]
  /\ UNCHANGED <<inputs, pair, publication>>

Supersede ==
  /\ RetryOffered /\ task.expired
  /\ task' = [task EXCEPT !.status = "superseded", !.retryable = FALSE]
  /\ UNCHANGED <<inputs, pair, publication>>

MarkQueueFailure ==
  /\ task' = IF task.status \in {"queued", "running"}
               THEN [task EXCEPT !.status = "failed", !.cause = "queue",
                                 !.retryable = TRUE]
               ELSE task
  /\ UNCHANGED <<inputs, pair, publication>>

InputsExpire ==
  /\ task.status # "none" /\ ~task.expired
  /\ task' = [task EXCEPT !.expired = TRUE]
  /\ UNCHANGED <<inputs, pair, publication>>

PurgeInputs ==
  /\ task.status \in {"succeeded", "failed", "superseded"}
  /\ task.expired /\ task.live
  /\ task' = [task EXCEPT !.live = FALSE]
  /\ UNCHANGED <<inputs, pair, publication>>

-----------------------------------------------------------------------------
(* What the API shows of a Match *)

(* project_match_summary and project_match_detail answer, rather than raise *)
(* match_state_invalid or match_result_invalid.  (result_count is the       *)
(* number of the result rows, since publish writes both.)                   *)
SummaryIsValid == task.units <= task.total /\ Cardinality(results) <= task.total
DetailIsValid  == SummaryIsValid /\ (task.status = "succeeded" => campaigns = 1)

ResultState ==
  IF task.status # "succeeded" THEN "pending"
  ELSE IF results = {} THEN "no_suitable_creators" ELSE "available"
=============================================================================
