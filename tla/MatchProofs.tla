----------------------------- MODULE MatchProofs -----------------------------
(***************************************************************************)
(* What TLAPS proves of MatchWorkers, for any finite set of creators, any   *)
(* retry budget and any mixture of faults: that its columns and messages    *)
(* keep their types, that a Match publishes its whole selection or nothing, *)
(* that it is ranked only over a complete set of briefs, that every step of *)
(* the worker graph is a step of MatchLifecycle, and that a Match tells the *)
(* truth about its failures and its progress.                               *)
(***************************************************************************)
EXTENDS MatchWorkers, FiniteSetTheorems, TLAPS

(* What each stage says of the rows: before a selection is applied there is *)
(* none and no pair; after it, the snapshots and the pairwise rows are of   *)
(* the selection; and ranking is reached only with every pair succeeded.    *)
StagesSound ==
  /\ task.status = "none" => task.stage = "screening"
  /\ task.stage = "screening" =>
       /\ selected = {} /\ Rows = {} /\ ~task.ranked
       /\ task.status # "succeeded" => candidates = screened
  /\ task.stage # "screening" =>
       /\ selected # {} /\ candidates = selected /\ Rows \subseteq selected
       /\ task.total = Cardinality(selected) + 2
  /\ task.ranked <=> task.stage = "ranking"
  /\ task.stage = "ranking" => AllPairsSucceeded

(* Only a failed task offers a retry (ck_match_tasks_error_shape). *)
OfferSound == task.retryable => task.status = "failed"

StoreInv == TypeOK /\ StagesSound /\ PublishedWhole /\ OfferSound

(* A worker that has started to rank read a complete set of briefs, and the *)
(* set stays complete, whatever becomes of the task's stage meanwhile.      *)
RankedWhole ==
  \A i \in work : i.job = "rank" /\ i.phase = "called" => AllPairsSucceeded

Begun == task.status \notin {"none", "queued"}

(* A worker that is screening has set the task running. *)
ScreenedBegun ==
  \A i \in work : i.job = "start" /\ i.phase = "called" => Begun

IndInv == WorkersTypeOK /\ StoreInv /\ RankedWhole /\ ScreenedBegun

(* The transactions of MatchStore, without the workers that run them.       *)
StoreStep ==
  \/ \E eligible \in SUBSET Creators : CreateLockedTask(eligible)
  \/ \E chosen \in SUBSET screened : Begun /\ ApplyScreening(chosen)
  \/ \E c \in Creators : Claim(c) \/ ApplySuccess(c)
  \/ \E c \in Creators, failure \in Failures : FailPair(c, failure)
  \/ \E failure \in Failures : FailTask(failure)
  \/ LoadScreening \/ Prepare
  \/ MarkRankingEnqueued \/ CompensateRankingEnqueue \/ Publish
  \/ ResumeInPlace \/ Supersede \/ MarkQueueFailure
  \/ InputsExpire \/ PurgeInputs

-----------------------------------------------------------------------------
(* Sizes are numbers, since there are finitely many creators. *)
LEMMA SizeIsNat ==
  ASSUME NEW S \in SUBSET Creators
  PROVE  Cardinality(S) \in Nat
  BY CreatorsAreFinite, FS_Subset, FS_CardinalityType

(* The units written after a checkpoint are a number. *)
LEMMA UnitsAreNat ==
  ASSUME NEW m \in Nat, NEW n \in Nat
  PROVE  Least(1 + m, n) \in Nat
  BY DEF Least

(* Recording the failed pairs keeps the task's columns well typed. *)
LEMMA FailedByPairsType ==
  ASSUME task \in Task, NEW p
  PROVE  FailedByPairs(p) \in Task
  BY DEF FailedByPairs, Task, Status, Cause

-----------------------------------------------------------------------------
(* Every transaction keeps the types of the columns and rows. *)
LEMMA StoreStepType ==
  ASSUME TypeOK, StoreStep
  PROVE  TypeOK'
<1>a. task \in Task
  BY DEF TypeOK
<1>1. ASSUME NEW eligible \in SUBSET Creators, CreateLockedTask(eligible)
      PROVE  TypeOK'
  <2>1. task' \in Task
    BY <1>1, <1>a DEF CreateLockedTask, Task, Status
  <2> QED
    BY <1>1, <2>1 DEF CreateLockedTask, TypeOK, publication
<1>2. ASSUME NEW chosen \in SUBSET screened, ApplyScreening(chosen)
      PROVE  TypeOK'
  <2>1. Cardinality(chosen) + 2 \in Nat
    BY SizeIsNat DEF TypeOK
  <2>2. CASE chosen = {}
    <3>1. task' = [task EXCEPT !.status = "succeeded", !.units = 1, !.total = 1]
      BY <1>2, <2>2 DEF ApplyScreening
    <3>2. task' \in Task
      BY <3>1, <1>a DEF Task, Status
    <3> QED
      BY <1>2, <2>2, <3>2 DEF ApplyScreening, TypeOK
  <2>3. CASE chosen # {}
    <3>1. task' = [task EXCEPT !.status = "running", !.stage = "pairwise",
                               !.units = 1, !.total = Cardinality(chosen) + 2]
      BY <1>2, <2>3 DEF ApplyScreening
    <3>2. task' \in Task
      BY <3>1, <2>1, <1>a DEF Task, Status, Stage
    <3> QED
      BY <1>2, <2>3, <3>2 DEF ApplyScreening, TypeOK
  <2> QED
    BY <2>2, <2>3
<1>3. ASSUME NEW c \in Creators, Claim(c)
      PROVE  TypeOK'
  BY <1>3 DEF Claim, PairState, TypeOK, inputs, publication
<1>4. ASSUME NEW c \in Creators, ApplySuccess(c)
      PROVE  TypeOK'
  <2> DEFINE after == [pair EXCEPT ![c] = "succeeded"]
  <2>1. after \in [Creators -> PairState]
    BY DEF PairState, TypeOK
  <2>2. Least(1 + Cardinality(SucceededIn(after)), task.total) \in Nat
    BY <1>a, SizeIsNat, UnitsAreNat DEF SucceededIn, Task
  <2>3. FailedByPairs(after) \in Task
    BY <1>a, FailedByPairsType
  <2> HIDE DEF after
  <2>4. task' \in Task
    BY <1>4, <1>a, <2>2, <2>3 DEF ApplySuccess, Task, Status, Cause, after
  <2> QED
    BY <1>4, <2>1, <2>4 DEF ApplySuccess, after, TypeOK, inputs, publication
<1>5. ASSUME NEW c \in Creators, NEW failure \in Failures, FailPair(c, failure)
      PROVE  TypeOK'
  <2>1. task' \in Task
    BY <1>5, <1>a, FailedByPairsType DEF FailPair, store
  <2> QED
    BY <1>5, <2>1 DEF FailPair, PairState, TypeOK, inputs, publication, store
<1>6. ASSUME NEW failure \in Failures, FailTask(failure)
      PROVE  TypeOK'
  <2>1. task' \in Task
    BY <1>6, <1>a DEF FailTask, Task, Status, Cause
  <2> QED
    BY <1>6, <2>1 DEF FailTask, TypeOK, inputs, publication
<1>7. ASSUME LoadScreening
      PROVE  TypeOK'
  <2>1. task' \in Task
    BY <1>7, <1>a DEF LoadScreening, Task, Status
  <2> QED
    BY <1>7, <2>1 DEF LoadScreening, TypeOK, inputs, publication
<1>8. ASSUME Prepare
      PROVE  TypeOK'
  BY <1>8 DEF Prepare, PairState, TypeOK, inputs, publication
<1>9. ASSUME MarkRankingEnqueued
      PROVE  TypeOK'
  <2>1. Cardinality(selected) + 1 \in Nat
    BY SizeIsNat DEF TypeOK
  <2>2. task' \in Task
    BY <1>9, <1>a, <2>1 DEF MarkRankingEnqueued, Task, Stage
  <2> QED
    BY <1>9, <2>2 DEF MarkRankingEnqueued, TypeOK, inputs, publication
<1>10. ASSUME CompensateRankingEnqueue
       PROVE  TypeOK'
  <2>1. Least(1 + Cardinality(SucceededIn(pair)), task.total) \in Nat
    BY <1>a, SizeIsNat, UnitsAreNat DEF SucceededIn, Task
  <2>2. task' \in Task
    BY <1>10, <1>a, <2>1 DEF CompensateRankingEnqueue, Task, Stage
  <2> QED
    BY <1>10, <2>2 DEF CompensateRankingEnqueue, TypeOK, inputs, publication
<1>11. ASSUME Publish
       PROVE  TypeOK'
  <2>1. task' \in Task
    BY <1>11, <1>a DEF Publish, Task, Status, Cause
  <2> QED
    BY <1>11, <2>1 DEF Publish, TypeOK, inputs
<1>12. ASSUME ResumeInPlace \/ Supersede \/ MarkQueueFailure
       PROVE  TypeOK'
  <2>1. task' \in Task
    BY <1>12, <1>a DEF ResumeInPlace, Supersede, MarkQueueFailure, Task, Status, Cause
  <2> QED
    BY <1>12, <2>1 DEF ResumeInPlace, Supersede, MarkQueueFailure, TypeOK,
                       inputs, publication
<1>13. ASSUME InputsExpire \/ PurgeInputs
       PROVE  TypeOK'
  <2>1. task' \in Task
    BY <1>13, <1>a DEF InputsExpire, PurgeInputs, Task
  <2> QED
    BY <1>13, <2>1 DEF InputsExpire, PurgeInputs, TypeOK, inputs, publication
<1> QED
  BY <1>1, <1>2, <1>3, <1>4, <1>5, <1>6, <1>7, <1>8, <1>9, <1>10, <1>11,
     <1>12, <1>13 DEF StoreStep

-----------------------------------------------------------------------------
(* With a complete set of briefs no pair can be claimed, finished or failed. *)
LEMMA CompleteIsFinal ==
  ASSUME TypeOK, AllPairsSucceeded, NEW c \in Creators
  PROVE  pair[c] \in {"absent", "succeeded"} /\ (c \in selected => pair[c] = "succeeded")
  BY DEF AllPairsSucceeded, Rows

(* A complete set of briefs stays complete: no transaction changes its      *)
(* selection, its snapshots, its rows or the total computed from them.      *)
LEMMA CompleteKept ==
  ASSUME StoreInv, StoreStep, AllPairsSucceeded
  PROVE  AllPairsSucceeded'
<1>a. TypeOK /\ StagesSound /\ task \in Task
  BY DEF StoreInv, TypeOK
<1>b. task.stage # "screening"
  BY <1>a DEF StagesSound, AllPairsSucceeded
<1>c. ASSUME UNCHANGED <<inputs, pair>>, task'.total = task.total
      PROVE  AllPairsSucceeded'
  BY <1>c DEF AllPairsSucceeded, Rows, inputs
<1>1. ASSUME NEW eligible \in SUBSET Creators, CreateLockedTask(eligible)
      PROVE  FALSE
  BY <1>1, <1>a, <1>b DEF CreateLockedTask, StagesSound
<1>2. ASSUME NEW chosen \in SUBSET screened, ApplyScreening(chosen)
      PROVE  FALSE
  BY <1>2, <1>b DEF ApplyScreening, Selectable
<1>3. ASSUME NEW c \in Creators, Claim(c) \/ ApplySuccess(c)
      PROVE  FALSE
  BY <1>3, <1>a, CompleteIsFinal DEF Claim, Claimable, ApplySuccess,
                                     SuccessApplicable, Failures
<1>4. ASSUME NEW c \in Creators, NEW failure \in Failures, FailPair(c, failure)
      PROVE  AllPairsSucceeded'
  BY <1>4, <1>a, <1>c, CompleteIsFinal DEF FailPair, store, inputs
<1>5. ASSUME NEW failure \in Failures, FailTask(failure)
      PROVE  AllPairsSucceeded'
  BY <1>5, <1>a, <1>c DEF FailTask, Task
<1>6. ASSUME Prepare
      PROVE  AllPairsSucceeded'
  <2>1. \A c \in Creators : pair'[c] = pair[c]
    BY <1>6 DEF Prepare, AllPairsSucceeded
  <2> QED
    BY <1>6, <1>a, <2>1 DEF Prepare, AllPairsSucceeded, Rows, inputs, TypeOK
<1>7. ASSUME LoadScreening \/ MarkRankingEnqueued
      PROVE  AllPairsSucceeded'
  BY <1>7, <1>a, <1>c DEF LoadScreening, MarkRankingEnqueued, Task
<1>8. ASSUME CompensateRankingEnqueue \/ Publish
      PROVE  AllPairsSucceeded'
  BY <1>8, <1>a, <1>c DEF CompensateRankingEnqueue, Publish, Task
<1>9. ASSUME ResumeInPlace \/ Supersede \/ MarkQueueFailure
      PROVE  AllPairsSucceeded'
  BY <1>9, <1>a, <1>c DEF ResumeInPlace, Supersede, MarkQueueFailure, Task
<1>10. ASSUME InputsExpire \/ PurgeInputs
       PROVE  AllPairsSucceeded'
  BY <1>10, <1>a, <1>c DEF InputsExpire, PurgeInputs, Task
<1> QED
  BY <1>1, <1>2, <1>3, <1>4, <1>5, <1>6, <1>7, <1>8, <1>9, <1>10 DEF StoreStep

(* A published Match has no pair left to fail or to finish. *)
LEMMA PublishedIsFinal ==
  ASSUME StoreInv, task.status = "succeeded", NEW c \in Creators
  PROVE  pair[c] \in {"absent", "succeeded"}
  BY DEF StoreInv, TypeOK, Stage, Task, StagesSound, PublishedWhole, SucceededIn, Rows

-----------------------------------------------------------------------------
(* Every transaction leaves the rows as its stage says they are.            *)
LEMMA StoreStepStages ==
  ASSUME StoreInv, StoreStep
  PROVE  StagesSound'
<1>a. TypeOK /\ StagesSound /\ task \in Task /\ pair \in [Creators -> PairState]
  BY DEF StoreInv, TypeOK
<1>b. AllPairsSucceeded => AllPairsSucceeded'
  BY CompleteKept
<1>c. ASSUME UNCHANGED <<inputs, pair>>,
             task'.stage = task.stage, task'.ranked = task.ranked,
             task'.total = task.total, task'.status # "none",
             task.status = "succeeded" => task'.status = "succeeded"
      PROVE  StagesSound'
  BY <1>a, <1>b, <1>c DEF StagesSound, Rows, inputs
<1>1. ASSUME NEW eligible \in SUBSET Creators, CreateLockedTask(eligible)
      PROVE  StagesSound'
  <2>1. task.stage = "screening" /\ task'.stage = "screening" /\ ~task'.ranked
        /\ task'.status = "queued"
    BY <1>1, <1>a DEF CreateLockedTask, StagesSound, Task
  <2> QED
    BY <1>1, <1>a, <2>1 DEF CreateLockedTask, StagesSound, Rows
<1>2. ASSUME NEW chosen \in SUBSET screened, ApplyScreening(chosen)
      PROVE  StagesSound'
  <2>1. selected = {} /\ Rows = {} /\ ~task.ranked /\ task.stage = "screening"
        /\ candidates = screened
    BY <1>2, <1>a DEF ApplyScreening, Selectable, StagesSound
  <2>2. CASE chosen = {}
    <3>1. task'.stage = "screening" /\ ~task'.ranked /\ task'.status = "succeeded"
      BY <1>2, <1>a, <2>1, <2>2 DEF ApplyScreening, Task
    <3> QED
      BY <1>2, <2>1, <2>2, <3>1 DEF ApplyScreening, StagesSound, Rows
  <2>3. CASE chosen # {}
    <3>1. task'.stage = "pairwise" /\ ~task'.ranked /\ task'.status = "running"
          /\ task'.total = Cardinality(chosen) + 2
      BY <1>2, <1>a, <2>1, <2>3 DEF ApplyScreening, Task
    <3> QED
      BY <1>2, <2>1, <2>3, <3>1 DEF ApplyScreening, StagesSound, Rows
  <2> QED
    BY <2>2, <2>3
<1>3. ASSUME NEW c \in Creators, Claim(c)
      PROVE  StagesSound'
  <2>1. Rows' \subseteq selected
    BY <1>3, <1>a DEF Claim, Claimable, StagesSound, Rows
  <2> QED
    BY <1>3, <1>a, <2>1 DEF Claim, Claimable, StagesSound, inputs
<1>4. ASSUME NEW c \in Creators, ApplySuccess(c)
      PROVE  StagesSound'
  <2>1. c \in Rows /\ task.stage = "pairwise"
    BY <1>4, <1>a DEF ApplySuccess, SuccessApplicable, Rows, Failures
  <2>2. pair' = [pair EXCEPT ![c] = "succeeded"] /\ UNCHANGED inputs
    BY <1>4 DEF ApplySuccess
  <2>3. Rows' \subseteq selected
    BY <1>a, <2>1, <2>2 DEF StagesSound, Rows
  <2>4. task'.stage = task.stage /\ task'.ranked = task.ranked
        /\ task'.total = task.total /\ task'.status # "none"
    BY <1>4, <1>a DEF ApplySuccess, SuccessApplicable, FailedByPairs, Task
  <2> QED
    BY <1>a, <2>1, <2>2, <2>3, <2>4 DEF StagesSound, inputs
<1>5. ASSUME NEW c \in Creators, NEW failure \in Failures, FailPair(c, failure)
      PROVE  StagesSound'
  <2>1. CASE pair[c] \in {"absent", "succeeded"}
    BY <1>5, <1>a, <1>b, <2>1 DEF FailPair, store, StagesSound, Rows
  <2>2. CASE pair[c] \notin {"absent", "succeeded"}
    <3>1. pair' = [pair EXCEPT ![c] = failure] /\ UNCHANGED inputs
      BY <1>5, <2>2 DEF FailPair
    <3>2. c \in Rows /\ task.stage = "pairwise"
      BY <1>a, <2>2, CompleteIsFinal DEF Rows, StagesSound, Task, Stage
    <3>3. Rows' \subseteq selected
      BY <1>a, <3>1, <3>2 DEF StagesSound, Rows
    <3>4. task'.stage = task.stage /\ task'.ranked = task.ranked
          /\ task'.total = task.total /\ task'.status # "none"
      BY <1>5, <1>a, <2>2, <3>2 DEF FailPair, FailedByPairs, Task, StagesSound
    <3> QED
      BY <1>a, <3>1, <3>2, <3>3, <3>4 DEF StagesSound, inputs
  <2> QED
    BY <2>1, <2>2
<1>6. ASSUME NEW failure \in Failures, FailTask(failure)
      PROVE  StagesSound'
  <2>1. CASE task.status \in {"none", "succeeded", "superseded", "failed"}
    BY <1>6, <1>a, <1>b, <2>1 DEF FailTask, StagesSound, Rows, inputs
  <2>2. CASE task.status \notin {"none", "succeeded", "superseded", "failed"}
    BY <1>6, <1>a, <1>c, <2>2 DEF FailTask, Task
  <2> QED
    BY <2>1, <2>2
<1>7. ASSUME LoadScreening
      PROVE  StagesSound'
  BY <1>7, <1>a, <1>c DEF LoadScreening, Screenable, Task
<1>8. ASSUME Prepare
      PROVE  StagesSound'
  <2>1. Rows' \subseteq selected
    BY <1>8, <1>a DEF Prepare, Preparable, Rows
  <2> QED
    BY <1>8, <1>a, <2>1 DEF Prepare, Preparable, StagesSound, inputs
<1>9. ASSUME MarkRankingEnqueued
      PROVE  StagesSound'
  <2>1. task'.stage = "ranking" /\ task'.ranked /\ task'.total = task.total
        /\ task'.status = "running" /\ UNCHANGED <<inputs, pair>>
    BY <1>9, <1>a DEF MarkRankingEnqueued, RankingDue, Task
  <2>2. AllPairsSucceeded'
    BY <1>9, <1>b DEF MarkRankingEnqueued, RankingDue
  <2> QED
    BY <2>1, <2>2 DEF StagesSound, AllPairsSucceeded, inputs
<1>10. ASSUME CompensateRankingEnqueue
       PROVE  StagesSound'
  <2>1. CASE task.status = "running" /\ task.stage = "ranking" /\ task.ranked
    <3>1. task'.stage = "pairwise" /\ ~task'.ranked /\ task'.total = task.total
          /\ task'.status = "running" /\ UNCHANGED <<inputs, pair>>
      BY <1>10, <1>a, <2>1 DEF CompensateRankingEnqueue, Task
    <3> QED
      BY <1>a, <2>1, <3>1 DEF StagesSound, Rows, inputs
  <2>2. CASE ~(task.status = "running" /\ task.stage = "ranking" /\ task.ranked)
    BY <1>10, <1>a, <1>b, <2>2 DEF CompensateRankingEnqueue, StagesSound, Rows, inputs
  <2> QED
    BY <2>1, <2>2
<1>11. ASSUME Publish
       PROVE  StagesSound'
  BY <1>11, <1>a, <1>c DEF Publish, Task
<1>12. ASSUME ResumeInPlace \/ Supersede
       PROVE  StagesSound'
  BY <1>12, <1>a, <1>c DEF ResumeInPlace, Supersede, RetryOffered, Task
<1>13. ASSUME MarkQueueFailure
       PROVE  StagesSound'
  <2>1. CASE task.status \in {"queued", "running"}
    BY <1>13, <1>a, <1>c, <2>1 DEF MarkQueueFailure, Task
  <2>2. CASE task.status \notin {"queued", "running"}
    BY <1>13, <1>a, <1>b, <2>2 DEF MarkQueueFailure, StagesSound, Rows, inputs
  <2> QED
    BY <2>1, <2>2
<1>14. ASSUME InputsExpire \/ PurgeInputs
       PROVE  StagesSound'
  BY <1>14, <1>a, <1>c DEF InputsExpire, PurgeInputs, Task
<1> QED
  BY <1>1, <1>2, <1>3, <1>4, <1>5, <1>6, <1>7, <1>8, <1>9, <1>10, <1>11, <1>12,
     <1>13, <1>14 DEF StoreStep

-----------------------------------------------------------------------------
(* Every transaction publishes everything or nothing, and once.             *)
LEMMA StoreStepPublication ==
  ASSUME StoreInv, StoreStep
  PROVE  PublishedWhole'
<1>a. TypeOK /\ StagesSound /\ PublishedWhole /\ task \in Task
      /\ pair \in [Creators -> PairState]
  BY DEF StoreInv, TypeOK
<1>b. ASSUME UNCHANGED publication,
             task.status # "succeeded", task'.status # "succeeded"
      PROVE  PublishedWhole'
  BY <1>a, <1>b DEF PublishedWhole, publication
<1>c. ASSUME UNCHANGED <<inputs, pair, publication>>, task'.status = task.status
      PROVE  PublishedWhole'
  BY <1>a, <1>c DEF PublishedWhole, publication, inputs, SucceededIn
<1>1. ASSUME NEW eligible \in SUBSET Creators, CreateLockedTask(eligible)
      PROVE  PublishedWhole'
  BY <1>1, <1>a, <1>b DEF CreateLockedTask, Task
<1>2. ASSUME NEW chosen \in SUBSET screened, ApplyScreening(chosen)
      PROVE  PublishedWhole'
  <2>1. Rows = {} /\ results = {} /\ campaigns = 0
    BY <1>2, <1>a DEF ApplyScreening, Selectable, StagesSound, PublishedWhole
  <2>2. CASE chosen = {}
    <3>1. task'.status = "succeeded" /\ campaigns' = 1 /\ selected' = {}
          /\ UNCHANGED <<pair, results>>
      BY <1>2, <1>a, <2>1, <2>2 DEF ApplyScreening, Task
    <3>2. SucceededIn(pair') = {}
      BY <2>1, <3>1 DEF Rows, SucceededIn
    <3> QED
      BY <2>1, <3>1, <3>2 DEF PublishedWhole
  <2>3. CASE chosen # {}
    <3>1. task'.status = "running" /\ UNCHANGED <<campaigns, results>>
      BY <1>2, <1>a, <2>3 DEF ApplyScreening, Task
    <3> QED
      BY <2>1, <3>1 DEF PublishedWhole
  <2> QED
    BY <2>2, <2>3
<1>3. ASSUME NEW c \in Creators, Claim(c)
      PROVE  PublishedWhole'
  BY <1>3, <1>b DEF Claim, Claimable
<1>4. ASSUME NEW c \in Creators, ApplySuccess(c)
      PROVE  PublishedWhole'
  BY <1>4, <1>a, <1>b DEF ApplySuccess, SuccessApplicable, FailedByPairs, Task
<1>5. ASSUME NEW c \in Creators, NEW failure \in Failures, FailPair(c, failure)
      PROVE  PublishedWhole'
  <2>1. CASE pair[c] \in {"absent", "succeeded"}
    BY <1>5, <1>c, <2>1 DEF FailPair, store, inputs, publication
  <2>2. CASE pair[c] \notin {"absent", "succeeded"}
    <3>1. task.status # "succeeded"
      BY <2>2, PublishedIsFinal
    <3>2. task'.status # "succeeded" /\ UNCHANGED publication
      BY <1>5, <1>a, <2>2, <3>1 DEF FailPair, FailedByPairs, Task
    <3> QED
      BY <1>b, <3>1, <3>2
  <2> QED
    BY <2>1, <2>2
<1>6. ASSUME NEW failure \in Failures, FailTask(failure)
      PROVE  PublishedWhole'
  <2>1. CASE task.status \in {"none", "succeeded", "superseded", "failed"}
    BY <1>6, <1>c, <2>1 DEF FailTask
  <2>2. CASE task.status \notin {"none", "succeeded", "superseded", "failed"}
    BY <1>6, <1>a, <1>b, <2>2 DEF FailTask, Task
  <2> QED
    BY <2>1, <2>2
<1>7. ASSUME LoadScreening
      PROVE  PublishedWhole'
  BY <1>7, <1>a, <1>b DEF LoadScreening, Screenable, Task
<1>8. ASSUME Prepare
      PROVE  PublishedWhole'
  BY <1>8, <1>b DEF Prepare, Preparable
<1>9. ASSUME MarkRankingEnqueued
      PROVE  PublishedWhole'
  BY <1>9, <1>a, <1>b DEF MarkRankingEnqueued, RankingDue, Task
<1>10. ASSUME CompensateRankingEnqueue
       PROVE  PublishedWhole'
  <2>1. task'.status = task.status
    BY <1>10, <1>a DEF CompensateRankingEnqueue, Task
  <2> QED
    BY <1>10, <1>c, <2>1 DEF CompensateRankingEnqueue
<1>11. ASSUME Publish
       PROVE  PublishedWhole'
  <2>1. campaigns = 0 /\ selected = SucceededIn(pair)
    BY <1>11, <1>a DEF Publish, Publishable, PublishedWhole, AllPairsSucceeded,
                       Rows, SucceededIn
  <2>2. task'.status = "succeeded"
    BY <1>11, <1>a DEF Publish, Task
  <2> QED
    BY <1>11, <2>1, <2>2 DEF Publish, PublishedWhole, inputs, SucceededIn
<1>12. ASSUME ResumeInPlace \/ Supersede
       PROVE  PublishedWhole'
  BY <1>12, <1>a, <1>b DEF ResumeInPlace, Supersede, RetryOffered, Task
<1>13. ASSUME MarkQueueFailure
       PROVE  PublishedWhole'
  <2>1. CASE task.status \in {"queued", "running"}
    BY <1>13, <1>a, <1>b, <2>1 DEF MarkQueueFailure, Task
  <2>2. CASE task.status \notin {"queued", "running"}
    BY <1>13, <1>c, <2>2 DEF MarkQueueFailure
  <2> QED
    BY <2>1, <2>2
<1>14. ASSUME InputsExpire \/ PurgeInputs
       PROVE  PublishedWhole'
  <2>1. task'.status = task.status
    BY <1>14, <1>a DEF InputsExpire, PurgeInputs, Task
  <2> QED
    BY <1>14, <1>c, <2>1 DEF InputsExpire, PurgeInputs
<1> QED
  BY <1>1, <1>2, <1>3, <1>4, <1>5, <1>6, <1>7, <1>8, <1>9, <1>10, <1>11, <1>12,
     <1>13, <1>14 DEF StoreStep

(* Every transaction that ends a failure withdraws the offer to retry, and  *)
(* a task that has begun does not go back to the queue.                     *)
LEMMA StoreStepOffer ==
  ASSUME StoreInv, StoreStep
  PROVE  OfferSound' /\ (Begun => Begun')
<1>a. task \in Task /\ OfferSound
  BY DEF StoreInv, TypeOK
<1>1. ASSUME NEW eligible \in SUBSET Creators, CreateLockedTask(eligible)
      PROVE  OfferSound' /\ (Begun => Begun')
  BY <1>1, <1>a DEF CreateLockedTask, Task, OfferSound, Begun
<1>2. ASSUME NEW chosen \in SUBSET screened, ApplyScreening(chosen)
      PROVE  OfferSound' /\ (Begun => Begun')
  <2>1. ~task.retryable
    BY <1>2, <1>a DEF ApplyScreening, Selectable, OfferSound
  <2>2. task'.status \in {"running", "succeeded"} /\ ~task'.retryable
    BY <1>2, <1>a, <2>1 DEF ApplyScreening, Task
  <2> QED
    BY <2>2 DEF OfferSound, Begun
<1>3. ASSUME NEW c \in Creators, ApplySuccess(c)
      PROVE  OfferSound' /\ (Begun => Begun')
  <2>1. task'.status \in {"running", "failed"}
    BY <1>3, <1>a DEF ApplySuccess, SuccessApplicable, FailedByPairs, Task
  <2>2. task'.status = "running" => ~task'.retryable
    BY <1>3, <1>a DEF ApplySuccess, SuccessApplicable, FailedByPairs, Task, OfferSound
  <2> QED
    BY <2>1, <2>2 DEF OfferSound, Begun
<1>4. ASSUME NEW c \in Creators, NEW failure \in Failures, FailPair(c, failure)
      PROVE  OfferSound' /\ (Begun => Begun')
  BY <1>4, <1>a DEF FailPair, store, FailedByPairs, Task, OfferSound, Begun
<1>5. ASSUME NEW failure \in Failures, FailTask(failure)
      PROVE  OfferSound' /\ (Begun => Begun')
  BY <1>5, <1>a DEF FailTask, Task, OfferSound, Begun
<1>6. ASSUME LoadScreening \/ MarkRankingEnqueued \/ CompensateRankingEnqueue
      PROVE  OfferSound' /\ (Begun => Begun')
  BY <1>6, <1>a DEF LoadScreening, Screenable, MarkRankingEnqueued,
                    CompensateRankingEnqueue, Task, OfferSound, Begun
<1>7. ASSUME Prepare \/ \E c \in Creators : Claim(c)
      PROVE  OfferSound' /\ (Begun => Begun')
  BY <1>7, <1>a DEF Prepare, Claim, OfferSound, Begun
<1>8. ASSUME Publish \/ ResumeInPlace \/ Supersede \/ MarkQueueFailure
      PROVE  OfferSound' /\ (Begun => Begun')
  BY <1>8, <1>a DEF Publish, ResumeInPlace, Supersede, MarkQueueFailure, Task,
                    OfferSound, Begun
<1>9. ASSUME InputsExpire \/ PurgeInputs
      PROVE  OfferSound' /\ (Begun => Begun')
  BY <1>9, <1>a DEF InputsExpire, PurgeInputs, Task, OfferSound, Begun
<1> QED
  BY <1>1, <1>2, <1>3, <1>4, <1>5, <1>6, <1>7, <1>8, <1>9 DEF StoreStep

(* Together: the transactions keep what is true of the rows. *)
LEMMA StoreStepKeepsInv ==
  ASSUME StoreInv, StoreStep
  PROVE  StoreInv'
  BY StoreStepType, StoreStepStages, StoreStepPublication, StoreStepOffer DEF StoreInv

-----------------------------------------------------------------------------
(* What a step of the worker graph does, seen from the store: it is one     *)
(* transaction or none; the messages stay well formed; and a worker that    *)
(* ranks or screens after it either did before or has just read a task that *)
(* allows it.                                                               *)
Ranks(i)   == i.job = "rank" /\ i.phase = "called"
Screens(i) == i.job = "start" /\ i.phase = "called"

SoundStep ==
  /\ StoreStep \/ UNCHANGED store
  /\ work' \in SUBSET Item
  /\ \A j \in work' : Ranks(j) => j \in work \/ (AllPairsSucceeded /\ UNCHANGED store)
  /\ \A j \in work' : Screens(j) => j \in work \/ Begun'

(* A message just sent is well formed, and nobody holds it yet. *)
LEMMA NewIsItem ==
  ASSUME NEW job \in Jobs
  PROVE  New(job) \in Item /\ ~Ranks(New(job)) /\ ~Screens(New(job))
  BY BoundsAreNat DEF New, Item, Phases, Ranks, Screens

(* So is a message whose handler has raised. *)
LEMMA AfterRaiseIsItem ==
  ASSUME NEW i \in Item, NEW failure \in Failures
  PROVE  /\ AfterRaise(i, failure) \in Item
         /\ ~Ranks(AfterRaise(i, failure)) /\ ~Screens(AfterRaise(i, failure))
<1>1. CASE failure = "retryable" /\ i.tries < MaxRetries
  <2>1. AfterRaise(i, failure) = [i EXCEPT !.phase = "queued", !.tries = i.tries + 1]
    BY <1>1 DEF AfterRaise
  <2>2. i.tries + 1 \in 0..MaxRetries
    BY <1>1, BoundsAreNat DEF Item
  <2> QED
    BY <2>1, <2>2 DEF Item, Phases, Ranks, Screens
<1>2. CASE ~(failure = "retryable" /\ i.tries < MaxRetries)
  BY <1>2 DEF AfterRaise, Item, Phases, Failures, Ranks, Screens
<1> QED
  BY <1>1, <1>2

(* And a message in another phase. *)
LEMMA MovedIsItem ==
  ASSUME NEW i \in Item, NEW phase \in Phases
  PROVE  /\ [i EXCEPT !.phase = phase] \in Item
         /\ phase # "called" \/ i.job # "rank" => ~Ranks([i EXCEPT !.phase = phase])
         /\ phase # "called" \/ i.job # "start" => ~Screens([i EXCEPT !.phase = phase])
  BY DEF Item, Ranks, Screens

(* The ways a handler leaves its message: it is acknowledged. *)
LEMMA AckSound ==
  ASSUME WorkersTypeOK, NEW i \in work, Ack(i), StoreStep \/ UNCHANGED store
  PROVE  SoundStep
  BY DEF WorkersTypeOK, Ack, SoundStep

(* It is acknowledged after others were sent. *)
LEMMA SendSound ==
  ASSUME WorkersTypeOK, NEW i \in work, NEW jobs \in SUBSET Jobs, Send(i, jobs),
         StoreStep \/ UNCHANGED store
  PROVE  SoundStep
  BY NewIsItem DEF WorkersTypeOK, Send, SoundStep

(* Its worker goes on to another phase. *)
LEMMA MoveSound ==
  ASSUME WorkersTypeOK, NEW i \in work, NEW phase \in Phases, Move(i, phase),
         StoreStep \/ UNCHANGED store,
         phase = "called" => i.job # "rank" /\ (i.job # "start" \/ Begun')
  PROVE  SoundStep
  BY MovedIsItem DEF WorkersTypeOK, Move, SoundStep

(* Its handler raises before any commit. *)
LEMMA RaiseSound ==
  ASSUME WorkersTypeOK, NEW i \in work, NEW failure \in Failures, Raise(i, failure)
  PROVE  SoundStep
  BY AfterRaiseIsItem DEF WorkersTypeOK, Raise, SoundStep

(* Its handler raises after a commit. *)
LEMMA RetryAloneSound ==
  ASSUME WorkersTypeOK, NEW i \in work,
         work' = (work \ {i}) \cup {AfterRaise(i, "retryable")},
         StoreStep \/ UNCHANGED store
  PROVE  SoundStep
  BY AfterRaiseIsItem DEF WorkersTypeOK, SoundStep, Failures

(* A handler that is retried after a commit, with more messages sent. *)
LEMMA RetrySound ==
  ASSUME WorkersTypeOK, NEW i \in work, NEW jobs \in SUBSET Jobs,
         work' = (work \ {i}) \cup {New(j) : j \in jobs} \cup {AfterRaise(i, "retryable")},
         StoreStep \/ UNCHANGED store
  PROVE  SoundStep
  BY NewIsItem, AfterRaiseIsItem DEF WorkersTypeOK, SoundStep, Failures

(* A handler lost after a commit, with more messages sent. *)
LEMMA LostSound ==
  ASSUME WorkersTypeOK, NEW i \in work, NEW jobs \in SUBSET Jobs,
         NEW phase \in {"queued", "undo"},
         work' = (work \ {i}) \cup {New(j) : j \in jobs} \cup {[i EXCEPT !.phase = phase]},
         StoreStep \/ UNCHANGED store
  PROVE  SoundStep
<1> DEFINE lost == [i EXCEPT !.phase = phase]
<1>1. lost \in Item /\ ~Ranks(lost) /\ ~Screens(lost)
  BY MovedIsItem DEF WorkersTypeOK, Phases
<1> HIDE DEF lost
<1>2. work' = (work \ {i}) \cup {New(j) : j \in jobs} \cup {lost}
  BY DEF lost
<1> QED
  BY <1>1, <1>2, NewIsItem DEF WorkersTypeOK, SoundStep

-----------------------------------------------------------------------------
(* Every action of the graph is a sound step: those of start_match_task. *)
LEMMA StartIsSound ==
  ASSUME WorkersTypeOK, NEW i \in work,
         StartLoads(i) \/ (StartScreens(i) /\ Begun) \/ StartPrepares(i)
  PROVE  SoundStep
<1>a. i.job = "start" /\ {"called", "prepare"} \subseteq Phases /\ task \in Task
  BY DEF StartLoads, StartScreens, StartPrepares, Phases, WorkersTypeOK, TypeOK
<1>1. CASE StartLoads(i)
  <2>1. CASE LoadScreening /\ Move(i, "called")
    <3>1. Begun'
      BY <2>1, <1>a DEF LoadScreening, Begun, Task
    <3> QED
      BY <2>1, <3>1, <1>a, MoveSound DEF StoreStep
  <2>2. CASE UNCHANGED store /\ (Ack(i) \/ Move(i, "prepare"))
    BY <2>2, <1>a, AckSound, MoveSound
  <2>3. CASE Raise(i, "retryable")
    BY <2>3, RaiseSound DEF Failures
  <2> QED
    BY <1>1, <2>1, <2>2, <2>3 DEF StartLoads
<1>2. CASE StartScreens(i) /\ Begun
  <2>1. ASSUME NEW chosen \in SUBSET screened, ApplyScreening(chosen),
               Ack(i) \/ Move(i, "prepare")
        PROVE  SoundStep
    BY <2>1, <1>2, <1>a, AckSound, MoveSound DEF StoreStep
  <2>2. CASE UNCHANGED store /\ (Ack(i) \/ Move(i, "prepare"))
    BY <2>2, <1>a, AckSound, MoveSound
  <2>3. CASE Raise(i, "retryable")
    BY <2>3, RaiseSound DEF Failures
  <2> QED
    BY <1>2, <2>1, <2>2, <2>3 DEF StartScreens
<1>3. CASE StartPrepares(i)
  <2>a. Unfinished \subseteq Creators /\ Creators \subseteq Jobs
    BY DEF Unfinished, Jobs, WorkersTypeOK, TypeOK
  <2>1. CASE Prepare /\ Send(i, Unfinished)
    BY <2>1, <2>a, SendSound DEF StoreStep
  <2>2. CASE UNCHANGED store /\ Ack(i)
    BY <2>2, AckSound
  <2>3. CASE Raise(i, "permanent")
    BY <2>3, RaiseSound DEF Failures
  <2>4. ASSUME Prepare, NEW sent \in SUBSET Unfinished,
               work' = (work \ {i}) \cup {New(c) : c \in sent}
                         \cup {AfterRaise(i, "retryable")}
        PROVE  SoundStep
    BY <2>4, <2>a, RetrySound DEF StoreStep
  <2>5. ASSUME Prepare, NEW sent \in SUBSET Unfinished,
               work' = (work \ {i}) \cup {New(c) : c \in sent}
                         \cup {[i EXCEPT !.phase = "queued"]}
        PROVE  SoundStep
    BY <2>5, <2>a, LostSound DEF StoreStep
  <2> QED
    BY <1>3, <2>1, <2>2, <2>3, <2>4, <2>5 DEF StartPrepares
<1> QED
  BY <1>1, <1>2, <1>3

(* A pairwise job ends by sending advance, or fails to. *)
LEMMA AdvanceSent ==
  ASSUME WorkersTypeOK, NEW i \in work, SendAdvance(i), StoreStep \/ UNCHANGED store
  PROVE  SoundStep
<1>1. CASE Send(i, {"advance"})
  BY <1>1, SendSound DEF Jobs, Steps
<1>2. CASE work' = (work \ {i}) \cup {AfterRaise(i, "retryable")}
  BY <1>2, RetryAloneSound
<1>3. CASE Move(i, "queued")
  BY <1>3, MoveSound DEF Phases
<1> QED
  BY <1>1, <1>2, <1>3 DEF SendAdvance

(* The same of run_pairwise_match. *)
LEMMA PairIsSound ==
  ASSUME WorkersTypeOK, NEW i \in work, PairClaims(i) \/ PairApplies(i)
  PROVE  SoundStep
<1>a. i.job \in Creators /\ i.job \notin {"rank", "start"} /\ "called" \in Phases
  BY JobsAreDistinct DEF PairClaims, PairApplies, Steps, Phases
<1>1. CASE Claim(i.job) /\ Move(i, "called")
  BY <1>1, <1>a, MoveSound DEF StoreStep
<1>2. CASE SendAdvance(i) /\ (UNCHANGED store \/ ApplySuccess(i.job))
  BY <1>2, <1>a, AdvanceSent DEF StoreStep
<1>3. CASE UNCHANGED store /\ Ack(i)
  BY <1>3, AckSound
<1>4. CASE Raise(i, "permanent")
  BY <1>4, RaiseSound DEF Failures
<1> QED
  BY <1>1, <1>2, <1>3, <1>4 DEF PairClaims, PairApplies

(* The same of advance_match_task. *)
LEMMA AdvanceIsSound ==
  ASSUME WorkersTypeOK, NEW i \in work, AdvanceMarks(i) \/ AdvanceCompensates(i)
  PROVE  SoundStep
<1>1. CASE MarkRankingEnqueued /\ Send(i, {"rank"})
  BY <1>1, SendSound DEF StoreStep, Jobs, Steps
<1>2. ASSUME MarkRankingEnqueued, NEW sent \in {{}, {New("rank")}},
             work' = (work \ {i}) \cup sent \cup {[i EXCEPT !.phase = "undo"]}
      PROVE  SoundStep
  <2>1. PICK jobs \in {{}, {"rank"}} : sent = {New(j) : j \in jobs}
    BY <1>2
  <2>2. jobs \subseteq Jobs
    BY DEF Jobs, Steps
  <2> QED
    BY <1>2, <2>1, <2>2, LostSound DEF StoreStep
<1>3. CASE MarkRankingEnqueued /\ UNCHANGED work
  BY <1>3 DEF WorkersTypeOK, SoundStep, StoreStep
<1>4. CASE UNCHANGED store /\ Ack(i)
  BY <1>4, AckSound
<1>5. CASE CompensateRankingEnqueue
           /\ work' = (work \ {i}) \cup {AfterRaise(i, "retryable")}
  BY <1>5, RetryAloneSound DEF StoreStep
<1> QED
  BY <1>1, <1>2, <1>3, <1>4, <1>5 DEF AdvanceMarks, AdvanceCompensates

(* The same of finalize_match_ranking. *)
LEMMA RankIsSound ==
  ASSUME WorkersTypeOK, NEW i \in work, RankLoads(i) \/ RankPublishes(i)
  PROVE  SoundStep
<1>1. CASE Rankable /\ Move(i, "called") /\ UNCHANGED store
  <2>1. i.job = "rank" /\ "called" \in Phases
    BY DEF RankLoads, RankPublishes, Phases
  <2> QED
    BY <1>1, <2>1, MovedIsItem DEF Rankable, Move, WorkersTypeOK, SoundStep
<1>2. CASE Ack(i) /\ (UNCHANGED store \/ Publish)
  BY <1>2, AckSound DEF StoreStep
<1>3. CASE Raise(i, "permanent")
  BY <1>3, RaiseSound DEF Failures
<1> QED
  BY <1>1, <1>2, <1>3 DEF RankLoads, RankPublishes

(* The same of the handlers that record a failure. *)
LEMMA FailureIsSound ==
  ASSUME WorkersTypeOK, NEW i \in work,
         ProviderFails(i) \/ RecordFailure(i) \/ RecordQueueFailure(i)
  PROVE  SoundStep
<1>1. CASE ProviderFails(i)
  BY <1>1, RaiseSound, KindsAreKnown DEF ProviderFails
<1>2. CASE RecordFailure(i)
  <2>1. StoreStep
    BY <1>2 DEF RecordFailure, StoreStep
  <2> QED
    BY <1>2, <2>1, AckSound DEF RecordFailure
<1>3. CASE RecordQueueFailure(i)
  BY <1>3, AckSound DEF RecordQueueFailure, StoreStep
<1> QED
  BY <1>1, <1>2, <1>3

(* The same of the faults. *)
LEMMA DisturbanceIsSound ==
  ASSUME WorkersTypeOK, NEW i \in work, Disturbance(i)
  PROVE  SoundStep
<1>1. CASE UNCHANGED store /\ Ack(i)
  BY <1>1, AckSound
<1>2. CASE UNCHANGED store /\ work' = (work \ {i}) \cup {AfterRaise(i, "retryable")}
  BY <1>2, RetryAloneSound
<1>3. CASE UNCHANGED store /\ Move(i, "queued")
  BY <1>3, MoveSound DEF Phases
<1>4. CASE Redeliver(i)
  <2> DEFINE again == [i EXCEPT !.phase = "queued", !.copy = 3 - @]
  <2>1. 3 - i.copy \in {1, 2} /\ i \in Item
    BY DEF WorkersTypeOK, Item
  <2>2. again \in Item /\ ~Ranks(again) /\ ~Screens(again)
    BY <2>1 DEF Item, Phases, Ranks, Screens
  <2>3. work' = work \cup {again} /\ UNCHANGED store
    BY <1>4 DEF Redeliver
  <2> HIDE DEF again
  <2> QED
    BY <2>2, <2>3 DEF WorkersTypeOK, SoundStep
<1>5. CASE RetryLost(i)
  BY <1>1, <1>5 DEF RetryLost
<1>6. CASE WorkerLost(i)
  BY <1>1, <1>3, <1>6 DEF WorkerLost
<1>7. CASE DatabaseFails(i)
  BY <1>1, <1>2, <1>7 DEF DatabaseFails
<1> QED
  BY <1>4, <1>5, <1>6, <1>7 DEF Disturbance

(* What the API sends, or leaves unsent, is well formed. *)
LEMMA DispatchIsItems ==
  ASSUME WorkersTypeOK, NEW job \in Jobs, Dispatch(job)
  PROVE  /\ work' \in SUBSET Item
         /\ \A j \in work' : Ranks(j) \/ Screens(j) => j \in work
         /\ faults' \in 0..MaxFaults
<1> DEFINE undo == [New("api") EXCEPT !.phase = "undo"]
<1>1. undo \in Item /\ ~Ranks(undo) /\ ~Screens(undo)
  BY NewIsItem, MovedIsItem DEF Jobs, Phases
<1>2. New(job) \in Item /\ ~Ranks(New(job)) /\ ~Screens(New(job))
  BY NewIsItem
<1>3. faults' \in 0..MaxFaults
  <2>1. UNCHANGED faults \/ \E kind \in FaultKinds : Fault(kind)
    BY DEF Dispatch, FaultKinds
  <2> QED
    BY <2>1, BoundsAreNat DEF Fault, WorkersTypeOK
<1>4. work' \subseteq work \cup {New(job), undo}
  BY DEF Dispatch
<1> HIDE DEF undo
<1> QED
  BY <1>1, <1>2, <1>3, <1>4 DEF WorkersTypeOK

(* The same of the API, the clock and retention. *)
LEMMA EnvironmentIsSound ==
  ASSUME WorkersTypeOK, CreateMatch \/ RetryMatch \/ Retention
  PROVE  SoundStep
<1>a. "start" \in Jobs /\ "rank" \in Jobs
  BY DEF Jobs, Steps
<1>1. CASE CreateMatch
  BY <1>1, <1>a, DispatchIsItems DEF CreateMatch, StoreStep, SoundStep
<1>2. CASE RetryMatch
  BY <1>2, <1>a, DispatchIsItems DEF RetryMatch, StoreStep, SoundStep, WorkersTypeOK
<1>3. CASE Retention
  BY <1>3 DEF Retention, StoreStep, SoundStep, WorkersTypeOK
<1> QED
  BY <1>1, <1>2, <1>3

(* Every step of the graph, or none, is sound. *)
LEMMA NextIsSound ==
  ASSUME WorkersTypeOK, ScreenedBegun, [Next]_vars
  PROVE  SoundStep
<1>1. CASE UNCHANGED vars
  BY <1>1 DEF vars, SoundStep, WorkersTypeOK
<1>a. ASSUME NEW i \in work, StartScreens(i)
      PROVE  Begun
  BY <1>a DEF StartScreens, ScreenedBegun
<1>2. ASSUME NEW i \in work, WorkerStep(i)
      PROVE  SoundStep
  BY <1>2, <1>a, StartIsSound, PairIsSound, AdvanceIsSound, RankIsSound, FailureIsSound
     DEF WorkerStep
<1>3. ASSUME NEW i \in work, Disturbance(i)
      PROVE  SoundStep
  BY <1>3, DisturbanceIsSound
<1> QED
  BY <1>1, <1>2, <1>3, EnvironmentIsSound DEF Next

(* The bounds on retries and faults hold. *)
LEMMA CountersBounded ==
  ASSUME WorkersTypeOK, [Next]_vars
  PROVE  resumes' \in 0..MaxResumes /\ faults' \in 0..MaxFaults
<1>1. CASE UNCHANGED vars
  BY <1>1 DEF vars, WorkersTypeOK
<1>2. CASE CreateMatch \/ RetryMatch
  <2>1. faults' \in 0..MaxFaults
    BY <1>2, DispatchIsItems DEF CreateMatch, RetryMatch, WorkersTypeOK, Jobs, Steps
  <2>2. resumes' \in 0..MaxResumes
    BY <1>2, BoundsAreNat DEF CreateMatch, RetryMatch, WorkersTypeOK
  <2> QED
    BY <2>1, <2>2
<1>3. CASE Retention
  BY <1>3 DEF Retention, WorkersTypeOK
<1>4. ASSUME NEW i \in work, WorkerStep(i) \/ Disturbance(i)
      PROVE  UNCHANGED resumes /\ (UNCHANGED faults \/ \E kind \in FaultKinds : Fault(kind))
  <2>1. CASE StartPrepares(i)
    BY <2>1 DEF StartPrepares, Sound, FaultKinds
  <2>2. CASE PairClaims(i) \/ PairApplies(i)
    BY <2>2 DEF PairClaims, PairApplies, SendAdvance, Sound, FaultKinds
  <2>3. CASE AdvanceMarks(i)
    BY <2>3 DEF AdvanceMarks, FaultKinds
  <2>4. CASE Disturbance(i)
    BY <2>4 DEF Disturbance, DatabaseFails, RetryLost, WorkerLost, Redeliver, FaultKinds
  <2> QED
    BY <1>4, <2>1, <2>2, <2>3, <2>4
       DEF WorkerStep, RecordQueueFailure, StartLoads, StartScreens,
           AdvanceCompensates, RankLoads, RankPublishes, ProviderFails,
           RecordFailure, Sound
<1>5. ASSUME NEW i \in work, WorkerStep(i) \/ Disturbance(i)
      PROVE  resumes' \in 0..MaxResumes /\ faults' \in 0..MaxFaults
  BY <1>4, <1>5, BoundsAreNat DEF Fault, WorkersTypeOK
<1> QED
  BY <1>1, <1>2, <1>3, <1>5 DEF Next

-----------------------------------------------------------------------------
(* The invariant holds before the task is created. *)
LEMMA InitEstablishes ==
  ASSUME Init
  PROVE  IndInv
<1>1. TypeOK
  BY DEF Init, StoreInit, TypeOK, Task, Status, Stage, Cause, PairState
<1>2. Rows = {}
  BY DEF Init, StoreInit, Rows
<1> QED
  BY <1>1, <1>2, BoundsAreNat DEF Init, StoreInit, IndInv, WorkersTypeOK, StoreInv,
     StagesSound, PublishedWhole, OfferSound, RankedWhole, ScreenedBegun

(* Every step keeps it. *)
LEMMA NextPreserves ==
  ASSUME IndInv, [Next]_vars
  PROVE  IndInv'
<1>a. WorkersTypeOK /\ StoreInv /\ RankedWhole /\ ScreenedBegun
  BY DEF IndInv
<1>1. SoundStep
  BY <1>a, NextIsSound
<1>2. StoreInv' /\ (AllPairsSucceeded => AllPairsSucceeded') /\ (Begun => Begun')
  <2>1. CASE StoreStep
    BY <1>a, <2>1, StoreStepKeepsInv, CompleteKept, StoreStepOffer
  <2>2. CASE UNCHANGED store
    <3>1. AllPairsSucceeded' = AllPairsSucceeded
      BY <2>2 DEF store, AllPairsSucceeded, Rows
    <3>2. StagesSound' = StagesSound
      BY <2>2, <3>1 DEF store, StagesSound, Rows
    <3>3. PublishedWhole' = PublishedWhole
      BY <2>2 DEF store, PublishedWhole, SucceededIn
    <3>4. TypeOK' = TypeOK
      BY <2>2 DEF store, TypeOK
    <3>5. OfferSound' = OfferSound /\ Begun' = Begun
      BY <2>2 DEF store, OfferSound, Begun
    <3> QED
      BY <1>a, <3>1, <3>2, <3>3, <3>4, <3>5 DEF StoreInv
  <2> QED
    BY <1>1, <2>1, <2>2 DEF SoundStep
<1>3. WorkersTypeOK'
  BY <1>a, <1>1, <1>2, CountersBounded DEF SoundStep, WorkersTypeOK, StoreInv
<1>4. RankedWhole'
  BY <1>a, <1>1, <1>2 DEF SoundStep, RankedWhole, Ranks
<1>5. ScreenedBegun'
  BY <1>a, <1>1, <1>2 DEF SoundStep, ScreenedBegun, Screens
<1> QED
  BY <1>2, <1>3, <1>4, <1>5 DEF IndInv

(* IndInv is an invariant of the worker graph. *)
THEOREM Invariance == Spec => []IndInv
  BY InitEstablishes, NextPreserves, PTL DEF Spec

(* The columns, rows and messages keep their types; no message is retried   *)
(* beyond the budget of its policy.                                         *)
THEOREM TypesCorrect == Spec => []WorkersTypeOK
<1>1. IndInv => WorkersTypeOK
  BY DEF IndInv
<1> QED
  BY <1>1, Invariance, PTL

(* A Match publishes its whole selection, with one campaign, or nothing:    *)
(* for any number of creators, retries, duplicates and lost workers.        *)
THEOREM PublicationIsWhole == Spec => []PublishedWhole
<1>1. IndInv => PublishedWhole
  BY DEF IndInv, StoreInv
<1> QED
  BY <1>1, Invariance, PTL

(* The ranking model is only ever asked to rank a complete set of briefs.   *)
THEOREM RankingIsComplete == Spec => []RankingComplete
<1>1. IndInv => RankingComplete
  BY DEF IndInv, StoreInv, StagesSound, RankedWhole, RankingComplete
<1> QED
  BY <1>1, Invariance, PTL

-----------------------------------------------------------------------------
(* A transaction, seen by whoever watches the Match, is a step of its       *)
(* lifecycle or none.                                                       *)
seen ==
  <<task.status, task.retryable, selected, SucceededIn(pair), results, campaigns>>

(* Every transaction of the store is such a step. *)
LEMMA StoreStepIsLifecycle ==
  ASSUME StoreInv, StoreInv', StoreStep
  PROVE  Lifecycle!Next \/ UNCHANGED seen
<1>a. TypeOK /\ StagesSound /\ PublishedWhole /\ OfferSound /\ task \in Task
      /\ pair \in [Creators -> PairState] /\ task' \in Task
  BY DEF StoreInv, TypeOK
<1>b. ASSUME UNCHANGED <<inputs, pair, publication>>
      PROVE  UNCHANGED <<selected, SucceededIn(pair), results, campaigns>>
  BY <1>b DEF inputs, publication
<1>c. ASSUME UNCHANGED <<inputs, pair, publication>>, task.status \in {"queued", "running"},
             task'.status = "failed"
      PROVE  Lifecycle!Fail
  BY <1>a, <1>b, <1>c DEF Lifecycle!Fail, Task
<1>d. ASSUME UNCHANGED <<inputs, pair, publication>>, task'.status = task.status,
             task'.retryable = task.retryable
      PROVE  UNCHANGED seen
  BY <1>b, <1>d DEF seen
<1>1. ASSUME NEW eligible \in SUBSET Creators, CreateLockedTask(eligible)
      PROVE  Lifecycle!Create
  <2>1. task'.status = "queued" /\ task'.retryable = task.retryable
    BY <1>1, <1>a DEF CreateLockedTask, Task
  <2> QED
    BY <1>1, <2>1 DEF CreateLockedTask, Lifecycle!Create, publication
<1>3. ASSUME NEW c \in Creators, Claim(c)
      PROVE  UNCHANGED seen
  <2>1. SucceededIn(pair') = SucceededIn(pair)
    BY <1>3, <1>a DEF Claim, Claimable, SucceededIn
  <2> QED
    BY <1>3, <2>1 DEF Claim, seen, inputs, publication, SucceededIn
<1>7. ASSUME LoadScreening
      PROVE  Lifecycle!Begin \/ UNCHANGED seen
  <2>1. task'.status = "running" /\ task'.retryable = task.retryable
    BY <1>7, <1>a DEF LoadScreening, Task
  <2> QED
    BY <1>7, <1>b, <2>1 DEF LoadScreening, Screenable, Lifecycle!Begin, seen
<1>8. ASSUME Prepare
      PROVE  UNCHANGED seen
  <2>1. SucceededIn(pair') = SucceededIn(pair)
    BY <1>8, <1>a DEF Prepare, Rows, SucceededIn
  <2> QED
    BY <1>8, <2>1 DEF Prepare, seen, inputs, publication, SucceededIn
<1>9. ASSUME MarkRankingEnqueued \/ CompensateRankingEnqueue
      PROVE  UNCHANGED seen
  <2>1. task'.status = task.status /\ task'.retryable = task.retryable
    BY <1>9, <1>a DEF MarkRankingEnqueued, CompensateRankingEnqueue, Task
  <2> QED
    BY <1>9, <1>d, <2>1 DEF MarkRankingEnqueued, CompensateRankingEnqueue
<1>14. ASSUME InputsExpire \/ PurgeInputs
       PROVE  UNCHANGED seen
  <2>1. task'.status = task.status /\ task'.retryable = task.retryable
    BY <1>14, <1>a DEF InputsExpire, PurgeInputs, Task
  <2> QED
    BY <1>14, <1>d, <2>1 DEF InputsExpire, PurgeInputs
<1>2. ASSUME NEW chosen \in SUBSET screened, Begun, ApplyScreening(chosen)
      PROVE  Lifecycle!Next
  <2>1. task.status = "running" /\ ~task.retryable /\ selected = {} /\ Rows = {}
        /\ results = {} /\ campaigns = 0 /\ SucceededIn(pair) = {}
    BY <1>2, <1>a DEF ApplyScreening, Selectable, Begun, OfferSound, StagesSound,
                      PublishedWhole, Rows, SucceededIn
  <2>2. CASE chosen = {}
    <3>1. task'.status = "succeeded" /\ ~task'.retryable /\ campaigns' = 1
          /\ selected' = {} /\ UNCHANGED <<pair, results>>
      BY <1>2, <1>a, <2>1, <2>2 DEF ApplyScreening, Task
    <3>2. task'.retryable = FALSE
      BY <3>1, <1>a DEF Task
    <3> QED
      BY <2>1, <3>1, <3>2 DEF Lifecycle!Next, Lifecycle!Publish
  <2>3. CASE chosen # {}
    <3>1. task'.status = "running" /\ task'.retryable = task.retryable
          /\ selected' = chosen /\ UNCHANGED <<pair, campaigns, results>>
      BY <1>2, <1>a, <2>1, <2>3 DEF ApplyScreening, Task
    <3>2. chosen \in SUBSET Creators
      BY <1>a DEF TypeOK
    <3> QED
      BY <2>1, <2>3, <3>1, <3>2 DEF Lifecycle!Next, Lifecycle!Choose
  <2> QED
    BY <2>2, <2>3
<1>4. ASSUME NEW c \in Creators, ApplySuccess(c)
      PROVE  Lifecycle!Finish(c)
  <2>1. c \in selected /\ task.status \in {"running", "failed"}
    BY <1>4, <1>a DEF ApplySuccess, SuccessApplicable, StagesSound, Rows, Failures
  <2>2. UNCHANGED <<selected, results, campaigns>>
        /\ pair' = [pair EXCEPT ![c] = "succeeded"]
    BY <1>4 DEF ApplySuccess, inputs, publication
  <2>3. SucceededIn(pair') = SucceededIn(pair) \cup {c}
    BY <1>a, <2>2 DEF SucceededIn
  <2>4. task'.status \in {"running", "failed"}
    BY <1>4, <1>a, <2>1 DEF ApplySuccess, FailedByPairs, Task
  <2>5. task'.retryable \in BOOLEAN /\ (task'.status = "running" => task'.retryable = FALSE)
    BY <1>a DEF StoreInv, OfferSound, Task
  <2> QED
    BY <2>1, <2>2, <2>3, <2>4, <2>5 DEF Lifecycle!Finish
<1>5. ASSUME NEW c \in Creators, NEW failure \in Failures, FailPair(c, failure)
      PROVE  Lifecycle!Fail \/ UNCHANGED seen
  <2>1. CASE pair[c] \in {"absent", "succeeded"}
    BY <1>5, <2>1 DEF FailPair, store, seen
  <2>2. CASE pair[c] \notin {"absent", "succeeded"}
    <3>1. pair' = [pair EXCEPT ![c] = failure]
          /\ UNCHANGED <<selected, results, campaigns>>
      BY <1>5, <2>2 DEF FailPair, inputs, publication
    <3>2. SucceededIn(pair') = SucceededIn(pair)
      BY <1>a, <2>2, <3>1 DEF SucceededIn, Failures
    <3>3. task.status \notin {"none", "succeeded"}
      BY <1>a, <2>2, PublishedIsFinal DEF StagesSound, Rows
    <3>4. CASE task.status = "superseded"
      BY <1>5, <2>2, <3>1, <3>2, <3>4 DEF FailPair, seen
    <3>5. CASE task.status # "superseded"
      <4>1. task'.status = "failed" /\ task'.retryable \in BOOLEAN
        BY <1>5, <1>a, <2>2, <3>3, <3>5 DEF FailPair, FailedByPairs, Task
      <4> QED
        BY <1>a, <3>1, <3>2, <3>3, <3>5, <4>1 DEF Lifecycle!Fail, Task, Status
    <3> QED
      BY <3>4, <3>5
  <2> QED
    BY <2>1, <2>2
<1>6. ASSUME NEW failure \in Failures, FailTask(failure)
      PROVE  Lifecycle!Fail \/ UNCHANGED seen
  <2>1. CASE task.status \in {"none", "succeeded", "superseded", "failed"}
    BY <1>6, <1>d, <2>1 DEF FailTask
  <2>2. CASE task.status \notin {"none", "succeeded", "superseded", "failed"}
    <3>1. task'.status = "failed" /\ task.status \in {"queued", "running"}
      BY <1>6, <1>a, <2>2 DEF FailTask, Task, Status
    <3> QED
      BY <1>6, <1>c, <3>1 DEF FailTask
  <2> QED
    BY <2>1, <2>2
<1>11. ASSUME Publish
       PROVE  Lifecycle!Publish
  <2>1. selected # {} /\ SucceededIn(pair) = selected /\ campaigns = 0
        /\ task.status \in {"running", "failed"}
    BY <1>11, <1>a DEF Publish, Publishable, PublishedWhole, AllPairsSucceeded,
                       Rows, SucceededIn
  <2>2. task'.status = "succeeded" /\ task'.retryable = FALSE
    BY <1>11, <1>a DEF Publish, Task
  <2> QED
    BY <1>11, <2>1, <2>2 DEF Publish, Lifecycle!Publish, inputs
<1>12. ASSUME ResumeInPlace
       PROVE  Lifecycle!Resume
  <2>1. task'.status = "running" /\ task'.retryable = FALSE
    BY <1>12, <1>a DEF ResumeInPlace, Task
  <2> QED
    BY <1>12, <1>b, <2>1 DEF ResumeInPlace, RetryOffered, Lifecycle!Resume
<1>15. ASSUME Supersede
       PROVE  Lifecycle!Supersede
  <2>1. task'.status = "superseded" /\ task'.retryable = FALSE
    BY <1>15, <1>a DEF Supersede, Task
  <2> QED
    BY <1>15, <1>b, <2>1 DEF Supersede, RetryOffered, Lifecycle!Supersede
<1>13. ASSUME MarkQueueFailure
       PROVE  Lifecycle!Fail \/ UNCHANGED seen
  <2>1. CASE task.status \in {"queued", "running"}
    <3>1. task'.status = "failed"
      BY <1>13, <1>a, <2>1 DEF MarkQueueFailure, Task
    <3> QED
      BY <1>13, <1>c, <2>1, <3>1 DEF MarkQueueFailure
  <2>2. CASE task.status \notin {"queued", "running"}
    BY <1>13, <1>d, <2>2 DEF MarkQueueFailure
  <2> QED
    BY <2>1, <2>2
<1> QED
  BY <1>1, <1>2, <1>3, <1>4, <1>5, <1>6, <1>7, <1>8, <1>9, <1>11, <1>12, <1>13,
     <1>14, <1>15 DEF StoreStep, Lifecycle!Next

(* The worker graph, with all its faults, implements the lifecycle a client *)
(* of the API is promised.                                                  *)
THEOREM LifecycleImplemented == Spec => ImplementsLifecycle
<1>1. Init => Lifecycle!Init
  <2> SUFFICES ASSUME Init PROVE Lifecycle!Init
    OBVIOUS
  <2>2. SucceededIn(pair) = {}
    BY DEF Init, StoreInit, SucceededIn
  <2> QED
    BY <2>2 DEF Init, StoreInit, Lifecycle!Init
<1>2. IndInv /\ IndInv' /\ [Next]_vars => [Lifecycle!Next]_Lifecycle!vars
  <2> SUFFICES ASSUME IndInv, IndInv', [Next]_vars
               PROVE  [Lifecycle!Next]_Lifecycle!vars
    OBVIOUS
  <2>2. SoundStep
    BY NextIsSound DEF IndInv
  <2>3. Lifecycle!Next \/ UNCHANGED seen
    <3>1. CASE StoreStep
      BY <3>1, StoreStepIsLifecycle DEF IndInv
    <3>2. CASE UNCHANGED store
      BY <3>2 DEF store, seen, SucceededIn
    <3> QED
      BY <2>2, <3>1, <3>2 DEF SoundStep
  <2> QED
    BY <2>3 DEF seen, Lifecycle!vars
<1> QED
  BY <1>1, <1>2, Invariance, PTL DEF Spec, ImplementsLifecycle, Lifecycle!Spec

-----------------------------------------------------------------------------
(* Failures and progress.  Whoever fails a Match for another reason than    *)
(* its pairs finds no pair that failed for good, so that the blame is       *)
(* always that of the pairs as they are; and what is counted is what is     *)
(* checkpointed.                                                            *)


Lasting(p) == \E c \in Creators : p[c] = "permanent"

(* A task blames its pairs exactly for the failures they have, and one that *)
(* does not blame them has none that is permanent.                          *)
BlameSound ==
  /\ task.status = "failed" /\ task.cause = "pairs" =>
       /\ FailedIn(pair) # {}
       /\ task.retryable <=> \A c \in FailedIn(pair) : pair[c] = "retryable"
  /\ task.status \in {"none", "queued", "running"} => ~Lasting(pair)
  /\ task.status = "failed" /\ task.cause # "pairs" => ~Lasting(pair)

(* The snapshots are purged only after they have expired.                   *)
InputsKept == task.status = "none" \/ task.live \/ task.expired

Accounts == BlameSound /\ InputsKept /\ UnitsCounted

-----------------------------------------------------------------------------
(* What the transactions write that these depend on *)

LEMMA TaskIs ==
  ASSUME StoreInv
  PROVE  /\ task \in Task /\ pair \in [Creators -> PairState]
         /\ selected \in SUBSET Creators /\ screened \in SUBSET Creators
BY DEF StoreInv, TypeOK

(* Rows that are not there have not failed.                                 *)
LEMMA NoRowsNoBlame ==
  ASSUME StoreInv, Rows = {}
  PROVE  ~Lasting(pair) /\ FailedIn(pair) = {} /\ SucceededIn(pair) = {}
BY DEF Rows, Lasting, FailedIn, SucceededIn, Failures

LEMMA FailedByPairsIs ==
  ASSUME StoreInv, NEW p
  PROVE  /\ FailedByPairs(p).status = "failed" /\ FailedByPairs(p).cause = "pairs"
         /\ FailedByPairs(p).retryable <=> \A c \in FailedIn(p) : p[c] = "retryable"
         /\ FailedByPairs(p).stage = task.stage /\ FailedByPairs(p).units = task.units
         /\ FailedByPairs(p).total = task.total /\ FailedByPairs(p).live = task.live
         /\ FailedByPairs(p).expired = task.expired
         /\ FailedByPairs(p) \in Task
<1>1. task \in Task
  BY TaskIs
<1> DEFINE r == \A c \in FailedIn(p) : p[c] = "retryable"
<1>2. r \in BOOLEAN
  OBVIOUS
<1>3. FailedByPairs(p) = [task EXCEPT !.status = "failed", !.cause = "pairs", !.retryable = r]
  BY DEF FailedByPairs
<1> HIDE DEF r
<1>4. /\ FailedByPairs(p).status = "failed" /\ FailedByPairs(p).cause = "pairs"
      /\ FailedByPairs(p).retryable = r
      /\ FailedByPairs(p).stage = task.stage /\ FailedByPairs(p).units = task.units
      /\ FailedByPairs(p).total = task.total /\ FailedByPairs(p).live = task.live
      /\ FailedByPairs(p).expired = task.expired /\ FailedByPairs(p) \in Task
  BY <1>1, <1>2, <1>3 DEF Task, Status, Cause
<1> QED
  BY <1>4 DEF r

(* A late success clears the blame that it has taken away, or passes it on. *)
LEMMA SuccessIs ==
  ASSUME StoreInv, NEW c \in Creators, ApplySuccess(c)
  PROVE  LET after == [pair EXCEPT ![c] = "succeeded"]
         IN /\ pair' = after
            /\ task'.units = Least(1 + Cardinality(SucceededIn(after)), task.total)
            /\ task'.total = task.total /\ task'.stage = task.stage
            /\ task'.live = task.live /\ task'.expired = task.expired
            /\ task.status \in {"running", "failed"} /\ task.stage = "pairwise"
            /\ \/ /\ FailedIn(after) # {} /\ task'.status = "failed" /\ task'.cause = "pairs"
                  /\ task'.retryable <=> \A e \in FailedIn(after) : after[e] = "retryable"
               \/ /\ FailedIn(after) = {} /\ task'.status = "running"
               \/ /\ FailedIn(after) = {}
                  /\ task'.status = task.status /\ task'.cause = task.cause
                  /\ task'.retryable = task.retryable
                  /\ ~(task.status = "failed" /\ task.cause = "pairs" /\ pair[c] \in Failures)
<1> DEFINE after == [pair EXCEPT ![c] = "succeeded"]
           owned == /\ task.status = "failed" /\ task.cause = "pairs" /\ pair[c] \in Failures
           blamed == FailedByPairs(after)
           freed == [task EXCEPT !.status = "running", !.cause = "none", !.retryable = FALSE]
           settled == IF FailedIn(after) # {} THEN blamed ELSE IF owned THEN freed ELSE task
           n == Least(1 + Cardinality(SucceededIn(after)), task.total)
<1>0. task \in Task
  BY TaskIs
<1>1. /\ pair' = after /\ task' = [settled EXCEPT !.units = n]
      /\ task.status \in {"running", "failed"} /\ task.stage = "pairwise"
  BY DEF ApplySuccess, SuccessApplicable
<1>2. /\ freed \in Task /\ freed.status = "running" /\ freed.stage = task.stage
      /\ freed.total = task.total /\ freed.live = task.live /\ freed.expired = task.expired
  BY <1>0 DEF Task, Status, Cause
<1>3. /\ blamed.status = "failed" /\ blamed.cause = "pairs"
      /\ blamed.retryable <=> \A e \in FailedIn(after) : after[e] = "retryable"
      /\ blamed.stage = task.stage /\ blamed.total = task.total /\ blamed.live = task.live
      /\ blamed.expired = task.expired /\ blamed \in Task
  BY FailedByPairsIs
<1> HIDE DEF after, owned, blamed, freed, n
<1>4. /\ settled \in Task /\ settled.stage = task.stage /\ settled.total = task.total
      /\ settled.live = task.live /\ settled.expired = task.expired
  BY <1>0, <1>2, <1>3
<1>5. \/ FailedIn(after) # {} /\ settled = blamed
      \/ FailedIn(after) = {} /\ settled = freed
      \/ FailedIn(after) = {} /\ settled = task /\ ~owned
  OBVIOUS
<1> HIDE DEF settled
<1>6. /\ task'.units = n /\ task'.stage = settled.stage /\ task'.total = settled.total
      /\ task'.live = settled.live /\ task'.expired = settled.expired
      /\ task'.status = settled.status /\ task'.cause = settled.cause
      /\ task'.retryable = settled.retryable
  BY <1>1, <1>4 DEF Task
<1>7. \/ /\ FailedIn(after) # {} /\ task'.status = "failed" /\ task'.cause = "pairs"
         /\ task'.retryable <=> \A e \in FailedIn(after) : after[e] = "retryable"
      \/ FailedIn(after) = {} /\ task'.status = "running"
      \/ /\ FailedIn(after) = {} /\ task'.status = task.status /\ task'.cause = task.cause
         /\ task'.retryable = task.retryable /\ ~owned
  BY <1>2, <1>3, <1>5, <1>6
<1> QED
  BY <1>1, <1>4, <1>6, <1>7 DEF after, owned, n

-----------------------------------------------------------------------------
(* Progress *)

(* What is checkpointed is selected.                                        *)
LEMMA CheckpointsFit ==
  ASSUME StoreInv, task.stage # "screening", NEW p,
         \A c \in Creators : p[c] = "succeeded" => pair[c] # "absent"
  PROVE  /\ Cardinality(SucceededIn(p)) \in Nat /\ Cardinality(selected) \in Nat
         /\ Cardinality(SucceededIn(p)) <= Cardinality(selected)
<1>1. SucceededIn(p) \subseteq selected /\ selected \in SUBSET Creators
  BY TaskIs DEF StoreInv, StagesSound, SucceededIn, Rows
<1>2. IsFiniteSet(selected)
  BY <1>1, CreatorsAreFinite, FS_Subset
<1> QED
  BY <1>1, <1>2, FS_Subset, FS_CardinalityType

(* Transactions that write neither the columns counted nor a checkpoint.    *)
LEMMA SameCount ==
  ASSUME UnitsCounted, task'.stage = task.stage, task'.units = task.units, task'.total = task.total,
         UNCHANGED selected, SucceededIn(pair)' = SucceededIn(pair),
         task'.status # "succeeded", task.status # "succeeded"
  PROVE  UnitsCounted'
BY DEF UnitsCounted

LEMMA StoreStepCounts ==
  ASSUME StoreInv, StoreInv', UnitsCounted, StoreStep
  PROVE  UnitsCounted'
<1>0. task \in Task /\ pair \in [Creators -> PairState] /\ selected \in SUBSET Creators
  BY TaskIs
<1>1. ASSUME NEW eligible \in SUBSET Creators, CreateLockedTask(eligible) PROVE UnitsCounted'
  <2>1. /\ task'.stage = task.stage /\ task'.units = task.units /\ task'.total = task.total
        /\ task'.status = "queued" /\ task.status = "none" /\ UNCHANGED <<selected, pair>>
    BY <1>0, <1>1 DEF CreateLockedTask, Task
  <2> QED
    BY <2>1, SameCount DEF SucceededIn
<1>2. ASSUME NEW chosen \in SUBSET screened, ApplyScreening(chosen) PROVE UnitsCounted'
  <2>0. chosen \in SUBSET Creators /\ Cardinality(chosen) \in Nat
    BY TaskIs, SizeIsNat
  <2>1. CASE chosen = {}
    <3>1. task' = [task EXCEPT !.status = "succeeded", !.units = 1, !.total = 1]
      BY <1>2, <2>1 DEF ApplyScreening
    <3>2. task'.status = "succeeded" /\ task'.units = 1 /\ task'.total = 1
      BY <1>0, <3>1 DEF Task
    <3> QED
      BY <3>2 DEF UnitsCounted
  <2>2. CASE chosen # {}
    <3>1. task' = [task EXCEPT !.status = "running", !.stage = "pairwise",
                               !.units = 1, !.total = Cardinality(chosen) + 2]
      BY <1>2, <2>2 DEF ApplyScreening
    <3>2. /\ task'.status = "running" /\ task'.stage = "pairwise" /\ task'.units = 1
          /\ task'.total = Cardinality(chosen) + 2
      BY <1>0, <3>1 DEF Task
    <3>3. selected' = chosen /\ UNCHANGED pair /\ Rows = {}
      BY <1>2 DEF ApplyScreening, Selectable, StoreInv, StagesSound
    <3>4. SucceededIn(pair)' = {}
      BY <3>3, NoRowsNoBlame DEF SucceededIn
    <3>5. Cardinality(SucceededIn(pair)') = 0
      BY <3>4, FS_EmptySet
    <3> QED
      BY <2>0, <3>2, <3>3, <3>5 DEF UnitsCounted
  <2> QED
    BY <2>1, <2>2
<1>3. ASSUME NEW c \in Creators, Claim(c) PROVE UnitsCounted'
  <2>1. SucceededIn(pair)' = SucceededIn(pair)
    BY <1>0, <1>3 DEF Claim, Claimable, SucceededIn
  <2> QED
    BY <1>3, <2>1, SameCount DEF Claim, Claimable, inputs
<1>4. ASSUME NEW c \in Creators, ApplySuccess(c) PROVE UnitsCounted'
  <2> DEFINE after == [pair EXCEPT ![c] = "succeeded"]
             n == Cardinality(SucceededIn(after))
  <2>1. /\ pair' = after /\ UNCHANGED selected
        /\ task'.units = Least(1 + n, task.total)
        /\ task'.total = task.total /\ task'.stage = task.stage
        /\ task.stage = "pairwise" /\ task.status \in {"running", "failed"}
        /\ task'.status \in {"running", "failed"}
    <3>1. UNCHANGED selected
      BY <1>4 DEF ApplySuccess, inputs
    <3> QED
      BY <1>4, <3>1, SuccessIs
  <2>2. pair[c] # "absent"
    BY <1>4 DEF ApplySuccess, SuccessApplicable, Failures
  <2>3. \A e \in Creators : after[e] = "succeeded" => pair[e] # "absent"
    BY <1>0, <2>2
  <2>4. n \in Nat /\ Cardinality(selected) \in Nat /\ n <= Cardinality(selected)
    BY <2>1, <2>3, CheckpointsFit
  <2>5. task.total = Cardinality(selected) + 2
    BY <2>1 DEF UnitsCounted
  <2> HIDE DEF n
  <2>6. task'.units = 1 + n /\ task'.units <= task'.total
    BY <2>1, <2>4, <2>5 DEF Least
  <2>7. n = Cardinality(SucceededIn(pair)')
    BY <2>1 DEF n, SucceededIn
  <2> QED
    BY <2>1, <2>5, <2>6, <2>7 DEF UnitsCounted
<1>5. ASSUME NEW c \in Creators, NEW failure \in Failures, FailPair(c, failure) PROVE UnitsCounted'
  <2>1. CASE UNCHANGED store
    BY <2>1 DEF store, UnitsCounted, SucceededIn
  <2>2. CASE /\ pair[c] \notin {"absent", "succeeded"}
             /\ pair' = [pair EXCEPT ![c] = failure] /\ UNCHANGED inputs
    <3>1. SucceededIn(pair)' = SucceededIn(pair) /\ UNCHANGED selected
      BY <1>0, <2>2 DEF SucceededIn, Failures, inputs
    <3>2. CASE UNCHANGED task
      BY <3>1, <3>2 DEF UnitsCounted
    <3>3. CASE task' = FailedByPairs(pair') /\ task.status \notin {"succeeded", "superseded"}
      <4>1. /\ task'.stage = task.stage /\ task'.units = task.units
            /\ task'.total = task.total /\ task'.status = "failed"
        BY <3>3, FailedByPairsIs
      <4> QED
        BY <3>1, <3>3, <4>1, SameCount
    <3> QED
      BY <1>5, <2>2, <3>2, <3>3 DEF FailPair
  <2> QED
    BY <1>5, <2>1, <2>2 DEF FailPair
<1>6. ASSUME UNCHANGED <<selected, pair>>, task'.stage = task.stage, task'.units = task.units,
             task'.total = task.total, task'.status = "succeeded" <=> task.status = "succeeded"
      PROVE  UnitsCounted'
  BY <1>6 DEF UnitsCounted, SucceededIn
<1>7. ASSUME NEW failure \in Failures, FailTask(failure) PROVE UnitsCounted'
  BY <1>0, <1>6, <1>7 DEF FailTask, inputs, Task
<1>8. CASE LoadScreening
  BY <1>0, <1>6, <1>8 DEF LoadScreening, Screenable, inputs, Task
<1>9. CASE Prepare
  <2>1. SucceededIn(pair)' = SucceededIn(pair)
    BY <1>0, <1>9 DEF Prepare, SucceededIn, Rows
  <2> QED
    BY <1>9, <2>1, SameCount DEF Prepare, Preparable, inputs
<1>10. CASE MarkRankingEnqueued
  <2>1. AllPairsSucceeded /\ UNCHANGED <<selected, pair>> /\ task.status = "running"
    BY <1>10 DEF MarkRankingEnqueued, RankingDue, inputs
  <2>2. SucceededIn(pair) = selected
    BY <1>0, <2>1 DEF AllPairsSucceeded, SucceededIn, Rows
  <2>3. /\ task'.status = task.status /\ task'.stage = "ranking" /\ task'.total = task.total
        /\ task'.units = Cardinality(selected) + 1
    BY <1>0, <1>10 DEF MarkRankingEnqueued, Task
  <2>4. Cardinality(selected) \in Nat /\ task.total = Cardinality(selected) + 2
    BY <1>0, <2>1, SizeIsNat DEF AllPairsSucceeded
  <2> QED
    BY <2>1, <2>2, <2>3, <2>4 DEF UnitsCounted, SucceededIn
<1>11. CASE CompensateRankingEnqueue
  <2>1. CASE task' = task
    BY <1>6, <1>11, <2>1 DEF CompensateRankingEnqueue, inputs
  <2>2. CASE /\ task.status = "running" /\ task.stage = "ranking"
             /\ task' = [task EXCEPT !.stage = "pairwise", !.ranked = FALSE,
                           !.units = Least(1 + Cardinality(SucceededIn(pair)), task.total)]
    <3>1. /\ task'.status = task.status /\ task'.stage = "pairwise" /\ task'.total = task.total
          /\ task'.units = Least(1 + Cardinality(SucceededIn(pair)), task.total)
      BY <1>0, <2>2 DEF Task
    <3>2. /\ 1 + Cardinality(SucceededIn(pair)) <= task.total
          /\ task.total = Cardinality(selected) + 2
      BY <2>2 DEF UnitsCounted
    <3>3. Cardinality(SucceededIn(pair)) \in Nat /\ Cardinality(selected) \in Nat
      BY <1>0, SizeIsNat DEF SucceededIn
    <3> QED
      BY <1>11, <2>2, <3>1, <3>2, <3>3 DEF UnitsCounted, CompensateRankingEnqueue, inputs, SucceededIn, Least
  <2> QED
    BY <1>11, <2>1, <2>2 DEF CompensateRankingEnqueue
<1>12. CASE Publish
  <2>1. task'.status = "succeeded" /\ task'.units = task.total /\ task'.total = task.total
    BY <1>0, <1>12 DEF Publish, Task
  <2> QED
    BY <2>1 DEF UnitsCounted
<1>13. CASE ResumeInPlace \/ Supersede \/ MarkQueueFailure
  BY <1>0, <1>6, <1>13 DEF ResumeInPlace, Supersede, RetryOffered, MarkQueueFailure, inputs, Task
<1>14. CASE InputsExpire \/ PurgeInputs
  BY <1>0, <1>6, <1>14 DEF InputsExpire, PurgeInputs, inputs, Task
<1> QED
  BY <1>1, <1>2, <1>3, <1>4, <1>5, <1>7, <1>8, <1>9, <1>10, <1>11, <1>12, <1>13, <1>14
     DEF StoreStep

-----------------------------------------------------------------------------
(* Blame *)

(* A task that does not blame its pairs, before and after.                  *)
LEMMA Blameless ==
  ASSUME ~Lasting(pair'), task'.status = "failed" => task'.cause # "pairs"
  PROVE  BlameSound'
BY DEF BlameSound, Lasting

(* Transactions that write neither a pair nor the columns of a failure.     *)
LEMMA SameBlame ==
  ASSUME BlameSound, UNCHANGED pair, task'.status = task.status, task'.cause = task.cause,
         task'.retryable = task.retryable
  PROVE  BlameSound'
BY DEF BlameSound, Lasting, FailedIn

LEMMA StoreStepBlames ==
  ASSUME StoreInv, BlameSound, StoreStep
  PROVE  BlameSound'
<1>0. task \in Task /\ pair \in [Creators -> PairState]
  BY TaskIs
<1>1. ASSUME NEW eligible \in SUBSET Creators, CreateLockedTask(eligible) PROVE BlameSound'
  <2>1. task.status = "none" /\ task'.status = "queued" /\ UNCHANGED pair
    BY <1>0, <1>1 DEF CreateLockedTask, Task
  <2> QED
    BY <2>1, Blameless DEF BlameSound, Lasting
<1>2. ASSUME NEW chosen \in SUBSET screened, ApplyScreening(chosen) PROVE BlameSound'
  <2>1. ~Lasting(pair) /\ UNCHANGED pair
    BY <1>2 DEF BlameSound, ApplyScreening, Selectable
  <2>2. task'.status \in {"running", "succeeded"}
    BY <1>0, <1>2 DEF ApplyScreening, Task
  <2> QED
    BY <2>1, <2>2, Blameless DEF Lasting
<1>3. ASSUME NEW c \in Creators, Claim(c) PROVE BlameSound'
  <2>1. task.status = "running" /\ UNCHANGED task /\ pair' = [pair EXCEPT ![c] = "running"]
    BY <1>3 DEF Claim, Claimable
  <2>2. ~Lasting(pair')
    BY <1>0, <2>1 DEF BlameSound, Lasting
  <2> QED
    BY <2>1, <2>2, Blameless
<1>4. ASSUME NEW c \in Creators, ApplySuccess(c) PROVE BlameSound'
  <2> DEFINE after == [pair EXCEPT ![c] = "succeeded"]
  <2>1. /\ pair' = after /\ task.status \in {"running", "failed"}
        /\ \/ /\ FailedIn(after) # {} /\ task'.status = "failed" /\ task'.cause = "pairs"
              /\ task'.retryable <=> \A e \in FailedIn(after) : after[e] = "retryable"
           \/ FailedIn(after) = {} /\ task'.status = "running"
           \/ /\ FailedIn(after) = {} /\ task'.status = task.status /\ task'.cause = task.cause
              /\ ~(task.status = "failed" /\ task.cause = "pairs" /\ pair[c] \in Failures)
    BY <1>4, SuccessIs
  <2>2. FailedIn(after) = {} => ~Lasting(after)
    BY DEF FailedIn, Lasting, Failures
  <2>3. ASSUME FailedIn(after) = {}, FailedIn(pair) # {} PROVE pair[c] \in Failures
    <3>1. \A e \in Creators : e # c => after[e] = pair[e]
      BY <1>0
    <3> QED
      BY <2>3, <3>1 DEF FailedIn
  <2> HIDE DEF after
  <2>4. CASE FailedIn(after) # {}
    BY <2>1, <2>4 DEF BlameSound
  <2>5. CASE FailedIn(after) = {}
    <3>1. task'.status = "failed" => task'.cause # "pairs"
      BY <2>1, <2>3, <2>5 DEF BlameSound
    <3> QED
      BY <2>1, <2>2, <2>5, <3>1, Blameless
  <2> QED
    BY <2>4, <2>5
<1>5. ASSUME NEW c \in Creators, NEW failure \in Failures, FailPair(c, failure) PROVE BlameSound'
  <2> DEFINE after == [pair EXCEPT ![c] = failure]
  <2>1. CASE UNCHANGED store
    BY <2>1, SameBlame DEF store
  <2>2. CASE pair' = after /\ task' = FailedByPairs(after)
    <3>1. c \in FailedIn(after)
      BY <1>0 DEF FailedIn
    <3>2. /\ task'.status = "failed" /\ task'.cause = "pairs"
          /\ task'.retryable <=> \A e \in FailedIn(after) : after[e] = "retryable"
      BY <2>2, FailedByPairsIs
    <3> HIDE DEF after
    <3> QED
      BY <2>2, <3>1, <3>2 DEF BlameSound
  <2>3. CASE task.status \in {"succeeded", "superseded"} /\ UNCHANGED task
    BY <2>3 DEF BlameSound
  <2> QED
    BY <1>5, <2>1, <2>2, <2>3 DEF FailPair
<1>6. ASSUME NEW failure \in Failures, FailTask(failure) PROVE BlameSound'
  <2>1. CASE UNCHANGED task
    BY <1>6, <2>1, SameBlame DEF FailTask
  <2>2. CASE /\ task.status \notin {"none", "succeeded", "superseded", "failed"}
             /\ task' = [task EXCEPT !.status = "failed", !.cause = "task",
                                     !.retryable = (failure = "retryable")]
    <3>1. task'.status = "failed" /\ task'.cause = "task" /\ UNCHANGED pair
      BY <1>0, <1>6, <2>2 DEF FailTask, Task
    <3>2. ~Lasting(pair)
      BY <1>0, <2>2 DEF BlameSound, Task, Status
    <3> QED
      BY <3>1, <3>2, Blameless
  <2> QED
    BY <1>6, <2>1, <2>2 DEF FailTask
<1>7. CASE LoadScreening
  <2>1. task.status \in {"queued", "running"} /\ task'.status = "running" /\ UNCHANGED pair
    BY <1>0, <1>7 DEF LoadScreening, Screenable, Task
  <2> QED
    BY <2>1, Blameless DEF BlameSound
<1>8. CASE Prepare
  <2>1. /\ task.status = "running" /\ UNCHANGED task
        /\ \A c \in Creators : pair'[c] \in {"queued", pair[c]}
    BY <1>8 DEF Prepare, Preparable
  <2>2. ~Lasting(pair')
    BY <2>1 DEF BlameSound, Lasting
  <2> QED
    BY <2>1, <2>2, Blameless
<1>9. CASE MarkRankingEnqueued \/ CompensateRankingEnqueue
  <2>1. task'.status = task.status /\ task'.cause = task.cause /\ task'.retryable = task.retryable
        /\ UNCHANGED pair
    BY <1>0, <1>9 DEF MarkRankingEnqueued, CompensateRankingEnqueue, Task
  <2> QED
    BY <2>1, SameBlame
<1>10. CASE Publish \/ Supersede
  <2>1. task'.status \in {"succeeded", "superseded"}
    BY <1>0, <1>10 DEF Publish, Supersede, Task
  <2> QED
    BY <2>1 DEF BlameSound
<1>11. CASE ResumeInPlace
  <2>1. task'.status = "running" /\ UNCHANGED pair
    BY <1>0, <1>11 DEF ResumeInPlace, Task
  <2>2. ~Lasting(pair)
    <3>1. CASE task.stage = "screening"
      BY <3>1, NoRowsNoBlame DEF StoreInv, StagesSound
    <3>2. CASE task.stage = "pairwise"
      BY <1>11, <3>2 DEF ResumeInPlace, Resumable, Lasting
    <3>3. CASE task.stage = "ranking"
      BY <3>3 DEF StoreInv, StagesSound, AllPairsSucceeded, Rows, Lasting
    <3> QED
      BY <1>0, <3>1, <3>2, <3>3 DEF Task, Stage
  <2> QED
    BY <2>1, <2>2, Blameless
<1>12. CASE MarkQueueFailure
  <2>1. CASE UNCHANGED task
    BY <1>12, <2>1, SameBlame DEF MarkQueueFailure
  <2>2. CASE /\ task.status \in {"queued", "running"}
             /\ task' = [task EXCEPT !.status = "failed", !.cause = "queue", !.retryable = TRUE]
    <3>1. task'.status = "failed" /\ task'.cause = "queue" /\ UNCHANGED pair
      BY <1>0, <1>12, <2>2 DEF MarkQueueFailure, Task
    <3> QED
      BY <2>2, <3>1, Blameless DEF BlameSound
  <2> QED
    BY <1>12, <2>1, <2>2 DEF MarkQueueFailure
<1>13. CASE InputsExpire \/ PurgeInputs
  BY <1>0, <1>13, SameBlame DEF InputsExpire, PurgeInputs, Task
<1> QED
  BY <1>1, <1>2, <1>3, <1>4, <1>5, <1>6, <1>7, <1>8, <1>9, <1>10, <1>11, <1>12, <1>13
     DEF StoreStep

-----------------------------------------------------------------------------
(* Inputs *)

LEMMA StoreStepKeepsInputs ==
  ASSUME StoreInv, InputsKept, StoreStep
  PROVE  InputsKept'
<1>0. task \in Task
  BY TaskIs
<1>1. ASSUME task'.live = task.live, task'.expired = task.expired,
             task.status = "none" => task'.status = "none"
      PROVE  InputsKept'
  BY <1>1 DEF InputsKept
<1>2. ASSUME NEW eligible \in SUBSET Creators, CreateLockedTask(eligible) PROVE InputsKept'
  <2>1. task'.live
    BY <1>0, <1>2 DEF CreateLockedTask, Task
  <2> QED
    BY <2>1 DEF InputsKept
<1>3. ASSUME NEW chosen \in SUBSET screened, ApplyScreening(chosen) PROVE InputsKept'
  <2>1. task'.live = task.live /\ task'.expired = task.expired /\ task.status # "none"
    BY <1>0, <1>3 DEF ApplyScreening, Selectable, Task
  <2> QED
    BY <1>1, <2>1
<1>4. ASSUME NEW c \in Creators, Claim(c) PROVE InputsKept'
  BY <1>1, <1>4 DEF Claim
<1>5. ASSUME NEW c \in Creators, ApplySuccess(c) PROVE InputsKept'
  <2>1. task'.live = task.live /\ task'.expired = task.expired /\ task.status # "none"
    BY <1>5, SuccessIs
  <2> QED
    BY <1>1, <2>1
<1>6. ASSUME NEW c \in Creators, NEW failure \in Failures, FailPair(c, failure) PROVE InputsKept'
  <2>1. CASE UNCHANGED task
    BY <1>1, <2>1
  <2>2. CASE pair[c] # "absent" /\ task' = FailedByPairs(pair')
    <3>1. task'.live = task.live /\ task'.expired = task.expired
      BY <2>2, FailedByPairsIs
    <3>2. task.status # "none"
      BY <2>2 DEF StoreInv, StagesSound, Rows
    <3> QED
      BY <1>1, <3>1, <3>2
  <2> QED
    BY <1>6, <2>1, <2>2 DEF FailPair, store
<1>7. ASSUME NEW failure \in Failures, FailTask(failure) PROVE InputsKept'
  BY <1>0, <1>1, <1>7 DEF FailTask, Task
<1>8. CASE LoadScreening \/ Prepare
  BY <1>0, <1>1, <1>8 DEF LoadScreening, Screenable, Prepare, Task
<1>9. CASE MarkRankingEnqueued \/ CompensateRankingEnqueue \/ Publish
  BY <1>0, <1>1, <1>9
     DEF MarkRankingEnqueued, RankingDue, CompensateRankingEnqueue, Publish, Publishable, Task
<1>10. CASE ResumeInPlace \/ Supersede \/ MarkQueueFailure
  BY <1>0, <1>1, <1>10 DEF ResumeInPlace, Supersede, RetryOffered, MarkQueueFailure, Task
<1>11. CASE InputsExpire \/ PurgeInputs
  <2>1. task'.expired
    BY <1>0, <1>11 DEF InputsExpire, PurgeInputs, Task
  <2> QED
    BY <2>1 DEF InputsKept
<1> QED
  BY <1>2, <1>3, <1>4, <1>5, <1>6, <1>7, <1>8, <1>9, <1>10, <1>11 DEF StoreStep

-----------------------------------------------------------------------------
(* The theorems *)

THEOREM AccountsInvariance == Spec => [](IndInv /\ Accounts)
<1>1. Init => IndInv /\ Accounts
  <2> SUFFICES ASSUME Init PROVE Accounts
    BY InitEstablishes
  <2>1. /\ task.status = "none" /\ task.stage = "screening" /\ task.units = 0 /\ task.total = 0
        /\ \A c \in Creators : pair[c] = "absent"
    BY DEF Init, StoreInit
  <2> QED
    BY <2>1 DEF Accounts, BlameSound, InputsKept, UnitsCounted, Lasting
<1>2. IndInv /\ Accounts /\ [Next]_vars => (IndInv /\ Accounts)'
  <2> SUFFICES ASSUME IndInv, Accounts, [Next]_vars PROVE IndInv' /\ Accounts'
    OBVIOUS
  <2>1. IndInv' /\ StoreInv /\ StoreInv'
    BY NextPreserves DEF IndInv
  <2>2. StoreStep \/ UNCHANGED store
    BY NextIsSound DEF SoundStep, IndInv
  <2>3. CASE StoreStep
    BY <2>1, <2>3, StoreStepBlames, StoreStepKeepsInputs, StoreStepCounts DEF Accounts
  <2>4. CASE UNCHANGED store
    <3>1. UNCHANGED <<task, pair, selected>>
      BY <2>4 DEF store
    <3>2. BlameSound' /\ InputsKept'
      BY <3>1, SameBlame DEF Accounts, InputsKept
    <3>3. UnitsCounted'
      BY <3>1 DEF Accounts, UnitsCounted, SucceededIn
    <3> QED
      BY <2>1, <3>2, <3>3 DEF Accounts
  <2> QED
    BY <2>1, <2>2, <2>3, <2>4
<1> QED
  BY <1>1, <1>2, PTL DEF Spec

(* The error a failed Match reports is that of its pairs as they are now.   *)
THEOREM FailuresAccounted == Spec => []FailureAccounted
<1>1. Accounts => FailureAccounted
  BY DEF Accounts, BlameSound, FailureAccounted, Lasting
<1> QED
  BY <1>1, AccountsInvariance, PTL

(* The retry that a failed Match offers is not refused while its inputs     *)
(* have not expired: whatever failed it left a checkpoint to resume from.   *)
THEOREM RetryIsAccepted == Spec => []RetryNeverRefused
<1>1. IndInv /\ Accounts => RetryNeverRefused
  <2> SUFFICES ASSUME IndInv, Accounts, RetryOffered, ~task.expired PROVE Resumable
    BY DEF RetryNeverRefused
  <2>0. StoreInv /\ StagesSound /\ task.stage \in Stage
    BY TaskIs DEF IndInv, StoreInv, Task
  <2>1. task.live
    BY DEF Accounts, InputsKept, RetryOffered
  <2>2. ~Lasting(pair)
    <3>1. CASE task.cause = "pairs"
      BY <3>1 DEF Accounts, BlameSound, RetryOffered, FailedIn, Lasting, Failures
    <3>2. CASE task.cause # "pairs"
      BY <3>2 DEF Accounts, BlameSound, RetryOffered
    <3> QED
      BY <3>1, <3>2
  <2>3. CASE task.stage = "screening"
    BY <2>1, <2>3 DEF Resumable
  <2>4. CASE task.stage = "pairwise"
    BY <2>0, <2>1, <2>2, <2>4 DEF Resumable, StagesSound, Lasting
  <2>5. CASE task.stage = "ranking"
    BY <2>0, <2>1, <2>5 DEF Resumable, StagesSound, AllPairsSucceeded
  <2> QED
    BY <2>0, <2>3, <2>4, <2>5 DEF Stage
<1> QED
  BY <1>1, AccountsInvariance, PTL

(* completed_units counts what is checkpointed and never exceeds the total,  *)
(* and the API can show every Match.                                        *)
THEOREM ProgressIsExact == Spec => []ProgressExact
<1>1. IndInv /\ Accounts => ProgressExact
  <2> SUFFICES ASSUME IndInv, Accounts PROVE ProgressExact
    OBVIOUS
  <2>1. /\ TypeOK /\ StagesSound /\ PublishedWhole /\ UnitsCounted
        /\ task.units \in Nat /\ task.total \in Nat /\ Cardinality(selected) \in Nat
    BY SizeIsNat DEF IndInv, StoreInv, Accounts, TypeOK, Task
  <2>2. task.units <= task.total
    <3>1. CASE task.status = "succeeded"
      BY <2>1, <3>1 DEF UnitsCounted
    <3>2. CASE task.status # "succeeded"
      BY <2>1, <3>2 DEF UnitsCounted
    <3> QED
      BY <3>1, <3>2
  <2>3. Cardinality(results) <= task.total
    <3>1. CASE results = {}
      BY <2>1, <3>1, FS_EmptySet
    <3>2. CASE results # {}
      BY <2>1, <3>2 DEF PublishedWhole, StagesSound
    <3> QED
      BY <3>1, <3>2
  <2>4. task.status = "succeeded" => campaigns = 1 /\ results = selected
    BY <2>1 DEF PublishedWhole
  <2> QED
    BY <2>1, <2>2, <2>3, <2>4 DEF ProgressExact, DetailIsValid, SummaryIsValid, ResultState
<1> QED
  BY <1>1, AccountsInvariance, PTL

=============================================================================
