---------------------------- MODULE AnalysisProofs ----------------------------
(***************************************************************************)
(* What TLAPS proves of AnalysisJobs, for any finite set of jobs, any       *)
(* requests, keys and bounds, and any mixture of faults: that rows,         *)
(* requests and messages keep their types, that a target has one active     *)
(* job and one publication for each success, that a stored answer is true   *)
(* and only moves forward, and that every step is one of AnalysisTarget.    *)
(***************************************************************************)
EXTENDS AnalysisJobs, FiniteSetTheorems, TLAPS

rows == <<job, profile, published, due>>

(* Every row passes what the table and the responses check of it.           *)
RowsSound == \A j \in Jobs : ValidJobState(job[j])

(* A key that has been used answers with something. *)
AnswersWhole == \A k \in Keys : answer[k].op # "none" => answer[k].job # "none"

(* What a handler remembers between two transactions: the key and the       *)
(* request; before its commit, an active job as it was when it was read;    *)
(* after it, the job to dispatch.                                           *)
Remembers(q) ==
  /\ q.phase \notin {"unsent", "done"} => q.key \in Keys /\ q.op \in Operation
  /\ q.phase \in {"lock", "send", "undo", "project"} => q.found \in Jobs
  /\ q.phase = "commit" =>
       /\ q.attempt < MaxAttempts
       /\ q.found = "none" => q.seen = "queued"
       /\ q.found \in Jobs =>
            q.seen \in {"queued", "running"}
              /\ JobOrder(q.seen) <= JobOrder(job[q.found].status)

RequestsSound == \A r \in Requests : Remembers(request[r])

ScanSound == scan.phase # "idle" => scan.job \in Jobs

IndInv ==
  /\ JobsTypeOK /\ OneJobAtATime /\ RowsSound
  /\ AnswersAreTrue /\ AnswersWhole
  /\ RequestsSound /\ ScanSound

(* The transactions of AnalysisStore, without the handlers that run them:   *)
(* what they do to the target's rows, and to the idempotency records.       *)
RowsStep ==
  \/ UNCHANGED rows
  \/ \E j \in Jobs : Insert(j) /\ UNCHANGED <<profile, published, due>>
  \/ \E j \in Jobs : Claim(j) \/ Advance(j, 2) \/ Advance(j, 4) \/ Finalize(j)
  \/ \E j \in Jobs, statuses \in SUBSET {"queued", "running"}, failure \in PublicFailures :
       WriteFailure(j, statuses, failure)
  \/ BecomeDue

(* The response a key is given is that of an active job, as it is after the *)
(* commit or was before it.                                                 *)
Answers(k, record) ==
  /\ KeyIsFree(k) /\ answer' = [answer EXCEPT ![k] = record]
  /\ record \in IdempotencyRecord /\ record.op # "none" /\ record.job # "none"
  /\ record.job \in Jobs =>
       record.status \in {"queued", "running"}
         /\ JobOrder(record.status) <= JobOrder(job'[record.job].status)

AnswerStep ==
  \/ UNCHANGED answer
  \/ \E k \in Keys, j \in Jobs : Project(k, j) /\ UNCHANGED rows
  \/ \E k \in Keys, record \in IdempotencyRecord : Answers(k, record)

(* What a transaction on the rows comes to: job j's row is replaced, by one *)
(* whose status and units follow from those it had.                         *)
Transition(j, row) ==
  /\ job' = [job EXCEPT ![j] = row] /\ ValidJobState(row)
  /\ \/ /\ job[j].status = "none" /\ Active = {} /\ row.status = "queued"
        /\ row.units = job[j].units /\ UNCHANGED <<profile, published>>
     \/ /\ job[j].status = "queued" /\ row.status = "running"
        /\ row.units = job[j].units /\ UNCHANGED <<profile, published>>
     \/ /\ job[j].status = "running" /\ row.status = "running"
        /\ row.units \in job[j].units..(TotalUnits - 1) /\ UNCHANGED <<profile, published>>
     \/ /\ job[j].status \in {"queued", "running"} /\ row.status = "failed"
        /\ row.units = job[j].units /\ UNCHANGED <<profile, published>>
     \/ /\ job[j].status = "running" /\ row.status = "succeeded"
        /\ row.units = TotalUnits /\ profile' /\ published' = published + 1

RowsChange ==
  \/ UNCHANGED <<job, profile, published>>
  \/ \E j \in Jobs, row \in AnalysisJob : Transition(j, row)

(* No transaction takes a job back to an earlier status, or from one ending *)
(* to another.                                                              *)
Forward ==
  \A j \in Jobs : \/ job'[j].status = job[j].status
                  \/ JobOrder(job[j].status) < JobOrder(job'[j].status)

RowsTypeOK ==
  /\ job \in [Jobs -> AnalysisJob]
  /\ profile \in BOOLEAN /\ published \in Nat /\ due \in BOOLEAN

-----------------------------------------------------------------------------
(* The order of the statuses, spelt out for the provers.                     *)
LEMMA StatusesAreOrdered ==
  /\ JobOrder("none") = 0 /\ JobOrder("queued") = 1 /\ JobOrder("running") = 2
  /\ JobOrder("succeeded") = 3 /\ JobOrder("failed") = 3
  BY DEF JobOrder

(* The stages, spelt out for the provers.                                    *)
LEMMA StagesListed == AnalysisStage = {"none", "fetching_data", "analyzing", "finalizing"}
<1>1. {Stages[n] : n \in 1..3} = {Stages[1], Stages[2], Stages[3]}
  OBVIOUS
<1> QED
  BY <1>1 DEF AnalysisStage, Stages

(* What is offered after a failure is a retry, or none.                      *)
LEMMA FailuresOffer == \A failure \in PublicFailures : PublicFailure[failure] \in BOOLEAN
  BY DEF PublicFailure

-----------------------------------------------------------------------------
(* Every transaction on the rows is a transition of one job, or of none.    *)
LEMMA RowsStepChange ==
  ASSUME RowsTypeOK, RowsSound, RowsStep
  PROVE  RowsChange /\ due' \in BOOLEAN
<1>a. job \in [Jobs -> AnalysisJob] /\ \A j \in Jobs : job[j] \in AnalysisJob
  BY DEF RowsTypeOK
<1>b. due \in BOOLEAN
  BY DEF RowsTypeOK
<1>1. CASE UNCHANGED rows
  BY <1>1, <1>b DEF rows, RowsChange
<1>2. ASSUME NEW j \in Jobs, Insert(j) /\ UNCHANGED <<profile, published, due>>
      PROVE  RowsChange /\ due' \in BOOLEAN
  <2> DEFINE row == [job[j] EXCEPT !.status = "queued"]
  <2>1. row \in AnalysisJob /\ row.status = "queued" /\ row.units = job[j].units
    BY <1>a DEF AnalysisJob, JobStatus
  <2>2. job' = [job EXCEPT ![j] = row]
    BY <1>2, <1>a DEF Insert
  <2>v. ValidJobState(row)
    BY <1>a, <1>2 DEF Insert, RowsSound, ValidJobState, StatusShape, AnalysisJob, TotalUnits
  <2> HIDE DEF row
  <2>3. Transition(j, row)
    BY <1>2, <2>1, <2>2, <2>v DEF Insert, IndexAdmits, Transition
  <2> QED
    BY <1>2, <1>b, <2>1, <2>3 DEF RowsChange
<1>3. ASSUME NEW j \in Jobs, Claim(j)
      PROVE  RowsChange /\ due' \in BOOLEAN
  <2> DEFINE row == [job[j] EXCEPT !.status = "running", !.stage = "fetching_data"]
  <2>1. CASE job[j].status = "running"
    BY <1>3, <1>b, <2>1 DEF Claim, RowsChange
  <2>2. CASE job[j].status = "queued"
    <3>1. row \in AnalysisJob /\ row.status = "running" /\ row.units = job[j].units
      BY <1>a, StagesListed DEF AnalysisJob, JobStatus
    <3>2. job' = [job EXCEPT ![j] = row]
      BY <1>3, <2>2, <1>a DEF Claim, AnalysisJob
    <3>v. ValidJobState(row)
      BY <1>a, <2>2 DEF RowsSound, ValidJobState, StatusShape, AnalysisJob, TotalUnits
    <3> HIDE DEF row
    <3>3. Transition(j, row)
      BY <1>3, <2>2, <3>1, <3>2, <3>v DEF Claim, Transition
    <3> QED
      BY <1>3, <1>b, <3>1, <3>3 DEF Claim, RowsChange
  <2> QED
    BY <1>3, <2>1, <2>2 DEF Claim
<1>4. ASSUME NEW j \in Jobs, NEW n \in {2, 4}, Advance(j, n)
      PROVE  RowsChange /\ due' \in BOOLEAN
  <2> DEFINE requested == IF n = 4 THEN "finalizing" ELSE "analyzing"
             units == Smallest(Greatest(job[j].units, n), TotalUnits - 1)
             stage == IF StageOrder(requested) > StageOrder(job[j].stage)
                        THEN requested ELSE job[j].stage
             row == [job[j] EXCEPT !.units = units, !.stage = stage]
  <2>0. job[j].status = "running" /\ job[j].units \in 0..(TotalUnits - 1)
        /\ job[j].stage # "none" /\ ~job[j].retryable
    BY <1>4, <1>a DEF Advance, RowsSound, ValidJobState, StatusShape, AnalysisJob, TotalUnits
  <2>1. units \in job[j].units..(TotalUnits - 1) /\ units \in 0..TotalUnits
    BY <2>0 DEF Smallest, Greatest, TotalUnits
  <2>2. stage \in AnalysisStage /\ stage # "none"
    BY <1>a, <2>0, StagesListed DEF AnalysisJob
  <2>3. job' = [[job EXCEPT ![j].units = units] EXCEPT ![j].stage = stage]
    BY <1>4 DEF Advance
  <2> HIDE DEF units, stage
  <2>4. job' = [job EXCEPT ![j] = row]
    BY <2>3, <1>a DEF AnalysisJob
  <2>5. row \in AnalysisJob /\ row.units = units /\ row.status = "running"
    BY <1>a, <2>0, <2>1, <2>2 DEF AnalysisJob
  <2>v. ValidJobState(row)
    BY <1>a, <2>0, <2>1, <2>2 DEF ValidJobState, StatusShape, AnalysisJob, TotalUnits
  <2> HIDE DEF row
  <2>6. UNCHANGED <<profile, published, due>>
    BY <1>4 DEF Advance
  <2>7. Transition(j, row)
    BY <2>0, <2>1, <2>4, <2>5, <2>6, <2>v DEF Transition
  <2> QED
    BY <1>b, <2>5, <2>6, <2>7 DEF RowsChange
<1>5. ASSUME NEW j \in Jobs, Finalize(j)
      PROVE  RowsChange /\ due' \in BOOLEAN
  <2> DEFINE row == [job[j] EXCEPT !.status = "succeeded", !.units = TotalUnits,
                                   !.retryable = FALSE]
  <2>1. TotalUnits \in 0..TotalUnits
    BY DEF TotalUnits
  <2>2. row \in AnalysisJob /\ row.status = "succeeded" /\ row.units = TotalUnits
    BY <1>a, <2>1 DEF AnalysisJob, JobStatus
  <2>3. job' = [job EXCEPT ![j] = row]
    BY <1>5, <1>a DEF Finalize, AnalysisJob
  <2>v. ValidJobState(row)
    BY <1>5, <1>a DEF Finalize, Finalizable, ValidJobState, StatusShape, AnalysisJob, TotalUnits
  <2> HIDE DEF row
  <2>4. profile' /\ due' \in BOOLEAN
    BY <1>5, Zenon DEF Finalize
  <2>5. job[j].status = "running" /\ published' = published + 1
    BY <1>5 DEF Finalize, Finalizable
  <2>6. Transition(j, row)
    BY <2>2, <2>3, <2>4, <2>5, <2>v DEF Transition
  <2> QED
    BY <2>2, <2>4, <2>6 DEF RowsChange
<1>6. ASSUME NEW j \in Jobs, NEW statuses \in SUBSET {"queued", "running"},
             NEW failure \in PublicFailures, WriteFailure(j, statuses, failure)
      PROVE  RowsChange /\ due' \in BOOLEAN
  <2>0. PublicFailure[failure] \in BOOLEAN
    BY <1>6, FailuresOffer
  <2> DEFINE row == [job[j] EXCEPT !.status = "failed", !.retryable = PublicFailure[failure]]
  <2>1. CASE job[j].status \in statuses
    <3>1. row \in AnalysisJob /\ row.status = "failed" /\ row.units = job[j].units
      BY <2>0, <1>a DEF AnalysisJob, JobStatus
    <3>2. job' = [job EXCEPT ![j] = row]
      BY <1>6, <2>0, <2>1, <1>a DEF WriteFailure, AnalysisJob
    <3>v. ValidJobState(row)
      BY <1>a, <2>1 DEF RowsSound, ValidJobState, StatusShape, AnalysisJob, TotalUnits
    <3> HIDE DEF row
    <3>3. Transition(j, row)
      BY <1>6, <2>1, <3>1, <3>2, <3>v DEF WriteFailure, Transition
    <3> QED
      BY <1>6, <1>b, <3>1, <3>3 DEF WriteFailure, RowsChange
  <2>2. CASE job[j].status \notin statuses
    BY <1>6, <1>b, <2>2 DEF WriteFailure, RowsChange
  <2> QED
    BY <2>1, <2>2
<1>7. CASE BecomeDue
  BY <1>7 DEF BecomeDue, RowsChange
<1> QED
  BY <1>1, <1>2, <1>3, <1>4, <1>5, <1>6, <1>7 DEF RowsStep

-----------------------------------------------------------------------------
(* Every transaction keeps the types of the rows, and their shapes.         *)
LEMMA RowsStepType ==
  ASSUME RowsTypeOK, RowsSound, RowsStep
  PROVE  RowsTypeOK' /\ RowsSound'
<1>1. RowsChange /\ due' \in BOOLEAN
  BY RowsStepChange
<1>2. CASE UNCHANGED <<job, profile, published>>
  BY <1>1, <1>2 DEF RowsTypeOK, RowsSound
<1>3. ASSUME NEW j \in Jobs, NEW row \in AnalysisJob, Transition(j, row)
      PROVE  RowsTypeOK' /\ RowsSound'
  <2>1. job' \in [Jobs -> AnalysisJob]
    BY <1>3 DEF Transition, RowsTypeOK
  <2>2. profile' \in BOOLEAN
    BY <1>3, Zenon DEF Transition, RowsTypeOK
  <2>3. published' \in Nat
    BY <1>3 DEF Transition, RowsTypeOK
  <2>5. RowsSound'
    BY <1>3 DEF Transition, RowsTypeOK, RowsSound
  <2> QED
    BY <1>1, <2>1, <2>2, <2>3, <2>5 DEF RowsTypeOK
<1> QED
  BY <1>1, <1>2, <1>3 DEF RowsChange

(* Every transaction takes jobs forward only.                               *)
LEMMA RowsStepForward ==
  ASSUME RowsTypeOK, RowsSound, RowsStep
  PROVE  Forward
<1>1. RowsChange
  BY RowsStepChange
<1>2. CASE UNCHANGED <<job, profile, published>>
  BY <1>2 DEF Forward
<1>3. ASSUME NEW j \in Jobs, NEW row \in AnalysisJob, Transition(j, row)
      PROVE  Forward
  <2>1. \A i \in Jobs : job'[i] = IF i = j THEN row ELSE job[i]
    BY <1>3 DEF Transition, RowsTypeOK
  <2>2. row.status = job[j].status \/ JobOrder(job[j].status) < JobOrder(row.status)
    BY <1>3, StatusesAreOrdered DEF Transition
  <2> QED
    BY <2>1, <2>2 DEF Forward
<1> QED
  BY <1>1, <1>2, <1>3 DEF RowsChange

(* Every transaction keeps one active job, and one publication for each     *)
(* success.                                                                 *)
LEMMA RowsStepOneJob ==
  ASSUME RowsTypeOK, RowsSound, OneJobAtATime, RowsStep
  PROVE  OneJobAtATime'
<1>1. RowsChange
  BY RowsStepChange
<1>2. CASE UNCHANGED <<job, profile, published>>
  BY <1>2 DEF OneJobAtATime, Active, With
<1>3. ASSUME NEW j \in Jobs, NEW row \in AnalysisJob, Transition(j, row)
      PROVE  OneJobAtATime'
  <2>1. \A i \in Jobs : job'[i] = IF i = j THEN row ELSE job[i]
    BY <1>3 DEF Transition, RowsTypeOK
  <2>2. \A i, k \in Active' : i = k
    <3>1. Active = {} \/ (j \in Active /\ Active = {j})
      BY <1>3 DEF Transition, OneJobAtATime, Active, With
    <3>2. Active' \subseteq Active \cup {j}
      BY <2>1 DEF Active, With
    <3> QED
      BY <3>1, <3>2
  <2>3. IsFiniteSet(With("succeeded"))
    BY JobsAreFinite, FS_Subset DEF With
  <2>4. CASE row.status # "succeeded"
    <3>1. UNCHANGED <<profile, published>> /\ job[j].status # "succeeded"
      BY <1>3, <2>4 DEF Transition
    <3>2. With("succeeded")' = With("succeeded")
      BY <2>1, <2>4, <3>1 DEF With
    <3> QED
      BY <2>2, <3>1, <3>2 DEF OneJobAtATime
  <2>5. CASE row.status = "succeeded"
    <3>1. profile' /\ published' = published + 1 /\ job[j].status # "succeeded"
      BY <1>3, <2>5 DEF Transition
    <3>2. With("succeeded")' = With("succeeded") \cup {j} /\ j \notin With("succeeded")
      BY <2>1, <2>5, <3>1 DEF With
    <3>3. Cardinality(With("succeeded")') = Cardinality(With("succeeded")) + 1
      BY <2>3, <3>2, FS_AddElement
    <3> QED
      BY <2>2, <3>1, <3>3 DEF OneJobAtATime
  <2> QED
    BY <2>4, <2>5
<1> QED
  BY <1>1, <1>2, <1>3 DEF RowsChange

(* Every transaction is a step of the abstract target, or invisible.        *)
LEMMA RowsStepTarget ==
  ASSUME RowsTypeOK, RowsSound, RowsStep
  PROVE  [Target!Next]_(Target!vars)
<1> DEFINE status == [j \in Jobs |-> job[j].status]
           progress == [j \in Jobs |-> job[j].units]
<1>1. RowsChange
  BY RowsStepChange
<1>2. CASE UNCHANGED <<job, profile, published>>
  BY <1>2 DEF Target!vars
<1>3. ASSUME NEW j \in Jobs, NEW row \in AnalysisJob, Transition(j, row)
      PROVE  [Target!Next]_(Target!vars)
  <2>1. \A i \in Jobs : job'[i] = IF i = j THEN row ELSE job[i]
    BY <1>3 DEF Transition, RowsTypeOK
  <2>2. status' = [status EXCEPT ![j] = row.status]
        /\ progress' = [progress EXCEPT ![j] = row.units]
    BY <2>1
  <2>3. job[j].units \in 0..TotalUnits /\ status[j] = job[j].status
        /\ progress[j] = job[j].units
    BY DEF RowsTypeOK, AnalysisJob
  <2>4. row.units = job[j].units => progress' = progress
    BY <2>2, <2>3
  <2>5. row.status = job[j].status => status' = status
    BY <2>2, <2>3
  <2>6. CASE row.status = "queued"
    <3>1. \A other \in Jobs : ~Target!UnderWay(other)
      BY <1>3, <2>6 DEF Transition, Active, With, Target!UnderWay
    <3>2. Target!Queue(j)
      BY <1>3, <2>2, <2>3, <2>4, <2>6, <3>1 DEF Transition, Target!Queue
    <3> QED
      BY <3>2 DEF Target!Next
  <2>7. CASE row.status = "running" /\ job[j].status = "queued"
    <3>1. Target!Run(j)
      BY <1>3, <2>2, <2>3, <2>4, <2>7 DEF Transition, Target!Run
    <3> QED
      BY <3>1 DEF Target!Next
  <2>8. CASE row.status = "running" /\ job[j].status = "running"
    <3>1. published' = published /\ row.units \in job[j].units..(TotalUnits - 1)
      BY <1>3, <2>8 DEF Transition
    <3>2. CASE row.units = job[j].units
      BY <2>4, <2>5, <2>8, <3>1, <3>2 DEF Target!vars
    <3>3. CASE row.units # job[j].units
      <4>1. row.units \in (progress[j] + 1)..(TotalUnits - 1)
        BY <2>3, <3>1, <3>3 DEF TotalUnits
      <4>2. Target!Advance(j)
        BY <2>2, <2>3, <2>5, <2>8, <3>1, <4>1 DEF Target!Advance
      <4> QED
        BY <4>2 DEF Target!Next
    <3> QED
      BY <3>2, <3>3
  <2>9. CASE row.status = "failed"
    <3>1. Target!Fail(j)
      BY <1>3, <2>2, <2>3, <2>4, <2>9 DEF Transition, Target!Fail, Target!UnderWay
    <3> QED
      BY <3>1 DEF Target!Next
  <2>10. CASE row.status = "succeeded"
    <3>1. progress[j] < TotalUnits
      BY <1>3, <2>3, <2>10 DEF Transition, RowsSound, ValidJobState, StatusShape, RowsTypeOK, AnalysisJob,
                              TotalUnits
    <3>2. Target!Succeed(j)
      BY <1>3, <2>2, <2>3, <2>10, <3>1 DEF Transition, Target!Succeed
    <3> QED
      BY <3>2 DEF Target!Next
  <2> QED
    BY <1>3, <2>6, <2>7, <2>8, <2>9, <2>10 DEF Transition
<1> QED
  BY <1>1, <1>2, <1>3 DEF RowsChange

-----------------------------------------------------------------------------
(* The idempotency records *)

AnswersOK == answer \in [Keys -> IdempotencyRecord] /\ AnswersWhole /\ AnswersAreTrue

(* What a step may do to a key that has been used. *)
AnswersMove ==
  \A k \in Keys : answer[k].op # "none" =>
    /\ answer'[k].op = answer[k].op /\ answer'[k].job = answer[k].job
    /\ JobOrder(answer'[k].status) >= JobOrder(answer[k].status)

(* The orders are numbers, and only an ending is last. *)
LEMMA OrderOfStatus ==
  ASSUME NEW s \in JobStatus
  PROVE  /\ JobOrder(s) \in 0..3
         /\ JobOrder(s) = 3 <=> s \in {"succeeded", "failed"}
  BY StatusesAreOrdered DEF JobStatus

(* A true answer stays true while jobs go forward.                          *)
LEMMA TrueStaysTrue ==
  ASSUME RowsTypeOK, RowsTypeOK', Forward, NEW j \in Jobs, NEW s \in JobStatus,
         JobOrder(s) <= JobOrder(job[j].status),
         s \in {"succeeded", "failed"} => s = job[j].status
  PROVE  /\ JobOrder(s) <= JobOrder(job'[j].status)
         /\ s \in {"succeeded", "failed"} => s = job'[j].status
<1>1. job[j].status \in JobStatus /\ job'[j].status \in JobStatus
  BY DEF RowsTypeOK, AnalysisJob
<1>2. JobOrder(s) \in 0..3 /\ JobOrder(job[j].status) \in 0..3
      /\ JobOrder(job'[j].status) \in 0..3
      /\ (s \in {"succeeded", "failed"} => JobOrder(s) = 3)
  BY <1>1, OrderOfStatus
<1>3. job'[j].status = job[j].status \/ JobOrder(job[j].status) < JobOrder(job'[j].status)
  BY DEF Forward
<1> QED
  BY <1>2, <1>3

(* Every transaction leaves the records whole, true and pointing where they *)
(* did.                                                                     *)
LEMMA AnswersKept ==
  ASSUME RowsTypeOK, RowsTypeOK', RowsSound', OneJobAtATime', Forward, AnswersOK, AnswerStep
  PROVE  AnswersOK' /\ AnswersMove
<1>p. \A j \in Jobs : Projectable(j)'
  BY DEF Projectable, ResultIsValid, RowsSound, OneJobAtATime, With
<1>a. answer \in [Keys -> IdempotencyRecord]
  BY DEF AnswersOK
<1>b. \A k \in Keys : answer[k].status \in JobStatus
                      /\ JobOrder(answer[k].status) \in 0..3
  BY <1>a, OrderOfStatus DEF IdempotencyRecord
<1>c. \A k \in Keys : answer[k].job \in Jobs =>
        /\ JobOrder(answer[k].status) <= JobOrder(job'[answer[k].job].status)
        /\ answer[k].status \in {"succeeded", "failed"} =>
             answer[k].status = job'[answer[k].job].status
  BY <1>b, TrueStaysTrue DEF AnswersOK, AnswersAreTrue
<1>1. CASE UNCHANGED answer
  BY <1>1, <1>a, <1>b, <1>c, <1>p DEF AnswersOK, AnswersAreTrue, AnswersWhole, AnswersMove
<1>2. ASSUME NEW k \in Keys, NEW j \in Jobs, Project(k, j), UNCHANGED rows
      PROVE  AnswersOK' /\ AnswersMove
  <2>1. CASE answer[k].job # j
    BY <1>1, <1>2, <2>1 DEF Project
  <2>2. CASE answer[k].job = j
    <3>1. answer' = [answer EXCEPT ![k].status = job[j].status]
      BY <1>2, <2>2 DEF Project
    <3>2. job' = job /\ job[j].status \in JobStatus /\ JobOrder(job[j].status) \in 0..3
      BY <1>2, OrderOfStatus DEF rows, RowsTypeOK, AnalysisJob
    <3>3. answer' \in [Keys -> IdempotencyRecord]
      BY <1>a, <3>1, <3>2 DEF IdempotencyRecord
    <3>4. \A i \in Keys :
            /\ answer'[i].op = answer[i].op /\ answer'[i].job = answer[i].job
            /\ answer'[i].status = IF i = k THEN job[j].status ELSE answer[i].status
      BY <1>a, <3>1 DEF IdempotencyRecord
    <3>5. JobOrder(answer[k].status) <= JobOrder(job[j].status)
      BY <2>2 DEF AnswersOK, AnswersAreTrue
    <3>6. AnswersAreTrue'
      BY <1>c, <1>p, <2>2, <3>2, <3>4 DEF AnswersAreTrue
    <3>7. AnswersMove
      BY <1>b, <3>4, <3>5 DEF AnswersMove
    <3> QED
      BY <3>3, <3>4, <3>6, <3>7 DEF AnswersOK, AnswersWhole
  <2> QED
    BY <2>1, <2>2
<1>3. ASSUME NEW k \in Keys, NEW record \in IdempotencyRecord, Answers(k, record)
      PROVE  AnswersOK' /\ AnswersMove
  <2>1. \A i \in Keys : answer'[i] = IF i = k THEN record ELSE answer[i]
    BY <1>3, <1>a DEF Answers
  <2>2. answer' \in [Keys -> IdempotencyRecord]
    BY <1>3, <1>a DEF Answers
  <2>3. answer[k].op = "none" /\ record.job # "none"
    BY <1>3 DEF Answers, KeyIsFree
  <2>4. AnswersAreTrue'
    BY <1>3, <1>c, <1>p, <2>1 DEF Answers, AnswersAreTrue
  <2>5. AnswersWhole'
    BY <2>1, <2>3 DEF AnswersOK, AnswersWhole
  <2>6. AnswersMove
    BY <1>b, <2>1, <2>3 DEF AnswersMove
  <2> QED
    BY <2>2, <2>4, <2>5, <2>6 DEF AnswersOK
<1> QED
  BY <1>1, <1>2, <1>3 DEF AnswerStep

-----------------------------------------------------------------------------
(* Requests, the scheduler and messages *)

WorkOK ==
  /\ work \in SUBSET Item
  /\ \A i, other \in work : i.job = other.job /\ i.copy = other.copy => i = other

ScanOK == scan \in [phase : {"idle", "send", "undo"}, job : Jobs \cup {"none"}] /\ ScanSound

RequestsOK == request \in [Requests -> Request] /\ RequestsSound

(* A step changes no request, or one, which then remembers what it must.    *)
RequestStep ==
  \/ UNCHANGED request
  \/ \E r \in Requests, q \in Request : Becomes(r, q) /\ Remembers(q)'

(* What the handlers' steps have in common. *)
SoundStep ==
  /\ RowsStep /\ AnswerStep /\ RequestStep
  /\ WorkOK' /\ ScanOK' /\ scans' \in 0..MaxScans /\ faults' \in SUBSET Faults

(* The invariant, as the steps below use it. *)
LEMMA InvariantParts ==
  IndInv <=> /\ RowsTypeOK /\ RowsSound /\ OneJobAtATime /\ AnswersOK /\ RequestsOK
             /\ ScanOK /\ WorkOK /\ scans \in 0..MaxScans /\ faults \in SUBSET Faults
  BY DEF IndInv, JobsTypeOK, StoreTypeOK, RowsSound, RowsTypeOK, AnswersOK, RequestsOK, ScanOK,
         WorkOK

(* No job has the name of something else. *)
LEMMA JobsAreJobs == "none" \notin Jobs /\ "profile" \notin Jobs /\ "none" \notin Operation
  BY IdsAreDistinct DEF Operation

(* A message moved, put or acknowledged leaves the messages distinct. *)
LEMMA MoveKeeps ==
  ASSUME WorkOK, NEW i \in work, NEW next \in Item,
         next.job = i.job, next.copy = i.copy,
         work' = (work \ {i}) \cup {next}
  PROVE  WorkOK'
  BY DEF WorkOK

(* A message acknowledged leaves a set of messages.                          *)
LEMMA AckKeeps ==
  ASSUME WorkOK, NEW i \in work, Ack(i)
  PROVE  WorkOK'
  BY DEF WorkOK, Ack

(* So does a message added under a copy that is free.                        *)
LEMMA AddKeeps ==
  ASSUME WorkOK, NEW next \in Item,
         next.copy \notin {i.copy : i \in Messages(next.job)},
         work' = work \cup {next}
  PROVE  WorkOK'
  BY DEF WorkOK, Messages

(* What the broker takes for a job is a message.                             *)
LEMMA PutKeeps ==
  ASSUME WorkOK, NEW j \in Jobs, Put(j)
  PROVE  WorkOK'
<1>1. CASE work' = work
  BY <1>1 DEF WorkOK
<1>2. ASSUME NEW c \in Copies \ {i.copy : i \in Messages(j)},
             work' = work \cup {[job |-> j, copy |-> c, phase |-> "queued", tries |-> 0]}
      PROVE  WorkOK'
  <2>1. [job |-> j, copy |-> c, phase |-> "queued", tries |-> 0] \in Item
    BY CountsAreNat DEF Item, Phases
  <2> QED
    BY <1>2, <2>1, AddKeeps
<1> QED
  BY <1>1, <1>2 DEF Put

(* The faults recorded are among those that happen.                          *)
LEMMA FaultKeeps ==
  ASSUME faults \in SUBSET Faults, NEW kind, Fault(kind)
  PROVE  faults' \in SUBSET Faults
  BY DEF Fault

(* What a request remembers stays true while jobs go forward. *)
LEMMA MemoryKept ==
  ASSUME RowsTypeOK, RowsTypeOK', Forward, NEW q \in Request, Remembers(q)
  PROVE  Remembers(q)'
<1>1. CASE q.phase = "commit" /\ q.found \in Jobs
  <2>1. q.seen \in JobStatus /\ q.seen \in {"queued", "running"}
        /\ JobOrder(q.seen) <= JobOrder(job[q.found].status)
    BY <1>1 DEF Remembers, JobStatus
  <2>2. JobOrder(q.seen) <= JobOrder(job'[q.found].status)
    BY <1>1, <2>1, TrueStaysTrue
  <2> QED
    BY <1>1, <2>2 DEF Remembers
<1>2. CASE ~(q.phase = "commit" /\ q.found \in Jobs)
  BY <1>2 DEF Remembers
<1> QED
  BY <1>1, <1>2

(* What handlers remember stays true while jobs only move forward.           *)
LEMMA RequestsKept ==
  ASSUME RowsTypeOK, RowsTypeOK', Forward, RequestsOK, RequestStep
  PROVE  RequestsOK'
<1>2. ASSUME NEW r \in Requests, request'[r] = request[r]
      PROVE  Remembers(request[r])'
  <2> DEFINE q == request[r]
  <2>1. q \in Request /\ Remembers(q)
    BY DEF RequestsOK, RequestsSound
  <2> QED
    BY <1>2, <2>1, MemoryKept DEF Remembers
<1>3. CASE UNCHANGED request
  BY <1>2, <1>3 DEF RequestsOK, RequestsSound
<1>4. ASSUME NEW r \in Requests, NEW q \in Request, Becomes(r, q), Remembers(q)'
      PROVE  RequestsOK'
  <2>1. request' \in [Requests -> Request]
    BY <1>4 DEF Becomes, RequestsOK
  <2>2. request'[r] = q /\ \A other \in Requests \ {r} : request'[other] = request[other]
    BY <1>4 DEF Becomes, RequestsOK
  <2>3. Remembers(request[r])'
    BY <1>4, <2>2 DEF Remembers
  <2> QED
    BY <1>2, <2>1, <2>2, <2>3 DEF RequestsOK, RequestsSound
<1> QED
  BY <1>3, <1>4 DEF RequestStep

-----------------------------------------------------------------------------
(* The API's handlers take sound steps.                                     *)

Untouched == UNCHANGED <<scan, work, scans, faults>>

(* What a step leaves alone stays sound.                                     *)
LEMMA UntouchedIsSound ==
  ASSUME IndInv, Untouched
  PROVE  WorkOK' /\ ScanOK' /\ scans' \in 0..MaxScans /\ faults' \in SUBSET Faults
  BY InvariantParts DEF Untouched, WorkOK, ScanOK, ScanSound

(* A handler that has answered remembers nothing.                            *)
LEMMA AnsweredIsSound ==
  ASSUME NEW r \in Requests, Answered(r)
  PROVE  RequestStep
<1> DEFINE q == [Unsent EXCEPT !.phase = "done"]
<1>1. q \in Request /\ q.phase = "done"
  BY CountsAreNat DEF Unsent, Request, RequestPhase, JobStatus
<1> HIDE DEF q
<1>2. Remembers(q)'
  BY <1>1 DEF Remembers
<1>3. Becomes(r, q)
  BY DEF Answered, q
<1> QED
  BY <1>1, <1>2, <1>3 DEF RequestStep

(* A handler that goes on with the job it has found. *)
LEMMA GoesIsSound ==
  ASSUME IndInv, NEW r \in Requests, NEW phase \in {"lock", "send", "undo", "project", "lost"},
         request[r].phase \notin {"unsent", "done"},
         phase # "lost" => request[r].found \in Jobs,
         Goes(r, phase)
  PROVE  RequestStep
<1>1. request[r] \in Request /\ Remembers(request[r])
  BY InvariantParts DEF RequestsOK, RequestsSound
<1>2. PICK q \in Request : q = [request[r] EXCEPT !.phase = phase]
  BY <1>1 DEF Request, RequestPhase
<1>3. q.phase = phase /\ q.key \in Keys /\ q.op \in Operation
      /\ (phase # "lost" => q.found \in Jobs)
  BY <1>1, <1>2 DEF Request, Remembers
<1>4. Remembers(q)'
  BY <1>3 DEF Remembers
<1>5. Becomes(r, q)
  BY <1>2 DEF Goes
<1> QED
  BY <1>4, <1>5 DEF RequestStep

(* A request that is made remembers its key and operation.                   *)
LEMMA AskIsSound ==
  ASSUME IndInv, NEW r \in Requests, Ask(r)
  PROVE  SoundStep
<1>1. request[r] \in Request
  BY InvariantParts DEF RequestsOK
<1>2. PICK k \in Keys, op \in {"create", "reanalyze"} \cup With("failed") :
        Becomes(r, [request[r] EXCEPT !.phase = "read", !.key = k, !.op = op])
  BY DEF Ask
<1>3. op \in Operation
  BY DEF Operation, With
<1>4. PICK q \in Request : q = [request[r] EXCEPT !.phase = "read", !.key = k, !.op = op]
  BY <1>1, <1>3 DEF Request, RequestPhase
<1>5. Remembers(q)'
  <2>1. q.phase = "read" /\ q.key = k /\ q.op = op
    BY <1>1, <1>4 DEF Request
  <2> QED
    BY <1>3, <2>1 DEF Remembers
<1>6. RequestStep
  BY <1>2, <1>4, <1>5 DEF RequestStep
<1>7. RowsStep /\ AnswerStep
  BY DEF Ask, store, RowsStep, rows, AnswerStep
<1> QED
  BY <1>6, <1>7, UntouchedIsSound DEF Ask, Untouched, SoundStep

(* What a handler has read before its commit is there.                       *)
LEMMA ReadIsSound ==
  ASSUME IndInv, NEW r \in Requests, Read(r)
  PROVE  SoundStep
<1> DEFINE q == request[r]
           stored == answer[q.key]
           Found(j, s) == Becomes(r, [q EXCEPT !.phase = "commit", !.found = j, !.seen = s])
<1>1. q \in Request /\ q.phase = "read" /\ q.key \in Keys /\ q.op \in Operation
  BY InvariantParts DEF Read, RequestsOK, RequestsSound, Remembers
<1>2. stored \in IdempotencyRecord /\ (stored.op # "none" => stored.job # "none")
  BY <1>1, InvariantParts DEF AnswersOK, AnswersWhole
<1>3. ASSUME Answered(r)
      PROVE  RequestStep
  BY <1>3, AnsweredIsSound
<1>4. ASSUME stored.op = q.op, stored.job # "profile",
             Becomes(r, [q EXCEPT !.phase = "lock", !.found = stored.job])
      PROVE  RequestStep
  <2>1. stored.job \in Jobs
    BY <1>1, <1>2, <1>4, JobsAreJobs DEF IdempotencyRecord
  <2>2. PICK next \in Request : next = [q EXCEPT !.phase = "lock", !.found = stored.job]
    BY <1>1, <2>1 DEF Request, RequestPhase
  <2>3. next.phase = "lock" /\ next.found \in Jobs
        /\ next.key \in Keys /\ next.op \in Operation
    BY <1>1, <2>1, <2>2 DEF Request
  <2>4. Remembers(next)'
    BY <2>3 DEF Remembers
  <2> QED
    BY <1>4, <2>2, <2>4 DEF RequestStep
<1>5. ASSUME NEW j \in Jobs \cup {"none", "profile"}, NEW s \in JobStatus,
             q.attempt < MaxAttempts, UNCHANGED job,
             j = "none" => s = "queued",
             j \in Jobs => j \in Active /\ s = job[j].status,
             Found(j, s)
      PROVE  RequestStep
  <2>1. PICK next \in Request : next = [q EXCEPT !.phase = "commit", !.found = j, !.seen = s]
    BY <1>1, <1>5 DEF Request, RequestPhase
  <2>2. next.phase = "commit" /\ next.found = j /\ next.seen = s
        /\ next.key \in Keys /\ next.op \in Operation /\ next.attempt < MaxAttempts
    BY <1>1, <1>5, <2>1 DEF Request
  <2>3. j \in Jobs => s \in {"queued", "running"} /\ JobOrder(s) <= JobOrder(job'[j].status)
    BY <1>5, StatusesAreOrdered DEF Active, With
  <2>4. Remembers(next)'
    BY <1>5, <2>2, <2>3 DEF Remembers
  <2> QED
    BY <1>5, <2>1, <2>4 DEF RequestStep
<1>6. UNCHANGED job /\ RowsStep /\ AnswerStep
  BY DEF Read, store, RowsStep, rows, AnswerStep
<1>7. \A j \in Active : j \in Jobs /\ job[j].status \in JobStatus
  BY InvariantParts DEF Active, With, RowsTypeOK, AnalysisJob
<1>8. "none" \in JobStatus /\ "queued" \in JobStatus
  BY DEF JobStatus
<1>9. q.attempt \in 0..MaxAttempts
  BY <1>1 DEF Request
<1>10. \/ Answered(r)
       \/ /\ stored.op = q.op /\ stored.job # "profile"
          /\ Becomes(r, [q EXCEPT !.phase = "lock", !.found = stored.job])
       \/ /\ q.attempt < MaxAttempts
          /\ \/ Found("profile", "none")
             \/ \E j \in Active : Found(j, job[j].status)
             \/ Found("none", "queued")
  BY DEF Read
<1>11. RequestStep
  BY <1>3, <1>4, <1>5, <1>6, <1>7, <1>8, <1>10, JobsAreJobs
<1> QED
  BY <1>6, <1>11, UntouchedIsSound DEF Read, Untouched, SoundStep

(* A request that goes back to reading remembers its key and its operation. *)
LEMMA ReadingIsSound ==
  ASSUME IndInv, NEW r \in Requests, NEW n \in 0..MaxAttempts,
         request[r].phase \notin {"unsent", "done"},
         Becomes(r, [request[r] EXCEPT !.phase = "read", !.attempt = n,
                                       !.found = "none", !.seen = "none"])
  PROVE  RequestStep
<1>1. request[r] \in Request /\ Remembers(request[r])
  BY InvariantParts DEF RequestsOK, RequestsSound
<1>2. PICK q \in Request :
        q = [request[r] EXCEPT !.phase = "read", !.attempt = n,
                               !.found = "none", !.seen = "none"]
  BY <1>1 DEF Request, RequestPhase, JobStatus
<1>3. q.phase = "read" /\ q.key \in Keys /\ q.op \in Operation
  BY <1>1, <1>2 DEF Request, Remembers
<1>4. Remembers(q)'
  BY <1>3 DEF Remembers
<1> QED
  BY <1>2, <1>4 DEF RequestStep

(* The commit keeps the index, and answers the key with an active job.       *)
LEMMA CommitIsSound ==
  ASSUME IndInv, NEW r \in Requests, Commit(r)
  PROVE  SoundStep
<1> DEFINE q == request[r]
           record(j) == [op |-> q.op, job |-> j, status |-> q.seen]
           conflict == ~KeyIsFree(q.key) \/ (q.found = "none" /\ ~IndexAdmits)
<1>1. q \in Request /\ q.phase = "commit" /\ Remembers(q)
  BY InvariantParts DEF Commit, RequestsOK, RequestsSound
<1>2. q.key \in Keys /\ q.op \in Operation /\ q.op # "none"
      /\ q.attempt < MaxAttempts /\ q.attempt \in 0..MaxAttempts
  BY <1>1, JobsAreJobs DEF Remembers, Request
<1>3. \A j \in Jobs \cup {"profile"} :
        /\ record(j) \in IdempotencyRecord /\ record(j).op # "none"
        /\ record(j).job = j /\ record(j).job # "none" /\ record(j).status = q.seen
  BY <1>1, <1>2, JobsAreJobs DEF IdempotencyRecord, Request
<1>4. UNCHANGED <<scan, work, scans, faults>>
  BY DEF Commit
<1>5. ASSUME NEW j \in Jobs \cup {"profile"}, ~conflict, Record(q, j),
             j \in Jobs => /\ q.seen \in {"queued", "running"}
                           /\ JobOrder(q.seen) <= JobOrder(job'[j].status)
      PROVE  AnswerStep
  <2>1. answer' = [answer EXCEPT ![q.key] = record(j)] /\ KeyIsFree(q.key)
    BY <1>5 DEF Record
  <2> HIDE DEF record
  <2>2. Answers(q.key, record(j))
    BY <1>3, <1>5, <2>1 DEF Answers
  <2> QED
    BY <1>2, <1>3, <2>2 DEF AnswerStep
<1>6. CASE /\ conflict /\ UNCHANGED store
           /\ Becomes(r, [q EXCEPT !.phase = "read", !.attempt = @ + 1,
                                   !.found = "none", !.seen = "none"])
  <2>1. q.attempt + 1 \in 0..MaxAttempts
    BY <1>2, CountsAreNat
  <2>2. RequestStep
    BY <1>1, <1>6, <2>1, ReadingIsSound
  <2>3. RowsStep /\ AnswerStep
    BY <1>6 DEF store, RowsStep, rows, AnswerStep
  <2> QED
    BY <1>4, <2>2, <2>3, UntouchedIsSound DEF Untouched, SoundStep
<1>7. CASE /\ ~conflict /\ q.found = "profile" /\ Record(q, "profile") /\ Answered(r)
           /\ UNCHANGED <<job, profile, published, due>>
  <2>1. RowsStep
    BY <1>7 DEF RowsStep, rows
  <2>2. AnswerStep
    BY <1>5, <1>7, JobsAreJobs
  <2>3. RequestStep
    BY <1>7, AnsweredIsSound
  <2> QED
    BY <1>4, <2>1, <2>2, <2>3, UntouchedIsSound DEF Untouched, SoundStep
<1>8. CASE /\ ~conflict /\ q.found \in Jobs /\ Record(q, q.found) /\ Goes(r, "lock")
           /\ UNCHANGED <<job, profile, published, due>>
  <2>1. RowsStep
    BY <1>8 DEF RowsStep, rows
  <2>2. /\ q.seen \in {"queued", "running"}
        /\ JobOrder(q.seen) <= JobOrder(job'[q.found].status)
    BY <1>1, <1>8 DEF Remembers
  <2>3. AnswerStep
    BY <1>5, <1>8, <2>2
  <2>4. RequestStep
    BY <1>1, <1>8, GoesIsSound
  <2> QED
    BY <1>4, <2>1, <2>3, <2>4, UntouchedIsSound DEF Untouched, SoundStep
<1>9. ASSUME ~conflict, q.found = "none", UNCHANGED <<profile, published, due>>,
             NEW j \in Jobs, Insert(j), Record(q, j),
             Becomes(r, [q EXCEPT !.phase = "lock", !.found = j])
      PROVE  SoundStep
  <2>1. RowsStep
    BY <1>9 DEF RowsStep
  <2>2. q.seen = "queued"
    BY <1>1, <1>9 DEF Remembers
  <2>3. job[j] \in AnalysisJob /\ job'[j].status = "queued"
    BY <1>9, InvariantParts DEF RowsTypeOK, Insert, AnalysisJob
  <2>4. AnswerStep
    BY <1>5, <1>9, <2>2, <2>3, StatusesAreOrdered
  <2>5. PICK next \in Request : next = [q EXCEPT !.phase = "lock", !.found = j]
    BY <1>1 DEF Request, RequestPhase
  <2>6. next.phase = "lock" /\ next.found \in Jobs
        /\ next.key \in Keys /\ next.op \in Operation
    BY <1>1, <1>2, <2>5 DEF Request
  <2>7. Remembers(next)'
    BY <2>6 DEF Remembers
  <2>8. RequestStep
    BY <1>9, <2>5, <2>7 DEF RequestStep
  <2> QED
    BY <1>4, <2>1, <2>4, <2>8, UntouchedIsSound DEF Untouched, SoundStep
<1> QED
  BY <1>6, <1>7, <1>8, <1>9 DEF Commit

(* Locking the job and answering with a failure project the job as it is.   *)
LEMMA ProjectIsSound ==
  ASSUME IndInv, NEW r \in Requests, Lock(r) \/ ProjectFailure(r)
  PROVE  SoundStep
<1>1. request[r].phase \in {"lock", "project"} /\ request[r] \in Request
  BY InvariantParts DEF RequestsOK, Lock, ProjectFailure
<1>2. request[r].key \in Keys /\ request[r].found \in Jobs
  BY <1>1, InvariantParts DEF RequestsOK, RequestsSound, Remembers
<1>3. Project(request[r].key, request[r].found) /\ UNCHANGED rows /\ Untouched
  BY DEF Lock, ProjectFailure, rows, Untouched
<1>4. Goes(r, "send") \/ Answered(r)
  BY DEF Lock, ProjectFailure
<1>5. RequestStep
  BY <1>1, <1>2, <1>4, GoesIsSound, AnsweredIsSound
<1>6. RowsStep /\ AnswerStep
  BY <1>2, <1>3 DEF RowsStep, AnswerStep
<1> QED
  BY <1>3, <1>5, <1>6, UntouchedIsSound DEF SoundStep

(* Sending moves the handler and puts a message, no more.                    *)
LEMMA SendIsSound ==
  ASSUME IndInv, NEW r \in Requests, Send(r)
  PROVE  SoundStep
<1>1. request[r].phase = "send" /\ request[r] \in Request
  BY InvariantParts DEF RequestsOK, Send
<1>2. request[r].found \in Jobs
  BY <1>1, InvariantParts DEF RequestsOK, RequestsSound, Remembers
<1>3. RequestStep
  BY <1>1, <1>2, GoesIsSound, AnsweredIsSound DEF Send
<1>4. WorkOK'
  <2>1. Put(request[r].found) \/ UNCHANGED work
    BY DEF Send
  <2> QED
    BY <1>2, <2>1, PutKeeps, InvariantParts DEF WorkOK
<1>5. faults' \in SUBSET Faults
  BY FaultKeeps, InvariantParts DEF Send
<1>6. RowsStep /\ AnswerStep /\ ScanOK' /\ scans' \in 0..MaxScans
  BY InvariantParts DEF Send, store, RowsStep, rows, AnswerStep, ScanOK, ScanSound
<1> QED
  BY <1>3, <1>4, <1>5, <1>6 DEF SoundStep

(* Writing that a job could not be published, by whoever wrote it. *)
LEMMA PublicationFailureIsSound ==
  ASSUME NEW j \in Jobs, FailPublication(j)
  PROVE  RowsStep /\ AnswerStep
<1>1. {"queued"} \in SUBSET {"queued", "running"} /\ TRUE \in BOOLEAN
  OBVIOUS
<1>2. WriteFailure(j, {"queued"}, "queue") /\ "queue" \in PublicFailures
  BY DEF FailPublication, PublicFailures
<1> QED
  BY <1>1, <1>2 DEF RowsStep, AnswerStep, WriteFailure

(* Writing the failed publication is a sound step of the API.                *)
LEMMA UndoIsSound ==
  ASSUME IndInv, NEW r \in Requests, Undo(r)
  PROVE  SoundStep
<1>1. request[r].phase = "undo" /\ request[r] \in Request
  BY InvariantParts DEF RequestsOK, Undo
<1>2. request[r].found \in Jobs
  BY <1>1, InvariantParts DEF RequestsOK, RequestsSound, Remembers
<1>3. RequestStep
  BY <1>1, <1>2, GoesIsSound DEF Undo
<1> QED
  BY <1>2, <1>3, PublicationFailureIsSound, UntouchedIsSound DEF Undo, Untouched, SoundStep

(* A handler that dies writes nothing.                                       *)
LEMMA CrashIsSound ==
  ASSUME IndInv, NEW r \in Requests, Crash(r)
  PROVE  SoundStep
<1>1. RequestStep
  BY GoesIsSound DEF Crash
<1>2. faults' \in SUBSET Faults
  BY FaultKeeps, InvariantParts DEF Crash
<1>3. RowsStep /\ AnswerStep /\ ScanOK' /\ WorkOK' /\ scans' \in 0..MaxScans
  BY InvariantParts DEF Crash, store, RowsStep, rows, AnswerStep, ScanOK, ScanSound, WorkOK
<1> QED
  BY <1>1, <1>2, <1>3 DEF SoundStep

(* A repeated request begins again as it was asked.                          *)
LEMMA RepeatIsSound ==
  ASSUME IndInv, NEW r \in Requests, Repeat(r)
  PROVE  SoundStep
<1>1. 0 \in 0..MaxAttempts
  BY CountsAreNat
<1>2. RequestStep
  BY <1>1, ReadingIsSound DEF Repeat
<1>3. RowsStep /\ AnswerStep
  BY DEF Repeat, store, RowsStep, rows, AnswerStep
<1> QED
  BY <1>2, <1>3, UntouchedIsSound DEF Repeat, Untouched, SoundStep

-----------------------------------------------------------------------------
(* The scheduler and the clock take sound steps.                            *)

(* A scan that creates a job keeps the index.                                *)
LEMMA ScanIsSound ==
  ASSUME IndInv, Scan
  PROVE  SoundStep
<1>1. PICK j \in Jobs : Insert(j) /\ scan' = [phase |-> "send", job |-> j]
  BY DEF Scan
<1>2. RowsStep /\ AnswerStep /\ RequestStep
  BY <1>1 DEF Scan, RowsStep, AnswerStep, RequestStep
<1>3. ScanOK'
  BY <1>1 DEF ScanOK, ScanSound
<1>4. WorkOK' /\ faults' \in SUBSET Faults
  BY InvariantParts DEF Scan, WorkOK
<1>5. scans' \in 0..MaxScans
  BY InvariantParts, CountsAreNat DEF Scan
<1> QED
  BY <1>2, <1>3, <1>4, <1>5 DEF SoundStep

(* What the scheduler does with its job is sound.                            *)
LEMMA SchedulerIsSound ==
  ASSUME IndInv, SchedulerStep
  PROVE  SoundStep
<1>a. scan \in [phase : {"idle", "send", "undo"}, job : Jobs \cup {"none"}]
      /\ (scan.phase # "idle" => scan.job \in Jobs)
  BY InvariantParts DEF ScanOK, ScanSound
<1>b. ASSUME scan' = Idle \/ scan' = [scan EXCEPT !.phase = "undo"], scan.phase # "idle"
      PROVE  ScanOK'
  BY <1>a, <1>b DEF ScanOK, ScanSound, Idle
<1>1. ASSUME ScanSends
      PROVE  SoundStep
  <2>1. scan.phase = "send" /\ scan.job \in Jobs
    BY <1>1, <1>a DEF ScanSends
  <2>2. RowsStep /\ AnswerStep /\ RequestStep
    BY <1>1 DEF ScanSends, store, RowsStep, rows, AnswerStep, RequestStep
  <2>3. ScanOK'
    BY <1>1, <1>b, <2>1 DEF ScanSends
  <2>4. Put(scan.job) \/ UNCHANGED work
    BY <1>1 DEF ScanSends
  <2>5. WorkOK'
    BY <2>1, <2>4, PutKeeps, InvariantParts DEF WorkOK
  <2>6. faults' \in SUBSET Faults
    BY <1>1, FaultKeeps, InvariantParts DEF ScanSends
  <2>7. scans' \in 0..MaxScans
    BY <1>1, InvariantParts DEF ScanSends
  <2> QED
    BY <2>2, <2>3, <2>5, <2>6, <2>7 DEF SoundStep
<1>2. ASSUME ScanUndoes
      PROVE  SoundStep
  <2>1. scan.phase = "undo" /\ scan.job \in Jobs
    BY <1>2, <1>a DEF ScanUndoes
  <2>2. RowsStep /\ AnswerStep
    BY <1>2, <2>1, PublicationFailureIsSound DEF ScanUndoes
  <2>3. ScanOK'
    BY <1>2, <1>b, <2>1 DEF ScanUndoes
  <2>4. RequestStep /\ WorkOK' /\ faults' \in SUBSET Faults /\ scans' \in 0..MaxScans
    BY <1>2, InvariantParts DEF ScanUndoes, RequestStep, WorkOK
  <2> QED
    BY <2>2, <2>3, <2>4 DEF SoundStep
<1> QED
  BY <1>1, <1>2 DEF SchedulerStep

(* A profile that falls due is no more than that.                            *)
LEMMA ClockIsSound ==
  ASSUME IndInv, Clock
  PROVE  SoundStep
<1>1. RowsStep /\ AnswerStep /\ RequestStep
  BY DEF Clock, BecomeDue, RowsStep, AnswerStep, RequestStep
<1>2. Untouched
  BY DEF Clock, Untouched
<1> QED
  BY <1>1, <1>2, UntouchedIsSound DEF SoundStep

-----------------------------------------------------------------------------
(* Workers take sound steps.                                                *)

(* A message in another phase, or with one more try while there is budget,  *)
(* is a message. *)
LEMMA MoveIsSound ==
  ASSUME WorkOK, NEW i \in work, NEW phase \in Phases, Move(i, phase)
  PROVE  WorkOK'
<1> DEFINE next == [i EXCEPT !.phase = phase]
<1>1. i \in Item
  BY DEF WorkOK
<1>2. next \in Item /\ next.job = i.job /\ next.copy = i.copy
  BY <1>1 DEF Item
<1> QED
  BY <1>2, MoveKeeps DEF Move

(* A message retried stays in its budget.                                    *)
LEMMA RaiseIsSound ==
  ASSUME WorkOK, NEW i \in work, NEW failure \in Failures, Raise(i, failure)
  PROVE  WorkOK'
<1> DEFINE next == AfterRaise(i, failure)
<1>1. i \in Item
  BY DEF WorkOK
<1>2. next \in Item /\ next.job = i.job /\ next.copy = i.copy
  <2>1. CASE failure = "retryable" /\ i.tries < MaxRetries
    <3>1. i.tries + 1 \in 0..MaxRetries
      BY <1>1, <2>1, CountsAreNat DEF Item
    <3>2. next = [i EXCEPT !.phase = "queued", !.tries = i.tries + 1]
      BY <1>1, <2>1 DEF AfterRaise, Item
    <3> QED
      BY <1>1, <3>1, <3>2 DEF Item, Phases
  <2>2. CASE ~(failure = "retryable" /\ i.tries < MaxRetries)
    <3>1. next = [i EXCEPT !.phase = failure]
      BY <2>2 DEF AfterRaise
    <3> QED
      BY <1>1, <3>1 DEF Item, Phases
  <2> QED
    BY <2>1, <2>2
<1> HIDE DEF next
<1>3. work' = (work \ {i}) \cup {next}
  BY DEF Raise, next
<1> QED
  BY <1>2, <1>3, MoveKeeps

(* Acknowledging, moving and retrying are all a worker does to messages.    *)
WorkerMoves(i) ==
  Ack(i) \/ (\E phase \in Phases : Move(i, phase)) \/ \E failure \in Failures : Raise(i, failure)

(* Whatever a worker does to its message, messages remain.                   *)
LEMMA WorkerMovesAreSound ==
  ASSUME WorkOK, NEW i \in work, WorkerMoves(i)
  PROVE  WorkOK'
  BY AckKeeps, MoveIsSound, RaiseIsSound DEF WorkerMoves

(* The phases, spelt out for the provers.                                    *)
LEMMA PhasesNamed ==
  /\ {"claimed", "fetching", "analyzing", "finalizing", "queued", "retryable"} \subseteq Phases
  /\ "permanent" \in Failures /\ "retryable" \in Failures
  BY DEF Phases, Failures

(* Every step of a worker is a transaction and a move of its message.        *)
LEMMA WorkerIsSound ==
  ASSUME IndInv, NEW i \in work, WorkerStep(i)
  PROVE  SoundStep
<1>a. i \in Item /\ i.job \in Jobs
  BY InvariantParts DEF WorkOK, Item
<1>b. Alone /\ UNCHANGED faults
  BY DEF WorkerStep
<1>c. ASSUME RowsStep, AnswerStep, WorkerMoves(i)
      PROVE  SoundStep
  BY <1>b, <1>c, InvariantParts, WorkerMovesAreSound
     DEF Alone, RequestStep, ScanOK, ScanSound, SoundStep
<1>d. ASSUME UNCHANGED store
      PROVE  RowsStep /\ AnswerStep
  BY <1>d DEF store, RowsStep, rows, AnswerStep
<1>1. ASSUME Claims(i)
      PROVE  SoundStep
  <2>1. WorkerMoves(i)
    BY <1>1, PhasesNamed DEF Claims, WorkerMoves
  <2>2. RowsStep /\ AnswerStep
    BY <1>1, <1>a, <1>d DEF Claims, Claim, RowsStep, AnswerStep
  <2> QED
    BY <1>c, <2>1, <2>2
<1>2. ASSUME Starts(i)
      PROVE  SoundStep
  BY <1>2, <1>c, <1>d, PhasesNamed DEF Starts, Ended, WorkerMoves
<1>3. ASSUME NEW from, NEW to \in Phases, NEW n \in {2, 4}, Advances(i, from, to, n)
      PROVE  SoundStep
  <2>1. WorkerMoves(i)
    BY <1>3, PhasesNamed DEF Advances, WorkerMoves
  <2>2. RowsStep /\ AnswerStep
    BY <1>3, <1>a, <1>d DEF Advances, Advance, RowsStep, AnswerStep
  <2> QED
    BY <1>c, <2>1, <2>2
<1>4. ASSUME Finalizes(i)
      PROVE  SoundStep
  <2>1. WorkerMoves(i)
    BY <1>4, PhasesNamed DEF Finalizes, Ended, WorkerMoves
  <2>2. RowsStep /\ AnswerStep
    BY <1>4, <1>a, <1>d DEF Finalizes, Ended, Finalize, RowsStep, AnswerStep
  <2> QED
    BY <1>c, <2>1, <2>2
<1>5. ASSUME PipelineFails(i)
      PROVE  SoundStep
  BY <1>5, <1>c, <1>d, PhasesNamed DEF PipelineFails, WorkerMoves
<1>6. ASSUME RecordFailure(i)
      PROVE  SoundStep
  <2>1. WriteFailure(i.job, {"queued", "running"}, i.phase) /\ Ack(i) /\ i.phase \in PublicFailures
    BY <1>6 DEF RecordFailure, FailJob, Failures, PublicFailures
  <2>2. AnswerStep
    BY <2>1 DEF WriteFailure, AnswerStep
  <2>3. (i.phase # "permanent") \in BOOLEAN
    OBVIOUS
  <2>4. RowsStep
    BY <1>a, <2>1, <2>3 DEF RowsStep
  <2> QED
    BY <1>c, <2>1, <2>2, <2>4 DEF WorkerMoves
<1> QED
  BY <1>1, <1>2, <1>3, <1>4, <1>5, <1>6, PhasesNamed DEF WorkerStep

(* Faults touch messages only, and leave them messages.                      *)
LEMMA DisturbanceIsSound ==
  ASSUME IndInv, NEW i \in work, Disturbance(i)
  PROVE  SoundStep
<1>a. i \in Item
  BY InvariantParts DEF WorkOK
<1>b. Alone /\ UNCHANGED store
  BY DEF Disturbance
<1>1. RowsStep /\ AnswerStep /\ RequestStep /\ ScanOK' /\ scans' \in 0..MaxScans
  BY <1>b, InvariantParts DEF store, RowsStep, rows, AnswerStep, Alone, RequestStep,
                              ScanOK, ScanSound
<1>2. faults' \in SUBSET Faults
  BY FaultKeeps, InvariantParts
     DEF Disturbance, DatabaseFails, RetryLost, WorkerLost, Redeliver
<1>3. WorkOK'
  <2>1. ASSUME Redeliver(i)
        PROVE  WorkOK'
    <3>1. PICK c \in Copies \ {other.copy : other \in Messages(i.job)} :
            work' = work \cup {[i EXCEPT !.phase = "queued", !.copy = c]}
      BY <2>1 DEF Redeliver
    <3> DEFINE next == [i EXCEPT !.phase = "queued", !.copy = c]
    <3>2. next \in Item /\ next.job = i.job /\ next.copy = c
      BY <1>a, <3>1 DEF Item, Phases
    <3> HIDE DEF next
    <3>3. work' = work \cup {next}
      BY <3>1 DEF next
    <3> QED
      BY <3>1, <3>2, <3>3, AddKeeps, InvariantParts
  <2>2. ASSUME DatabaseFails(i) \/ RetryLost(i) \/ WorkerLost(i)
        PROVE  WorkOK'
    <3>1. WorkerMoves(i)
      BY <2>2, PhasesNamed DEF DatabaseFails, RetryLost, WorkerLost, WorkerMoves
    <3> QED
      BY <3>1, WorkerMovesAreSound, InvariantParts
  <2> QED
    BY <2>1, <2>2 DEF Disturbance
<1> QED
  BY <1>1, <1>2, <1>3 DEF SoundStep

-----------------------------------------------------------------------------
(* Every step is sound.                                                     *)
LEMMA NextIsSound ==
  ASSUME IndInv, Next
  PROVE  SoundStep
<1>1. ASSUME NEW r \in Requests, ClientStep(r) \/ ApiStep(r) \/ Crash(r)
      PROVE  SoundStep
  BY <1>1, AskIsSound, ReadIsSound, CommitIsSound, ProjectIsSound, SendIsSound,
     UndoIsSound, RepeatIsSound, CrashIsSound DEF ApiStep, ClientStep
<1>2. ASSUME NEW i \in work, WorkerStep(i) \/ Disturbance(i)
      PROVE  SoundStep
  BY <1>2, WorkerIsSound, DisturbanceIsSound
<1> QED
  BY <1>1, <1>2, ScanIsSound, SchedulerIsSound, ClockIsSound DEF Next

(* A step that changes nothing is sound too. *)
LEMMA StutterIsSound ==
  ASSUME IndInv, UNCHANGED vars
  PROVE  SoundStep
<1>1. RowsStep /\ AnswerStep /\ RequestStep /\ Untouched
  BY DEF vars, store, RowsStep, rows, AnswerStep, RequestStep, Untouched
<1> QED
  BY <1>1, UntouchedIsSound DEF SoundStep

(* A sound step preserves the invariant and moves stored answers forward.   *)
LEMMA SoundStepKeeps ==
  ASSUME IndInv, SoundStep
  PROVE  IndInv' /\ AnswersMove
<1>1. RowsTypeOK' /\ RowsSound' /\ OneJobAtATime' /\ Forward
  BY InvariantParts, RowsStepType, RowsStepOneJob, RowsStepForward DEF SoundStep
<1>2. AnswersOK' /\ AnswersMove
  BY <1>1, InvariantParts, AnswersKept DEF SoundStep
<1>3. RequestsOK'
  BY <1>1, InvariantParts, RequestsKept DEF SoundStep
<1> QED
  BY <1>1, <1>2, <1>3, InvariantParts DEF SoundStep, IndInv, JobsTypeOK, StoreTypeOK,
     RowsSound, RowsTypeOK, AnswersOK, RequestsOK, ScanOK, WorkOK

(* The invariant holds at first.                                             *)
LEMMA InitIsSound == Init => IndInv
<1> SUFFICES ASSUME Init PROVE IndInv
  OBVIOUS
<1>1. RowsTypeOK /\ RowsSound
  <2>1. [status |-> "none", stage |-> "none", units |-> 0, retryable |-> FALSE] \in AnalysisJob
    BY StagesListed DEF AnalysisJob, JobStatus, TotalUnits
  <2>2. job \in [Jobs -> AnalysisJob] /\ RowsSound /\ published \in Nat
    BY <2>1 DEF Init, StoreInit, RowsSound, ValidJobState, StatusShape, TotalUnits
  <2>3. profile \in BOOLEAN /\ due \in BOOLEAN
    BY Zenon DEF Init, StoreInit
  <2> QED
    BY <2>2, <2>3 DEF RowsTypeOK
<1>2. OneJobAtATime
  <2>1. Active = {} /\ With("succeeded") = {} /\ published = 0
    BY DEF Init, StoreInit, Active, With
  <2> QED
    BY <2>1, FS_EmptySet DEF OneJobAtATime
<1>3. AnswersOK
  BY JobsAreJobs DEF Init, StoreInit, AnswersOK, AnswersWhole, AnswersAreTrue,
                     IdempotencyRecord, JobStatus
<1>4. RequestsOK
  <2>1. Unsent \in Request /\ Unsent.phase = "unsent"
    BY CountsAreNat DEF Unsent, Request, RequestPhase, JobStatus
  <2> QED
    BY <2>1 DEF Init, RequestsOK, RequestsSound, Remembers
<1>5. ScanOK /\ WorkOK /\ scans \in 0..MaxScans /\ faults \in SUBSET Faults
  BY CountsAreNat DEF Init, ScanOK, ScanSound, Idle, WorkOK
<1> QED
  BY <1>1, <1>2, <1>3, <1>4, <1>5, InvariantParts

-----------------------------------------------------------------------------
(* In every behaviour the invariant holds.                                  *)
THEOREM Invariance == Spec => []IndInv
<1>1. IndInv /\ [Next]_vars => IndInv'
  BY NextIsSound, StutterIsSound, SoundStepKeeps
<1> QED
  BY InitIsSound, <1>1, PTL DEF Spec

(* Rows, requests and messages keep their types, and no message is retried  *)
(* beyond its budget, under any mixture of faults.                          *)
THEOREM TypesCorrect == Spec => []JobsTypeOK
<1>1. IndInv => JobsTypeOK
  BY DEF IndInv
<1> QED
  BY <1>1, Invariance, PTL

(* However many requests, retries, scans and workers meet, a target has one *)
(* active job and one publication for each success.                         *)
THEOREM OneJob == Spec => []OneJobAtATime
<1>1. IndInv => OneJobAtATime
  BY DEF IndInv
<1> QED
  BY <1>1, Invariance, PTL

(* The response stored for a key is one its job has had.                    *)
THEOREM AnswersTrue == Spec => []AnswersAreTrue
<1>1. IndInv => AnswersAreTrue
  BY DEF IndInv
<1> QED
  BY <1>1, Invariance, PTL

(* A key answers one request with one job, and never goes back.             *)
THEOREM AnswersForward == Spec => AnswersOnlyMove
<1>1. IndInv /\ [Next]_vars => [AnswersMove]_vars
  BY NextIsSound, SoundStepKeeps
<1>2. Spec => [][AnswersMove]_vars
  BY <1>1, Invariance, PTL DEF Spec
<1> QED
  BY <1>2 DEF AnswersOnlyMove, AnswersMove

(* Requests, scheduler and workers implement the abstract target.           *)
THEOREM TargetImplemented == Spec => ImplementsTarget
<1>1. Init => Target!Init
  BY DEF Init, StoreInit, Target!Init
<1>2. IndInv /\ [Next]_vars => [Target!Next]_(Target!vars)
  BY NextIsSound, StutterIsSound, InvariantParts, RowsStepTarget DEF SoundStep
<1> QED
  BY <1>1, <1>2, Invariance, PTL DEF Spec, ImplementsTarget, Target!Spec

-----------------------------------------------------------------------------
(* That no Analysis Job is forgotten: who is responsible for an active job.  *)
(* Every request whose key answers with a job holds it until a message       *)
(* exists or the job has ended; so does the scheduler; and a running job     *)
(* keeps its message.                                                        *)

(* A request that can still be answered with job j, now or when repeated.   *)
Holds(r, j) ==
  /\ request[r].phase \notin {"unsent", "done"}
  /\ answer[request[r].key].op = request[r].op
  /\ answer[request[r].key].job = j

Held(j) == scan.job = j \/ (KeysOf(j) # {} /\ \A k \in KeysOf(j) : Waits(k))

(* What a handler dispatches is what its key answers with; and once it has  *)
(* written a failure the job is not queued.                                 *)
Carries(q) ==
  /\ q.phase \in {"lock", "send", "undo", "project"} =>
       answer[q.key].op = q.op /\ answer[q.key].job = q.found
  /\ q.phase = "project" => job[q.found].status \notin {"none", "queued"}

(* Keys answer with jobs that exist. *)
AnswersExist == \A k \in Keys : answer[k].job \in Jobs => job[answer[k].job].status # "none"

IdleScan == scan.phase = "idle" => scan.job = "none"

(* A job that has been claimed keeps a message until it ends. *)
RunningHasMessage ==
  faults \cap Forgetting = {} =>
    \A j \in Jobs : job[j].status = "running" => Messages(j) # {}

CareInv ==
  /\ IndInv
  /\ \A r \in Requests : Carries(request[r])
  /\ AnswersExist /\ IdleScan /\ RunningHasMessage /\ NobodyForgotten

(* What every step does for the jobs while nothing is lost: an active job   *)
(* keeps its message, is claimed through one, is created by somebody who    *)
(* holds it, and is let go only to a message.                               *)
CareStep ==
  /\ SoundStep
  /\ faults \subseteq faults'
  /\ \A r \in Requests : request'[r] = request[r] \/ Carries(request[r])'
  /\ IdleScan'
  /\ faults' \cap Forgetting = {} =>
       \A j \in Jobs :
         /\ Messages(j) # {} /\ j \in Active' => Messages(j)' # {}
         /\ job'[j].status = "running" => job[j].status = "running" \/ Messages(j) # {}
         /\ j \in Active' => j \in Active \/ Held(j)'
         /\ j \in Active' /\ Held(j) => Held(j)' \/ Messages(j)' # {}

-----------------------------------------------------------------------------
(* What a sound step gives, under the invariant. *)
LEMMA SoundStepGives ==
  ASSUME IndInv, SoundStep
  PROVE  IndInv' /\ AnswersMove /\ Forward /\ RowsTypeOK /\ RowsTypeOK'
  BY SoundStepKeeps, InvariantParts, RowsStepForward, RowsStepType DEF SoundStep

(* The jobs that answers name go on existing. *)
LEMMA AnswersGoOnExisting ==
  ASSUME IndInv, SoundStep, AnswersExist
  PROVE  AnswersExist'
<1>1. Forward /\ RowsTypeOK /\ RowsTypeOK' /\ answer \in [Keys -> IdempotencyRecord]
      /\ AnswerStep
  BY SoundStepGives, InvariantParts DEF AnswersOK, SoundStep
<1>2. \A j \in Jobs : job[j].status # "none" => job'[j].status # "none"
  <2>1. \A j \in Jobs : JobOrder(job[j].status) \in 0..3
    BY <1>1, OrderOfStatus DEF RowsTypeOK, AnalysisJob
  <2> QED
    BY <1>1, <2>1, StatusesAreOrdered DEF Forward
<1>3. CASE UNCHANGED answer
  BY <1>2, <1>3 DEF AnswersExist
<1>4. ASSUME NEW k \in Keys, NEW j \in Jobs, Project(k, j)
      PROVE  AnswersExist'
  <2>1. \A i \in Keys : answer'[i].job = answer[i].job
    BY <1>1, <1>4 DEF Project, IdempotencyRecord
  <2> QED
    BY <1>2, <2>1 DEF AnswersExist
<1>5. ASSUME NEW k \in Keys, NEW record \in IdempotencyRecord, Answers(k, record)
      PROVE  AnswersExist'
  <2>1. \A i \in Keys : answer'[i] = IF i = k THEN record ELSE answer[i]
    BY <1>1, <1>5 DEF Answers
  <2>2. record.job \in Jobs => job'[record.job].status # "none"
    BY <1>5, StatusesAreOrdered DEF Answers
  <2> QED
    BY <1>2, <2>1, <2>2 DEF AnswersExist
<1> QED
  BY <1>1, <1>3, <1>4, <1>5 DEF AnswerStep

(* A used key goes on answering the request of a handler. *)
LEMMA AnswerStays ==
  ASSUME IndInv, AnswersMove, NEW r \in Requests, request[r].phase \notin {"unsent", "done"},
         answer[request[r].key].op = request[r].op
  PROVE  /\ answer'[request[r].key].op = request[r].op
         /\ answer'[request[r].key].job = answer[request[r].key].job
<1>1. request[r].key \in Keys /\ request[r].op # "none"
  BY InvariantParts, JobsAreJobs DEF RequestsOK, RequestsSound, Remembers
<1> QED
  BY <1>1 DEF AnswersMove

(* A handler that keeps its request keeps its hold on a job.                 *)
LEMMA HoldsKept ==
  ASSUME IndInv, AnswersMove, NEW r \in Requests, NEW j \in Jobs, Holds(r, j),
         request'[r].phase \notin {"unsent", "done"},
         request'[r].key = request[r].key, request'[r].op = request[r].op
  PROVE  Holds(r, j)'
  BY AnswerStays DEF Holds

(* A handler that did not move carries what it did. *)
LEMMA CarriesKept ==
  ASSUME CareInv, SoundStep, NEW r \in Requests, request'[r] = request[r]
  PROVE  Carries(request[r])'
<1>1. IndInv /\ Carries(request[r]) /\ Remembers(request[r])
  BY InvariantParts DEF CareInv, RequestsOK, RequestsSound
<1>2. AnswersMove /\ Forward /\ RowsTypeOK
  BY <1>1, SoundStepGives
<1>3. CASE request[r].phase \in {"lock", "send", "undo", "project"}
  <2>1. request[r].found \in Jobs
    BY <1>1, <1>3 DEF Remembers
  <2>2. /\ answer'[request[r].key].op = request[r].op
        /\ answer'[request[r].key].job = request[r].found
    BY <1>1, <1>2, <1>3, AnswerStays DEF Carries
  <2>3. job[request[r].found].status \notin {"none", "queued"} =>
          job'[request[r].found].status \notin {"none", "queued"}
    <3>1. job[request[r].found].status \in JobStatus
      BY <1>2, <2>1 DEF RowsTypeOK, AnalysisJob
    <3> QED
      BY <1>2, <2>1, <3>1, StatusesAreOrdered DEF Forward, JobStatus
  <2> QED
    BY <1>1, <1>3, <2>2, <2>3 DEF Carries
<1>4. CASE request[r].phase \notin {"lock", "send", "undo", "project"}
  BY <1>4 DEF Carries
<1> QED
  BY <1>3, <1>4

(* Steps that take care of the jobs forget none. *)
LEMMA CareStepKeeps ==
  ASSUME CareInv, CareStep
  PROVE  CareInv'
<1>1. IndInv' /\ AnswersExist' /\ IdleScan'
  BY SoundStepGives, AnswersGoOnExisting DEF CareInv, CareStep
<1>2. \A r \in Requests : Carries(request[r])'
  BY CarriesKept DEF CareStep
<1>3. faults' \cap Forgetting = {} => faults \cap Forgetting = {}
  BY DEF CareStep
<1>4. RunningHasMessage'
  <2> SUFFICES ASSUME faults' \cap Forgetting = {},
                      NEW j \in Jobs, job'[j].status = "running"
               PROVE  Messages(j)' # {}
    BY DEF RunningHasMessage
  <2>1. Messages(j) # {}
    BY <1>3 DEF CareInv, CareStep, RunningHasMessage
  <2>2. j \in Active'
    BY DEF Active, With
  <2> QED
    BY <2>1, <2>2 DEF CareStep
<1>5. NobodyForgotten'
  <2> SUFFICES ASSUME faults' \cap Forgetting = {}, NEW j \in Jobs, j \in Active'
               PROVE  Messages(j)' # {} \/ Held(j)'
    BY DEF NobodyForgotten, Held, Active, With
  <2>1. CASE j \notin Active
    BY <2>1 DEF CareStep
  <2>2. CASE j \in Active
    <3>1. Messages(j) # {} \/ Held(j)
      BY <1>3, <2>2 DEF CareInv, NobodyForgotten, Held
    <3> QED
      BY <3>1 DEF CareStep
  <2> QED
    BY <2>1, <2>2
<1> QED
  BY <1>1, <1>2, <1>4, <1>5 DEF CareInv

-----------------------------------------------------------------------------
(* The API *)

(* A handler's step takes care of the jobs if it carries what it must, lets *)
(* go of a job only to a message, and has to answer the keys it records.    *)
LEMMA ApiCares ==
  ASSUME CareInv, SoundStep, NEW r \in Requests,
         \A other \in Requests \ {r} : request'[other] = request[other],
         Carries(request[r])',
         \/ request[r].phase = "unsent" \/ request'[r].phase = "done"
         \/ request'[r].key = request[r].key,
         \A k \in Keys : answer'[k].job = answer[k].job \/ answer'[k].job \notin Jobs
                           \/ Waits(k)',
         UNCHANGED scan, work \subseteq work', faults \subseteq faults',
         \A j \in Jobs : job'[j].status = "running" => job[j].status = "running",
         \A j \in Jobs : j \in Active' => j \in Active \/ Held(j)',
         faults' \cap Forgetting = {} =>
           \A j \in Jobs : j \in Active' /\ Holds(r, j) =>
                            Holds(r, j)' \/ Messages(j)' # {}
  PROVE  CareStep
<1>1. IndInv /\ AnswersMove /\ IdleScan
  BY SoundStepGives DEF CareInv
<1>2. IdleScan'
  BY <1>1 DEF IdleScan
<1>3. ASSUME faults' \cap Forgetting = {}, NEW j \in Jobs, j \in Active', Held(j),
             Messages(j)' = {}
      PROVE  Held(j)'
  <2>1. CASE scan.job = j
    BY <2>1 DEF Held
  <2>2. CASE KeysOf(j) # {} /\ \A k \in KeysOf(j) : Waits(k)
    <3>1. ASSUME NEW k \in KeysOf(j)
          PROVE  answer'[k].job = j /\ Waits(k)'
      <4>1. k \in Keys /\ answer[k].job = j
        BY DEF KeysOf
      <4>2. PICK o \in Requests : /\ request[o].phase \notin {"unsent", "done"}
                                  /\ request[o].key = k /\ request[o].op = answer[k].op
        BY <2>2, <3>1 DEF Waits
      <4>3. answer'[k].job = j
        BY <1>1, <4>1, <4>2, AnswerStays
      <4>4. CASE o # r
        <5>1. request'[o] = request[o]
          BY <4>4
        <5>2. answer'[k].op = answer[k].op
          BY <1>1, <4>2, AnswerStays
        <5> QED
          BY <4>2, <4>3, <5>1, <5>2 DEF Waits
      <4>5. CASE o = r
        <5>1. Holds(r, j)
          BY <4>1, <4>2, <4>5 DEF Holds
        <5>2. Holds(r, j)' /\ request'[r].key = k
          BY <1>3, <4>2, <4>5, <5>1 DEF Holds
        <5> QED
          BY <4>3, <5>2 DEF Holds, Waits
      <4> QED
        BY <4>4, <4>5
    <3>2. KeysOf(j)' # {}
      BY <2>2, <3>1 DEF KeysOf
    <3>3. ASSUME NEW k \in KeysOf(j)'
          PROVE  Waits(k)'
      <4>1. CASE k \in KeysOf(j)
        BY <3>1, <4>1
      <4>2. CASE k \notin KeysOf(j)
        BY <3>3, <4>2 DEF KeysOf
      <4> QED
        BY <4>1, <4>2
    <3> QED
      BY <3>2, <3>3 DEF Held
  <2> QED
    BY <1>3, <2>1, <2>2 DEF Held
<1>4. \A j \in Jobs : Messages(j) # {} => Messages(j)' # {}
  BY DEF Messages
<1> QED
  BY <1>2, <1>3, <1>4 DEF CareStep

(* Where a handler goes. *)
LEMMA BecomesGives ==
  ASSUME IndInv, NEW r \in Requests, NEW q, Becomes(r, q)
  PROVE  request'[r] = q /\ \A other \in Requests \ {r} : request'[other] = request[other]
  BY InvariantParts DEF Becomes, RequestsOK

(* A step that touches no row lets no job become active. *)
LEMMA RowsAtRest ==
  ASSUME UNCHANGED job
  PROVE  /\ \A j \in Jobs : job'[j].status = "running" => job[j].status = "running"
         /\ Active' = Active
  BY DEF Active, With

(* A finished handler carries nothing, one that reads or commits has        *)
(* nothing to dispatch.                                                     *)
LEMMA IdleCarriesNothing ==
  ASSUME NEW r \in Requests,
         request'[r].phase \notin {"lock", "send", "undo", "project"}
  PROVE  Carries(request[r])'
  BY DEF Carries

(* A handler that has answered is done.                                      *)
LEMMA AnsweredGives ==
  ASSUME IndInv, NEW r \in Requests, Answered(r)
  PROVE  /\ request'[r].phase = "done"
         /\ \A other \in Requests \ {r} : request'[other] = request[other]
<1>1. request'[r] = [Unsent EXCEPT !.phase = "done"]
  BY BecomesGives DEF Answered
<1>2. request'[r].phase = "done"
  BY <1>1 DEF Unsent
<1> QED
  BY <1>2, BecomesGives DEF Answered

(* A handler that goes on keeps its key, request and job.                    *)
LEMMA GoesGives ==
  ASSUME IndInv, NEW r \in Requests, NEW phase, Goes(r, phase)
  PROVE  /\ request'[r].phase = phase /\ request'[r].key = request[r].key
         /\ request'[r].op = request[r].op /\ request'[r].found = request[r].found
         /\ \A other \in Requests \ {r} : request'[other] = request[other]
<1>1. request[r] \in Request
  BY InvariantParts DEF RequestsOK
<1>2. request'[r] = [request[r] EXCEPT !.phase = phase]
  BY BecomesGives DEF Goes
<1> QED
  BY <1>1, <1>2, BecomesGives DEF Goes, Request

(* Asking touches no job.                                                    *)
LEMMA AskCares ==
  ASSUME CareInv, NEW r \in Requests, Ask(r)
  PROVE  CareStep
<1>1. IndInv /\ SoundStep
  BY AskIsSound DEF CareInv
<1>2. request[r] \in Request
  BY <1>1, InvariantParts DEF RequestsOK
<1>3. PICK k \in Keys, op \in {"create", "reanalyze"} \cup With("failed") :
        Becomes(r, [request[r] EXCEPT !.phase = "read", !.key = k, !.op = op])
  BY DEF Ask
<1>4. /\ request'[r].phase = "read"
      /\ \A other \in Requests \ {r} : request'[other] = request[other]
  <2>1. request'[r] = [request[r] EXCEPT !.phase = "read", !.key = k, !.op = op]
    BY <1>1, <1>3, BecomesGives
  <2>2. request'[r].phase = "read"
    BY <1>2, <2>1 DEF Request
  <2> QED
    BY <1>1, <1>3, <2>2, BecomesGives
<1>5. /\ UNCHANGED <<job, answer, scan, work, faults>> /\ \A j \in Jobs : ~Holds(r, j)
      /\ request[r].phase = "unsent"
  BY DEF Ask, store, Holds
<1> QED
  BY <1>1, <1>4, <1>5, ApiCares, RowsAtRest, IdleCarriesNothing

(* A handler that reads carries the job its key answers with.                *)
LEMMA ReadCares ==
  ASSUME CareInv, NEW r \in Requests, Read(r)
  PROVE  CareStep
<1> DEFINE q == request[r]
           stored == answer[q.key]
<1>1. IndInv /\ SoundStep /\ AnswersMove
  BY ReadIsSound, SoundStepGives DEF CareInv
<1>2. q \in Request /\ q.phase = "read" /\ q.op # "none"
  BY <1>1, InvariantParts, JobsAreJobs DEF Read, RequestsOK, RequestsSound, Remembers
<1>3. UNCHANGED <<job, answer, scan, work, faults>>
  BY DEF Read, store
<1>4. ASSUME Answered(r), \A j \in Jobs : ~Holds(r, j)
      PROVE  CareStep
  BY <1>1, <1>3, <1>4, AnsweredGives, ApiCares, RowsAtRest, IdleCarriesNothing
<1>5. ASSUME request'[r].phase \in {"lock", "commit"}, request'[r].key = q.key,
             request'[r].op = q.op, Carries(request[r])',
             \A other \in Requests \ {r} : request'[other] = request[other]
      PROVE  CareStep
  <2>1. \A j \in Jobs : Holds(r, j) => Holds(r, j)'
    BY <1>1, <1>5, HoldsKept
  <2> QED
    BY <1>1, <1>3, <1>5, <2>1, ApiCares, RowsAtRest
<1>6. CASE Answered(r) /\ (stored.op = q.op => stored.job = "profile")
  BY <1>4, <1>6, JobsAreJobs DEF Holds
<1>7. CASE /\ stored.op = q.op
           /\ Becomes(r, [q EXCEPT !.phase = "lock", !.found = stored.job])
  <2>1. request'[r] = [q EXCEPT !.phase = "lock", !.found = stored.job]
        /\ \A other \in Requests \ {r} : request'[other] = request[other]
    BY <1>1, <1>7, BecomesGives
  <2>2. request'[r].phase = "lock" /\ request'[r].key = q.key /\ request'[r].op = q.op
        /\ request'[r].found = stored.job
    BY <1>2, <2>1 DEF Request
  <2>3. Carries(request[r])'
    BY <1>3, <1>7, <2>2 DEF Carries
  <2> QED
    BY <1>5, <2>1, <2>2, <2>3
<1>8. ASSUME NEW j, NEW s,
             Becomes(r, [q EXCEPT !.phase = "commit", !.found = j, !.seen = s])
      PROVE  CareStep
  <2>1. request'[r] = [q EXCEPT !.phase = "commit", !.found = j, !.seen = s]
        /\ \A other \in Requests \ {r} : request'[other] = request[other]
    BY <1>1, <1>8, BecomesGives
  <2>2. request'[r].phase = "commit" /\ request'[r].key = q.key /\ request'[r].op = q.op
    BY <1>2, <2>1 DEF Request
  <2> QED
    BY <1>5, <2>1, <2>2, IdleCarriesNothing
<1> QED
  BY <1>2, <1>6, <1>7, <1>8 DEF Read

(* The job a handler creates is held by it.                                  *)
LEMMA CommitCares ==
  ASSUME CareInv, NEW r \in Requests, Commit(r)
  PROVE  CareStep
<1> DEFINE q == request[r]
           Recorded == \A k \in Keys : answer'[k].job = answer[k].job
                                        \/ answer'[k].job \notin Jobs \/ Waits(k)'
           conflict == ~KeyIsFree(q.key) \/ (q.found = "none" /\ ~IndexAdmits)
<1>1. IndInv /\ SoundStep /\ AnswersMove
  BY CommitIsSound, SoundStepGives DEF CareInv
<1>2. q \in Request /\ q.phase = "commit" /\ q.op # "none" /\ q.key \in Keys
  BY <1>1, InvariantParts, JobsAreJobs DEF Commit, RequestsOK, RequestsSound, Remembers
<1>3. UNCHANGED <<scan, work, faults>> /\ answer \in [Keys -> IdempotencyRecord]
      /\ job \in [Jobs -> AnalysisJob]
  BY <1>1, InvariantParts DEF Commit, AnswersOK, RowsTypeOK
<1>4. ~conflict => \A j \in Jobs : ~Holds(r, j)
  BY <1>2 DEF KeyIsFree, Holds
<1>5. ASSUME NEW j, Record(q, j)
      PROVE  /\ answer'[q.key].op = q.op /\ answer'[q.key].job = j
             /\ \A k \in Keys \ {q.key} : answer'[k] = answer[k]
  BY <1>2, <1>3, <1>5 DEF Record
<1>a. ASSUME NEW j, Record(q, j), request'[r].phase = "lock",
             request'[r].key = q.key, request'[r].op = q.op
      PROVE  Waits(q.key)' /\ Recorded
  <2>1. Waits(q.key)'
    BY <1>5, <1>a DEF Waits
  <2> QED
    BY <1>5, <1>a, <2>1
<1>6. CASE /\ UNCHANGED store
           /\ Becomes(r, [q EXCEPT !.phase = "read", !.attempt = @ + 1,
                                   !.found = "none", !.seen = "none"])
  <2>1. request'[r].phase = "read" /\ request'[r].key = q.key /\ request'[r].op = q.op
        /\ \A other \in Requests \ {r} : request'[other] = request[other]
    <3>1. request'[r] = [q EXCEPT !.phase = "read", !.attempt = q.attempt + 1,
                                  !.found = "none", !.seen = "none"]
          /\ \A other \in Requests \ {r} : request'[other] = request[other]
      BY <1>1, <1>2, <1>6, BecomesGives DEF Request
    <3> QED
      BY <1>2, <3>1 DEF Request
  <2>2. \A j \in Jobs : Holds(r, j) => Holds(r, j)'
    BY <1>1, <2>1, HoldsKept
  <2>3. UNCHANGED <<job, answer>>
    BY <1>6 DEF store
  <2> QED
    BY <1>1, <1>3, <2>1, <2>2, <2>3, ApiCares, RowsAtRest, IdleCarriesNothing
<1>7. CASE /\ ~conflict /\ Record(q, "profile") /\ Answered(r)
           /\ UNCHANGED <<job, profile, published, due>>
  <2>1. Recorded
    BY <1>5, <1>7, JobsAreJobs
  <2> QED
    BY <1>1, <1>3, <1>4, <1>7, <2>1, AnsweredGives, ApiCares, RowsAtRest, IdleCarriesNothing
<1>8. CASE /\ ~conflict /\ Record(q, q.found) /\ Goes(r, "lock")
           /\ UNCHANGED <<job, profile, published, due>>
  <2>1. request'[r].phase = "lock" /\ request'[r].key = q.key /\ request'[r].op = q.op
        /\ request'[r].found = q.found
        /\ \A other \in Requests \ {r} : request'[other] = request[other]
    BY <1>1, <1>8, GoesGives
  <2>2. Carries(request[r])'
    BY <1>5, <1>8, <2>1 DEF Carries
  <2> QED
    BY <1>1, <1>3, <1>4, <1>8, <1>a, <2>1, <2>2, ApiCares, RowsAtRest
<1>9. ASSUME ~conflict, NEW j \in Jobs, Insert(j), Record(q, j),
             Becomes(r, [q EXCEPT !.phase = "lock", !.found = j])
      PROVE  CareStep
  <2>1. request'[r].phase = "lock" /\ request'[r].key = q.key /\ request'[r].op = q.op
        /\ request'[r].found = j
        /\ \A other \in Requests \ {r} : request'[other] = request[other]
    <3>1. request'[r] = [q EXCEPT !.phase = "lock", !.found = j]
          /\ \A other \in Requests \ {r} : request'[other] = request[other]
      BY <1>1, <1>9, BecomesGives
    <3> QED
      BY <1>2, <3>1 DEF Request
  <2>2. Carries(request[r])' /\ Holds(r, j)'
    BY <1>5, <1>9, <2>1 DEF Carries, Holds
  <2>3. \A i \in Jobs : /\ job'[i].status = "running" => job[i].status = "running"
                        /\ i \in Active' => i \in Active \/ i = j
    <3>1. \A i \in Jobs : job'[i].status = IF i = j THEN "queued" ELSE job[i].status
      BY <1>3, <1>9 DEF Insert, AnalysisJob
    <3> QED
      BY <3>1 DEF Active, With
  <2>4. Held(j)'
    <3>1. \A k \in Keys : answer[k].job # j
      BY <1>9 DEF CareInv, AnswersExist, Insert
    <3>2. KeysOf(j)' = {q.key}
      BY <1>2, <1>5, <1>9, <3>1 DEF KeysOf
    <3> QED
      BY <1>9, <1>a, <2>1, <3>2 DEF Held
  <2>5. Recorded
    BY <1>9, <1>a, <2>1
  <2> QED
    BY <1>1, <1>3, <1>4, <1>9, <2>1, <2>2, <2>3, <2>4, <2>5, ApiCares
<1> QED
  BY <1>6, <1>7, <1>8, <1>9 DEF Commit

(* The job a dispatching handler holds is the one it has found. *)
LEMMA HoldsWhatItFound ==
  ASSUME CareInv, NEW r \in Requests,
         request[r].phase \in {"lock", "send", "undo", "project"}
  PROVE  /\ request[r].found \in Jobs
         /\ \A j \in Jobs : Holds(r, j) => j = request[r].found
         /\ job[request[r].found].status # "none"
<1>1. request[r].found \in Jobs /\ request[r].key \in Keys
  BY InvariantParts DEF CareInv, RequestsOK, RequestsSound, Remembers
<1>2. answer[request[r].key].job = request[r].found
  BY DEF CareInv, Carries
<1> QED
  BY <1>1, <1>2 DEF CareInv, AnswersExist, Holds

(* A handler that ends with a running job leaves it to a message. *)
LEMMA RunningIsCarried ==
  ASSUME CareInv, NEW j \in Jobs, job[j].status # "queued", j \in Active,
         faults \cap Forgetting = {}
  PROVE  Messages(j) # {}
  BY DEF CareInv, RunningHasMessage, Active, With

(* A handler ends here only with a job that is not queued.                   *)
LEMMA ProjectCares ==
  ASSUME CareInv, NEW r \in Requests, Lock(r) \/ ProjectFailure(r)
  PROVE  CareStep
<1>1. IndInv /\ SoundStep /\ AnswersMove
  BY ProjectIsSound, SoundStepGives DEF CareInv
<1>2. request[r].phase \in {"lock", "project"} /\ UNCHANGED <<job, scan, work, faults>>
  BY DEF Lock, ProjectFailure
<1>a. \A k \in Keys : answer'[k].job = answer[k].job
  <2>1. answer \in [Keys -> IdempotencyRecord]
    BY <1>1, InvariantParts DEF AnswersOK
  <2> QED
    BY <2>1 DEF Lock, ProjectFailure, Project, IdempotencyRecord
<1>3. \A j \in Jobs : Holds(r, j) => j = request[r].found
  BY <1>2, HoldsWhatItFound
<1>4. CASE Goes(r, "send") /\ request[r].phase = "lock"
  <2>1. /\ request'[r].phase = "send" /\ request'[r].key = request[r].key
        /\ request'[r].op = request[r].op /\ request'[r].found = request[r].found
        /\ \A other \in Requests \ {r} : request'[other] = request[other]
    BY <1>1, <1>4, GoesGives
  <2>2. Carries(request[r])'
    <3>1. answer[request[r].key].op = request[r].op
          /\ answer[request[r].key].job = request[r].found
      BY <1>4 DEF CareInv, Carries
    <3>2. answer'[request[r].key].op = request[r].op
          /\ answer'[request[r].key].job = request[r].found
      BY <1>1, <1>4, <3>1, AnswerStays
    <3> QED
      BY <2>1, <3>2 DEF Carries
  <2>3. \A j \in Jobs : Holds(r, j) => Holds(r, j)'
    BY <1>1, <2>1, HoldsKept
  <2> QED
    BY <1>1, <1>2, <1>a, <2>1, <2>2, <2>3, ApiCares, RowsAtRest
<1>5. CASE Answered(r) /\ job[request[r].found].status # "queued"
  <2>1. ASSUME faults' \cap Forgetting = {}, NEW j \in Jobs, j \in Active', Holds(r, j)
        PROVE  Messages(j)' # {}
    <3>1. j \in Active /\ job[j].status # "queued"
      BY <1>2, <1>3, <1>5, <2>1, RowsAtRest
    <3>2. Messages(j) # {}
      BY <1>2, <2>1, <3>1, RunningIsCarried
    <3> QED
      BY <1>2, <3>2 DEF Messages
  <2> QED
    BY <1>1, <1>2, <1>a, <1>5, <2>1, AnsweredGives, ApiCares, RowsAtRest, IdleCarriesNothing
<1>6. request[r].phase = "project" => job[request[r].found].status # "queued"
  BY DEF CareInv, Carries
<1> QED
  BY <1>4, <1>5, <1>6 DEF Lock, ProjectFailure

(* A job that is sent has a message, and no other message goes. *)
LEMMA PutSends ==
  ASSUME NEW j \in Jobs, Put(j)
  PROVE  Messages(j)' # {} /\ work \subseteq work'
<1>1. CASE Copies \ {i.copy : i \in Messages(j)} = {}
  BY <1>1, CopiesExist DEF Put, Messages
<1>2. ASSUME NEW c \in Copies \ {i.copy : i \in Messages(j)},
             work' = work \cup {[job |-> j, copy |-> c, phase |-> "queued", tries |-> 0]}
      PROVE  Messages(j)' # {} /\ work \subseteq work'
  <2>1. [job |-> j, copy |-> c, phase |-> "queued", tries |-> 0] \in Messages(j)'
    BY <1>2 DEF Messages
  <2> QED
    BY <1>2, <2>1
<1> QED
  BY <1>1, <1>2 DEF Put

(* A job is let go to a message, or its failure is written next.             *)
LEMMA SendCares ==
  ASSUME CareInv, NEW r \in Requests, Send(r)
  PROVE  CareStep
<1>1. IndInv /\ SoundStep /\ AnswersMove
  BY SendIsSound, SoundStepGives DEF CareInv
<1>2. request[r].phase = "send" /\ UNCHANGED <<job, answer, scan>>
  BY DEF Send, store
<1>3. PICK found \in Jobs :
        found = request[r].found /\ \A j \in Jobs : Holds(r, j) => j = found
  BY <1>2, HoldsWhatItFound
<1>4. CASE Put(found) /\ Answered(r) /\ UNCHANGED faults
  <2>1. Messages(found)' # {} /\ work \subseteq work'
    BY <1>3, <1>4, PutSends
  <2> QED
    BY <1>1, <1>2, <1>3, <1>4, <2>1, AnsweredGives, ApiCares, RowsAtRest, IdleCarriesNothing
<1>5. CASE Fault("api broker") /\ Goes(r, "undo") /\ (Put(found) \/ UNCHANGED work)
  <2>1. /\ request'[r].phase = "undo" /\ request'[r].key = request[r].key
        /\ request'[r].op = request[r].op /\ request'[r].found = found
        /\ \A other \in Requests \ {r} : request'[other] = request[other]
    BY <1>1, <1>3, <1>5, GoesGives
  <2>2. work \subseteq work' /\ faults \subseteq faults'
    BY <1>3, <1>5, PutSends DEF Fault
  <2>3. Carries(request[r])'
    BY <1>2, <1>3, <2>1 DEF CareInv, Carries
  <2>4. \A j \in Jobs : Holds(r, j) => Holds(r, j)'
    BY <1>1, <2>1, HoldsKept
  <2> QED
    BY <1>1, <1>2, <2>1, <2>2, <2>3, <2>4, ApiCares, RowsAtRest
<1> QED
  BY <1>3, <1>4, <1>5 DEF Send

(* A queued job that could not be published ends, any other is as it was.   *)
LEMMA PublicationFailureEnds ==
  ASSUME IndInv, NEW j \in Jobs, FailPublication(j)
  PROVE  \A i \in Jobs : job'[i].status = IF i = j /\ job[i].status = "queued"
                                            THEN "failed" ELSE job[i].status
<1>1. job \in [Jobs -> AnalysisJob]
  BY InvariantParts DEF RowsTypeOK
<1> QED
  BY <1>1 DEF FailPublication, WriteFailure, AnalysisJob

(* A failed publication leaves no queued job behind.                         *)
LEMMA UndoCares ==
  ASSUME CareInv, NEW r \in Requests, Undo(r)
  PROVE  CareStep
<1> DEFINE found == request[r].found
<1>1. IndInv /\ SoundStep /\ AnswersMove
  BY UndoIsSound, SoundStepGives DEF CareInv
<1>2. request[r].phase = "undo" /\ FailPublication(found) /\ Goes(r, "project")
      /\ UNCHANGED <<answer, scan, work, faults>>
  BY DEF Undo, FailPublication, WriteFailure
<1>3. found \in Jobs /\ job[found].status # "none"
  BY <1>2, HoldsWhatItFound
<1>4. /\ request'[r].phase = "project" /\ request'[r].key = request[r].key
      /\ request'[r].op = request[r].op /\ request'[r].found = found
      /\ \A other \in Requests \ {r} : request'[other] = request[other]
  BY <1>1, <1>2, GoesGives
<1>5. \A i \in Jobs : job'[i].status = IF i = found /\ job[i].status = "queued"
                                         THEN "failed" ELSE job[i].status
  BY <1>1, <1>2, <1>3, PublicationFailureEnds
<1>6. Carries(request[r])'
  <2>1. job'[found].status \notin {"none", "queued"}
    BY <1>3, <1>5
  <2> QED
    BY <1>2, <1>4, <2>1 DEF CareInv, Carries
<1>7. \A j \in Jobs : Holds(r, j) => Holds(r, j)'
  BY <1>1, <1>4, HoldsKept
<1>8. \A j \in Jobs : /\ job'[j].status = "running" => job[j].status = "running"
                      /\ j \in Active' => j \in Active
  BY <1>5 DEF Active, With
<1> QED
  BY <1>1, <1>2, <1>4, <1>6, <1>7, <1>8, ApiCares

(* The client of a handler that died has not been answered.                  *)
LEMMA CrashCares ==
  ASSUME CareInv, NEW r \in Requests, Crash(r)
  PROVE  CareStep
<1>1. IndInv /\ SoundStep /\ AnswersMove
  BY CrashIsSound, SoundStepGives DEF CareInv
<1>2. UNCHANGED <<job, answer, scan, work>> /\ faults \subseteq faults'
  BY DEF Crash, store, Fault
<1>3. /\ request'[r].phase = "lost" /\ request'[r].key = request[r].key
      /\ request'[r].op = request[r].op
      /\ \A other \in Requests \ {r} : request'[other] = request[other]
  BY <1>1, GoesGives DEF Crash
<1>4. \A j \in Jobs : Holds(r, j) => Holds(r, j)'
  BY <1>1, <1>3, HoldsKept
<1> QED
  BY <1>1, <1>2, <1>3, <1>4, ApiCares, RowsAtRest, IdleCarriesNothing

(* A repeated request holds what it held.                                    *)
LEMMA RepeatCares ==
  ASSUME CareInv, NEW r \in Requests, Repeat(r)
  PROVE  CareStep
<1>1. IndInv /\ SoundStep /\ AnswersMove /\ request[r] \in Request
  BY RepeatIsSound, SoundStepGives, InvariantParts DEF CareInv, RequestsOK
<1>2. UNCHANGED <<job, answer, scan, work, faults>>
  BY DEF Repeat, store
<1>3. /\ request'[r].phase = "read" /\ request'[r].key = request[r].key
      /\ request'[r].op = request[r].op
      /\ \A other \in Requests \ {r} : request'[other] = request[other]
  <2>1. request'[r] = [request[r] EXCEPT !.phase = "read", !.attempt = 0,
                                         !.found = "none", !.seen = "none"]
        /\ \A other \in Requests \ {r} : request'[other] = request[other]
    BY <1>1, BecomesGives DEF Repeat
  <2> QED
    BY <1>1, <2>1 DEF Request
<1>4. \A j \in Jobs : Holds(r, j) => Holds(r, j)'
  BY <1>1, <1>3, HoldsKept
<1> QED
  BY <1>1, <1>2, <1>3, <1>4, ApiCares, RowsAtRest, IdleCarriesNothing

-----------------------------------------------------------------------------
(* The scheduler, the clock and the workers *)

(* A step of somebody other than the API moves no request and no answer, so *)
(* whoever was holding a job holds it still, the scheduler apart.           *)
LEMMA HoldersRemain ==
  ASSUME UNCHANGED <<request, answer>>, NEW j \in Jobs, Held(j)
  PROVE  Held(j)' \/ (scan.job = j /\ scan'.job # j)
  BY DEF Held, KeysOf, Waits

(* The scheduler holds the job it creates.                                   *)
LEMMA ScanCares ==
  ASSUME CareInv, Scan
  PROVE  CareStep
<1>1. SoundStep /\ job \in [Jobs -> AnalysisJob]
  BY ScanIsSound, InvariantParts DEF CareInv, RowsTypeOK
<1>2. UNCHANGED <<request, answer, work, faults>> /\ scan.job = "none"
  BY DEF Scan, Idle
<1>3. PICK j \in Jobs : Insert(j) /\ scan' = [phase |-> "send", job |-> j]
  BY DEF Scan
<1>4. \A i \in Jobs : /\ job'[i].status = "running" => job[i].status = "running"
                      /\ i \in Active' => i \in Active \/ i = j
  <2>1. \A i \in Jobs : job'[i].status = IF i = j THEN "queued" ELSE job[i].status
    BY <1>1, <1>3 DEF Insert, AnalysisJob
  <2> QED
    BY <2>1 DEF Active, With
<1>5. Held(j)' /\ IdleScan'
  BY <1>3 DEF Held, IdleScan
<1>6. \A i \in Jobs : (Held(i) => Held(i)') /\ (Messages(i) # {} => Messages(i)' # {})
  BY <1>2, HoldersRemain, JobsAreJobs DEF Messages
<1> QED
  BY <1>1, <1>2, <1>4, <1>5, <1>6 DEF CareStep

(* The scheduler lets go of a job as the API does, or is lost with it.       *)
LEMMA SchedulerCares ==
  ASSUME CareInv, SchedulerStep
  PROVE  CareStep
<1>1. SoundStep /\ IndInv
  BY SchedulerIsSound DEF CareInv
<1>2. UNCHANGED <<request, answer>>
  BY DEF SchedulerStep, ScanSends, ScanUndoes, store, FailPublication, WriteFailure
<1>3. scan \in [phase : {"idle", "send", "undo"}, job : Jobs \cup {"none"}]
  BY <1>1, InvariantParts DEF ScanOK
<1>4. CASE ScanSends
  <2>1. UNCHANGED job /\ scan.phase = "send"
    BY <1>4 DEF ScanSends, store
  <2>2. PICK j \in Jobs : j = scan.job
    BY <1>1, <2>1, InvariantParts DEF ScanOK, ScanSound
  <2>3. CASE Put(scan.job) /\ scan' = Idle /\ UNCHANGED faults
    <3>1. Messages(j)' # {} /\ work \subseteq work'
      BY <2>2, <2>3, PutSends
    <3>2. \A i \in Jobs : /\ Held(i) => Held(i)' \/ Messages(i)' # {}
                          /\ Messages(i) # {} => Messages(i)' # {}
      BY <1>2, <2>2, <3>1, HoldersRemain DEF Messages
    <3>3. IdleScan'
      BY <2>3 DEF IdleScan, Idle
    <3> QED
      BY <1>1, <1>2, <2>1, <2>3, <3>2, <3>3, RowsAtRest DEF CareStep
  <2>4. CASE /\ Fault("scheduler broker") /\ scan' = [scan EXCEPT !.phase = "undo"]
             /\ Put(scan.job) \/ UNCHANGED work
    <3>1. scan'.job = j /\ scan'.phase = "undo"
      BY <1>3, <2>2, <2>4
    <3>2. work \subseteq work' /\ faults \subseteq faults'
      BY <2>2, <2>4, PutSends DEF Fault
    <3>3. \A i \in Jobs : (Held(i) => Held(i)') /\ (Messages(i) # {} => Messages(i)' # {})
      BY <1>2, <2>2, <3>1, <3>2, HoldersRemain DEF Messages
    <3>4. IdleScan'
      BY <3>1 DEF IdleScan
    <3> QED
      BY <1>1, <1>2, <2>1, <3>2, <3>3, <3>4, RowsAtRest DEF CareStep
  <2>5. CASE Fault("scheduler lost") /\ scan' = Idle /\ UNCHANGED work
    <3>1. faults' \cap Forgetting # {} /\ faults \subseteq faults'
      BY <2>5 DEF Fault, Forgetting
    <3>2. IdleScan'
      BY <2>5 DEF IdleScan, Idle
    <3> QED
      BY <1>1, <1>2, <3>1, <3>2 DEF CareStep
  <2> QED
    BY <1>4, <2>3, <2>4, <2>5 DEF ScanSends
<1>5. CASE ScanUndoes
  <2>1. UNCHANGED <<work, faults>> /\ scan.phase = "undo" /\ scan' = Idle
    BY <1>5 DEF ScanUndoes
  <2>2. PICK j \in Jobs : j = scan.job /\ FailPublication(j)
    BY <1>1, <1>5, <2>1, InvariantParts DEF ScanUndoes, ScanOK, ScanSound
  <2>3. \A i \in Jobs : job'[i].status = IF i = j /\ job[i].status = "queued"
                                           THEN "failed" ELSE job[i].status
    BY <1>1, <2>2, PublicationFailureEnds
  <2>4. \A i \in Jobs : /\ job'[i].status = "running" => job[i].status = "running"
                        /\ i \in Active' => i \in Active
                        /\ i = j /\ i \in Active' => job[i].status = "running"
    BY <2>3 DEF Active, With
  <2>5. \A i \in Jobs : Messages(i)' = Messages(i)
    BY <2>1 DEF Messages
  <2>6. ASSUME NEW i \in Jobs, Held(i), i \in Active', faults' \cap Forgetting = {}
        PROVE  Held(i)' \/ Messages(i)' # {}
    <3>1. CASE i = j
      <4>1. Messages(i) # {}
        BY <2>1, <2>4, <2>6, <3>1 DEF CareInv, RunningHasMessage
      <4> QED
        BY <2>5, <4>1
    <3>2. CASE i # j
      BY <1>2, <2>2, <2>6, <3>2, HoldersRemain
    <3> QED
      BY <3>1, <3>2
  <2>7. IdleScan'
    BY <2>1 DEF IdleScan, Idle
  <2> QED
    BY <1>1, <1>2, <2>1, <2>4, <2>5, <2>6, <2>7 DEF CareStep
<1> QED
  BY <1>4, <1>5 DEF SchedulerStep

(* Time touches no job.                                                      *)
LEMMA ClockCares ==
  ASSUME CareInv, Clock
  PROVE  CareStep
<1>1. SoundStep
  BY ClockIsSound DEF CareInv
<1>2. UNCHANGED <<job, answer, request, scan, work, faults>>
  BY DEF Clock, BecomeDue
<1>3. \A i \in Jobs : (Held(i) => Held(i)') /\ Messages(i)' = Messages(i) /\ IdleScan'
  BY <1>2 DEF Held, KeysOf, Waits, Messages, CareInv, IdleScan
<1>4. IdleScan'
  BY <1>2 DEF CareInv, IdleScan
<1> QED
  BY <1>1, <1>2, <1>3, <1>4, RowsAtRest DEF CareStep

(* What a worker does to its message: it stays, perhaps in another phase,   *)
(* unless it is acknowledged.                                               *)
LEMMA MessageStays ==
  ASSUME NEW i \in work, i \in Item,
         \/ \E phase \in Phases : Move(i, phase)
         \/ \E failure \in Failures : Raise(i, failure)
  PROVE  \A j \in Jobs : Messages(j) # {} => Messages(j)' # {}
<1>1. ASSUME NEW next, next.job = i.job, work' = (work \ {i}) \cup {next}
      PROVE  \A j \in Jobs : Messages(j) # {} => Messages(j)' # {}
  BY <1>1 DEF Messages
<1>2. ASSUME NEW phase \in Phases, Move(i, phase)
      PROVE  \A j \in Jobs : Messages(j) # {} => Messages(j)' # {}
  <2> DEFINE next == [i EXCEPT !.phase = phase]
  <2>1. next.job = i.job
    BY DEF Item
  <2> QED
    BY <1>1, <1>2, <2>1 DEF Move
<1>3. ASSUME NEW failure \in Failures, Raise(i, failure)
      PROVE  \A j \in Jobs : Messages(j) # {} => Messages(j)' # {}
  <2>1. AfterRaise(i, failure).job = i.job
    BY DEF AfterRaise, Item
  <2> QED
    BY <1>1, <1>3, <2>1 DEF Raise
<1> QED
  BY <1>2, <1>3

(* Acknowledging a message of a job that has ended leaves the active jobs   *)
(* their messages.                                                          *)
LEMMA AckedHasEnded ==
  ASSUME NEW i \in work, Ack(i), i.job \notin Active'
  PROVE  \A j \in Jobs : Messages(j) # {} /\ j \in Active' => Messages(j)' # {}
  BY DEF Ack, Messages

(* A step of a worker takes care of the jobs if active jobs keep their      *)
(* messages, and only a job with a message is claimed.                      *)
LEMMA WorkerStepCares ==
  ASSUME CareInv, SoundStep, UNCHANGED <<request, scan, answer>>, faults \subseteq faults',
         faults' \cap Forgetting = {} =>
           \A j \in Jobs : Messages(j) # {} /\ j \in Active' => Messages(j)' # {},
         \A j \in Jobs : \/ job'[j].status = job[j].status
                         \/ job'[j].status = "running" /\ j \in Active /\ Messages(j) # {}
                         \/ j \notin Active'
  PROVE  CareStep
<1>1. \A j \in Jobs : /\ job'[j].status = "running" =>
                            job[j].status = "running" \/ Messages(j) # {}
                      /\ j \in Active' => j \in Active
  BY DEF Active, With
<1>2. \A j \in Jobs : Held(j) => Held(j)'
  BY HoldersRemain
<1>3. IdleScan'
  BY DEF CareInv, IdleScan
<1> QED
  BY <1>1, <1>2, <1>3 DEF CareStep

(* A worker's transaction on its own job leaves the others as they are.     *)
LEMMA OwnRowOnly ==
  ASSUME job \in [Jobs -> AnalysisJob], NEW j \in Jobs,
         Claim(j) \/ Advance(j, 2) \/ Advance(j, 4) \/ Finalize(j)
           \/ \E failure \in Failures : FailJob(j, failure)
  PROVE  /\ \A i \in Jobs \ {j} : job'[i] = job[i]
         /\ Claim(j) => j \in Active /\ job'[j].status = "running"
         /\ Advance(j, 2) \/ Advance(j, 4) => job'[j].status = job[j].status
         /\ Finalize(j) \/ (\E failure \in Failures : FailJob(j, failure)) => j \notin Active'
         /\ UNCHANGED answer
<1>1. ASSUME Claim(j)
      PROVE  j \in Active /\ job'[j].status = "running" /\ \A i \in Jobs \ {j} : job'[i] = job[i]
  BY <1>1 DEF Claim, Active, With, AnalysisJob
<1>2. ASSUME NEW n, Advance(j, n)
      PROVE  job'[j].status = job[j].status /\ \A i \in Jobs \ {j} : job'[i] = job[i]
  BY <1>2 DEF Advance, AnalysisJob
<1>3. ASSUME Finalize(j)
      PROVE  j \notin Active' /\ \A i \in Jobs \ {j} : job'[i] = job[i]
  BY <1>3 DEF Finalize, Active, With, AnalysisJob
<1>4. ASSUME NEW failure \in Failures, FailJob(j, failure)
      PROVE  j \notin Active' /\ \A i \in Jobs \ {j} : job'[i] = job[i]
  <2>0. PublicFailure[failure] \in BOOLEAN
    BY FailuresOffer DEF Failures, PublicFailures
  <2> DEFINE row == [job[j] EXCEPT !.status = "failed", !.retryable = PublicFailure[failure]]
  <2>1. job' = job \/ job' = [job EXCEPT ![j] = row]
    BY <1>4, <2>0 DEF FailJob, WriteFailure, AnalysisJob
  <2>2. job[j].status \in {"queued", "running"} => job' = [job EXCEPT ![j] = row]
    BY <1>4, <2>0 DEF FailJob, WriteFailure, AnalysisJob
  <2>3. row.status = "failed"
    BY DEF AnalysisJob
  <2> HIDE DEF row
  <2> QED
    BY <2>1, <2>2, <2>3 DEF Active, With
<1>5. UNCHANGED answer
  BY DEF Claim, Advance, Finalize, FailJob, WriteFailure
<1> QED
  BY <1>1, <1>2, <1>3, <1>4, <1>5

(* Workers take care of the jobs. *)
LEMMA WorkerCares ==
  ASSUME CareInv, NEW i \in work, WorkerStep(i)
  PROVE  CareStep
<1> DEFINE Kept == \A j \in Jobs : Messages(j) # {} /\ j \in Active' => Messages(j)' # {}
<1>a. i \in Item /\ SoundStep /\ job \in [Jobs -> AnalysisJob]
      /\ UNCHANGED <<request, scan, faults>>
  BY WorkerIsSound, InvariantParts DEF CareInv, WorkOK, RowsTypeOK, WorkerStep, Alone
<1>b. PICK own \in Jobs : own = i.job
  BY <1>a DEF Item
<1>c. ASSUME UNCHANGED answer, Kept,
             \A j \in Jobs \ {own} : job'[j] = job[j],
             \/ job'[own].status = job[own].status
             \/ job'[own].status = "running" /\ own \in Active
             \/ own \notin Active'
      PROVE  CareStep
  <2>1. Messages(own) # {}
    BY <1>b DEF Messages
  <2> QED
    BY <1>a, <1>c, <2>1, WorkerStepCares
<1>d. ASSUME \/ \E phase \in Phases : Move(i, phase)
             \/ \E failure \in Failures : Raise(i, failure)
      PROVE  Kept
  BY <1>a, <1>d, MessageStays
<1>e. ASSUME Ack(i), own \notin Active'
      PROVE  Kept
  BY <1>b, <1>e, AckedHasEnded
<1>f. ASSUME UNCHANGED store, Kept
      PROVE  CareStep
  BY <1>c, <1>f DEF store
<1> HIDE DEF Kept
<1>g. ASSUME Ended(i)
      PROVE  CareStep
  <2>1. CASE Ack(i) /\ job[i.job].status = "succeeded" /\ UNCHANGED store
    <3>1. own \notin Active'
      BY <1>b, <2>1 DEF store, Active, With
    <3> QED
      BY <1>e, <1>f, <2>1, <3>1
  <2>2. CASE Raise(i, "permanent") /\ UNCHANGED store
    BY <1>d, <1>f, <2>2, PhasesNamed
  <2> QED
    BY <1>g, <2>1, <2>2 DEF Ended
<1>1. ASSUME Claims(i)
      PROVE  CareStep
  <2>1. CASE Claim(own) /\ Move(i, "claimed")
    BY <1>a, <1>c, <1>d, <2>1, OwnRowOnly, PhasesNamed
  <2>2. CASE job[own].status \in {"succeeded", "failed"} /\ Ack(i) /\ UNCHANGED store
    <3>1. own \notin Active'
      BY <2>2 DEF store, Active, With
    <3> QED
      BY <1>e, <1>f, <2>2, <3>1
  <2> QED
    BY <1>1, <1>b, <2>1, <2>2 DEF Claims
<1>2. ASSUME Starts(i)
      PROVE  CareStep
  BY <1>2, <1>d, <1>f, <1>g, PhasesNamed DEF Starts
<1>3. ASSUME NEW from, NEW to \in Phases, NEW n \in {2, 4}, Advances(i, from, to, n)
      PROVE  CareStep
  <2>1. Kept
    BY <1>3, <1>d, PhasesNamed DEF Advances
  <2>2. CASE Advance(own, n)
    BY <1>a, <1>c, <2>1, <2>2, OwnRowOnly
  <2> QED
    BY <1>3, <1>b, <1>f, <2>1, <2>2 DEF Advances
<1>4. ASSUME Finalizes(i)
      PROVE  CareStep
  <2>1. CASE Finalize(own) /\ Ack(i)
    BY <1>a, <1>c, <1>e, <2>1, OwnRowOnly
  <2> QED
    BY <1>4, <1>b, <1>g, <2>1 DEF Finalizes
<1>5. ASSUME PipelineFails(i)
      PROVE  CareStep
  BY <1>5, <1>d, <1>f, PhasesNamed DEF PipelineFails
<1>6. ASSUME RecordFailure(i)
      PROVE  CareStep
  <2>1. (\E failure \in Failures : FailJob(own, failure)) /\ Ack(i)
    BY <1>6, <1>b DEF RecordFailure
  <2> QED
    BY <1>a, <1>c, <1>e, <2>1, OwnRowOnly
<1> QED
  BY <1>1, <1>2, <1>3, <1>4, <1>5, <1>6, PhasesNamed DEF WorkerStep

(* What happens to a message forgets no job, but for the faults that do.    *)
LEMMA DisturbanceCares ==
  ASSUME CareInv, NEW i \in work, Disturbance(i)
  PROVE  CareStep
<1>1. SoundStep /\ i \in Item
  BY DisturbanceIsSound, InvariantParts DEF CareInv, WorkOK
<1>2. UNCHANGED <<request, scan, answer, job>>
  BY DEF Disturbance, Alone, store
<1>3. faults \subseteq faults'
  BY DEF Disturbance, DatabaseFails, RetryLost, WorkerLost, Redeliver, Fault
<1>4. ASSUME DatabaseFails(i) \/ RetryLost(i)
      PROVE  faults' \cap Forgetting # {}
  BY <1>4 DEF DatabaseFails, RetryLost, Fault, Forgetting
<1>5. ASSUME WorkerLost(i) \/ Redeliver(i)
      PROVE  \A j \in Jobs : Messages(j) # {} => Messages(j)' # {}
  <2>1. CASE WorkerLost(i)
    BY <1>1, <2>1, MessageStays, PhasesNamed DEF WorkerLost
  <2>2. CASE Redeliver(i)
    BY <2>2 DEF Redeliver, Messages
  <2> QED
    BY <1>5, <2>1, <2>2
<1> QED
  BY <1>1, <1>2, <1>3, <1>4, <1>5, WorkerStepCares DEF Disturbance

-----------------------------------------------------------------------------
(* Every step takes care of the jobs. *)
LEMMA NextCares ==
  ASSUME CareInv, [Next]_vars
  PROVE  CareStep
<1>1. ASSUME NEW r \in Requests, ClientStep(r) \/ ApiStep(r) \/ Crash(r)
      PROVE  CareStep
  BY <1>1, AskCares, ReadCares, CommitCares, ProjectCares, SendCares, UndoCares,
     RepeatCares, CrashCares DEF ApiStep, ClientStep
<1>2. ASSUME NEW i \in work, WorkerStep(i) \/ Disturbance(i)
      PROVE  CareStep
  BY <1>2, WorkerCares, DisturbanceCares
<1>3. CASE UNCHANGED vars
  <2>1. SoundStep /\ UNCHANGED <<request, scan, answer, job, work, faults>>
    BY <1>3, StutterIsSound DEF CareInv, vars, store
  <2>2. \A j \in Jobs : Messages(j)' = Messages(j)
    BY <2>1 DEF Messages
  <2> QED
    BY <2>1, <2>2, WorkerStepCares
<1> QED
  BY <1>1, <1>2, <1>3, ScanCares, SchedulerCares, ClockCares DEF Next

(* At first there is no job to forget. *)
LEMMA InitCares == Init => CareInv
<1> SUFFICES ASSUME Init PROVE CareInv
  OBVIOUS
<1>1. \A j \in Jobs : job[j].status = "none"
  BY DEF Init, StoreInit
<1>2. \A r \in Requests : Carries(request[r])
  BY DEF Init, Unsent, Carries
<1>3. AnswersExist
  BY JobsAreJobs DEF Init, StoreInit, AnswersExist
<1>4. IdleScan
  BY DEF Init, Idle, IdleScan
<1>5. RunningHasMessage /\ NobodyForgotten
  BY <1>1 DEF RunningHasMessage, NobodyForgotten, Active, With
<1> QED
  BY InitIsSound, <1>2, <1>3, <1>4, <1>5 DEF CareInv

(* Whatever requests, scans, workers and faults meet, as long as none of    *)
(* the faults happened that lose a job, somebody takes every active job     *)
(* further.                                                                 *)
THEOREM NobodyIsForgotten == Spec => []NobodyForgotten
<1>1. CareInv /\ [Next]_vars => CareInv'
  BY NextCares, CareStepKeeps
<1>2. CareInv => NobodyForgotten
  BY DEF CareInv
<1> QED
  BY InitCares, <1>1, <1>2, PTL DEF Spec

=============================================================================
