---------------------------- MODULE AnalysisStore ----------------------------
(***************************************************************************)
(* The PostgreSQL side of the Analysis Jobs of one target (a Steam game or  *)
(* a YouTube channel): their analysis_jobs rows, the target's profile, and  *)
(* the idempotency records that point at a job.  Targets share nothing but  *)
(* the change lock, which makes every operator below one step.              *)
(*                                                                          *)
(* Sources, prompts and the contents of a profile are abstracted: the model *)
(* keeps that there is one, how often it was replaced, and whether its      *)
(* next_analysis_at has passed.                                             *)
(***************************************************************************)
EXTENDS Integers, FiniteSets

CONSTANTS Jobs,   \* ids of the jobs that may come to exist
          Keys    \* Idempotency-Keys the clients use

VARIABLES
  job,        \* the analysis_jobs rows; status "none" where there is none yet
  profile,    \* the target has a profile
  published,  \* how often an analysis has written the profile
  due,        \* the profile's next_analysis_at <= now
  answer      \* the idempotency records: the request and the job of each key

store == <<job, profile, published, due, answer>>

TotalUnits == 5

JobStatus == {"none", "queued", "running", "succeeded", "failed"}
Stages == <<"fetching_data", "analyzing", "finalizing">>
AnalysisStage == {"none"} \cup {Stages[n] : n \in 1..3}

AnalysisJob == [status : JobStatus, stage : AnalysisStage,
                units : 0..TotalUnits, retryable : BOOLEAN]

(* The failures a job may report: of an integration or the pipeline, which  *)
(* may pass or not, and of the queue; and whether a retry is offered then.  *)
PublicFailures == {"retryable", "permanent", "queue"}
PublicFailure == [failure \in PublicFailures |-> failure # "permanent"]

(* The shape a row has in each status: the table's check and that of the    *)
(* API.  A failed job keeps the stage it had reached, if any.               *)
StatusShape(r) ==
  /\ r.status \in {"none", "queued"} => r.stage = "none"
  /\ r.status = "running" => r.stage # "none"
  /\ r.status = "succeeded" => r.stage = "finalizing"
  /\ r.status = "succeeded" <=> r.units = TotalUnits
  /\ r.stage = "none" => r.units = 0

ValidJobState(r) == StatusShape(r) /\ (r.retryable => r.status = "failed")

(* What a request asks for: an analysis, a new analysis of a known target,  *)
(* or the retry of a job.                                                   *)
Operation == {"create", "reanalyze"} \cup Jobs

(* A record answers with a job, as it was when last projected, or with the  *)
(* existing profile.                                                        *)
IdempotencyRecord == [op : Operation \cup {"none"},
                      job : Jobs \cup {"none", "profile"}, status : JobStatus]

StoreTypeOK ==
  /\ job \in [Jobs -> AnalysisJob]
  /\ profile \in BOOLEAN /\ published \in Nat /\ due \in BOOLEAN
  /\ answer \in [Keys -> IdempotencyRecord]

StoreInit ==
  /\ job = [j \in Jobs |-> [status |-> "none", stage |-> "none",
                            units |-> 0, retryable |-> FALSE]]
  /\ profile \in BOOLEAN /\ published = 0 /\ due = FALSE
  /\ answer = [k \in Keys |-> [op |-> "none", job |-> "none", status |-> "none"]]

With(s) == {j \in Jobs : job[j].status = s}
Active == With("queued") \cup With("running")

StageOrder(stage) == IF stage = "none" THEN 0
                     ELSE CHOOSE n \in 1..3 : Stages[n] = stage
Greatest(m, n) == IF m < n THEN n ELSE m
Smallest(m, n) == IF m < n THEN m ELSE n

-----------------------------------------------------------------------------
(* Creation *)

(* Mutant: no unique index over the active jobs of a target. *)
NoIndex == TRUE

(* The partial unique index uq_analysis_jobs_active_target lets one in.     *)
IndexAdmits == Active = {}

Insert(j) ==
  /\ job[j].status = "none" /\ IndexAdmits
  /\ job' = [job EXCEPT ![j].status = "queued"]

(* Mutant: the record of a key is overwritten. *)
KeyIgnored(k) == TRUE

(* The unique key of idempotency_records. *)
KeyIsFree(k) == answer[k].op = "none"

(* update_idempotency_response, in the transaction that locked the job: the *)
(* key's record follows the job.                                            *)
Project(k, j) ==
  answer' = IF answer[k].job = j
              THEN [answer EXCEPT ![k].status = job[j].status] ELSE answer

(* A job that succeeded has the profile of its target.                      *)
ResultIsValid(j) == job[j].status = "succeeded" => profile

(* What a response may show; anything else is an internal error.            *)
Projectable(j) == ValidJobState(job[j]) /\ ResultIsValid(j)

Retryable(j) == job[j].status = "failed" /\ job[j].retryable

-----------------------------------------------------------------------------
(* The worker's transactions *)

Claim(j) ==
  /\ job[j].status \in {"queued", "running"}
  /\ job' = IF job[j].status = "running" THEN job
            ELSE [job EXCEPT ![j].status = "running", ![j].stage = "fetching_data"]
  /\ UNCHANGED <<profile, published, due, answer>>

(* Mutant: progress is set, not raised. *)
AdvanceBackwards(j, completed) ==
  /\ job[j].status = "running"
  /\ job' = [job EXCEPT
               ![j].units = Smallest(completed, TotalUnits - 1),
               ![j].stage = IF completed = 4 THEN "finalizing" ELSE "analyzing"]
  /\ UNCHANGED <<profile, published, due, answer>>

Advance(j, completed) ==
  LET requested == IF completed = 4 THEN "finalizing" ELSE "analyzing"
      done == Smallest(Greatest(job[j].units, completed), TotalUnits - 1)
      reached == IF StageOrder(requested) > StageOrder(job[j].stage)
                   THEN requested ELSE job[j].stage
  IN /\ job[j].status = "running"
     /\ job' = [job EXCEPT ![j].units = done, ![j].stage = reached]
     /\ UNCHANGED <<profile, published, due, answer>>

Finalizable(j) == job[j].status = "running" /\ job[j].stage = "finalizing"

Finalize(j) ==
  /\ Finalizable(j)
  /\ job' = [job EXCEPT ![j].status = "succeeded", ![j].units = TotalUnits,
                        ![j].retryable = FALSE]
  /\ profile' = TRUE /\ published' = published + 1 /\ due' = FALSE
  /\ UNCHANGED answer

(* _write_terminal_failure, for a job in one of these statuses.             *)
WriteFailure(j, statuses, failure) ==
  /\ job' = IF job[j].status \in statuses
              THEN [job EXCEPT ![j].status = "failed",
                               ![j].retryable = PublicFailure[failure]]
              ELSE job
  /\ UNCHANGED <<profile, published, due, answer>>

FailJob(j, failure) == WriteFailure(j, {"queued", "running"}, failure)

(* Mutant: a job that could not be published is left alone. *)
LeavePublication(j) == WriteFailure(j, {}, "queue")

(* write_queued_publication_failure: a job that runs was published after    *)
(* all.                                                                     *)
FailPublication(j) == WriteFailure(j, {"queued"}, "queue")

(* Time passes. *)
BecomeDue ==
  /\ profile /\ ~due /\ due' = TRUE
  /\ UNCHANGED <<job, profile, published, answer>>
=============================================================================
