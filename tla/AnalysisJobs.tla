---------------------------- MODULE AnalysisJobs ----------------------------
(***************************************************************************)
(* How the Analysis Jobs of one target are asked for, dispatched and run:   *)
(* the API's handlers, which commit a job and then send it; the scheduler,  *)
(* which does the same for profiles that are due; and the Celery workers.   *)
(* The transactions are those of AnalysisStore.                             *)
(*                                                                          *)
(* A handler is split where another transaction may run in between.  A      *)
(* message and the worker that holds it are one record of `work`.           *)
(***************************************************************************)
EXTENDS AnalysisStore

CONSTANTS
  Requests,          \* the requests clients make
  Copies,            \* bound: the messages a job may have at a time
  MaxAttempts,       \* attempts of _execute_idempotent, 3 in the code
  MaxRetries,        \* RetryPolicy.max_retries
  MaxScans,          \* bound: scans of the scheduler that create a job
  MaxFaults,         \* bound: how many faults a behaviour has
  Faults             \* the kinds of fault that happen, a subset of FaultKinds

FaultKinds == {"lost worker",       \* a worker dies holding a message
               "redelivery",        \* the broker hands out a held message again
               "database",          \* a transaction raises SQLAlchemyError
               "retry broker",      \* Celery cannot publish a retry
               "api broker",        \* send_task raises in the API
               "api crash",         \* the API dies while it handles a request
               "scheduler broker",  \* send_task raises in the scheduler
               "scheduler lost"}    \* the scheduler dies before it has sent a job

(* After these nobody is left to take a job further. *)
Forgetting == {"database", "retry broker", "scheduler lost"}

ASSUME CountsAreNat ==
  MaxAttempts \in Nat \ {0} /\ MaxRetries \in Nat /\ MaxScans \in Nat /\ MaxFaults \in Nat
ASSUME JobsAreFinite == IsFiniteSet(Jobs)
ASSUME CopiesExist == Copies # {}
ASSUME IdsAreDistinct ==
  /\ Jobs \cap {"create", "reanalyze", "none", "profile"} = {}
  /\ Faults \subseteq FaultKinds

VARIABLES
  request,  \* the API's handling of each request
  scan,     \* the scheduler's handling of the job it has created
  work,     \* the messages, each with the phase of the worker that holds it
  scans,    \* scans that have created a job
  faults    \* the kinds of fault that have happened

vars == <<store, request, scan, work, scans, faults>>

(* A request reads ("read"), commits ("commit"), locks the job it answers   *)
(* with ("lock"), sends it ("send"), and, when that raised, writes the      *)
(* failure ("undo") and answers with it ("project").  After a crash it is   *)
(* "lost", for good unless the client repeats it.                           *)
RequestPhase == {"unsent", "read", "commit", "lock", "send", "undo", "project",
                 "lost", "done"}

Request == [phase : RequestPhase, key : Keys \cup {"none"}, op : Operation \cup {"none"},
            attempt : 0..MaxAttempts, found : Jobs \cup {"none", "profile"}, seen : JobStatus]

Unsent == [phase |-> "unsent", key |-> "none", op |-> "none",
           attempt |-> 0, found |-> "none", seen |-> "none"]

(* A worker that has claimed its job starts the pipeline, fetches data,     *)
(* analyses and finalizes; "retryable" and "permanent" are a worker about   *)
(* to record that failure.                                                  *)
Failures == {"retryable", "permanent"}
Phases == {"queued", "claimed", "fetching", "analyzing", "finalizing"} \cup Failures

Item == [job : Jobs, copy : Copies, phase : Phases, tries : 0..MaxRetries]

Messages(j) == {i \in work : i.job = j}

(* Rows, requests and messages have the shapes declared for them, rows the  *)
(* one of their status, and no message is retried beyond the policy's       *)
(* budget.                                                                  *)
JobsTypeOK ==
  /\ StoreTypeOK
  /\ \A j \in Jobs : ValidJobState(job[j])
  /\ request \in [Requests -> Request]
  /\ scan \in [phase : {"idle", "send", "undo"}, job : Jobs \cup {"none"}]
  /\ work \in SUBSET Item
  /\ \A i, other \in work : i.job = other.job /\ i.copy = other.copy => i = other
  /\ scans \in 0..MaxScans /\ faults \in SUBSET Faults

Idle == [phase |-> "idle", job |-> "none"]

Init ==
  /\ StoreInit
  /\ request = [r \in Requests |-> Unsent]
  /\ scan = Idle /\ work = {} /\ scans = 0 /\ faults = {}

Fault(kind) ==
  /\ kind \in Faults \ faults /\ Cardinality(faults) < MaxFaults
  /\ faults' = faults \cup {kind}

(* The broker takes a message for a job; beside a full set of others one    *)
(* more adds nothing.                                                       *)
Put(j) ==
  LET free == Copies \ {i.copy : i \in Messages(j)}
  IN IF free = {} THEN work' = work
     ELSE \E c \in free :
            work' = work \cup {[job |-> j, copy |-> c, phase |-> "queued", tries |-> 0]}

-----------------------------------------------------------------------------
(* The API.  q is request[r]. *)

Becomes(r, q) == request' = [request EXCEPT ![r] = q]
Goes(r, phase) == Becomes(r, [request[r] EXCEPT !.phase = phase])
Answered(r) == Becomes(r, [Unsent EXCEPT !.phase = "done"])

(* A client sends a request with a key it may have used before, together    *)
(* with what it asks for.                                                   *)
Ask(r) ==
  /\ request[r].phase = "unsent"
  /\ \E k \in Keys, op \in {"create", "reanalyze"} \cup With("failed") :
       Becomes(r, [request[r] EXCEPT !.phase = "read", !.key = k, !.op = op])
  /\ UNCHANGED <<store, scan, work, scans, faults>>

(* One attempt of _execute_idempotent up to its commit: the stored response *)
(* of the key, or what create_or_reuse_job or retry_or_reuse_job find.      *)
Read(r) ==
  LET q == request[r]
      stored == answer[q.key]
      found(j, s) == Becomes(r, [q EXCEPT !.phase = "commit", !.found = j, !.seen = s])
  IN /\ q.phase = "read"
     /\ \/ /\ stored.op = q.op
           /\ IF stored.job = "profile" THEN Answered(r)
              ELSE Becomes(r, [q EXCEPT !.phase = "lock", !.found = stored.job])
        \/ stored.op \notin {q.op, "none"} /\ Answered(r)          \* 409
        \/ /\ stored.op = "none"
           /\ \/ q.attempt = MaxAttempts /\ Answered(r)            \* 503
              \/ /\ q.attempt < MaxAttempts
                 /\ \/ q.op \in Jobs /\ ~Retryable(q.op) /\ Answered(r)  \* 409
                    \/ q.op = "create" /\ profile /\ found("profile", "none")
                    \/ /\ q.op = "create" => ~profile
                       /\ q.op \in Jobs => Retryable(q.op)
                       /\ \/ \E j \in Active : found(j, job[j].status)
                          \/ Active = {} /\ found("none", "queued")
     /\ UNCHANGED <<store, scan, work, scans, faults>>

Record(q, j) ==
  answer' = [answer EXCEPT ![q.key] = [op |-> q.op, job |-> j, status |-> q.seen]]

(* The commit of that attempt; a violated unique index or unique key rolls  *)
(* it back and the request reads again.                                     *)
Commit(r) ==
  LET q == request[r]
      conflict == ~KeyIsFree(q.key) \/ (q.found = "none" /\ ~IndexAdmits)
  IN /\ q.phase = "commit"
     /\ \/ /\ conflict /\ UNCHANGED store
           /\ Becomes(r, [q EXCEPT !.phase = "read", !.attempt = @ + 1,
                                   !.found = "none", !.seen = "none"])
        \/ /\ ~conflict /\ q.found = "profile" /\ Record(q, "profile") /\ Answered(r)
           /\ UNCHANGED <<job, profile, published, due>>
        \/ /\ ~conflict /\ q.found \in Jobs /\ Record(q, q.found) /\ Goes(r, "lock")
           /\ UNCHANGED <<job, profile, published, due>>
        \/ /\ ~conflict /\ q.found = "none"
           /\ \E j \in Jobs :
                /\ Insert(j) /\ Record(q, j)
                /\ Becomes(r, [q EXCEPT !.phase = "lock", !.found = j])
           /\ UNCHANGED <<profile, published, due>>
     /\ UNCHANGED <<scan, work, scans, faults>>

(* Mutant: an answer that is replayed is not dispatched again. *)
LockReplayed(r) ==
  LET q == request[r]
  IN /\ q.phase = "lock"
     /\ Project(q.key, q.found)
     /\ IF job[q.found].status = "queued" /\ q.seen # "none" THEN Goes(r, "send")
        ELSE Answered(r)
     /\ UNCHANGED <<job, profile, published, due, scan, work, scans, faults>>

(* _dispatch_committed_job: only a job that is still queued is sent.        *)
Lock(r) ==
  LET q == request[r]
  IN /\ q.phase = "lock"
     /\ Project(q.key, q.found)
     /\ IF job[q.found].status = "queued" THEN Goes(r, "send") ELSE Answered(r)
     /\ UNCHANGED <<job, profile, published, due, scan, work, scans, faults>>

(* A send that raises may have reached the broker all the same.             *)
Send(r) ==
  /\ request[r].phase = "send"
  /\ \/ Put(request[r].found) /\ Answered(r) /\ UNCHANGED faults
     \/ /\ Fault("api broker") /\ Goes(r, "undo")
        /\ Put(request[r].found) \/ UNCHANGED work
  /\ UNCHANGED <<store, scan, scans>>

Undo(r) ==
  /\ request[r].phase = "undo"
  /\ FailPublication(request[r].found) /\ Goes(r, "project")
  /\ UNCHANGED <<scan, work, scans, faults>>

(* Mutant: the answer is the failure just written, not the job as it is. *)
ProjectAssumed(r) ==
  /\ request[r].phase = "project"
  /\ answer' = [answer EXCEPT ![request[r].key].status = "failed"] /\ Answered(r)
  /\ UNCHANGED <<job, profile, published, due, scan, work, scans, faults>>

ProjectFailure(r) ==
  /\ request[r].phase = "project"
  /\ Project(request[r].key, request[r].found) /\ Answered(r)
  /\ UNCHANGED <<job, profile, published, due, scan, work, scans, faults>>

(* The API dies, or a transaction of the handler fails and the client gets  *)
(* an error.                                                                *)
Crash(r) ==
  /\ request[r].phase \notin {"unsent", "lost", "done"}
  /\ Fault("api crash") /\ Goes(r, "lost")
  /\ UNCHANGED <<store, scan, work, scans>>

(* A client that got no answer may ask again with the key it sent; it need  *)
(* not, and most calls of the macOS client take a new key each time.        *)
Repeat(r) ==
  /\ request[r].phase = "lost"
  /\ Becomes(r, [request[r] EXCEPT !.phase = "read", !.attempt = 0,
                                   !.found = "none", !.seen = "none"])
  /\ UNCHANGED <<store, scan, work, scans, faults>>

ApiStep(r) ==
  Read(r) \/ Commit(r) \/ Lock(r) \/ Send(r) \/ Undo(r) \/ ProjectFailure(r)

ClientStep(r) == Ask(r) \/ Repeat(r)

-----------------------------------------------------------------------------
(* The scheduler.  A scan takes up to 20 due targets (dispatch_limit), the  *)
(* longest waiting first; this module follows one of them, which is among   *)
(* the next 20 sooner or later, and one scan at a time.  Two scans that     *)
(* overlap hold a job of the target each only if the first job was sent by  *)
(* a request, ended, and the target fell due again before its own scan got  *)
(* to it.                                                                   *)

Scan ==
  /\ scans < MaxScans /\ scan = Idle
  /\ profile /\ due
  /\ \E j \in Jobs : Insert(j) /\ scan' = [phase |-> "send", job |-> j]
  /\ scans' = scans + 1
  /\ UNCHANGED <<profile, published, due, answer, request, work, faults>>

ScanSends ==
  /\ scan.phase = "send"
  /\ \/ Put(scan.job) /\ scan' = Idle /\ UNCHANGED faults
     \/ /\ Fault("scheduler broker") /\ scan' = [scan EXCEPT !.phase = "undo"]
        /\ Put(scan.job) \/ UNCHANGED work
     \/ Fault("scheduler lost") /\ scan' = Idle /\ UNCHANGED work
  /\ UNCHANGED <<store, request, scans>>

ScanUndoes ==
  /\ scan.phase = "undo" /\ scan' = Idle
  /\ FailPublication(scan.job)
  /\ UNCHANGED <<request, work, scans, faults>>

SchedulerStep == ScanSends \/ ScanUndoes

-----------------------------------------------------------------------------
(* run_analysis_job *)

Ack(i) == work' = work \ {i}
Move(i, phase) == work' = (work \ {i}) \cup {[i EXCEPT !.phase = phase]}

(* Mutant: the retry budget is off by one. *)
AfterRaiseOnceMore(i, failure) ==
  IF failure = "retryable" /\ i.tries <= MaxRetries
    THEN [i EXCEPT !.phase = "queued", !.tries = @ + 1]
    ELSE [i EXCEPT !.phase = failure]

(* Celery retries a retryable failure while the budget lasts. *)
AfterRaise(i, failure) ==
  IF failure = "retryable" /\ i.tries < MaxRetries
    THEN [i EXCEPT !.phase = "queued", !.tries = @ + 1]
    ELSE [i EXCEPT !.phase = failure]

Raise(i, failure) == work' = (work \ {i}) \cup {AfterRaise(i, failure)}

Alone == UNCHANGED <<request, scan, scans>>

Claims(i) ==
  /\ i.phase = "queued"
  /\ \/ Claim(i.job) /\ Move(i, "claimed")
     \/ /\ job[i.job].status \in {"succeeded", "failed"} /\ Ack(i)
        /\ UNCHANGED store

(* What start, advance and finalize do with a job another worker has ended. *)
Ended(i) ==
  \/ job[i.job].status = "succeeded" /\ Ack(i) /\ UNCHANGED store
  \/ job[i.job].status = "failed" /\ Raise(i, "permanent") /\ UNCHANGED store

Starts(i) ==
  /\ i.phase = "claimed"
  /\ \/ job[i.job].status = "running" /\ Move(i, "fetching") /\ UNCHANGED store
     \/ Ended(i)

(* A succeeded job does not stop an advance, only what follows it.          *)
Advances(i, from, to, completed) ==
  /\ i.phase = from
  /\ \/ Advance(i.job, completed) /\ Move(i, to)
     \/ job[i.job].status = "succeeded" /\ Move(i, to) /\ UNCHANGED store
     \/ job[i.job].status = "failed" /\ Raise(i, "permanent") /\ UNCHANGED store

Finalizes(i) ==
  /\ i.phase = "finalizing"
  /\ \/ Finalize(i.job) /\ Ack(i)
     \/ ~Finalizable(i.job) /\ Ended(i)

PipelineFails(i) ==
  /\ i.phase \notin {"queued"} \cup Failures
  /\ \/ \E failure \in Failures : Raise(i, failure)
     \/ Move(i, "retryable")     \* an unexpected exception is recorded at once
  /\ UNCHANGED store

RecordFailure(i) ==
  /\ i.phase \in Failures
  /\ FailJob(i.job, i.phase) /\ Ack(i)

WorkerStep(i) ==
  /\ \/ Claims(i) \/ Starts(i)
     \/ Advances(i, "fetching", "analyzing", 2) \/ Advances(i, "analyzing", "finalizing", 4)
     \/ Finalizes(i) \/ PipelineFails(i) \/ RecordFailure(i)
  /\ Alone /\ UNCHANGED faults

-----------------------------------------------------------------------------
(* What may happen to a message and its worker *)

(* Whatever the transaction was for, the message is retried or given up     *)
(* without a trace in the job: when the budget is spent, or when it was to  *)
(* record that the model's output is of no use.                             *)
DatabaseFails(i) ==
  /\ Fault("database")
  /\ \/ i.tries < MaxRetries /\ Raise(i, "retryable")
     \/ (i.tries = MaxRetries \/ i.phase = "permanent") /\ Ack(i)

(* Celery rejects a message whose retry it cannot publish.                  *)
RetryLost(i) ==
  /\ Fault("retry broker") /\ i.phase \notin {"queued"} \cup Failures
  /\ i.tries < MaxRetries
  /\ Ack(i)

WorkerLost(i) ==
  /\ Fault("lost worker") /\ i.phase # "queued" /\ Move(i, "queued")

Redeliver(i) ==
  /\ Fault("redelivery") /\ i.phase # "queued"
  /\ \E c \in Copies \ {other.copy : other \in Messages(i.job)} :
       work' = work \cup {[i EXCEPT !.phase = "queued", !.copy = c]}

Disturbance(i) ==
  /\ DatabaseFails(i) \/ RetryLost(i) \/ WorkerLost(i) \/ Redeliver(i)
  /\ Alone /\ UNCHANGED store

Clock == scans < MaxScans /\ BecomeDue /\ UNCHANGED <<request, scan, work, scans, faults>>

Next ==
  \/ \E r \in Requests : ClientStep(r) \/ ApiStep(r) \/ Crash(r)
  \/ Scan \/ SchedulerStep \/ Clock
  \/ \E i \in work : WorkerStep(i) \/ Disturbance(i)

Spec == Init /\ [][Next]_vars

(* Handlers run to their end, Beat keeps scanning, and Celery's workers     *)
(* keep consuming.  No client has to ask, or to ask again.                  *)
Fairness ==
  /\ WF_vars(\E r \in Requests : ApiStep(r))
  /\ WF_vars(Scan) /\ WF_vars(SchedulerStep)
  /\ WF_vars(\E i \in work : WorkerStep(i))

FairSpec == Spec /\ Fairness

-----------------------------------------------------------------------------
(* Properties *)

(* Concurrent requests, retries and scans leave at most one active job for  *)
(* the target, and the profile has been written once by every job that      *)
(* succeeded and by no other, however many workers ran it.                  *)
OneJobAtATime ==
  /\ \A i, j \in Active : i = j
  /\ published = Cardinality(With("succeeded"))
  /\ With("succeeded") # {} => profile

KeysOf(j) == {k \in Keys : answer[k].job = j}

(* A client has not yet been answered, and would be with the job of key k.  *)
Waits(k) ==
  \E r \in Requests : /\ request[r].phase \notin {"unsent", "done"}
                      /\ request[r].key = k /\ request[r].op = answer[k].op

(* As long as nothing happened that loses it, every active job has a        *)
(* message, or the scheduler will send it, or nobody has been answered with *)
(* it yet: each key that stands for it is that of a handler that will send  *)
(* it or write its failure, or of a client whose answer was lost and who    *)
(* has it sent by asking again.                                             *)
NobodyForgotten ==
  faults \cap Forgetting = {} =>
    \A j \in Active :
      \/ Messages(j) # {}
      \/ scan.job = j
      \/ KeysOf(j) # {} /\ \A k \in KeysOf(j) : Waits(k)

JobOrder(s) == CASE s = "none" -> 0 [] s = "queued" -> 1
                 [] s = "running" -> 2 [] OTHER -> 3

(* The stored response of a key is one the job has really had: it is never  *)
(* ahead of the job, and an ending it reports is the job's own.  The job    *)
(* itself can always be shown.                                              *)
AnswersAreTrue ==
  \A k \in Keys : answer[k].job \in Jobs =>
    /\ JobOrder(answer[k].status) <= JobOrder(job[answer[k].job].status)
    /\ answer[k].status \in {"succeeded", "failed"} =>
         answer[k].status = job[answer[k].job].status
    /\ Projectable(answer[k].job)

(* A key answers one request with one job, and its response never goes back *)
(* to an earlier state of that job, whatever requests overlap.              *)
AnswersOnlyMove ==
  [][\A k \in Keys : answer[k].op # "none" =>
       /\ answer'[k].op = answer[k].op /\ answer'[k].job = answer[k].job
       /\ JobOrder(answer'[k].status) >= JobOrder(answer[k].status)]_vars

(* Requests, scheduler and workers implement what the target's watchers are *)
(* promised.                                                                *)
Target == INSTANCE AnalysisTarget
  WITH status <- [j \in Jobs |-> job[j].status], progress <- [j \in Jobs |-> job[j].units]

ImplementsTarget == Target!Spec

(* A profile that is due does not wait for ever behind a job that nobody    *)
(* runs ("Automatic Creator and Game Re-analyze are mandatory and honor     *)
(* configured intervals"): scans pass over a target with an active job.     *)
DueIsNotBlocked == due /\ Active # {} ~> ~due \/ Active = {}

(* A queued job that no message and no scan carries, and of which no client *)
(* has heard: all who asked for it lost their answer to a dying API.        *)
Unheard(j) ==
  /\ job[j].status = "queued" /\ Messages(j) = {} /\ scan.job # j
  /\ KeysOf(j) # {}
  /\ \A k \in KeysOf(j) : \E r \in Requests : request[r].phase = "lost" /\ request[r].key = k

(* Every job that is created comes to an end, and with it the target is     *)
(* free for the next one, under lost workers, repeated messages and a       *)
(* broker that refuses.  When the API dies, only a job that was never sent  *)
(* can stay, and only as long as nobody asks for its target: a request that *)
(* is answered with it, whatever its key, has it sent.                      *)
JobsSettle == \A j \in Jobs : j \in Active ~> (j \notin Active \/ []Unheard(j))
=============================================================================
