----------------------------- MODULE JobPoller -----------------------------
(***************************************************************************)
(* The macOS client's JobPoller reading the change feed: one task at a      *)
(* time, a sync or a sleep, which start, stop and refreshNow overtake.      *)
(*                                                                          *)
(* The actor's generation is one flag of its task, `live`: neither stop nor *)
(* start has been called since it began.  A task's end and the actor's      *)
(* handling of it are two steps, since calls may come in between.           *)
(***************************************************************************)
EXTENDS JobFeed

CONSTANT MaxRetries   \* the number of transientFailureRetryDelays

ASSUME RetriesAreNat == MaxRetries \in Nat

VARIABLES
  running, refreshPending, restartPending,
  cursor,        \* 0 if there is none
  activeJobs,    \* the jobs the poller takes for active
  work,          \* workTask: a sync with the pages it has fetched, or a sleep
  failures,      \* consecutiveSyncFailures
  terminated,    \* nobody reads the events any more
  seen,          \* history: the timestamp of each job as it was last applied
  owed           \* history: a start or refreshNow no sync has begun for

poller == <<running, refreshPending, restartPending, cursor, activeJobs, work, failures,
            terminated, seen, owed>>
vars == <<feed, poller>>

NoWork == [kind |-> "none"]
Outcome == {"fetching", "success", "failure"}
Work == [kind : {"sync"}, live : BOOLEAN, cancelled : BOOLEAN, outcome : Outcome,
         cursor : 0..MaxTime, changes : [Jobs -> Row]]
        \cup [kind : {"sleep"}, live : BOOLEAN, cancelled : BOOLEAN]

NoChanges == [j \in Jobs |-> NoRow]

Init ==
  /\ FeedInit
  /\ running = FALSE /\ refreshPending = FALSE /\ restartPending = FALSE
  /\ cursor = 0 /\ activeJobs = {} /\ work = NoWork /\ failures = 0 /\ terminated = FALSE
  /\ seen = [j \in Jobs |-> 0] /\ owed = FALSE

-----------------------------------------------------------------------------
(* scheduleSync, which whatever asked for is served by, and scheduleSleep.  *)
ScheduleSync(from) ==
  /\ work' = [kind |-> "sync", live |-> TRUE, cancelled |-> FALSE, outcome |-> "fetching",
              cursor |-> from, changes |-> NoChanges]
  /\ owed' = FALSE

ScheduleSleep == work' = [kind |-> "sleep", live |-> TRUE, cancelled |-> FALSE]

(* Mutant: a start while an earlier task winds down schedules nothing. *)
StartForgets ==
  /\ ~running /\ running' = TRUE
  /\ refreshPending' = FALSE /\ failures' = 0
  /\ IF work # NoWork
       THEN owed' = TRUE /\ UNCHANGED <<work, restartPending>>
       ELSE ScheduleSync(cursor) /\ UNCHANGED restartPending
  /\ UNCHANGED <<cursor, activeJobs, terminated, seen, feed>>

(* A call while a task of an earlier run still winds down restarts later.   *)
Start ==
  /\ ~running /\ running' = TRUE
  /\ refreshPending' = FALSE /\ failures' = 0
  /\ IF work # NoWork
       THEN restartPending' = TRUE /\ owed' = TRUE /\ UNCHANGED work
       ELSE ScheduleSync(cursor) /\ UNCHANGED restartPending
  /\ UNCHANGED <<cursor, activeJobs, terminated, seen, feed>>

StopPolling ==
  /\ running' = FALSE /\ refreshPending' = FALSE /\ restartPending' = FALSE
  /\ failures' = 0 /\ owed' = FALSE

Stop ==
  /\ running \/ work # NoWork
  /\ StopPolling
  /\ work' = IF work = NoWork THEN NoWork ELSE [work EXCEPT !.live = FALSE, !.cancelled = TRUE]
  /\ UNCHANGED <<cursor, activeJobs, terminated, seen, feed>>

(* Mutant: a refresh during a sync is taken for served by it. *)
RefreshOnlyWakes ==
  /\ running /\ failures' = 0
  /\ \/ work = NoWork /\ ScheduleSync(cursor) /\ UNCHANGED refreshPending
     \/ work.kind = "sync" /\ owed' = TRUE /\ UNCHANGED <<work, refreshPending>>
     \/ /\ work.kind = "sleep" /\ refreshPending' = TRUE /\ owed' = TRUE
        /\ work' = [work EXCEPT !.cancelled = TRUE]
  /\ UNCHANGED <<running, restartPending, cursor, activeJobs, terminated, seen, feed>>

RefreshNow ==
  /\ running /\ failures' = 0
  /\ \/ work = NoWork /\ ScheduleSync(cursor) /\ UNCHANGED refreshPending
     \/ work.kind = "sync" /\ refreshPending' = TRUE /\ owed' = TRUE /\ UNCHANGED work
     \/ /\ work.kind = "sleep" /\ refreshPending' = TRUE /\ owed' = TRUE
        /\ work' = [work EXCEPT !.cancelled = TRUE]
  /\ UNCHANGED <<running, restartPending, cursor, activeJobs, terminated, seen, feed>>

(* Whoever reads the events goes away; its task's end calls stop, later.    *)
Terminate ==
  /\ ~terminated /\ terminated' = TRUE
  /\ UNCHANGED <<running, refreshPending, restartPending, cursor, activeJobs, work, failures,
                 seen, owed, feed>>

-----------------------------------------------------------------------------
(* fetchChanges *)

Fetching == work.kind = "sync" /\ work.outcome = "fetching"

FetchPage ==
  /\ Fetching /\ ~work.cancelled
  /\ \E p \in SUBSET Jobs, next \in 0..MaxTime :
       /\ List(work.cursor, p, next)
       /\ work' = [work EXCEPT
            !.cursor = next,
            !.changes = [j \in Jobs |-> IF j \in p THEN row[j] ELSE work.changes[j]],
            !.outcome = IF HasMore(work.cursor, p) THEN "fetching" ELSE "success"]
  /\ UNCHANGED <<running, refreshPending, restartPending, cursor, activeJobs, failures,
                 terminated, seen, owed>>

(* The call fails, or finds its task cancelled.                             *)
FetchFails ==
  /\ Fetching /\ work' = [work EXCEPT !.outcome = "failure"]
  /\ UNCHANGED <<running, refreshPending, restartPending, cursor, activeJobs, failures,
                 terminated, seen, owed, feed>>

Changed == {j \in Jobs : work.changes[j].at # 0}

Apply ==
  /\ cursor' = work.cursor
  /\ activeJobs' = (activeJobs \ Changed) \cup {j \in Changed : work.changes[j].active}
  /\ seen' = [j \in Jobs |-> IF j \in Changed THEN work.changes[j].at ELSE seen[j]]

Discard == UNCHANGED <<cursor, activeJobs, seen>>

(* A start that came while the task wound down.                             *)
Restart ==
  /\ restartPending' = FALSE /\ refreshPending' = FALSE
  /\ ScheduleSync(cursor) /\ UNCHANGED <<running, cursor, activeJobs, failures, seen>>

Retire ==
  /\ work' = NoWork
  /\ UNCHANGED <<running, refreshPending, restartPending, cursor, activeJobs, failures, seen, owed>>

(* Mutant: failures beyond the retries end the polling of active jobs. *)
KeepsPollingUnlessFailing(failed, count) == IF failed THEN count <= MaxRetries ELSE activeJobs' # {}

KeepsPolling(failed, count) == (failed /\ count <= MaxRetries) \/ activeJobs' # {}

(* What follows a sync that counts, after `count` failures in a row.        *)
Continue(failed, count) ==
  /\ refreshPending' = FALSE /\ UNCHANGED <<running, restartPending>>
  /\ IF refreshPending
       THEN failures' = 0 /\ ScheduleSync(cursor')
       ELSE /\ failures' = count /\ UNCHANGED owed
            /\ IF KeepsPolling(failed, count) THEN ScheduleSleep ELSE work' = NoWork

Counted(n) == IF n > MaxRetries + 1 THEN MaxRetries + 1 ELSE n

SyncCounts == running /\ work.live /\ ~work.cancelled

(* syncWorkExited.  Nobody restarts what is not running.                    *)
SyncExits ==
  /\ work.kind = "sync" /\ ~Fetching
  /\ \/ restartPending /\ Restart
     \/ ~restartPending /\ ~SyncCounts /\ Retire
     \/ /\ ~restartPending /\ SyncCounts /\ work.outcome = "success"
        /\ Apply
        /\ IF Changed # {} /\ terminated THEN StopPolling /\ work' = NoWork
                                          ELSE Continue(FALSE, 0)
     \/ /\ ~restartPending /\ SyncCounts /\ work.outcome = "failure"
        /\ Discard /\ Continue(TRUE, Counted(failures + 1))
  /\ UNCHANGED <<terminated, feed>>

(* sleepWorkExited: the time has passed, or the sleep was cancelled.        *)
SleepExits ==
  /\ work.kind = "sleep"
  /\ \/ restartPending /\ Restart
     \/ ~restartPending /\ ~(running /\ work.live) /\ Retire
     \/ /\ ~restartPending /\ running /\ work.live
        /\ refreshPending' = FALSE /\ ScheduleSync(cursor)
        /\ UNCHANGED <<running, restartPending, cursor, activeJobs, failures, seen>>
  /\ UNCHANGED <<terminated, feed>>

UserStep == Start \/ Stop \/ RefreshNow \/ Terminate

PollerStep == FetchPage \/ FetchFails \/ SyncExits \/ SleepExits

ServerStep == (Writes \/ Ends) /\ UNCHANGED poller

Next == UserStep \/ PollerStep \/ ServerStep

Spec == Init /\ [][Next]_vars

(* Transactions end, calls are answered and sleeps pass; nobody has to ask  *)
(* for a refresh, and no transaction has to be made.                        *)
Fairness == WF_vars(PollerStep) /\ WF_vars(Ends /\ UNCHANGED poller)

FairSpec == Spec /\ Fairness

-----------------------------------------------------------------------------
(* Properties *)

(* Rows, cursors and tasks have the shapes declared for them, and there is  *)
(* one task at most, which knows whether it has been overtaken: a sync or a *)
(* sleep that is still live has not been cancelled by stop.                 *)
PollerTypeOK ==
  /\ FeedTypeOK
  /\ running \in BOOLEAN /\ refreshPending \in BOOLEAN /\ restartPending \in BOOLEAN
  /\ cursor \in 0..MaxTime /\ activeJobs \in SUBSET Jobs
  /\ work \in Work \cup {NoWork}
  /\ failures \in 0..(MaxRetries + 1) /\ terminated \in BOOLEAN
  /\ seen \in [Jobs -> 0..MaxTime] /\ owed \in BOOLEAN
  /\ work.kind = "sync" /\ work.live => ~work.cancelled

(* A cursor has not passed a change that the poller does not know: of every *)
(* job whose last change is not after the cursor it knows that change.  The *)
(* same holds of a sync under way, with the pages it has fetched.           *)
CursorIsExact ==
  /\ cursor <= watermark
  /\ \A j \in Jobs : row[j].at <= cursor =>
       seen[j] = row[j].at /\ (j \in activeJobs <=> row[j].active)
  /\ (work.kind = "sync" /\ work.live) =>
       \A j \in Jobs : cursor < row[j].at /\ row[j].at <= work.cursor =>
         work.changes[j] = row[j]

(* A running poller with active jobs, a refresh or a restart outstanding    *)
(* has a task, and one that will be heard: it is live, or its end restarts. *)
KeepsGoing ==
  /\ running /\ (activeJobs # {} \/ refreshPending \/ restartPending \/ owed) =>
       work # NoWork /\ (work.live \/ restartPending)
  /\ owed => refreshPending \/ restartPending
  /\ restartPending => running /\ work # NoWork /\ ~work.live

(* Every refresh and start is followed by a sync that begins after it,      *)
(* unless the poller is stopped.                                            *)
RefreshIsServed == owed ~> ~owed

Stale == \E j \in Jobs : j \in activeJobs /\ row[j].at # seen[j]

(* A running poller learns what has become of every job it takes for        *)
(* active, once the network stops failing, however often it had failed.     *)
ActiveJobsAreFollowed ==
  <>[][~FetchFails]_vars => (running /\ Stale) ~> (~running \/ ~Stale)
=============================================================================
