---------------------------- MODULE PollerProofs ----------------------------
(***************************************************************************)
(* What TLAPS proves of the change feed and its poller, for any finite set  *)
(* of jobs, any page size and any number of retries: the cursor never       *)
(* passes a change that the poller does not know, and a poller that has     *)
(* something left to do has a task that will be heard.                      *)
(*                                                                          *)
(* The argument: whatever commits is stamped after every cursor that was    *)
(* ever handed out, and a page leaves out only what comes after all of it.  *)
(***************************************************************************)
EXTENDS JobPoller, FiniteSetTheorems, TLAPS

(* The transaction under way stamps what it changes after the watermark.    *)
FeedSound ==
  /\ \A j \in Jobs : row[j].at <= watermark
  /\ txn.open =>
       /\ watermark <= txn.watermark
       /\ \A j \in Jobs : /\ txn.row[j].at <= txn.watermark
                          /\ txn.row[j] = row[j] \/ watermark < txn.row[j].at

(* What a step may do to the feed.                                          *)
FeedMoves ==
  /\ watermark <= watermark'
  /\ \A j \in Jobs : row'[j] = row[j] \/ watermark < row'[j].at

Known ==
  \A j \in Jobs : row[j].at <= cursor =>
    seen[j] = row[j].at /\ (j \in activeJobs <=> row[j].active)

(* The pages that a sync has fetched are of changes after the cursor, and   *)
(* leave none out; one that has been overtaken since is older than its row. *)
Fetched ==
  work.kind = "sync" =>
    /\ cursor <= work.cursor /\ work.cursor <= watermark
    /\ \A j \in Jobs :
         /\ work.changes[j].at # 0 =>
              cursor < work.changes[j].at /\ work.changes[j].at <= row[j].at
         /\ cursor < row[j].at /\ row[j].at <= work.cursor => work.changes[j] = row[j]

(* Only stop takes a task's life, and only a start that found one restarts. *)
Lives ==
  /\ work # NoWork /\ work.live => running /\ ~restartPending
  /\ running /\ work # NoWork => work.live \/ restartPending

IndInv == PollerTypeOK /\ FeedSound /\ cursor <= watermark /\ Known /\ Fetched

-----------------------------------------------------------------------------
(* The feed *)

LEMMA StampsGrow ==
  ASSUME NEW mark, NEW t \in Stamps(mark)
  PROVE  t \in 1..MaxTime /\ t > mark
BY DEF Stamps

LEMMA FeedIs ==
  ASSUME FeedTypeOK
  PROVE  /\ \A j \in Jobs : row[j] \in Row /\ row[j].at \in Nat /\ txn.row[j] \in Row
                            /\ txn.row[j].at \in Nat
         /\ row \in [Jobs -> Row] /\ txn.row \in [Jobs -> Row]
         /\ watermark \in 0..MaxTime /\ txn.watermark \in 0..MaxTime /\ txn.open \in BOOLEAN
         /\ MaxTime \in Nat
BY FeedBounds DEF FeedTypeOK, Row

LEMMA ChangeKeepsFeed ==
  ASSUME FeedTypeOK, FeedSound, NEW j \in Jobs, Change(j)
  PROVE  FeedTypeOK' /\ FeedSound' /\ UNCHANGED <<row, watermark>>
<1> DEFINE v == View
<1>0. UNCHANGED <<row, watermark>>
  BY DEF Change
<1>1. /\ v.open = TRUE /\ v.row \in [Jobs -> Row] /\ v.watermark \in 0..MaxTime
      /\ v \in [open : BOOLEAN, row : [Jobs -> Row], watermark : 0..MaxTime]
      /\ watermark <= v.watermark
      /\ \A k \in Jobs : /\ v.row[k].at <= v.watermark
                         /\ v.row[k] = row[k] \/ watermark < v.row[k].at
  <2>1. CASE txn.open
    BY <2>1, FeedIs DEF View, FeedSound, FeedTypeOK
  <2>2. CASE ~txn.open
    <3>1. v = [open |-> TRUE, row |-> row, watermark |-> watermark]
      BY <2>2 DEF View
    <3> HIDE DEF v
    <3> QED
      BY <3>1, FeedIs DEF FeedSound
  <2> QED
    BY <2>1, <2>2
<1>2. PICK t \in Stamps(v.watermark), active \in BOOLEAN :
        txn' = [v EXCEPT !.row[j] = [at |-> t, active |-> active], !.watermark = t]
  BY DEF Change
<1> HIDE DEF v
<1> DEFINE new == [at |-> t, active |-> active]
<1>3. t \in 1..MaxTime /\ t > v.watermark
  BY <1>2, StampsGrow
<1>4. new \in Row /\ new.at = t
  BY <1>3, FeedBounds DEF Row
<1>5. txn' = [v EXCEPT !.row = [v.row EXCEPT ![j] = new], !.watermark = t]
  BY <1>1, <1>2
<1> HIDE DEF new
<1>6. txn'.open = TRUE /\ txn'.row = [v.row EXCEPT ![j] = new] /\ txn'.watermark = t
  BY <1>1, <1>5
<1>7. txn' \in [open : BOOLEAN, row : [Jobs -> Row], watermark : 0..MaxTime]
  <2>1. [v.row EXCEPT ![j] = new] \in [Jobs -> Row] /\ t \in 0..MaxTime
    BY <1>1, <1>3, <1>4, FeedBounds
  <2> QED
    BY <1>1, <1>5, <2>1
<1>8. FeedTypeOK'
  BY <1>0, <1>7 DEF FeedTypeOK
<1>9. \A k \in Jobs : txn'.row[k] = IF k = j THEN new ELSE v.row[k]
  BY <1>1, <1>6
<1>10. \A k \in Jobs : v.row[k].at \in Nat
  BY <1>1 DEF Row
<1>11. FeedSound'
  BY <1>0, <1>1, <1>3, <1>4, <1>6, <1>9, <1>10, FeedIs DEF FeedSound
<1> QED
  BY <1>0, <1>8, <1>11

LEMMA EndsKeepsFeed ==
  ASSUME FeedTypeOK, FeedSound, Ends
  PROVE  FeedTypeOK' /\ FeedSound' /\ FeedMoves
<1>0. NoRow \in Row
  BY FeedBounds DEF NoRow, Row
<1>1. Free \in [open : BOOLEAN, row : [Jobs -> Row], watermark : 0..MaxTime] /\ Free.open = FALSE
  BY <1>0, FeedBounds DEF Free
<1>2. txn' = Free
  BY DEF Ends, Commit, Rollback
<1>3. CASE Commit
  <2>1. txn.open /\ row' = txn.row /\ watermark' = txn.watermark
    BY <1>3 DEF Commit
  <2> QED
    BY <1>1, <1>2, <2>1, FeedIs DEF FeedSound, FeedMoves, FeedTypeOK
<1>4. CASE Rollback
  <2>1. UNCHANGED <<row, watermark>>
    BY <1>4 DEF Rollback
  <2> QED
    BY <1>1, <1>2, <2>1, FeedIs DEF FeedSound, FeedMoves, FeedTypeOK
<1> QED
  BY <1>3, <1>4 DEF Ends

(* A page leaves out only what is stamped after all of it, and the cursor   *)
(* it comes with is that of the last.                                       *)
LEMMA ListIs ==
  ASSUME FeedTypeOK, FeedSound, NEW from \in 0..MaxTime, from <= watermark,
         NEW p \in SUBSET Jobs, NEW next \in 0..MaxTime, List(from, p, next)
  PROVE  /\ FeedTypeOK' /\ FeedSound' /\ FeedMoves /\ UNCHANGED row
         /\ from <= next /\ next <= watermark'
         /\ \A j \in p : from < row[j].at
         /\ \A j \in Jobs \ p : row[j].at <= from \/ next < row[j].at
<1>0. /\ ~txn.open /\ UNCHANGED <<row, txn>> /\ p \in SUBSET After(from)
      /\ p # After(from) => Cardinality(p) = PageSize
      /\ \A j \in p, k \in After(from) \ p : row[j].at < row[k].at
  BY DEF List, Page
<1>1. \A j \in Jobs : j \in After(from) <=> from < row[j].at
  BY FeedIs DEF After
<1>2. CASE p # {} /\ next \in Latest(p) /\ UNCHANGED watermark
  <2>1. PICK i \in p : next = row[i].at /\ \A j \in p : row[j].at <= next
    BY <1>2 DEF Latest
  <2> QED
    BY <1>0, <1>1, <1>2, <2>1, FeedIs DEF FeedTypeOK, FeedSound, FeedMoves
<1>3. ASSUME p = {} PROVE After(from) = {}
  BY <1>0, <1>3, FS_EmptySet, FeedBounds
<1>4. CASE p = {} /\ next = from /\ UNCHANGED watermark
  BY <1>0, <1>1, <1>3, <1>4, FeedIs DEF FeedTypeOK, FeedSound, FeedMoves
<1>5. CASE p = {} /\ from = 0 /\ next \in Stamps(watermark) /\ watermark' = next
  <2>1. next > watermark
    BY <1>5, StampsGrow
  <2> QED
    BY <1>0, <1>1, <1>3, <1>5, <2>1, FeedIs DEF FeedTypeOK, FeedSound, FeedMoves
<1> QED
  BY <1>2, <1>4, <1>5 DEF List

-----------------------------------------------------------------------------
(* The poller's task *)

NewSync(from) ==
  [kind |-> "sync", live |-> TRUE, cancelled |-> FALSE, outcome |-> "fetching",
   cursor |-> from, changes |-> NoChanges]

Asleep == [kind |-> "sleep", live |-> TRUE, cancelled |-> FALSE]

LEMMA TasksAre ==
  ASSUME NEW from \in 0..MaxTime
  PROVE  /\ NewSync(from) \in Work /\ NewSync(from).kind = "sync" /\ NewSync(from).live = TRUE
         /\ NewSync(from).cancelled = FALSE /\ NewSync(from).cursor = from
         /\ NewSync(from).changes = NoChanges /\ NewSync(from) # NoWork
         /\ \A j \in Jobs : NoChanges[j].at = 0
         /\ Asleep \in Work /\ Asleep.kind = "sleep" /\ Asleep.live = TRUE
         /\ Asleep.cancelled = FALSE /\ Asleep # NoWork
         /\ NoWork.kind = "none"
<1>1. NoRow \in Row /\ NoRow.at = 0
  BY FeedBounds DEF NoRow, Row
<1>2. NoChanges \in [Jobs -> Row] /\ \A j \in Jobs : NoChanges[j].at = 0
  BY <1>1 DEF NoChanges
<1>3. NoWork.kind = "none"
  BY DEF NoWork
<1>4. NewSync(from).kind = "sync" /\ Asleep.kind = "sleep"
  BY DEF NewSync, Asleep
<1>5. NewSync(from) # NoWork /\ Asleep # NoWork
  BY <1>3, <1>4
<1> HIDE DEF NoChanges
<1> QED
  BY <1>2, <1>3, <1>4, <1>5 DEF NewSync, Asleep, Work, Outcome

(* A task is none, a sync or a sleep.                                       *)
LEMMA WorkIs ==
  ASSUME work \in Work \cup {NoWork}
  PROVE  \/ work = NoWork /\ work.kind = "none"
         \/ /\ work # NoWork /\ work \in Work /\ work.kind = "sync" /\ work.live \in BOOLEAN
            /\ work.cancelled \in BOOLEAN /\ work.outcome \in Outcome
            /\ work.cursor \in 0..MaxTime /\ work.changes \in [Jobs -> Row]
         \/ /\ work # NoWork /\ work \in Work /\ work.kind = "sleep" /\ work.live \in BOOLEAN
            /\ work.cancelled \in BOOLEAN
<1>1. NoWork.kind = "none"
  BY DEF NoWork
<1>2. CASE work = NoWork
  BY <1>1, <1>2
<1>3. CASE work \in Work
  <2>1. \/ /\ work.kind = "sync" /\ work.live \in BOOLEAN
           /\ work.cancelled \in BOOLEAN /\ work.outcome \in Outcome
           /\ work.cursor \in 0..MaxTime /\ work.changes \in [Jobs -> Row]
        \/ /\ work.kind = "sleep" /\ work.live \in BOOLEAN /\ work.cancelled \in BOOLEAN
    BY <1>3 DEF Work
  <2> QED
    BY <1>1, <1>3, <2>1
<1> QED
  BY <1>2, <1>3

(* A task that is cancelled, or fails, keeps its kind and its pages.        *)
LEMMA FlagsKeepTask ==
  ASSUME work \in Work
  PROVE  /\ \A new \in {[work EXCEPT !.live = FALSE, !.cancelled = TRUE],
                        [work EXCEPT !.cancelled = TRUE]} :
              /\ new \in Work /\ new # NoWork /\ new.kind = work.kind /\ new.cancelled = TRUE
              /\ work.kind = "sync" => new.cursor = work.cursor /\ new.changes = work.changes
         /\ [work EXCEPT !.live = FALSE, !.cancelled = TRUE].live = FALSE
         /\ [work EXCEPT !.cancelled = TRUE].live = work.live
         /\ work.kind = "sync" =>
              LET new == [work EXCEPT !.outcome = "failure"]
              IN /\ new \in Work /\ new # NoWork /\ new.kind = "sync" /\ new.live = work.live
                 /\ new.cancelled = work.cancelled
                 /\ new.cursor = work.cursor /\ new.changes = work.changes
<1>0. NoWork.kind = "none" /\ work \in Work \cup {NoWork}
  BY DEF NoWork
<1>1. CASE work.kind = "sync"
  <2>1. work \in [kind : {"sync"}, live : BOOLEAN, cancelled : BOOLEAN, outcome : Outcome,
                  cursor : 0..MaxTime, changes : [Jobs -> Row]]
    BY <1>1 DEF Work
  <2> DEFINE a == [work EXCEPT !.live = FALSE, !.cancelled = TRUE]
             b == [work EXCEPT !.cancelled = TRUE]
             c == [work EXCEPT !.outcome = "failure"]
  <2>2. /\ a \in Work /\ a.kind = "sync" /\ a.cancelled = TRUE /\ a.live = FALSE
        /\ a.cursor = work.cursor /\ a.changes = work.changes
    BY <2>1 DEF Work
  <2>3. /\ b \in Work /\ b.kind = "sync" /\ b.cancelled = TRUE /\ b.live = work.live
        /\ b.cursor = work.cursor /\ b.changes = work.changes
    BY <2>1 DEF Work
  <2>4. /\ c \in Work /\ c.kind = "sync" /\ c.cancelled = work.cancelled /\ c.live = work.live
        /\ c.cursor = work.cursor /\ c.changes = work.changes
    BY <2>1 DEF Work, Outcome
  <2> HIDE DEF a, b, c
  <2>5. a # NoWork /\ b # NoWork /\ c # NoWork
    BY <1>0, <2>2, <2>3, <2>4
  <2>6. \A new \in {a, b} :
          /\ new \in Work /\ new # NoWork /\ new.kind = work.kind /\ new.cancelled = TRUE
          /\ work.kind = "sync" => new.cursor = work.cursor /\ new.changes = work.changes
    BY <1>1, <2>2, <2>3, <2>5
  <2> QED
    BY <2>2, <2>3, <2>4, <2>5, <2>6 DEF a, b, c
<1>2. CASE work.kind = "sleep"
  <2>1. work \in [kind : {"sleep"}, live : BOOLEAN, cancelled : BOOLEAN]
    BY <1>2 DEF Work
  <2> DEFINE a == [work EXCEPT !.live = FALSE, !.cancelled = TRUE]
             b == [work EXCEPT !.cancelled = TRUE]
  <2>2. a \in Work /\ a.kind = "sleep" /\ a.cancelled = TRUE /\ a.live = FALSE
    BY <2>1 DEF Work
  <2>3. b \in Work /\ b.kind = "sleep" /\ b.cancelled = TRUE /\ b.live = work.live
    BY <2>1 DEF Work
  <2> HIDE DEF a, b
  <2>4. a # NoWork /\ b # NoWork
    BY <1>0, <2>2, <2>3
  <2>5. \A new \in {a, b} :
          /\ new \in Work /\ new # NoWork /\ new.kind = work.kind /\ new.cancelled = TRUE
          /\ work.kind = "sync" => new.cursor = work.cursor /\ new.changes = work.changes
    BY <1>2, <2>2, <2>3, <2>4
  <2> QED
    BY <1>2, <2>2, <2>3, <2>5 DEF a, b
<1>3. work.kind = "sync" \/ work.kind = "sleep"
  BY DEF Work
<1> QED
  BY <1>1, <1>2, <1>3

(* Tasks that stand for no page more than before: none, a sleep, a sync     *)
(* that begins, or the same sync.                                           *)
Follows ==
  \/ work' = NoWork
  \/ work' \in Work /\ work'.kind = "sleep"
  \/ work' = NewSync(cursor')
  \/ work \in Work /\ work.kind = "sync" /\ work' \in Work /\ work'.kind = "sync"
       /\ work'.cursor = work.cursor /\ work'.changes = work.changes

LEMMA FollowsKeeps ==
  ASSUME IndInv, Follows, UNCHANGED <<feed, cursor, activeJobs, seen>>
  PROVE  /\ work' \in Work \cup {NoWork}
         /\ FeedTypeOK' /\ FeedSound' /\ cursor' <= watermark' /\ Known' /\ Fetched'
<1>0. /\ UNCHANGED <<row, watermark, txn, cursor, activeJobs, seen>>
      /\ cursor \in 0..MaxTime
  BY DEF feed, IndInv, PollerTypeOK
<1>1. FeedTypeOK' /\ FeedSound' /\ cursor' <= watermark' /\ Known'
  BY <1>0 DEF IndInv, PollerTypeOK, FeedTypeOK, FeedSound, Known
<1>2. work' \in Work \cup {NoWork}
  BY <1>0, TasksAre DEF Follows
<1>3. Fetched'
  <2>1. CASE work'.kind # "sync"
    BY <2>1 DEF Fetched
  <2>2. CASE work' = NewSync(cursor')
    <3>1. work'.kind = "sync" /\ work'.cursor = cursor /\ \A j \in Jobs : work'.changes[j].at = 0
      <4>1. work' = NewSync(cursor)
        BY <1>0, <2>2
      <4>2. work'.kind = "sync" /\ work'.cursor = cursor /\ work'.changes = NoChanges
        BY <1>0, <4>1, TasksAre
      <4> QED
        BY <1>0, <4>2, TasksAre
    <3>2. \A j \in Jobs : row[j].at \in Nat
      BY FeedIs DEF IndInv, PollerTypeOK
    <3> QED
      BY <1>0, <3>1, <3>2 DEF IndInv, Fetched
  <2>3. CASE /\ work.kind = "sync" /\ work'.kind = "sync"
             /\ work'.cursor = work.cursor /\ work'.changes = work.changes
    BY <1>0, <2>3 DEF IndInv, Fetched
  <2> QED
    BY <2>1, <2>2, <2>3, TasksAre, <1>0 DEF Follows
<1> QED
  BY <1>1, <1>2, <1>3

-----------------------------------------------------------------------------
(* What each step does to the cursor *)

(* Everything of PollerTypeOK but the feed and the task.                    *)
FlagsOK ==
  /\ running \in BOOLEAN /\ refreshPending \in BOOLEAN /\ restartPending \in BOOLEAN
  /\ cursor \in 0..MaxTime /\ activeJobs \in SUBSET Jobs
  /\ failures \in 0..(MaxRetries + 1) /\ terminated \in BOOLEAN
  /\ seen \in [Jobs -> 0..MaxTime] /\ owed \in BOOLEAN

LiveIsUncancelled == work.kind = "sync" /\ work.live => ~work.cancelled

LEMMA TypeParts ==
  PollerTypeOK <=> FeedTypeOK /\ FlagsOK /\ LiveIsUncancelled /\ work \in Work \cup {NoWork}
BY DEF PollerTypeOK, FlagsOK, LiveIsUncancelled

LEMMA UserKeeps ==
  ASSUME IndInv, UserStep
  PROVE  IndInv'
<1>0. /\ FlagsOK /\ work \in Work \cup {NoWork} /\ LiveIsUncancelled /\ cursor \in 0..MaxTime
      /\ 0 \in 0..(MaxRetries + 1)
  BY TypeParts, RetriesAreNat DEF IndInv, FlagsOK
<1>1. UNCHANGED <<feed, cursor, activeJobs, seen>>
  BY DEF UserStep, Start, Stop, RefreshNow, Terminate
<1>2. FlagsOK'
  BY <1>0 DEF UserStep, Start, Stop, StopPolling, RefreshNow, Terminate, ScheduleSync, FlagsOK
<1>3. Follows /\ LiveIsUncancelled'
  <2>1. CASE UNCHANGED work
    BY <1>0, <2>1, WorkIs DEF Follows, LiveIsUncancelled
  <2>2. CASE work' = NewSync(cursor)
    BY <1>0, <1>1, <2>2, TasksAre DEF Follows, LiveIsUncancelled
  <2>3. CASE work \in Work /\ work' \in {[work EXCEPT !.live = FALSE, !.cancelled = TRUE]}
    <3>1. /\ work' \in Work /\ work'.live = FALSE /\ work'.kind = work.kind
          /\ work.kind = "sync" => work'.cursor = work.cursor /\ work'.changes = work.changes
      BY <2>3, FlagsKeepTask
    <3>2. LiveIsUncancelled'
      BY <3>1 DEF LiveIsUncancelled
    <3>3. work.kind = "sync" \/ work.kind = "sleep"
      BY <2>3 DEF Work
    <3>4. Follows
      BY <2>3, <3>1, <3>3 DEF Follows
    <3> QED
      BY <3>2, <3>4
  <2>4. CASE work \in Work /\ work.kind = "sleep" /\ work' = [work EXCEPT !.cancelled = TRUE]
    <3>1. work' \in Work /\ work'.kind = "sleep"
      BY <2>4, FlagsKeepTask
    <3> QED
      BY <3>1 DEF Follows, LiveIsUncancelled
  <2>5. CASE work' = NoWork
    BY <1>0, <2>5, TasksAre DEF Follows, LiveIsUncancelled
  <2> QED
    <3>1. CASE Start
      BY <2>1, <2>2, <3>1 DEF Start, ScheduleSync, NewSync
    <3>2. CASE Stop
      BY <1>0, <2>3, <2>5, <3>2 DEF Stop
    <3>3. CASE RefreshNow
      BY <1>0, <2>1, <2>2, <2>4, <3>3, WorkIs DEF RefreshNow, ScheduleSync, NewSync
    <3>4. CASE Terminate
      BY <2>1, <3>4 DEF Terminate
    <3> QED
      BY <3>1, <3>2, <3>3, <3>4 DEF UserStep
<1> QED
  BY <1>1, <1>2, <1>3, FollowsKeeps DEF IndInv, PollerTypeOK, FlagsOK, LiveIsUncancelled

(* A page of the feed is added to those that the sync has fetched.          *)
LEMMA PageKeeps ==
  ASSUME IndInv, FetchPage
  PROVE  IndInv'
<1>0. /\ FlagsOK /\ FeedTypeOK /\ FeedSound /\ cursor \in 0..MaxTime
      /\ UNCHANGED <<running, refreshPending, restartPending, cursor, activeJobs, failures,
                     terminated, seen, owed>>
  BY TypeParts DEF IndInv, FlagsOK, FetchPage
<1>1. /\ work.kind = "sync" /\ work.cancelled = FALSE /\ work.live \in BOOLEAN
      /\ work.cursor \in 0..MaxTime /\ work.changes \in [Jobs -> Row] /\ work \in Work
  BY WorkIs DEF IndInv, PollerTypeOK, FetchPage, Fetching, NoWork
<1>2. PICK p \in SUBSET Jobs, next \in 0..MaxTime :
        /\ List(work.cursor, p, next)
        /\ work' = [work EXCEPT
             !.cursor = next,
             !.changes = [j \in Jobs |-> IF j \in p THEN row[j] ELSE work.changes[j]],
             !.outcome = IF HasMore(work.cursor, p) THEN "fetching" ELSE "success"]
  BY DEF FetchPage
<1> DEFINE changes == [j \in Jobs |-> IF j \in p THEN row[j] ELSE work.changes[j]]
           outcome == IF HasMore(work.cursor, p) THEN "fetching" ELSE "success"
<1>3. changes \in [Jobs -> Row] /\ outcome \in Outcome
  BY <1>0, <1>1, FeedIs DEF Outcome
<1>4. \A j \in Jobs : changes[j] = IF j \in p THEN row[j] ELSE work.changes[j]
  OBVIOUS
<1>5. work' = [work EXCEPT !.cursor = next, !.changes = changes, !.outcome = outcome]
  BY <1>2
<1> HIDE DEF changes, outcome
<1>6. /\ work' \in Work /\ work'.kind = "sync" /\ work'.cursor = next /\ work'.changes = changes
      /\ work'.live = work.live /\ work'.cancelled = FALSE
  <2>1. work \in [kind : {"sync"}, live : BOOLEAN, cancelled : BOOLEAN, outcome : Outcome,
                  cursor : 0..MaxTime, changes : [Jobs -> Row]]
    BY <1>1 DEF Work
  <2> QED
    BY <1>1, <1>2, <1>3, <1>5, <2>1 DEF Work
<1>7. cursor <= work.cursor /\ work.cursor <= watermark
  BY <1>1 DEF IndInv, Fetched
<1>8. /\ FeedTypeOK' /\ FeedSound' /\ FeedMoves /\ UNCHANGED row
      /\ work.cursor <= next /\ next <= watermark'
      /\ \A j \in p : work.cursor < row[j].at
      /\ \A j \in Jobs \ p : row[j].at <= work.cursor \/ next < row[j].at
  BY <1>0, <1>1, <1>2, <1>7, ListIs
<1>9. \A j \in Jobs : row[j].at \in Nat /\ work.changes[j].at \in Nat
  BY <1>0, <1>1, FeedIs DEF Row
<1>10. Fetched'
  <2>1. ASSUME NEW j \in Jobs
        PROVE  /\ changes[j].at # 0 => cursor < changes[j].at /\ changes[j].at <= row[j].at
               /\ cursor < row[j].at /\ row[j].at <= next => changes[j] = row[j]
    <3>1. CASE j \in p
      BY <1>0, <1>1, <1>4, <1>7, <1>8, <1>9, <3>1
    <3>2. CASE j \notin p
      <4>1. changes[j] = work.changes[j]
        BY <1>4, <3>2
      <4>2. row[j].at <= work.cursor \/ next < row[j].at
        BY <1>8, <3>2
      <4>3. /\ work.changes[j].at # 0 =>
                 cursor < work.changes[j].at /\ work.changes[j].at <= row[j].at
            /\ cursor < row[j].at /\ row[j].at <= work.cursor => work.changes[j] = row[j]
        BY <1>1 DEF IndInv, Fetched
      <4>4. ~(next < row[j].at /\ row[j].at <= next)
        BY <1>2, <1>9
      <4> QED
        BY <4>1, <4>2, <4>3, <4>4
    <3> QED
      BY <3>1, <3>2
  <2>2. cursor <= next
    BY <1>0, <1>1, <1>2, <1>7, <1>8
  <2> QED
    BY <1>0, <1>6, <1>8, <2>1, <2>2 DEF Fetched
<1>11. cursor' <= watermark' /\ Known'
  <2>1. cursor <= watermark'
    BY <1>0, <1>8, FeedIs DEF IndInv, FeedMoves, FeedTypeOK
  <2> QED
    BY <1>0, <1>8, <2>1 DEF IndInv, Known
<1>12. FlagsOK' /\ LiveIsUncancelled'
  BY <1>0, <1>6 DEF FlagsOK, LiveIsUncancelled
<1> QED
  BY <1>6, <1>8, <1>10, <1>11, <1>12 DEF IndInv, PollerTypeOK, FlagsOK, LiveIsUncancelled

LEMMA FetchFailsKeeps ==
  ASSUME IndInv, FetchFails
  PROVE  IndInv'
<1>0. /\ FlagsOK /\ work \in Work \cup {NoWork} /\ LiveIsUncancelled
      /\ UNCHANGED <<running, refreshPending, restartPending, cursor, activeJobs, failures,
                     terminated, seen, owed, feed>>
  BY TypeParts DEF IndInv, FetchFails
<1>1. work \in Work /\ work.kind = "sync" /\ work' = [work EXCEPT !.outcome = "failure"]
  BY <1>0, WorkIs DEF FetchFails, Fetching
<1>2. /\ work' \in Work /\ work'.kind = "sync" /\ work'.live = work.live
      /\ work'.cancelled = work.cancelled
      /\ work'.cursor = work.cursor /\ work'.changes = work.changes
  BY <1>1, FlagsKeepTask
<1>3. Follows /\ LiveIsUncancelled' /\ FlagsOK'
  BY <1>0, <1>1, <1>2 DEF Follows, LiveIsUncancelled, FlagsOK
<1> QED
  BY <1>0, <1>3, FollowsKeeps DEF IndInv, PollerTypeOK, FlagsOK, LiveIsUncancelled

(* What a sync has fetched is what the poller knows once it applies it.     *)
LEMMA ApplyKnows ==
  ASSUME IndInv, work.kind = "sync", Apply, UNCHANGED feed
  PROVE  /\ cursor' \in 0..MaxTime /\ cursor' <= watermark' /\ Known'
         /\ activeJobs' \in SUBSET Jobs /\ seen' \in [Jobs -> 0..MaxTime]
<1>0. /\ UNCHANGED <<row, watermark>> /\ FlagsOK /\ FeedTypeOK
      /\ work.cursor \in 0..MaxTime /\ work.changes \in [Jobs -> Row]
  BY WorkIs, TypeParts DEF feed, IndInv, NoWork
<1>1. \A j \in Jobs : /\ row[j].at \in Nat /\ work.changes[j].at \in 0..MaxTime
                      /\ work.changes[j].active \in BOOLEAN
  BY <1>0, FeedIs DEF Row
<1>2. cursor' = work.cursor /\ cursor <= work.cursor /\ work.cursor <= watermark
      /\ cursor \in 0..MaxTime
  BY <1>0 DEF Apply, IndInv, Fetched, FlagsOK
<1>3. ASSUME NEW j \in Jobs, row[j].at <= work.cursor
      PROVE  seen'[j] = row[j].at /\ (j \in activeJobs' <=> row[j].active)
  <2>0. /\ seen'[j] = IF j \in Changed THEN work.changes[j].at ELSE seen[j]
        /\ j \in activeJobs' <=>
             IF j \in Changed THEN work.changes[j].active ELSE j \in activeJobs
    BY <1>1 DEF Apply, Changed
  <2>1. /\ work.changes[j].at # 0 =>
             cursor < work.changes[j].at /\ work.changes[j].at <= row[j].at
        /\ cursor < row[j].at => work.changes[j] = row[j]
    BY <1>3 DEF IndInv, Fetched
  <2>2. CASE j \in Changed
    <3>1. work.changes[j].at # 0
      BY <2>2 DEF Changed
    <3>2. cursor < row[j].at
      BY <1>1, <1>2, <2>1, <3>1
    <3> QED
      BY <2>0, <2>1, <2>2, <3>2
  <2>3. CASE j \notin Changed
    <3>1. work.changes[j].at = 0
      BY <2>3 DEF Changed
    <3>2. row[j].at <= cursor
      BY <1>1, <1>2, <2>1, <3>1
    <3> QED
      BY <2>0, <2>3, <3>2 DEF IndInv, Known
  <2> QED
    BY <2>2, <2>3
<1>4. activeJobs' \in SUBSET Jobs /\ seen' \in [Jobs -> 0..MaxTime]
  BY <1>0, <1>1 DEF Apply, Changed, FlagsOK
<1> QED
  BY <1>0, <1>2, <1>3, <1>4 DEF Known

(* A sync that begins has no page yet, and needs none.                      *)
LEMMA AnewKeeps ==
  ASSUME IndInv, UNCHANGED feed, cursor' \in 0..MaxTime, cursor' <= watermark', Known',
         work' \in {NoWork, Asleep, NewSync(cursor')}, FlagsOK'
  PROVE  IndInv'
<1>0. UNCHANGED <<row, watermark, txn>> /\ FeedTypeOK
  BY TypeParts DEF feed, IndInv
<1>1. FeedTypeOK' /\ FeedSound'
  BY <1>0 DEF IndInv, FeedTypeOK, FeedSound
<1>2. \A j \in Jobs : row[j].at \in Nat
  BY <1>0, FeedIs
<1>3. /\ work' \in Work \cup {NoWork} /\ LiveIsUncancelled' /\ Fetched'
  <2>1. CASE work' \in {NoWork, Asleep}
    BY <2>1, TasksAre DEF LiveIsUncancelled, Fetched
  <2>2. CASE work' = NewSync(cursor')
    <3>1. /\ work' \in Work /\ work'.kind = "sync" /\ work'.cursor = cursor'
          /\ work'.cancelled = FALSE /\ work'.changes = NoChanges
          /\ \A j \in Jobs : NoChanges[j].at = 0
      BY <2>2, TasksAre
    <3> QED
      BY <1>0, <1>2, <3>1 DEF LiveIsUncancelled, Fetched
  <2> QED
    BY <2>1, <2>2
<1> QED
  BY <1>1, <1>3 DEF IndInv, PollerTypeOK, FlagsOK, LiveIsUncancelled

LEMMA ExitKeeps ==
  ASSUME IndInv, SyncExits \/ SleepExits
  PROVE  IndInv'
<1>0. /\ FlagsOK /\ UNCHANGED <<terminated, feed>> /\ cursor \in 0..MaxTime
      /\ 0 \in 0..(MaxRetries + 1) /\ UNCHANGED <<row, watermark>>
  <2>1. FlagsOK /\ cursor \in 0..MaxTime /\ 0 \in 0..(MaxRetries + 1)
    BY TypeParts, RetriesAreNat DEF IndInv, FlagsOK
  <2>2. UNCHANGED <<terminated, feed>>
    BY DEF SyncExits, SleepExits
  <2> QED
    BY <2>1, <2>2 DEF feed
<1>1. ASSUME UNCHANGED <<cursor, activeJobs, seen>>
      PROVE  /\ cursor' \in 0..MaxTime /\ cursor' <= watermark' /\ Known'
             /\ activeJobs' \in SUBSET Jobs /\ seen' \in [Jobs -> 0..MaxTime]
  BY <1>0, <1>1 DEF IndInv, Known, FlagsOK
<1>2. CASE Restart
  BY <1>0, <1>1, <1>2, AnewKeeps DEF Restart, ScheduleSync, NewSync, FlagsOK
<1>3. CASE Retire
  BY <1>0, <1>1, <1>3, AnewKeeps DEF Retire, FlagsOK
<1>4. ASSUME NEW failed \in BOOLEAN, NEW count \in 0..(MaxRetries + 1), Continue(failed, count),
             cursor' \in 0..MaxTime /\ cursor' <= watermark' /\ Known',
             activeJobs' \in SUBSET Jobs /\ seen' \in [Jobs -> 0..MaxTime]
      PROVE  IndInv'
  <2>1. work' \in {NoWork, Asleep, NewSync(cursor')}
    BY <1>4 DEF Continue, ScheduleSync, ScheduleSleep, NewSync, Asleep
  <2>2. FlagsOK'
    BY <1>0, <1>4 DEF Continue, ScheduleSync, FlagsOK
  <2> QED
    BY <1>0, <1>4, <2>1, <2>2, AnewKeeps
<1>5. CASE work.kind = "sync" /\ Apply /\ Changed # {} /\ StopPolling /\ work' = NoWork
  <2>1. /\ cursor' \in 0..MaxTime /\ cursor' <= watermark' /\ Known'
        /\ activeJobs' \in SUBSET Jobs /\ seen' \in [Jobs -> 0..MaxTime]
    BY <1>0, <1>5, ApplyKnows
  <2>2. FlagsOK'
    BY <1>0, <1>5, <2>1 DEF StopPolling, FlagsOK
  <2> QED
    BY <1>0, <1>5, <2>1, <2>2, AnewKeeps
<1>6. CASE work.kind = "sync" /\ Apply /\ Continue(FALSE, 0)
  BY <1>0, <1>4, <1>6, ApplyKnows
<1>7. CASE Discard /\ Continue(TRUE, Counted(failures + 1))
  <2>1. Counted(failures + 1) \in 0..(MaxRetries + 1)
    BY <1>0, RetriesAreNat DEF Counted, FlagsOK
  <2> QED
    BY <1>0, <1>1, <1>4, <1>7, <2>1 DEF Discard
<1>8. CASE /\ refreshPending' = FALSE /\ ScheduleSync(cursor)
           /\ UNCHANGED <<running, restartPending, cursor, activeJobs, failures, seen>>
  BY <1>0, <1>1, <1>8, AnewKeeps DEF ScheduleSync, NewSync, FlagsOK
<1> QED
  BY <1>2, <1>3, <1>5, <1>6, <1>7, <1>8 DEF SyncExits, SleepExits

(* Whatever commits is stamped after every cursor.                          *)
LEMMA ServerKeeps ==
  ASSUME IndInv, ServerStep
  PROVE  IndInv'
<1>0. FeedTypeOK /\ FeedSound /\ UNCHANGED poller /\ FlagsOK /\ cursor \in 0..MaxTime
  BY TypeParts DEF IndInv, ServerStep, FlagsOK
<1>1. FeedTypeOK' /\ FeedSound' /\ FeedMoves
  <2>1. CASE Ends
    BY <1>0, <2>1, EndsKeepsFeed
  <2>2. CASE Writes
    BY <1>0, <2>2, ChangeKeepsFeed, FeedIs DEF Writes, FeedMoves
  <2> QED
    BY <2>1, <2>2 DEF ServerStep
<1>2. /\ UNCHANGED <<cursor, activeJobs, seen, work>> /\ FlagsOK' /\ LiveIsUncancelled'
      /\ work' \in Work \cup {NoWork}
  BY <1>0, TypeParts DEF poller, FlagsOK, LiveIsUncancelled, IndInv
<1>3. \A j \in Jobs : /\ row[j].at \in Nat /\ row'[j].at \in Nat
                      /\ row'[j] = row[j] \/ watermark < row'[j].at
                      /\ row[j].at <= watermark
  BY <1>0, <1>1, FeedIs DEF FeedMoves, FeedSound, FeedTypeOK, Row
<1>4. watermark \in Nat /\ watermark' \in Nat /\ watermark <= watermark' /\ cursor <= watermark
  BY <1>0, <1>1, FeedIs DEF FeedMoves, FeedTypeOK, IndInv
<1>5. Known' /\ cursor' <= watermark'
  BY <1>0, <1>2, <1>3, <1>4 DEF Known, IndInv
<1>6. Fetched'
  <2>1. ASSUME work.kind = "sync" PROVE Fetched'
    <3>1. /\ work.cursor \in 0..MaxTime /\ work.changes \in [Jobs -> Row]
          /\ cursor <= work.cursor /\ work.cursor <= watermark
      BY <2>1, WorkIs, TypeParts DEF IndInv, Fetched, NoWork
    <3>2. \A j \in Jobs : work.changes[j].at \in Nat
      BY <3>1 DEF Row
    <3>3. ASSUME NEW j \in Jobs
          PROVE  /\ work.changes[j].at # 0 =>
                      cursor < work.changes[j].at /\ work.changes[j].at <= row'[j].at
                 /\ cursor < row'[j].at /\ row'[j].at <= work.cursor => work.changes[j] = row'[j]
      <4>1. /\ work.changes[j].at # 0 =>
                 cursor < work.changes[j].at /\ work.changes[j].at <= row[j].at
            /\ cursor < row[j].at /\ row[j].at <= work.cursor => work.changes[j] = row[j]
        BY <2>1 DEF IndInv, Fetched
      <4> QED
        BY <1>3, <1>4, <3>1, <3>2, <4>1
    <3>4. work.cursor <= watermark'
      BY <1>4, <3>1
    <3> QED
      BY <1>2, <3>1, <3>3, <3>4 DEF Fetched
  <2> QED
    BY <1>2, <2>1 DEF Fetched
<1> QED
  BY <1>1, <1>2, <1>5, <1>6 DEF IndInv, PollerTypeOK, FlagsOK, LiveIsUncancelled

LEMMA StutterKeeps ==
  ASSUME IndInv, UNCHANGED vars
  PROVE  IndInv'
<1>1. UNCHANGED <<row, watermark, txn>> /\ UNCHANGED poller
  BY DEF vars, feed
<1> QED
  BY <1>1 DEF poller, IndInv, PollerTypeOK, FeedTypeOK, FeedSound, Known, Fetched

THEOREM Invariance == Spec => []IndInv
<1>1. Init => IndInv
  <2> SUFFICES ASSUME Init PROVE IndInv
    OBVIOUS
  <2>1. NoRow \in Row /\ NoRow.at = 0 /\ NoRow.active = FALSE
    BY FeedBounds DEF NoRow, Row
  <2>2. \A j \in Jobs : row[j] = NoRow
    BY DEF Init, FeedInit
  <2>3. FeedTypeOK /\ FeedSound
    BY <2>1, <2>2, FeedBounds DEF Init, FeedInit, Free, FeedTypeOK, FeedSound
  <2>4. FlagsOK /\ LiveIsUncancelled /\ work = NoWork /\ NoWork.kind = "none"
    <3>1. work = NoWork /\ NoWork.kind = "none"
      BY DEF Init, NoWork
    <3>2. FlagsOK
      <4>1. 0 \in 0..MaxTime /\ 0 \in 0..(MaxRetries + 1)
        BY FeedBounds, RetriesAreNat
      <4>2. [j \in Jobs |-> 0] \in [Jobs -> 0..MaxTime]
        BY <4>1
      <4> QED
        BY <4>1, <4>2 DEF Init, FlagsOK
    <3> QED
      BY <3>1, <3>2 DEF LiveIsUncancelled
  <2>5. cursor <= watermark /\ Known /\ Fetched
    BY <2>1, <2>2, <2>4 DEF Init, FeedInit, Known, Fetched
  <2> QED
    BY <2>3, <2>4, <2>5, TypeParts DEF IndInv
<1>2. IndInv /\ [Next]_vars => IndInv'
  BY UserKeeps, PageKeeps, FetchFailsKeeps, ExitKeeps, ServerKeeps, StutterKeeps
     DEF Next, PollerStep
<1> QED
  BY <1>1, <1>2, PTL DEF Spec

(* The cursor never passes a change that the poller does not know, however  *)
(* transactions, pages, failures, stops and restarts interleave.            *)
THEOREM CursorExact == Spec => []CursorIsExact
<1>1. IndInv => CursorIsExact
  BY DEF IndInv, CursorIsExact, Known, Fetched
<1> QED
  BY <1>1, Invariance, PTL

-----------------------------------------------------------------------------
(* Whoever still waits is served *)

Going == Lives /\ KeepsGoing

LEMMA UserGoesOn ==
  ASSUME IndInv, Going, UserStep
  PROVE  Going'
<1>0. FlagsOK /\ work \in Work \cup {NoWork} /\ cursor \in 0..MaxTime
  BY TypeParts DEF IndInv, FlagsOK
<1>1. work # NoWork => work \in Work /\ work.live \in BOOLEAN
  BY <1>0, WorkIs
<1>2. CASE Start
  <2>1. CASE work # NoWork
    BY <1>2, <2>1, <1>0, <1>1 DEF Start, Going, Lives, KeepsGoing, FlagsOK
  <2>2. CASE work = NoWork
    <3>1. work' = NewSync(cursor) /\ owed' = FALSE /\ UNCHANGED restartPending
      BY <1>2, <2>2 DEF Start, ScheduleSync, NewSync
    <3>2. work' # NoWork /\ work'.live = TRUE
      BY <1>0, <3>1, TasksAre
    <3> QED
      BY <1>2, <2>2, <3>1, <3>2, <1>0 DEF Start, Going, Lives, KeepsGoing, FlagsOK
  <2> QED
    BY <2>1, <2>2
<1>3. CASE Stop
  <2>1. /\ ~running' /\ ~restartPending' /\ ~owed'
        /\ work' = NoWork \/ work'.live = FALSE
    BY <1>0, <1>1, <1>3, FlagsKeepTask DEF Stop, StopPolling
  <2> QED
    BY <2>1 DEF Going, Lives, KeepsGoing
<1>4. CASE RefreshNow
  <2>1. CASE work = NoWork /\ ScheduleSync(cursor) /\ UNCHANGED refreshPending
    <3>1. work' = NewSync(cursor) /\ owed' = FALSE
      BY <2>1 DEF ScheduleSync, NewSync
    <3>2. work' # NoWork /\ work'.live = TRUE
      BY <1>0, <3>1, TasksAre
    <3> QED
      BY <1>4, <2>1, <3>1, <3>2 DEF RefreshNow, Going, Lives, KeepsGoing
  <2>2. CASE work.kind = "sync" /\ refreshPending' = TRUE /\ UNCHANGED work
    <3>1. work # NoWork
      BY <2>2 DEF NoWork
    <3> QED
      BY <1>4, <2>2, <3>1, <1>1 DEF RefreshNow, Going, Lives, KeepsGoing
  <2>3. CASE /\ work.kind = "sleep" /\ refreshPending' = TRUE
             /\ work' = [work EXCEPT !.cancelled = TRUE]
    <3>1. work \in Work /\ work # NoWork
      BY <1>1, <2>3 DEF NoWork
    <3>2. work' # NoWork /\ work'.live = work.live
      BY <2>3, <3>1, FlagsKeepTask
    <3> QED
      BY <1>4, <2>3, <3>1, <3>2 DEF RefreshNow, Going, Lives, KeepsGoing
  <2> QED
    BY <1>4, <2>1, <2>2, <2>3 DEF RefreshNow
<1>5. CASE Terminate
  BY <1>5 DEF Terminate, Going, Lives, KeepsGoing
<1> QED
  BY <1>2, <1>3, <1>4, <1>5 DEF UserStep

LEMMA FetchGoesOn ==
  ASSUME IndInv, IndInv', Going, FetchPage \/ FetchFails
  PROVE  Going'
<1>1. /\ UNCHANGED <<running, refreshPending, restartPending, activeJobs, owed>>
      /\ work.kind = "sync"
  BY DEF FetchPage, FetchFails, Fetching
<1>2. work # NoWork /\ work \in Work
  BY <1>1, WorkIs, TypeParts DEF NoWork, IndInv
<1>3. work' # NoWork /\ work'.live = work.live
  <2>1. CASE FetchFails
    BY <1>1, <1>2, <2>1, FlagsKeepTask DEF FetchFails
  <2>2. CASE FetchPage
    <3>1. PICK next, changes, outcome :
            work' = [work EXCEPT !.cursor = next, !.changes = changes, !.outcome = outcome]
      BY <2>2 DEF FetchPage
    <3>2. work \in [kind : {"sync"}, live : BOOLEAN, cancelled : BOOLEAN, outcome : Outcome,
                    cursor : 0..MaxTime, changes : [Jobs -> Row]]
      BY <1>1, <1>2 DEF Work
    <3>3. work'.kind = "sync" /\ work'.live = work.live
      BY <3>1, <3>2
    <3> QED
      BY <3>3 DEF NoWork
  <2> QED
    BY <2>1, <2>2
<1> QED
  BY <1>1, <1>2, <1>3 DEF Going, Lives, KeepsGoing

LEMMA ExitGoesOn ==
  ASSUME IndInv, Going, SyncExits \/ SleepExits, cursor' \in 0..MaxTime
  PROVE  Going'
<1>0. /\ FlagsOK /\ work \in Work \cup {NoWork} /\ work # NoWork /\ LiveIsUncancelled
      /\ cursor \in 0..MaxTime /\ work.live \in BOOLEAN
  <2>1. work.kind \in {"sync", "sleep"}
    BY DEF SyncExits, SleepExits
  <2> QED
    BY <2>1, TypeParts, WorkIs DEF IndInv, FlagsOK
<1>1. running => work.live \/ restartPending
  BY <1>0 DEF Going, Lives
<1>2. ASSUME NEW from \in 0..MaxTime, work' = NewSync(from), owed' = FALSE, running', ~restartPending'
      PROVE  Going'
  <2>1. work' # NoWork /\ work'.live = TRUE
    BY <1>2, TasksAre
  <2> QED
    BY <1>2, <2>1 DEF Going, Lives, KeepsGoing
<1>3. CASE restartPending /\ Restart
  <2>1. running
    BY <1>3 DEF Going, KeepsGoing
  <2> QED
    BY <1>0, <1>2, <1>3, <2>1 DEF Restart, ScheduleSync, NewSync
<1>4. CASE ~restartPending /\ ~running /\ Retire
  BY <1>4 DEF Retire, Going, Lives, KeepsGoing
<1>5. ASSUME NEW failed, NEW count, Continue(failed, count), ~restartPending, running
      PROVE  Going'
  <2>1. CASE refreshPending
    BY <1>2, <1>5, <2>1 DEF Continue, ScheduleSync, NewSync
  <2>2. CASE ~refreshPending
    <3>1. ~owed /\ owed' = owed /\ running' /\ ~restartPending' /\ ~refreshPending'
      BY <1>5, <2>2 DEF Continue, Going, KeepsGoing
    <3>2. CASE work' = Asleep
      <4>1. work' # NoWork /\ work'.live = TRUE
        BY <1>0, <3>2, TasksAre
      <4> QED
        BY <3>1, <4>1 DEF Going, Lives, KeepsGoing
    <3>3. CASE work' = NoWork /\ ~KeepsPolling(failed, count)
      BY <3>1, <3>3 DEF KeepsPolling, Going, Lives, KeepsGoing
    <3> QED
      BY <1>5, <2>2, <3>2, <3>3 DEF Continue, ScheduleSleep, Asleep
  <2> QED
    BY <2>1, <2>2
<1>6. CASE StopPolling /\ work' = NoWork
  BY <1>6 DEF StopPolling, Going, Lives, KeepsGoing
<1>7. CASE /\ ~restartPending /\ running /\ ScheduleSync(cursor)
           /\ UNCHANGED <<running, restartPending>>
  BY <1>0, <1>2, <1>7 DEF ScheduleSync, NewSync
<1>8. CASE SyncExits
  <2>1. ASSUME ~restartPending, running PROVE SyncCounts
    BY <1>0, <1>1, <1>8, <2>1 DEF SyncExits, SyncCounts, LiveIsUncancelled
  <2>2. SyncCounts => running
    BY DEF SyncCounts
  <2> QED
    BY <1>0, <1>3, <1>4, <1>5, <1>6, <1>8, <2>1, <2>2 DEF SyncExits, FlagsOK
<1>9. CASE SleepExits
  BY <1>0, <1>1, <1>3, <1>4, <1>7, <1>9 DEF SleepExits
<1> QED
  BY <1>8, <1>9

(* A running poller with active jobs, a refresh or a restart outstanding    *)
(* has a task, and one that will be heard.                                  *)
THEOREM PollerKeepsGoing == Spec => []KeepsGoing
<1>1. Init => Going
  BY DEF Init, Going, Lives, KeepsGoing
<1>2. IndInv /\ IndInv' /\ Going /\ [Next]_vars => Going'
  <2> SUFFICES ASSUME IndInv, IndInv', Going, [Next]_vars PROVE Going'
    OBVIOUS
  <2>1. cursor' \in 0..MaxTime
    BY DEF IndInv, PollerTypeOK
  <2>2. CASE UNCHANGED poller
    BY <2>2 DEF poller, Going, Lives, KeepsGoing
  <2> QED
    BY <2>1, <2>2, UserGoesOn, FetchGoesOn, ExitGoesOn DEF Next, PollerStep, ServerStep, vars
<1>3. Going => KeepsGoing
  BY DEF Going
<1> QED
  BY <1>1, <1>2, <1>3, Invariance, PTL DEF Spec

=============================================================================
