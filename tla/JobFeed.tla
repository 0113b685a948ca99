------------------------------ MODULE JobFeed ------------------------------
(***************************************************************************)
(* The change feed of analysis jobs and Match tasks.  Every transaction     *)
(* that inserts or updates one takes the job-change advisory lock, stamps   *)
(* the row with the next change timestamp, and keeps the lock until it      *)
(* ends.  GET /jobs takes the lock too and returns, page by page, the rows  *)
(* stamped after the client's cursor.                                       *)
(*                                                                          *)
(* Of a job only its timestamp and whether it is active are kept; a         *)
(* timestamp is unique, so that a cursor is one.                            *)
(***************************************************************************)
EXTENDS Integers, FiniteSets

CONSTANTS
  Jobs,        \* analysis jobs and Match tasks
  MaxTime,     \* bound: timestamps are 1..MaxTime
  PageSize     \* the limit of a page

ASSUME FeedBounds == MaxTime \in Nat /\ PageSize \in Nat \ {0} /\ IsFiniteSet(Jobs)

VARIABLES
  row,         \* the committed rows
  watermark,   \* analysis_job_change_watermark
  txn          \* rows and watermark of the transaction that holds the lock

feed == <<row, watermark, txn>>

Row == [at : 0..MaxTime, active : BOOLEAN]
NoRow == [at |-> 0, active |-> FALSE]
Free == [open |-> FALSE, row |-> [j \in Jobs |-> NoRow], watermark |-> 0]

FeedTypeOK ==
  /\ row \in [Jobs -> Row] /\ watermark \in 0..MaxTime
  /\ txn \in [open : BOOLEAN, row : [Jobs -> Row], watermark : 0..MaxTime]

FeedInit ==
  /\ row = [j \in Jobs |-> NoRow] /\ watermark = 0 /\ txn = Free

(* Mutant: a change is stamped by the clock alone. *)
StampsByClock(mark) == 1..MaxTime

(* The clock, or just after the last stamp where the clock lags behind.     *)
Stamps(mark) == {t \in 1..MaxTime : t > mark}

(* What the transaction under way sees, or a new one would.                 *)
View == IF txn.open THEN txn ELSE [open |-> TRUE, row |-> row, watermark |-> watermark]

(* A transaction changes a job: it is created, moves on, ends or is retried. *)
Change(j) ==
  /\ \E t \in Stamps(View.watermark), active \in BOOLEAN :
       txn' = [View EXCEPT !.row[j] = [at |-> t, active |-> active], !.watermark = t]
  /\ UNCHANGED <<row, watermark>>

Commit == txn.open /\ row' = txn.row /\ watermark' = txn.watermark /\ txn' = Free
Rollback == txn.open /\ txn' = Free /\ UNCHANGED <<row, watermark>>

Writes == \E j \in Jobs : Change(j)
Ends == Commit \/ Rollback

(* The rows after a cursor.                                                 *)
After(cursor) == {j \in Jobs : row[j].at > cursor}
(* The first PageSize of them.                                              *)
Page(cursor) ==
  {p \in SUBSET After(cursor) :
     /\ Cardinality(p) <= PageSize
     /\ p # After(cursor) => Cardinality(p) = PageSize
     /\ \A j \in p, k \in After(cursor) \ p : row[j].at < row[k].at}

Latest(p) == {t \in {row[j].at : j \in p} : \A j \in p : row[j].at <= t}

(* What the API encodes and signs, and decodes again; it refuses any other  *)
(* (analysis_job_cursor_invalid).  0 is no cursor.                          *)
Cursor == 0..MaxTime

(* list_changed_jobs: the page, the next cursor and whether there is more.  *)
(* A client without a cursor that finds no job gets the present as one.     *)
List(cursor, p, next) ==
  /\ cursor \in Cursor /\ ~txn.open /\ p \in Page(cursor) /\ UNCHANGED <<row, txn>>
  /\ \/ p # {} /\ next \in Latest(p) /\ UNCHANGED watermark
     \/ p = {} /\ cursor # 0 /\ next = cursor /\ UNCHANGED watermark
     \/ p = {} /\ cursor = 0 /\ next \in Stamps(watermark) /\ watermark' = next

HasMore(cursor, p) == After(cursor) # p
=============================================================================
