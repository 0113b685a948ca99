--------------------------- MODULE AnalysisTarget ---------------------------
(***************************************************************************)
(* What the Analysis Jobs of one target promise to whoever watches them,    *)
(* without requests, messages or workers: one job at a time is under way,   *)
(* a job only moves forward, it ends once, and the profile is replaced      *)
(* exactly by the jobs that succeed.                                        *)
(***************************************************************************)
EXTENDS Integers

CONSTANTS Jobs, TotalUnits

VARIABLES status, progress, published

vars == <<status, progress, published>>

UnderWay(j) == status[j] \in {"queued", "running"}

Init ==
  /\ status = [j \in Jobs |-> "none"]
  /\ progress = [j \in Jobs |-> 0]
  /\ published = 0

Queue(j) ==
  /\ status[j] = "none" /\ \A other \in Jobs : ~UnderWay(other)
  /\ status' = [status EXCEPT ![j] = "queued"]
  /\ UNCHANGED <<progress, published>>

Run(j) ==
  /\ status[j] = "queued" /\ status' = [status EXCEPT ![j] = "running"]
  /\ UNCHANGED <<progress, published>>

Advance(j) ==
  /\ status[j] = "running"
  /\ \E n \in (progress[j] + 1)..(TotalUnits - 1) :
       progress' = [progress EXCEPT ![j] = n]
  /\ UNCHANGED <<status, published>>

Succeed(j) ==
  /\ status[j] = "running" /\ status' = [status EXCEPT ![j] = "succeeded"]
  /\ progress[j] < TotalUnits /\ progress' = [progress EXCEPT ![j] = TotalUnits]
  /\ published' = published + 1

Fail(j) ==
  /\ UnderWay(j) /\ status' = [status EXCEPT ![j] = "failed"]
  /\ UNCHANGED <<progress, published>>

Next == \E j \in Jobs : Queue(j) \/ Run(j) \/ Advance(j) \/ Succeed(j) \/ Fail(j)

Spec == Init /\ [][Next]_vars
=============================================================================
