--------------------------- MODULE MatchLifecycle ---------------------------
(***************************************************************************)
(* What a Match Task promises to whoever watches it, without messages,      *)
(* transactions or stages: it is begun, it fixes its selection once, pairs  *)
(* are finished one by one and stay finished, and it ends by publishing     *)
(* either the whole selection with one campaign or nothing at all.  A       *)
(* failed task may be resumed or superseded while it offers a retry, and    *)
(* work that was under way when it failed may still finish it.              *)
(***************************************************************************)
EXTENDS Integers

CONSTANT Creators

VARIABLES status,     \* as the API reports it
          offered,    \* the API offers a retry
          chosen,     \* the selection, {} until screening has applied one
          finished,   \* creators with a checkpointed brief
          results,    \* creators with a published result
          campaigns

vars == <<status, offered, chosen, finished, results, campaigns>>

Init ==
  /\ status = "none" /\ offered = FALSE
  /\ chosen = {} /\ finished = {} /\ results = {} /\ campaigns = 0

Create ==
  /\ status = "none" /\ status' = "queued"
  /\ UNCHANGED <<offered, chosen, finished, results, campaigns>>

Begin ==
  /\ status = "queued" /\ status' = "running"
  /\ UNCHANGED <<offered, chosen, finished, results, campaigns>>

Choose(creators) ==
  /\ status = "running" /\ chosen = {} /\ creators # {}
  /\ chosen' = creators
  /\ UNCHANGED <<status, offered, finished, results, campaigns>>

(* A pair finishes.  Of a failed task it may have been the only failure, or *)
(* leave others; of a task being retried it may report those others again.  *)
Finish(c) ==
  /\ status \in {"running", "failed"} /\ c \in chosen
  /\ finished' = finished \cup {c}
  /\ \/ status' = "running" /\ offered' = FALSE
     \/ status' = "failed" /\ offered' \in BOOLEAN
  /\ UNCHANGED <<chosen, results, campaigns>>

Fail ==
  /\ status \in {"queued", "running", "failed"}
  /\ status' = "failed" /\ offered' \in BOOLEAN
  /\ UNCHANGED <<chosen, finished, results, campaigns>>

Publish ==
  /\ \/ status = "running" /\ chosen = {}
     \/ status \in {"running", "failed"} /\ chosen # {} /\ finished = chosen
  /\ status' = "succeeded" /\ offered' = FALSE
  /\ results' = chosen /\ campaigns' = 1
  /\ UNCHANGED <<chosen, finished>>

Resume ==
  /\ status = "failed" /\ offered
  /\ status' = "running" /\ offered' = FALSE
  /\ UNCHANGED <<chosen, finished, results, campaigns>>

Supersede ==
  /\ status = "failed" /\ offered
  /\ status' = "superseded" /\ offered' = FALSE
  /\ UNCHANGED <<chosen, finished, results, campaigns>>

Next ==
  \/ Create \/ Begin \/ Fail \/ Publish \/ Resume \/ Supersede
  \/ \E creators \in SUBSET Creators : Choose(creators)
  \/ \E c \in Creators : Finish(c)

Spec == Init /\ [][Next]_vars
=============================================================================
