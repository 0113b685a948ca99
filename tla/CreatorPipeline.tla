--------------------------- MODULE CreatorPipeline ---------------------------
(***************************************************************************)
(* The map-reduce analysis of a YouTube channel for one Analysis Job, run   *)
(* by every worker that holds a copy of the job's message: the sender's, a  *)
(* redelivered one, the retry of either.  A run fetches the source, maps    *)
(* it (video batches, thumbnails and contacts, in parallel), reduces the    *)
(* digests (four calls in parallel), writes the brief and publishes.  Each  *)
(* of these calls is a node; the first success of a node is stored for the  *)
(* job, and every run goes on from what is stored.                          *)
(*                                                                          *)
(* What a node puts out is abstracted to who asked for it and whose outputs *)
(* it was given: two calls never answer alike, so a digest of one fetch of  *)
(* the channel is not a digest of another.  The two attempts of a call are  *)
(* one; the loads that begin a wave are one step, which is no restriction:  *)
(* a node another worker stores meanwhile is found when the own is saved.   *)
(***************************************************************************)
EXTENDS Integers, FiniteSets

CONSTANTS
  Workers,        \* workers that hold a copy of the message
  Batches,        \* the nodes of the video batches
  Reductions,     \* the nodes of the reductions
  MaxTries,       \* retries of a copy after a transient error
  MaxLosses,      \* workers lost
  PipelineErrors  \* how a call may fail: "transient", "permanent"

VARIABLES
  analysis,     \* the analysis_jobs row: its status, and "finalizing" when
                \* a running job has reached that stage
  stored,       \* the creator_analysis_nodes rows
  raw,          \* whose raw source the artifact store holds
  step,         \* where each worker's run stands
  used,         \* the node outputs each run works with
  pending,      \* the calls of its wave which have not returned
  errors,       \* the errors of its wave
  tries,        \* retries of its message
  losses,       \* workers lost so far
  hit,          \* a call has failed
  publication   \* the node outputs the profile was written from

pipelineVars == <<analysis, stored, raw, step, used, pending, errors, tries,
                  losses, hit, publication>>

MapWave == Batches \cup {"visual", "contact"}
Nodes == {"source", "brief"} \cup MapWave \cup Reductions

ASSUME NodesApart ==
  /\ Reductions \subseteq {"content_format", "presentation", "performance_audience",
                           "commercial_safety"}
  /\ "presentation" \notin Batches
  /\ Batches \cap ({"source", "brief", "visual", "contact"} \cup Reductions) = {}
  /\ PipelineErrors \subseteq {"transient", "permanent"}
  /\ "nobody" \notin Workers

(* The nodes whose outputs the prompt of a node is built from. *)
Inputs == [n \in Nodes |-> {m \in Nodes :
  \/ n \in MapWave /\ m = "source"
  \/ n \in Reductions /\ m \in Batches
  \/ n = "presentation" /\ m = "visual"
  \/ n = "brief" /\ m \in Reductions \cup {"contact"}}]

(* An output: the worker that asked for it and those whose outputs it was   *)
(* given.                                                                   *)
Output == [by : Workers, given : SUBSET (Nodes \X Workers)]
NoOutput == [by |-> "nobody", given |-> {}]
Nothing == [n \in Nodes |-> NoOutput]

Given(w, n) == {<<m, used[w][m].by>> : m \in Inputs[n]}
Answer(w, n) == [by |-> w, given |-> Given(w, n)]

PipelineSteps == {"idle", "source", "fetch", "raw", "map", "mapping", "reduce",
                  "reducing", "brief", "writing", "advance", "finalize", "done"}

PipelineTypeOK ==
  /\ analysis \in {"queued", "running", "finalizing", "succeeded", "failed"}
  /\ stored \in [Nodes -> Output \cup {NoOutput}]
  /\ raw \in Workers \cup {"nobody"}
  /\ step \in [Workers -> PipelineSteps]
  /\ used \in [Workers -> [Nodes -> Output \cup {NoOutput}]]
  /\ pending \in [Workers -> SUBSET Nodes]
  /\ errors \in [Workers -> SUBSET (Nodes \X {"transient", "permanent"})]
  /\ tries \in [Workers -> Nat] /\ losses \in Nat /\ hit \in BOOLEAN
  /\ publication \in [Nodes -> Output \cup {NoOutput}]

PipelineInit ==
  /\ analysis = "queued" /\ stored = Nothing /\ raw = "nobody"
  /\ step = [w \in Workers |-> "idle"]
  /\ used = [w \in Workers |-> Nothing]
  /\ pending = [w \in Workers |-> {}] /\ errors = [w \in Workers |-> {}]
  /\ tries = [w \in Workers |-> 0] /\ losses = 0 /\ hit = FALSE
  /\ publication = Nothing

Running == analysis \in {"running", "finalizing"}
Readable == Running \/ analysis = "succeeded"

Go(w, s) == step' = [step EXCEPT ![w] = s]

-----------------------------------------------------------------------------
(* Errors *)

(* Mutant: the failure of a run is written whatever has become of the job. *)
FailEvenSucceeded == "failed"

(* _write_terminal_failure: a finished job stays as it is. *)
Failed == IF analysis \in {"succeeded", "failed"} THEN analysis ELSE "failed"

(* The task gives up its run: Celery retries a transient error while        *)
(* retries are left; any other fails the job.                               *)
EndWithError(w, kind) ==
  /\ IF kind = "transient" /\ tries[w] < MaxTries
       THEN /\ Go(w, "idle") /\ tries' = [tries EXCEPT ![w] = @ + 1]
            /\ UNCHANGED analysis
       ELSE Go(w, "done") /\ analysis' = Failed /\ UNCHANGED tries
  /\ used' = [used EXCEPT ![w] = Nothing]
  /\ pending' = [pending EXCEPT ![w] = {}]
  /\ errors' = [errors EXCEPT ![w] = {}]

(* A call outside the waves fails. *)
CallFails(w) ==
  /\ \E kind \in PipelineErrors : EndWithError(w, kind)
  /\ hit' = TRUE /\ UNCHANGED <<stored, raw, losses, publication>>

(* A worker dies; its message is delivered again. *)
LoseWorker(w) ==
  /\ losses < MaxLosses /\ losses' = losses + 1
  /\ step[w] \notin {"idle", "done"} /\ Go(w, "idle")
  /\ used' = [used EXCEPT ![w] = Nothing]
  /\ pending' = [pending EXCEPT ![w] = {}]
  /\ errors' = [errors EXCEPT ![w] = {}]
  /\ UNCHANGED <<analysis, stored, raw, tries, hit, publication>>

-----------------------------------------------------------------------------
(* Checkpoints *)

(* Mutant: a worker goes on with its own output when another was first. *)
KeepOwn(w, n, output) ==
  /\ stored' = IF stored[n] = NoOutput THEN [stored EXCEPT ![n] = output]
               ELSE stored
  /\ used' = [used EXCEPT ![w][n] = output]

(* save_success of a running job: the stored output wins, and is returned.  *)
SaveNode(w, n, output) ==
  LET winner == IF stored[n] = NoOutput THEN output ELSE stored[n]
  IN /\ stored' = [stored EXCEPT ![n] = winner]
     /\ used' = [used EXCEPT ![w][n] = winner]

(* A checkpoint is validated against the evidence of the prompt the run     *)
(* would have sent: one made from the same outputs is valid, another may be *)
(* refused.                                                                 *)
MayBeRefused(w, n) == stored[n] # NoOutput /\ stored[n].given # Given(w, n)

-----------------------------------------------------------------------------
(* The run *)

(* _claim and service.start. *)
Start(w) ==
  /\ step[w] = "idle"
  /\ Go(w, IF analysis \in {"succeeded", "failed"} THEN "done" ELSE "source")
  /\ analysis' = IF analysis = "queued" THEN "running" ELSE analysis
  /\ UNCHANGED <<stored, raw, used, pending, errors, tries, losses, hit, publication>>

LoadSource(w) ==
  /\ step[w] = "source"
  /\ IF ~Readable
       THEN EndWithError(w, "permanent")
       ELSE /\ used' = [used EXCEPT ![w]["source"] = stored["source"]]
            /\ Go(w, IF stored["source"] = NoOutput THEN "fetch" ELSE "map")
            /\ UNCHANGED <<analysis, pending, errors, tries>>
  /\ UNCHANGED <<stored, raw, losses, hit, publication>>

FetchSource(w) ==
  /\ step[w] = "fetch"
  /\ \/ CallFails(w)
     \/ /\ raw' = w /\ Go(w, "raw")
        /\ UNCHANGED <<analysis, stored, used, pending, errors, tries, losses,
                       hit, publication>>

SaveSource(w) ==
  /\ step[w] = "raw"
  /\ IF Running
       THEN /\ SaveNode(w, "source", Answer(w, "source")) /\ Go(w, "map")
            /\ UNCHANGED <<analysis, pending, errors, tries>>
       ELSE EndWithError(w, "permanent") /\ UNCHANGED stored
  /\ UNCHANGED <<raw, losses, hit, publication>>

(* The nodes that are stored are used, the others called.  The stored       *)
(* thumbnails and contacts are used as they are.                            *)
BeginWave(w, wave, next) ==
  LET known == {n \in wave : stored[n] # NoOutput}
      checked == known \ {"visual", "contact"}
  IN /\ \/ /\ Readable /\ Go(w, next)
           /\ used' = [used EXCEPT ![w] =
                          [n \in Nodes |-> IF n \in known THEN stored[n] ELSE @[n]]]
           /\ pending' = [pending EXCEPT ![w] = wave \ known]
           /\ UNCHANGED <<analysis, errors, tries>>
        \/ /\ ~Readable \/ \E n \in checked : MayBeRefused(w, n)
           /\ EndWithError(w, "permanent")
     /\ UNCHANGED <<stored, raw, losses, hit, publication>>

BeginMap(w) == step[w] = "map" /\ BeginWave(w, MapWave, "mapping")
BeginReduce(w) == step[w] = "reduce" /\ BeginWave(w, Reductions, "reducing")

(* A call of the wave returns and is stored at once; the job may have       *)
(* ended meanwhile.                                                         *)
ReturnCall(w, n) ==
  /\ n \in pending[w] /\ pending' = [pending EXCEPT ![w] = @ \ {n}]
  /\ IF Running
       THEN SaveNode(w, n, Answer(w, n)) /\ UNCHANGED errors
       ELSE /\ errors' = [errors EXCEPT ![w] = @ \cup {<<n, "permanent">>}]
            /\ UNCHANGED <<stored, used>>
  /\ UNCHANGED <<analysis, raw, step, tries, losses, hit, publication>>

(* The thumbnails never fail: they are found to be unavailable. *)
FailCall(w, n) ==
  /\ n \in pending[w] \ {"visual"}
  /\ pending' = [pending EXCEPT ![w] = @ \ {n}]
  /\ \E kind \in PipelineErrors : errors' = [errors EXCEPT ![w] = @ \cup {<<n, kind>>}]
  /\ hit' = TRUE
  /\ UNCHANGED <<analysis, stored, raw, step, used, tries, losses, publication>>

(* The order of the node keys within a wave (the model does not tell the    *)
(* batches apart).                                                          *)
KeyOrder(n) ==
  CASE n = "contact" -> 1 [] n = "commercial_safety" -> 2
    [] n = "content_format" -> 3 [] n = "performance_audience" -> 4
    [] n = "presentation" -> 5 [] n = "visual" -> 6 [] OTHER -> 0

(* All calls of the wave have returned: the first error, by key, is raised. *)
EndWave(w) ==
  /\ step[w] \in {"mapping", "reducing"} /\ pending[w] = {}
  /\ IF errors[w] = {}
       THEN /\ Go(w, IF step[w] = "mapping" THEN "reduce" ELSE "brief")
            /\ UNCHANGED <<analysis, used, pending, errors, tries>>
       ELSE \E e \in errors[w] : /\ \A f \in errors[w] : KeyOrder(e[1]) <= KeyOrder(f[1])
                                 /\ EndWithError(w, e[2])
  /\ UNCHANGED <<stored, raw, losses, hit, publication>>

LoadBrief(w) ==
  /\ step[w] = "brief"
  /\ \/ /\ Readable /\ used' = [used EXCEPT ![w]["brief"] = stored["brief"]]
        /\ Go(w, IF stored["brief"] = NoOutput THEN "writing" ELSE "advance")
        /\ UNCHANGED <<analysis, pending, errors, tries>>
     \/ /\ ~Readable \/ MayBeRefused(w, "brief")
        /\ EndWithError(w, "permanent")
  /\ UNCHANGED <<stored, raw, losses, hit, publication>>

(* The brief that is stored, the own one or another's, is validated.        *)
WriteBrief(w) ==
  /\ step[w] = "writing"
  /\ \/ CallFails(w)
     \/ /\ Running /\ SaveNode(w, "brief", Answer(w, "brief")) /\ Go(w, "advance")
        /\ UNCHANGED <<analysis, raw, pending, errors, tries, losses, hit, publication>>
     \/ /\ ~Running \/ MayBeRefused(w, "brief")
        /\ EndWithError(w, "permanent")
        /\ UNCHANGED <<stored, raw, losses, hit, publication>>

(* service.advance to the stage before publication. *)
AdvanceRun(w) ==
  /\ step[w] = "advance"
  /\ IF Readable
       THEN /\ analysis' = IF Running THEN "finalizing" ELSE analysis
            /\ Go(w, "finalize") /\ UNCHANGED <<used, pending, errors, tries>>
       ELSE EndWithError(w, "permanent")
  /\ UNCHANGED <<stored, raw, losses, hit, publication>>

(* service.finalize: the profile is written once. *)
Publish(w) ==
  /\ step[w] = "finalize"
  /\ IF Readable
       THEN /\ Go(w, "done") /\ analysis' = "succeeded"
            /\ publication' = IF Running THEN used[w] ELSE publication
            /\ UNCHANGED <<used, pending, errors, tries>>
       ELSE EndWithError(w, "permanent") /\ UNCHANGED publication
  /\ UNCHANGED <<stored, raw, losses, hit>>

PipelineNext ==
  \E w \in Workers :
    \/ Start(w) \/ LoadSource(w) \/ FetchSource(w) \/ SaveSource(w)
    \/ BeginMap(w) \/ BeginReduce(w) \/ EndWave(w)
    \/ \E n \in Nodes : ReturnCall(w, n) \/ FailCall(w, n)
    \/ LoadBrief(w) \/ WriteBrief(w) \/ AdvanceRun(w) \/ Publish(w)
    \/ LoseWorker(w)

PipelineSpec == PipelineInit /\ [][PipelineNext]_pipelineVars

-----------------------------------------------------------------------------
(* A profile is written from one chain of outputs: every node was given     *)
(* exactly the outputs that were published with it, though several workers  *)
(* asked the models for each of them.                                       *)
PublishedIsConsistent ==
  publication # Nothing =>
    \A n \in Nodes : /\ publication[n] \in Output
                     /\ publication[n].given = {<<m, publication[m].by>> : m \in Inputs[n]}

(* Copies of a message and lost workers alone never fail a job: it takes a  *)
(* call that failed.                                                        *)
OnlyErrorsFail == analysis = "failed" => hit

=============================================================================
