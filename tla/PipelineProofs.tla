--------------------------- MODULE PipelineProofs ---------------------------
(***************************************************************************)
(* One profile, one chain of outputs, and no failure without a failed call: *)
(* for any number of workers, batches and reductions, any retries and any   *)
(* losses.                                                                  *)
(*                                                                          *)
(* The argument: what is stored is never replaced, and every worker works   *)
(* only with what is stored.  Whoever makes an output has all its inputs,   *)
(* and has them from the store; so each stored output was given what is     *)
(* stored, and a profile written from the store is one chain.               *)
(***************************************************************************)
EXTENDS CreatorPipeline, TLAPS

Outputs == Output \cup {NoOutput}
Ended == {"succeeded", "failed"}

(* Every stored output was given the outputs that are stored. *)
Chain ==
  \A n \in Nodes : stored[n] # NoOutput =>
    /\ \A m \in Inputs[n] : stored[m] # NoOutput
    /\ stored[n].given = {<<m, stored[m].by>> : m \in Inputs[n]}

AgreesAt(w) == \A n \in Nodes : used[w][n] = NoOutput \/ used[w][n] = stored[n]

Has(w, nodes) == \A n \in nodes : used[w][n] # NoOutput

Waves(w, wave) ==
  /\ pending[w] \subseteq wave
  /\ errors[w] = {} => \A n \in wave : used[w][n] # NoOutput \/ n \in pending[w]

AfterSource == {"map", "mapping", "reduce", "reducing", "brief", "writing", "advance", "finalize"}
AfterMap == {"reduce", "reducing", "brief", "writing", "advance", "finalize"}
AfterReduce == {"brief", "writing", "advance", "finalize"}
AfterBrief == {"advance", "finalize"}

(* What a run has when it stands where it does. *)
ReadyAt(w) ==
  /\ step[w] \in AfterSource => Has(w, {"source"})
  /\ step[w] \in AfterMap => Has(w, MapWave)
  /\ step[w] \in AfterReduce => Has(w, Reductions)
  /\ step[w] \in AfterBrief => Has(w, {"brief"})
  /\ step[w] = "mapping" => Waves(w, MapWave)
  /\ step[w] = "reducing" => Waves(w, Reductions)
  /\ step[w] \notin {"mapping", "reducing"} => pending[w] = {}

BlameAt(w) ==
  /\ step[w] \notin {"idle", "done"} => analysis # "queued"
  /\ errors[w] # {} => hit \/ analysis \in Ended

(* A profile is written from the whole store. *)
Published ==
  publication # Nothing => \A n \in Nodes : publication[n] = stored[n] /\ stored[n] # NoOutput

PipelineInv ==
  /\ PipelineTypeOK /\ Chain /\ Published /\ OnlyErrorsFail
  /\ \A w \in Workers : AgreesAt(w) /\ ReadyAt(w) /\ BlameAt(w)

-----------------------------------------------------------------------------
(* The nodes *)

LEMMA InputsOf ==
  /\ Inputs["source"] = {}
  /\ \A n \in MapWave : Inputs[n] = {"source"}
  /\ \A n \in Reductions : Inputs[n] \subseteq MapWave
  /\ Inputs["brief"] = Reductions \cup {"contact"}
  /\ \A n \in Nodes : Inputs[n] \subseteq Nodes
BY NodesApart DEF Inputs, Nodes, MapWave

LEMMA NodesAre ==
  /\ "source" \in Nodes /\ "brief" \in Nodes /\ MapWave \subseteq Nodes /\ Reductions \subseteq Nodes
  /\ "source" \notin MapWave /\ "source" \notin Reductions
  /\ "brief" \notin MapWave /\ "brief" \notin Reductions
  /\ MapWave \cap Reductions = {} /\ "contact" \in MapWave
BY NodesApart DEF Nodes, MapWave

(* No worker's answer is no output. *)
LEMMA AnswerIsOutput ==
  ASSUME PipelineTypeOK, NEW w \in Workers, NEW n \in Nodes, Has(w, Inputs[n])
  PROVE  Answer(w, n) \in Output /\ Answer(w, n) # NoOutput
<1>1. ASSUME NEW m \in Inputs[n] PROVE m \in Nodes /\ used[w][m].by \in Workers
  <2>1. m \in Nodes
    BY InputsOf
  <2>2. used[w][m] \in Output
    BY <2>1, <1>1 DEF PipelineTypeOK, Has
  <2> QED BY <2>1, <2>2 DEF Output
<1>2. Given(w, n) \subseteq Nodes \X Workers
  BY <1>1 DEF Given
<1>3. w # "nobody"
  BY NodesApart
<1> QED BY <1>2, <1>3 DEF Answer, Output, NoOutput

-----------------------------------------------------------------------------
(* What is enough *)

Stay(w) ==
  \A v \in Workers : v # w =>
    /\ step'[v] = step[v] /\ used'[v] = used[v]
    /\ pending'[v] = pending[v] /\ errors'[v] = errors[v]

StoredGrows == \A n \in Nodes : stored[n] # NoOutput => stored'[n] = stored[n]

AnalysisMoves ==
  /\ analysis \in Ended => analysis' \in Ended
  /\ analysis # "queued" => analysis' # "queued"
  /\ hit => hit'

(* A step of one worker that keeps the store, and leaves that worker in     *)
(* order, keeps everything.                                                 *)
LEMMA StepKeeps ==
  ASSUME PipelineInv, NEW w \in Workers, PipelineTypeOK', Chain', StoredGrows, Stay(w),
         AgreesAt(w)', ReadyAt(w)', BlameAt(w)', AnalysisMoves, OnlyErrorsFail', Published'
  PROVE  PipelineInv'
<1>1. ASSUME NEW v \in Workers PROVE (AgreesAt(v) /\ ReadyAt(v) /\ BlameAt(v))'
  <2>1. CASE v = w
    BY <2>1
  <2>2. CASE v # w
    <3>1. AgreesAt(v) /\ ReadyAt(v) /\ BlameAt(v)
      BY DEF PipelineInv
    <3>2. step'[v] = step[v] /\ used'[v] = used[v] /\ pending'[v] = pending[v] /\ errors'[v] = errors[v]
      BY <2>2 DEF Stay
    <3>3. AgreesAt(v)'
      BY <3>1, <3>2 DEF AgreesAt, StoredGrows
    <3>4. ReadyAt(v)'
      BY <3>1, <3>2 DEF ReadyAt, Has, Waves
    <3>5. BlameAt(v)'
      BY <3>1, <3>2 DEF BlameAt, AnalysisMoves
    <3> QED BY <3>3, <3>4, <3>5
  <2> QED BY <2>1, <2>2
<1> QED BY <1>1 DEF PipelineInv

(* The store as it was: what was published and chained still is.            *)
LEMMA StoreStays ==
  ASSUME PipelineInv, stored' = stored
  PROVE  StoredGrows /\ Chain' /\ (publication' = publication => Published')
BY DEF PipelineInv, StoredGrows, Chain, Published

(* A run that ends with an error, for a call that failed or a job that has  *)
(* ended, leaves nothing behind.                                            *)
LEMMA EndKeeps ==
  ASSUME PipelineInv, NEW w \in Workers, NEW kind \in {"transient", "permanent"},
         EndWithError(w, kind), UNCHANGED <<stored, raw, losses, publication>>,
         hit' \in BOOLEAN, hit => hit', hit' \/ analysis \in Ended
  PROVE  PipelineInv'
<1>1. PipelineTypeOK
  BY DEF PipelineInv
<1>2. analysis' \in {"queued", "running", "finalizing", "succeeded", "failed"}
  BY <1>1 DEF PipelineTypeOK, EndWithError, Failed
<1>3. step' \in [Workers -> PipelineSteps] /\ step'[w] \in {"idle", "done"}
  BY <1>1 DEF PipelineTypeOK, EndWithError, Go, PipelineSteps
<1>4. /\ used' = [used EXCEPT ![w] = Nothing] /\ pending' = [pending EXCEPT ![w] = {}]
      /\ errors' = [errors EXCEPT ![w] = {}]
  BY DEF EndWithError
<1>5. Nothing \in [Nodes -> Output \cup {NoOutput}]
  BY DEF Nothing
<1>6. used' \in [Workers -> [Nodes -> Output \cup {NoOutput}]] /\ used'[w] = Nothing
  BY <1>1, <1>4, <1>5 DEF PipelineTypeOK
<1>7. tries' \in [Workers -> Nat]
  BY <1>1 DEF PipelineTypeOK, EndWithError
<1>8. /\ pending' \in [Workers -> SUBSET Nodes] /\ pending'[w] = {}
      /\ errors' \in [Workers -> SUBSET (Nodes \X {"transient", "permanent"})] /\ errors'[w] = {}
  BY <1>1, <1>4 DEF PipelineTypeOK
<1>9. PipelineTypeOK'
  BY <1>1, <1>2, <1>3, <1>6, <1>7, <1>8 DEF PipelineTypeOK
<1>10. Stay(w)
  BY <1>1, <1>4 DEF Stay, EndWithError, Go, PipelineTypeOK
<1>11. AgreesAt(w)'
  BY <1>6 DEF AgreesAt, Nothing
<1>12. ReadyAt(w)'
  BY <1>3, <1>8 DEF ReadyAt, AfterSource, AfterMap, AfterReduce, AfterBrief
<1>13. BlameAt(w)'
  BY <1>3, <1>8 DEF BlameAt
<1>14. AnalysisMoves
  BY DEF AnalysisMoves, EndWithError, Failed, Ended
<1>15. OnlyErrorsFail'
  BY DEF PipelineInv, OnlyErrorsFail, EndWithError, Failed, Ended
<1> QED BY <1>9, <1>10, <1>11, <1>12, <1>13, <1>14, <1>15, StoreStays, StepKeeps

(* The first output of a node is stored with what its worker was given,     *)
(* which is what is stored; a later one is replaced by the first.           *)
LEMMA SaveKeeps ==
  ASSUME PipelineInv, NEW w \in Workers, NEW n \in Nodes, Has(w, Inputs[n]),
         SaveNode(w, n, Answer(w, n))
  PROVE  /\ stored' \in [Nodes -> Output \cup {NoOutput}]
         /\ used' \in [Workers -> [Nodes -> Output \cup {NoOutput}]]
         /\ \A v \in Workers : v # w => used'[v] = used[v]
         /\ \A m \in Nodes : m # n => used'[w][m] = used[w][m]
         /\ used'[w][n] # NoOutput
         /\ StoredGrows /\ Chain' /\ AgreesAt(w)'
         /\ publication' = publication => Published'
<1> DEFINE winner == IF stored[n] = NoOutput THEN Answer(w, n) ELSE stored[n]
<1>1. PipelineTypeOK /\ Chain /\ AgreesAt(w) /\ Published
  BY DEF PipelineInv
<1>2. Answer(w, n) \in Output /\ Answer(w, n) # NoOutput
  BY <1>1, AnswerIsOutput
<1>3. winner \in Output /\ winner # NoOutput
  BY <1>1, <1>2 DEF PipelineTypeOK
<1>4. stored' = [stored EXCEPT ![n] = winner] /\ used' = [used EXCEPT ![w][n] = winner]
  BY DEF SaveNode
<1> HIDE DEF winner
<1>5. stored' \in [Nodes -> Output \cup {NoOutput}]
  BY <1>1, <1>3, <1>4 DEF PipelineTypeOK
<1>6. used' \in [Workers -> [Nodes -> Output \cup {NoOutput}]]
  BY <1>1, <1>3, <1>4 DEF PipelineTypeOK
<1>7. \A v \in Workers : v # w => used'[v] = used[v]
  BY <1>1, <1>4 DEF PipelineTypeOK
<1>8. used'[w][n] = winner /\ \A m \in Nodes : m # n => used'[w][m] = used[w][m]
  BY <1>1, <1>4 DEF PipelineTypeOK
<1>9. stored'[n] = winner /\ \A m \in Nodes : m # n => stored'[m] = stored[m]
  BY <1>1, <1>4 DEF PipelineTypeOK
<1>10. StoredGrows
  BY <1>9 DEF StoredGrows, winner
<1>11. AgreesAt(w)'
  BY <1>1, <1>8, <1>9 DEF AgreesAt
<1>12. ASSUME NEW k \in Nodes, stored'[k] # NoOutput
       PROVE  /\ \A m \in Inputs[k] : stored'[m] # NoOutput
              /\ stored'[k].given = {<<m, stored'[m].by>> : m \in Inputs[k]}
  <2>1. CASE stored[k] # NoOutput
    <3>1. stored'[k] = stored[k] /\ \A m \in Inputs[k] : stored[m] # NoOutput /\ stored'[m] = stored[m]
      BY <1>1, <1>10, <2>1, InputsOf DEF Chain, StoredGrows
    <3>2. stored[k].given = {<<m, stored[m].by>> : m \in Inputs[k]}
      BY <1>1, <2>1 DEF Chain
    <3>3. {<<m, stored[m].by>> : m \in Inputs[k]} = {<<m, stored'[m].by>> : m \in Inputs[k]}
      BY <3>1
    <3> QED BY <3>1, <3>2, <3>3
  <2>2. CASE stored[k] = NoOutput
    <3>1. k = n /\ stored'[k] = Answer(w, n)
      BY <1>9, <1>12, <2>2 DEF winner
    <3>2. ASSUME NEW m \in Inputs[n]
          PROVE  stored[m] # NoOutput /\ stored'[m] = stored[m] /\ used[w][m] = stored[m]
      <4>1. m \in Nodes /\ used[w][m] # NoOutput
        BY InputsOf DEF Has
      <4>2. used[w][m] = stored[m]
        BY <1>1, <4>1 DEF AgreesAt
      <4> QED BY <1>10, <4>1, <4>2 DEF StoredGrows
    <3>3. stored'[k].given = {<<m, used[w][m].by>> : m \in Inputs[n]}
      BY <3>1 DEF Answer, Given
    <3>4. {<<m, used[w][m].by>> : m \in Inputs[n]} = {<<m, stored'[m].by>> : m \in Inputs[n]}
      BY <3>2
    <3> QED BY <3>1, <3>2, <3>3, <3>4
  <2> QED BY <2>1, <2>2
<1>13. Chain'
  BY <1>12 DEF Chain
<1>14. publication' = publication => Published'
  BY <1>1, <1>10 DEF Published, StoredGrows
<1> QED BY <1>3, <1>5, <1>6, <1>7, <1>8, <1>10, <1>11, <1>13, <1>14
-----------------------------------------------------------------------------
(* Every step *)

LEMMA PipelineBegins == PipelineInit => PipelineInv
<1> SUFFICES ASSUME PipelineInit PROVE PipelineInv
  OBVIOUS
<1>1. PipelineTypeOK
  BY DEF PipelineInit, PipelineTypeOK, Nothing, PipelineSteps
<1>2. Chain /\ Published /\ OnlyErrorsFail
  BY DEF PipelineInit, Chain, Published, OnlyErrorsFail, Nothing
<1>3. ASSUME NEW w \in Workers PROVE AgreesAt(w) /\ ReadyAt(w) /\ BlameAt(w)
  <2>1. step[w] = "idle" /\ used[w] = Nothing /\ pending[w] = {} /\ errors[w] = {}
    BY DEF PipelineInit
  <2> QED BY <2>1 DEF AgreesAt, ReadyAt, BlameAt, Nothing, AfterSource, AfterMap, AfterReduce, AfterBrief
<1> QED BY <1>1, <1>2, <1>3 DEF PipelineInv

(* A call that fails blames itself. *)
LEMMA CallFailsKeeps ==
  ASSUME PipelineInv, NEW w \in Workers, CallFails(w)
  PROVE  PipelineInv'
<1>1. PICK kind \in PipelineErrors : EndWithError(w, kind)
  BY DEF CallFails
<1>2. kind \in {"transient", "permanent"}
  BY NodesApart
<1> QED BY <1>1, <1>2, EndKeeps DEF CallFails

(* Who finds the job unreadable finds it ended. *)
LEMMA UnreadableKeeps ==
  ASSUME PipelineInv, NEW w \in Workers, step[w] \notin {"idle", "done"}, ~Running,
         EndWithError(w, "permanent"), UNCHANGED <<stored, raw, losses, hit, publication>>
  PROVE  PipelineInv'
<1>1. analysis \in Ended
  BY DEF PipelineInv, BlameAt, PipelineTypeOK, Running, Ended
<1> QED BY <1>1, EndKeeps DEF PipelineInv, PipelineTypeOK

(* With its inputs at hand a run refuses no checkpoint. *)
LEMMA NothingRefused ==
  ASSUME PipelineInv, NEW w \in Workers, NEW n \in Nodes, Has(w, Inputs[n])
  PROVE  ~MayBeRefused(w, n)
<1>1. ASSUME NEW m \in Inputs[n] PROVE used[w][m] = stored[m]
  BY InputsOf DEF PipelineInv, AgreesAt, Has
<1>2. {<<m, used[w][m].by>> : m \in Inputs[n]} = {<<m, stored[m].by>> : m \in Inputs[n]}
  BY <1>1
<1> QED BY <1>2 DEF MayBeRefused, Given, PipelineInv, Chain

LEMMA StartKeeps ==
  ASSUME PipelineInv, NEW w \in Workers, Start(w) PROVE PipelineInv'
<1>1. PipelineTypeOK /\ ReadyAt(w) /\ AgreesAt(w) /\ BlameAt(w) /\ OnlyErrorsFail
  BY DEF PipelineInv
<1>2. step' \in [Workers -> PipelineSteps] /\ step'[w] \in {"source", "done"} /\ step[w] = "idle"
  BY <1>1 DEF Start, Go, PipelineTypeOK, PipelineSteps
<1>3. PipelineTypeOK'
  BY <1>1, <1>2 DEF Start, PipelineTypeOK
<1>4. Stay(w)
  BY <1>1 DEF Start, Go, Stay, PipelineTypeOK
<1>5. AgreesAt(w)' /\ ReadyAt(w)'
  BY <1>1, <1>2 DEF Start, AgreesAt, ReadyAt, AfterSource, AfterMap, AfterReduce, AfterBrief
<1>6. BlameAt(w)' /\ AnalysisMoves /\ OnlyErrorsFail'
  BY <1>1 DEF Start, BlameAt, AnalysisMoves, OnlyErrorsFail, Ended
<1> QED BY <1>3, <1>4, <1>5, <1>6, StoreStays, StepKeeps DEF Start

LEMMA LoadSourceKeeps ==
  ASSUME PipelineInv, NEW w \in Workers, LoadSource(w) PROVE PipelineInv'
<1>1. PipelineTypeOK /\ ReadyAt(w) /\ AgreesAt(w) /\ BlameAt(w) /\ OnlyErrorsFail
  BY DEF PipelineInv
<1>2. CASE ~Readable
  BY <1>2, UnreadableKeeps DEF LoadSource, Readable
<1>3. CASE Readable
  <2>1. used' = [used EXCEPT ![w]["source"] = stored["source"]] /\ step[w] = "source"
        /\ stored["source"] \in Output \cup {NoOutput}
    BY <1>1, <1>3, NodesAre DEF LoadSource, PipelineTypeOK
  <2>2. step' \in [Workers -> PipelineSteps]
        /\ step'[w] = (IF stored["source"] = NoOutput THEN "fetch" ELSE "map")
    BY <1>1, <1>3 DEF LoadSource, Go, PipelineTypeOK, PipelineSteps
  <2>3. used' \in [Workers -> [Nodes -> Output \cup {NoOutput}]]
        /\ used'[w]["source"] = stored["source"]
        /\ \A n \in Nodes : n # "source" => used'[w][n] = used[w][n]
    BY <1>1, <2>1, NodesAre DEF PipelineTypeOK
  <2>4. PipelineTypeOK'
    BY <1>1, <1>3, <2>2, <2>3 DEF LoadSource, PipelineTypeOK
  <2>5. Stay(w)
    BY <1>1, <1>3 DEF LoadSource, Go, Stay, PipelineTypeOK
  <2>6. AgreesAt(w)'
    BY <1>1, <1>3, <2>3 DEF LoadSource, AgreesAt
  <2>7. ReadyAt(w)'
    BY <1>1, <1>3, <2>1, <2>2, <2>3 DEF LoadSource, ReadyAt, Has, AfterSource, AfterMap, AfterReduce, AfterBrief
  <2>8. BlameAt(w)' /\ AnalysisMoves /\ OnlyErrorsFail'
    BY <1>1, <1>3, <2>1 DEF LoadSource, BlameAt, AnalysisMoves, OnlyErrorsFail
  <2> QED BY <1>3, <2>4, <2>5, <2>6, <2>7, <2>8, StoreStays, StepKeeps DEF LoadSource
<1> QED BY <1>2, <1>3

LEMMA FetchSourceKeeps ==
  ASSUME PipelineInv, NEW w \in Workers, FetchSource(w) PROVE PipelineInv'
<1>1. PipelineTypeOK /\ ReadyAt(w) /\ AgreesAt(w) /\ BlameAt(w) /\ OnlyErrorsFail
  BY DEF PipelineInv
<1>2. CASE CallFails(w)
  BY <1>2, CallFailsKeeps
<1>3. CASE ~CallFails(w)
  <2>1. step' \in [Workers -> PipelineSteps] /\ step'[w] = "raw" /\ step[w] = "fetch"
    BY <1>1, <1>3 DEF FetchSource, Go, PipelineTypeOK, PipelineSteps
  <2>2. PipelineTypeOK'
    BY <1>1, <1>3, <2>1 DEF FetchSource, PipelineTypeOK
  <2>3. Stay(w)
    BY <1>1, <1>3 DEF FetchSource, Go, Stay, PipelineTypeOK
  <2>4. AgreesAt(w)' /\ ReadyAt(w)'
    BY <1>1, <1>3, <2>1 DEF FetchSource, AgreesAt, ReadyAt, AfterSource, AfterMap, AfterReduce, AfterBrief
  <2>5. BlameAt(w)' /\ AnalysisMoves /\ OnlyErrorsFail'
    BY <1>1, <1>3, <2>1 DEF FetchSource, BlameAt, AnalysisMoves, OnlyErrorsFail
  <2> QED BY <1>3, <2>2, <2>3, <2>4, <2>5, StoreStays, StepKeeps DEF FetchSource
<1> QED BY <1>2, <1>3

LEMMA SaveSourceKeeps ==
  ASSUME PipelineInv, NEW w \in Workers, SaveSource(w) PROVE PipelineInv'
<1>1. PipelineTypeOK /\ ReadyAt(w) /\ AgreesAt(w) /\ BlameAt(w) /\ OnlyErrorsFail
  BY DEF PipelineInv
<1>2. CASE ~Running
  BY <1>2, UnreadableKeeps DEF SaveSource
<1>3. CASE Running
  <2>1. SaveNode(w, "source", Answer(w, "source")) /\ step[w] = "raw"
        /\ UNCHANGED <<analysis, pending, errors, tries, raw, losses, hit, publication>>
    BY <1>3 DEF SaveSource
  <2>2. Has(w, Inputs["source"])
    BY InputsOf DEF Has
  <2>3. /\ stored' \in [Nodes -> Output \cup {NoOutput}]
        /\ used' \in [Workers -> [Nodes -> Output \cup {NoOutput}]]
        /\ \A v \in Workers : v # w => used'[v] = used[v]
        /\ used'[w]["source"] # NoOutput
        /\ StoredGrows /\ Chain' /\ AgreesAt(w)' /\ Published'
    BY <2>1, <2>2, NodesAre, SaveKeeps
  <2>4. step' \in [Workers -> PipelineSteps] /\ step'[w] = "map" /\ step[w] = "raw"
    BY <1>1, <1>3 DEF SaveSource, Go, PipelineTypeOK, PipelineSteps
  <2>5. PipelineTypeOK'
    BY <1>1, <2>1, <2>3, <2>4 DEF PipelineTypeOK
  <2>6. Stay(w)
    BY <1>1, <1>3, <2>1, <2>3 DEF SaveSource, Go, Stay, PipelineTypeOK
  <2>7. ReadyAt(w)'
    BY <1>1, <2>1, <2>3, <2>4 DEF ReadyAt, Has, AfterSource, AfterMap, AfterReduce, AfterBrief
  <2>8. BlameAt(w)' /\ AnalysisMoves /\ OnlyErrorsFail'
    BY <1>1, <2>1, <2>4 DEF BlameAt, AnalysisMoves, OnlyErrorsFail
  <2> QED BY <2>3, <2>5, <2>6, <2>7, <2>8, StepKeeps
<1> QED BY <1>2, <1>3

(* A wave begins where its nodes have their inputs. *)
LEMMA BeginWaveKeeps ==
  ASSUME PipelineInv, NEW w \in Workers, NEW wave \in SUBSET Nodes, NEW next \in PipelineSteps,
         BeginWave(w, wave, next), \A n \in wave : Has(w, Inputs[n]),
         \/ step[w] = "map" /\ wave = MapWave /\ next = "mapping"
         \/ step[w] = "reduce" /\ wave = Reductions /\ next = "reducing"
  PROVE  PipelineInv'
<1> DEFINE known == {n \in wave : stored[n] # NoOutput}
           moves == /\ Readable /\ Go(w, next)
                    /\ used' = [used EXCEPT ![w] =
                                   [n \in Nodes |-> IF n \in known THEN stored[n] ELSE @[n]]]
                    /\ pending' = [pending EXCEPT ![w] = wave \ known]
                    /\ UNCHANGED <<analysis, errors, tries>>
<1>1. PipelineTypeOK /\ ReadyAt(w) /\ AgreesAt(w) /\ BlameAt(w) /\ OnlyErrorsFail
  BY DEF PipelineInv
<1>2. UNCHANGED <<stored, raw, losses, hit, publication>>
  BY DEF BeginWave
<1>3. ASSUME NEW n \in wave PROVE ~MayBeRefused(w, n)
  BY NothingRefused
<1>4. CASE ~moves
  <2>1. ~Readable /\ EndWithError(w, "permanent")
    BY <1>3, <1>4 DEF BeginWave
  <2> QED BY <1>2, <2>1, UnreadableKeeps DEF Readable
<1>5. CASE moves
  <2>1. step' \in [Workers -> PipelineSteps] /\ step'[w] = next
    BY <1>1, <1>5 DEF Go, PipelineTypeOK
  <2> DEFINE u == [n \in Nodes |-> IF n \in known THEN stored[n] ELSE used[w][n]]
  <2>2. used' = [used EXCEPT ![w] = u]
    BY <1>5
  <2>3. u \in [Nodes -> Output \cup {NoOutput}]
    BY <1>1 DEF PipelineTypeOK
  <2>4. used' \in [Workers -> [Nodes -> Output \cup {NoOutput}]]
        /\ \A n \in Nodes : used'[w][n] = IF n \in known THEN stored[n] ELSE used[w][n]
    BY <1>1, <2>2, <2>3 DEF PipelineTypeOK
  <2>5. pending' \in [Workers -> SUBSET Nodes] /\ pending'[w] = wave \ known
    BY <1>1, <1>5 DEF PipelineTypeOK
  <2>6. PipelineTypeOK'
    BY <1>1, <1>2, <1>5, <2>1, <2>4, <2>5 DEF PipelineTypeOK
  <2>7. Stay(w)
    BY <1>1, <1>5 DEF Go, Stay, PipelineTypeOK
  <2>8. AgreesAt(w)'
    BY <1>1, <1>2, <2>4 DEF AgreesAt
  <2>9. \A n \in Nodes : used[w][n] # NoOutput => used'[w][n] # NoOutput
    BY <2>4
  <2>10. Waves(w, wave)'
    BY <2>4, <2>5 DEF Waves
  <2>11. ReadyAt(w)'
    <3>1. CASE step[w] = "map" /\ wave = MapWave /\ next = "mapping"
      BY <1>1, <2>1, <2>9, <2>10, <3>1, NodesAre
         DEF ReadyAt, Has, AfterSource, AfterMap, AfterReduce, AfterBrief
    <3>2. CASE step[w] = "reduce" /\ wave = Reductions /\ next = "reducing"
      BY <1>1, <2>1, <2>9, <2>10, <3>2, NodesAre
         DEF ReadyAt, Has, AfterSource, AfterMap, AfterReduce, AfterBrief
    <3> QED BY <3>1, <3>2
  <2>12. BlameAt(w)' /\ AnalysisMoves /\ OnlyErrorsFail'
    BY <1>1, <1>2, <1>5 DEF BlameAt, AnalysisMoves, OnlyErrorsFail
  <2> QED BY <1>2, <2>6, <2>7, <2>8, <2>11, <2>12, StoreStays, StepKeeps
<1> QED BY <1>4, <1>5

LEMMA BeginsKeep ==
  ASSUME PipelineInv, NEW w \in Workers, BeginMap(w) \/ BeginReduce(w) PROVE PipelineInv'
<1>1. ReadyAt(w)
  BY DEF PipelineInv
<1>2. CASE BeginMap(w)
  <2>1. step[w] = "map" /\ BeginWave(w, MapWave, "mapping")
    BY <1>2 DEF BeginMap
  <2>2. \A n \in MapWave : Has(w, Inputs[n])
    BY <1>1, <2>1, InputsOf DEF ReadyAt, AfterSource
  <2> QED BY <2>1, <2>2, NodesAre, BeginWaveKeeps DEF PipelineSteps
<1>3. CASE BeginReduce(w)
  <2>1. step[w] = "reduce" /\ BeginWave(w, Reductions, "reducing")
    BY <1>3 DEF BeginReduce
  <2>2. \A n \in Reductions : Has(w, Inputs[n])
    BY <1>1, <2>1, InputsOf DEF ReadyAt, AfterMap, Has
  <2> QED BY <2>1, <2>2, NodesAre, BeginWaveKeeps DEF PipelineSteps
<1> QED BY <1>2, <1>3

(* The node of a call of a wave has its inputs. *)
LEMMA CallsHaveInputs ==
  ASSUME PipelineInv, NEW w \in Workers, NEW n \in pending[w]
  PROVE  /\ n \in Nodes /\ Has(w, Inputs[n]) /\ step[w] \in {"mapping", "reducing"}
         /\ step[w] = "mapping" => n \in MapWave
         /\ step[w] = "reducing" => n \in Reductions
<1>1. PipelineTypeOK /\ ReadyAt(w)
  BY DEF PipelineInv
<1>2. n \in Nodes /\ step[w] \in {"mapping", "reducing"}
  BY <1>1 DEF PipelineTypeOK, ReadyAt
<1>3. CASE step[w] = "mapping"
  <2>1. n \in MapWave /\ Has(w, {"source"})
    BY <1>1, <1>3 DEF ReadyAt, Waves, AfterSource
  <2> QED BY <1>2, <1>3, <2>1, InputsOf
<1>4. CASE step[w] = "reducing"
  <2>1. n \in Reductions /\ Has(w, MapWave)
    BY <1>1, <1>4 DEF ReadyAt, Waves, AfterMap
  <2> QED BY <1>2, <1>4, <2>1, InputsOf DEF Has
<1> QED BY <1>2, <1>3, <1>4

LEMMA ErrorsGrow ==
  ASSUME PipelineTypeOK, NEW w \in Workers, NEW n \in Nodes, NEW kind \in {"transient", "permanent"},
         errors' = [errors EXCEPT ![w] = @ \cup {<<n, kind>>}]
  PROVE  /\ errors' \in [Workers -> SUBSET (Nodes \X {"transient", "permanent"})]
         /\ errors'[w] # {} /\ \A v \in Workers : v # w => errors'[v] = errors[v]
<1> DEFINE e == errors[w] \cup {<<n, kind>>}
<1>1. errors \in [Workers -> SUBSET (Nodes \X {"transient", "permanent"})]
  BY DEF PipelineTypeOK
<1>2. <<n, kind>> \in e /\ e \in SUBSET (Nodes \X {"transient", "permanent"})
  BY <1>1
<1>3. errors' = [errors EXCEPT ![w] = e]
  OBVIOUS
<1> HIDE DEF e
<1>4. errors'[w] = e
  BY <1>1, <1>3
<1> QED BY <1>1, <1>2, <1>3, <1>4

LEMMA ReturnCallKeeps ==
  ASSUME PipelineInv, NEW w \in Workers, NEW n \in Nodes, ReturnCall(w, n) PROVE PipelineInv'
<1>1. PipelineTypeOK /\ ReadyAt(w) /\ AgreesAt(w) /\ BlameAt(w) /\ OnlyErrorsFail
  BY DEF PipelineInv
<1>2. /\ n \in pending[w] /\ pending' = [pending EXCEPT ![w] = @ \ {n}]
      /\ UNCHANGED <<analysis, raw, step, tries, losses, hit, publication>>
  BY DEF ReturnCall
<1>3. Has(w, Inputs[n]) /\ step[w] \in {"mapping", "reducing"}
  BY <1>2, CallsHaveInputs
<1>4. pending' \in [Workers -> SUBSET Nodes] /\ pending'[w] = pending[w] \ {n}
      /\ \A v \in Workers : v # w => pending'[v] = pending[v]
  BY <1>1, <1>2 DEF PipelineTypeOK
<1>5. CASE Running
  <2>1. SaveNode(w, n, Answer(w, n)) /\ errors' = errors
    BY <1>5 DEF ReturnCall
  <2>2. /\ stored' \in [Nodes -> Output \cup {NoOutput}]
        /\ used' \in [Workers -> [Nodes -> Output \cup {NoOutput}]]
        /\ \A v \in Workers : v # w => used'[v] = used[v]
        /\ \A m \in Nodes : m # n => used'[w][m] = used[w][m]
        /\ used'[w][n] # NoOutput
        /\ StoredGrows /\ Chain' /\ AgreesAt(w)' /\ Published'
    BY <1>2, <1>3, <2>1, SaveKeeps
  <2>3. PipelineTypeOK'
    BY <1>1, <1>2, <1>4, <2>1, <2>2 DEF PipelineTypeOK
  <2>4. Stay(w)
    BY <1>2, <1>4, <2>1, <2>2 DEF Stay
  <2>5. \A m \in Nodes : used[w][m] # NoOutput => used'[w][m] # NoOutput
    BY <2>2
  <2>6. ReadyAt(w)'
    BY <1>1, <1>2, <1>3, <1>4, <2>1, <2>2, <2>5, NodesAre
       DEF ReadyAt, Has, Waves, AfterSource, AfterMap, AfterReduce, AfterBrief
  <2>7. BlameAt(w)' /\ AnalysisMoves /\ OnlyErrorsFail'
    BY <1>1, <1>2, <2>1 DEF BlameAt, AnalysisMoves, OnlyErrorsFail
  <2> QED BY <2>2, <2>3, <2>4, <2>6, <2>7, StepKeeps
<1>6. CASE ~Running
  <2>1. errors' = [errors EXCEPT ![w] = @ \cup {<<n, "permanent">>}] /\ UNCHANGED <<stored, used>>
    BY <1>6 DEF ReturnCall
  <2>2. errors' \in [Workers -> SUBSET (Nodes \X {"transient", "permanent"})] /\ errors'[w] # {}
        /\ \A v \in Workers : v # w => errors'[v] = errors[v]
    BY <1>1, <2>1, ErrorsGrow
  <2>3. PipelineTypeOK'
    BY <1>1, <1>2, <1>4, <2>1, <2>2 DEF PipelineTypeOK
  <2>4. Stay(w)
    BY <1>2, <1>4, <2>1, <2>2 DEF Stay
  <2>5. ReadyAt(w)'
    BY <1>1, <1>2, <1>3, <1>4, <2>1, <2>2, NodesAre
       DEF ReadyAt, Has, Waves, AfterSource, AfterMap, AfterReduce, AfterBrief
  <2>6. analysis \in Ended
    BY <1>1, <1>3, <1>6 DEF BlameAt, PipelineTypeOK, Running, Ended
  <2>7. AgreesAt(w)' /\ BlameAt(w)' /\ AnalysisMoves /\ OnlyErrorsFail'
    BY <1>1, <1>2, <1>3, <2>1, <2>6 DEF AgreesAt, BlameAt, AnalysisMoves, OnlyErrorsFail, Ended
  <2> QED BY <1>2, <2>1, <2>3, <2>4, <2>5, <2>7, StoreStays, StepKeeps
<1> QED BY <1>5, <1>6

LEMMA FailCallKeeps ==
  ASSUME PipelineInv, NEW w \in Workers, NEW n \in Nodes, FailCall(w, n) PROVE PipelineInv'
<1>1. PipelineTypeOK /\ ReadyAt(w) /\ AgreesAt(w) /\ BlameAt(w) /\ OnlyErrorsFail
  BY DEF PipelineInv
<1>2. /\ n \in pending[w] /\ pending' = [pending EXCEPT ![w] = @ \ {n}] /\ hit' = TRUE
      /\ UNCHANGED <<analysis, stored, raw, step, used, tries, losses, publication>>
  BY DEF FailCall
<1>3. step[w] \in {"mapping", "reducing"}
  BY <1>2, CallsHaveInputs
<1>4. pending' \in [Workers -> SUBSET Nodes] /\ pending'[w] = pending[w] \ {n}
      /\ \A v \in Workers : v # w => pending'[v] = pending[v]
  BY <1>1, <1>2 DEF PipelineTypeOK
<1>5. PICK kind \in PipelineErrors : errors' = [errors EXCEPT ![w] = @ \cup {<<n, kind>>}]
  BY DEF FailCall
<1>6. errors' \in [Workers -> SUBSET (Nodes \X {"transient", "permanent"})] /\ errors'[w] # {}
      /\ \A v \in Workers : v # w => errors'[v] = errors[v]
  <2>1. kind \in {"transient", "permanent"}
    BY NodesApart
  <2> QED BY <1>1, <1>5, <2>1, ErrorsGrow
<1>7. PipelineTypeOK'
  BY <1>1, <1>2, <1>4, <1>6 DEF PipelineTypeOK
<1>8. Stay(w)
  BY <1>2, <1>4, <1>6 DEF Stay
<1>9. ReadyAt(w)'
  BY <1>1, <1>2, <1>3, <1>4, <1>6, NodesAre
     DEF ReadyAt, Has, Waves, AfterSource, AfterMap, AfterReduce, AfterBrief
<1>10. AgreesAt(w)' /\ BlameAt(w)' /\ AnalysisMoves /\ OnlyErrorsFail'
  BY <1>1, <1>2, <1>3 DEF AgreesAt, BlameAt, AnalysisMoves, OnlyErrorsFail
<1> QED BY <1>2, <1>7, <1>8, <1>9, <1>10, StoreStays, StepKeeps
LEMMA EndWaveKeeps ==
  ASSUME PipelineInv, NEW w \in Workers, EndWave(w) PROVE PipelineInv'
<1>1. PipelineTypeOK /\ ReadyAt(w) /\ AgreesAt(w) /\ BlameAt(w) /\ OnlyErrorsFail
  BY DEF PipelineInv
<1>2. /\ step[w] \in {"mapping", "reducing"} /\ pending[w] = {}
      /\ UNCHANGED <<stored, raw, losses, hit, publication>>
  BY DEF EndWave
<1>3. CASE errors[w] # {}
  <2>1. PICK e \in errors[w] : EndWithError(w, e[2])
    BY <1>3 DEF EndWave
  <2>2. e[2] \in {"transient", "permanent"}
    BY <1>1 DEF PipelineTypeOK
  <2>3. hit \/ analysis \in Ended
    BY <1>1, <1>3 DEF BlameAt
  <2> QED BY <1>1, <1>2, <2>1, <2>2, <2>3, EndKeeps DEF PipelineTypeOK
<1>4. CASE errors[w] = {}
  <2>1. step' \in [Workers -> PipelineSteps]
        /\ step'[w] = (IF step[w] = "mapping" THEN "reduce" ELSE "brief")
        /\ UNCHANGED <<analysis, used, pending, errors, tries>>
    BY <1>1, <1>4 DEF EndWave, Go, PipelineTypeOK, PipelineSteps
  <2>2. PipelineTypeOK'
    BY <1>1, <1>2, <2>1 DEF PipelineTypeOK
  <2>3. Stay(w)
    BY <1>1, <1>4, <2>1 DEF EndWave, Go, Stay, PipelineTypeOK
  <2>4. ReadyAt(w)'
    BY <1>1, <1>2, <1>4, <2>1
       DEF ReadyAt, Has, Waves, AfterSource, AfterMap, AfterReduce, AfterBrief
  <2>5. AgreesAt(w)' /\ BlameAt(w)' /\ AnalysisMoves /\ OnlyErrorsFail'
    BY <1>1, <1>2, <2>1 DEF AgreesAt, BlameAt, AnalysisMoves, OnlyErrorsFail
  <2> QED BY <1>2, <2>2, <2>3, <2>4, <2>5, StoreStays, StepKeeps
<1> QED BY <1>3, <1>4

(* Where the brief is written or read, its inputs are at hand. *)
LEMMA BriefHasInputs ==
  ASSUME PipelineInv, NEW w \in Workers, step[w] \in AfterReduce
  PROVE  Has(w, Inputs["brief"]) /\ ~MayBeRefused(w, "brief")
<1>1. Has(w, Inputs["brief"])
  BY InputsOf, NodesAre DEF PipelineInv, ReadyAt, Has, AfterReduce, AfterMap
<1> QED BY <1>1, NothingRefused, NodesAre

LEMMA LoadBriefKeeps ==
  ASSUME PipelineInv, NEW w \in Workers, LoadBrief(w) PROVE PipelineInv'
<1>1. PipelineTypeOK /\ ReadyAt(w) /\ AgreesAt(w) /\ BlameAt(w) /\ OnlyErrorsFail
  BY DEF PipelineInv
<1>2. step[w] = "brief" /\ UNCHANGED <<stored, raw, losses, hit, publication>>
  BY DEF LoadBrief
<1>3. ~MayBeRefused(w, "brief")
  BY <1>2, BriefHasInputs DEF AfterReduce
<1>4. CASE ~Readable
  BY <1>2, <1>4, UnreadableKeeps DEF LoadBrief, Readable
<1>5. CASE Readable
  <2>1. used' = [used EXCEPT ![w]["brief"] = stored["brief"]]
        /\ stored["brief"] \in Output \cup {NoOutput}
        /\ UNCHANGED <<analysis, pending, errors, tries>>
    BY <1>1, <1>3, <1>5, NodesAre DEF LoadBrief, PipelineTypeOK
  <2>2. step' \in [Workers -> PipelineSteps]
        /\ step'[w] = (IF stored["brief"] = NoOutput THEN "writing" ELSE "advance")
    BY <1>1, <1>3, <1>5 DEF LoadBrief, Go, PipelineTypeOK, PipelineSteps
  <2>3. used' \in [Workers -> [Nodes -> Output \cup {NoOutput}]]
        /\ used'[w]["brief"] = stored["brief"]
        /\ \A n \in Nodes : n # "brief" => used'[w][n] = used[w][n]
    BY <1>1, <2>1, NodesAre DEF PipelineTypeOK
  <2>4. PipelineTypeOK'
    BY <1>1, <1>2, <2>1, <2>2, <2>3 DEF PipelineTypeOK
  <2>5. Stay(w)
    BY <1>1, <1>3, <1>5, <2>1 DEF LoadBrief, Go, Stay, PipelineTypeOK
  <2>6. AgreesAt(w)'
    BY <1>1, <1>2, <2>3 DEF AgreesAt
  <2>7. ReadyAt(w)'
    BY <1>1, <1>2, <2>1, <2>2, <2>3, NodesAre
       DEF ReadyAt, Has, AfterSource, AfterMap, AfterReduce, AfterBrief
  <2>8. BlameAt(w)' /\ AnalysisMoves /\ OnlyErrorsFail'
    BY <1>1, <1>2, <2>1 DEF BlameAt, AnalysisMoves, OnlyErrorsFail
  <2> QED BY <1>2, <2>4, <2>5, <2>6, <2>7, <2>8, StoreStays, StepKeeps
<1> QED BY <1>4, <1>5

LEMMA WriteBriefKeeps ==
  ASSUME PipelineInv, NEW w \in Workers, WriteBrief(w) PROVE PipelineInv'
<1>1. PipelineTypeOK /\ ReadyAt(w) /\ AgreesAt(w) /\ BlameAt(w) /\ OnlyErrorsFail
  BY DEF PipelineInv
<1>2. step[w] = "writing"
  BY DEF WriteBrief
<1>3. Has(w, Inputs["brief"]) /\ ~MayBeRefused(w, "brief")
  BY <1>2, BriefHasInputs DEF AfterReduce
<1>4. CASE CallFails(w)
  BY <1>4, CallFailsKeeps
<1>5. CASE ~CallFails(w) /\ ~Running
  BY <1>2, <1>5, UnreadableKeeps DEF WriteBrief
<1>6. CASE ~CallFails(w) /\ Running
  <2>1. SaveNode(w, "brief", Answer(w, "brief")) /\ Go(w, "advance")
        /\ UNCHANGED <<analysis, pending, errors, tries, raw, losses, hit, publication>>
    BY <1>3, <1>6 DEF WriteBrief
  <2>2. /\ stored' \in [Nodes -> Output \cup {NoOutput}]
        /\ used' \in [Workers -> [Nodes -> Output \cup {NoOutput}]]
        /\ \A v \in Workers : v # w => used'[v] = used[v]
        /\ \A m \in Nodes : m # "brief" => used'[w][m] = used[w][m]
        /\ used'[w]["brief"] # NoOutput
        /\ StoredGrows /\ Chain' /\ AgreesAt(w)' /\ Published'
    BY <1>3, <2>1, NodesAre, SaveKeeps
  <2>3. step' \in [Workers -> PipelineSteps] /\ step'[w] = "advance"
    BY <1>1, <2>1 DEF Go, PipelineTypeOK, PipelineSteps
  <2>4. PipelineTypeOK'
    BY <1>1, <2>1, <2>2, <2>3 DEF PipelineTypeOK
  <2>5. Stay(w)
    BY <1>1, <2>1, <2>2 DEF Go, Stay, PipelineTypeOK
  <2>6. ReadyAt(w)'
    BY <1>1, <1>2, <2>1, <2>2, <2>3, NodesAre
       DEF ReadyAt, Has, AfterSource, AfterMap, AfterReduce, AfterBrief
  <2>7. BlameAt(w)' /\ AnalysisMoves /\ OnlyErrorsFail'
    BY <1>1, <1>2, <2>1 DEF BlameAt, AnalysisMoves, OnlyErrorsFail
  <2> QED BY <2>2, <2>4, <2>5, <2>6, <2>7, StepKeeps
<1> QED BY <1>4, <1>5, <1>6

LEMMA AdvanceRunKeeps ==
  ASSUME PipelineInv, NEW w \in Workers, AdvanceRun(w) PROVE PipelineInv'
<1>1. PipelineTypeOK /\ ReadyAt(w) /\ AgreesAt(w) /\ BlameAt(w) /\ OnlyErrorsFail
  BY DEF PipelineInv
<1>2. step[w] = "advance" /\ UNCHANGED <<stored, raw, losses, hit, publication>>
  BY DEF AdvanceRun
<1>3. CASE ~Readable
  BY <1>2, <1>3, UnreadableKeeps DEF AdvanceRun, Readable
<1>4. CASE Readable
  <2>1. step' \in [Workers -> PipelineSteps] /\ step'[w] = "finalize"
        /\ UNCHANGED <<used, pending, errors, tries>>
    BY <1>1, <1>4 DEF AdvanceRun, Go, PipelineTypeOK, PipelineSteps
  <2>2. analysis' = (IF Running THEN "finalizing" ELSE analysis)
    BY <1>4 DEF AdvanceRun
  <2>3. PipelineTypeOK'
    BY <1>1, <1>2, <2>1, <2>2 DEF PipelineTypeOK
  <2>4. Stay(w)
    BY <1>1, <1>4, <2>1 DEF AdvanceRun, Go, Stay, PipelineTypeOK
  <2>5. ReadyAt(w)' /\ AgreesAt(w)'
    BY <1>1, <1>2, <2>1 DEF AgreesAt, ReadyAt, Has, AfterSource, AfterMap, AfterReduce, AfterBrief
  <2>6. BlameAt(w)' /\ AnalysisMoves /\ OnlyErrorsFail'
    BY <1>1, <1>2, <2>1, <2>2 DEF BlameAt, AnalysisMoves, OnlyErrorsFail, Running, Ended
  <2> QED BY <1>2, <2>3, <2>4, <2>5, <2>6, StoreStays, StepKeeps
<1> QED BY <1>3, <1>4

(* What is published has every node, and all of it is stored. *)
LEMMA PublishKeeps ==
  ASSUME PipelineInv, NEW w \in Workers, Publish(w) PROVE PipelineInv'
<1>1. PipelineTypeOK /\ ReadyAt(w) /\ AgreesAt(w) /\ BlameAt(w) /\ OnlyErrorsFail /\ Published
  BY DEF PipelineInv
<1>2. step[w] = "finalize" /\ UNCHANGED <<stored, raw, losses, hit>>
  BY DEF Publish
<1>3. CASE ~Readable
  BY <1>2, <1>3, UnreadableKeeps DEF Publish, Readable
<1>4. CASE Readable
  <2>1. step' \in [Workers -> PipelineSteps] /\ step'[w] = "done" /\ analysis' = "succeeded"
        /\ UNCHANGED <<used, pending, errors, tries>>
        /\ publication' = (IF Running THEN used[w] ELSE publication)
    BY <1>1, <1>4 DEF Publish, Go, PipelineTypeOK, PipelineSteps
  <2>2. PipelineTypeOK'
    BY <1>1, <1>2, <2>1 DEF PipelineTypeOK
  <2>3. Stay(w)
    BY <1>1, <1>4, <2>1 DEF Publish, Go, Stay, PipelineTypeOK
  <2>4. ReadyAt(w)' /\ AgreesAt(w)'
    BY <1>1, <1>2, <2>1 DEF AgreesAt, ReadyAt, AfterSource, AfterMap, AfterReduce, AfterBrief
  <2>5. BlameAt(w)' /\ AnalysisMoves /\ OnlyErrorsFail'
    BY <1>1, <1>2, <1>4, <2>1 DEF BlameAt, AnalysisMoves, OnlyErrorsFail, Readable, Running, Ended
  <2>6. \A n \in Nodes : used[w][n] = stored[n] /\ stored[n] # NoOutput
    <3>1. Has(w, {"source"}) /\ Has(w, MapWave) /\ Has(w, Reductions) /\ Has(w, {"brief"})
      BY <1>1, <1>2 DEF ReadyAt, AfterSource, AfterMap, AfterReduce, AfterBrief
    <3>2. \A n \in Nodes : used[w][n] # NoOutput
      BY <3>1 DEF Has, Nodes
    <3> QED BY <1>1, <3>2 DEF AgreesAt
  <2>7. Published'
    BY <1>1, <1>2, <2>1, <2>6 DEF Published
  <2> QED BY <1>2, <2>2, <2>3, <2>4, <2>5, <2>7, StoreStays, StepKeeps
<1> QED BY <1>3, <1>4

LEMMA LoseWorkerKeeps ==
  ASSUME PipelineInv, NEW w \in Workers, LoseWorker(w) PROVE PipelineInv'
<1>1. PipelineTypeOK /\ BlameAt(w) /\ OnlyErrorsFail
  BY DEF PipelineInv
<1>2. Nothing \in [Nodes -> Output \cup {NoOutput}]
  BY DEF Nothing
<1>3. /\ step' \in [Workers -> PipelineSteps] /\ step'[w] = "idle"
      /\ used' \in [Workers -> [Nodes -> Output \cup {NoOutput}]] /\ used'[w] = Nothing
      /\ pending' \in [Workers -> SUBSET Nodes] /\ pending'[w] = {}
      /\ errors' \in [Workers -> SUBSET (Nodes \X {"transient", "permanent"})] /\ errors'[w] = {}
      /\ losses' \in Nat /\ UNCHANGED <<analysis, stored, raw, tries, hit, publication>>
  BY <1>1, <1>2 DEF LoseWorker, Go, PipelineTypeOK, PipelineSteps
<1>4. PipelineTypeOK'
  BY <1>1, <1>3 DEF PipelineTypeOK
<1>5. Stay(w)
  BY <1>1 DEF LoseWorker, Go, Stay, PipelineTypeOK
<1>6. AgreesAt(w)' /\ ReadyAt(w)' /\ BlameAt(w)' /\ AnalysisMoves /\ OnlyErrorsFail'
  BY <1>1, <1>3 DEF AgreesAt, Nothing, ReadyAt, BlameAt, AnalysisMoves, OnlyErrorsFail,
                    AfterSource, AfterMap, AfterReduce, AfterBrief
<1> QED BY <1>3, <1>4, <1>5, <1>6, StoreStays, StepKeeps

(* Shapes, the chain in the store, and what each run has, at every step.    *)
THEOREM PipelineKeepsInv == PipelineSpec => []PipelineInv
<1>1. ASSUME PipelineInv, [PipelineNext]_pipelineVars PROVE PipelineInv'
  <2>1. ASSUME NEW w \in Workers,
               \/ Start(w) \/ LoadSource(w) \/ FetchSource(w) \/ SaveSource(w)
               \/ BeginMap(w) \/ BeginReduce(w) \/ EndWave(w)
        PROVE  PipelineInv'
    BY <1>1, <2>1, StartKeeps, LoadSourceKeeps, FetchSourceKeeps, SaveSourceKeeps, BeginsKeep,
       EndWaveKeeps
  <2>2. ASSUME NEW w \in Workers, NEW n \in Nodes, ReturnCall(w, n) \/ FailCall(w, n)
        PROVE  PipelineInv'
    BY <1>1, <2>2, ReturnCallKeeps, FailCallKeeps
  <2>3. ASSUME NEW w \in Workers,
               \/ LoadBrief(w) \/ WriteBrief(w) \/ AdvanceRun(w) \/ Publish(w) \/ LoseWorker(w)
        PROVE  PipelineInv'
    BY <1>1, <2>3, LoadBriefKeeps, WriteBriefKeeps, AdvanceRunKeeps, PublishKeeps, LoseWorkerKeeps
  <2>4. CASE UNCHANGED pipelineVars
    BY <1>1, <2>4 DEF pipelineVars, PipelineInv, PipelineTypeOK, Chain, Published, OnlyErrorsFail,
                      AgreesAt, ReadyAt, Has, Waves, BlameAt
  <2> QED BY <1>1, <2>1, <2>2, <2>3, <2>4 DEF PipelineNext
<1> QED BY <1>1, PipelineBegins, PTL DEF PipelineSpec

(* The shapes of the job, its nodes and the runs.                           *)
THEOREM PipelineTypesCorrect == PipelineSpec => []PipelineTypeOK
<1>1. PipelineInv => PipelineTypeOK
  BY DEF PipelineInv
<1> QED BY <1>1, PipelineKeepsInv, PTL

(* Whoever asked the models, a profile is written from one chain.           *)
THEOREM OneChain == PipelineSpec => []PublishedIsConsistent
<1>1. PipelineInv => PublishedIsConsistent
  <2> SUFFICES ASSUME PipelineInv, publication # Nothing, NEW n \in Nodes
               PROVE  /\ publication[n] \in Output
                      /\ publication[n].given = {<<m, publication[m].by>> : m \in Inputs[n]}
    BY DEF PublishedIsConsistent
  <2>1. \A m \in Nodes : publication[m] = stored[m] /\ stored[m] # NoOutput
    BY DEF PipelineInv, Published
  <2>2. stored[n].given = {<<m, stored[m].by>> : m \in Inputs[n]}
    BY <2>1 DEF PipelineInv, Chain
  <2>3. {<<m, stored[m].by>> : m \in Inputs[n]} = {<<m, publication[m].by>> : m \in Inputs[n]}
    BY <2>1, InputsOf
  <2> QED BY <2>1, <2>2, <2>3 DEF PipelineInv, PipelineTypeOK
<1> QED BY <1>1, PipelineKeepsInv, PTL

(* A job that failed has had a call that failed, however many copies of its *)
(* message were worked on and lost.                                         *)
THEOREM FailuresHaveCause == PipelineSpec => []OnlyErrorsFail
<1>1. PipelineInv => OnlyErrorsFail
  BY DEF PipelineInv
<1> QED BY <1>1, PipelineKeepsInv, PTL
=============================================================================
