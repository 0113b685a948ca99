--------------------------- MODULE OutreachProofs ---------------------------
(***************************************************************************)
(* What TLAPS proves of Outreach, for any finite set of creators, any       *)
(* requests, copies, retries and faults: one current delivery and one       *)
(* sender each, acceptances told once, answers final, nothing stranded,     *)
(* reports that are true, and that every step is one of CreatorMail.        *)
(*                                                                          *)
(* The argument: a delivery is replaced only after it has ended, so that    *)
(* whoever is still open is the last of its creator; only a claim makes a   *)
(* sender and only its outcome or a loss ends one, so that what is told of  *)
(* a delivery is told while nobody else sends it.                           *)
(***************************************************************************)
EXTENDS Outreach, FiniteSetTheorems, TLAPS

(* The deliveries of a creator are written one after another, and are       *)
(* replaced only after they have ended.                                     *)
RowsSound ==
  /\ \A d \in Deliveries : ~Exists(d) => delivery[d] = NoRow
  /\ \A d \in Deliveries : Exists(d) => delivery[d].batch \in Keys
  /\ \A d, e \in Deliveries : e[1] = d[1] /\ e[2] < d[2] /\ Exists(d) => Exists(e)
  /\ \A d \in Deliveries : Open(d) => Current(d)

(* A creator with an answer has it from a delivery that is current and has  *)
(* been sent.                                                               *)
AnswersSound ==
  /\ \A c \in Creators : response[c].state # "none" <=> response[c].by # 0
  /\ \A d \in Deliveries : response[d[1]].by = d[2] => Current(d) /\ delivery[d].state = "sent"
  /\ \A d \in Deliveries : delivery[d].response # "none" =>
       response[d[1]] = [state |-> delivery[d].response, by |-> d[2]]

Written(c) == {d \in History(c) : Exists(d)}

(* The current delivery bears the number of those written.                  *)
Numbered == \A d \in Deliveries : Current(d) => Cardinality(Written(d[1])) = d[2]

RowsInv == StoreTypeOK /\ RowsSound /\ OneCurrentDelivery /\ AnswersSound /\ Numbered

(* Whoever has claimed a delivery is alone with it until the outcome.       *)
SendersSound ==
  /\ \A i \in work : Exists(i.delivery)
  /\ \A i \in work : i.phase \in Owning => Sending(i.delivery)
  /\ \A i, j \in work :
       i.phase \in Owning /\ j.phase \in Owning /\ i.delivery = j.delivery => i = j
  /\ \A i \in work : i.phase = "accepted" => told[i.delivery] = 1
  /\ \A k \in Keys : \A d \in handler[k].left : Exists(d)

(* What a key stands for is what its client asks for.                       *)
KeysSound ==
  /\ \A k \in Keys : record[k] = None => Of(k) = {}
  /\ \A k \in Keys : handler[k].phase = "unused" => record[k] = None
  /\ \A k \in Keys : handler[k].phase = "send" => record[k] # None
  /\ \A k \in Keys : record[k] # None /\ handler[k].phase \in {"asked", "send", "failed"} =>
       record[k] = handler[k].request
  /\ \A k \in Keys : handler[k].phase \in {"asked", "send", "failed"} =>
       /\ handler[k].request # None
       /\ handler[k].request.kind = "create" => handler[k].request.creators # {}

(* What CampaignIsTrue says of batches; the rest follows from Care.         *)
BatchesTrue ==
  \A k \in Keys : batch[k] # "none" =>
    Of(k) # {} /\ batch[k] = Summary({delivery[d].state : d \in Of(k)})

-----------------------------------------------------------------------------
(* Deliveries and their histories *)

(* A delivery is its creator and its number. *)
LEMMA DeliveryIs ==
  ASSUME NEW d \in Deliveries
  PROVE  /\ d[1] \in Creators /\ d[2] \in 1..MaxSends /\ d = <<d[1], d[2]>>
         /\ d \in History(d[1])
BY DEF Deliveries, History

LEMMA HistoryIs ==
  ASSUME NEW c, NEW d
  PROVE  d \in History(c) <=> d \in Deliveries /\ d[1] = c
BY DEF History

(* What is open of a creator is the last, and there is one current at most. *)
LEMMA CurrentIsOne ==
  ASSUME RowsInv, NEW d \in Deliveries, NEW e \in Deliveries, d[1] = e[1], Current(d), Current(e)
  PROVE  d = e
<1>1. Exists(d) /\ Exists(e)
  BY DEF Current
<1>2. e[2] <= d[2] /\ d[2] <= e[2]
  BY <1>1, DeliveryIs DEF RowsInv, OneCurrentDelivery, History
<1>3. d[2] = e[2]
  BY <1>2, SendsAreCounted, DeliveryIs
<1> QED
  BY <1>3, DeliveryIs

(* A creator who has answered has nothing open. *)
LEMMA AnsweredIsClosed ==
  ASSUME RowsInv, NEW d \in Deliveries, response[d[1]].state # "none"
  PROVE  ~Open(d)
<1> DEFINE e == <<d[1], response[d[1]].by>>
<1>1. d[1] \in Creators
  BY DeliveryIs
<1>2. response[d[1]].by \in 0..MaxSends /\ response[d[1]].by # 0
  BY <1>1 DEF RowsInv, StoreTypeOK, AnswersSound
<1>3. e \in Deliveries /\ e[1] = d[1] /\ e[2] = response[d[1]].by
  BY <1>1, <1>2, SendsAreCounted DEF Deliveries
<1> HIDE DEF e
<1>4. Current(e) /\ delivery[e].state = "sent"
  BY <1>3 DEF RowsInv, AnswersSound
<1>5. ASSUME Open(d) PROVE FALSE
  <2>1. Current(d)
    BY <1>5 DEF RowsInv, RowsSound
  <2>2. d = e
    BY <2>1, <1>4, <1>3, CurrentIsOne
  <2> QED
    BY <2>2, <1>4, <1>5 DEF Open
<1> QED
  BY <1>5

(* Whoever is being sent is open and current. *)
LEMMA SendingIsOpen ==
  ASSUME NEW d \in Deliveries, Sending(d)
  PROVE  Open(d) /\ Current(d) /\ Exists(d)
BY DEF Sending, Open, Current

LEMMA OpenIsFinite ==
  ASSUME NEW c \in Creators
  PROVE  IsFiniteSet(Written(c))
<1>1. IsFiniteSet(1..MaxSends)
  BY SendsAreCounted, FS_Interval
<1>2. IsFiniteSet({c} \X (1..MaxSends))
  BY <1>1, FS_Singleton, FS_Product
<1>3. Written(c) \subseteq {c} \X (1..MaxSends)
  BY DEF Written, History, Deliveries
<1> QED
  BY <1>2, <1>3, FS_Subset

-----------------------------------------------------------------------------
(* The transactions keep the rows in order *)

(* A transaction on an open delivery changes nothing that numbers and       *)
(* answers depend on.                                                       *)
LEMMA OutcomeKeepsRows ==
  ASSUME RowsInv, NEW d \in Deliveries, Open(d), NEW state \in SendState, NEW retryable \in BOOLEAN,
         delivery' = [delivery EXCEPT ![d] =
                        [delivery[d] EXCEPT !.state = state, !.retryable = retryable]],
         batch' \in [Keys -> BatchState \cup {"none"}], UNCHANGED <<response, record>>
  PROVE  RowsInv'
<1> DEFINE row == [delivery[d] EXCEPT !.state = state, !.retryable = retryable]
<1>0. /\ delivery \in [Deliveries -> Delivery] /\ state # "none" /\ delivery[d] \in Delivery
      /\ Exists(d) /\ Current(d)
  BY DEF RowsInv, StoreTypeOK, SendState, RowsSound, Current
<1>1. row \in Delivery
  BY <1>0 DEF Delivery
<1>2. /\ row.state = state /\ row.superseded = delivery[d].superseded
      /\ row.response = delivery[d].response /\ row.batch = delivery[d].batch
  BY <1>0 DEF Delivery
<1> HIDE DEF row
<1>3. delivery' = [delivery EXCEPT ![d] = row]
  BY DEF row
<1>4. ASSUME NEW e \in Deliveries
      PROVE  /\ Exists(e)' <=> Exists(e)
             /\ Current(e)' <=> Current(e)
             /\ delivery'[e].batch = delivery[e].batch
             /\ delivery'[e].response = delivery[e].response
             /\ e # d => delivery'[e] = delivery[e]
  BY <1>0, <1>2, <1>3 DEF Exists, Current
<1>5. StoreTypeOK'
  BY <1>1, <1>3, <1>0 DEF RowsInv, StoreTypeOK
<1>6. RowsSound'
  <2>1. \A e \in Deliveries : ~Exists(e)' => delivery'[e] = NoRow
    BY <1>4, <1>0 DEF RowsInv, RowsSound
  <2>2. \A e \in Deliveries : Open(e)' => Current(e)'
    BY <1>4, <1>0 DEF RowsInv, RowsSound, Open
  <2>3. \A e \in Deliveries : Exists(e)' => delivery'[e].batch \in Keys
    BY <1>4 DEF RowsInv, RowsSound
  <2>4. \A e, f \in Deliveries : f[1] = e[1] /\ f[2] < e[2] /\ Exists(e)' => Exists(f)'
    BY <1>4 DEF RowsInv, RowsSound
  <2> QED
    BY <2>1, <2>2, <2>3, <2>4 DEF RowsSound
<1>7. OneCurrentDelivery'
  BY <1>4, HistoryIs DEF RowsInv, OneCurrentDelivery
<1>8. AnswersSound'
  <2>1. ~(response[d[1]].by = d[2])
    BY DEF RowsInv, AnswersSound, Open
  <2> QED
    BY <1>4, <2>1 DEF RowsInv, AnswersSound
<1>9. Numbered'
  <2>1. ASSUME NEW c PROVE Written(c)' = Written(c)
    BY <1>4, HistoryIs DEF Written
  <2> QED
    BY <2>1, <1>4 DEF RowsInv, Numbered
<1> QED
  BY <1>5, <1>6, <1>7, <1>8, <1>9 DEF RowsInv

(* A free name is not taken, and follows all those of its creator that are. *)
LEMMA FreeNameIsNext ==
  ASSUME RowsInv, NEW c \in Creators, NEW e \in FreeName(c)
  PROVE  /\ e \in Deliveries /\ e[1] = c /\ ~Exists(e)
         /\ \A d \in Deliveries : d[1] = c => (Exists(d) <=> d[2] < e[2])
         /\ Cardinality(Written(c)) + 1 = e[2]
<1>1. e \in Deliveries /\ e[1] = c /\ ~Exists(e) /\ \A d \in History(c) : d[2] < e[2] => Exists(d)
  BY DEF FreeName, History
<1>2. ASSUME NEW d \in Deliveries, d[1] = c
      PROVE  Exists(d) <=> d[2] < e[2]
  <2>1. d[2] < e[2] => Exists(d)
    BY <1>1, <1>2 DEF History
  <2>2. ASSUME Exists(d) PROVE d[2] < e[2]
    <3>1. ~(e[2] < d[2])
      BY <1>1, <1>2, <2>2 DEF RowsInv, RowsSound
    <3>2. d[2] # e[2]
      BY <1>1, <1>2, <2>2, DeliveryIs
    <3> QED
      BY <3>1, <3>2, <1>1, DeliveryIs, SendsAreCounted
  <2> QED
    BY <2>1, <2>2
<1>3. Cardinality(Written(c)) + 1 = e[2]
  <2>0. e[2] \in 1..MaxSends
    BY <1>1, DeliveryIs
  <2>1. CASE e[2] = 1
    <3>1. ASSUME NEW d \in Written(c) PROVE FALSE
      <4>1. d \in Deliveries /\ d[1] = c /\ Exists(d)
        BY <3>1 DEF Written, History
      <4> QED
        BY <4>1, <1>2, <2>1, DeliveryIs, SendsAreCounted
    <3>2. Written(c) = {}
      BY <3>1
    <3> QED
      BY <3>2, <2>1, FS_EmptySet
  <2>2. CASE e[2] # 1
    <3> DEFINE d == <<c, e[2] - 1>>
    <3>1. d \in Deliveries /\ d[1] = c /\ d[2] = e[2] - 1
      BY <2>0, <2>2, SendsAreCounted DEF Deliveries
    <3> HIDE DEF d
    <3>2. Exists(d)
      BY <3>1, <2>0, <1>2, SendsAreCounted
    <3>3. ASSUME NEW f \in History(c), Exists(f) PROVE f[2] <= d[2]
      <4>1. f \in Deliveries /\ f[1] = c
        BY DEF History
      <4> QED
        BY <4>1, <3>3, <3>1, <1>2, DeliveryIs, SendsAreCounted, <2>0
    <3>4. Current(d)
      BY <3>1, <3>2, <3>3 DEF RowsInv, OneCurrentDelivery
    <3>5. Cardinality(Written(c)) = d[2]
      BY <3>1, <3>4 DEF RowsInv, Numbered
    <3> QED
      BY <3>5, <3>1, <2>0, SendsAreCounted
  <2> QED
    BY <2>1, <2>2
<1> QED
  BY <1>1, <1>2, <1>3

(* What a creation and a resend do to the deliveries: new ones, one for a   *)
(* creator, in the place of the current one.                                *)
Replaces(k, new) ==
  delivery' = [d \in Deliveries |->
                 IF d \in new THEN Queued(k)
                 ELSE IF Current(d) /\ \E e \in new : e[1] = d[1]
                 THEN [delivery[d] EXCEPT !.superseded = TRUE]
                 ELSE delivery[d]]

(* Deliveries that may be written now: nothing of their creators is open,   *)
(* and none of them has answered.                                           *)
Writable(new) ==
  /\ new \in SUBSET Deliveries
  /\ \A e \in new : e \in FreeName(e[1]) /\ response[e[1]].state = "none"
  /\ \A e \in new, d \in Deliveries : d[1] = e[1] => ~Open(d)

LEMMA QueuedIs ==
  ASSUME NEW k \in Keys
  PROVE  /\ Queued(k) \in Delivery /\ Queued(k).state = "queued"
         /\ Queued(k).superseded = FALSE /\ Queued(k).response = "none" /\ Queued(k).batch = k
BY DEF Queued, NoRow, Delivery, SendState

LEMMA ReplacesIs ==
  ASSUME RowsInv, NEW k \in Keys, NEW new, Writable(new), Replaces(k, new)
  PROVE  /\ \A e, f \in new : e[1] = f[1] => e = f
         /\ \A e \in new : delivery'[e] = Queued(k) /\ ~Exists(e) /\ e \in FreeName(e[1])
         /\ \A d \in Deliveries \ new :
              /\ delivery'[d].state = delivery[d].state
              /\ delivery'[d].response = delivery[d].response
              /\ delivery'[d].batch = delivery[d].batch
              /\ Exists(d)' <=> Exists(d)
              /\ Current(d)' <=> Current(d) /\ \A e \in new : e[1] # d[1]
              /\ ~Current(d) \/ (\A e \in new : e[1] # d[1]) => delivery'[d] = delivery[d]
         /\ delivery' \in [Deliveries -> Delivery]
<1>0. delivery \in [Deliveries -> Delivery]
  BY DEF RowsInv, StoreTypeOK
<1>1. Queued(k) \in Delivery
  BY QueuedIs
<1>2. ASSUME NEW d \in Deliveries
      PROVE  [delivery[d] EXCEPT !.superseded = TRUE] \in Delivery
  BY <1>0 DEF Delivery
<1>3. delivery' \in [Deliveries -> Delivery]
  BY <1>0, <1>1, <1>2 DEF Replaces
<1>4. ASSUME NEW e \in new
      PROVE  e \in Deliveries /\ e[1] \in Creators /\ e[2] \in 1..MaxSends /\ ~Exists(e)
               /\ e \in FreeName(e[1]) /\ delivery'[e] = Queued(k)
               /\ \A d \in Deliveries : d[1] = e[1] => (Exists(d) <=> d[2] < e[2])
  <2>1. e \in Deliveries /\ e \in FreeName(e[1])
    BY DEF Writable
  <2>2. e[1] \in Creators /\ e[2] \in 1..MaxSends
    BY <2>1, DeliveryIs
  <2> QED
    BY <2>1, <2>2, FreeNameIsNext DEF Replaces
<1>5. \A e, f \in new : e[1] = f[1] => e = f
  <2>1. ASSUME NEW e \in new, NEW f \in new, e[1] = f[1]
        PROVE  e = f
    <3>1. ~(e[2] < f[2]) /\ ~(f[2] < e[2])
      BY <1>4, <2>1
    <3>2. e[2] = f[2]
      BY <3>1, <1>4, SendsAreCounted
    <3>3. e = <<e[1], e[2]>> /\ f = <<f[1], f[2]>>
      BY <1>4, DeliveryIs
    <3> QED
      BY <3>2, <3>3, <2>1
  <2> QED
    BY <2>1
<1>6. ASSUME NEW d \in Deliveries \ new
      PROVE  /\ delivery'[d].state = delivery[d].state
             /\ delivery'[d].response = delivery[d].response
             /\ delivery'[d].batch = delivery[d].batch
             /\ Exists(d)' <=> Exists(d)
             /\ Current(d)' <=> Current(d) /\ \A e \in new : e[1] # d[1]
             /\ ~Current(d) \/ (\A e \in new : e[1] # d[1]) => delivery'[d] = delivery[d]
  <2>0. delivery[d] \in Delivery
    BY <1>0
  <2>1. CASE Current(d) /\ \E e \in new : e[1] = d[1]
    <3>1. delivery'[d] = [delivery[d] EXCEPT !.superseded = TRUE]
      BY <2>1 DEF Replaces
    <3>2. /\ delivery'[d].state = delivery[d].state /\ delivery'[d].superseded = TRUE
          /\ delivery'[d].response = delivery[d].response
          /\ delivery'[d].batch = delivery[d].batch
      BY <3>1, <2>0 DEF Delivery
    <3> QED
      BY <3>2, <2>1 DEF Exists, Current
  <2>2. CASE ~(Current(d) /\ \E e \in new : e[1] = d[1])
    <3>1. delivery'[d] = delivery[d]
      BY <2>2 DEF Replaces
    <3> QED
      BY <3>1, <2>2 DEF Exists, Current
  <2> QED
    BY <2>1, <2>2
<1> QED
  BY <1>3, <1>4, <1>5, <1>6

LEMMA WritingKeepsRows ==
  ASSUME RowsInv, NEW k \in Keys, NEW new, Writable(new), Replaces(k, new),
         batch' \in [Keys -> BatchState \cup {"none"}], UNCHANGED response,
         record' \in [Keys -> Request \cup {None}]
  PROVE  RowsInv'
<1>1. /\ \A e, f \in new : e[1] = f[1] => e = f
      /\ \A e \in new : delivery'[e] = Queued(k) /\ ~Exists(e) /\ e \in FreeName(e[1])
      /\ \A d \in Deliveries \ new :
           /\ delivery'[d].state = delivery[d].state
           /\ delivery'[d].response = delivery[d].response
           /\ delivery'[d].batch = delivery[d].batch
           /\ Exists(d)' <=> Exists(d)
           /\ Current(d)' <=> Current(d) /\ \A e \in new : e[1] # d[1]
           /\ ~Current(d) \/ (\A e \in new : e[1] # d[1]) => delivery'[d] = delivery[d]
      /\ delivery' \in [Deliveries -> Delivery]
  BY ReplacesIs
<1>2. ASSUME NEW e \in new
      PROVE  /\ e \in Deliveries /\ e[1] \in Creators /\ e[2] \in 1..MaxSends
             /\ Exists(e)' /\ Current(e)' /\ delivery'[e].batch = k
             /\ delivery'[e].response = "none"
             /\ \A d \in Deliveries : d[1] = e[1] => (Exists(d) <=> d[2] < e[2])
             /\ Cardinality(Written(e[1])) + 1 = e[2]
  <2>1. e \in Deliveries
    BY DEF Writable
  <2>2. e[1] \in Creators /\ e[2] \in 1..MaxSends
    BY <2>1, DeliveryIs
  <2>3. Exists(e)' /\ Current(e)' /\ delivery'[e].batch = k /\ delivery'[e].response = "none"
    <3>1. delivery'[e] = Queued(k)
      BY <1>1
    <3> QED
      BY <3>1, QueuedIs DEF Exists, Current
  <2> QED
    BY <2>1, <2>2, <2>3, <1>1, FreeNameIsNext
<1>3. StoreTypeOK'
  BY <1>1 DEF RowsInv, StoreTypeOK
<1>4. RowsSound'
  <2>1. \A d \in Deliveries : ~Exists(d)' => delivery'[d] = NoRow
    BY <1>1, <1>2 DEF RowsInv, RowsSound, Current
  <2>2. \A d \in Deliveries : Exists(d)' => delivery'[d].batch \in Keys
    BY <1>1, <1>2 DEF RowsInv, RowsSound
  <2>3. ASSUME NEW d \in Deliveries, NEW f \in Deliveries, f[1] = d[1], f[2] < d[2], Exists(d)'
        PROVE  Exists(f)'
    <3>1. CASE d \in new
      BY <3>1, <2>3, <1>1, <1>2
    <3>2. CASE d \notin new
      BY <3>2, <2>3, <1>1, <1>2 DEF RowsInv, RowsSound
    <3> QED
      BY <3>1, <3>2
  <2>4. ASSUME NEW d \in Deliveries, Open(d)'
        PROVE  Current(d)'
    <3>1. CASE d \in new
      BY <3>1, <1>2
    <3>2. CASE d \notin new
      <4>1. Open(d)
        BY <3>2, <2>4, <1>1 DEF Open
      <4> QED
        BY <4>1, <3>2, <1>1 DEF RowsInv, RowsSound, Writable
    <3> QED
      BY <3>1, <3>2
  <2> QED
    BY <2>1, <2>2, <2>3, <2>4 DEF RowsSound
<1>5. OneCurrentDelivery'
  <2>1. ASSUME NEW d \in Deliveries, Exists(d)'
        PROVE  Current(d)' <=> \A f \in History(d[1]) : Exists(f)' => f[2] <= d[2]
    <3>1. CASE d \in new
      <4>1. ASSUME NEW f \in History(d[1]), Exists(f)' PROVE f[2] <= d[2]
        <5>1. f \in Deliveries /\ f[1] = d[1]
          BY HistoryIs
        <5>2. CASE f \in new
          <6>1. f = d
            BY <5>1, <5>2, <3>1, <1>1
          <6> QED
            BY <6>1, DeliveryIs, SendsAreCounted
        <5>3. CASE f \notin new
          BY <5>1, <5>3, <3>1, <4>1, <1>1, <1>2, DeliveryIs, SendsAreCounted
        <5> QED
          BY <5>2, <5>3
      <4> QED
        BY <4>1, <3>1, <1>2
    <3>2. CASE d \notin new /\ \E e \in new : e[1] = d[1]
      <4>1. PICK e \in new : e[1] = d[1]
        BY <3>2
      <4>2. Exists(d)
        BY <3>2, <2>1, <1>1
      <4>3. d[2] < e[2] /\ e \in History(d[1]) /\ Exists(e)'
        BY <4>1, <4>2, <1>2, HistoryIs
      <4>4. ~(e[2] <= d[2])
        BY <4>3, <1>2, DeliveryIs, SendsAreCounted
      <4>5. ~Current(d)'
        BY <3>2, <1>1
      <4> QED
        BY <4>3, <4>4, <4>5
    <3>3. CASE d \notin new /\ \A e \in new : e[1] # d[1]
      <4>1. \A f \in History(d[1]) : f \in Deliveries \ new
        BY <3>3, HistoryIs
      <4>2. \A f \in History(d[1]) : Exists(f)' <=> Exists(f)
        BY <4>1, <1>1
      <4>3. Exists(d) /\ (Current(d)' <=> Current(d))
        BY <3>3, <2>1, <1>1
      <4> QED
        BY <4>2, <4>3 DEF RowsInv, OneCurrentDelivery
    <3> QED
      BY <3>1, <3>2, <3>3
  <2>2. \A c : History(c)' = History(c)
    BY DEF History
  <2> QED
    BY <2>1, <2>2 DEF OneCurrentDelivery
<1>6. AnswersSound'
  <2>1. \A c \in Creators : (response[c].state # "none" <=> response[c].by # 0)'
    BY DEF RowsInv, AnswersSound
  <2>2. ASSUME NEW d \in Deliveries, response[d[1]].by = d[2]
        PROVE  Current(d)' /\ delivery'[d].state = "sent"
    <3>1. d[1] \in Creators /\ d[2] # 0
      BY DeliveryIs, SendsAreCounted
    <3>2. response[d[1]].state # "none" /\ Current(d) /\ delivery[d].state = "sent"
      BY <2>2, <3>1 DEF RowsInv, AnswersSound
    <3>3. \A e \in new : e[1] # d[1]
      BY <3>2 DEF Writable
    <3> QED
      BY <3>2, <3>3, <1>1
  <2>3. ASSUME NEW d \in Deliveries, delivery'[d].response # "none"
        PROVE  response[d[1]] = [state |-> delivery'[d].response, by |-> d[2]]
    <3>1. d \notin new
      BY <2>3, <1>2
    <3>2. delivery'[d].response = delivery[d].response
      BY <3>1, <1>1
    <3> QED
      BY <3>2, <2>3 DEF RowsInv, AnswersSound
  <2> QED
    BY <2>1, <2>2, <2>3 DEF AnswersSound
<1>7. Numbered'
  <2>1. ASSUME NEW d \in Deliveries, Current(d)'
        PROVE  Cardinality(Written(d[1]))' = d[2]
    <3>1. CASE d \in new
      <4>1. Written(d[1])' = Written(d[1]) \cup {d}
        <5>1. ASSUME NEW f \in Deliveries, f[1] = d[1]
              PROVE  Exists(f)' <=> Exists(f) \/ f = d
          BY <5>1, <3>1, <1>1, <1>2
        <5> QED
          BY <5>1, HistoryIs DEF Written
      <4>2. d \notin Written(d[1]) /\ d[1] \in Creators
        BY <3>1, <1>1, DeliveryIs DEF Written
      <4>3. Cardinality(Written(d[1]) \cup {d}) = Cardinality(Written(d[1])) + 1
        BY <4>2, OpenIsFinite, FS_AddElement
      <4> QED
        BY <4>1, <4>3, <3>1, <1>2
    <3>2. CASE d \notin new
      <4>1. Current(d) /\ \A e \in new : e[1] # d[1]
        BY <3>2, <2>1, <1>1
      <4>2. Written(d[1])' = Written(d[1])
        BY <4>1, <1>1, HistoryIs DEF Written
      <4> QED
        BY <4>1, <4>2 DEF RowsInv, Numbered
    <3> QED
      BY <3>1, <3>2
  <2> QED
    BY <2>1 DEF Numbered
<1> QED
  BY <1>3, <1>4, <1>5, <1>6, <1>7 DEF RowsInv

(* The kinds of transaction *)

(* A batch or a resend writes new deliveries under a new key. *)
Writes(k, r, new) ==
  /\ Writable(new) /\ Replaces(k, new)
  /\ r \in Request
  /\ r.kind = "create" => \A c \in r.creators : \E e \in new : e[1] = c
  /\ r.kind = "resend" => new # {}
  /\ batch' = [batch EXCEPT ![k] = "queued"] /\ record' = [record EXCEPT ![k] = r]
  /\ UNCHANGED response

LEMMA PerformWrites ==
  ASSUME RowsInv, NEW k \in Keys, NEW r \in Request, Perform(k, r)
  PROVE  \E new : Writes(k, r, new)
<1>1. ASSUME r.kind = "create", CreateSendBatch(k, r.creators)
      PROVE  \E new : Writes(k, r, new)
  <2> DEFINE cs == r.creators
             new == {d \in Deliveries : d[1] \in cs /\ d \in FreeName(d[1])}
  <2>0. cs \in SUBSET Creators /\ r = [kind |-> "create", creators |-> cs]
    BY <1>1 DEF Request
  <2>1. \A d \in Deliveries : d[1] \in cs => ~Exists(d) /\ response[d[1]].state = "none"
    BY <1>1 DEF CreateSendBatch, RecordRequest, Creatable, Prior, Confirmed
  <2>2. Writable(new)
    <3>1. \A d \in Deliveries : d[1] \in cs => ~Open(d)
      BY <2>1 DEF Open, Exists
    <3> QED
      BY <2>1, <3>1 DEF Writable
  <2>3. Replaces(k, new)
    <3>1. ASSUME NEW d \in Deliveries
          PROVE  ~(Current(d) /\ \E e \in new : e[1] = d[1])
      BY <2>1 DEF Current
    <3>2. delivery' = [d \in Deliveries |-> IF d \in new THEN Queued(k) ELSE delivery[d]]
      BY <1>1 DEF CreateSendBatch, RecordRequest
    <3> QED
      BY <3>1, <3>2 DEF Replaces
  <2>4. ASSUME NEW c \in cs PROVE \E e \in new : e[1] = c
    <3>1. PICK e \in FreeName(c) : TRUE
      BY <1>1 DEF CreateSendBatch, RecordRequest
    <3>2. e \in Deliveries /\ e[1] = c
      BY DEF FreeName, History
    <3> QED
      BY <3>1, <3>2
  <2>5. /\ batch' = [batch EXCEPT ![k] = "queued"] /\ UNCHANGED response
        /\ record' = [record EXCEPT ![k] = r]
    BY <1>1, <2>0 DEF CreateSendBatch, RecordRequest
  <2> HIDE DEF new
  <2> QED
    BY <1>1, <2>2, <2>3, <2>4, <2>5 DEF Writes
<1>2. ASSUME r.kind = "resend", ResendDelivery(k, r.delivery)
      PROVE  \E new : Writes(k, r, new)
  <2> DEFINE d == r.delivery
  <2>0. d \in Deliveries /\ r = [kind |-> "resend", delivery |-> d]
    BY <1>2 DEF Request
  <2>1. PICK e \in FreeName(d[1]) :
          delivery' = [delivery EXCEPT ![d].superseded = TRUE, ![e] = Queued(k)]
    BY <1>2 DEF ResendDelivery, RecordRequest
  <2>2. /\ Current(d) /\ delivery[d].state \in {"sent", "failed"}
        /\ response[d[1]].state = "none" /\ d[1] \in Creators
        /\ batch' = [batch EXCEPT ![k] = "queued"] /\ UNCHANGED response
        /\ record' = [record EXCEPT ![k] = r]
    BY <1>2, <2>0, DeliveryIs DEF ResendDelivery, RecordRequest, Resendable
  <2> HIDE DEF d
  <2>3. e \in Deliveries /\ e[1] = d[1] /\ ~Exists(e) /\ e # d
    BY <2>0, <2>2, FreeNameIsNext DEF Current
  <2>4. ASSUME NEW f \in Deliveries, f[1] = d[1], Current(f) PROVE f = d
    BY <2>0, <2>2, <2>4, CurrentIsOne
  <2>5. Writable({e})
    <3>1. ASSUME NEW f \in Deliveries, f[1] = d[1], Open(f) PROVE FALSE
      <4>1. f = d
        BY <3>1, <2>4 DEF RowsInv, RowsSound
      <4> QED
        BY <4>1, <3>1, <2>2 DEF Open
    <3> QED
      BY <2>1, <2>2, <2>3, <3>1 DEF Writable
  <2>6. Replaces(k, {e})
    <3>1. delivery = [f \in Deliveries |-> delivery[f]]
      BY DEF RowsInv, StoreTypeOK
    <3>2. \A f \in Deliveries : (Current(f) /\ \E g \in {e} : g[1] = f[1]) <=> f = d
      BY <2>0, <2>2, <2>3, <2>4
    <3>3. delivery' = [f \in Deliveries |->
                         IF f = e THEN Queued(k)
                         ELSE IF f = d THEN [delivery[f] EXCEPT !.superseded = TRUE]
                         ELSE delivery[f]]
      BY <2>0, <2>1, <2>3, <3>1
    <3> QED
      BY <3>2, <3>3 DEF Replaces
  <2> QED
    BY <1>2, <2>2, <2>5, <2>6 DEF Writes
<1> QED
  BY <1>1, <1>2 DEF Perform

LEMMA WritesKeepsRows ==
  ASSUME RowsInv, NEW k \in Keys, NEW r, NEW new, Writes(k, r, new)
  PROVE  RowsInv'
<1>1. batch' \in [Keys -> BatchState \cup {"none"}]
  BY DEF Writes, RowsInv, StoreTypeOK, BatchState
<1>2. record' \in [Keys -> Request \cup {None}]
  BY DEF Writes, RowsInv, StoreTypeOK
<1> QED
  BY <1>1, <1>2, WritingKeepsRows DEF Writes

(* An outcome changes the state of one open delivery, and its batch. *)
Ends(d, state) ==
  /\ Open(d)
  /\ \E retryable \in BOOLEAN :
       delivery' = [delivery EXCEPT ![d] =
                      [delivery[d] EXCEPT !.state = state, !.retryable = retryable]]
  /\ Recompute(delivery[d].batch) /\ UNCHANGED <<response, record>>

LEMMA SummaryIsState ==
  ASSUME NEW states
  PROVE  Summary(states) \in BatchState
BY DEF Summary, BatchState

LEMMA RecomputeType ==
  ASSUME RowsInv, NEW k, Recompute(k)
  PROVE  batch' \in [Keys -> BatchState \cup {"none"}]
<1>1. batch \in [Keys -> BatchState \cup {"none"}]
  BY DEF RowsInv, StoreTypeOK
<1> QED
  BY <1>1, SummaryIsState DEF Recompute

LEMMA EndsKeepsRows ==
  ASSUME RowsInv, NEW d \in Deliveries, NEW state \in SendState, Ends(d, state)
  PROVE  RowsInv'
<1>1. batch' \in [Keys -> BatchState \cup {"none"}]
  BY RecomputeType DEF Ends
<1> QED
  BY <1>1, OutcomeKeepsRows DEF Ends

LEMMA TransitionsEnd ==
  ASSUME RowsInv, NEW d \in Deliveries
  PROVE  /\ Claim(d) => Ends(d, "sending")
         /\ Sending(d) /\ ReleaseForRetry(d) => Ends(d, "queued")
         /\ Sending(d) /\ MarkSent(d) => Ends(d, "sent")
         /\ \A retryable \in BOOLEAN : Sending(d) /\ MarkFailed(d, retryable) => Ends(d, "failed")
<1>0. delivery[d] \in Delivery
  BY DEF RowsInv, StoreTypeOK
<1>1. ASSUME Claim(d) PROVE Ends(d, "sending")
  <2>1. [delivery[d] EXCEPT !.state = "sending"]
          = [delivery[d] EXCEPT !.state = "sending", !.retryable = delivery[d].retryable]
    BY <1>0 DEF Delivery
  <2>2. delivery[d].retryable \in BOOLEAN
    BY <1>0 DEF Delivery
  <2>3. Open(d)
    BY <1>1 DEF Claim, Claimable, Open
  <2>4. /\ delivery' = [delivery EXCEPT ![d] = [delivery[d] EXCEPT !.state = "sending"]]
        /\ Recompute(delivery[d].batch) /\ UNCHANGED <<response, record>>
    BY <1>1 DEF Claim, Transition
  <2> QED
    BY <2>1, <2>2, <2>3, <2>4 DEF Ends
<1>2. ASSUME Sending(d) PROVE Open(d)
  BY <1>2, SendingIsOpen
<1>3. Sending(d) /\ ReleaseForRetry(d) => Ends(d, "queued")
  BY <1>2 DEF ReleaseForRetry, IfSending, Transition, Ends
<1>4. Sending(d) /\ MarkSent(d) => Ends(d, "sent")
  BY <1>2 DEF MarkSent, IfSending, Transition, Ends
<1>5. ASSUME NEW retryable \in BOOLEAN, Sending(d), MarkFailed(d, retryable)
      PROVE  Ends(d, "failed")
  BY <1>2, <1>5 DEF MarkFailed, IfSending, Transition, Ends
<1> QED
  BY <1>1, <1>3, <1>4, <1>5

LEMMA ConfirmKeepsRows ==
  ASSUME RowsInv, NEW d \in Deliveries, NEW choice \in Choice, ConfirmResponse(d, choice)
  PROVE  RowsInv'
<1>0. /\ delivery \in [Deliveries -> Delivery] /\ delivery[d] \in Delivery
      /\ response \in [Creators -> [state : Choice \cup {"none"}, by : 0..MaxSends]]
  BY DEF RowsInv, StoreTypeOK
<1>1. /\ d[1] \in Creators /\ d[2] \in 1..MaxSends /\ choice # "none"
      /\ response[d[1]].state = "none" /\ Current(d) /\ delivery[d].state = "sent"
      /\ response' = [response EXCEPT ![d[1]] = [state |-> choice, by |-> d[2]]]
      /\ delivery' = [delivery EXCEPT ![d].response = choice]
      /\ UNCHANGED <<batch, record>>
  BY DeliveryIs DEF ConfirmResponse, Eligible, Choice
<1>2. ASSUME NEW e \in Deliveries
      PROVE  /\ delivery'[e].state = delivery[e].state
             /\ delivery'[e].superseded = delivery[e].superseded
             /\ delivery'[e].batch = delivery[e].batch
             /\ e # d => delivery'[e] = delivery[e]
             /\ Exists(e)' <=> Exists(e)
             /\ Current(e)' <=> Current(e)
             /\ Open(e)' <=> Open(e)
  BY <1>0, <1>1 DEF Exists, Current, Open, Delivery
<1>3. StoreTypeOK'
  <2>1. [delivery[d] EXCEPT !.response = choice] \in Delivery
    BY <1>0 DEF Delivery
  <2>2. delivery' \in [Deliveries -> Delivery]
    BY <1>0, <1>1, <2>1
  <2>3. response' \in [Creators -> [state : Choice \cup {"none"}, by : 0..MaxSends]]
    BY <1>0, <1>1, SendsAreCounted
  <2> QED
    BY <2>2, <2>3, <1>1 DEF RowsInv, StoreTypeOK
<1>4. RowsSound'
  <2>1. Exists(d)
    BY <1>1 DEF Current
  <2> QED
    BY <1>2, <2>1 DEF RowsInv, RowsSound
<1>5. OneCurrentDelivery'
  BY <1>2, HistoryIs DEF RowsInv, OneCurrentDelivery
<1>6. AnswersSound'
  <2>1. \A c \in Creators : (response[c].state # "none" <=> response[c].by # 0)'
    BY <1>0, <1>1, SendsAreCounted DEF RowsInv, AnswersSound
  <2>2. ASSUME NEW e \in Deliveries, response'[e[1]].by = e[2]
        PROVE  Current(e)' /\ delivery'[e].state = "sent"
    <3>1. CASE e[1] = d[1]
      <4>1. e = d
        BY <3>1, <2>2, <1>0, <1>1, DeliveryIs
      <4> QED
        BY <4>1, <1>1, <1>2
    <3>2. CASE e[1] # d[1]
      <4>1. response'[e[1]] = response[e[1]]
        BY <3>2, <1>0, <1>1, DeliveryIs
      <4> QED
        BY <4>1, <2>2, <1>2 DEF RowsInv, AnswersSound
    <3> QED
      BY <3>1, <3>2
  <2>3. ASSUME NEW e \in Deliveries, delivery'[e].response # "none"
        PROVE  response'[e[1]] = [state |-> delivery'[e].response, by |-> e[2]]
    <3>1. CASE e = d
      BY <3>1, <1>0, <1>1 DEF Delivery
    <3>2. CASE e # d
      <4>1. response[e[1]] = [state |-> delivery[e].response, by |-> e[2]]
              /\ delivery'[e].response = delivery[e].response
        BY <3>2, <2>3, <1>2 DEF RowsInv, AnswersSound
      <4>2. e[1] # d[1]
        BY <4>1, <1>1, <1>2, <3>2, <2>3
      <4> QED
        BY <4>1, <4>2, <1>0, <1>1, DeliveryIs
    <3> QED
      BY <3>1, <3>2
  <2> QED
    BY <2>1, <2>2, <2>3 DEF AnswersSound
<1>7. Numbered'
  <2>1. \A c : Written(c)' = Written(c)
    BY <1>2, HistoryIs DEF Written
  <2> QED
    BY <2>1, <1>2 DEF RowsInv, Numbered
<1> QED
  BY <1>3, <1>4, <1>5, <1>6, <1>7 DEF RowsInv

-----------------------------------------------------------------------------
(* Messages *)

OneRecord == \A i, j \in work : i.delivery = j.delivery /\ i.copy = j.copy => i = j

WorkType ==
  /\ handler \in [Keys -> Handler]
  /\ work \in SUBSET Item /\ OneRecord
  /\ mailbox \in SUBSET Deliveries /\ told \in [Deliveries -> Nat]
  /\ faults \in SUBSET Faults

LEMMA TypesAre == OutreachTypeOK <=> StoreTypeOK /\ WorkType
BY DEF OutreachTypeOK, WorkType, OneRecord

LEMMA ItemIs ==
  ASSUME WorkType, NEW i \in work
  PROVE  i \in Item /\ i.delivery \in Deliveries /\ i.copy \in Copies /\ i.phase \in Phases
           /\ i.tries \in 0..MaxRetries
BY DEF WorkType, Item

(* A message that is sent, if there is a free name for it, is queued.       *)
LEMMA PutIs ==
  ASSUME WorkType, NEW d \in Deliveries, Put(d)
  PROVE  /\ work' \in SUBSET Item /\ OneRecord' /\ work \subseteq work'
         /\ \A j \in work' : j \in work \/ (j.phase = "queued" /\ j.delivery = d)
         /\ \E j \in work' : j.delivery = d
<1>1. CASE FreeCopies(d) = {}
  <2>1. PICK c \in Copies : TRUE
    BY CopiesExist
  <2>2. \E i \in work : i.delivery = d
    BY <1>1, <2>1 DEF FreeCopies, Messages
  <2> QED
    BY <1>1, <2>2 DEF Put, WorkType, OneRecord
<1>2. CASE FreeCopies(d) # {}
  <2> DEFINE Sent(c) == [delivery |-> d, copy |-> c, phase |-> "queued", tries |-> 0]
  <2>1. PICK c \in FreeCopies(d) : work' = work \cup {Sent(c)}
    BY <1>2 DEF Put
  <2>2. c \in Copies /\ \A i \in work : i.delivery = d => i.copy # c
    BY DEF FreeCopies, Messages
  <2>3. Sent(c) \in Item /\ Sent(c).delivery = d /\ Sent(c).copy = c /\ Sent(c).phase = "queued"
    BY <2>2, BoundsAreNat DEF Item, Phases
  <2> HIDE DEF Sent
  <2>4. OneRecord'
    BY <2>1, <2>2, <2>3 DEF WorkType, OneRecord
  <2> QED
    BY <2>1, <2>3, <2>4 DEF WorkType
<1> QED
  BY <1>1, <1>2

(* A message goes on as another record of its name. *)
LEMMA GoesOnType ==
  ASSUME WorkType, NEW i \in work, NEW j \in Item, j.delivery = i.delivery, j.copy = i.copy,
         work' = (work \ {i}) \cup {j}
  PROVE  work' \in SUBSET Item /\ OneRecord'
BY DEF WorkType, OneRecord

LEMMA MoveIs ==
  ASSUME WorkType, NEW i \in work, NEW phase \in Phases, Move(i, phase)
  PROVE  /\ work' \in SUBSET Item /\ OneRecord'
         /\ \E j \in work' : /\ j.delivery = i.delivery /\ j.phase = phase
                             /\ work' = (work \ {i}) \cup {j}
<1> DEFINE j == [i EXCEPT !.phase = phase]
<1>1. j \in Item /\ j.delivery = i.delivery /\ j.copy = i.copy /\ j.phase = phase
  BY ItemIs DEF Item
<1>2. work' = (work \ {i}) \cup {j}
  BY DEF Move
<1> HIDE DEF j
<1> QED
  BY <1>1, <1>2, GoesOnType

LEMMA AckIs ==
  ASSUME WorkType, NEW i \in work, Ack(i)
  PROVE  work' \in SUBSET Item /\ OneRecord' /\ work' = work \ {i}
BY DEF WorkType, OneRecord, Ack

LEMMA FaultIs ==
  ASSUME WorkType, NEW kind, Fault(kind)
  PROVE  faults' \in SUBSET Faults /\ faults' = faults \cup {kind}
BY DEF Fault, WorkType

-----------------------------------------------------------------------------
(* Senders and acceptances *)

(* Whoever has been told of, or is sending, stays so, and nobody becomes a  *)
(* sender.                                                                  *)
Quiet ==
  /\ UNCHANGED told
  /\ \A j \in work' : j \in work \/ (j.phase = "queued" /\ Exists(j.delivery)')
  /\ \A d \in Deliveries :
       /\ Exists(d) => Exists(d)'
       /\ Sending(d) => Sending(d)'
       /\ told[d] = 1 => delivery'[d].state = delivery[d].state
       /\ delivery'[d].state = "sent" => delivery[d].state = "sent"
  /\ \A k \in Keys : \A d \in handler'[k].left : Exists(d)'

LEMMA QuietKeepsSenders ==
  ASSUME WorkType, SendersSound, AcceptanceIsFinal, Quiet, WorkType'
  PROVE  SendersSound' /\ AcceptanceIsFinal'
<1>1. ASSUME NEW i \in work', i.phase \in Owning PROVE i \in work
  BY <1>1 DEF Quiet, Owning
<1>2. \A i \in work' : Exists(i.delivery)'
  BY ItemIs DEF Quiet, SendersSound
<1>3. \A i \in work' : i.phase \in Owning => Sending(i.delivery)'
  BY <1>1, ItemIs DEF Quiet, SendersSound
<1>4. \A i, j \in work' :
        i.phase \in Owning /\ j.phase \in Owning /\ i.delivery = j.delivery => i = j
  BY <1>1 DEF SendersSound
<1>5. \A i \in work' : i.phase = "accepted" => told'[i.delivery] = 1
  BY <1>1 DEF Quiet, SendersSound, Owning
<1>6. SendersSound'
  BY <1>2, <1>3, <1>4, <1>5 DEF SendersSound, Quiet
<1>7. ASSUME NEW d \in Deliveries
      PROVE  /\ told'[d] <= 1
             /\ delivery'[d].state = "sent" => told'[d] = 1
             /\ told'[d] = 1 =>
                  \/ delivery'[d].state = "sent"
                  \/ delivery'[d].state = "sending"
                       /\ \A i \in Messages(d)' : i.phase \in Owning => i.phase = "accepted"
  BY <1>1 DEF AcceptanceIsFinal, Quiet, Messages
<1> QED
  BY <1>6, <1>7 DEF AcceptanceIsFinal

(* New deliveries disturb no sender. *)
LEMMA WritingIsQuiet ==
  ASSUME RowsInv, AcceptanceIsFinal, NEW k \in Keys, NEW r, NEW new, Writes(k, r, new),
         NEW d \in Deliveries
  PROVE  /\ Exists(d) => Exists(d)'
         /\ Sending(d) => Sending(d)'
         /\ told[d] = 1 => delivery'[d].state = delivery[d].state
         /\ delivery'[d].state = "sent" => delivery[d].state = "sent"
<1>0. Writable(new) /\ Replaces(k, new)
  BY DEF Writes
<1>1. CASE d \in new
  <2>1. ~Exists(d) /\ delivery'[d].state = "queued"
    <3>1. ~Exists(d) /\ delivery'[d] = Queued(k)
      BY <1>0, <1>1, ReplacesIs
    <3> QED
      BY <3>1, QueuedIs
  <2>2. told[d] # 1
    BY <2>1 DEF AcceptanceIsFinal, Exists
  <2> QED
    BY <2>1, <2>2 DEF Sending, Current
<1>2. CASE d \notin new
  <2>1. /\ delivery'[d].state = delivery[d].state /\ (Exists(d)' <=> Exists(d))
        /\ Current(d)' <=> Current(d) /\ \A e \in new : e[1] # d[1]
    BY <1>0, <1>2, ReplacesIs
  <2>2. Sending(d) => \A e \in new : e[1] # d[1]
    BY <1>0, SendingIsOpen DEF Writable
  <2> QED
    BY <2>1, <2>2 DEF Sending
<1> QED
  BY <1>1, <1>2

(* An answer disturbs no sender. *)
LEMMA ConfirmIsQuiet ==
  ASSUME RowsInv, NEW e \in Deliveries, NEW choice, ConfirmResponse(e, choice),
         NEW d \in Deliveries
  PROVE  /\ delivery'[d].state = delivery[d].state
         /\ delivery'[d].batch = delivery[d].batch
         /\ Exists(d)' <=> Exists(d)
         /\ Sending(d)' <=> Sending(d)
<1>1. delivery[e] \in Delivery /\ delivery \in [Deliveries -> Delivery]
  BY DEF RowsInv, StoreTypeOK
<1>2. delivery' = [delivery EXCEPT ![e].response = choice]
  BY DEF ConfirmResponse
<1>3. delivery'[d].state = delivery[d].state /\ delivery'[d].superseded = delivery[d].superseded
        /\ delivery'[d].batch = delivery[d].batch
  BY <1>1, <1>2 DEF Delivery
<1> QED
  BY <1>3 DEF Exists, Current, Sending

-----------------------------------------------------------------------------
(* What each step does to rows and senders *)

Base == RowsInv /\ WorkType /\ SendersSound /\ AcceptanceIsFinal

LEMMA UnchangedRows ==
  ASSUME RowsInv, UNCHANGED store
  PROVE  RowsInv'
BY DEF store, RowsInv, StoreTypeOK, RowsSound, OneCurrentDelivery, AnswersSound, Numbered, Exists,
       Current, Open, History, Written

LEMMA UnchangedIsQuiet ==
  ASSUME NEW d, UNCHANGED delivery
  PROVE  /\ Exists(d)' <=> Exists(d)
         /\ Sending(d)' <=> Sending(d)
         /\ Claimable(d)' <=> Claimable(d)
         /\ delivery'[d] = delivery[d]
BY DEF Exists, Sending, Claimable, Current

(* The request of a key moves on. *)
LEMMA BecomesType ==
  ASSUME WorkType, NEW k \in Keys, NEW q \in Handler, Becomes(k, q)
  PROVE  /\ handler' \in [Keys -> Handler] /\ handler'[k] = q
         /\ \A j \in Keys : j # k => handler'[j] = handler[j]
BY DEF WorkType, Becomes

LEMMA HandlerIs ==
  ASSUME WorkType, NEW k \in Keys, NEW phase \in HandlerPhase, NEW left \in SUBSET Deliveries
  PROVE  /\ [Unused EXCEPT !.phase = phase] \in Handler
         /\ [Unused EXCEPT !.phase = phase].left = {}
         /\ [handler[k] EXCEPT !.phase = phase] \in Handler
         /\ [handler[k] EXCEPT !.phase = phase].left = handler[k].left
         /\ [handler[k] EXCEPT !.phase = phase, !.left = left] \in Handler
         /\ [handler[k] EXCEPT !.phase = phase, !.left = left].left = left
<1>1. handler[k] \in Handler
  BY DEF WorkType
<1>2. Unused = [phase |-> "unused", request |-> None, left |-> {}]
  BY DEF Unused
<1> QED
  BY <1>1, <1>2 DEF Handler

(* What a dispatch leaves to be sent. *)
LEMMA DispatchIs ==
  ASSUME WorkType, NEW k \in Keys, NEW left \in SUBSET Deliveries, Dispatch(k, left)
  PROVE  /\ handler' \in [Keys -> Handler] /\ handler'[k].left = left
         /\ \A j \in Keys : j # k => handler'[j] = handler[j]
         /\ handler'[k].phase = IF left = {} THEN "done" ELSE "send"
         /\ left # {} => handler'[k].request = handler[k].request
<1>0. handler[k] \in Handler
  BY DEF WorkType
<1>1. CASE left = {}
  <2> DEFINE q == [Unused EXCEPT !.phase = "done"]
  <2>1. q \in Handler /\ q.left = {} /\ q.phase = "done"
    BY <1>0, HandlerIs DEF HandlerPhase, Unused
  <2>2. Becomes(k, q)
    BY <1>1 DEF Dispatch, Done
  <2> HIDE DEF q
  <2> QED
    BY <1>1, <2>1, <2>2, BecomesType
<1>2. CASE left # {}
  <2> DEFINE q == [handler[k] EXCEPT !.phase = "send", !.left = left]
  <2>1. /\ q \in Handler /\ q.left = left /\ q.phase = "send"
        /\ q.request = handler[k].request
    BY <1>0 DEF Handler, HandlerPhase
  <2>2. Becomes(k, q)
    BY <1>2 DEF Dispatch
  <2> HIDE DEF q
  <2> QED
    BY <1>2, <2>1, <2>2, BecomesType
<1> QED
  BY <1>1, <1>2

(* A handler that has failed, or is asked again, has nothing left to send.  *)
LEMMA FailedIs ==
  ASSUME WorkType, NEW k \in Keys, Failed(k)
  PROVE  /\ handler' \in [Keys -> Handler] /\ handler'[k].left = {}
         /\ \A j \in Keys : j # k => handler'[j] = handler[j]
         /\ handler'[k].phase = "failed" /\ handler'[k].request = handler[k].request
<1> DEFINE q == [handler[k] EXCEPT !.phase = "failed", !.left = {}]
<1>1. handler[k] \in Handler
  BY DEF WorkType
<1>2. /\ q \in Handler /\ q.left = {} /\ q.phase = "failed"
      /\ q.request = handler[k].request
  BY <1>1 DEF Handler, HandlerPhase
<1>3. Becomes(k, q)
  BY DEF Failed
<1> HIDE DEF q
<1> QED
  BY <1>2, <1>3, BecomesType

LEMMA DoneIs ==
  ASSUME WorkType, NEW k \in Keys, Done(k)
  PROVE  /\ handler' \in [Keys -> Handler] /\ handler'[k].left = {}
         /\ \A j \in Keys : j # k => handler'[j] = handler[j]
         /\ handler'[k].phase = "done"
<1> DEFINE q == [Unused EXCEPT !.phase = "done"]
<1>1. q \in Handler /\ q.left = {} /\ q.phase = "done"
  BY HandlerIs DEF HandlerPhase, Unused
<1>2. Becomes(k, q)
  BY DEF Done
<1> HIDE DEF q
<1> QED
  BY <1>1, <1>2, BecomesType

(* A client's steps change only its request. *)
LEMMA ClientKeepsBase ==
  ASSUME Base, NEW k \in Keys, ClientStep(k)
  PROVE  Base'
<1>0. /\ UNCHANGED <<delivery, work, mailbox, told>> /\ UNCHANGED store
      /\ faults' \in SUBSET Faults
  BY DEF ClientStep, Ask, Repeat, Abandon, GiveUp, store, Base, WorkType
<1>1. handler' \in [Keys -> Handler] /\ \A j \in Keys : handler'[j].left \subseteq handler[j].left
  <2>0. \A j \in Keys : handler[j] \in Handler
    BY DEF Base, WorkType
  <2>1. ASSUME Ask(k) PROVE handler' \in [Keys -> Handler] /\ handler'[k].left = {}
                              /\ \A j \in Keys : j # k => handler'[j] = handler[j]
    <3>1. PICK r \in Request : Becomes(k, [Unused EXCEPT !.phase = "asked", !.request = r])
      BY <2>1 DEF Ask, Request
    <3> DEFINE q == [Unused EXCEPT !.phase = "asked", !.request = r]
    <3>3. q \in Handler /\ q.left = {}
      BY DEF Unused, Handler, HandlerPhase
    <3> HIDE DEF q
    <3>4. Becomes(k, q)
      BY <3>1 DEF q
    <3> QED
      BY <3>3, <3>4, BecomesType DEF Base
  <2>2. ASSUME Repeat(k) PROVE handler' \in [Keys -> Handler] /\ handler'[k].left = handler[k].left
                              /\ \A j \in Keys : j # k => handler'[j] = handler[j]
    <3> DEFINE q == [handler[k] EXCEPT !.phase = "asked"]
    <3>1. q \in Handler /\ q.left = handler[k].left
      BY HandlerIs DEF HandlerPhase, Base
    <3>2. Becomes(k, q)
      BY <2>2 DEF Repeat
    <3> HIDE DEF q
    <3> QED
      BY <3>1, <3>2, BecomesType DEF Base
  <2>3. ASSUME Abandon(k) PROVE handler' \in [Keys -> Handler] /\ handler'[k].left = {}
                              /\ \A j \in Keys : j # k => handler'[j] = handler[j]
    BY <2>3, DoneIs DEF Abandon, GiveUp, Base
  <2> QED
    BY <2>1, <2>2, <2>3, <2>0 DEF ClientStep
<1>2. RowsInv'
  BY <1>0, UnchangedRows DEF Base
<1>3. WorkType'
  BY <1>0, <1>1 DEF Base, WorkType, OneRecord
<1>4. Quiet
  <2>1. \A d : Exists(d)' <=> Exists(d)
    BY <1>0 DEF Exists
  <2>2. \A d : Sending(d)' <=> Sending(d)
    BY <1>0, <2>1 DEF Sending, Current
  <2>3. \A j \in Keys : \A d \in handler'[j].left : Exists(d)'
    BY <2>1, <1>1 DEF Base, SendersSound
  <2> QED
    BY <2>1, <2>2, <2>3, <1>0 DEF Quiet
<1> QED
  BY <1>2, <1>3, <1>4, QuietKeepsSenders DEF Base

(* What a handler does: a replay or a refusal leaves the rows alone. *)
LEMMA ExecuteKeepsBase ==
  ASSUME Base, NEW k \in Keys, Execute(k)
  PROVE  Base'
<1> DEFINE r == handler[k].request
<1>0. UNCHANGED <<work, mailbox, told, faults>>
  BY DEF Execute, Replayed
<1>1. ASSUME UNCHANGED store, handler' \in [Keys -> Handler],
             \A d \in handler'[k].left : Exists(d),
             \A j \in Keys : j # k => handler'[j] = handler[j]
      PROVE  Base'
  <2>1. RowsInv'
    BY <1>1, UnchangedRows DEF Base
  <2>2. WorkType'
    BY <1>0, <1>1 DEF Base, WorkType, OneRecord
  <2>3. \A d : (Exists(d)' <=> Exists(d)) /\ (Sending(d)' <=> Sending(d))
    BY <1>1, UnchangedIsQuiet DEF store
  <2>4. delivery' = delivery
    BY <1>1 DEF store
  <2>5. Quiet
    BY <2>3, <2>4, <1>0, <1>1 DEF Quiet, Base, SendersSound
  <2> QED
    BY <2>1, <2>2, <2>5, QuietKeepsSenders DEF Base
<1>2. ASSUME record[k] = r, UNCHANGED store, Dispatch(k, {d \in Of(k) : Claimable(d)})
      PROVE  Base'
  <2> DEFINE left == {d \in Of(k) : Claimable(d)}
  <2>1. left \in SUBSET Deliveries /\ \A d \in left : Exists(d)
    BY DEF Of, Claimable, Current
  <2>2. Dispatch(k, left)
    BY <1>2
  <2> HIDE DEF left
  <2>3. /\ handler' \in [Keys -> Handler] /\ handler'[k].left = left
        /\ \A j \in Keys : j # k => handler'[j] = handler[j]
    BY <2>1, <2>2, DispatchIs DEF Base
  <2> QED
    BY <2>1, <2>3, <1>2, <1>1
<1>3. ASSUME Perform(k, r), Dispatch(k, {d \in Deliveries : delivery'[d].batch = k})
      PROVE  Base'
  <2>1. r \in Request
    <3>1. r \in Request \cup {None}
      BY DEF Base, WorkType, Handler
    <3> QED
      BY <3>1, <1>3 DEF Perform, None
  <2>2. PICK new : Writes(k, r, new)
    BY <1>3, <2>1, PerformWrites DEF Base
  <2>3. RowsInv'
    BY <2>2, WritesKeepsRows DEF Base
  <2> DEFINE left == {d \in Deliveries : delivery'[d].batch = k}
  <2>4. left \in SUBSET Deliveries /\ \A d \in left : delivery'[d].batch = k
    OBVIOUS
  <2>5. Dispatch(k, left)
    BY <1>3
  <2> HIDE DEF left
  <2>6. /\ handler' \in [Keys -> Handler] /\ handler'[k].left = left
        /\ \A j \in Keys : j # k => handler'[j] = handler[j]
    BY <2>4, <2>5, DispatchIs DEF Base
  <2>7. \A d \in left : Exists(d)'
    <3>1. k # 0
      BY KeysAreNumbers
    <3>2. ASSUME NEW d \in Deliveries, ~Exists(d)' PROVE delivery'[d].batch = 0
      BY <2>3, <3>2 DEF RowsInv, RowsSound, NoRow
    <3> QED
      BY <3>1, <3>2, <2>4
  <2>8. WorkType'
    BY <1>0, <2>6 DEF Base, WorkType, OneRecord
  <2>9. Quiet
    <3>1. \A d \in Deliveries :
            /\ Exists(d) => Exists(d)'
            /\ Sending(d) => Sending(d)'
            /\ told[d] = 1 => delivery'[d].state = delivery[d].state
            /\ delivery'[d].state = "sent" => delivery[d].state = "sent"
      BY <2>2, WritingIsQuiet DEF Base
    <3>2. \A j \in Keys : handler[j].left \subseteq Deliveries
      BY DEF Base, WorkType, Handler
    <3>3. \A j \in Keys : \A d \in handler'[j].left : Exists(d)'
      BY <2>6, <2>7, <3>1, <3>2 DEF Base, SendersSound
    <3> QED
      BY <3>1, <3>3, <1>0 DEF Quiet
  <2> QED
    BY <2>3, <2>8, <2>9, QuietKeepsSenders DEF Base
<1>4. ASSUME Refuse(k) PROVE Base'
  <2>1. UNCHANGED store /\ Failed(k)
    BY <1>4 DEF Refuse
  <2> QED
    BY <2>1, <1>1, FailedIs DEF Base
<1> QED
  BY <1>2, <1>3, <1>4 DEF Execute, Replayed

(* A step that leaves the rows alone, makes no sender, and leaves fewer to  *)
(* be sent.                                                                 *)
LEMMA RowsAloneKeepsBase ==
  ASSUME Base, UNCHANGED <<store, told>>, WorkType',
         \A j \in work' : j \in work \/ (j.phase = "queued" /\ Exists(j.delivery)),
         \A k \in Keys : handler'[k].left \subseteq handler[k].left
  PROVE  Base'
<1>1. RowsInv'
  BY UnchangedRows DEF Base
<1>2. \A d : (Exists(d)' <=> Exists(d)) /\ (Sending(d)' <=> Sending(d)) /\ delivery'[d] = delivery[d]
  BY UnchangedIsQuiet DEF store
<1>3. Quiet
  BY <1>2 DEF Quiet, Base, SendersSound
<1> QED
  BY <1>1, <1>3, QuietKeepsSenders DEF Base

LEMMA SendKeepsBase ==
  ASSUME Base, NEW k \in Keys, Send(k) \/ Crash(k)
  PROVE  Base'
<1>1. CASE Send(k)
  <2>1. PICK d \in handler[k].left :
          \/ Put(d) /\ Dispatch(k, handler[k].left \ {d}) /\ UNCHANGED faults
          \/ Fault("api broker") /\ (Put(d) \/ UNCHANGED work) /\ Failed(k)
    BY <1>1 DEF Send
  <2>2. d \in Deliveries /\ Exists(d) /\ handler[k].left \ {d} \in SUBSET Deliveries
    BY DEF Base, WorkType, Handler, SendersSound
  <2>3. /\ handler' \in [Keys -> Handler] /\ handler'[k].left \subseteq handler[k].left
        /\ \A j \in Keys : j # k => handler'[j] = handler[j]
    BY <2>1, <2>2, DispatchIs, FailedIs DEF Base
  <2>4. faults' \in SUBSET Faults
    BY <2>1, FaultIs DEF Base, WorkType
  <2>5. /\ work' \in SUBSET Item /\ OneRecord'
        /\ \A j \in work' : j \in work \/ (j.phase = "queued" /\ j.delivery = d)
    <3>1. CASE Put(d)
      BY <3>1, <2>2, PutIs DEF Base
    <3>2. CASE UNCHANGED work
      BY <3>2 DEF Base, WorkType, OneRecord
    <3> QED
      BY <2>1, <3>1, <3>2
  <2>6. WorkType' /\ UNCHANGED <<store, told>>
    BY <1>1, <2>3, <2>4, <2>5 DEF Send, Base, WorkType
  <2> QED
    BY <2>2, <2>3, <2>5, <2>6, RowsAloneKeepsBase
<1>2. CASE Crash(k)
  <2>1. /\ handler' \in [Keys -> Handler] /\ handler'[k].left \subseteq handler[k].left
        /\ \A j \in Keys : j # k => handler'[j] = handler[j]
    BY <1>2, FailedIs DEF Crash, Base
  <2>2. faults' \in SUBSET Faults
    BY <1>2, FaultIs DEF Base, Crash
  <2>3. WorkType' /\ UNCHANGED <<store, told, work>>
    BY <1>2, <2>1, <2>2 DEF Crash, Base, WorkType, OneRecord
  <2> QED
    BY <2>1, <2>3, RowsAloneKeepsBase
<1> QED
  BY <1>1, <1>2

LEMMA DisturbanceKeepsBase ==
  ASSUME Base, NEW i \in work, Disturbance(i)
  PROVE  Base'
<1>1. i \in Item /\ i.delivery \in Deliveries /\ Exists(i.delivery)
  BY ItemIs DEF Base, SendersSound
<1>2. faults' \in SUBSET Faults
  BY FaultIs DEF Base, Disturbance, DatabaseFails, WorkerLost, Redeliver
<1>3. /\ work' \in SUBSET Item /\ OneRecord'
      /\ \A j \in work' : j \in work \/ (j.phase = "queued" /\ j.delivery = i.delivery)
  <2>1. CASE DatabaseFails(i)
    BY <2>1, AckIs DEF DatabaseFails, Base
  <2>2. CASE WorkerLost(i)
    <3>1. Move(i, "queued") /\ "queued" \in Phases
      BY <2>2 DEF WorkerLost, Phases
    <3>2. work' \in SUBSET Item /\ OneRecord'
      BY <3>1, MoveIs DEF Base
    <3>3. PICK j \in work' : /\ j.delivery = i.delivery /\ j.phase = "queued"
                             /\ work' = (work \ {i}) \cup {j}
      BY <3>1, MoveIs DEF Base
    <3> QED
      BY <3>2, <3>3
  <2>3. CASE Redeliver(i)
    <3> DEFINE Again(c) == [i EXCEPT !.phase = "queued", !.copy = c]
    <3>1. PICK c \in FreeCopies(i.delivery) : work' = work \cup {Again(c)}
      BY <2>3 DEF Redeliver
    <3>2. c \in Copies /\ \A j \in work : j.delivery = i.delivery => j.copy # c
      BY DEF FreeCopies, Messages
    <3>3. /\ Again(c) \in Item /\ Again(c).delivery = i.delivery /\ Again(c).copy = c
          /\ Again(c).phase = "queued"
      BY <1>1, <3>2 DEF Item, Phases
    <3> HIDE DEF Again
    <3> QED
      BY <3>1, <3>2, <3>3 DEF Base, WorkType, OneRecord
  <2> QED
    BY <2>1, <2>2, <2>3 DEF Disturbance
<1>4. WorkType' /\ UNCHANGED <<store, told, handler>>
  BY <1>2, <1>3 DEF Disturbance, Base, WorkType
<1> QED
  BY <1>1, <1>3, <1>4, RowsAloneKeepsBase

LEMMA AnswerKeepsBase ==
  ASSUME Base, NEW d \in Deliveries, Answer(d)
  PROVE  Base'
<1>1. PICK choice \in Choice : ConfirmResponse(d, choice)
  BY DEF Answer
<1>2. RowsInv'
  BY <1>1, ConfirmKeepsRows DEF Base
<1>3. WorkType'
  BY DEF Answer, Base, WorkType, OneRecord
<1>4. Quiet
  <2>1. \A j \in Keys : handler[j].left \subseteq Deliveries
    BY DEF Base, WorkType, Handler
  <2>2. UNCHANGED <<handler, work, told>>
    BY DEF Answer
  <2> QED
    BY <1>1, <2>1, <2>2, ConfirmIsQuiet DEF Quiet, Base, SendersSound
<1> QED
  BY <1>2, <1>3, <1>4, QuietKeepsSenders DEF Base

(* What an outcome does to the rows. *)
LEMMA EndsIs ==
  ASSUME RowsInv, NEW d \in Deliveries, NEW state \in SendState, Ends(d, state)
  PROVE  /\ delivery'[d].state = state /\ Exists(d)' /\ Current(d)'
         /\ \A e \in Deliveries : e # d => /\ delivery'[e] = delivery[e]
                                           /\ Sending(e)' <=> Sending(e)
         /\ \A e \in Deliveries : /\ Exists(e)' <=> Exists(e)
                                  /\ Current(e)' <=> Current(e)
                                  /\ delivery'[e].batch = delivery[e].batch
                                  /\ delivery'[e].response = delivery[e].response
<1>1. PICK retryable \in BOOLEAN :
        delivery' = [delivery EXCEPT ![d] =
                       [delivery[d] EXCEPT !.state = state, !.retryable = retryable]]
  BY DEF Ends
<1> DEFINE row == [delivery[d] EXCEPT !.state = state, !.retryable = retryable]
<1>2. delivery[d] \in Delivery /\ delivery \in [Deliveries -> Delivery] /\ state # "none"
  BY DEF RowsInv, StoreTypeOK, SendState
<1>3. /\ row.state = state /\ row.superseded = delivery[d].superseded
      /\ row.batch = delivery[d].batch /\ row.response = delivery[d].response
  BY <1>2 DEF Delivery
<1>4. delivery' = [delivery EXCEPT ![d] = row]
  BY <1>1
<1> HIDE DEF row
<1>5. Current(d) /\ Exists(d)
  BY DEF Ends, RowsInv, RowsSound, Current
<1>6. delivery'[d] = row /\ \A e \in Deliveries : e # d => delivery'[e] = delivery[e]
  BY <1>2, <1>4
<1>7. Exists(d)' /\ Current(d)'
  BY <1>2, <1>3, <1>5, <1>6 DEF Exists, Current
<1>8. \A e \in Deliveries : /\ Exists(e)' <=> Exists(e)
                            /\ Current(e)' <=> Current(e)
                            /\ delivery'[e].batch = delivery[e].batch
                            /\ delivery'[e].response = delivery[e].response
  BY <1>3, <1>5, <1>6, <1>7 DEF Exists, Current
<1>9. \A e \in Deliveries : e # d => (Sending(e)' <=> Sending(e))
  BY <1>6, <1>8 DEF Sending
<1> QED
  BY <1>3, <1>6, <1>7, <1>8, <1>9

(* Nobody has been told of a delivery that waits or is being tried.         *)
LEMMA NotTold ==
  ASSUME Base, NEW i \in work, i.phase \in Owning, i.phase # "accepted"
  PROVE  told[i.delivery] = 0
<1>1. i.delivery \in Deliveries /\ told[i.delivery] \in Nat /\ Sending(i.delivery)
  BY ItemIs DEF Base, WorkType, SendersSound
<1>2. told[i.delivery] # 1
  BY <1>1 DEF Base, AcceptanceIsFinal, Sending, Messages
<1> QED
  BY <1>1, <1>2 DEF Base, AcceptanceIsFinal

(* A worker's step on its own delivery leaves every other one alone. *)
LEMMA WorkerKeepsOthers ==
  ASSUME Base, RowsInv', WorkType', NEW i \in work,
         Exists(i.delivery), \A j \in work' : j \in work \ {i} \/ j.delivery = i.delivery,
         \A d \in Deliveries : d # i.delivery =>
           delivery'[d] = delivery[d] /\ told'[d] = told[d] /\ (Sending(d)' <=> Sending(d)),
         \A d \in Deliveries : Exists(d)' <=> Exists(d),
         UNCHANGED handler,
         \A j \in work' : j.delivery = i.delivery /\ j.phase \in Owning =>
           /\ Sending(j.delivery)'
           /\ j.phase = "accepted" => told'[j.delivery] = 1
           /\ \A h \in work' : h.delivery = i.delivery /\ h.phase \in Owning => h = j,
         told'[i.delivery] <= 1,
         delivery'[i.delivery].state = "sent" => told'[i.delivery] = 1,
         told'[i.delivery] = 1 =>
           \/ delivery'[i.delivery].state = "sent"
           \/ delivery'[i.delivery].state = "sending"
                /\ \A j \in work' : j.delivery = i.delivery /\ j.phase \in Owning =>
                     j.phase = "accepted"
  PROVE  Base'
<1>0. i.delivery \in Deliveries
  BY ItemIs DEF Base
<1>1. \A j \in work' : j.delivery \in Deliveries
  BY DEF WorkType, Item
<1>2. \A j \in work' : Exists(j.delivery)'
  BY <1>1 DEF Base, SendersSound
<1>3. \A j \in work' : j.delivery # i.delivery => j \in work
  OBVIOUS
<1>4. \A j \in work' : j.phase \in Owning => Sending(j.delivery)'
  BY <1>1, <1>3 DEF Base, SendersSound
<1>5. \A j, h \in work' :
        j.phase \in Owning /\ h.phase \in Owning /\ j.delivery = h.delivery => j = h
  BY <1>3 DEF Base, SendersSound
<1>6. \A j \in work' : j.phase = "accepted" => told'[j.delivery] = 1
  BY <1>1, <1>3 DEF Base, SendersSound, Owning
<1>7. \A k \in Keys : \A d \in handler'[k].left : Exists(d)'
  <2>1. \A k \in Keys : handler[k].left \subseteq Deliveries
    BY DEF Base, WorkType, Handler
  <2> QED
    BY <2>1 DEF Base, SendersSound
<1>8. SendersSound'
  BY <1>2, <1>4, <1>5, <1>6, <1>7 DEF SendersSound
<1>9. AcceptanceIsFinal'
  <2>1. ASSUME NEW d \in Deliveries
        PROVE  /\ told'[d] <= 1
               /\ delivery'[d].state = "sent" => told'[d] = 1
               /\ told'[d] = 1 =>
                    \/ delivery'[d].state = "sent"
                    \/ delivery'[d].state = "sending"
                         /\ \A j \in Messages(d)' : j.phase \in Owning => j.phase = "accepted"
    <3>1. CASE d = i.delivery
      BY <3>1 DEF Messages
    <3>2. CASE d # i.delivery
      BY <3>2, <1>3 DEF Base, AcceptanceIsFinal, Messages
    <3> QED
      BY <3>1, <3>2
  <2> QED
    BY <2>1 DEF AcceptanceIsFinal
<1> QED
  BY <1>8, <1>9 DEF Base

LEMMA ClaimKeepsBase ==
  ASSUME Base, NEW i \in work, Claims(i), UNCHANGED <<handler, faults>>
  PROVE  Base'
<1> DEFINE d == i.delivery
<1>0. i \in Item /\ d \in Deliveries /\ UNCHANGED <<mailbox, told>> /\ i.phase = "queued"
  BY ItemIs DEF Claims, Base
<1>1. CASE Claim(d) /\ Move(i, "claimed")
  <2>0. "claimed" \in Phases /\ "sending" \in SendState /\ "claimed" \in Owning
    BY DEF Phases, Owning, SendState
  <2>1. /\ work' \in SUBSET Item /\ OneRecord'
        /\ \E j \in work' : /\ j.delivery = d /\ j.phase = "claimed"
                            /\ work' = (work \ {i}) \cup {j}
    BY <1>1, <2>0, MoveIs DEF Base
  <2>2. PICK j \in work' : j.delivery = d /\ j.phase = "claimed" /\ work' = (work \ {i}) \cup {j}
    BY <2>1
  <2>3. Ends(d, "sending")
    BY <1>0, <1>1, TransitionsEnd DEF Base
  <2>4. RowsInv'
    BY <1>0, <2>0, <2>3, EndsKeepsRows DEF Base
  <2>5. WorkType'
    BY <1>0, <2>1 DEF Base, WorkType
  <2>6. /\ delivery'[d].state = "sending" /\ Exists(d)' /\ Current(d)'
        /\ \A e \in Deliveries : e # d => delivery'[e] = delivery[e] /\ (Sending(e)' <=> Sending(e))
        /\ \A e \in Deliveries : Exists(e)' <=> Exists(e)
    BY <1>0, <2>0, <2>3, EndsIs DEF Base
  <2>7. Sending(d)'
    BY <2>6 DEF Sending
  <2>8. ~Sending(d) /\ delivery[d].state = "queued"
    BY <1>1 DEF Claim, Claimable, Sending
  <2>9. \A h \in work : h.delivery = d => h.phase \notin Owning
    BY <2>8 DEF Base, SendersSound
  <2>10. \A h \in work' : h.delivery = d /\ h.phase \in Owning => h = j
    BY <2>2, <2>9
  <2>11. told[d] <= 1 /\ told[d] # 1
    BY <1>0, <2>8 DEF Base, AcceptanceIsFinal
  <2> HIDE DEF d
  <2>12. Exists(d) /\ \A h \in work' : h \in work \ {i} \/ h.delivery = d
    BY <2>2, <2>6, <1>0
  <2>13. \A h \in work' : h.delivery = d /\ h.phase \in Owning =>
           /\ Sending(h.delivery)'
           /\ h.phase = "accepted" => told'[h.delivery] = 1
           /\ \A g \in work' : g.delivery = d /\ g.phase \in Owning => g = h
    BY <2>2, <2>7, <2>10
  <2> QED
    BY <1>0, <2>4, <2>5, <2>6, <2>11, <2>12, <2>13, WorkerKeepsOthers DEF d
<1>2. CASE ~Claimable(d) /\ Ack(i) /\ UNCHANGED store
  <2>1. work' \in SUBSET Item /\ OneRecord' /\ work' = work \ {i}
    BY <1>2, AckIs DEF Base
  <2>2. WorkType'
    BY <1>0, <2>1 DEF Base, WorkType
  <2> QED
    BY <1>0, <1>2, <2>1, <2>2, RowsAloneKeepsBase
<1> QED
  BY <1>1, <1>2 DEF Claims

LEMMA SendsKeepBase ==
  ASSUME Base, NEW i \in work, Sends(i), UNCHANGED <<handler, faults>>
  PROVE  Base'
<1> DEFINE d == i.delivery
<1>0. i \in Item /\ d \in Deliveries /\ i.phase = "claimed" /\ i.phase \in Owning
  BY ItemIs DEF Sends, Base, Owning
<1>1. /\ Sending(d) /\ told[d] = 0 /\ delivery[d].state = "sending"
      /\ \A h \in work : h.delivery = d /\ h.phase \in Owning => h = i
  BY <1>0, NotTold DEF Base, SendersSound, Sending
<1>2. PICK phase \in {"accepted", "refused", "transient"} :
        /\ Move(i, phase) /\ UNCHANGED store
        /\ told' = IF phase = "accepted" THEN [told EXCEPT ![d] = @ + 1] ELSE told
        /\ mailbox' \in {mailbox, mailbox \cup {d}}
  <2>1. CASE Accept(d) /\ told' = [told EXCEPT ![d] = @ + 1] /\ Move(i, "accepted")
    BY <2>1 DEF Sends, Accept
  <2>2. CASE Move(i, "refused") /\ UNCHANGED <<mailbox, told>>
    BY <2>2 DEF Sends
  <2>3. CASE Move(i, "transient") /\ UNCHANGED told /\ (Accept(d) \/ UNCHANGED mailbox)
    BY <2>3 DEF Sends, Accept
  <2> QED
    BY <2>1, <2>2, <2>3 DEF Sends
<1>3. phase \in Phases /\ phase \in Owning
  BY DEF Phases, Owning
<1>4. /\ work' \in SUBSET Item /\ OneRecord'
      /\ \E j \in work' : /\ j.delivery = d /\ j.phase = phase
                          /\ work' = (work \ {i}) \cup {j}
  BY <1>2, <1>3, MoveIs DEF Base
<1>5. PICK j \in work' : j.delivery = d /\ j.phase = phase /\ work' = (work \ {i}) \cup {j}
  BY <1>4
<1>6. /\ told' \in [Deliveries -> Nat]
      /\ \A e \in Deliveries : e # d => told'[e] = told[e]
      /\ told'[d] = IF phase = "accepted" THEN 1 ELSE 0
  BY <1>0, <1>1, <1>2 DEF Base, WorkType
<1>7. RowsInv'
  BY <1>2, UnchangedRows DEF Base
<1>8. WorkType'
  BY <1>0, <1>2, <1>4, <1>6 DEF Base, WorkType
<1>9. \A e : (Exists(e)' <=> Exists(e)) /\ (Sending(e)' <=> Sending(e)) /\ delivery'[e] = delivery[e]
  BY <1>2, UnchangedIsQuiet DEF store
<1>10. Exists(d)
  BY <1>1 DEF Sending, Current
<1> HIDE DEF d
<1>11. \A h \in work' : h.delivery = d /\ h.phase \in Owning => h = j
  BY <1>1, <1>5
<1>12. \A h \in work' : h \in work \ {i} \/ h.delivery = d
  BY <1>5
<1>13. \A h \in work' : h.delivery = d /\ h.phase \in Owning =>
         /\ Sending(h.delivery)'
         /\ h.phase = "accepted" => told'[h.delivery] = 1
         /\ \A g \in work' : g.delivery = d /\ g.phase \in Owning => g = h
  BY <1>1, <1>5, <1>6, <1>9, <1>11
<1>14. told'[d] = 1 =>
         delivery'[d].state = "sending"
           /\ \A h \in work' : h.delivery = d /\ h.phase \in Owning => h.phase = "accepted"
  BY <1>1, <1>5, <1>6, <1>9, <1>11
<1>15. told'[d] <= 1 /\ (delivery'[d].state = "sent" => told'[d] = 1)
  BY <1>1, <1>6, <1>9
<1> QED
  BY <1>6, <1>7, <1>8, <1>9, <1>10, <1>12, <1>13, <1>14, <1>15, WorkerKeepsOthers DEF d

(* An outcome that is recorded leaves no sender. *)
LEMMA OutcomeKeepsBase ==
  ASSUME Base, NEW i \in work, i.phase \in Owning, NEW state \in SendState, Ends(i.delivery, state),
         i.phase = "accepted" <=> state = "sent", WorkType', UNCHANGED <<handler, told>>,
         \A j \in work' : j \in work \ {i} \/ (j.delivery = i.delivery /\ j.phase \notin Owning)
  PROVE  Base'
<1> DEFINE d == i.delivery
<1>0. d \in Deliveries
  BY ItemIs DEF Base
<1>1. RowsInv'
  BY <1>0, EndsKeepsRows DEF Base
<1>2. /\ delivery'[d].state = state /\ Exists(d)' /\ Current(d)'
      /\ \A e \in Deliveries : e # d => delivery'[e] = delivery[e] /\ (Sending(e)' <=> Sending(e))
      /\ \A e \in Deliveries : Exists(e)' <=> Exists(e)
  BY <1>0, EndsIs DEF Base
<1>3. \A h \in work : h.delivery = d /\ h.phase \in Owning => h = i
  BY DEF Base, SendersSound
<1>4. \A h \in work' : h.delivery = d => h.phase \notin Owning
  BY <1>3
<1>5. told[d] = IF state = "sent" THEN 1 ELSE 0
  BY NotTold DEF Base, SendersSound
<1> HIDE DEF d
<1>6. told'[d] <= 1 /\ (delivery'[d].state = "sent" <=> told'[d] = 1)
  BY <1>2, <1>5
<1>7. Exists(d) /\ \A h \in work' : h \in work \ {i} \/ h.delivery = d
  BY <1>0, <1>2 DEF d
<1> QED
  BY <1>1, <1>2, <1>4, <1>6, <1>7, WorkerKeepsOthers DEF d

LEMMA MarksKeepBase ==
  ASSUME Base, NEW i \in work, MarksOutcome(i), UNCHANGED <<handler, faults>>
  PROVE  Base'
<1> DEFINE d == i.delivery
<1>0. d \in Deliveries /\ i.phase \in Owning
  BY ItemIs DEF MarksOutcome, Base, Owning
<1>1. Sending(d)
  BY <1>0 DEF Base, SendersSound
<1>2. \E state \in SendState : Ends(d, state) /\ (i.phase = "accepted" <=> state = "sent")
  <2>1. CASE i.phase = "accepted" /\ MarkSent(d)
    BY <2>1, <1>0, <1>1, TransitionsEnd DEF Base, SendState
  <2>2. ASSUME NEW retryable \in BOOLEAN, i.phase # "accepted", MarkFailed(d, retryable)
        PROVE  Ends(d, "failed")
    BY <2>2, <1>0, <1>1, TransitionsEnd DEF Base
  <2> QED
    BY <2>1, <2>2 DEF MarksOutcome, SendState
<1>3. work' \in SUBSET Item /\ OneRecord' /\ work' = work \ {i} /\ UNCHANGED <<mailbox, told>>
  BY AckIs DEF MarksOutcome, Base
<1>4. WorkType'
  BY <1>3 DEF Base, WorkType
<1> QED
  BY <1>0, <1>2, <1>3, <1>4, OutcomeKeepsBase

LEMMA ReleasesKeepBase ==
  ASSUME Base, NEW i \in work, Releases(i), UNCHANGED handler
  PROVE  Base'
<1> DEFINE d == i.delivery
           again == [i EXCEPT !.phase = "queued", !.tries = i.tries + 1]
<1>0. /\ i \in Item /\ d \in Deliveries /\ i.phase \in Owning /\ i.phase # "accepted"
      /\ i.tries \in 0..MaxRetries /\ i.tries < MaxRetries
  BY ItemIs DEF Releases, Base, Owning
<1>1. Ends(d, "queued") /\ "queued" \in SendState
  <2>1. Sending(d)
    BY <1>0 DEF Base, SendersSound
  <2> QED
    BY <1>0, <2>1, TransitionsEnd DEF Base, Releases, SendState
<1>2. /\ again \in Item /\ again.delivery = d /\ again.copy = i.copy
      /\ again.phase = "queued"
  <2>1. i.tries + 1 \in 0..MaxRetries
    BY <1>0, BoundsAreNat
  <2> QED
    BY <1>0, <2>1 DEF Item, Phases
<1> HIDE DEF again
<1>3. "queued" \in Phases /\ "queued" \notin Owning
  BY DEF Phases, Owning
<1>4. /\ work' \in SUBSET Item /\ OneRecord'
      /\ \A j \in work' : j \in work \ {i} \/ (j.delivery = d /\ j.phase = "queued")
  <2>1. CASE work' = (work \ {i}) \cup {again}
    BY <1>2, <2>1, GoesOnType DEF Base
  <2>2. CASE Ack(i)
    BY <2>2, AckIs DEF Base
  <2>3. CASE Move(i, "queued")
    <3>1. work' \in SUBSET Item /\ OneRecord'
      BY <2>3, <1>3, MoveIs DEF Base
    <3>2. PICK j \in work' : /\ j.delivery = d /\ j.phase = "queued"
                             /\ work' = (work \ {i}) \cup {j}
      BY <2>3, <1>3, MoveIs DEF Base
    <3> QED
      BY <3>1, <3>2
  <2> QED
    BY <2>1, <2>2, <2>3 DEF Releases, again
<1>5. faults' \in SUBSET Faults /\ UNCHANGED <<mailbox, told>>
  BY FaultIs DEF Releases, Base, WorkType
<1>6. WorkType'
  BY <1>4, <1>5 DEF Base, WorkType
<1> QED
  BY <1>0, <1>1, <1>3, <1>4, <1>5, <1>6, OutcomeKeepsBase

LEMMA StutterKeepsBase ==
  ASSUME Base, UNCHANGED vars
  PROVE  Base'
<1>1. WorkType' /\ UNCHANGED <<store, told, work, handler>>
  BY DEF vars, Base, WorkType, OneRecord
<1> QED
  BY <1>1, RowsAloneKeepsBase

LEMMA NextKeepsBase ==
  ASSUME Base, [Next]_vars
  PROVE  Base'
<1>1. ASSUME NEW k \in Keys, ApiStep(k) \/ Crash(k) \/ ClientStep(k) PROVE Base'
  BY <1>1, ExecuteKeepsBase, SendKeepsBase, ClientKeepsBase DEF ApiStep
<1>2. ASSUME NEW i \in work, WorkerStep(i) PROVE Base'
  BY <1>2, ClaimKeepsBase, SendsKeepBase, MarksKeepBase, ReleasesKeepBase DEF WorkerStep
<1>3. ASSUME NEW i \in work, Disturbance(i) PROVE Base'
  BY <1>3, DisturbanceKeepsBase
<1>4. ASSUME NEW d \in Deliveries, Answer(d) PROVE Base'
  BY <1>4, AnswerKeepsBase
<1> QED
  BY <1>1, <1>2, <1>3, <1>4, StutterKeepsBase DEF Next, ServerStep

LEMMA InitBase ==
  ASSUME Init
  PROVE  Base
<1>1. NoRow \in Delivery /\ NoRow.state = "none" /\ NoRow.response = "none" /\ NoRow.batch = 0
        /\ NoResponse.state = "none" /\ NoResponse.by = 0
  BY DEF NoRow, NoResponse, Delivery
<1>2. \A d \in Deliveries : delivery[d] = NoRow /\ ~Exists(d) /\ ~Current(d) /\ ~Open(d)
  BY <1>1 DEF Init, StoreInit, Exists, Current, Open
<1>3. StoreTypeOK
  <2>1. response \in [Creators -> [state : Choice \cup {"none"}, by : 0..MaxSends]]
    <3>1. NoResponse \in [state : Choice \cup {"none"}, by : 0..MaxSends]
      BY SendsAreCounted DEF NoResponse
    <3> QED
      BY <3>1 DEF Init, StoreInit
  <2> QED
    BY <1>1, <2>1 DEF Init, StoreInit, StoreTypeOK
<1>4. AnswersSound
  <2>1. \A c \in Creators : response[c] = NoResponse
    BY DEF Init, StoreInit
  <2>2. \A d \in Deliveries : d[2] # 0
    BY DeliveryIs, SendsAreCounted
  <2> QED
    BY <1>1, <1>2, <2>1, <2>2, DeliveryIs DEF AnswersSound
<1>5. RowsInv
  BY <1>2, <1>3, <1>4 DEF RowsInv, RowsSound, OneCurrentDelivery, Numbered
<1>6. WorkType
  <2>1. Unused \in Handler
    BY DEF Unused, Handler, HandlerPhase
  <2> QED
    BY <2>1 DEF Init, WorkType, OneRecord
<1>7. SendersSound
  BY DEF Init, SendersSound, Unused
<1>8. AcceptanceIsFinal
  BY <1>1, <1>2 DEF Init, AcceptanceIsFinal
<1> QED
  BY <1>5, <1>6, <1>7, <1>8 DEF Base

THEOREM BaseInvariance == Spec => []Base
<1>1. Init => Base
  BY InitBase
<1>2. Base /\ [Next]_vars => Base'
  BY NextKeepsBase
<1> QED
  BY <1>1, <1>2, PTL DEF Spec

-----------------------------------------------------------------------------
(* Rows, requests and messages keep their shapes, and no message exceeds    *)
(* the retry budget, for every bound.                                       *)
THEOREM TypesCorrect == Spec => []OutreachTypeOK
<1>1. Base => OutreachTypeOK
  BY TypesAre DEF Base, RowsInv
<1> QED
  BY <1>1, BaseInvariance, PTL

(* Whatever batches, resends and repeated requests overlap, a creator has   *)
(* one current delivery, the last.                                          *)
THEOREM OneCurrent == Spec => []OneCurrentDelivery
<1>1. Base => OneCurrentDelivery
  BY DEF Base, RowsInv
<1> QED
  BY <1>1, BaseInvariance, PTL

(* However often a message is sent, handed out and retried, one worker at   *)
(* most stands between the claim and the outcome of a delivery, and nobody  *)
(* sends to a creator who has answered.                                     *)
THEOREM SenderIsAlone == Spec => []OneSender
<1>1. Base => OneSender
  <2> SUFFICES ASSUME Base, NEW i \in work, i.phase \in Owning
               PROVE  /\ Sending(i.delivery) /\ response[i.delivery[1]].state = "none"
                      /\ \A j \in Messages(i.delivery) : j.phase \in Owning => i = j
    BY DEF OneSender
  <2>1. Sending(i.delivery) /\ i.delivery \in Deliveries
    BY ItemIs DEF Base, SendersSound
  <2>2. response[i.delivery[1]].state = "none"
    BY <2>1, SendingIsOpen, AnsweredIsClosed DEF Base
  <2> QED
    BY <2>1, <2>2 DEF Base, SendersSound, Messages
<1> QED
  BY <1>1, BaseInvariance, PTL

(* The mail server's word is heard once for a delivery at most, and is not  *)
(* forgotten: what it has accepted is never failed nor claimed again.       *)
THEOREM AcceptedOnce == Spec => []AcceptanceIsFinal
<1>1. Base => AcceptanceIsFinal
  BY DEF Base
<1> QED
  BY <1>1, BaseInvariance, PTL

(* The first answer is by the creator's last delivery, and neither another  *)
(* link nor another mail can come after it.                                 *)
THEOREM AnswersAreLast == Spec => []AnswerIsLast
<1>1. Base => AnswerIsLast
  <2> SUFFICES ASSUME Base, NEW d \in Deliveries
               PROVE  /\ response[d[1]].by = d[2] => Current(d) /\ delivery[d].state = "sent"
                      /\ delivery[d].response # "none" =>
                           response[d[1]] = [state |-> delivery[d].response, by |-> d[2]]
                      /\ (Link(d) = "confirm" \/ response[d[1]].state # "none") =>
                           \A e \in History(d[1]) :
                             /\ delivery[e].state \notin {"queued", "sending"}
                             /\ e # d => Link(e) # "confirm"
    BY DEF AnswerIsLast
  <2>1. RowsInv
    BY DEF Base
  <2>2. ASSUME NEW e \in History(d[1]), Link(e) = "confirm"
        PROVE  Current(e) /\ delivery[e].state = "sent" /\ response[d[1]].state = "none"
                 /\ e \in Deliveries /\ e[1] = d[1]
    BY <2>2, HistoryIs DEF Link, Eligible
  <2>3. CASE Link(d) = "confirm"
    <3>1. Current(d) /\ delivery[d].state = "sent"
      BY <2>2, <2>3, DeliveryIs
    <3>2. ASSUME NEW e \in History(d[1]) PROVE delivery[e].state \notin {"queued", "sending"}
      <4>1. e \in Deliveries /\ e[1] = d[1]
        BY HistoryIs
      <4>2. ASSUME Open(e) PROVE FALSE
        <5>1. Current(e)
          BY <4>1, <4>2, <2>1 DEF RowsInv, RowsSound
        <5>2. e = d
          BY <2>1, <3>1, <4>1, <5>1, CurrentIsOne
        <5> QED
          BY <3>1, <4>2, <5>2 DEF Open
      <4> QED
        BY <4>2 DEF Open
    <3>3. ASSUME NEW e \in History(d[1]), Link(e) = "confirm" PROVE e = d
      BY <2>1, <2>2, <3>1, <3>3, CurrentIsOne
    <3> QED
      BY <2>1, <3>2, <3>3 DEF RowsInv, AnswersSound
  <2>4. CASE response[d[1]].state # "none"
    <3>1. ASSUME NEW e \in History(d[1])
          PROVE  delivery[e].state \notin {"queued", "sending"} /\ Link(e) # "confirm"
      <4>1. e \in Deliveries /\ e[1] = d[1]
        BY HistoryIs
      <4>2. ~Open(e)
        BY <2>1, <2>4, <4>1, AnsweredIsClosed
      <4> QED
        BY <2>2, <2>4, <4>2 DEF Open
    <3> QED
      BY <2>1, <3>1 DEF RowsInv, AnswersSound
  <2> QED
    BY <2>1, <2>3, <2>4 DEF RowsInv, AnswersSound
<1> QED
  BY <1>1, BaseInvariance, PTL

-----------------------------------------------------------------------------
(* Keys and what is carried on *)

Alive == {"asked", "send", "failed"}

(* The steps of a request, apart from what it writes. *)
Proceeds(k) ==
  /\ \A j \in Keys : j # k => handler'[j] = handler[j]
  /\ \/ /\ handler[k].phase = "unused" /\ handler'[k].phase = "asked"
        /\ handler'[k].request \in Request
        /\ handler'[k].request.kind = "create" => handler'[k].request.creators # {}
     \/ /\ handler[k].phase \in Alive /\ handler'[k].phase \in Alive
        /\ handler'[k].request = handler[k].request
        /\ handler'[k].phase = "send" => record'[k] # None
     \/ handler'[k].phase = "done" /\ handler[k].phase \in Alive

LEMMA OfIs ==
  ASSUME \A d \in Deliveries : delivery'[d].batch = delivery[d].batch
  PROVE  \A k : Of(k)' = Of(k)
BY DEF Of

LEMMA RequestIsNotNone ==
  ASSUME NEW r \in Request
  PROVE  r # None
BY DEF Request, None

(* A request that proceeds and writes nothing keeps the keys sound. *)
LEMMA ProceedingKeepsKeys ==
  ASSUME KeysSound, NEW k \in Keys, Proceeds(k), UNCHANGED record,
         \A d \in Deliveries : delivery'[d].batch = delivery[d].batch
  PROVE  KeysSound'
<1>1. ASSUME NEW j \in Keys
      PROVE  /\ record'[j] = None => Of(j)' = {}
             /\ handler'[j].phase = "unused" => record'[j] = None
             /\ handler'[j].phase = "send" => record'[j] # None
             /\ record'[j] # None /\ handler'[j].phase \in Alive => record'[j] = handler'[j].request
             /\ handler'[j].phase \in Alive =>
                  /\ handler'[j].request # None
                  /\ handler'[j].request.kind = "create" => handler'[j].request.creators # {}
  <2>1. record'[j] = None => Of(j)' = {}
    BY OfIs DEF KeysSound
  <2>2. CASE j # k
    BY <2>1, <2>2 DEF Proceeds, KeysSound, Alive
  <2>3. CASE j = k
    <3>1. record'[k] = record[k]
      OBVIOUS
    <3>2. /\ handler[k].phase = "unused" => record[k] = None
          /\ handler[k].phase = "send" => record[k] # None
          /\ record[k] # None /\ handler[k].phase \in Alive => record[k] = handler[k].request
          /\ handler[k].phase \in Alive =>
               /\ handler[k].request # None
               /\ handler[k].request.kind = "create" => handler[k].request.creators # {}
      BY DEF KeysSound, Alive
    <3>3. "unused" \notin Alive /\ "done" \notin Alive /\ "send" # "done"
      BY DEF Alive
    <3>4. CASE handler'[k].phase = "done"
      BY <2>1, <2>3, <3>3, <3>4
    <3>5. CASE /\ handler[k].phase = "unused" /\ handler'[k].phase = "asked"
               /\ handler'[k].request \in Request
               /\ handler'[k].request.kind = "create" => handler'[k].request.creators # {}
      BY <2>1, <2>3, <3>1, <3>2, <3>5, RequestIsNotNone
    <3>6. CASE /\ handler[k].phase \in Alive /\ handler'[k].phase \in Alive
               /\ handler'[k].request = handler[k].request
               /\ handler'[k].phase = "send" => record'[k] # None
      BY <2>1, <2>3, <3>1, <3>2, <3>3, <3>6
    <3> QED
      BY <3>4, <3>5, <3>6 DEF Proceeds
  <2> QED
    BY <2>2, <2>3
<1> QED
  BY <1>1 DEF KeysSound, Alive

LEMMA WritingKeepsKeys ==
  ASSUME RowsInv, KeysSound, NEW k \in Keys, NEW r \in Request, NEW new, Writes(k, r, new),
         handler[k].phase = "asked", handler[k].request = r, Proceeds(k)
  PROVE  KeysSound'
<1>0. record' = [record EXCEPT ![k] = r] /\ record \in [Keys -> Request \cup {None}]
  BY DEF Writes, RowsInv, StoreTypeOK
<1>1. record'[k] = r /\ r # None /\ \A j \in Keys : j # k => record'[j] = record[j]
  BY <1>0, RequestIsNotNone
<1>2. ASSUME NEW j \in Keys, j # k PROVE Of(j)' = Of(j)
  <2>1. ASSUME NEW d \in Deliveries PROVE delivery'[d].batch = j <=> delivery[d].batch = j
    <3>1. CASE d \in new
      <4>1. ~Exists(d) /\ delivery'[d] = Queued(k)
        BY <3>1, ReplacesIs DEF Writes
      <4>2. delivery'[d].batch = k
        BY <4>1, QueuedIs
      <4>3. delivery[d].batch = 0
        BY <4>1 DEF RowsInv, RowsSound, NoRow
      <4> QED
        BY <4>2, <4>3, <1>2, KeysAreNumbers
    <3>2. CASE d \notin new
      BY <3>2, ReplacesIs DEF Writes
    <3> QED
      BY <3>1, <3>2
  <2> QED
    BY <2>1 DEF Of
<1>3. ASSUME NEW j \in Keys
      PROVE  /\ record'[j] = None => Of(j)' = {}
             /\ handler'[j].phase = "unused" => record'[j] = None
             /\ handler'[j].phase = "send" => record'[j] # None
             /\ record'[j] # None /\ handler'[j].phase \in Alive => record'[j] = handler'[j].request
             /\ handler'[j].phase \in Alive =>
                  /\ handler'[j].request # None
                  /\ handler'[j].request.kind = "create" => handler'[j].request.creators # {}
  <2>1. CASE j = k
    <3>1. handler[k].request # None /\ (r.kind = "create" => r.creators # {})
      BY DEF KeysSound
    <3>2. /\ handler'[k].phase # "unused"
          /\ handler'[k].phase \in Alive => handler'[k].request = r
      BY DEF Proceeds, Alive
    <3> QED
      BY <1>1, <2>1, <3>1, <3>2
  <2>2. CASE j # k
    BY <1>1, <1>2, <2>2 DEF Proceeds, KeysSound, Alive
  <2> QED
    BY <2>1, <2>2
<1> QED
  BY <1>3 DEF KeysSound, Alive

(* A delivery that has not ended is carried on.                             *)
Carried(d) ==
  /\ delivery[d].state = "sending" => \E i \in Messages(d) : i.phase \in Owning
  /\ delivery[d].state = "queued" =>
       \/ Messages(d) # {}
       \/ LET q == handler[delivery[d].batch]
          IN q.phase \in {"asked", "failed"} \/ d \in q.left

LEMMA StrandedIs ==
  NothingStranded <=> (faults \cap Stranding = {} => \A d \in Deliveries : Carried(d))
BY DEF NothingStranded, Carried

Care == Base /\ KeysSound /\ NothingStranded

LEMMA RequestsAre ==
  ASSUME WorkType, NEW k \in Keys
  PROVE  /\ handler[k].request \in Request \cup {None} /\ handler[k].left \in SUBSET Deliveries
         /\ handler[k].phase \in HandlerPhase /\ handler[k] \in Handler
BY DEF WorkType, Handler

(* An open delivery belongs to a key whose request has been recorded.       *)
LEMMA OpenHasRecord ==
  ASSUME Care, NEW d \in Deliveries, Open(d)
  PROVE  /\ delivery[d].batch \in Keys /\ record[delivery[d].batch] # None
         /\ handler[delivery[d].batch].phase # "unused" /\ d \in Of(delivery[d].batch)
<1>1. Exists(d)
  BY DEF Open, Exists
<1>2. delivery[d].batch \in Keys /\ d \in Of(delivery[d].batch)
  BY <1>1 DEF Care, Base, RowsInv, RowsSound, Of
<1> QED
  BY <1>2 DEF Care, KeysSound

(* A step of one handler that leaves rows and messages alone.               *)
LEMMA HandlerKeepsCare ==
  ASSUME Care, Base', NEW k \in Keys, UNCHANGED <<store, work>>, Proceeds(k), faults \subseteq faults',
         \/ faults' \cap Stranding # {}
         \/ record[k] = None
         \/ handler'[k].phase \in {"asked", "failed"}
  PROVE  Care'
<1>1. UNCHANGED <<delivery, record>>
  BY DEF store
<1>2. KeysSound'
  BY <1>1, ProceedingKeepsKeys DEF Care
<1>3. ASSUME faults' \cap Stranding = {}, NEW d \in Deliveries PROVE Carried(d)'
  <2>1. Carried(d)
    BY <1>3, StrandedIs DEF Care
  <2>2. ASSUME delivery[d].state = "queued"
        PROVE  delivery[d].batch \in Keys /\ record[delivery[d].batch] # None
    BY <2>2, OpenHasRecord DEF Open
  <2>3. ASSUME delivery[d].state = "queued", delivery[d].batch = k
        PROVE  handler'[k].phase \in {"asked", "failed"}
    BY <1>3, <2>2, <2>3
  <2>4. ASSUME delivery[d].state = "queued", delivery[d].batch # k
        PROVE  handler'[delivery[d].batch] = handler[delivery[d].batch]
    BY <2>2, <2>4 DEF Proceeds
  <2> QED
    BY <1>1, <2>1, <2>3, <2>4 DEF Carried, Messages
<1>4. NothingStranded'
  BY <1>3 DEF NothingStranded, Carried
<1> QED
  BY <1>2, <1>4 DEF Care

LEMMA ClientKeepsCare ==
  ASSUME Care, NEW k \in Keys, ClientStep(k)
  PROVE  Care'
<1>0. Base' /\ WorkType /\ handler[k] \in Handler
  BY ClientKeepsBase, RequestsAre DEF Care, Base
<1>1. CASE Ask(k)
  <2>1. PICK r \in [kind : {"create"}, creators : (SUBSET Creators) \ {{}}]
                     \cup [kind : {"resend"}, delivery : {d \in Deliveries : Exists(d)}] :
          Becomes(k, [Unused EXCEPT !.phase = "asked", !.request = r])
    BY <1>1 DEF Ask
  <2>2. r \in Request /\ (r.kind = "create" => r.creators # {})
    BY <2>1 DEF Request
  <2>3. handler' = [handler EXCEPT ![k] = [Unused EXCEPT !.phase = "asked", !.request = r]]
    BY <2>1 DEF Becomes
  <2>4. handler'[k].phase = "asked" /\ handler'[k].request = r
    BY <1>0, <2>3 DEF WorkType, Unused
  <2>5. handler[k].phase = "unused" /\ UNCHANGED <<store, work, faults>>
    BY <1>1 DEF Ask
  <2>6. Proceeds(k)
    BY <1>0, <2>2, <2>3, <2>4, <2>5 DEF Proceeds, WorkType
  <2> QED
    BY <1>0, <2>4, <2>5, <2>6, HandlerKeepsCare
<1>2. CASE Repeat(k)
  <2>1. /\ handler' = [handler EXCEPT ![k] = [handler[k] EXCEPT !.phase = "asked"]]
        /\ handler[k].phase = "failed" /\ UNCHANGED <<store, work, faults>>
    BY <1>2 DEF Repeat, Becomes
  <2>2. handler'[k].phase = "asked" /\ handler'[k].request = handler[k].request
    BY <1>0, <2>1 DEF WorkType, Handler
  <2>3. Proceeds(k)
    BY <1>0, <2>1, <2>2 DEF Proceeds, WorkType, Alive
  <2> QED
    BY <1>0, <2>1, <2>2, <2>3, HandlerKeepsCare
<1>3. CASE Abandon(k)
  <2>1. /\ handler[k].phase = "failed" /\ Done(k) /\ UNCHANGED <<store, work>>
        /\ (record[k] = None /\ UNCHANGED faults) \/ faults' = faults \cup {"abandoned"}
    BY <1>3 DEF Abandon, GiveUp
  <2>2. Proceeds(k)
    BY <1>0, <2>1, DoneIs DEF Proceeds, Alive
  <2>3. faults \subseteq faults' /\ (record[k] = None \/ faults' \cap Stranding # {})
    BY <2>1 DEF Stranding
  <2> QED
    BY <1>0, <2>1, <2>2, <2>3, HandlerKeepsCare
<1> QED
  BY <1>1, <1>2, <1>3 DEF ClientStep

LEMMA CrashKeepsCare ==
  ASSUME Care, NEW k \in Keys, Crash(k)
  PROVE  Care'
<1>1. Base' /\ WorkType
  BY SendKeepsBase DEF Care, Base
<1>2. /\ \A j \in Keys : j # k => handler'[j] = handler[j]
      /\ handler'[k].phase = "failed" /\ handler'[k].request = handler[k].request
  BY <1>1, FailedIs DEF Crash
<1>3. Proceeds(k)
  BY <1>2 DEF Crash, Proceeds, Alive
<1>4. faults \subseteq faults' /\ UNCHANGED <<store, work>>
  BY <1>1, FaultIs DEF Crash
<1> QED
  BY <1>1, <1>2, <1>3, <1>4, HandlerKeepsCare

LEMMA SendKeepsCare ==
  ASSUME Care, NEW k \in Keys, Send(k)
  PROVE  Care'
<1>0. Base' /\ WorkType /\ handler[k].phase = "send" /\ UNCHANGED <<store, delivery, record>>
  BY SendKeepsBase DEF Care, Base, Send, store
<1>1. PICK d \in handler[k].left :
        \/ Put(d) /\ Dispatch(k, handler[k].left \ {d}) /\ UNCHANGED faults
        \/ Fault("api broker") /\ (Put(d) \/ UNCHANGED work) /\ Failed(k)
  BY DEF Send
<1>2. d \in Deliveries /\ handler[k].left \ {d} \in SUBSET Deliveries
  BY <1>0, RequestsAre
<1>3. work \subseteq work'
  BY <1>0, <1>1, <1>2, PutIs
<1>4. faults \subseteq faults'
  BY <1>0, <1>1, FaultIs
<1>5. /\ Proceeds(k)
      /\ \/ handler'[k].phase = "failed"
         \/ handler'[k].left = handler[k].left \ {d} /\ \E j \in work' : j.delivery = d
  <2>1. CASE Put(d) /\ Dispatch(k, handler[k].left \ {d})
    <3>1. /\ \A j \in Keys : j # k => handler'[j] = handler[j]
          /\ handler'[k].left = handler[k].left \ {d}
          /\ handler'[k].phase = IF handler[k].left \ {d} = {} THEN "done" ELSE "send"
          /\ handler[k].left \ {d} # {} => handler'[k].request = handler[k].request
      BY <1>0, <1>2, <2>1, DispatchIs
    <3>2. record'[k] # None
      BY <1>0 DEF Care, KeysSound
    <3>3. Proceeds(k)
      BY <1>0, <3>1, <3>2 DEF Proceeds, Alive
    <3> QED
      BY <1>0, <1>2, <2>1, <3>1, <3>3, PutIs
  <2>2. CASE Failed(k)
    BY <1>0, <2>2, FailedIs DEF Proceeds, Alive
  <2> QED
    BY <1>1, <2>1, <2>2
<1>6. KeysSound'
  BY <1>0, <1>5, ProceedingKeepsKeys DEF Care
<1>7. ASSUME faults' \cap Stranding = {}, NEW e \in Deliveries PROVE Carried(e)'
  <2>1. Carried(e)
    BY <1>4, <1>7, StrandedIs DEF Care
  <2>2. ASSUME delivery[e].state = "queued" PROVE delivery[e].batch \in Keys
    BY <2>2, OpenHasRecord DEF Open
  <2>3. Messages(e) \subseteq Messages(e)'
    BY <1>3 DEF Messages
  <2>4. ASSUME delivery[e].state = "queued", Messages(e) = {}
        PROVE  \/ Messages(e)' # {}
               \/ handler'[delivery[e].batch].phase \in {"asked", "failed"}
               \/ e \in handler'[delivery[e].batch].left
    <3>1. CASE delivery[e].batch # k
      BY <2>1, <2>2, <2>4, <3>1, <1>5 DEF Carried, Proceeds
    <3>2. CASE delivery[e].batch = k
      <4>1. e \in handler[k].left
        BY <2>1, <2>4, <3>2, <1>0 DEF Carried
      <4> QED
        BY <3>2, <4>1, <1>5 DEF Messages
    <3> QED
      BY <3>1, <3>2
  <2> QED
    BY <1>0, <2>1, <2>3, <2>4 DEF Carried
<1>8. NothingStranded'
  BY <1>7 DEF NothingStranded, Carried
<1> QED
  BY <1>0, <1>6, <1>8 DEF Care

LEMMA ExecuteKeepsCare ==
  ASSUME Care, NEW k \in Keys, Execute(k)
  PROVE  Care'
<1> DEFINE r == handler[k].request
<1>0. /\ Base' /\ WorkType /\ RowsInv /\ handler[k].phase = "asked" /\ KeysSound
      /\ UNCHANGED <<work, told, mailbox, faults>>
  BY ExecuteKeepsBase DEF Care, Base, Execute, Replayed
<1>1. ASSUME record[k] = r, UNCHANGED store, Dispatch(k, {d \in Of(k) : Claimable(d)})
      PROVE  Care'
  <2> DEFINE left == {d \in Of(k) : Claimable(d)}
  <2>1. left \in SUBSET Deliveries
    BY DEF Of
  <2>2. /\ \A j \in Keys : j # k => handler'[j] = handler[j]
        /\ handler'[k].left = left
        /\ handler'[k].phase = IF left = {} THEN "done" ELSE "send"
        /\ left # {} => handler'[k].request = handler[k].request
    BY <1>0, <1>1, <2>1, DispatchIs
  <2>3. UNCHANGED <<delivery, record>>
    BY <1>1 DEF store
  <2>4. record[k] # None
    BY <1>0, <1>1 DEF KeysSound
  <2>5. Proceeds(k)
    BY <1>0, <2>2, <2>3, <2>4 DEF Proceeds, Alive
  <2>6. KeysSound'
    BY <1>0, <2>3, <2>5, ProceedingKeepsKeys
  <2>7. ASSUME faults' \cap Stranding = {}, NEW e \in Deliveries PROVE Carried(e)'
    <3>1. Carried(e)
      BY <1>0, <2>7, StrandedIs DEF Care
    <3>2. ASSUME delivery[e].state = "queued"
          PROVE  /\ delivery[e].batch \in Keys /\ e \in Of(delivery[e].batch) /\ Claimable(e)
      <4>1. Open(e)
        BY <3>2 DEF Open
      <4>2. Current(e)
        BY <4>1, <1>0 DEF RowsInv, RowsSound
      <4> QED
        BY <3>2, <4>1, <4>2, OpenHasRecord DEF Claimable
    <3>3. ASSUME delivery[e].state = "queued", delivery[e].batch = k PROVE e \in handler'[k].left
      BY <2>2, <3>2, <3>3
    <3>4. ASSUME delivery[e].state = "queued", delivery[e].batch # k
          PROVE  handler'[delivery[e].batch] = handler[delivery[e].batch]
      BY <2>2, <3>2, <3>4
    <3> QED
      BY <1>0, <2>3, <3>1, <3>3, <3>4 DEF Carried, Messages
  <2>8. NothingStranded'
    BY <2>7 DEF NothingStranded, Carried
  <2> QED
    BY <1>0, <2>6, <2>8 DEF Care
<1>2. ASSUME record[k] = None, Perform(k, r), Dispatch(k, {d \in Deliveries : delivery'[d].batch = k})
      PROVE  Care'
  <2>1. r \in Request
    BY <1>0, <1>2, RequestsAre DEF Perform, None
  <2>2. PICK new : Writes(k, r, new)
    BY <1>0, <1>2, <2>1, PerformWrites
  <2> DEFINE left == {d \in Deliveries : delivery'[d].batch = k}
  <2>3. left \in SUBSET Deliveries
    OBVIOUS
  <2>4. /\ \A j \in Keys : j # k => handler'[j] = handler[j]
        /\ handler'[k].left = left
        /\ handler'[k].phase = IF left = {} THEN "done" ELSE "send"
        /\ left # {} => handler'[k].request = r
    BY <1>0, <1>2, <2>3, DispatchIs
  <2>5. record'[k] # None
    <3>1. record' = [record EXCEPT ![k] = r] /\ record \in [Keys -> Request \cup {None}]
      BY <1>0, <2>2 DEF Writes, RowsInv, StoreTypeOK
    <3> QED
      BY <2>1, <3>1, RequestIsNotNone
  <2>6. Proceeds(k)
    BY <1>0, <2>4, <2>5 DEF Proceeds, Alive
  <2>7. KeysSound'
    BY <1>0, <2>1, <2>2, <2>6, WritingKeepsKeys
  <2>8. ASSUME faults' \cap Stranding = {}, NEW e \in Deliveries PROVE Carried(e)'
    <3>0. Carried(e)
      BY <1>0, <2>8, StrandedIs DEF Care
    <3>1. CASE e \in new
      <4>1. delivery'[e] = Queued(k)
        BY <1>0, <2>2, <3>1, ReplacesIs DEF Writes
      <4>2. delivery'[e].state = "queued" /\ delivery'[e].batch = k
        BY <4>1, QueuedIs
      <4> QED
        BY <2>4, <4>2 DEF Carried
    <3>2. CASE e \notin new
      <4>1. delivery'[e].state = delivery[e].state /\ delivery'[e].batch = delivery[e].batch
        BY <1>0, <2>2, <3>2, ReplacesIs DEF Writes
      <4>2. ASSUME delivery[e].state = "queued"
            PROVE  delivery[e].batch \in Keys /\ delivery[e].batch # k
        BY <1>2, <4>2, OpenHasRecord DEF Open
      <4>3. delivery[e].state = "queued" =>
              handler'[delivery[e].batch] = handler[delivery[e].batch]
        BY <2>4, <4>2
      <4> QED
        BY <1>0, <3>0, <4>1, <4>3 DEF Carried, Messages
    <3> QED
      BY <3>1, <3>2
  <2>9. NothingStranded'
    BY <2>8 DEF NothingStranded, Carried
  <2> QED
    BY <1>0, <2>7, <2>9 DEF Care
<1>3. ASSUME Refuse(k) PROVE Care'
  <2>1. /\ UNCHANGED <<store, delivery, record>> /\ record[k] = None
        /\ \A j \in Keys : j # k => handler'[j] = handler[j]
        /\ handler'[k].phase = "failed" /\ handler'[k].request = handler[k].request
    BY <1>0, <1>3, FailedIs DEF Refuse, store
  <2>2. Proceeds(k)
    BY <1>0, <2>1 DEF Proceeds, Alive
  <2>3. KeysSound'
    BY <1>0, <2>1, <2>2, ProceedingKeepsKeys
  <2>4. ASSUME faults' \cap Stranding = {}, NEW e \in Deliveries PROVE Carried(e)'
    <3>1. Carried(e)
      BY <1>0, <2>4, StrandedIs DEF Care
    <3>2. delivery[e].state = "queued" => delivery[e].batch \in Keys /\ delivery[e].batch # k
      BY <2>1, OpenHasRecord DEF Open
    <3> QED
      BY <1>0, <2>1, <3>1, <3>2 DEF Carried, Messages
  <2>5. NothingStranded'
    BY <2>4 DEF NothingStranded, Carried
  <2> QED
    BY <1>0, <2>3, <2>5 DEF Care
<1> QED
  BY <1>1, <1>2, <1>3 DEF Execute, Replayed

(* A worker's step on its own delivery: every other one is carried as       *)
(* before.                                                                  *)
LEMMA WorkerKeepsCare ==
  ASSUME Care, Base', NEW i \in work, UNCHANGED <<handler, record>>, faults \subseteq faults',
         \A d \in Deliveries : delivery'[d].batch = delivery[d].batch,
         \A d \in Deliveries : d # i.delivery => delivery'[d] = delivery[d],
         \A j \in work : j.delivery # i.delivery => j \in work',
         faults' \cap Stranding = {} => Carried(i.delivery)'
  PROVE  Care'
<1>1. KeysSound'
  BY OfIs DEF Care, KeysSound
<1>2. ASSUME faults' \cap Stranding = {}, NEW d \in Deliveries PROVE Carried(d)'
  <2>1. CASE d = i.delivery
    BY <1>2, <2>1 DEF Carried, Messages
  <2>2. CASE d # i.delivery
    <3>1. Carried(d)
      BY <1>2, StrandedIs DEF Care
    <3>2. Messages(d) \subseteq Messages(d)'
      BY <2>2 DEF Messages
    <3>3. delivery'[d] = delivery[d]
      BY <2>2
    <3> QED
      BY <3>1, <3>2, <3>3 DEF Carried
  <2> QED
    BY <2>1, <2>2
<1>3. NothingStranded'
  BY <1>2 DEF NothingStranded, Carried
<1> QED
  BY <1>1, <1>3 DEF Care

LEMMA StepKeepsCare ==
  ASSUME Care, NEW i \in work, WorkerStep(i)
  PROVE  Care'
<1> DEFINE d == i.delivery
<1>0. /\ Base /\ WorkType /\ RowsInv /\ d \in Deliveries /\ Exists(d) /\ UNCHANGED handler
      /\ faults \subseteq faults'
  BY ItemIs, FaultIs DEF Care, Base, SendersSound, WorkerStep, Releases
<1>1. CASE Claims(i) /\ UNCHANGED faults
  <2>0. Base'
    BY <1>0, <1>1, ClaimKeepsBase
  <2>1. CASE Claim(d) /\ Move(i, "claimed")
    <3>1. Ends(d, "sending") /\ "sending" \in SendState /\ "claimed" \in Phases /\ "claimed" \in Owning
      BY <1>0, <2>1, TransitionsEnd DEF SendState, Phases, Owning
    <3>2. /\ delivery'[d].state = "sending"
          /\ \A e \in Deliveries : e # d => delivery'[e] = delivery[e]
          /\ \A e \in Deliveries : delivery'[e].batch = delivery[e].batch
      BY <1>0, <3>1, EndsIs
    <3>3. PICK j \in work' : /\ j.delivery = d /\ j.phase = "claimed"
                             /\ work' = (work \ {i}) \cup {j}
      BY <1>0, <2>1, <3>1, MoveIs
    <3>4. Carried(d)'
      BY <3>1, <3>2, <3>3 DEF Carried, Messages
    <3>5. UNCHANGED record
      BY <3>1 DEF Ends
    <3> QED
      BY <1>0, <2>0, <3>2, <3>3, <3>4, <3>5, WorkerKeepsCare
  <2>2. CASE ~Claimable(d) /\ Ack(i) /\ UNCHANGED store
    <3>1. work' = work \ {i} /\ i.phase = "queued" /\ UNCHANGED <<delivery, record>>
      BY <1>1, <2>2 DEF Claims, Ack, store
    <3>2. ASSUME faults' \cap Stranding = {} PROVE Carried(d)'
      <4>1. Carried(d)
        BY <1>0, <1>1, <3>2, StrandedIs DEF Care
      <4>2. delivery[d].state # "queued"
        BY <1>0, <2>2 DEF RowsInv, RowsSound, Open, Claimable
      <4>3. "queued" \notin Owning
        BY DEF Owning
      <4> QED
        BY <3>1, <4>1, <4>2, <4>3 DEF Carried, Messages
    <3> QED
      BY <1>0, <2>0, <3>1, <3>2, WorkerKeepsCare
  <2> QED
    BY <1>1, <2>1, <2>2 DEF Claims
<1>2. CASE Sends(i) /\ UNCHANGED faults
  <2>0. Base' /\ UNCHANGED <<delivery, record>> /\ i.phase \in Owning
    BY <1>0, <1>2, SendsKeepBase DEF Sends, store, Owning
  <2>1. delivery[d].state = "sending"
    BY <1>0, <2>0 DEF Base, SendersSound, Sending
  <2>2. PICK phase \in {"accepted", "refused", "transient"} : Move(i, phase)
    BY <1>2 DEF Sends
  <2>3. phase \in Phases /\ phase \in Owning
    BY DEF Phases, Owning
  <2>4. PICK j \in work' : j.delivery = d /\ j.phase = phase /\ work' = (work \ {i}) \cup {j}
    BY <1>0, <2>2, <2>3, MoveIs
  <2>5. Carried(d)'
    BY <2>0, <2>1, <2>3, <2>4 DEF Carried, Messages
  <2> QED
    BY <1>0, <2>0, <2>4, <2>5, WorkerKeepsCare
<1>3. CASE MarksOutcome(i) /\ UNCHANGED faults
  <2>0. Base' /\ i.phase \in Owning /\ work' = work \ {i}
    BY <1>0, <1>3, MarksKeepBase DEF MarksOutcome, Owning, Ack
  <2>1. Sending(d)
    BY <1>0, <2>0 DEF Base, SendersSound
  <2>2. \E state \in {"sent", "failed"} : Ends(d, state)
    <3>1. CASE i.phase = "accepted" /\ MarkSent(d)
      BY <3>1, <1>0, <2>1, TransitionsEnd
    <3>2. ASSUME NEW retryable \in BOOLEAN, MarkFailed(d, retryable)
          PROVE  Ends(d, "failed")
      BY <3>2, <1>0, <2>1, TransitionsEnd
    <3> QED
      BY <1>3, <3>1, <3>2 DEF MarksOutcome
  <2>3. PICK state \in {"sent", "failed"} : Ends(d, state)
    BY <2>2
  <2>4. /\ delivery'[d].state = state
        /\ \A e \in Deliveries : e # d => delivery'[e] = delivery[e]
        /\ \A e \in Deliveries : delivery'[e].batch = delivery[e].batch
    BY <1>0, <2>3, EndsIs DEF SendState
  <2>5. UNCHANGED record
    BY <2>3 DEF Ends
  <2>6. Carried(d)'
    BY <2>4 DEF Carried
  <2> QED
    BY <1>0, <2>0, <2>4, <2>5, <2>6, WorkerKeepsCare
<1>4. CASE Releases(i)
  <2> DEFINE again == [i EXCEPT !.phase = "queued", !.tries = @ + 1]
  <2>0. Base' /\ i.phase \in Owning
    BY <1>0, <1>4, ReleasesKeepBase DEF Releases, Owning
  <2>1. Ends(d, "queued") /\ "queued" \in SendState
    <3>1. Sending(d)
      BY <1>0, <2>0 DEF Base, SendersSound
    <3> QED
      BY <1>0, <1>4, <3>1, TransitionsEnd DEF Releases, SendState
  <2>2. /\ delivery'[d].state = "queued"
        /\ \A e \in Deliveries : e # d => delivery'[e] = delivery[e]
        /\ \A e \in Deliveries : delivery'[e].batch = delivery[e].batch
    BY <1>0, <2>1, EndsIs
  <2>3. \/ work' = (work \ {i}) \cup {again}
        \/ faults' \cap Stranding # {} /\ work \ {i} \subseteq work'
    <3>1. CASE Fault("retry broker") /\ Ack(i)
      BY <1>0, <3>1, FaultIs DEF Ack, Stranding
    <3>2. CASE Fault("lost worker") /\ Move(i, "queued")
      BY <1>0, <3>2, FaultIs DEF Move, Stranding
    <3> QED
      BY <1>4, <3>1, <3>2 DEF Releases
  <2>4. again.delivery = d
    BY <1>0, ItemIs DEF Item
  <2> HIDE DEF again
  <2>5. faults' \cap Stranding = {} => Carried(d)'
    BY <2>2, <2>3, <2>4 DEF Carried, Messages
  <2>6. UNCHANGED record
    BY <2>1 DEF Ends
  <2>7. \A j \in work : j.delivery # d => j \in work'
    BY <2>3
  <2> QED
    BY <1>0, <2>0, <2>2, <2>5, <2>6, <2>7, WorkerKeepsCare
<1> QED
  BY <1>1, <1>2, <1>3, <1>4 DEF WorkerStep

LEMMA DisturbanceKeepsCare ==
  ASSUME Care, NEW i \in work, Disturbance(i)
  PROVE  Care'
<1> DEFINE d == i.delivery
<1>0. /\ Base' /\ WorkType /\ d \in Deliveries /\ UNCHANGED <<handler, delivery, record>>
  BY ItemIs, DisturbanceKeepsBase DEF Care, Base, Disturbance, store
<1>1. /\ faults \subseteq faults'
      /\ \/ work \subseteq work'
         \/ work \ {i} \subseteq work' /\ faults' \cap Stranding # {}
  BY <1>0, FaultIs
  DEF Disturbance, DatabaseFails, WorkerLost, Redeliver, Ack, Move, Stranding
<1>2. ASSUME faults' \cap Stranding = {} PROVE Carried(d)'
  <2>1. Carried(d)
    BY <1>0, <1>1, <1>2, StrandedIs DEF Care
  <2> QED
    BY <1>0, <1>1, <1>2, <2>1 DEF Carried, Messages
<1> QED
  BY <1>0, <1>1, <1>2, WorkerKeepsCare

LEMMA AnswerKeepsCare ==
  ASSUME Care, NEW d \in Deliveries, Answer(d)
  PROVE  Care'
<1>0. Base' /\ RowsInv /\ UNCHANGED <<handler, work, faults>>
  BY AnswerKeepsBase DEF Care, Base, Answer
<1>1. PICK choice \in Choice : ConfirmResponse(d, choice)
  BY DEF Answer
<1>2. UNCHANGED record
  BY <1>1 DEF ConfirmResponse
<1>3. \A e \in Deliveries : /\ delivery'[e].state = delivery[e].state
                            /\ delivery'[e].batch = delivery[e].batch
  BY <1>0, <1>1, ConfirmIsQuiet
<1>4. KeysSound'
  BY <1>0, <1>2, <1>3, OfIs DEF Care, KeysSound
<1>5. ASSUME faults' \cap Stranding = {}, NEW e \in Deliveries PROVE Carried(e)'
  <2>1. Carried(e)
    BY <1>0, <1>5, StrandedIs DEF Care
  <2> QED
    BY <1>0, <1>3, <2>1 DEF Carried, Messages
<1>6. NothingStranded'
  BY <1>5 DEF NothingStranded, Carried
<1> QED
  BY <1>0, <1>4, <1>6 DEF Care

LEMMA NextKeepsCare ==
  ASSUME Care, [Next]_vars
  PROVE  Care'
<1>1. ASSUME NEW k \in Keys, ApiStep(k) \/ Crash(k) \/ ClientStep(k) PROVE Care'
  BY <1>1, ExecuteKeepsCare, SendKeepsCare, CrashKeepsCare, ClientKeepsCare DEF ApiStep
<1>2. CASE UNCHANGED vars
  <2>1. Base'
    BY <1>2, NextKeepsBase DEF Care
  <2>2. UNCHANGED <<delivery, record, handler, work, faults>>
    BY <1>2 DEF vars, store
  <2>3. KeysSound'
    BY <2>2, OfIs DEF Care, KeysSound
  <2>4. NothingStranded'
    BY <2>2 DEF Care, NothingStranded, Messages
  <2> QED
    BY <2>1, <2>3, <2>4 DEF Care
<1> QED
  BY <1>1, <1>2, StepKeepsCare, DisturbanceKeepsCare, AnswerKeepsCare DEF Next, ServerStep

THEOREM CareInvariance == Spec => []Care
<1>1. Init => Care
  <2> SUFFICES ASSUME Init PROVE KeysSound /\ NothingStranded
    BY InitBase DEF Care
  <2>1. \A d \in Deliveries : delivery[d].state = "none" /\ delivery[d].batch = 0
    BY DEF Init, StoreInit, NoRow
  <2>2. \A k \in Keys : handler[k].phase = "unused" /\ record[k] = None /\ Of(k) = {}
    BY <2>1, KeysAreNumbers DEF Init, StoreInit, Unused, Of
  <2> QED
    BY <2>1, <2>2 DEF KeysSound, NothingStranded
<1>2. Care /\ [Next]_vars => Care'
  BY NextKeepsCare
<1> QED
  BY <1>1, <1>2, PTL DEF Spec

(* Whatever faults happen but those of Stranding, a delivery that has not   *)
(* ended is carried on by a message, by the handler of its batch, or by a   *)
(* client that still holds its key.                                         *)
THEOREM NobodyIsStranded == Spec => []NothingStranded
<1>1. Care => NothingStranded
  BY DEF Care
<1> QED
  BY <1>1, CareInvariance, PTL

-----------------------------------------------------------------------------
(* What is reported *)

(* What a step may do to the rows: nothing that a report depends on, or one *)
(* writing under a new key, or one outcome.                                 *)
Still ==
  /\ UNCHANGED batch
  /\ \A d \in Deliveries : /\ delivery'[d].state = delivery[d].state
                           /\ delivery'[d].batch = delivery[d].batch

NewKeyWrites(k, r, new) ==
  /\ Writes(k, r, new) /\ record[k] = None /\ new # {}

LEMMA StoreStep ==
  ASSUME Care, [Next]_vars
  PROVE  \/ UNCHANGED store
         \/ \E d \in Deliveries : Answer(d)
         \/ \E k \in Keys, r \in Request : \E new : NewKeyWrites(k, r, new)
         \/ \E d \in Deliveries, state \in SendState : Ends(d, state)
<1>0. RowsInv /\ WorkType /\ KeysSound
  BY DEF Care, Base
<1>2. ASSUME NEW k \in Keys, Execute(k)
      PROVE  UNCHANGED store \/ \E r \in Request : \E new : NewKeyWrites(k, r, new)
  <2> DEFINE r == handler[k].request
  <2>1. CASE UNCHANGED store
    BY <2>1
  <2>2. CASE record[k] = None /\ Perform(k, r)
    <3>1. r \in Request
      BY <1>0, <2>2, RequestsAre DEF Perform, None
    <3>2. PICK new : Writes(k, r, new)
      BY <1>0, <2>2, <3>1, PerformWrites
    <3>3. new # {}
      <4>1. CASE r.kind = "create"
        <5>1. r.creators # {}
          BY <1>0, <1>2, <4>1 DEF KeysSound, Execute, Replayed
        <5> QED
          BY <3>2, <4>1, <5>1 DEF Writes
      <4>2. CASE r.kind = "resend"
        BY <3>2, <4>2 DEF Writes
      <4> QED
        BY <2>2, <4>1, <4>2 DEF Perform
    <3> QED
      BY <2>2, <3>1, <3>2, <3>3 DEF NewKeyWrites
  <2> QED
    BY <1>2, <2>1, <2>2 DEF Execute, Replayed, Refuse
<1>3. ASSUME NEW k \in Keys, Send(k) \/ Crash(k) \/ ClientStep(k) PROVE UNCHANGED store
  BY <1>3 DEF Send, Crash, ClientStep, Ask, Repeat, Abandon
<1>4. ASSUME NEW i \in work, WorkerStep(i)
      PROVE  UNCHANGED store \/ \E d \in Deliveries, state \in SendState : Ends(d, state)
  <2>0. i.delivery \in Deliveries
    BY <1>0, ItemIs
  <2>1. CASE Claims(i)
    BY <1>0, <2>0, <2>1, TransitionsEnd DEF Claims, SendState
  <2>2. CASE Sends(i)
    BY <2>2 DEF Sends
  <2>3. ASSUME i.phase \in Owning PROVE Sending(i.delivery)
    BY <2>3 DEF Care, Base, SendersSound
  <2>4. CASE MarksOutcome(i)
    <3>1. i.phase \in Owning
      BY <2>4 DEF MarksOutcome, Owning
    <3>2. MarkSent(i.delivery) \/ \E retryable \in BOOLEAN : MarkFailed(i.delivery, retryable)
      BY <2>4 DEF MarksOutcome
    <3> QED
      BY <1>0, <2>0, <2>3, <3>1, <3>2, TransitionsEnd DEF SendState
  <2>5. CASE Releases(i)
    BY <1>0, <2>0, <2>3, <2>5, TransitionsEnd DEF Releases, Owning, SendState
  <2> QED
    BY <1>4, <2>1, <2>2, <2>4, <2>5 DEF WorkerStep
<1>5. ASSUME NEW i \in work, Disturbance(i) PROVE UNCHANGED store
  BY <1>5 DEF Disturbance
<1>6. CASE UNCHANGED vars
  BY <1>6 DEF vars
<1> QED
  BY <1>2, <1>3, <1>4, <1>5, <1>6 DEF Next, ServerStep, ApiStep

LEMMA RowsStep ==
  ASSUME Care, [Next]_vars
  PROVE  \/ Still
         \/ \E k \in Keys, r \in Request : \E new : NewKeyWrites(k, r, new)
         \/ \E d \in Deliveries, state \in SendState : Ends(d, state)
<1>1. UNCHANGED store => Still
  BY DEF store, Still
<1>2. ASSUME NEW d \in Deliveries, Answer(d) PROVE Still
  <2>0. RowsInv
    BY DEF Care, Base
  <2>1. PICK choice \in Choice : ConfirmResponse(d, choice)
    BY <1>2 DEF Answer
  <2>2. UNCHANGED batch
    BY <2>1 DEF ConfirmResponse
  <2> QED
    BY <2>0, <2>1, <2>2, ConfirmIsQuiet DEF Still
<1> QED
  BY <1>1, <1>2, StoreStep

(* A batch that is not written, and none of whose deliveries changes.       *)
LEMMA SameSummary ==
  ASSUME NEW k, Of(k)' = Of(k), \A d \in Of(k) : delivery'[d].state = delivery[d].state
  PROVE  Summary({delivery[d].state : d \in Of(k)})' = Summary({delivery[d].state : d \in Of(k)})
<1>1. {delivery'[d].state : d \in Of(k)'} = {delivery[d].state : d \in Of(k)}
  OBVIOUS
<1> QED
  BY <1>1 DEF Summary

LEMMA NextKeepsBatches ==
  ASSUME Care, BatchesTrue, [Next]_vars
  PROVE  BatchesTrue'
<1>0. RowsInv /\ KeysSound /\ batch \in [Keys -> BatchState \cup {"none"}]
  BY DEF Care, Base, RowsInv, StoreTypeOK
<1>1. CASE Still
  <2>1. \A k : Of(k)' = Of(k)
    BY <1>1, OfIs DEF Still
  <2>2. \A k : \A d \in Of(k) : delivery'[d].state = delivery[d].state
    BY <1>1 DEF Still, Of
  <2>3. \A k \in Keys : batch'[k] = batch[k]
    BY <1>1 DEF Still
  <2> QED
    BY <2>1, <2>2, <2>3, SameSummary DEF BatchesTrue
<1>2. ASSUME NEW k \in Keys, NEW r \in Request, NEW new, NewKeyWrites(k, r, new)
      PROVE  BatchesTrue'
  <2>1. /\ Writable(new) /\ Replaces(k, new) /\ Of(k) = {} /\ new # {} /\ new \subseteq Deliveries
        /\ batch'[k] = "queued" /\ \A j \in Keys : j # k => batch'[j] = batch[j]
    BY <1>0, <1>2 DEF NewKeyWrites, Writes, KeysSound, Writable
  <2>2. ASSUME NEW d \in new
        PROVE  delivery'[d].state = "queued" /\ delivery'[d].batch = k /\ delivery[d].batch = 0
    <3>1. delivery'[d] = Queued(k) /\ ~Exists(d)
      BY <1>0, <2>1, ReplacesIs
    <3>2. delivery[d] = NoRow
      BY <1>0, <2>1, <3>1 DEF RowsInv, RowsSound
    <3>3. delivery[d].batch = 0
      BY <3>2 DEF NoRow
    <3>4. Queued(k).state = "queued" /\ Queued(k).batch = k
      BY QueuedIs
    <3> QED
      BY <3>1, <3>3, <3>4
  <2>3. ASSUME NEW d \in Deliveries \ new
        PROVE  delivery'[d].state = delivery[d].state /\ delivery'[d].batch = delivery[d].batch
    BY <1>0, <2>1, ReplacesIs
  <2>4. Of(k)' = new
    BY <2>1, <2>2, <2>3 DEF Of
  <2>5. {delivery'[d].state : d \in new} = {"queued"}
    BY <2>1, <2>2
  <2>6. Summary({delivery[d].state : d \in Of(k)})' = "queued"
    BY <2>4, <2>5 DEF Summary
  <2>7. ASSUME NEW j \in Keys, j # k
        PROVE  Summary({delivery[d].state : d \in Of(j)})'
                 = Summary({delivery[d].state : d \in Of(j)})
    <3>1. Of(j)' = Of(j) /\ \A d \in Of(j) : d \in Deliveries \ new
      BY <2>2, <2>3, <2>7, KeysAreNumbers DEF Of
    <3> QED
      BY <2>3, <3>1, SameSummary
  <2>8. \A j \in Keys : j # k => Of(j)' = Of(j)
    BY <2>2, <2>3, KeysAreNumbers DEF Of
  <2> QED
    BY <2>1, <2>4, <2>6, <2>7, <2>8 DEF BatchesTrue
<1>3. ASSUME NEW d \in Deliveries, NEW state \in SendState, Ends(d, state)
      PROVE  BatchesTrue'
  <2> DEFINE b == delivery[d].batch
  <2>1. /\ \A e \in Deliveries : e # d => delivery'[e] = delivery[e]
        /\ \A e \in Deliveries : delivery'[e].batch = delivery[e].batch
    BY <1>0, <1>3, EndsIs
  <2>2. \A k : Of(k)' = Of(k)
    BY <2>1, OfIs
  <2>3. batch' = [batch EXCEPT ![b] = Summary({delivery'[e].state : e \in Of(b)})]
    BY <1>3 DEF Ends, Recompute
  <2> HIDE DEF b
  <2>4. ASSUME NEW k \in Keys, k = b
        PROVE  batch'[k] = Summary({delivery[e].state : e \in Of(k)})'
    <3>1. {delivery'[e].state : e \in Of(k)'} = {delivery'[e].state : e \in Of(b)}
      BY <2>2, <2>4
    <3>2. Summary({delivery[e].state : e \in Of(k)})' = Summary({delivery'[e].state : e \in Of(b)})
      BY <3>1 DEF Summary
    <3> QED
      BY <1>0, <2>3, <2>4, <3>2
  <2>5. ASSUME NEW k \in Keys, k # b
        PROVE  /\ batch'[k] = batch[k]
               /\ Summary({delivery[e].state : e \in Of(k)})'
                    = Summary({delivery[e].state : e \in Of(k)})
    <3>1. \A e \in Of(k) : delivery'[e].state = delivery[e].state
      BY <2>1, <2>5 DEF Of, b
    <3> QED
      BY <1>0, <2>2, <2>3, <2>5, <3>1, SameSummary
  <2>6. ASSUME NEW k \in Keys, k = b PROVE Of(k) # {}
    BY <2>6 DEF Of, b
  <2> QED
    BY <2>2, <2>4, <2>5, <2>6 DEF BatchesTrue
<1> QED
  BY <1>1, <1>2, <1>3, RowsStep

THEOREM BatchesInvariance == Spec => [](Care /\ BatchesTrue)
<1>1. Init => Care /\ BatchesTrue
  <2>1. ASSUME Init PROVE BatchesTrue
    BY <2>1 DEF Init, StoreInit, BatchesTrue
  <2>2. ASSUME Init PROVE KeysSound /\ NothingStranded
    <3>1. \A d \in Deliveries : delivery[d].state = "none" /\ delivery[d].batch = 0
      BY <2>2 DEF Init, StoreInit, NoRow
    <3>2. \A k \in Keys : handler[k].phase = "unused" /\ record[k] = None /\ Of(k) = {}
      BY <2>2, <3>1, KeysAreNumbers DEF Init, StoreInit, Unused, Of
    <3> QED
      BY <3>1, <3>2 DEF KeysSound, NothingStranded
  <2> QED
    BY <2>1, <2>2, InitBase DEF Care
<1>2. Care /\ BatchesTrue /\ [Next]_vars => (Care /\ BatchesTrue)'
  BY NextKeepsCare, NextKeepsBatches
<1> QED
  BY <1>1, <1>2, PTL DEF Spec

LEMMA SomeCreators ==
  ASSUME NEW S \in SUBSET Creators
  PROVE  IsFiniteSet(S) /\ Cardinality(S) \in Nat
BY CreatorsAreFinite, FS_Subset, FS_CardinalityType

LEMMA Apart ==
  ASSUME NEW S \in SUBSET Creators, NEW T \in SUBSET Creators, S \cap T = {}
  PROVE  Cardinality(S \cup T) = Cardinality(S) + Cardinality(T)
<1>1. Cardinality(S \cap T) = 0
  BY FS_EmptySet
<1>2. Cardinality(S \cup T) = Cardinality(S) + Cardinality(T) - Cardinality(S \cap T)
  BY SomeCreators, FS_Union
<1> QED
  BY <1>1, <1>2, SomeCreators

(* A batch shows the state of its deliveries, every answer is counted once  *)
(* among the creators written to, and a campaign reported as ended has no   *)
(* worker sending.                                                          *)
LEMMA CampaignReported ==
  ASSUME Care, BatchesTrue
  PROVE  CampaignIsTrue
<1> DEFINE sent == {c \in Creators : SentTo(c)}
           accepted == {c \in sent : response[c].state = "accepted"}
           declined == {c \in sent : response[c].state = "declined"}
           failed == {c \in Creators \ sent :
                        /\ \E d \in History(c) : Current(d) /\ delivery[d].state = "failed"
                        /\ response[c].state = "none"}
           answered == {c \in Creators : Confirmed({c})}
           prior == {c \in Creators : Prior({c})}
<1>0. /\ sent \in SUBSET Creators /\ accepted \in SUBSET Creators /\ declined \in SUBSET Creators
      /\ failed \in SUBSET Creators /\ prior \in SUBSET Creators
  OBVIOUS
<1>1. /\ Metrics.accepted = Cardinality(accepted) /\ Metrics.declined = Cardinality(declined)
      /\ Metrics.sent = Cardinality(sent) /\ Metrics.failed = Cardinality(failed)
  BY DEF Metrics
<1>2. accepted \cup declined = answered /\ accepted \cap declined = {}
  <2>1. ASSUME NEW c \in Creators, response[c].state # "none"
        PROVE  SentTo(c) /\ response[c].state \in {"accepted", "declined"}
    <3> DEFINE d == <<c, response[c].by>>
    <3>1. /\ response[c].state \in {"accepted", "declined"}
          /\ response[c].by \in 0..MaxSends /\ response[c].by # 0
      BY <2>1 DEF Care, Base, RowsInv, StoreTypeOK, AnswersSound, Choice
    <3>2. d \in Deliveries /\ d[1] = c /\ d[2] = response[c].by
      BY <3>1, SendsAreCounted DEF Deliveries
    <3> HIDE DEF d
    <3>3. delivery[d].state = "sent"
      BY <3>2 DEF Care, Base, RowsInv, AnswersSound
    <3> QED
      BY <3>1, <3>2, <3>3 DEF SentTo, History
  <2>2. \A c \in Creators : c \in answered <=> response[c].state # "none"
    BY DEF Confirmed
  <2> QED
    BY <2>1, <2>2
<1>3. sent \cup failed \subseteq prior /\ sent \cap failed = {}
  <2>1. ASSUME NEW c \in Creators, NEW d \in History(c), Exists(d) PROVE c \in prior
    BY <2>1, HistoryIs DEF Prior
  <2>2. ASSUME NEW c \in sent PROVE c \in prior
    <3>1. PICK d \in History(c) : delivery[d].state = "sent"
      BY <2>2 DEF SentTo
    <3> QED
      BY <2>1, <2>2, <3>1 DEF Exists
  <2>3. ASSUME NEW c \in failed PROVE c \in prior
    <3>1. PICK d \in History(c) : Current(d)
      BY <2>3
    <3> QED
      BY <2>1, <2>3, <3>1 DEF Current
  <2> QED
    BY <2>2, <2>3
<1> HIDE DEF sent, accepted, declined, failed, answered, prior
<1>4. Metrics.accepted + Metrics.declined = Cardinality(answered)
  BY <1>0, <1>1, <1>2, Apart
<1>5. Metrics.sent + Metrics.failed <= Cardinality(prior)
  <2>1. Cardinality(sent \cup failed) <= Cardinality(prior)
    BY <1>0, <1>3, SomeCreators, FS_Subset
  <2>2. Cardinality(sent \cup failed) = Cardinality(sent) + Cardinality(failed)
    BY <1>0, <1>3, Apart
  <2> QED
    BY <1>1, <2>1, <2>2
<1>6. ASSUME NEW i \in work, i.phase \in Owning PROVE CampaignState \notin {"completed", "failed"}
  <2>1. Sending(i.delivery) /\ i.delivery \in Deliveries
    BY <1>6, ItemIs DEF Care, Base, SendersSound
  <2> DEFINE current == {delivery[d].state : d \in {e \in Deliveries : Current(e)}}
  <2>2. "sending" \in current
    BY <2>1 DEF Sending
  <2>3. CampaignState = "sending"
    BY <2>2 DEF CampaignState
  <2> QED
    BY <2>3
<1> QED
  BY <1>4, <1>5, <1>6 DEF CampaignIsTrue, CampaignIsValid, CampaignSummary, BatchesTrue, answered, prior

(* A row has a later one exactly when it has a next one.                    *)
LEMMA NextIsWritten ==
  ASSUME RowsInv, NEW d \in Deliveries, Exists(d)
  PROVE  Current(d) <=> SupersededBy(d) = {}
<1>1. ASSUME NEW e \in History(d[1]), Exists(e), e[2] > d[2] PROVE SupersededBy(d) # {}
  <2> DEFINE f == <<d[1], d[2] + 1>>
  <2>1. e \in Deliveries /\ e[1] = d[1] /\ e[2] \in 1..MaxSends /\ d[2] \in 1..MaxSends
    BY <1>1, HistoryIs, DeliveryIs
  <2>2. f \in Deliveries /\ f[1] = d[1] /\ f[2] = d[2] + 1
    BY <1>1, <2>1, DeliveryIs, SendsAreCounted DEF Deliveries
  <2> HIDE DEF f
  <2>3. CASE f[2] = e[2]
    BY <1>1, <2>1, <2>2, <2>3 DEF SupersededBy
  <2>4. CASE f[2] < e[2]
    <3>1. Exists(f)
      BY <1>1, <2>1, <2>2, <2>4 DEF RowsInv, RowsSound
    <3> QED
      BY <2>2, <3>1, HistoryIs DEF SupersededBy
  <2> QED
    BY <1>1, <2>1, <2>2, <2>3, <2>4
<1>2. ASSUME SupersededBy(d) # {} PROVE \E e \in History(d[1]) : Exists(e) /\ e[2] > d[2]
  BY <1>2, DeliveryIs DEF SupersededBy
<1>3. Current(d) <=> \A e \in History(d[1]) : Exists(e) => e[2] <= d[2]
  BY DEF RowsInv, OneCurrentDelivery
<1>4. \A e \in History(d[1]) : e[2] \in 1..MaxSends /\ d[2] \in 1..MaxSends
  BY HistoryIs, DeliveryIs
<1> QED
  BY <1>1, <1>2, <1>3, <1>4

(* What is shown of a delivery is true. *)
LEMMA DeliveryReported ==
  ASSUME Care, NEW d \in Deliveries, Exists(d)
  PROVE  DeliveryIsTrue(d)
<1> DEFINE shown == DeliveryDetail(d)
<1>0. /\ RowsInv /\ WorkType /\ AcceptanceIsFinal /\ SendersSound
      /\ d[1] \in Creators /\ response[d[1]].state \in Choice \cup {"none"}
  BY DeliveryIs DEF Care, Base, RowsInv, StoreTypeOK
<1>1. shown.is_current <=> shown.superseded_by = {}
  BY <1>0, NextIsWritten DEF DeliveryDetail
<1>2. ASSUME shown.smtp_error # {} PROVE told[d] = 0
  <2>1. delivery[d].state = "failed"
    BY <1>2 DEF DeliveryDetail, SmtpError
  <2>2. told[d] \in Nat /\ told[d] <= 1 /\ told[d] # 1
    BY <1>0, <2>1 DEF AcceptanceIsFinal, WorkType
  <2> QED
    BY <2>2
<1>3. ASSUME shown.can_resend PROVE Resendable(d)
  BY <1>0, <1>3 DEF DeliveryDetail, Resendable
<1>4. ASSUME shown.can_resend, NEW i \in work, i.phase \in Owning PROVE i.delivery[1] # d[1]
  <2>1. i.delivery \in Deliveries /\ Sending(i.delivery)
    BY <1>0, <1>4, ItemIs DEF SendersSound
  <2>2. Current(d) /\ delivery[d].state # "sending"
    BY <1>3, <1>4 DEF Resendable
  <2>3. ASSUME i.delivery[1] = d[1] PROVE FALSE
    <3>1. i.delivery = d
      BY <1>0, <2>1, <2>2, <2>3, CurrentIsOne DEF Sending
    <3> QED
      BY <2>1, <2>2, <3>1 DEF Sending
  <2> QED
    BY <2>3
<1> QED
  BY <1>1, <1>2, <1>3, <1>4 DEF DeliveryIsTrue

(* What users read is true: of the campaign and its batches, and of each    *)
(* delivery, whose offered resend is accepted and overtakes no worker.      *)
THEOREM ReportsTrue == Spec => []ReportsAreTrue
<1>1. Care /\ BatchesTrue => ReportsAreTrue
  BY CampaignReported, DeliveryReported DEF ReportsAreTrue
<1> QED
  BY <1>1, BatchesInvariance, PTL

-----------------------------------------------------------------------------
(* Outreach implements CreatorMail *)

Letters == [c \in Creators |-> Cardinality(Written(c))]
Trying == [c \in Creators |-> \E d \in History(c) : Open(d)]

(* What a step is to the creators. *)
LEMMA MailIs ==
  /\ Mail!vars = <<Letters, Trying, told, mailbox, response>>
  /\ \A c : Mail!Last(c) = <<c, Letters[c]>>
  /\ \A cs : Mail!Write(cs) <=>
       /\ \A c \in cs : Letters[c] < MaxSends /\ ~Trying[c] /\ response[c].state = "none"
       /\ Letters' = [c \in Creators |-> IF c \in cs THEN Letters[c] + 1 ELSE Letters[c]]
       /\ Trying' = [c \in Creators |-> c \in cs \/ Trying[c]]
       /\ UNCHANGED <<told, mailbox, response>>
  /\ \A c, confirmed : Mail!Post(c, confirmed) <=>
       /\ Trying[c] /\ response[c].state = "none"
       /\ mailbox' = mailbox \cup {<<c, Letters[c]>>}
       /\ told[<<c, Letters[c]>>] = 0
       /\ told' = [told EXCEPT ![<<c, Letters[c]>>] = IF confirmed THEN 1 ELSE 0]
       /\ UNCHANGED <<Letters, Trying, response>>
  /\ \A c : Mail!GiveUp(c) <=>
       /\ Trying[c] /\ Trying' = [Trying EXCEPT ![c] = FALSE]
       /\ UNCHANGED <<Letters, told, mailbox, response>>
  /\ \A c : Mail!Answer(c) <=>
       /\ Letters[c] > 0 /\ response[c].state = "none" /\ ~Trying[c]
       /\ told[<<c, Letters[c]>>] = 1
       /\ \E choice \in Choice :
            response' = [response EXCEPT ![c] = [state |-> choice, by |-> Letters[c]]]
       /\ UNCHANGED <<Letters, Trying, told, mailbox>>
BY DEF Mail!vars, Mail!Last, Mail!Write, Mail!Post, Mail!GiveUp, Mail!Answer, Letters, Trying, Written

(* The current delivery is the last letter; its creator is being tried      *)
(* while it is open.                                                        *)
LEMMA CurrentIsLast ==
  ASSUME RowsInv, NEW d \in Deliveries, Current(d)
  PROVE  /\ Letters[d[1]] = d[2] /\ <<d[1], Letters[d[1]]>> = d
         /\ Trying[d[1]] <=> Open(d)
<1>1. d[1] \in Creators /\ d \in History(d[1]) /\ d = <<d[1], d[2]>>
  BY DeliveryIs
<1>2. Letters[d[1]] = d[2]
  BY <1>1 DEF Letters, RowsInv, Numbered
<1>3. ASSUME NEW e \in History(d[1]), Open(e) PROVE e = d
  <2>1. e \in Deliveries /\ e[1] = d[1]
    BY HistoryIs
  <2>2. Current(e)
    BY <1>3, <2>1 DEF RowsInv, RowsSound
  <2> QED
    BY <2>1, <2>2, CurrentIsOne
<1>4. Trying[d[1]] <=> Open(d)
  BY <1>1, <1>3 DEF Trying
<1> QED
  BY <1>1, <1>2, <1>4

LEMMA SameLetters ==
  ASSUME \A d \in Deliveries : Exists(d)' <=> Exists(d)
  PROVE  Letters' = Letters
<1>1. \A c : Written(c)' = Written(c)
  BY HistoryIs DEF Written
<1> QED
  BY <1>1 DEF Letters

LEMMA SameTrying ==
  ASSUME \A d \in Deliveries : delivery'[d].state = delivery[d].state
  PROVE  Trying' = Trying
<1>1. \A c : \A d \in History(c) : delivery'[d].state = delivery[d].state
  BY HistoryIs
<1>2. \A c : History(c)' = History(c)
  BY DEF History
<1> QED
  BY <1>1, <1>2 DEF Trying, Open

LEMMA AloneIsStutter ==
  ASSUME UNCHANGED <<store, told, mailbox>>
  PROVE  UNCHANGED Mail!vars
<1>1. UNCHANGED <<delivery, response>>
  BY DEF store
<1>2. Letters' = Letters /\ Trying' = Trying
  BY <1>1, SameLetters, SameTrying DEF Exists
<1> QED
  BY <1>1, <1>2 DEF Mail!vars, Letters, Trying, Written

LEMMA WritesIsWrite ==
  ASSUME RowsInv, NEW k \in Keys, NEW r, NEW new, Writes(k, r, new), new # {},
         UNCHANGED <<told, mailbox>>
  PROVE  \E cs \in (SUBSET Creators) \ {{}} : Mail!Write(cs)
<1> DEFINE cs == {e[1] : e \in new}
<1>0. /\ RowsInv' /\ Writable(new) /\ Replaces(k, new) /\ UNCHANGED response
      /\ new \in SUBSET Deliveries
  BY WritesKeepsRows DEF Writes, Writable
<1>1. cs \in (SUBSET Creators) \ {{}}
  BY <1>0, DeliveryIs
<1>2. ASSUME NEW c \in cs
      PROVE  /\ c \in Creators /\ Letters[c] < MaxSends /\ ~Trying[c] /\ response[c].state = "none"
             /\ Letters'[c] = Letters[c] + 1 /\ Trying'[c]
  <2>1. PICK e \in new : e[1] = c
    OBVIOUS
  <2>2. /\ e \in Deliveries /\ e \in FreeName(c) /\ c \in Creators /\ response[c].state = "none"
        /\ e[2] \in 1..MaxSends /\ e \in History(c)
    BY <1>0, <2>1, DeliveryIs DEF Writable
  <2>3. Cardinality(Written(c)) + 1 = e[2]
    BY <2>2, FreeNameIsNext
  <2>4. Cardinality(Written(c)) \in Nat
    BY <2>2, OpenIsFinite, FS_CardinalityType
  <2>5. delivery'[e] = Queued(k)
    BY <1>0, <2>1, ReplacesIs
  <2>6. Open(e)' /\ Current(e)'
    <3>1. delivery'[e].state = "queued" /\ delivery'[e].superseded = FALSE
      BY <2>5, QueuedIs
    <3> QED
      BY <3>1 DEF Open, Current, Exists
  <2>7. Cardinality(Written(c))' = e[2]
    BY <1>0, <2>1, <2>2, <2>6 DEF RowsInv, Numbered
  <2>8. ~Trying[c]
    BY <1>0, <2>1, <2>2, HistoryIs DEF Writable, Trying
  <2>9. History(c)' = History(c)
    BY DEF History
  <2>10. Trying'[c]
    BY <2>2, <2>6, <2>9 DEF Trying
  <2> QED
    BY <2>2, <2>3, <2>4, <2>7, <2>8, <2>10, SendsAreCounted DEF Letters
<1>3. ASSUME NEW c \in Creators \ cs PROVE Letters'[c] = Letters[c] /\ Trying'[c] = Trying[c]
  <2>1. ASSUME NEW d \in History(c)
        PROVE  (Exists(d)' <=> Exists(d)) /\ delivery'[d].state = delivery[d].state
    <3>1. d \in Deliveries \ new
      BY <1>3, HistoryIs
    <3> QED
      BY <1>0, <3>1, ReplacesIs
  <2>2. History(c)' = History(c)
    BY DEF History
  <2>3. Written(c)' = Written(c)
    BY <2>1, <2>2 DEF Written
  <2>4. (\E d \in History(c) : Open(d))' <=> \E d \in History(c) : Open(d)
    BY <2>1, <2>2 DEF Open
  <2> QED
    BY <2>3, <2>4 DEF Letters, Trying
<1>4. Letters' = [c \in Creators |-> IF c \in cs THEN Letters[c] + 1 ELSE Letters[c]]
  <2>1. Letters' = [c \in Creators |-> Letters'[c]]
    BY DEF Letters
  <2> HIDE DEF cs
  <2> QED
    BY <2>1, <1>2, <1>3
<1>5. Trying' = [c \in Creators |-> c \in cs \/ Trying[c]]
  <2>1. Trying' = [c \in Creators |-> Trying'[c]]
    BY DEF Trying
  <2>2. \A c \in Creators : Trying[c] \in BOOLEAN /\ Trying'[c] \in BOOLEAN
    BY DEF Trying
  <2> HIDE DEF cs
  <2>3. \A c \in Creators : Trying'[c] = (c \in cs \/ Trying[c])
    BY <2>2, <1>2, <1>3
  <2> QED
    BY <2>1, <2>3
<1> HIDE DEF cs
<1>6. Mail!Write(cs)
  BY <1>0, <1>2, <1>4, <1>5, MailIs
<1> QED
  BY <1>1, <1>6

(* An outcome gives a creator up, or leaves him to be tried again.          *)
LEMMA EndsIsMail ==
  ASSUME RowsInv, NEW d \in Deliveries, NEW state \in SendState, Ends(d, state),
         UNCHANGED <<told, mailbox>>
  PROVE  UNCHANGED Mail!vars \/ \E c \in Creators : Mail!GiveUp(c)
<1> DEFINE c == d[1]
<1>0. Current(d) /\ Open(d) /\ c \in Creators /\ d \in History(c) /\ UNCHANGED response
  BY DeliveryIs DEF RowsInv, RowsSound, Ends
<1>1. /\ delivery'[d].state = state
      /\ \A e \in Deliveries : e # d => delivery'[e] = delivery[e]
      /\ \A e \in Deliveries : Exists(e)' <=> Exists(e)
  BY EndsIs
<1>2. Letters' = Letters
  BY <1>1, SameLetters
<1>3. Trying[c]
  BY <1>0, CurrentIsLast
<1>4. ASSUME NEW x \in History(c), x # d PROVE ~Open(x)'
  <2>1. x \in Deliveries /\ x[1] = c
    BY <1>4, HistoryIs
  <2>2. ~Open(x)
    <3>1. ASSUME Open(x) PROVE FALSE
      <4>1. Current(x)
        BY <2>1, <3>1 DEF RowsInv, RowsSound
      <4> QED
        BY <1>0, <1>4, <2>1, <4>1, CurrentIsOne
    <3> QED
      BY <3>1
  <2> QED
    BY <1>1, <1>4, <2>1, <2>2 DEF Open
<1>5. ASSUME NEW e \in Creators, e # c PROVE Trying'[e] = Trying[e]
  <2>1. \A x \in History(e) : delivery'[x] = delivery[x]
    BY <1>1, <1>5, HistoryIs
  <2>2. History(e)' = History(e)
    BY DEF History
  <2>3. (\E x \in History(e) : Open(x))' <=> \E x \in History(e) : Open(x)
    BY <2>1, <2>2 DEF Open
  <2> QED
    BY <2>3 DEF Trying
<1>6. Trying'[c] <=> (state \in {"queued", "sending"})
  <2>1. History(c)' = History(c)
    BY DEF History
  <2>2. (\E x \in History(c) : Open(x))' <=> Open(d)'
    BY <1>0, <1>4, <2>1
  <2>3. Trying'[c] <=> (\E x \in History(c) : Open(x))'
    BY <1>0, <2>1 DEF Trying
  <2>4. Open(d)' <=> (state \in {"queued", "sending"})
    BY <1>1 DEF Open
  <2> QED
    BY <2>2, <2>3, <2>4
<1>7. Trying = [e \in Creators |-> Trying[e]] /\ Trying' = [e \in Creators |-> Trying'[e]]
  BY DEF Trying
<1> HIDE DEF c
<1>8. CASE state \in {"queued", "sending"}
  <2>1. Trying'[c] = Trying[c]
    <3>1. Trying'[c] \in BOOLEAN /\ Trying[c] \in BOOLEAN
      BY <1>0 DEF Trying
    <3> QED
      BY <1>3, <1>6, <1>8, <3>1
  <2>2. Trying' = Trying
    BY <1>5, <1>7, <2>1
  <2> QED
    BY <1>0, <1>2, <2>2 DEF Mail!vars, Letters, Trying, Written
<1>9. CASE state \notin {"queued", "sending"}
  <2>1. Trying'[c] = FALSE
    <3>1. Trying'[c] \in BOOLEAN
      BY <1>0 DEF Trying
    <3> QED
      BY <1>6, <1>9, <3>1
  <2>2. \A e \in Creators : Trying'[e] = [Trying EXCEPT ![c] = FALSE][e]
    BY <1>0, <1>5, <1>7, <2>1
  <2>3. Trying' = [Trying EXCEPT ![c] = FALSE]
    <3>1. [Trying EXCEPT ![c] = FALSE] = [e \in Creators |-> [Trying EXCEPT ![c] = FALSE][e]]
      BY <1>7
    <3> QED
      BY <1>7, <2>2, <3>1
  <2>4. Mail!GiveUp(c)
    BY <1>0, <1>2, <1>3, <2>3, MailIs
  <2> QED
    BY <1>0, <2>4
<1> QED
  BY <1>8, <1>9

LEMMA SendsIsMail ==
  ASSUME Base, NEW i \in work, Sends(i)
  PROVE  UNCHANGED Mail!vars \/ \E c \in Creators : Mail!Post(c, TRUE) \/ Mail!Post(c, FALSE)
<1> DEFINE d == i.delivery
           c == d[1]
<1>0. d \in Deliveries /\ c \in Creators /\ RowsInv /\ i.phase = "claimed" /\ UNCHANGED store
  BY ItemIs, DeliveryIs DEF Base, Sends
<1>1. Sending(d) /\ told[d] = 0
  BY <1>0, NotTold DEF Base, SendersSound, Owning
<1>2. <<c, Letters[c]>> = d /\ Trying[c]
  BY <1>0, <1>1, CurrentIsLast, SendingIsOpen
<1>3. response[c].state = "none"
  BY <1>0, <1>1, AnsweredIsClosed, SendingIsOpen
<1>4. UNCHANGED <<delivery, response>>
  BY <1>0 DEF store
<1>5. Letters' = Letters /\ Trying' = Trying
  BY <1>4, SameLetters, SameTrying DEF Exists
<1>6. told \in [Deliveries -> Nat]
  BY DEF Base, WorkType
<1>7. /\ [told EXCEPT ![d] = @ + 1] = [told EXCEPT ![d] = 1]
      /\ told = [told EXCEPT ![d] = 0]
  BY <1>0, <1>1, <1>6
<1> HIDE DEF c
<1>8. CASE Accept(d) /\ told' = [told EXCEPT ![d] = @ + 1]
  <2>1. Mail!Post(c, TRUE)
    BY <1>1, <1>2, <1>3, <1>4, <1>5, <1>7, <1>8, MailIs DEF Accept
  <2> QED
    BY <1>0, <2>1
<1>9. CASE Accept(d) /\ UNCHANGED told
  <2>1. Mail!Post(c, FALSE)
    BY <1>1, <1>2, <1>3, <1>4, <1>5, <1>7, <1>9, MailIs DEF Accept
  <2> QED
    BY <1>0, <2>1
<1>10. CASE UNCHANGED <<mailbox, told>>
  BY <1>0, <1>10, AloneIsStutter
<1> QED
  BY <1>8, <1>9, <1>10 DEF Sends

LEMMA AnswerIsAnswer ==
  ASSUME Base, NEW d \in Deliveries, Answer(d)
  PROVE  \E c \in Creators : Mail!Answer(c)
<1> DEFINE c == d[1]
<1>0. RowsInv /\ c \in Creators /\ d[2] \in 1..MaxSends
  BY DeliveryIs DEF Base
<1>1. PICK choice \in Choice : ConfirmResponse(d, choice)
  BY DEF Answer
<1>2. /\ response[c].state = "none" /\ Current(d) /\ delivery[d].state = "sent"
      /\ response' = [response EXCEPT ![c] = [state |-> choice, by |-> d[2]]]
      /\ UNCHANGED <<told, mailbox>>
  BY <1>1 DEF ConfirmResponse, Eligible, Answer
<1>3. Letters[c] = d[2] /\ <<c, Letters[c]>> = d /\ ~Trying[c]
  BY <1>0, <1>2, CurrentIsLast DEF Open
<1>4. told[d] = 1
  BY <1>2 DEF Base, AcceptanceIsFinal
<1>5. \A e \in Deliveries : delivery'[e].state = delivery[e].state /\ (Exists(e)' <=> Exists(e))
  BY <1>0, <1>1, ConfirmIsQuiet
<1>6. Letters' = Letters /\ Trying' = Trying
  BY <1>5, SameLetters, SameTrying
<1> HIDE DEF c
<1>7. Letters[c] > 0
  BY <1>0, <1>3, SendsAreCounted
<1> QED
  BY <1>0, <1>2, <1>3, <1>4, <1>6, <1>7, MailIs

(* Only the mail server's answer, and a lost one, reach mailbox or told.    *)
LEMMA MailboxStep ==
  ASSUME [Next]_vars
  PROVE  UNCHANGED <<told, mailbox>> \/ \E i \in work : Sends(i)
<1>1. ASSUME NEW k \in Keys, ApiStep(k) \/ Crash(k) \/ ClientStep(k)
      PROVE  UNCHANGED <<told, mailbox>>
  BY <1>1 DEF ApiStep, Execute, Replayed, Send, Crash, ClientStep, Ask, Repeat, Abandon
<1>2. ASSUME NEW i \in work, WorkerStep(i), ~Sends(i)
      PROVE  UNCHANGED <<told, mailbox>>
  BY <1>2 DEF WorkerStep, Claims, MarksOutcome, Releases
<1>3. ASSUME NEW i \in work, Disturbance(i) PROVE UNCHANGED <<told, mailbox>>
  BY <1>3 DEF Disturbance
<1>4. ASSUME NEW d \in Deliveries, Answer(d) PROVE UNCHANGED <<told, mailbox>>
  BY <1>4 DEF Answer
<1>5. CASE UNCHANGED vars
  BY <1>5 DEF vars
<1> QED
  BY <1>1, <1>2, <1>3, <1>4, <1>5 DEF Next, ServerStep

LEMMA StepIsMail ==
  ASSUME Care, [Next]_vars
  PROVE  [Mail!Next]_(Mail!vars)
<1>0. Base /\ RowsInv
  BY DEF Care, Base
<1>1. ASSUME NEW i \in work, Sends(i) PROVE [Mail!Next]_(Mail!vars)
  BY <1>0, <1>1, SendsIsMail DEF Mail!Next
<1>2. ASSUME NEW d \in Deliveries, Answer(d) PROVE [Mail!Next]_(Mail!vars)
  BY <1>0, <1>2, AnswerIsAnswer DEF Mail!Next
<1>3. CASE UNCHANGED <<told, mailbox>>
  <2>1. ASSUME NEW d \in Deliveries, NEW state \in SendState, Ends(d, state)
        PROVE  [Mail!Next]_(Mail!vars)
    BY <1>0, <1>3, <2>1, EndsIsMail DEF Mail!Next
  <2>2. ASSUME NEW k \in Keys, NEW r \in Request, NEW new, NewKeyWrites(k, r, new)
        PROVE  [Mail!Next]_(Mail!vars)
    BY <1>0, <1>3, <2>2, WritesIsWrite DEF Mail!Next, NewKeyWrites
  <2>3. CASE UNCHANGED store
    BY <1>3, <2>3, AloneIsStutter
  <2> QED
    BY <1>2, <2>1, <2>2, <2>3, StoreStep
<1> QED
  BY <1>1, <1>3, MailboxStep

(* Batches, messages and workers implement what creators are promised:      *)
(* whatever retries, resends and faults meet, a creator gets one letter at  *)
(* a time, and his first answer, to the last of them, ends it.              *)
THEOREM MailImplemented == Spec => ImplementsMail
<1>1. Init => Mail!Init
  <2> SUFFICES ASSUME Init PROVE Mail!Init
    OBVIOUS
  <2>1. \A d \in Deliveries : ~Exists(d) /\ ~Open(d)
    BY DEF Init, StoreInit, NoRow, Exists, Open
  <2>2. \A c : {d \in History(c) : Exists(d)} = {} /\ ~\E d \in History(c) : Open(d)
    BY <2>1, HistoryIs
  <2>3. Cardinality({}) = 0
    BY FS_EmptySet
  <2>4. /\ [c \in Creators |-> Cardinality({d \in History(c) : Exists(d)})] = [c \in Creators |-> 0]
        /\ [c \in Creators |-> \E d \in History(c) : Open(d)] = [c \in Creators |-> FALSE]
    BY <2>2, <2>3
  <2>5. /\ response = [c \in Creators |-> [state |-> "none", by |-> 0]]
        /\ told = [d \in Creators \X (1..MaxSends) |-> 0] /\ mailbox = {}
    BY DEF Init, StoreInit, NoResponse, Deliveries
  <2> QED
    BY <2>4, <2>5 DEF Mail!Init, Mail!NoAnswer
<1>2. Care /\ [Next]_vars => [Mail!Next]_(Mail!vars)
  BY StepIsMail
<1> QED
  BY <1>1, <1>2, CareInvariance, PTL DEF Spec, ImplementsMail, Mail!Spec

=============================================================================
