--------------------------- MODULE ServiceProofs ----------------------------
(***************************************************************************)
(* What TLAPS proves of four parts of the backend that share no state: the  *)
(* limiter of the mail that is sent, the connections to the services and    *)
(* their tests, the command that seeds creators, and the upgrade of the     *)
(* analysis jobs, each for every set of callers and every bound.            *)
(***************************************************************************)
EXTENDS SmtpLimiter, SmtpSettings, SeedCreators, AnalysisUpgrade, SequenceTheorems, TLAPS

-----------------------------------------------------------------------------
(* The limiter keeps its rate, for every length of a minute and every clock *)
(* that does not step back.  Since any tick t the bucket has gained no more *)
(* than the greatest rate allows, so what was taken since t and what it would *)
(* hold now for the fastest caller are together within the bound.           *)

(* What the bucket holds for the fastest caller.                            *)
Full == MaxRate * Minute
Content == IF updated = Never THEN Full
           ELSE Least(Full, parts + (clock - updated) * MaxRate)

LimiterTypes ==
  /\ clock \in 0..MaxClock /\ parts \in 0..Full
  /\ updated \in {Never} \cup 0..clock /\ granted \in [0..MaxClock -> Nat]

Accounted ==
  /\ \A t \in 0..clock : granted[t] * Minute + Content <= Full + MaxRate * (clock - t)
  /\ \A t \in 0..MaxClock : t > clock => granted[t] = 0

LimiterInv == LimiterTypes /\ Accounted

(* A product grows with each of its factors. *)
LEMMA ProductGrows ==
  ASSUME NEW a \in Nat, NEW b \in Nat, NEW c \in Nat, a <= b
  PROVE  a * c <= b * c
<1>1. PICK d \in Nat : b = a + d
  <2>1. b - a \in Nat /\ b = a + (b - a)
    OBVIOUS
  <2> QED BY <2>1
<1>2. b * c = a * c + d * c
  BY <1>1
<1>3. d * c \in Nat
  OBVIOUS
<1> QED BY <1>2, <1>3

(* The bucket's size is a number, and so is every rate. *)
LEMMA Numbers == Full \in Nat /\ Minute \in Nat \ {0} /\ MaxRate \in Nat /\ MaxClock \in Nat
                 /\ \A rate \in Rates : rate \in Nat /\ rate <= MaxRate
BY LimiterAssumption DEF Full

(* No caller finds more in the bucket than the fastest would. *)
LEMMA RefilledWithin ==
  ASSUME LimiterTypes, NEW rate \in Rates
  PROVE  /\ Refilled(rate) \in Nat /\ Refilled(rate) <= Content /\ Refilled(rate) <= Full
         /\ Content \in Nat /\ Content <= Full
<1>1. rate \in Nat /\ rate <= MaxRate /\ MaxRate \in Nat /\ Minute \in Nat /\ Full \in Nat
  BY Numbers
<1>2. rate * Minute \in Nat /\ rate * Minute <= Full
  BY <1>1, ProductGrows DEF Full
<1>3. CASE updated = Never
  BY <1>1, <1>2, <1>3 DEF Refilled, Content
<1>4. CASE updated # Never
  <2>1. PICK n \in Nat : n = clock - updated
    BY <1>4 DEF LimiterTypes
  <2>2. rate * n <= MaxRate * n /\ n * rate \in Nat /\ n * MaxRate \in Nat
    BY <1>1, ProductGrows
  <2>3. n * rate <= n * MaxRate
    BY <2>2, <1>1
  <2>4. parts \in Nat
    BY DEF LimiterTypes, Full
  <2>5. Refilled(rate) = Least(rate * Minute, parts + n * rate)
    BY <1>4, <2>1 DEF Refilled
  <2>6. Content = Least(Full, parts + n * MaxRate)
    BY <1>4, <2>1 DEF Content
  <2> HIDE DEF Full
  <2> QED BY <1>1, <1>2, <2>2, <2>3, <2>4, <2>5, <2>6 DEF Least
<1> QED BY <1>3, <1>4

LEMMA LimiterBegins == LimiterInit => LimiterInv
<1> SUFFICES ASSUME LimiterInit PROVE LimiterInv
  OBVIOUS
<1>1. LimiterTypes
  BY Numbers DEF LimiterInit, LimiterTypes
<1>2. ASSUME NEW t \in 0..clock
      PROVE  granted[t] * Minute + Content <= Full + MaxRate * (clock - t)
  <2>1. t = 0 /\ clock = 0 /\ granted[t] = 0 /\ Content = Full
    BY Numbers DEF LimiterInit, Content
  <2> QED BY <2>1, Numbers
<1>3. \A t \in 0..MaxClock : t > clock => granted[t] = 0
  BY DEF LimiterInit
<1> QED BY <1>1, <1>2, <1>3 DEF LimiterInv, Accounted

(* A call takes from the bucket what it grants. *)
LEMMA AcquireKeeps ==
  ASSUME LimiterInv, NEW rate \in Rates, Acquire(rate)
  PROVE  LimiterInv'
<1> DEFINE now == Refilled(rate)
<1>1. now \in Nat /\ now <= Content /\ now <= Full /\ Content \in Nat
  BY RefilledWithin DEF LimiterInv
<1>2. clock' = clock /\ updated' = clock /\ clock \in Nat /\ clock \in 0..MaxClock
  BY DEF Acquire, LimiterInv, LimiterTypes
<1>3. parts' \in Nat /\ parts' <= now
  BY <1>1, Numbers DEF Acquire
<1>4. granted' \in [0..MaxClock -> Nat]
  BY <1>2 DEF Acquire, LimiterInv, LimiterTypes
<1>5. LimiterTypes'
  BY <1>1, <1>2, <1>3, <1>4, Numbers DEF LimiterTypes, Full
<1>6. Content' = parts'
  <2>1. updated' # Never /\ clock' - updated' = 0
    BY <1>2 DEF Never
  <2>2. Content' = Least(Full, parts' + 0 * MaxRate)
    BY <2>1 DEF Content, Full
  <2>3. Least(Full, parts') = parts'
    BY <1>1, <1>3, Numbers DEF Least
  <2> QED BY <1>3, <2>2, <2>3, Numbers
<1>7. ASSUME NEW t \in 0..clock
      PROVE  granted'[t] * Minute + parts' <= granted[t] * Minute + now
  <2>1. granted[t] \in Nat /\ t \in 0..MaxClock /\ t <= clock /\ Minute \in Nat
    BY <1>2, Numbers DEF LimiterInv, LimiterTypes
  <2>2. CASE granted' = granted
    BY <1>1, <1>3, <2>1, <2>2
  <2>3. CASE parts' = now - Minute /\ granted'[t] = granted[t] + 1
    <3>1. (granted[t] + 1) * Minute = granted[t] * Minute + Minute
      BY <2>1
    <3> QED BY <1>1, <2>1, <2>3, <3>1
  <2> QED BY <2>1, <2>2, <2>3 DEF Acquire
<1>8. ASSUME NEW t \in 0..clock
      PROVE  granted'[t] * Minute + parts' <= Full + MaxRate * (clock - t)
  <2>1. granted[t] * Minute + Content <= Full + MaxRate * (clock - t)
    BY DEF LimiterInv, Accounted
  <2>2. granted[t] \in Nat /\ granted'[t] \in Nat /\ Minute \in Nat /\ MaxRate \in Nat
        /\ clock - t \in Nat
    BY <1>2, <1>4, Numbers DEF LimiterInv, LimiterTypes
  <2>3. granted[t] * Minute \in Nat /\ granted'[t] * Minute \in Nat
        /\ MaxRate * (clock - t) \in Nat
    BY <2>2
  <2> QED BY <1>1, <1>3, <1>7, <2>1, <2>3, Numbers
<1>9. ASSUME NEW t \in 0..MaxClock, t > clock PROVE granted'[t] = 0
  <2>1. granted[t] = 0 /\ ~(t <= clock)
    BY <1>2, <1>9 DEF LimiterInv, Accounted
  <2> QED BY <2>1 DEF Acquire
<1>10. Accounted'
  BY <1>2, <1>6, <1>8, <1>9 DEF Accounted, Full
<1> QED BY <1>5, <1>10 DEF LimiterInv

(* A tick gives the bucket no more than the bound gains, and a bucket that  *)
(* expires was full.                                                        *)
LEMMA TickKeeps ==
  ASSUME LimiterInv, Tick
  PROVE  LimiterInv'
<1>1. clock' = clock + 1 /\ clock \in Nat /\ clock + 1 \in 0..MaxClock /\ parts' = parts
      /\ granted' = granted /\ parts \in Nat /\ parts <= Full
  BY Numbers DEF Tick, LimiterInv, LimiterTypes
<1>2. LimiterTypes'
  BY <1>1, Numbers DEF Tick, LimiterInv, LimiterTypes, Full
<1>3. Content \in Nat /\ Content' \in Nat /\ Content' <= Full /\ Content' <= Content + MaxRate
  <2>1. CASE updated = Never
    BY <1>1, <2>1, Numbers DEF Tick, Content, Full
  <2>2. CASE updated # Never
    <3>1. PICK n \in Nat : n = clock - updated
      BY <2>2 DEF LimiterInv, LimiterTypes
    <3>2. n * MaxRate \in Nat /\ (n + 1) * MaxRate = n * MaxRate + MaxRate
      BY Numbers
    <3>3. Content = Least(Full, parts + n * MaxRate)
      BY <2>2, <3>1 DEF Content
    <3>4. CASE updated' = Never
      <4>1. n + 1 >= 2 * Minute
        BY <1>1, <2>2, <3>1, <3>4 DEF Tick, LimiterInv, LimiterTypes, Never
      <4>2. Minute <= n
        BY <4>1, Numbers
      <4>3. Minute * MaxRate <= n * MaxRate
        BY <4>2, ProductGrows, Numbers
      <4>4. Full <= n * MaxRate
        BY <4>3, Numbers DEF Full
      <4>5. Content' = Full
        BY <3>4 DEF Content, Full
      <4>6. Content = Full
        BY <1>1, <3>2, <3>3, <4>4, Numbers DEF Least
      <4> QED BY <4>5, <4>6, Numbers
    <3>5. CASE updated' # Never
      <4>1. updated' = updated /\ clock' - updated' = n + 1
        BY <1>1, <2>2, <3>1, <3>5 DEF Tick, LimiterInv, LimiterTypes, Never
      <4>2. Content' = Least(Full, parts + (n + 1) * MaxRate)
        BY <1>1, <3>5, <4>1 DEF Content, Full
      <4> QED BY <1>1, <3>2, <3>3, <4>2, Numbers DEF Least
    <3> QED BY <3>4, <3>5
  <2> QED BY <2>1, <2>2
<1>4. ASSUME NEW t \in 0..(clock + 1)
      PROVE  granted'[t] * Minute + Content' <= Full + MaxRate * (clock + 1 - t)
  <2>1. CASE t = clock + 1
    <3>1. granted'[t] = 0
      BY <1>1, <2>1 DEF LimiterInv, Accounted
    <3>2. granted'[t] * Minute = 0 /\ clock + 1 - t = 0 /\ MaxRate * (clock + 1 - t) = 0
      BY <1>1, <2>1, <3>1, Numbers
    <3> QED BY <1>3, <3>2, Numbers
  <2>2. CASE t \in 0..clock
    <3>1. granted[t] * Minute + Content <= Full + MaxRate * (clock - t)
      BY <2>2 DEF LimiterInv, Accounted
    <3>2. PICK n \in Nat : n = clock - t
      BY <1>1, <2>2
    <3>3. MaxRate * (n + 1) = MaxRate * n + MaxRate /\ MaxRate * n \in Nat /\ clock + 1 - t = n + 1
      BY <1>1, <2>2, <3>2, Numbers
    <3>4. granted[t] * Minute \in Nat
      BY <1>1, <2>2, Numbers DEF LimiterInv, LimiterTypes
    <3> QED BY <1>1, <1>3, <3>1, <3>2, <3>3, <3>4, Numbers
  <2> QED BY <1>1, <2>1, <2>2
<1>5. \A t \in 0..MaxClock : t > clock + 1 => granted'[t] = 0
  BY <1>1 DEF LimiterInv, Accounted
<1>6. Accounted'
  BY <1>1, <1>4, <1>5 DEF Accounted, Full
<1> QED BY <1>2, <1>6 DEF LimiterInv

(* The shapes of the bucket and of its history, and the account: what was   *)
(* taken since any tick and what is left never exceed what was gained.      *)
THEOREM LimiterAccounts == LimiterSpec => []LimiterInv
<1>1. LimiterInv /\ [LimiterNext]_limiterVars => LimiterInv'
  <2> SUFFICES ASSUME LimiterInv, [LimiterNext]_limiterVars PROVE LimiterInv'
    OBVIOUS
  <2>1. CASE Tick
    BY <2>1, TickKeeps
  <2>2. ASSUME NEW rate \in Rates, Acquire(rate) PROVE LimiterInv'
    BY <2>2, AcquireKeeps
  <2>3. CASE UNCHANGED limiterVars
    BY <2>3 DEF LimiterInv, LimiterTypes, Accounted, Content, Full, limiterVars
  <2> QED BY <2>1, <2>2, <2>3 DEF LimiterNext
<1> QED BY <1>1, LimiterBegins, PTL DEF LimiterSpec

(* No interval sees more mail than the bucket holds and gains in it.        *)
THEOREM RateIsKept == LimiterSpec => []WithinRate
<1>1. LimiterInv => WithinRate
  <2> SUFFICES ASSUME LimiterInv, NEW t \in 0..clock
               PROVE  granted[t] * Minute <= MaxRate * (Minute + clock - t)
    BY DEF WithinRate
  <2>1. granted[t] * Minute + Content <= Full + MaxRate * (clock - t)
    BY DEF LimiterInv, Accounted
  <2>2. PICK n \in Nat : n = clock - t
    BY DEF LimiterInv, LimiterTypes
  <2>3. MaxRate * (Minute + n) = MaxRate * Minute + MaxRate * n /\ Minute + clock - t = Minute + n
    BY <2>2, Numbers DEF LimiterInv, LimiterTypes
  <2>4. granted[t] * Minute \in Nat /\ MaxRate * n \in Nat
    BY <2>2, Numbers DEF LimiterInv, LimiterTypes
  <2>5. Content \in Nat
    <3>1. CASE updated = Never
      BY <3>1, Numbers DEF Content
    <3>2. CASE updated # Never
      <4>1. PICK k \in Nat : k = clock - updated
        BY <3>2 DEF LimiterInv, LimiterTypes
      <4>2. k * MaxRate \in Nat /\ parts \in Nat
        BY Numbers DEF LimiterInv, LimiterTypes
      <4> QED BY <3>2, <4>1, <4>2, Numbers DEF Content, Least
    <3> QED BY <3>1, <3>2
  <2> QED BY <2>1, <2>2, <2>3, <2>4, <2>5, Numbers DEF Full
<1> QED BY <1>1, LimiterAccounts, PTL

-----------------------------------------------------------------------------
(* A test of a connection records its verdict under the lock that saves take, *)
(* on the row it reads again, and only if that holds what was tested.       *)

(* A request that tests a connection knows which.                           *)
TestsKnow ==
  \A t \in Tests :
    /\ test[t].phase = "loading" => test[t].service = "smtp"
    /\ test[t].phase = "probing" =>
         test[t].service \in AllServices /\ (test[t].service # "smtp" => test[t].public = Unset)

(* Only SMTP has public metadata.                                           *)
OthersArePlain == \A s \in Services : connection[s].public = Unset

SmtpInv == SmtpTypeOK /\ TestsKnow /\ OthersArePlain

VerdictStep ==
  \A s \in AllServices :
    LET c == connection'[s]
    IN c.row \notin {NoVerdict, connection[s].row} =>
         c.row.secret = c.secret /\ c.row.public = c.public

LEMMA NoVerdictYet ==
  /\ NoVerdict \in Verdict /\ Unconfigured \in Connection /\ Unconfigured.row = NoVerdict
  /\ NewUpdate \in Update /\ NewTest \in Test /\ NewTest.phase = "new"
  /\ "smtp" \in AllServices /\ \A s \in Services : s \in AllServices
BY DEF NoVerdict, Verdict, Unconfigured, Connection, NewUpdate, Update, NewTest, Test,
       Secret, Public, AllServices

LEMMA AskSound ==
  ASSUME SmtpInv, NEW u \in Updates, AskUpdate(u)
  PROVE  SmtpInv' /\ VerdictStep
<1>1. connection["smtp"] \in Connection
  BY NoVerdictYet DEF SmtpInv, SmtpTypeOK
<1>2. PICK new \in Update : update' = [update EXCEPT ![u] = new]
  <2>1. PICK p \in Publics, given \in BOOLEAN :
          update' = [update EXCEPT ![u] =
            [phase |-> IF connection["smtp"].secret = Unset /\ ~given THEN "refused" ELSE "read",
             service |-> "smtp", public |-> p, password |-> given,
             known |-> connection["smtp"].secret # Unset, object |-> connection["smtp"].row]]
    BY DEF AskUpdate
  <2>2. [phase |-> IF connection["smtp"].secret = Unset /\ ~given THEN "refused" ELSE "read",
         service |-> "smtp", public |-> p, password |-> given,
         known |-> connection["smtp"].secret # Unset, object |-> connection["smtp"].row] \in Update
    BY <1>1, NoVerdictYet DEF Update, Connection, Public
  <2> QED
    BY <2>1, <2>2
<1> QED
  BY <1>2 DEF AskUpdate, SmtpInv, SmtpTypeOK, TestsKnow, OthersArePlain, VerdictStep

LEMMA SaveSound ==
  ASSUME SmtpInv, NEW u \in Updates, SaveUpdate(u)
  PROVE  SmtpInv' /\ VerdictStep
<1>1. connection["smtp"] \in Connection /\ update[u] \in Update
  BY NoVerdictYet DEF SmtpInv, SmtpTypeOK
<1>2. PICK c, object :
        /\ connection' = [connection EXCEPT !["smtp"] = c]
        /\ c \in Connection /\ c.row \in {NoVerdict, connection["smtp"].row}
        /\ object \in Verdict
        /\ update' = [update EXCEPT ![u].phase = "done", ![u].object = object]
  <2> DEFINE k == connection["smtp"]
             reset == k.public # update[u].public \/ update[u].password
             secret == IF update[u].password THEN u ELSE k.secret
             row == IF update[u].password THEN NoVerdict
                    ELSE IF reset THEN Flushed(u, k.row) ELSE k.row
             object == IF reset /\ ~(update[u].password /\ update[u].known)
                         THEN NoVerdict ELSE update[u].object
             shared == IF reset THEN NoVerdict ELSE object
  <2>1. /\ connection' = [connection EXCEPT !["smtp"] =
             [secret |-> secret, public |-> update[u].public, row |-> row, shared |-> shared]]
        /\ update' = [update EXCEPT ![u].phase = "done", ![u].object = object]
    BY DEF SaveUpdate
  <2>2. row \in {NoVerdict, k.row} /\ row \in Verdict
    BY <1>1, NoVerdictYet DEF Flushed, Connection
  <2>3. object \in Verdict /\ shared \in Verdict
    BY <1>1, NoVerdictYet DEF Update
  <2>4. secret \in Secret /\ update[u].public \in Public
    BY <1>1 DEF Secret, Connection, Update
  <2> HIDE DEF row, object, shared, secret
  <2>5. [secret |-> secret, public |-> update[u].public, row |-> row, shared |-> shared]
          \in Connection
    BY <2>2, <2>3, <2>4 DEF Connection
  <2> QED
    BY <2>1, <2>2, <2>3, <2>5
<1>3. update' \in [Updates -> Update]
  BY <1>2 DEF SmtpInv, SmtpTypeOK, Update
<1>4. /\ connection' \in [AllServices -> Connection] /\ connection'["smtp"] = c
      /\ \A s \in AllServices \ {"smtp"} : connection'[s] = connection[s]
  BY <1>2, NoVerdictYet DEF SmtpInv, SmtpTypeOK
<1>5. SmtpInv'
  BY <1>3, <1>4, SmtpAssumption, NoVerdictYet
     DEF SaveUpdate, SmtpInv, SmtpTypeOK, TestsKnow, OthersArePlain
<1>6. VerdictStep
  <2> SUFFICES ASSUME NEW s \in AllServices, connection'[s].row \notin {NoVerdict, connection[s].row}
               PROVE  FALSE
    BY DEF VerdictStep
  <2>1. s = "smtp"
    BY <1>4
  <2> QED
    BY <1>2, <1>4, <2>1
<1> QED
  BY <1>5, <1>6

LEMMA ReplaceSound ==
  ASSUME SmtpInv, NEW u \in Updates, NEW s \in Services, ReplaceConnection(u, s)
  PROVE  SmtpInv' /\ VerdictStep
<1>0. connection[s] \in Connection
  BY NoVerdictYet DEF SmtpInv, SmtpTypeOK
<1>1. PICK c : c = WithMetadata([connection[s] EXCEPT !.secret = u, !.row = NoVerdict], NoVerdict)
  OBVIOUS
<1>2. /\ c \in Connection /\ c.row = NoVerdict /\ c.public = Unset
      /\ connection' = [connection EXCEPT ![s] = c]
  BY <1>0, <1>1, NoVerdictYet
     DEF Connection, Secret, Public, ReplaceConnection, WithMetadata, SmtpInv, SmtpTypeOK
<1>3. [NewUpdate EXCEPT !.phase = "done", !.service = s, !.password = TRUE] \in Update
  BY NoVerdictYet DEF Update
<1> QED
  BY <1>2, <1>3, NoVerdictYet
     DEF ReplaceConnection, SmtpInv, SmtpTypeOK, TestsKnow, OthersArePlain, VerdictStep

LEMMA TestBeginSound ==
  ASSUME SmtpInv, NEW t \in Tests,
         \/ GiveUpTest(t) \/ LoadSmtpSettings(t) \/ LoadSmtpSecret(t)
         \/ \E s \in Services : LoadTest(t, s)
  PROVE  SmtpInv' /\ VerdictStep
<1>1. CASE GiveUpTest(t)
  BY <1>1 DEF GiveUpTest, SmtpInv, SmtpTypeOK, TestsKnow, OthersArePlain, VerdictStep, Test
<1>2. ASSUME NEW s \in Services, LoadTest(t, s) PROVE SmtpInv' /\ VerdictStep
  <2>1. PICK new \in Test :
          /\ test' = [test EXCEPT ![t] = new] /\ new.phase # "loading"
          /\ new.phase = "probing" => /\ new.service \in AllServices
                                      /\ new.service # "smtp" => new.public = Unset
    <3>1. connection[s] \in Connection /\ s \in AllServices
      BY NoVerdictYet DEF SmtpInv, SmtpTypeOK
    <3>2. [NewTest EXCEPT !.phase = "refused", !.service = s] \in Test
      BY NoVerdictYet DEF Test
    <3>3. [phase |-> "probing", service |-> s, secret |-> connection[s].secret,
           public |-> connection[s].public] \in Test
      BY <3>1 DEF Test, Connection
    <3>4. [NewTest EXCEPT !.phase = "refused", !.service = s].phase = "refused"
      BY DEF NewTest
    <3> QED
      BY <1>2, <3>2, <3>3, <3>4 DEF LoadTest, SmtpInv, OthersArePlain, AllServices
  <2> QED
    BY <1>2, <2>1 DEF LoadTest, SmtpInv, SmtpTypeOK, TestsKnow, OthersArePlain, VerdictStep
<1>3. ASSUME LoadSmtpSettings(t) \/ LoadSmtpSecret(t) PROVE SmtpInv' /\ VerdictStep
  <2>1. connection["smtp"] \in Connection /\ test[t] \in Test
    BY NoVerdictYet DEF SmtpInv, SmtpTypeOK
  <2>2. CASE LoadSmtpSettings(t)
    <3>1. PICK new : /\ test' = [test EXCEPT ![t] = new]
                     /\ new = [test[t] EXCEPT !.phase = "loading", !.service = "smtp",
                                               !.public = connection["smtp"].public]
      BY <2>2 DEF LoadSmtpSettings
    <3>2. new \in Test /\ new.phase = "loading"
      BY <2>1, <3>1, NoVerdictYet DEF Test, Connection
    <3> QED
      BY <2>2, <3>1, <3>2
         DEF LoadSmtpSettings, SmtpInv, SmtpTypeOK, TestsKnow, OthersArePlain, VerdictStep
  <2>3. CASE LoadSmtpSecret(t)
    <3>1. PICK new : /\ test' = [test EXCEPT ![t] = new]
                     /\ new \in {[test[t] EXCEPT !.phase = "refused"],
                                 [test[t] EXCEPT !.phase = "probing",
                                                 !.secret = connection["smtp"].secret]}
      BY <2>3 DEF LoadSmtpSecret
    <3>2. new \in Test /\ new.service = test[t].service
      BY <2>1, <3>1 DEF Test, Connection
    <3>3. test[t].service = "smtp"
      BY <2>3 DEF LoadSmtpSecret, SmtpInv, TestsKnow
    <3> QED
      BY <2>3, <3>1, <3>2, <3>3, NoVerdictYet
         DEF LoadSmtpSecret, SmtpInv, SmtpTypeOK, TestsKnow, OthersArePlain, VerdictStep
  <2> QED
    BY <1>3, <2>2, <2>3
<1> QED
  BY <1>1, <1>2, <1>3

(* The end of a test leaves it known and of its shape.                      *)
LEMMA EndTestSound ==
  ASSUME SmtpInv, NEW t \in Tests, NEW phase \in {"done", "changed"}, EndTest(t, phase)
  PROVE  test' \in [Tests -> Test] /\ TestsKnow' /\ update' \in [Updates -> Update]
BY DEF EndTest, SmtpInv, SmtpTypeOK, TestsKnow, Test

LEMMA VerdictsShape ==
  ASSUME SmtpInv, NEW t \in Tests, NEW verdict \in Verdicts(t)
  PROVE  verdict \in Verdict /\ verdict.secret = test[t].secret /\ verdict.public = test[t].public
<1>1. test[t] \in Test
  BY DEF SmtpInv, SmtpTypeOK
<1> QED
  BY <1>1 DEF Verdicts, Verdict, Test

(* What is recorded is of what is stored: it is compared first.             *)
LEMMA RecordSmtpSound ==
  ASSUME SmtpInv, NEW t \in Tests, RecordSmtpTest(t)
  PROVE  SmtpInv' /\ VerdictStep
<1> DEFINE c == connection["smtp"]
<1>1. c \in Connection
  BY NoVerdictYet DEF SmtpInv, SmtpTypeOK
<1>2. CASE UNCHANGED connection
  <2>1. PICK phase \in {"done", "changed"} : EndTest(t, phase)
    BY DEF RecordSmtpTest
  <2> QED
    BY <1>2, <2>1, EndTestSound DEF SmtpInv, SmtpTypeOK, OthersArePlain, VerdictStep
<1>3. ASSUME Unchanged(t, c), EndTest(t, "done"), NEW verdict \in Verdicts(t),
             connection' = [connection EXCEPT !["smtp"].row = verdict,
                                              !["smtp"].shared = verdict]
      PROVE  SmtpInv' /\ VerdictStep
  <2>1. /\ connection' \in [AllServices -> Connection]
        /\ connection'["smtp"].row = verdict /\ connection'["smtp"].secret = c.secret
        /\ connection'["smtp"].public = c.public
        /\ \A o \in AllServices \ {"smtp"} : connection'[o] = connection[o]
    BY <1>1, <1>3, VerdictsShape, NoVerdictYet DEF SmtpInv, SmtpTypeOK, Connection
  <2>2. OthersArePlain'
    BY <2>1, SmtpAssumption, NoVerdictYet DEF SmtpInv, OthersArePlain
  <2> QED
    BY <1>3, <2>1, <2>2, VerdictsShape, EndTestSound
       DEF Unchanged, SmtpInv, SmtpTypeOK, VerdictStep
<1> QED
  BY <1>2, <1>3 DEF RecordSmtpTest

LEMMA RecordConnectionSound ==
  ASSUME SmtpInv, NEW t \in Tests, RecordConnectionTest(t)
  PROVE  SmtpInv' /\ VerdictStep
<1> DEFINE s == test[t].service
           c == connection[s]
<1>1. /\ s \in AllServices /\ s # "smtp" /\ c \in Connection
      /\ test[t].public = Unset /\ c.public = Unset
  BY DEF RecordConnectionTest, SmtpInv, SmtpTypeOK, TestsKnow, OthersArePlain, AllServices
<1>2. CASE UNCHANGED connection
  <2>1. PICK phase \in {"done", "changed"} : EndTest(t, phase)
    BY DEF RecordConnectionTest
  <2> QED
    BY <1>2, <2>1, EndTestSound DEF SmtpInv, SmtpTypeOK, OthersArePlain, VerdictStep
<1>3. ASSUME c.secret = test[t].secret, EndTest(t, "done"), NEW verdict \in Verdicts(t),
             connection' = [connection EXCEPT ![s] =
                              WithMetadata([c EXCEPT !.row = verdict], verdict)]
      PROVE  SmtpInv' /\ VerdictStep
  <2>1. PICK new : new = WithMetadata([c EXCEPT !.row = verdict], verdict)
    OBVIOUS
  <2>2. /\ new \in Connection /\ new.row = verdict /\ new.secret = c.secret
        /\ new.public = Unset
    BY <1>1, <1>3, <2>1, VerdictsShape DEF WithMetadata, Connection, Public
  <2>3. connection' \in [AllServices -> Connection] /\ connection'[s] = new
        /\ \A o \in AllServices \ {s} : connection'[o] = connection[o]
    BY <1>1, <1>3, <2>1, <2>2 DEF SmtpInv, SmtpTypeOK
  <2>4. OthersArePlain'
    BY <2>2, <2>3 DEF SmtpInv, OthersArePlain, AllServices
  <2> QED
    BY <1>1, <1>3, <2>2, <2>3, <2>4, VerdictsShape, EndTestSound
       DEF SmtpInv, SmtpTypeOK, VerdictStep
<1> QED
  BY <1>2, <1>3 DEF RecordConnectionTest

LEMMA SmtpNextSound == SmtpInv /\ [SmtpNext]_smtpVars => SmtpInv' /\ [VerdictStep]_smtpVars
<1> SUFFICES ASSUME SmtpInv, [SmtpNext]_smtpVars PROVE SmtpInv' /\ [VerdictStep]_smtpVars
  OBVIOUS
<1>1. CASE UNCHANGED smtpVars
  BY <1>1 DEF smtpVars, SmtpInv, SmtpTypeOK, TestsKnow, OthersArePlain
<1>2. CASE SmtpNext
  BY <1>2, AskSound, SaveSound, ReplaceSound, TestBeginSound, RecordSmtpSound,
     RecordConnectionSound DEF SmtpNext
<1> QED
  BY <1>1, <1>2

LEMMA SmtpBegins == SmtpInit => SmtpInv
<1>1. Unconfigured.public = Unset
  BY DEF Unconfigured
<1> QED
  BY <1>1, NoVerdictYet DEF SmtpInit, SmtpInv, SmtpTypeOK, TestsKnow, OthersArePlain

(* A test's verdict is recorded only for the configuration that was tested, *)
(* whatever replaced it meanwhile.                                          *)
THEOREM VerdictsOfTheStored == SmtpSpec => VerdictsAreOfTheStored
<1>1. SmtpSpec => []SmtpInv
  BY SmtpBegins, SmtpNextSound, PTL DEF SmtpSpec
<1>2. SmtpSpec => [][VerdictStep]_smtpVars
  BY SmtpNextSound, <1>1, PTL DEF SmtpSpec
<1> QED
  BY <1>2 DEF VerdictsAreOfTheStored, VerdictStep

-----------------------------------------------------------------------------
(* The seed.  A row of the report is resolved only when its channel was taken *)
(* in, or while an earlier row of the channel is left to take up; a run carries *)
(* the rows it has seen, and counts the troubles before it writes its report. *)

(* Channels that have been taken in: they have a profile or a job.          *)
TakenIn(c) == profileOf[c] # "none" \/ jobsOf[c] # <<>>

(* An earlier row of the channel is left to take up.                        *)
LeftBefore(rows, c, n) ==
  \E e \in Rows : e < n /\ sheet[e] = c /\ rows[e].status \notin Resolved

(* A resolved row is of a channel that was taken in, or it was put off for  *)
(* an earlier row of its channel, which then is left to take up.            *)
RowGood(rows, r) ==
  rows[r].status \in Resolved =>
    /\ sheet[r] \in Channels /\ rows[r].channel = sheet[r]
    /\ TakenIn(sheet[r]) \/ LeftBefore(rows, sheet[r], r)

(* The first row that does not count yet as handled by the run.             *)
Handled(q) == IF q.phase = "row" THEN q.row ELSE q.row + 1

RunGood(q) ==
  /\ \A r \in Rows : RowGood(q.rows, r)
  /\ q.phase \notin {"off", "row"} => q.row \in Rows
  /\ q.phase \in {"prepare", "dispatch", "compensate"} =>
       sheet[q.row] \in Channels /\ q.rows[q.row].status \notin Resolved
  /\ q.phase \in {"dispatch", "compensate"} => q.seen[sheet[q.row]] \in 1..Newest(sheet[q.row])
  /\ \A c \in Channels :
       q.seen[c] # Unseen => TakenIn(c) \/ LeftBefore(q.rows, c, Handled(q))

JobsListed ==
  /\ jobsOf \in [Channels -> Seq(JobStatus)] /\ \A c \in Channels : Newest(c) <= MaxJobs
  /\ \A m \in sent : m[1] \in Channels /\ m[2] \in 1..Newest(m[1])

SeedData ==
  /\ sheet \in [Rows -> Channels \cup {Invalid}]
  /\ profileOf \in [Channels -> {"none", "seeded", "analyzed"}]
  /\ sent \subseteq Channels \X (1..MaxJobs) /\ JobsListed

SeedInv ==
  /\ SeedData
  /\ report \in [Seeders -> [Rows -> Entry] \cup {NoReport}]
  /\ run \in [Seeders -> SeedRun]
  /\ runs \in [Seeders -> 0..MaxRuns] /\ troubles \in 0..MaxTroubles
  /\ \A s \in Seeders : \A r \in Rows : RowGood(report[s], r)
  /\ \A s \in Seeders : RunGood(run[s])

(* What any step does to the channels: none loses what it has. *)
Grows ==
  /\ sheet' = sheet
  /\ \A c \in Channels : (TakenIn(c) => TakenIn(c)') /\ Newest(c) <= Newest(c)'

LEMMA RowKept ==
  ASSUME Grows, NEW rows, NEW r \in Rows, RowGood(rows, r)
  PROVE  RowGood(rows, r)'
BY DEF Grows, RowGood, LeftBefore

LEMMA RunKept ==
  ASSUME SeedData, SeedData', Grows, NEW q \in SeedRun, RunGood(q)
  PROVE  RunGood(q)'
<1>1. \A r \in Rows : RowGood(q.rows, r)'
  BY RowKept DEF RunGood
<1>2. \A c \in Channels :
        q.seen[c] # Unseen => TakenIn(c)' \/ LeftBefore(q.rows, c, Handled(q))'
  BY DEF RunGood, Grows, LeftBefore, Handled
<1>3. q.phase \in {"dispatch", "compensate"} =>
        q.seen[sheet'[q.row]] \in 1..(Newest(sheet[q.row])')
  <2> SUFFICES ASSUME q.phase \in {"dispatch", "compensate"}
               PROVE  q.seen[sheet'[q.row]] \in 1..(Newest(sheet[q.row])')
    OBVIOUS
  <2>1. sheet[q.row] \in Channels /\ q.seen[sheet[q.row]] \in 1..Newest(sheet[q.row])
    BY DEF RunGood
  <2>2. Newest(sheet[q.row]) <= Len(jobsOf'[sheet[q.row]]) /\ sheet' = sheet
    BY <2>1 DEF Grows, Newest
  <2>3. Newest(sheet[q.row]) \in Nat /\ Len(jobsOf'[sheet[q.row]]) \in Nat
    BY <2>1, LenProperties DEF SeedData, JobsListed, Newest
  <2> QED
    BY <2>1, <2>2, <2>3 DEF Newest
<1> QED
  BY <1>1, <1>2, <1>3 DEF RunGood, Grows, Newest, Handled

(* A step that changes no channel. *)
LEMMA NothingGrows ==
  ASSUME SeedData, Elsewhere
  PROVE  SeedData' /\ Grows
BY DEF Elsewhere, SeedData, JobsListed, Newest, Grows, TakenIn

(* A row that is entered: the run goes on with what it has seen. *)
LEMMA EnteredGood ==
  ASSUME NEW q \in SeedRun, RunGood(q)', q.row \in Rows, q.phase # "off",
         NEW p \in SeedRun, NEW entry \in Entry,
         p.phase = "write", p.row = q.row, p.rows = [q.rows EXCEPT ![q.row] = entry],
         \A c \in Channels : p.seen[c] = q.seen[c] \/ TakenIn(c)',
         entry.status \in Resolved =>
           /\ sheet'[q.row] \in Channels /\ entry.channel = sheet'[q.row]
           /\ TakenIn(sheet[q.row])'
              \/ (q.phase = "row" /\ LeftBefore(q.rows, sheet[q.row], q.row)')
  PROVE  RunGood(p)'
<1>1. /\ q.rows \in [Rows -> Entry] /\ p.rows[q.row] = entry
      /\ \A r \in Rows \ {q.row} : p.rows[r] = q.rows[r]
  BY DEF SeedRun
<1>2. q.row \in Int /\ \A r \in Rows : r \in Int
  BY DEF Rows
<1>3. ASSUME NEW c \in Channels, NEW n \in Int, LeftBefore(q.rows, c, n)',
             n <= q.row \/ (n = q.row + 1 /\ ~(entry.status \in Resolved /\ sheet'[q.row] = c))
      PROVE  LeftBefore(p.rows, c, n)'
  <2>1. PICK e \in Rows : e < n /\ sheet'[e] = c /\ q.rows[e].status \notin Resolved
    BY <1>3 DEF LeftBefore
  <2>2. p.rows[e].status \notin Resolved
    BY <1>1, <1>2, <1>3, <2>1
  <2> QED
    BY <2>1, <2>2 DEF LeftBefore
<1>4. ASSUME NEW r \in Rows PROVE RowGood(p.rows, r)'
  <2>1. CASE r = q.row
    BY <1>1, <1>2, <1>3, <2>1 DEF RowGood
  <2>2. CASE r # q.row
    <3>1. RowGood(q.rows, r)' /\ p.rows[r] = q.rows[r]
      BY <1>1, <2>2 DEF RunGood
    <3>2. ASSUME q.rows[r].status \in Resolved, LeftBefore(q.rows, sheet[r], r)',
                 sheet'[r] \in Channels
          PROVE  TakenIn(sheet[r])' \/ LeftBefore(p.rows, sheet[r], r)'
      <4>1. PICK e \in Rows : e < r /\ sheet'[e] = sheet'[r] /\ q.rows[e].status \notin Resolved
        BY <3>2 DEF LeftBefore
      <4>2. CASE e # q.row
        BY <1>1, <4>1, <4>2 DEF LeftBefore
      <4>3. CASE e = q.row /\ entry.status \notin Resolved
        BY <1>1, <4>1, <4>3 DEF LeftBefore
      <4>4. CASE e = q.row /\ entry.status \in Resolved
        <5>1. TakenIn(sheet[e])' \/ LeftBefore(q.rows, sheet[r], e)'
          BY <4>1, <4>4 DEF LeftBefore
        <5>2. CASE LeftBefore(q.rows, sheet[r], e)'
          <6>1. PICK f \in Rows : f < e /\ sheet'[f] = sheet'[r] /\ q.rows[f].status \notin Resolved
            BY <5>2 DEF LeftBefore
          <6>2. f < r /\ f # q.row
            BY <1>2, <4>1, <4>4, <6>1
          <6> QED
            BY <1>1, <6>1, <6>2 DEF LeftBefore
        <5>3. CASE TakenIn(sheet[e])'
          BY <4>1, <5>3 DEF TakenIn
        <5> QED
          BY <5>1, <5>2, <5>3
      <4> QED
        BY <4>2, <4>3, <4>4
    <3> QED
      BY <3>1, <3>2 DEF RowGood
  <2> QED
    BY <2>1, <2>2
<1>5. ASSUME NEW c \in Channels, p.seen[c] # Unseen
      PROVE  TakenIn(c)' \/ LeftBefore(p.rows, c, q.row + 1)'
  <2>1. TakenIn(c)' \/ LeftBefore(q.rows, c, Handled(q))'
    BY <1>5 DEF RunGood
  <2>2. CASE LeftBefore(q.rows, c, Handled(q))' /\ ~TakenIn(c)'
    <3>1. PICK e \in Rows : e < Handled(q) /\ sheet'[e] = c /\ q.rows[e].status \notin Resolved
      BY <2>2 DEF LeftBefore, Handled
    <3>2. CASE e # q.row
      BY <1>1, <1>2, <3>1, <3>2 DEF LeftBefore, Handled
    <3>3. CASE e = q.row
      <4>1. q.phase # "row"
        BY <1>2, <3>1, <3>3 DEF Handled
      <4>2. entry.status \notin Resolved
        BY <2>2, <3>1, <3>3, <4>1 DEF TakenIn
      <4> QED
        BY <1>1, <1>2, <3>1, <3>3, <4>2 DEF LeftBefore
    <3> QED
      BY <3>2, <3>3
  <2> QED
    BY <2>1, <2>2
<1> QED
  BY <1>4, <1>5 DEF RunGood, Handled

(* What is left of the counts. *)
LEMMA TroubleCounts ==
  ASSUME troubles \in 0..MaxTroubles, Trouble \/ UNCHANGED troubles
  PROVE  troubles' \in 0..MaxTroubles
BY SeedAssumption DEF Trouble

Counts == runs' \in [Seeders -> 0..MaxRuns] /\ troubles' \in 0..MaxTroubles

(* A step of one operator's run, or of none. *)
LEMMA RunGoesOn ==
  ASSUME SeedInv, SeedData', Grows, Counts, NEW s \in Seeders, NEW q \in SeedRun, RunGood(q)',
         Continue(s, q),
         \/ UNCHANGED report
         \/ \E rows \in [Rows -> Entry] : /\ report' = [report EXCEPT ![s] = rows]
                                          /\ \A r \in Rows : RowGood(rows, r)'
  PROVE  SeedInv'
<1>1. /\ run' \in [Seeders -> SeedRun] /\ run'[s] = q
      /\ \A o \in Seeders \ {s} : run'[o] = run[o]
  BY DEF SeedInv, Continue
<1>2. ASSUME NEW o \in Seeders PROVE RunGood(run[o])'
  <2>1. CASE o = s
    BY <1>1, <2>1 DEF RunGood
  <2>2. CASE o # s
    <3> DEFINE p == run[o]
    <3>1. p \in SeedRun /\ RunGood(p) /\ run'[o] = p
      BY <1>1, <2>2 DEF SeedInv
    <3> QED
      BY <3>1, RunKept DEF SeedInv, RunGood
  <2> QED
    BY <2>1, <2>2
<1>3. ASSUME NEW o \in Seeders, NEW r \in Rows, report'[o] = report[o]
      PROVE  RowGood(report[o], r)'
  <2> DEFINE rows == report[o]
  <2>1. RowGood(rows, r)
    BY DEF SeedInv
  <2> QED
    BY <1>3, <2>1, RowKept DEF RowGood
<1>4. /\ report' \in [Seeders -> [Rows -> Entry] \cup {NoReport}]
      /\ \A o \in Seeders : \A r \in Rows : RowGood(report[o], r)'
  <2>1. CASE UNCHANGED report
    BY <1>3, <2>1 DEF SeedInv
  <2>2. CASE \E rows \in [Rows -> Entry] : /\ report' = [report EXCEPT ![s] = rows]
                                           /\ \A r \in Rows : RowGood(rows, r)'
    <3>1. PICK rows \in [Rows -> Entry] : /\ report' = [report EXCEPT ![s] = rows]
                                          /\ \A r \in Rows : RowGood(rows, r)'
      BY <2>2
    <3>2. /\ report' \in [Seeders -> [Rows -> Entry] \cup {NoReport}] /\ report'[s] = rows
          /\ \A o \in Seeders \ {s} : report'[o] = report[o]
      BY <3>1 DEF SeedInv
    <3>3. \A r \in Rows : RowGood(report[s], r)'
      BY <3>1, <3>2 DEF RowGood
    <3> QED
      BY <1>3, <3>2, <3>3
  <2> QED
    BY <2>1, <2>2
<1> QED
  BY <1>1, <1>2, <1>4 DEF SeedInv, Counts

LEMMA NothingRuns ==
  ASSUME SeedInv, SeedData', Grows, UNCHANGED <<report, run, runs, troubles>>
  PROVE  SeedInv'
<1>1. ASSUME NEW o \in Seeders PROVE RunGood(run[o])'
  <2> DEFINE p == run[o]
  <2>1. p \in SeedRun /\ RunGood(p)
    BY DEF SeedInv
  <2> QED
    BY <2>1, RunKept DEF SeedInv, RunGood
<1>2. ASSUME NEW o \in Seeders, NEW r \in Rows PROVE RowGood(report[o], r)'
  <2> DEFINE rows == report[o]
  <2>1. RowGood(rows, r)
    BY DEF SeedInv
  <2> QED
    BY <2>1, RowKept DEF RowGood
<1> QED
  BY <1>1, <1>2 DEF SeedInv

(* A job more, or one that changes its status. *)
LEMMA JobAdded ==
  ASSUME SeedData, NEW c \in Channels, Newest(c) < MaxJobs, AddJob(c), UNCHANGED sheet,
         profileOf' \in [Channels -> {"none", "seeded", "analyzed"}],
         \A d \in Channels : profileOf[d] # "none" => profileOf'[d] # "none",
         sent' = sent \/ sent' = sent \cup {<<c, Newest(c) + 1>>}
  PROVE  SeedData' /\ Grows /\ Newest(c)' = Newest(c) + 1 /\ TakenIn(c)'
<1>1. /\ jobsOf' = [jobsOf EXCEPT ![c] = Append(jobsOf[c], "queued")]
      /\ jobsOf \in [Channels -> Seq(JobStatus)] /\ Newest(c) \in Nat
  BY LenProperties DEF AddJob, SeedData, JobsListed, Newest
<1>2. /\ Append(jobsOf[c], "queued") \in Seq(JobStatus)
      /\ Len(Append(jobsOf[c], "queued")) = Newest(c) + 1
  BY <1>1, AppendProperties DEF JobStatus, Newest
<1>3. /\ jobsOf' \in [Channels -> Seq(JobStatus)] /\ Newest(c)' = Newest(c) + 1
      /\ \A d \in Channels \ {c} : jobsOf'[d] = jobsOf[d]
  BY <1>1, <1>2 DEF Newest
<1>4. \A d \in Channels : Newest(d) \in Nat /\ Newest(d)' \in Nat
  BY <1>1, <1>3, LenProperties DEF Newest
<1>5. \A d \in Channels : Newest(d) <= Newest(d)' /\ Newest(d)' <= MaxJobs
  BY <1>1, <1>3, <1>4, SeedAssumption DEF SeedData, JobsListed, Newest
<1>6. \A d \in Channels : jobsOf[d] # <<>> => jobsOf'[d] # <<>>
  <2>1. jobsOf'[c] # <<>>
    BY <1>1, AppendProperties DEF JobStatus
  <2> QED
    BY <1>3, <2>1
<1>7. Newest(c)' = Newest(c) + 1 /\ TakenIn(c)'
  BY <1>1, <1>3, AppendProperties DEF TakenIn, JobStatus
<1>8. \A m \in sent' : m[1] \in Channels /\ m[2] \in 1..(Newest(m[1])')
  <2>1. \A m \in sent : m[1] \in Channels /\ m[2] \in 1..Newest(m[1])
    BY DEF SeedData, JobsListed
  <2>2. \A m \in sent : m[2] \in 1..(Newest(m[1])')
    BY <1>4, <1>5, <2>1
  <2>3. Newest(c) + 1 \in 1..(Newest(c)')
    BY <1>1, <1>7
  <2> QED
    BY <2>1, <2>2, <2>3
<1>9. sent' \subseteq Channels \X (1..MaxJobs)
  BY <1>1, <1>5, <1>7, SeedAssumption DEF SeedData
<1> QED
  BY <1>3, <1>5, <1>6, <1>7, <1>8, <1>9 DEF SeedData, JobsListed, Grows, TakenIn, Newest

LEMMA JobChanged ==
  ASSUME SeedData, NEW c \in Channels, NEW n \in 1..Newest(c), NEW status \in JobStatus,
         JobBecomes(c, n, status), UNCHANGED <<sheet, sent>>,
         profileOf' \in [Channels -> {"none", "seeded", "analyzed"}],
         \A d \in Channels : profileOf[d] # "none" => profileOf'[d] # "none"
  PROVE  SeedData' /\ Grows
<1>1. /\ jobsOf' = [jobsOf EXCEPT ![c] = [jobsOf[c] EXCEPT ![n] = status]]
      /\ jobsOf \in [Channels -> Seq(JobStatus)] /\ n \in 1..Len(jobsOf[c])
  BY DEF JobBecomes, SeedData, JobsListed, Newest
<1>2. /\ [jobsOf[c] EXCEPT ![n] = status] \in Seq(JobStatus)
      /\ Len([jobsOf[c] EXCEPT ![n] = status]) = Newest(c)
  BY <1>1, ExceptSeq DEF Newest
<1>3. /\ jobsOf' \in [Channels -> Seq(JobStatus)] /\ Newest(c)' = Newest(c)
      /\ \A d \in Channels \ {c} : jobsOf'[d] = jobsOf[d]
  BY <1>1, <1>2 DEF Newest
<1>4. \A d \in Channels : Newest(d)' = Newest(d) /\ Newest(d) \in Nat
  BY <1>1, <1>3, LenProperties DEF Newest
<1>5. jobsOf'[c] # <<>>
  BY <1>1, <1>3, EmptySeq DEF Newest
<1> QED
  BY <1>3, <1>4, <1>5 DEF SeedData, JobsListed, Grows, TakenIn

(* The active job is one of the channel's. *)
LEMMA ActiveJobIsOne ==
  ASSUME SeedData, NEW c \in Channels
  PROVE  /\ ActiveJob(c) \in 0..Newest(c) /\ ActiveJob(c) \in 0..MaxJobs
         /\ ActiveJob(c) # 0 => TakenIn(c)
<1> DEFINE live == {n \in DOMAIN jobsOf[c] : jobsOf[c][n] \in {"queued", "running"}}
<1>1. /\ DOMAIN jobsOf[c] = 1..Newest(c) /\ Newest(c) \in Nat /\ Newest(c) <= MaxJobs
      /\ jobsOf[c] \in Seq(JobStatus)
  BY LenProperties DEF SeedData, JobsListed, Newest
<1>2. live # {} => (CHOOSE n \in live : TRUE) \in live
  OBVIOUS
<1>3. ActiveJob(c) \in 0..Newest(c)
  BY <1>1, <1>2 DEF ActiveJob
<1>4. Newest(c) # 0 => TakenIn(c)
  BY <1>1, EmptySeq DEF TakenIn, Newest
<1> QED
  BY <1>1, <1>3, <1>4, SeedAssumption

(* The API and the workers. *)
LEMMA RequestKeeps ==
  ASSUME SeedInv, NEW c \in Channels, RequestAnalysis(c)
  PROVE  SeedInv'
<1>1. SeedData' /\ Grows
  BY JobAdded DEF RequestAnalysis, SeedInv, SeedData
<1> QED
  BY <1>1, NothingRuns DEF RequestAnalysis

LEMMA WorkKeeps ==
  ASSUME SeedInv, NEW c \in Channels, NEW n \in 1..MaxJobs, WorkOn(c, n)
  PROVE  SeedInv'
<1>1. n \in 1..Newest(c)
  BY DEF WorkOn, SeedInv, SeedData, JobsListed
<1>2. profileOf' \in [Channels -> {"none", "seeded", "analyzed"}]
      /\ \A d \in Channels : profileOf[d] # "none" => profileOf'[d] # "none"
  BY DEF WorkOn, SeedInv, SeedData
<1>3. \E status \in JobStatus : JobBecomes(c, n, status)
  BY DEF WorkOn, JobStatus
<1>4. SeedData' /\ Grows
  BY <1>1, <1>2, <1>3, JobChanged DEF WorkOn, SeedInv
<1> QED
  BY <1>4, NothingRuns DEF WorkOn

(* A run as it was before the step is sound after it, too. *)
LEMMA Current ==
  ASSUME SeedInv, SeedData', Grows, NEW s \in Seeders
  PROVE  \E q \in SeedRun : q = run[s] /\ RunGood(q) /\ RunGood(q)'
<1>1. PICK q : q = run[s]
  OBVIOUS
<1>2. q \in SeedRun /\ RunGood(q)
  BY <1>1 DEF SeedInv
<1> QED
  BY <1>1, <1>2, RunKept DEF SeedInv

LEMMA CountsStay ==
  ASSUME SeedInv, UNCHANGED runs, Trouble \/ UNCHANGED troubles
  PROVE  Counts
BY TroubleCounts DEF Counts, SeedInv

LEMMA OffIsGood ==
  /\ Off \in SeedRun /\ RunGood(Off)'
  /\ Fresh \in [Rows -> Entry] /\ \A r \in Rows : RowGood(Fresh, r)'
<1>1. Fresh \in [Rows -> Entry]
  BY SeedAssumption DEF Fresh, Entry, RowStatus
<1>2. \A r \in Rows : RowGood(Fresh, r)'
  BY DEF RowGood, Fresh, Resolved
<1>3. Off \in SeedRun
  BY <1>1, SeedAssumption DEF Off, SeedRun, RunPhase, Unseen
<1> QED
  BY <1>1, <1>2, <1>3 DEF RunGood, Off, Unseen

LEMMA LaunchKeeps ==
  ASSUME SeedInv, NEW s \in Seeders, Launch(s)
  PROVE  SeedInv'
<1>1. SeedData' /\ Grows
  BY NothingGrows DEF SeedInv, Launch
<1>2. PICK rows : rows = report'[s]
  OBVIOUS
<1>3. /\ report[s] = NoReport => rows = Fresh /\ report' = [report EXCEPT ![s] = rows]
      /\ report[s] # NoReport => rows = report[s] /\ report' = report
  BY <1>2 DEF Launch, SeedInv
<1>4. rows \in [Rows -> Entry] /\ \A r \in Rows : RowGood(rows, r)'
  <2>1. CASE report[s] = NoReport
    BY <1>3, <2>1, OffIsGood
  <2>2. CASE report[s] # NoReport
    <3>1. rows \in [Rows -> Entry] /\ \A r \in Rows : RowGood(rows, r)
      BY <1>3, <2>2 DEF SeedInv
    <3> QED
      BY <1>1, <3>1, RowKept
  <2> QED
    BY <2>1, <2>2
<1> DEFINE q == [Off EXCEPT !.phase = "row", !.rows = rows]
<1>5. /\ q \in SeedRun /\ q.phase = "row" /\ q.rows = rows
      /\ \A c \in Channels : q.seen[c] = Unseen
  BY <1>4, OffIsGood DEF Off, SeedRun, RunPhase
<1>6. Continue(s, q)
  BY <1>2 DEF Launch
<1> HIDE DEF q
<1>7. RunGood(q)'
  BY <1>4, <1>5 DEF RunGood
<1>8. Counts
  BY SeedAssumption DEF Launch, Counts, SeedInv
<1> QED
  BY <1>1, <1>3, <1>4, <1>5, <1>6, <1>7, <1>8, RunGoesOn

LEMMA EndRunKeeps ==
  ASSUME SeedInv, NEW s \in Seeders, EndRun(s) \/ Interrupt(s)
  PROVE  SeedInv'
<1>1. SeedData' /\ Grows
  BY NothingGrows DEF SeedInv, EndRun, Interrupt
<1>2. Counts
  BY CountsStay DEF EndRun, Interrupt
<1> QED
  BY <1>1, <1>2, OffIsGood, RunGoesOn DEF EndRun, Interrupt

LEMMA PassOnKeeps ==
  ASSUME SeedInv, NEW s \in Seeders, PassOn(s)
  PROVE  SeedInv'
<1>1. SeedData' /\ Grows /\ Counts
  BY NothingGrows, CountsStay DEF SeedInv, PassOn
<1>2. PICK q \in SeedRun : q = run[s] /\ RunGood(q) /\ RunGood(q)'
  BY <1>1, Current
<1> DEFINE entry == q.rows[q.row]
           seen == [d \in Channels |-> IF d = entry.channel /\ q.seen[d] = Unseen
                                         THEN entry.job ELSE q.seen[d]]
           p == [q EXCEPT !.row = @ + 1, !.seen = seen]
<1>3. q.phase = "row" /\ q.row \in Rows /\ entry \in Entry /\ entry.status \in Resolved
  BY <1>2, SeedAssumption DEF PassOn, SeedRun, Rows
<1>4. Continue(s, p)
  BY <1>2 DEF PassOn
<1>5. /\ p \in SeedRun /\ p.phase = "row" /\ p.row = q.row + 1 /\ p.rows = q.rows
      /\ \A c \in Channels : p.seen[c] = q.seen[c] \/ c = entry.channel
  <2>1. entry.job \in Unseen..MaxJobs
    BY <1>3 DEF Entry, Unseen
  <2>2. /\ seen \in [Channels -> Unseen..MaxJobs]
        /\ \A c \in Channels : seen[c] = q.seen[c] \/ c = entry.channel
    BY <2>1 DEF SeedRun
  <2>3. q.row + 1 \in 1..(NRows + 1)
    BY <1>3, SeedAssumption DEF Rows
  <2> HIDE DEF seen
  <2> QED
    BY <1>3, <2>2, <2>3 DEF SeedRun, RunPhase
<1> HIDE DEF p
<1>6. RowGood(q.rows, q.row)'
  BY <1>2, <1>3 DEF RunGood
<1>7. ASSUME NEW c \in Channels, p.seen[c] # Unseen
      PROVE  TakenIn(c)' \/ LeftBefore(p.rows, c, p.row)'
  <2>1. q.row \in Int /\ \A r \in Rows : r \in Int
    BY <1>3 DEF Rows
  <2>2. TakenIn(c)' \/ LeftBefore(q.rows, c, q.row)'
    <3>1. CASE p.seen[c] = q.seen[c]
      BY <1>2, <1>3, <1>7, <3>1 DEF RunGood, Handled
    <3>2. CASE c = entry.channel
      BY <1>3, <1>6, <3>2 DEF RowGood, TakenIn, LeftBefore
    <3> QED
      BY <1>5, <3>1, <3>2
  <2> QED
    BY <1>5, <2>1, <2>2 DEF LeftBefore
<1>8. RunGood(p)'
  BY <1>2, <1>5, <1>7 DEF RunGood, Handled
<1> QED
  BY <1>1, <1>4, <1>5, <1>8, RunGoesOn DEF PassOn

(* The run that has entered something for its row. *)
LEMMA EnteredRun ==
  ASSUME NEW s \in Seeders, NEW q \in SeedRun, q = run[s], q.row \in Rows,
         NEW status \in RowStatus, NEW channel \in Channels \cup {Invalid}, NEW n \in 0..MaxJobs
  PROVE  LET entry == [status |-> status, channel |-> channel, job |-> n]
             p == Entered(s, status, channel, n)
         IN /\ entry \in Entry /\ entry.status = status /\ entry.channel = channel
            /\ p \in SeedRun /\ p.phase = "write" /\ p.row = q.row /\ p.seen = q.seen
            /\ p.rows = [q.rows EXCEPT ![q.row] = entry]
<1> DEFINE entry == [status |-> status, channel |-> channel, job |-> n]
<1>1. entry \in Entry /\ entry.status = status /\ entry.channel = channel
  BY DEF Entry
<1> HIDE DEF entry
<1>2. [q.rows EXCEPT ![q.row] = entry] \in [Rows -> Entry]
  BY <1>1 DEF SeedRun
<1>3. Entered(s, status, channel, n) = [q EXCEPT !.phase = "write", !.rows[q.row] = entry]
  BY DEF Entered, entry
<1> QED
  BY <1>1, <1>2, <1>3 DEF SeedRun, RunPhase, entry

(* An entry of the run's row that keeps what it has seen. *)
LEMMA EnterKeeps ==
  ASSUME SeedInv, SeedData', Grows, Counts, NEW s \in Seeders,
         run[s].phase # "off", run[s].row \in Rows,
         NEW status \in RowStatus, NEW channel \in Channels \cup {Invalid}, NEW n \in 0..MaxJobs,
         Continue(s, Entered(s, status, channel, n)), UNCHANGED report,
         status \in Resolved => /\ channel \in Channels /\ channel = Here(s)
                                /\ \/ TakenIn(channel)'
                                   \/ run[s].phase = "row" /\ run[s].seen[channel] # Unseen
  PROVE  SeedInv'
<1>1. PICK q \in SeedRun : q = run[s] /\ RunGood(q) /\ RunGood(q)'
  BY Current
<1>2. PICK entry : entry = [status |-> status, channel |-> channel, job |-> n]
  OBVIOUS
<1>3. PICK p : p = Entered(s, status, channel, n)
  OBVIOUS
<1>4. /\ entry \in Entry /\ entry.status = status /\ entry.channel = channel
      /\ p \in SeedRun /\ p.phase = "write" /\ p.row = q.row /\ p.seen = q.seen
      /\ p.rows = [q.rows EXCEPT ![q.row] = entry]
  BY <1>1, <1>2, <1>3, EnteredRun
<1>5. entry.status \in Resolved =>
        /\ sheet'[q.row] \in Channels /\ entry.channel = sheet'[q.row]
        /\ TakenIn(sheet[q.row])' \/ (q.phase = "row" /\ LeftBefore(q.rows, sheet[q.row], q.row)')
  <2> SUFFICES ASSUME entry.status \in Resolved
               PROVE  /\ sheet'[q.row] \in Channels /\ entry.channel = sheet'[q.row]
                      /\ TakenIn(sheet[q.row])'
                         \/ (q.phase = "row" /\ LeftBefore(q.rows, sheet[q.row], q.row)')
    OBVIOUS
  <2>1. PICK c \in Channels : c = sheet'[q.row] /\ c = sheet[q.row] /\ entry.channel = c
    BY <1>1, <1>4 DEF Here, Grows
  <2>2. TakenIn(c)' \/ (q.phase = "row" /\ q.seen[c] # Unseen)
    BY <1>1, <1>4, <2>1 DEF TakenIn
  <2>3. q.seen[c] # Unseen => TakenIn(c)' \/ LeftBefore(q.rows, c, Handled(q))'
    BY <1>1 DEF RunGood
  <2>4. TakenIn(c)' \/ (q.phase = "row" /\ LeftBefore(q.rows, c, q.row)')
    BY <2>2, <2>3 DEF Handled
  <2> QED
    BY <2>1, <2>4 DEF TakenIn, LeftBefore
<1>6. RunGood(p)'
  BY <1>1, <1>4, <1>5, EnteredGood
<1> QED
  BY <1>3, <1>4, <1>6, RunGoesOn

LEMMA TakeUpKeeps ==
  ASSUME SeedInv, NEW s \in Seeders, TakeUp(s)
  PROVE  SeedInv'
<1>1. SeedData' /\ Grows /\ Counts
  BY NothingGrows, CountsStay DEF SeedInv, TakeUp
<1>2. PICK q \in SeedRun : q = run[s] /\ RunGood(q) /\ RunGood(q)'
  BY <1>1, Current
<1>3. q.phase = "row" /\ q.row \in Rows /\ q.rows[q.row].status \notin Resolved
  BY <1>2, SeedAssumption DEF TakeUp, SeedRun, Rows
<1>4. CASE Continue(s, Entered(s, "failed", Invalid, 0))
  BY <1>1, <1>2, <1>3, <1>4, EnterKeeps, SeedAssumption DEF TakeUp, RowStatus, Resolved
<1>5. CASE /\ Here(s) # Invalid /\ run[s].seen[Here(s)] # Unseen
           /\ Continue(s, Entered(s, "duplicate", Here(s), run[s].seen[Here(s)]))
  <2>1. PICK c \in Channels : c = Here(s)
    BY <1>2, <1>3, <1>5 DEF Here, SeedInv, SeedData
  <2>2. run[s].seen[c] \in 0..MaxJobs
    BY <1>2, <1>5, <2>1, SeedAssumption DEF SeedRun, Unseen
  <2> QED
    BY <1>1, <1>2, <1>3, <1>5, <2>1, <2>2, EnterKeeps DEF TakeUp, RowStatus
<1>6. CASE /\ Here(s) # Invalid /\ run[s].seen[Here(s)] = Unseen
           /\ Continue(s, [run[s] EXCEPT !.phase = "prepare", !.seen[Here(s)] = 0])
  <2>1. PICK c \in Channels : c = Here(s) /\ c = sheet'[q.row]
    BY <1>1, <1>2, <1>3, <1>6 DEF Here, SeedInv, SeedData, Grows
  <2> DEFINE p == [q EXCEPT !.phase = "prepare", !.seen[c] = 0]
  <2>0. [q.seen EXCEPT ![c] = 0] \in [Channels -> Unseen..MaxJobs]
    BY SeedAssumption DEF SeedRun, Unseen
  <2>2. p \in SeedRun /\ p.phase = "prepare" /\ p.row = q.row /\ p.rows = q.rows
        /\ \A d \in Channels \ {c} : p.seen[d] = q.seen[d]
    BY <1>3, <2>0 DEF SeedRun, RunPhase
  <2>3. Continue(s, p)
    BY <1>2, <1>6, <2>1
  <2> HIDE DEF p
  <2>4. ASSUME NEW d \in Channels, p.seen[d] # Unseen
        PROVE  TakenIn(d)' \/ LeftBefore(p.rows, d, p.row + 1)'
    <3>1. q.row \in Int /\ \A r \in Rows : r \in Int
      BY <1>3 DEF Rows
    <3>2. CASE d = c
      <4>1. LeftBefore(q.rows, d, q.row + 1)'
        BY <1>3, <2>1, <3>1, <3>2 DEF LeftBefore
      <4> QED
        BY <2>2, <4>1
    <3>3. CASE d # c
      <4>1. TakenIn(d)' \/ LeftBefore(q.rows, d, q.row)'
        BY <1>2, <1>3, <2>2, <2>4, <3>3 DEF RunGood, Handled
      <4> QED
        BY <2>2, <3>1, <4>1 DEF LeftBefore
    <3> QED
      BY <3>2, <3>3
  <2>5. RunGood(p)'
    BY <1>2, <1>3, <2>1, <2>2, <2>4 DEF RunGood, Handled
  <2> QED
    BY <1>1, <2>2, <2>3, <2>5, RunGoesOn DEF TakeUp
<1> QED
  BY <1>4, <1>5, <1>6 DEF TakeUp

(* A run that goes on with its row, knowing the channel's job. *)
LEMMA GoesOnKnowing ==
  ASSUME NEW q \in SeedRun, RunGood(q)', NEW p \in SeedRun, NEW c \in Channels,
         q.phase \in {"prepare", "dispatch"}, p.phase \in {"dispatch", "compensate"},
         p.row = q.row, p.rows = q.rows, sheet'[q.row] = c, TakenIn(c)',
         p.seen[c] \in 1..(Newest(c)'), \A d \in Channels \ {c} : p.seen[d] = q.seen[d]
  PROVE  RunGood(p)'
<1>1. q.row \in Rows /\ q.rows[q.row].status \notin Resolved
  BY DEF RunGood
<1>2. \A d \in Channels : p.seen[d] # Unseen => TakenIn(d)' \/ LeftBefore(p.rows, d, q.row + 1)'
  BY DEF RunGood, Handled, TakenIn
<1>3. p.seen[sheet'[p.row]] \in 1..(Newest(c)')
  OBVIOUS
<1> QED
  BY <1>1, <1>2, <1>3 DEF RunGood, Handled, Newest

LEMMA PrepareKeeps ==
  ASSUME SeedInv, NEW s \in Seeders, Prepare(s)
  PROVE  SeedInv'
<1>1. Counts /\ run[s].phase = "prepare" /\ UNCHANGED report
  BY CountsStay DEF Prepare
<1>2. PICK q \in SeedRun : q = run[s] /\ RunGood(q)
  BY DEF SeedInv
<1>3. q.row \in Rows /\ q.phase = "prepare"
  BY <1>1, <1>2 DEF RunGood
<1>4. PICK c \in Channels : c = Here(s)
  BY <1>1, <1>2 DEF Here, RunGood
<1>5. CASE profileOf[c] = "analyzed" \/ ActiveJob(c) # 0
  <2>1. SeedData' /\ Grows
    BY <1>4, <1>5, NothingGrows DEF Prepare, SeedInv, Elsewhere
  <2>2. TakenIn(c)' /\ ActiveJob(c) \in 0..MaxJobs
    <3>1. TakenIn(c)
      BY <1>5, ActiveJobIsOne DEF TakenIn, SeedInv
    <3> QED
      BY <2>1, <3>1, ActiveJobIsOne DEF Grows, SeedInv
  <2>3. PICK n \in 0..MaxJobs : n = ActiveJob(c)
    BY <2>2
  <2>4. RunGood(q)'
    BY <1>2, <2>1, RunKept DEF SeedInv
  <2>5. PICK e : e = Entered(s, "duplicate", c, n)
    OBVIOUS
  <2>6. PICK entry : entry = [status |-> "duplicate", channel |-> c, job |-> n]
    OBVIOUS
  <2>7. /\ entry \in Entry /\ entry.status = "duplicate" /\ entry.channel = c
        /\ e \in SeedRun /\ e.phase = "write" /\ e.row = q.row /\ e.seen = q.seen
        /\ e.rows = [q.rows EXCEPT ![q.row] = entry]
    BY <1>2, <1>3, <2>5, <2>6, EnteredRun DEF RowStatus
  <2> DEFINE p == [e EXCEPT !.seen[c] = n]
  <2>8. /\ p \in SeedRun /\ p.phase = "write" /\ p.row = q.row
        /\ p.rows = [q.rows EXCEPT ![q.row] = entry]
        /\ \A d \in Channels : p.seen[d] = q.seen[d] \/ d = c
    <3>1. [e.seen EXCEPT ![c] = n] \in [Channels -> Unseen..MaxJobs]
      BY <2>7, SeedAssumption DEF SeedRun, Unseen
    <3>2. \A d \in Channels \ {c} : [e.seen EXCEPT ![c] = n][d] = q.seen[d]
      BY <2>7 DEF SeedRun
    <3> QED
      BY <2>7, <3>1, <3>2 DEF SeedRun
  <2>9. Continue(s, p)
    BY <1>4, <1>5, <2>3, <2>5 DEF Prepare
  <2> HIDE DEF p
  <2>10. \A d \in Channels : p.seen[d] = q.seen[d] \/ TakenIn(d)'
    BY <2>2, <2>8 DEF TakenIn
  <2>11. sheet'[q.row] = c
    BY <1>2, <1>4, <2>1 DEF Here, Grows
  <2>12. RunGood(p)'
    BY <1>3, <2>2, <2>4, <2>7, <2>8, <2>10, <2>11, EnteredGood DEF TakenIn
  <2> QED
    BY <1>1, <2>1, <2>8, <2>9, <2>12, RunGoesOn
<1>6. CASE ~(profileOf[c] = "analyzed" \/ ActiveJob(c) # 0)
  <2>1. /\ Newest(c) < MaxJobs /\ AddJob(c) /\ profileOf' = [profileOf EXCEPT ![c] = "seeded"]
        /\ Continue(s, [run[s] EXCEPT !.phase = "dispatch", !.seen[c] = Newest(c) + 1])
        /\ UNCHANGED <<sheet, sent>>
    BY <1>4, <1>6 DEF Prepare
  <2>2. SeedData' /\ Grows /\ Newest(c)' = Newest(c) + 1 /\ TakenIn(c)'
    <3>1. profileOf' \in [Channels -> {"none", "seeded", "analyzed"}]
          /\ \A d \in Channels : profileOf[d] # "none" => profileOf'[d] # "none"
      BY <2>1 DEF SeedInv, SeedData
    <3> QED
      BY <2>1, <3>1, JobAdded DEF SeedInv
  <2>3. PICK n : n = Newest(c) + 1
    OBVIOUS
  <2>4. n \in 0..MaxJobs /\ n \in 1..(Newest(c)')
    <3>1. Newest(c) \in Nat
      BY LenProperties DEF SeedInv, SeedData, JobsListed, Newest
    <3> QED
      BY <2>1, <2>2, <2>3, <3>1, SeedAssumption
  <2> DEFINE p == [q EXCEPT !.phase = "dispatch", !.seen[c] = n]
  <2>5. /\ p \in SeedRun /\ p.phase = "dispatch" /\ p.row = q.row /\ p.rows = q.rows
        /\ p.seen[c] = n /\ \A d \in Channels \ {c} : p.seen[d] = q.seen[d]
    <3>1. [q.seen EXCEPT ![c] = n] \in [Channels -> Unseen..MaxJobs]
      BY <2>4, SeedAssumption DEF SeedRun, Unseen
    <3> QED
      BY <3>1 DEF SeedRun, RunPhase
  <2>6. Continue(s, p)
    BY <1>2, <2>1, <2>3
  <2> HIDE DEF p
  <2>7. RunGood(q)' /\ sheet'[q.row] = c
    BY <1>2, <1>4, <2>2, RunKept DEF Here, Grows, SeedInv
  <2>8. RunGood(p)'
    BY <1>3, <2>2, <2>4, <2>5, <2>7, GoesOnKnowing
  <2> QED
    BY <1>1, <2>2, <2>5, <2>6, <2>8, RunGoesOn
<1> QED
  BY <1>5, <1>6

LEMMA PrepareFailsKeeps ==
  ASSUME SeedInv, NEW s \in Seeders, PrepareFails(s)
  PROVE  SeedInv'
<1>1. SeedData' /\ Grows /\ Counts
  BY NothingGrows, CountsStay DEF SeedInv, PrepareFails
<1>2. PICK q \in SeedRun : q = run[s] /\ RunGood(q)
  BY DEF SeedInv
<1>3. PICK c \in Channels : c = Here(s)
  BY <1>2 DEF Here, RunGood, PrepareFails
<1> QED
  BY <1>1, <1>2, <1>3, EnterKeeps, SeedAssumption
     DEF PrepareFails, RunGood, RowStatus, Resolved

(* A run that has a job to send, or to give up: the job is the channel's.   *)
LEMMA JobInHand ==
  ASSUME SeedInv, NEW s \in Seeders, run[s].phase \in {"dispatch", "compensate"}
  PROVE  \E q \in SeedRun, c \in Channels, n \in 1..MaxJobs :
           /\ q = run[s] /\ RunGood(q) /\ q.row \in Rows /\ c = Here(s) /\ n = run[s].seen[c]
           /\ n \in 1..Newest(c) /\ jobsOf[c] # <<>> /\ TakenIn(c)
<1>1. PICK q \in SeedRun : q = run[s] /\ RunGood(q)
  BY DEF SeedInv
<1>2. PICK c \in Channels : c = Here(s) /\ q.row \in Rows
  BY <1>1 DEF Here, RunGood
<1>3. PICK n \in 1..Newest(c) : n = run[s].seen[c]
  BY <1>1, <1>2 DEF RunGood, Here
<1>4. Newest(c) \in Nat /\ Newest(c) <= MaxJobs /\ jobsOf[c] \in Seq(JobStatus)
  BY LenProperties DEF SeedInv, SeedData, JobsListed, Newest
<1>5. n \in 1..MaxJobs /\ jobsOf[c] # <<>>
  BY <1>4, SeedAssumption, EmptySeq DEF Newest
<1> QED
  BY <1>1, <1>2, <1>3, <1>5 DEF TakenIn

LEMMA SendJobKeeps ==
  ASSUME SeedInv, NEW s \in Seeders, SendJob(s)
  PROVE  SeedInv'
<1>0. PICK q \in SeedRun, c \in Channels, n \in 1..MaxJobs :
        /\ q = run[s] /\ RunGood(q) /\ q.row \in Rows /\ c = Here(s) /\ n = run[s].seen[c]
        /\ n \in 1..Newest(c) /\ jobsOf[c] # <<>> /\ TakenIn(c)
  BY JobInHand DEF SendJob
<1>1. Counts /\ UNCHANGED report /\ run[s].phase = "dispatch"
  BY CountsStay DEF SendJob
<1>2. SeedData' /\ Grows
  <2>1. \A m \in sent' : m \in sent \/ m = <<c, n>>
    BY <1>0 DEF SendJob
  <2>2. UNCHANGED <<sheet, profileOf, jobsOf>>
    BY DEF SendJob
  <2> QED
    BY <1>0, <2>1, <2>2 DEF SeedInv, SeedData, JobsListed, Newest, Grows, TakenIn
<1>3. TakenIn(c)'
  BY <1>0, <1>2 DEF Grows
<1>4. CASE Continue(s, Entered(s, "queued", c, n))
  BY <1>0, <1>1, <1>2, <1>3, <1>4, EnterKeeps DEF RowStatus
<1>5. CASE Continue(s, [run[s] EXCEPT !.phase = "compensate"])
  <2> DEFINE p == [q EXCEPT !.phase = "compensate"]
  <2>1. p \in SeedRun /\ p.phase = "compensate" /\ p.row = q.row /\ p.rows = q.rows
        /\ p.seen = q.seen
    BY DEF SeedRun, RunPhase
  <2>2. Continue(s, p)
    BY <1>0, <1>5
  <2> HIDE DEF p
  <2>3. RunGood(q)' /\ sheet'[q.row] = c /\ n \in 1..(Newest(c)')
    <3>1. UNCHANGED jobsOf
      BY DEF SendJob
    <3> QED
      BY <1>0, <1>2, <3>1, RunKept DEF Here, Grows, SeedInv, Newest
  <2>4. RunGood(p)'
    BY <1>0, <1>1, <1>3, <2>1, <2>3, GoesOnKnowing
  <2> QED
    BY <1>1, <1>2, <2>1, <2>2, <2>4, RunGoesOn
<1> QED
  BY <1>0, <1>4, <1>5 DEF SendJob

LEMMA MarkQueueFailureKeeps ==
  ASSUME SeedInv, NEW s \in Seeders, MarkQueueFailure(s)
  PROVE  SeedInv'
<1>0. PICK q \in SeedRun, c \in Channels, n \in 1..MaxJobs :
        /\ q = run[s] /\ RunGood(q) /\ q.row \in Rows /\ c = Here(s) /\ n = run[s].seen[c]
        /\ n \in 1..Newest(c) /\ jobsOf[c] # <<>> /\ TakenIn(c)
  BY JobInHand DEF MarkQueueFailure
<1>1. Counts /\ UNCHANGED <<report, sheet, profileOf, sent>>
      /\ Continue(s, Entered(s, "failed", c, n)) /\ run[s].phase = "compensate"
  BY <1>0, CountsStay DEF MarkQueueFailure
<1>2. SeedData' /\ Grows
  <2>1. CASE UNCHANGED jobsOf
    BY <1>1, <2>1 DEF SeedInv, SeedData, JobsListed, Newest, Grows, TakenIn
  <2>2. CASE JobBecomes(c, n, "failed")
    <3>1. profileOf' \in [Channels -> {"none", "seeded", "analyzed"}]
      BY <1>1 DEF SeedInv, SeedData
    <3> QED
      BY <1>0, <1>1, <2>2, <3>1, JobChanged DEF SeedInv, JobStatus
  <2> QED
    BY <1>0, <2>1, <2>2 DEF MarkQueueFailure
<1> QED
  BY <1>0, <1>1, <1>2, EnterKeeps DEF RowStatus, Resolved

LEMMA WriteReportKeeps ==
  ASSUME SeedInv, NEW s \in Seeders, WriteReport(s)
  PROVE  SeedInv'
<1>1. SeedData' /\ Grows /\ Counts
  BY NothingGrows, CountsStay DEF SeedInv, WriteReport
<1>2. PICK q \in SeedRun : q = run[s] /\ RunGood(q) /\ RunGood(q)'
  BY <1>1, Current
<1>3. q.phase = "write" /\ q.row \in Rows
  BY <1>2 DEF WriteReport, RunGood
<1> DEFINE p == [q EXCEPT !.phase = "row", !.row = q.row + 1]
<1>4. p \in SeedRun /\ p.phase = "row" /\ p.row = q.row + 1 /\ p.rows = q.rows /\ p.seen = q.seen
  <2>1. q.row + 1 \in 1..(NRows + 1)
    BY <1>3, SeedAssumption DEF Rows
  <2> QED
    BY <2>1 DEF SeedRun, RunPhase
<1>5. Continue(s, p)
  BY <1>2 DEF WriteReport
<1> HIDE DEF p
<1>6. RunGood(p)'
  BY <1>2, <1>3, <1>4 DEF RunGood, Handled
<1>7. /\ q.rows \in [Rows -> Entry] /\ report' = [report EXCEPT ![s] = q.rows]
      /\ \A r \in Rows : RowGood(q.rows, r)'
  BY <1>2 DEF WriteReport, SeedRun, RunGood
<1> QED
  BY <1>1, <1>4, <1>5, <1>6, <1>7, RunGoesOn

LEMMA SeedNextKeeps == SeedInv /\ [SeedNext]_seedVars => SeedInv'
<1> SUFFICES ASSUME SeedInv, [SeedNext]_seedVars PROVE SeedInv'
  OBVIOUS
<1>1. CASE UNCHANGED seedVars
  <2>1. Elsewhere /\ UNCHANGED <<report, run, runs, troubles>>
    BY <1>1 DEF seedVars, Elsewhere
  <2> QED
    BY <2>1, NothingGrows, NothingRuns DEF SeedInv
<1>2. CASE SeedNext
  BY <1>2, LaunchKeeps, PassOnKeeps, TakeUpKeeps, PrepareKeeps, PrepareFailsKeeps,
     SendJobKeeps, MarkQueueFailureKeeps, WriteReportKeeps, EndRunKeeps,
     RequestKeeps, WorkKeeps DEF SeedNext
<1> QED
  BY <1>1, <1>2

LEMMA SeedBegins == SeedInit => SeedInv
<1> SUFFICES ASSUME SeedInit PROVE SeedInv
  OBVIOUS
<1>1. SeedData
  <2>1. \A c \in Channels : jobsOf[c] = <<>> /\ Newest(c) = 0
    BY EmptySeq DEF SeedInit, Newest
  <2>2. jobsOf \in [Channels -> Seq(JobStatus)]
    BY EmptySeq DEF SeedInit
  <2> QED
    BY <2>1, <2>2, SeedAssumption DEF SeedInit, SeedData, JobsListed
<1>2. Off \in SeedRun /\ RunGood(Off)
  BY OffIsGood, SeedAssumption DEF RunGood, Off, Unseen, RowGood, Fresh, Resolved
<1>3. \A r \in Rows : RowGood(NoReport, r)
  BY DEF RowGood, NoReport, Resolved
<1>4. runs \in [Seeders -> 0..MaxRuns] /\ troubles \in 0..MaxTroubles
  BY SeedAssumption DEF SeedInit
<1> QED
  BY <1>1, <1>2, <1>3, <1>4 DEF SeedInit, SeedInv

(* The seed's command keeps its invariant.                                  *)
THEOREM SeedKeeps == SeedSpec => []SeedInv
BY SeedBegins, SeedNextKeeps, PTL DEF SeedSpec

(* A report with nothing left to take up tells the truth: every channel of  *)
(* the CSV has a profile or a job, whatever was interrupted or failed.      *)
THEOREM SeedTakesAllIn == SeedSpec => []AllTakenIn
<1>1. SeedInv => AllTakenIn
  BY DEF SeedInv, AllTakenIn, RowGood, LeftBefore, TakenIn
<1> QED
  BY <1>1, SeedKeeps, PTL

-----------------------------------------------------------------------------
(* The upgrade.  Each repair leaves what its status requires, whatever the  *)
(* integers and the timestamps of the row; and the two gates leave nothing  *)
(* in flight that was written before the constraints were there.            *)

Session == [tables : BOOLEAN, advisory : BOOLEAN, due : BOOLEAN, job : JobIds \cup {"none"},
            row : JobRow, profile : ProfileIds \cup {"none"}]

UpgradeTypes ==
  /\ legacy \in [JobIds -> JobRow] /\ sound \in SUBSET ProfileIds
  /\ mark \in Nat /\ polled \in Nat /\ revision \in {"0003", "0004"}
  /\ migration \in {"none", "tables", "locked", "refused"}
  /\ session \in [Sessions -> Session]

(* Who holds what: the migration excludes the sessions, and the job-change  *)
(* lock one session another; what is written is written under the locks.    *)
LocksHeld ==
  /\ migration \in {"tables", "locked"} => \A s \in Sessions : ~session[s].tables
  /\ migration = "locked" => \A s \in Sessions : ~session[s].advisory
  /\ \A s, other \in Sessions : session[s].advisory /\ session[other].advisory => s = other
  /\ \A s \in Sessions : session[s].job # "none" => session[s].tables /\ session[s].advisory
  /\ \A s \in Sessions : session[s].profile # "none" =>
       session[s].tables /\ (revision = "0004" => session[s].advisory)

(* A change under way is stamped after all that is committed. *)
StampsFresh ==
  \A s \in Sessions : session[s].job # "none" =>
    /\ session[s].row.updated > mark
    /\ \A j \in JobIds : session[s].row.updated > legacy[j].updated

(* A cursor is the stamp of a row, as it is or was. *)
CursorCovered == polled <= mark \/ \E j \in JobIds : polled <= legacy[j].updated

AllAccepted(rows, profiles) == \A j \in JobIds : Accepted(rows[j], profiles)

(* Who has passed the checks may commit: nobody else has changed anything.  *)
ChecksHold ==
  \A s \in Sessions :
    revision = "0004" /\ ~session[s].due
    /\ (session[s].job # "none" \/ session[s].profile # "none") =>
      AllAccepted(RowsAfter(s), SoundAfter(s))

UpgradeInv ==
  UpgradeTypes /\ LocksHeld /\ StampsFresh /\ CursorCovered /\ ChecksHold /\ UpgradeTakesAll

(* What a repair sets, it sets to what a column may hold, and nothing else. *)
LEMMA PartsSet ==
  ASSUME NEW r \in JobRow
  PROVE  /\ \A stage \in Stages, units, total \in Int : At(r, stage, units, total) \in JobRow
         /\ \A code \in Codes, result \in Results : Telling(r, code, result) \in JobRow
         /\ \A started, ended \in Nat \cup {Null} : Timed(r, started, ended) \in JobRow
BY DEF At, Telling, Timed, JobRow

(* A row whose place, report and times are set, and what it is then. *)
RowSet(r, stage, units, total, code, result, started, ended) ==
  Timed(Telling(At(r, stage, units, total), code, result), started, ended)

RowIs(q, r, stage, units, total, code, result, started, ended) ==
  /\ q \in JobRow /\ q.stage = stage /\ q.units = units /\ q.total = total
  /\ q.error = code /\ q.told = code /\ q.result = result
  /\ q.started = started /\ q.ended = ended
  /\ q.status = r.status /\ q.created = r.created

LEMMA RowIsSet ==
  ASSUME NEW r \in JobRow, NEW stage \in Stages, NEW units \in Int, NEW total \in Int,
         NEW code \in Codes, NEW result \in Results,
         NEW started \in Nat \cup {Null}, NEW ended \in Nat \cup {Null}
  PROVE  RowIs(RowSet(r, stage, units, total, code, result, started, ended),
               r, stage, units, total, code, result, started, ended)
<1> DEFINE a == At(r, stage, units, total)
           b == Telling(a, code, result)
           q == Timed(b, started, ended)
<1>1. a \in JobRow
  BY PartsSet
<1>2. b \in JobRow
  <2> HIDE DEF a
  <2> QED BY <1>1, PartsSet
<1>3. q \in JobRow
  <2> HIDE DEF b
  <2> QED BY <1>2, PartsSet
<1>4. /\ a.stage = stage /\ a.units = units /\ a.total = total
      /\ a.status = r.status /\ a.created = r.created
  BY <1>1 DEF JobRow, At
<1> HIDE DEF a
<1>5. /\ b.stage = stage /\ b.units = units /\ b.total = total
      /\ b.error = code /\ b.told = code /\ b.result = result
      /\ b.status = r.status /\ b.created = r.created
  BY <1>1, <1>2, <1>4 DEF JobRow, Telling
<1> HIDE DEF b
<1>6. /\ q.stage = stage /\ q.units = units /\ q.total = total
      /\ q.error = code /\ q.told = code /\ q.result = result
      /\ q.started = started /\ q.ended = ended
      /\ q.status = r.status /\ q.created = r.created
  BY <1>2, <1>3, <1>5 DEF JobRow, Timed
<1> QED BY <1>3, <1>6 DEF RowIs, RowSet, a, b

(* The starts and ends of a repaired row are in order. *)
LEMMA TimesRepaired ==
  ASSUME NEW r \in JobRow
  PROVE  /\ StartOf(r) \in Nat /\ StartOf(r) >= r.created
         /\ EndOf(r) \in Nat /\ EndOf(r) >= r.created
         /\ \A a, b \in Nat : Later(a, b) \in Nat /\ Later(a, b) >= a /\ Later(a, b) >= b
         /\ Coalesce(r.ended, r.created) \in Nat /\ r.created \in Nat
BY DEF JobRow, StartOf, EndOf, Later, Coalesce, Null

(* The units of a job under way are some, but not all, of its total. *)
LEMMA UnitsRepaired ==
  ASSUME NEW r \in JobRow
  PROVE  /\ UnitsOf(r) \in Nat /\ TotalOf(r) \in Nat
         /\ UnitsOf(r) < TotalOf(r) /\ TotalOf(r) > 0
BY DEF JobRow, UnitsOf, TotalOf, InProgress

(* A success without its profile is a failure from then on. *)
LEMMA InvalidRejected ==
  ASSUME NEW r \in JobRow
  PROVE  /\ RejectInvalid(r) \in JobRow /\ RejectInvalid(r).created = r.created
         /\ RejectInvalid(r).status = "succeeded" => RejectInvalid(r).result \in sound
<1>1. CASE r.status = "succeeded" /\ r.result \notin sound
  <2> DEFINE q == RowSet(r, "none", 0, 0, "permanent", "none", Null, EndOf(r))
  <2>1. q \in JobRow /\ q.created = r.created
    <3>1. /\ "none" \in Stages /\ "permanent" \in Codes /\ "none" \in Results
          /\ 0 \in Int /\ Null \in Nat \cup {Null} /\ EndOf(r) \in Nat \cup {Null}
      BY TimesRepaired DEF Stages, Codes, PublicCodes, Results
    <3>2. RowIs(q, r, "none", 0, 0, "permanent", "none", Null, EndOf(r))
      BY <3>1, RowIsSet
    <3> QED BY <3>2 DEF RowIs
  <2>2. RejectInvalid(r) = [q EXCEPT !.status = "failed"]
    BY <1>1 DEF RejectInvalid, RowSet
  <2> HIDE DEF q
  <2> QED BY <2>1, <2>2 DEF JobRow
<1>2. CASE ~(r.status = "succeeded" /\ r.result \notin sound)
  BY <1>2 DEF RejectInvalid
<1> QED BY <1>1, <1>2

(* What the repairs make of a row, by its status. *)
RepairedShape(q) ==
  /\ q.told = q.error
  /\ \/ /\ q.status = "queued" /\ q.stage = "none" /\ q.units = 0 /\ q.total = 0
        /\ q.error = "none" /\ q.result = "none" /\ q.started = Null /\ q.ended = Null
     \/ /\ q.status = "running" /\ q.stage # "none" /\ 0 <= q.units /\ q.units < q.total
        /\ q.error = "none" /\ q.result = "none"
        /\ q.started \in Nat /\ q.started >= q.created /\ q.ended = Null
     \/ /\ q.status = "succeeded" /\ q.stage = "finalizing" /\ 0 < q.total /\ q.units = q.total
        /\ q.error = "none" /\ q.result \in sound
        /\ q.started \in Nat /\ q.started >= q.created
        /\ q.ended \in Nat /\ q.ended >= q.started
     \/ /\ q.status = "failed" /\ q.error \in PublicCodes /\ q.result = "none"
        /\ q.ended \in Nat /\ q.ended >= q.created
        /\ \/ q.stage = "none" /\ q.units = 0 /\ q.total = 0 /\ q.started = Null
           \/ /\ q.stage # "none" /\ 0 <= q.units /\ q.units < q.total
              /\ q.started \in Nat /\ q.started >= q.created /\ q.ended >= q.started

LEMMA ShapeAccepted ==
  ASSUME NEW q \in JobRow, RepairedShape(q), NEW t \in Nat, t >= q.created
  PROVE  /\ [q EXCEPT !.updated = t] \in JobRow
         /\ Accepted([q EXCEPT !.updated = t], sound)
<1> DEFINE p == [q EXCEPT !.updated = t]
<1>1. /\ p \in JobRow /\ p.updated = t /\ p.created = q.created /\ p.status = q.status
      /\ p.stage = q.stage /\ p.units = q.units /\ p.total = q.total /\ p.error = q.error
      /\ p.told = q.told /\ p.result = q.result /\ p.started = q.started /\ p.ended = q.ended
  BY DEF JobRow
<1>2. q.units \in Int /\ q.total \in Int /\ q.created \in Nat
  BY DEF JobRow
<1> HIDE DEF p
<1>3. Accepted(p, sound)
  BY <1>1, <1>2 DEF RepairedShape, Accepted, RowIsValid, ProfileIsValid, StatusShape, ErrorMapping, Null
<1> QED BY <1>1, <1>3 DEF p

LEMMA RepairShapes ==
  ASSUME NEW r \in JobRow, r.status = "succeeded" => r.result \in sound,
         NEW q, q = RepairFailed(RepairSucceeded(RepairRunning(RepairQueued(r))))
  PROVE  q \in JobRow /\ q.created = r.created /\ RepairedShape(q)
<1>0. /\ Stages = {"none", "fetching_data", "analyzing", "finalizing"} /\ "none" \in Codes
      /\ "none" \in Results /\ 0 \in Int /\ Null \in Nat \cup {Null} /\ Null \notin Nat
      /\ \A n \in Nat : n \in Int /\ n \in Nat \cup {Null}
      /\ PublicCodes \subseteq Codes /\ "internal" \in PublicCodes
      /\ r.stage \in Stages /\ r.result \in Results /\ r.total \in Int
      /\ r.status \in {"queued", "running", "succeeded", "failed"}
  BY DEF Stages, Codes, PublicCodes, Results, Null, JobRow
<1>1. CASE r.status = "queued"
  <2> DEFINE w == RowSet(r, "none", 0, 0, "none", "none", Null, Null)
  <2>1. RowIs(w, r, "none", 0, 0, "none", "none", Null, Null)
    BY <1>0, RowIsSet
  <2>2. RepairQueued(r) = w
    BY <1>1 DEF RepairQueued, RowSet
  <2> HIDE DEF w
  <2>3. q = w
    BY <1>1, <2>1, <2>2 DEF RowIs, RepairRunning, RepairSucceeded, RepairFailed
  <2> QED BY <1>1, <2>1, <2>3 DEF RowIs, RepairedShape
<1>2. CASE r.status = "running"
  <2> DEFINE stage == IF r.stage = "none" THEN "fetching_data" ELSE r.stage
             w == RowSet(r, stage, UnitsOf(r), TotalOf(r), "none", "none", StartOf(r), Null)
  <2>1. stage \in Stages /\ stage # "none"
    BY <1>0
  <2>2. RepairQueued(r) = r /\ RepairRunning(r) = w
    BY <1>2 DEF RepairQueued, RepairRunning, RowSet
  <2> HIDE DEF stage
  <2>3. RowIs(w, r, stage, UnitsOf(r), TotalOf(r), "none", "none", StartOf(r), Null)
    <3>1. /\ UnitsOf(r) \in Int /\ TotalOf(r) \in Int /\ StartOf(r) \in Nat \cup {Null}
      BY TimesRepaired, UnitsRepaired
    <3> QED BY <1>0, <2>1, <3>1, RowIsSet
  <2> HIDE DEF w
  <2>4. q = w
    BY <1>2, <2>2, <2>3 DEF RowIs, RepairSucceeded, RepairFailed
  <2>5. /\ 0 <= w.units /\ w.units < w.total /\ w.started \in Nat /\ w.started >= w.created
    <3>1. /\ w.units = UnitsOf(r) /\ w.total = TotalOf(r) /\ w.started = StartOf(r)
          /\ w.created = r.created
      BY <2>3 DEF RowIs
    <3>2. 0 <= UnitsOf(r) /\ UnitsOf(r) < TotalOf(r)
      BY UnitsRepaired
    <3> QED BY <3>1, <3>2, TimesRepaired
  <2> QED BY <1>2, <2>1, <2>3, <2>4, <2>5 DEF RowIs, RepairedShape
<1>3. CASE r.status = "succeeded"
  <2> DEFINE total == IF r.total > 0 THEN r.total ELSE 5
             end == Later(StartOf(r), Coalesce(r.ended, r.created))
             w == RowSet(r, "finalizing", total, total, "none", r.result, StartOf(r), end)
  <2>1. total \in Int /\ total > 0
    BY <1>0
  <2>2. end \in Nat /\ end >= StartOf(r)
    BY TimesRepaired
  <2>3. RepairRunning(RepairQueued(r)) = r /\ RepairSucceeded(r) = w
    BY <1>3 DEF RepairQueued, RepairRunning, RepairSucceeded, RowSet
  <2> HIDE DEF total, end
  <2>4. RowIs(w, r, "finalizing", total, total, "none", r.result, StartOf(r), end)
    <3>1. end \in Nat \cup {Null} /\ StartOf(r) \in Nat \cup {Null} /\ "finalizing" \in Stages
      BY <1>0, <2>2, TimesRepaired
    <3> QED BY <1>0, <2>1, <3>1, RowIsSet
  <2> HIDE DEF w
  <2>5. q = w
    BY <1>3, <2>3, <2>4 DEF RowIs, RepairFailed
  <2> QED BY <1>3, <2>1, <2>2, <2>4, <2>5, TimesRepaired DEF RowIs, RepairedShape
<1>4. CASE r.status = "failed"
  <2>1. RepairSucceeded(RepairRunning(RepairQueued(r))) = r
    BY <1>4 DEF RepairQueued, RepairRunning, RepairSucceeded
  <2>2. PICK code \in PublicCodes :
          q = IF r.stage = "none"
              THEN RowSet(r, "none", 0, 0, code, "none", Null, EndOf(r))
              ELSE RowSet(r, r.stage, UnitsOf(r), TotalOf(r), code, "none",
                          StartOf(r), Later(StartOf(r), EndOf(r)))
    BY <1>0, <1>4, <2>1 DEF RepairFailed, RowSet
  <2>3. code \in Codes
    BY <1>0, <2>2
  <2>4. CASE r.stage = "none"
    <3>1. RowIs(q, r, "none", 0, 0, code, "none", Null, EndOf(r))
      <4>1. EndOf(r) \in Nat \cup {Null}
        BY TimesRepaired
      <4>2. RowIs(RowSet(r, "none", 0, 0, code, "none", Null, EndOf(r)),
                  r, "none", 0, 0, code, "none", Null, EndOf(r))
        BY <1>0, <2>3, <4>1, RowIsSet
      <4> QED BY <2>2, <2>4, <4>2
    <3> QED BY <1>4, <3>1, <2>2, TimesRepaired DEF RowIs, RepairedShape
  <2>5. CASE r.stage # "none"
    <3> DEFINE end == Later(StartOf(r), EndOf(r))
    <3>1. end \in Nat /\ end >= StartOf(r) /\ end >= EndOf(r)
      BY TimesRepaired
    <3>2. q = RowSet(r, r.stage, UnitsOf(r), TotalOf(r), code, "none", StartOf(r), end)
      BY <2>2, <2>5
    <3> HIDE DEF end
    <3>3. RowIs(q, r, r.stage, UnitsOf(r), TotalOf(r), code, "none", StartOf(r), end)
      <4>1. /\ UnitsOf(r) \in Int /\ TotalOf(r) \in Int /\ StartOf(r) \in Nat \cup {Null}
            /\ end \in Nat \cup {Null}
        BY <3>1, TimesRepaired, UnitsRepaired
      <4>2. RowIs(RowSet(r, r.stage, UnitsOf(r), TotalOf(r), code, "none", StartOf(r), end),
                  r, r.stage, UnitsOf(r), TotalOf(r), code, "none", StartOf(r), end)
        BY <1>0, <2>3, <4>1, RowIsSet
      <4> QED BY <3>2, <4>2
    <3>4. /\ 0 <= q.units /\ q.units < q.total /\ q.started \in Nat /\ q.started >= q.created
          /\ q.ended \in Nat /\ q.ended >= q.started /\ q.ended >= q.created
      <4>1. /\ q.units = UnitsOf(r) /\ q.total = TotalOf(r) /\ q.started = StartOf(r)
            /\ q.created = r.created /\ q.ended = end
        BY <3>3 DEF RowIs
      <4>2. 0 <= UnitsOf(r) /\ UnitsOf(r) < TotalOf(r)
        BY UnitsRepaired
      <4>3. /\ EndOf(r) \in Nat /\ EndOf(r) >= r.created /\ StartOf(r) \in Nat
            /\ StartOf(r) >= r.created /\ r.created \in Nat
        BY TimesRepaired
      <4> QED BY <3>1, <4>1, <4>2, <4>3
    <3> QED BY <1>4, <2>2, <2>5, <3>3, <3>4 DEF RowIs, RepairedShape
  <2> QED BY <2>4, <2>5
<1> QED BY <1>0, <1>1, <1>2, <1>3, <1>4

(* Whatever a row held, the checks accept what the repairs make of it.      *)
LEMMA RepairAccepted ==
  ASSUME NEW r \in JobRow, NEW t \in Nat, t >= r.created
  PROVE  /\ [Repaired(r) EXCEPT !.updated = t] \in JobRow
         /\ Accepted([Repaired(r) EXCEPT !.updated = t], sound)
<1> DEFINE w == RejectInvalid(r)
<1>1. w \in JobRow /\ w.created = r.created /\ (w.status = "succeeded" => w.result \in sound)
  BY InvalidRejected
<1>2. Repaired(r) = RepairFailed(RepairSucceeded(RepairRunning(RepairQueued(w))))
  BY DEF Repaired
<1> HIDE DEF w
<1>3. Repaired(r) \in JobRow /\ Repaired(r).created = r.created /\ RepairedShape(Repaired(r))
  BY <1>1, <1>2, RepairShapes
<1> QED BY <1>3, ShapeAccepted

(* What a worker makes of a row it may hold. *)
LEMMA ChangesHold ==
  ASSUME NEW r \in JobRow, NEW t \in Nat, NEW q \in Changes(r, t)
  PROVE  q \in JobRow /\ q.updated = t
<1>0. /\ "none" \in Codes /\ "internal" \in Codes /\ "none" \in Results /\ 0 \in Int /\ 5 \in Int
      /\ "fetching_data" \in Stages /\ "finalizing" \in Stages /\ ProfileIds \subseteq Results
      /\ t \in Nat \cup {Null} /\ r.started \in Nat \cup {Null} /\ r.ended \in Nat \cup {Null}
      /\ r.total \in Int
  BY DEF Stages, Codes, PublicCodes, Results, Null, JobRow
<1>1. CASE q = ClaimedJob(r, t)
  <2> DEFINE a == At(r, "fetching_data", 0, 5)
             b == Timed(a, t, r.ended)
  <2>1. a \in JobRow
    BY <1>0, PartsSet
  <2> HIDE DEF a
  <2>2. b \in JobRow
    BY <1>0, <2>1, PartsSet
  <2>3. q = [b EXCEPT !.status = "running", !.updated = t]
    BY <1>1 DEF ClaimedJob, a
  <2> HIDE DEF b
  <2> QED BY <2>2, <2>3 DEF JobRow
<1>2. CASE q = FailedJob(r, t)
  <2> DEFINE a == Telling(r, "internal", "none")
             b == Timed(a, r.started, t)
  <2>1. a \in JobRow
    BY <1>0, PartsSet
  <2> HIDE DEF a
  <2>2. b \in JobRow
    BY <1>0, <2>1, PartsSet
  <2>3. q = [b EXCEPT !.status = "failed", !.updated = t]
    BY <1>2 DEF FailedJob, a
  <2> HIDE DEF b
  <2> QED BY <2>2, <2>3 DEF JobRow
<1>3. CASE \E p \in ProfileIds : q = FinishedJob(r, p, t)
  <2>1. PICK p \in ProfileIds : q = FinishedJob(r, p, t)
    BY <1>3
  <2> DEFINE b == RowSet(r, "finalizing", r.total, r.total, "none", p, r.started, t)
  <2>2. b \in JobRow
    <3>1. p \in Results
      BY <1>0, <2>1
    <3>2. RowIs(b, r, "finalizing", r.total, r.total, "none", p, r.started, t)
      BY <1>0, <3>1, RowIsSet
    <3> QED BY <3>2 DEF RowIs
  <2>3. q = [b EXCEPT !.status = "succeeded", !.updated = t]
    BY <2>1 DEF FinishedJob, RowSet
  <2> HIDE DEF b
  <2> QED BY <2>2, <2>3 DEF JobRow
<1> QED BY <1>1, <1>2, <1>3 DEF Changes

(* The upgrade begins with rows of the first schema, and nobody at work.    *)
LEMMA InitUpgrades == UpgradeInit => UpgradeInv
<1> SUFFICES ASSUME UpgradeInit PROVE UpgradeInv
  OBVIOUS
<1>1. LegacyRow \subseteq JobRow
  <2>1. /\ LegacyStages \subseteq Stages /\ AnyUnits \subseteq Int /\ LegacyCodes \subseteq Codes
        /\ LegacyTimes \subseteq Nat
    <3>1. \A n \in LegacyUnits : n \in Int /\ -n \in Int
      BY UpgradeAssumption
    <3> QED BY <3>1, UpgradeAssumption DEF AnyUnits
  <2> QED BY <2>1 DEF LegacyRow, JobRow
<1>2. NoRow \in JobRow
  BY DEF NoRow, JobRow, Stages, Codes, Results, Null
<1>3. UpgradeTypes
  BY <1>1, <1>2, UpgradeAssumption DEF UpgradeInit, UpgradeTypes, Session, Closed
<1>4. \A s \in Sessions : session[s] = Closed
  BY DEF UpgradeInit
<1>5. CursorCovered
  BY <1>3 DEF UpgradeInit, UpgradeTypes, CursorCovered
<1>6. migration = "none" /\ revision = "0003"
  BY DEF UpgradeInit
<1>7. LocksHeld /\ StampsFresh /\ ChecksHold /\ UpgradeTakesAll
  BY <1>4, <1>6 DEF LocksHeld, StampsFresh, ChecksHold, UpgradeTakesAll, Closed
<1> QED
  BY <1>3, <1>5, <1>7 DEF UpgradeInv

(* What the sessions do to their own locks and changes. *)
LEMMA SessionUpgrades ==
  ASSUME UpgradeInv, NEW s \in Sessions, Keeps,
         NEW new \in Session, session' = [session EXCEPT ![s] = new],
         new.tables => session[s].tables \/ migration \notin {"tables", "locked"},
         new.advisory => \/ session[s].advisory
                         \/ /\ migration # "locked"
                            /\ \A other \in Sessions : ~session[other].advisory,
         new.job # "none" => /\ new.tables /\ new.advisory /\ new.row.updated > mark
                             /\ \A j \in JobIds : new.row.updated > legacy[j].updated,
         new.profile # "none" => new.tables /\ (revision = "0004" => new.advisory),
         revision = "0004" /\ ~new.due /\ (new.job # "none" \/ new.profile # "none") =>
           AllAccepted(RowsAfter(s)', SoundAfter(s)')
  PROVE  UpgradeInv'
<1>1. /\ legacy' = legacy /\ sound' = sound /\ mark' = mark /\ polled' = polled
      /\ revision' = revision /\ migration' = migration
  BY DEF Keeps
<1>2. /\ session'[s] = new /\ \A o \in Sessions : o # s => session'[o] = session[o]
  BY DEF UpgradeInv, UpgradeTypes
<1>3. UpgradeTypes'
  BY <1>1 DEF UpgradeInv, UpgradeTypes
<1>4. LocksHeld'
  BY <1>1, <1>2 DEF UpgradeInv, LocksHeld
<1>5. StampsFresh'
  BY <1>1, <1>2 DEF UpgradeInv, StampsFresh
<1>6. CursorCovered' /\ UpgradeTakesAll'
  BY <1>1 DEF UpgradeInv, CursorCovered, UpgradeTakesAll, Accepted, ProfileIsValid
<1>7. ChecksHold'
  <2> SUFFICES ASSUME NEW o \in Sessions, revision = "0004", ~session'[o].due,
                      session'[o].job # "none" \/ session'[o].profile # "none"
               PROVE  AllAccepted(RowsAfter(o)', SoundAfter(o)')
    BY <1>1 DEF ChecksHold
  <2>1. CASE o = s
    BY <1>2, <2>1
  <2>2. CASE o # s
    <3>1. RowsAfter(o)' = RowsAfter(o) /\ SoundAfter(o)' = SoundAfter(o)
      BY <1>1, <1>2, <2>2 DEF RowsAfter, SoundAfter
    <3> QED BY <1>2, <2>2, <3>1 DEF UpgradeInv, ChecksHold
  <2> QED BY <2>1, <2>2
<1> QED BY <1>3, <1>4, <1>5, <1>6, <1>7 DEF UpgradeInv

(* The checks see all that has to hold when the session commits. *)
LEMMA ChecksSuffice ==
  ASSUME UpgradeInv, NEW s \in Sessions, revision = "0004", Checks(s)
  PROVE  AllAccepted(RowsAfter(s), SoundAfter(s))
<1> SUFFICES ASSUME NEW j \in JobIds PROVE Accepted(RowsAfter(s)[j], SoundAfter(s))
  BY DEF AllAccepted
<1>1. CASE j = session[s].job
  <2>1. session[s].job # "none"
    BY <1>1, UpgradeAssumption
  <2>2. RowsAfter(s)[j] = session[s].row
    BY <1>1, <2>1 DEF RowsAfter, UpgradeInv, UpgradeTypes
  <2> QED BY <2>1, <2>2 DEF Checks
<1>2. CASE j # session[s].job
  <2>1. RowsAfter(s)[j] = legacy[j]
    BY <1>2 DEF RowsAfter, UpgradeInv, UpgradeTypes
  <2>2. Accepted(legacy[j], sound)
    BY DEF UpgradeInv, UpgradeTakesAll
  <2>3. CASE session[s].profile = "none" \/ session[s].profile \notin sound
    BY <2>1, <2>2, <2>3 DEF SoundAfter, Accepted, ProfileIsValid
  <2>4. CASE session[s].profile # "none" /\ session[s].profile \in sound
    <3>1. SoundAfter(s) = sound \ {session[s].profile}
      BY <2>4 DEF SoundAfter
    <3>2. legacy[j].status = "succeeded" => legacy[j].result # session[s].profile
      BY <2>1, <2>4, <3>1 DEF Checks
    <3> QED BY <2>1, <2>2, <3>1, <3>2 DEF Accepted, ProfileIsValid
  <2> QED BY <2>3, <2>4
<1> QED BY <1>1, <1>2

(* A session commits: nobody else has written under the job-change lock,    *)
(* and what it passed the checks with is what stands then.                  *)
LEMMA CommitUpgrades ==
  ASSUME UpgradeInv, NEW s \in Sessions, Commits(s) PROVE UpgradeInv'
<1> DEFINE j == session[s].job
           row == session[s].row
<1>1. /\ legacy' = RowsAfter(s) /\ sound' = SoundAfter(s) /\ polled' = polled
      /\ revision' = revision /\ migration' = migration
      /\ session' = [session EXCEPT ![s] = Closed]
  BY DEF Commits
<1>2. /\ session'[s] = Closed /\ \A o \in Sessions : o # s => session'[o] = session[o]
  BY <1>1 DEF UpgradeInv, UpgradeTypes
<1>3. /\ j \in JobIds \cup {"none"} /\ row \in JobRow /\ row.updated \in Nat
      /\ session[s].profile \in ProfileIds \cup {"none"} /\ Closed \in Session
      /\ mark \in Nat /\ polled \in Nat /\ \A k \in JobIds : legacy[k].updated \in Nat
  BY DEF UpgradeInv, UpgradeTypes, Session, JobRow, Closed, NoRow, Stages, Codes, Results, Null
<1>4. \/ j = "none" /\ legacy' = legacy /\ mark' = mark
      \/ /\ j \in JobIds /\ legacy' = [legacy EXCEPT ![j] = row] /\ mark' = row.updated
         /\ row.updated > mark /\ session[s].advisory
         /\ \A k \in JobIds : row.updated > legacy[k].updated
  BY <1>1, <1>3 DEF Commits, RowsAfter, UpgradeInv, StampsFresh, LocksHeld
<1>5. UpgradeTypes'
  <2>1. SoundAfter(s) \in SUBSET ProfileIds
    BY <1>3 DEF SoundAfter, UpgradeInv, UpgradeTypes
  <2>2. legacy' \in [JobIds -> JobRow] /\ mark' \in Nat
    BY <1>3, <1>4 DEF UpgradeInv, UpgradeTypes
  <2> QED BY <1>1, <1>3, <2>1, <2>2 DEF UpgradeInv, UpgradeTypes
<1>6. LocksHeld'
  BY <1>1, <1>2 DEF UpgradeInv, LocksHeld, Closed
<1>7. StampsFresh'
  <2> SUFFICES ASSUME NEW o \in Sessions, session'[o].job # "none"
               PROVE  /\ session'[o].row.updated > mark'
                      /\ \A k \in JobIds : session'[o].row.updated > legacy'[k].updated
    BY DEF StampsFresh
  <2>1. o # s /\ session'[o] = session[o]
    BY <1>2 DEF Closed
  <2>2. session[o].advisory
    BY <2>1 DEF UpgradeInv, LocksHeld
  <2>3. legacy' = legacy /\ mark' = mark
    BY <1>4, <2>1, <2>2 DEF UpgradeInv, LocksHeld
  <2> QED BY <2>1, <2>3 DEF UpgradeInv, StampsFresh
<1>8. CursorCovered'
  <2>1. CASE legacy' = legacy /\ mark' = mark
    BY <1>1, <2>1 DEF UpgradeInv, CursorCovered
  <2>2. CASE /\ mark' = row.updated /\ row.updated > mark
             /\ \A k \in JobIds : row.updated > legacy[k].updated
    BY <1>1, <1>3, <2>2 DEF UpgradeInv, CursorCovered
  <2> QED BY <1>4, <2>1, <2>2
<1>9. revision = "0004" => session[s].advisory /\ AllAccepted(legacy', sound')
  BY <1>1 DEF Commits, UpgradeInv, LocksHeld, ChecksHold
<1>10. ChecksHold'
  <2> SUFFICES ASSUME NEW o \in Sessions, revision = "0004", ~session'[o].due,
                      session'[o].job # "none" \/ session'[o].profile # "none"
               PROVE  FALSE
    BY <1>1 DEF ChecksHold
  <2>1. o # s /\ session'[o] = session[o]
    BY <1>2 DEF Closed
  <2> QED BY <1>9, <2>1 DEF UpgradeInv, LocksHeld
<1>11. UpgradeTakesAll'
  <2> SUFFICES ASSUME revision = "0004", NEW k \in JobIds
               PROVE  Accepted(legacy'[k], sound') /\ legacy'[k].updated > polled
    BY <1>1 DEF UpgradeTakesAll, UpgradeInv, Accepted, ProfileIsValid
  <2>1. Accepted(legacy'[k], sound')
    BY <1>9 DEF AllAccepted
  <2>2. legacy[k].updated > polled
    BY DEF UpgradeInv, UpgradeTakesAll
  <2>3. legacy'[k].updated >= legacy[k].updated
    BY <1>3, <1>4 DEF UpgradeInv, UpgradeTypes
  <2>4. legacy'[k].updated \in Nat
    BY <1>5 DEF UpgradeTypes, JobRow
  <2> QED BY <1>3, <2>1, <2>2, <2>3, <2>4
<1> QED BY <1>5, <1>6, <1>7, <1>8, <1>10, <1>11 DEF UpgradeInv

(* The migration, its gates and its end. *)
LEMMA MigrationUpgrades ==
  ASSUME UpgradeInv, LockTables \/ TryAdvisory \/ Upgrade \/ Downgrade \/ Abort
  PROVE  UpgradeInv'
<1>0. session' = session /\ sound' = sound /\ polled' = polled
  BY DEF LockTables, TryAdvisory, Upgrade, Downgrade, Abort
<1>1. CASE LockTables \/ TryAdvisory \/ Abort
  <2>1. /\ legacy' = legacy /\ mark' = mark /\ revision' = revision
        /\ migration' \in {"none", "tables", "locked"}
    BY <1>1 DEF LockTables, TryAdvisory, Abort
  <2>2. UpgradeTypes' /\ StampsFresh' /\ CursorCovered'
    BY <1>0, <2>1 DEF UpgradeInv, UpgradeTypes, StampsFresh, CursorCovered
  <2>3. LocksHeld'
    BY <1>0, <1>1, <2>1 DEF UpgradeInv, LocksHeld, LockTables, TryAdvisory, Abort
  <2>4. ChecksHold'
    BY <1>0, <2>1 DEF UpgradeInv, ChecksHold, RowsAfter, SoundAfter, AllAccepted, Accepted,
       ProfileIsValid
  <2>5. UpgradeTakesAll'
    BY <1>0, <2>1 DEF UpgradeInv, UpgradeTakesAll, Accepted, ProfileIsValid
  <2> QED BY <2>2, <2>3, <2>4, <2>5 DEF UpgradeInv
<1>2. CASE Downgrade
  <2>1. /\ legacy' = legacy /\ mark' = mark /\ revision' = "0003" /\ migration' = "none"
        /\ revision = "0004"
    BY <1>2 DEF Downgrade
  <2> QED
    BY <1>0, <2>1 DEF UpgradeInv, UpgradeTypes, StampsFresh, CursorCovered, LocksHeld, ChecksHold,
       UpgradeTakesAll
<1>3. CASE Upgrade
  <2>1. PICK t \in RepairStamps :
          LET rows == [j \in JobIds |-> [Repaired(legacy[j]) EXCEPT !.updated = t]]
          IN \/ /\ \A j \in JobIds : Accepted(rows[j], sound)
                /\ legacy' = rows /\ mark' = t /\ revision' = "0004" /\ migration' = "none"
             \/ /\ \E j \in JobIds : ~Accepted(rows[j], sound)
                /\ migration' = "refused" /\ UNCHANGED <<legacy, mark, revision>>
    BY <1>3 DEF Upgrade
  <2>2. /\ t \in Nat /\ t > mark
        /\ \A j \in JobIds : t > legacy[j].updated /\ t > legacy[j].created
    BY <2>1, UpgradeAssumption DEF RepairStamps, NextStamps
  <2>3. /\ mark \in Nat /\ polled \in Nat
        /\ \A j \in JobIds : /\ legacy[j] \in JobRow /\ legacy[j].updated \in Nat
                             /\ legacy[j].created \in Nat
    BY DEF UpgradeInv, UpgradeTypes, JobRow
  <2> DEFINE rows == [j \in JobIds |-> [Repaired(legacy[j]) EXCEPT !.updated = t]]
  <2>4. \A j \in JobIds : rows[j] \in JobRow /\ Accepted(rows[j], sound) /\ rows[j].updated = t
    <3> SUFFICES ASSUME NEW j \in JobIds
                 PROVE  rows[j] \in JobRow /\ Accepted(rows[j], sound) /\ rows[j].updated = t
      OBVIOUS
    <3> DEFINE q == [Repaired(legacy[j]) EXCEPT !.updated = t]
    <3>1. t >= legacy[j].created
      BY <2>2, <2>3
    <3>2. q \in JobRow /\ Accepted(q, sound)
      BY <2>2, <2>3, <3>1, RepairAccepted
    <3>3. q.updated = t
      <4>1. Repaired(legacy[j]) \in JobRow
        BY <2>3, InvalidRejected, RepairShapes DEF Repaired
      <4> QED BY <4>1 DEF JobRow
    <3> QED BY <3>2, <3>3
  <2>5. /\ legacy' = rows /\ mark' = t /\ revision' = "0004" /\ migration' = "none"
    BY <2>1, <2>4
  <2> HIDE DEF rows
  <2>6. \A s \in Sessions : ~session[s].tables /\ ~session[s].advisory
                           /\ session[s].job = "none" /\ session[s].profile = "none"
    BY <1>3 DEF Upgrade, UpgradeInv, LocksHeld
  <2>7. UpgradeTypes'
    BY <1>0, <2>2, <2>4, <2>5 DEF UpgradeInv, UpgradeTypes, rows
  <2>8. LocksHeld' /\ StampsFresh' /\ ChecksHold'
    BY <1>0, <2>5, <2>6 DEF LocksHeld, StampsFresh, ChecksHold
  <2>9. t > polled
    BY <2>2, <2>3 DEF UpgradeInv, CursorCovered
  <2>10. CursorCovered'
    BY <1>0, <2>2, <2>3, <2>5, <2>9 DEF CursorCovered
  <2>11. UpgradeTakesAll'
    BY <1>0, <2>4, <2>5, <2>9 DEF UpgradeTakesAll, Accepted, ProfileIsValid
  <2> QED BY <2>7, <2>8, <2>10, <2>11 DEF UpgradeInv
<1> QED BY <1>1, <1>2, <1>3

LEMMA StepUpgrades ==
  ASSUME UpgradeInv, [UpgradeNext]_upgradeVars PROVE UpgradeInv'
<1>0. /\ \A s \in Sessions : session[s] \in Session /\ Closed \in Session
      /\ \A j \in JobIds : legacy[j] \in JobRow
      /\ \A n \in 1..MaxTime : n \in Nat
  BY UpgradeAssumption DEF UpgradeInv, UpgradeTypes, Session, JobRow, Closed, NoRow, Stages, Codes,
     Results, Null
<1>1. CASE LockTables \/ TryAdvisory \/ Upgrade \/ Downgrade \/ Abort
  BY <1>1, MigrationUpgrades
<1>2. ASSUME NEW s \in Sessions, TakeTables(s) PROVE UpgradeInv'
  <2> DEFINE new == [session[s] EXCEPT !.tables = TRUE]
  <2>1. session' = [session EXCEPT ![s] = new] /\ Keeps /\ migration \notin {"tables", "locked"}
    BY <1>2 DEF TakeTables, UpgradeInv, UpgradeTypes
  <2>2. /\ new \in Session /\ new.advisory = session[s].advisory /\ new.tables
        /\ new.due = session[s].due /\ new.job = session[s].job /\ new.row = session[s].row
        /\ new.profile = session[s].profile
    BY <1>0 DEF Session
  <2> HIDE DEF new
  <2>3. RowsAfter(s)' = RowsAfter(s) /\ SoundAfter(s)' = SoundAfter(s)
    BY <2>1, <2>2 DEF Keeps, RowsAfter, SoundAfter, UpgradeInv, UpgradeTypes
  <2> QED
    BY <2>1, <2>2, <2>3, SessionUpgrades DEF UpgradeInv, LocksHeld, StampsFresh, ChecksHold
<1>3. ASSUME NEW s \in Sessions, TakeAdvisory(s) PROVE UpgradeInv'
  <2> DEFINE new == [session[s] EXCEPT !.advisory = TRUE]
  <2>1. /\ session' = [session EXCEPT ![s] = new] /\ Keeps /\ migration # "locked"
        /\ \A other \in Sessions : ~session[other].advisory
    BY <1>3 DEF TakeAdvisory, UpgradeInv, UpgradeTypes
  <2>2. /\ new \in Session /\ new.tables = session[s].tables /\ new.advisory
        /\ new.due = session[s].due /\ new.job = session[s].job /\ new.row = session[s].row
        /\ new.profile = session[s].profile
    BY <1>0 DEF Session
  <2> HIDE DEF new
  <2>3. RowsAfter(s)' = RowsAfter(s) /\ SoundAfter(s)' = SoundAfter(s)
    BY <2>1, <2>2 DEF Keeps, RowsAfter, SoundAfter, UpgradeInv, UpgradeTypes
  <2> QED
    BY <2>1, <2>2, <2>3, SessionUpgrades DEF UpgradeInv, LocksHeld, StampsFresh, ChecksHold
<1>4. ASSUME NEW s \in Sessions, Checks(s) PROVE UpgradeInv'
  <2> DEFINE new == [session[s] EXCEPT !.due = FALSE]
  <2>1. session' = [session EXCEPT ![s] = new] /\ Keeps
    BY <1>4 DEF Checks, UpgradeInv, UpgradeTypes
  <2>2. /\ new \in Session /\ new.tables = session[s].tables /\ new.advisory = session[s].advisory
        /\ new.job = session[s].job /\ new.row = session[s].row
        /\ new.profile = session[s].profile
    BY <1>0 DEF Session
  <2> HIDE DEF new
  <2>3. RowsAfter(s)' = RowsAfter(s) /\ SoundAfter(s)' = SoundAfter(s)
    BY <2>1, <2>2 DEF Keeps, RowsAfter, SoundAfter, UpgradeInv, UpgradeTypes
  <2>4. revision = "0004" => AllAccepted(RowsAfter(s), SoundAfter(s))
    BY <1>4, ChecksSuffice
  <2> QED
    BY <2>1, <2>2, <2>3, <2>4, SessionUpgrades DEF UpgradeInv, LocksHeld, StampsFresh
<1>5. ASSUME NEW s \in Sessions, NEW j \in JobIds, WriteJob(s, j) PROVE UpgradeInv'
  <2>0. PICK t \in NextStamps : \E r \in Changes(legacy[j], t) :
          session' = [session EXCEPT ![s].job = j, ![s].row = r, ![s].due = revision = "0004"]
    BY <1>5 DEF WriteJob
  <2>1. PICK r \in Changes(legacy[j], t) :
          session' = [session EXCEPT ![s].job = j, ![s].row = r, ![s].due = revision = "0004"]
    BY <2>0
  <2>2. /\ r \in JobRow /\ r.updated = t /\ t > mark /\ \A k \in JobIds : t > legacy[k].updated
    BY <1>0, <2>1, ChangesHold DEF NextStamps
  <2> DEFINE new == [session[s] EXCEPT !.job = j, !.row = r, !.due = (revision = "0004")]
  <2>3. session' = [session EXCEPT ![s] = new]
    BY <2>1 DEF UpgradeInv, UpgradeTypes
  <2>4. /\ new \in Session /\ new.tables = session[s].tables /\ new.advisory = session[s].advisory
        /\ new.due = (revision = "0004") /\ new.row = r /\ new.profile = session[s].profile
    BY <1>0, <2>2 DEF Session
  <2>5. Keeps /\ session[s].tables /\ session[s].advisory
    BY <1>5 DEF WriteJob
  <2> HIDE DEF new
  <2> QED
    BY <2>2, <2>3, <2>4, <2>5, SessionUpgrades
<1>6. ASSUME NEW s \in Sessions, NEW p \in ProfileIds, WriteProfile(s, p) PROVE UpgradeInv'
  <2> DEFINE new == [session[s] EXCEPT !.profile = p, !.due = (revision = "0004")]
  <2>1. /\ session' = [session EXCEPT ![s] = new] /\ Keeps /\ session[s].tables
        /\ (revision = "0004" => session[s].advisory)
    BY <1>6 DEF WriteProfile, UpgradeInv, UpgradeTypes
  <2>2. /\ new \in Session /\ new.tables = session[s].tables /\ new.advisory = session[s].advisory
        /\ new.due = (revision = "0004") /\ new.job = session[s].job /\ new.row = session[s].row
    BY <1>0 DEF Session
  <2> HIDE DEF new
  <2> QED
    BY <2>1, <2>2, SessionUpgrades DEF UpgradeInv, LocksHeld, StampsFresh
<1>7. ASSUME NEW s \in Sessions, RollsBack(s) PROVE UpgradeInv'
  <2>1. /\ session' = [session EXCEPT ![s] = Closed] /\ Keeps /\ ~Closed.tables /\ ~Closed.advisory
        /\ Closed.job = "none" /\ Closed.profile = "none"
    BY <1>7 DEF RollsBack, Closed
  <2> QED
    BY <1>0, <2>1, SessionUpgrades
<1>8. ASSUME NEW s \in Sessions, Commits(s) PROVE UpgradeInv'
  BY <1>8, CommitUpgrades
<1>9. ASSUME NEW s \in Sessions, NEW j \in JobIds, Polls(s, j) PROVE UpgradeInv'
  <2>1. /\ legacy' = legacy /\ sound' = sound /\ mark' = mark /\ revision' = "0003"
        /\ revision = "0003" /\ migration' = migration /\ polled' = legacy[j].updated
        /\ session' = [session EXCEPT ![s] = Closed]
    BY <1>9 DEF Polls
  <2>2. /\ session'[s] = Closed /\ \A o \in Sessions : o # s => session'[o] = session[o]
    BY <2>1 DEF UpgradeInv, UpgradeTypes
  <2>3. legacy[j].updated \in Nat
    BY <1>0 DEF JobRow
  <2>4. UpgradeTypes'
    BY <1>0, <2>1, <2>3 DEF UpgradeInv, UpgradeTypes
  <2>5. LocksHeld' /\ StampsFresh' /\ ChecksHold' /\ UpgradeTakesAll'
    BY <2>1, <2>2 DEF UpgradeInv, LocksHeld, StampsFresh, ChecksHold, UpgradeTakesAll, Closed
  <2>6. CursorCovered'
    BY <2>1, <2>3 DEF CursorCovered
  <2> QED BY <2>4, <2>5, <2>6 DEF UpgradeInv
<1>10. CASE UNCHANGED upgradeVars
  BY <1>10 DEF upgradeVars, UpgradeInv, UpgradeTypes, LocksHeld, StampsFresh, CursorCovered,
     ChecksHold, UpgradeTakesAll, AllAccepted, Accepted, ProfileIsValid, RowsAfter, SoundAfter
<1> QED
  BY <1>1, <1>2, <1>3, <1>4, <1>5, <1>6, <1>7, <1>8, <1>9, <1>10 DEF UpgradeNext

(* Whatever rows the first schema let in, whatever integers and times they  *)
(* hold, and whoever writes or polls beside it: the upgrade repairs them to *)
(* what its own constraints accept, every later row obeys them, and no      *)
(* cursor from before hides a repaired row.                                 *)
THEOREM RepairsAreAccepted == UpgradeSpec => []UpgradeTakesAll
<1>1. UpgradeInv => UpgradeTakesAll
  BY DEF UpgradeInv
<1> QED
  BY <1>1, InitUpgrades, StepUpgrades, PTL DEF UpgradeSpec
=============================================================================
