---------------------------- MODULE MatchHistory ----------------------------
(***************************************************************************)
(* One Match in the macOS client's history (MatchModel): its retry by the   *)
(* user, the lists and the changes of the feed that tell of it, all of them *)
(* answered later and in any order, in front of the API and the workers.    *)
(*                                                                          *)
(* A snapshot of the Match is its version, which stands for updated_at, and *)
(* its status: queued is "running", a failure that offers no retry "dead".  *)
(* Of what the workers do the order of MatchLifecycle is kept.  A Match     *)
(* that takes the place of this one is another row of the history and left  *)
(* out, as are the result's pane, other clients, and the expiry of          *)
(* idempotency records.  A retry that fails has been performed or never     *)
(* will be.                                                                 *)
(***************************************************************************)
EXTENDS Integers

CONSTANTS
  MaxVersion,   \* bound: changes of the Match
  MaxKeys       \* bound: idempotency keys of the user's retries

ASSUME HistoryAssumption == MaxVersion \in Nat \ {0} /\ MaxKeys \in Nat

VARIABLES
  matchRow,     \* the row of match_tasks
  replay,       \* the idempotency records: the Match their response is of
  listed,       \* the Match in `tasks`, Unlisted if it is not there
  suppressed,   \* its retrySuppressionDates, 0 for none
  retryKey,     \* its retryKeys, 0 for none
  keysUsed,     \* the last key made
  retryCall,    \* retry: the version it was asked for, and what it is answered
  listCall,     \* loadHistory, and what its pages have of the Match
  changeCall,   \* consume of a change, and what it has been told
  fed,          \* the feed's cursor
  accepted,     \* version of the last failure whose retry was accepted: a history
  repeated      \* version of the failure that was reported for a retry's
                \* repeated key: a history

historyVars == <<matchRow, replay, listed, suppressed, retryKey, keysUsed, retryCall,
                 listCall, changeCall, fed, accepted, repeated>>

Statuses == {"running", "failed", "dead", "succeeded", "superseded"}
Snapshot == [version : 1..MaxVersion, status : Statuses]
Unlisted == [version |-> 0, status |-> "unlisted"]
Successor == [version |-> 0, status |-> "successor"]

NoRetry == [phase |-> "none", at |-> 0, answer |-> Unlisted]
NoCall == [phase |-> "none", answer |-> Unlisted]

HistoryTypeOK ==
  /\ matchRow \in Snapshot /\ replay \in [1..MaxKeys -> {"none", "same", "successor"}]
  /\ listed \in Snapshot \cup {Unlisted} /\ suppressed \in 0..MaxVersion
  /\ retryKey \in 0..keysUsed /\ keysUsed \in 0..MaxKeys
  /\ retryCall \in [phase : {"none", "asked", "sent", "answered"}, at : 0..MaxVersion,
                    answer : Snapshot \cup {Unlisted, Successor}]
  /\ listCall \in [phase : {"none", "asked", "read"}, answer : Snapshot \cup {Unlisted}]
  /\ changeCall \in [phase : {"none", "told", "asked", "read"},
                     answer : Snapshot \cup {Unlisted}]
  /\ fed \in 0..MaxVersion /\ accepted \in 0..MaxVersion /\ repeated \in 0..MaxVersion

HistoryInit ==
  /\ \E s \in {"running", "failed"} : matchRow = [version |-> 1, status |-> s]
  /\ replay = [k \in 1..MaxKeys |-> "none"]
  /\ listed = Unlisted /\ suppressed = 0 /\ retryKey = 0 /\ keysUsed = 0
  /\ retryCall = NoRetry /\ listCall = NoCall /\ changeCall = NoCall
  /\ fed = 0 /\ accepted = 0 /\ repeated = 0

ClientStays == UNCHANGED <<listed, suppressed, retryKey, keysUsed, accepted>>
ReadersStay == UNCHANGED <<listCall, changeCall, fed>>
ServerStays == UNCHANGED <<matchRow, replay>>

-----------------------------------------------------------------------------
(* The backend *)

MovesTo(status) ==
  /\ matchRow.version < MaxVersion
  /\ matchRow' = [version |-> matchRow.version + 1, status |-> status]

(* The workers; what was under way when the Match failed may still go on.   *)
MatchRuns ==
  /\ matchRow.status \in {"running", "failed", "dead"}
  /\ \E s \in {"running", "failed", "dead", "succeeded"} : MovesTo(s)
  /\ UNCHANGED <<replay, retryCall, repeated>> /\ ClientStays /\ ReadersStay

Answered(call, answer) == [call EXCEPT !.phase = "answered", !.answer = answer]

(* The same key again: the Match as it is now, and nothing is done.         *)
ReplayRetry ==
  /\ retryCall.phase = "asked" /\ replay[retryKey] # "none"
  /\ \/ /\ replay[retryKey] = "same" /\ retryCall' = Answered(retryCall, matchRow)
        /\ repeated' = IF matchRow.status = "failed" THEN matchRow.version ELSE repeated
     \/ /\ replay[retryKey] = "successor" /\ retryCall' = Answered(retryCall, Successor)
        /\ UNCHANGED repeated
  /\ ServerStays /\ ClientStays /\ ReadersStay

MayRetry == retryCall.phase = "asked" /\ replay[retryKey] = "none" /\ matchRow.status = "failed"

ResumeMatch ==
  /\ MayRetry /\ MovesTo("running") /\ replay' = [replay EXCEPT ![retryKey] = "same"]
  /\ retryCall' = [retryCall EXCEPT !.phase = "sent", !.answer = matchRow']
  /\ UNCHANGED repeated /\ ClientStays /\ ReadersStay

(* The snapshots have expired: another Match takes its place.               *)
SupersedeMatch ==
  /\ MayRetry /\ MovesTo("superseded") /\ replay' = [replay EXCEPT ![retryKey] = "successor"]
  /\ retryCall' = Answered(retryCall, Successor)
  /\ UNCHANGED repeated /\ ClientStays /\ ReadersStay

(* dispatch, after the commit.                                              *)
Dispatch ==
  /\ retryCall.phase = "sent"
  /\ retryCall' = [retryCall EXCEPT !.phase = "answered"]
  /\ UNCHANGED repeated /\ ServerStays /\ ClientStays /\ ReadersStay

DispatchFails ==
  /\ retryCall.phase = "sent"
  /\ IF matchRow.status = "running" THEN MovesTo("failed") ELSE UNCHANGED matchRow
  /\ retryCall' = Answered(retryCall, matchRow')
  /\ UNCHANGED <<replay, repeated>> /\ ClientStays /\ ReadersStay

-----------------------------------------------------------------------------
(* The user's retry *)

CanRetry == listed.status = "failed" /\ retryCall.phase = "none" /\ suppressed = 0

Retry ==
  /\ CanRetry /\ retryCall' = [NoRetry EXCEPT !.phase = "asked", !.at = listed.version]
  /\ IF retryKey = 0
       THEN keysUsed < MaxKeys /\ keysUsed' = keysUsed + 1 /\ retryKey' = keysUsed'
       ELSE UNCHANGED <<keysUsed, retryKey>>
  /\ UNCHANGED <<listed, suppressed, accepted, repeated>> /\ ServerStays /\ ReadersStay

Upserted(snapshot) == IF listed.version <= snapshot.version THEN snapshot ELSE listed

RetryArrives ==
  /\ retryCall.phase = "answered" /\ retryCall' = NoRetry /\ retryKey' = 0
  /\ suppressed' = retryCall.at /\ accepted' = retryCall.at
  /\ listed' = IF retryCall.answer = Successor THEN listed ELSE Upserted(retryCall.answer)
  /\ UNCHANGED <<keysUsed, repeated>> /\ ServerStays /\ ReadersStay

(* It is refused, or fails before or after it was performed; the key stays. *)
RetryFails ==
  /\ retryCall.phase # "none" /\ retryCall' = NoRetry
  /\ UNCHANGED repeated /\ ServerStays /\ ClientStays /\ ReadersStay

-----------------------------------------------------------------------------
(* Lists and changes *)

(* Mutant: the version that was retried lifts the suppression, too. *)
LiftedFrom(version) == IF version >= suppressed THEN 0 ELSE suppressed

(* clearRetrySuppressionIfCanonical                                         *)
Lifted(version) == IF version > suppressed THEN 0 ELSE suppressed

(* What a list or a change has of the Match, unless a later is known.       *)
Take(snapshot) ==
  IF listed.version > snapshot.version THEN UNCHANGED <<listed, suppressed>>
  ELSE listed' = snapshot /\ suppressed' = Lifted(snapshot.version)

CallStep == UNCHANGED <<retryKey, keysUsed, retryCall, accepted, repeated>> /\ ServerStays
HistoryStays == UNCHANGED <<listed, suppressed>>

(* loadHistory, with its one call at a time.                                *)
LoadHistory ==
  /\ \/ /\ listCall.phase = "none" /\ listCall' = [NoCall EXCEPT !.phase = "asked"]
        /\ HistoryStays
     \/ listCall.phase = "read" /\ listCall' = NoCall /\ Take(listCall.answer)
     \/ listCall.phase # "none" /\ listCall' = NoCall /\ HistoryStays
  /\ UNCHANGED <<changeCall, fed>> /\ CallStep

(* GET /matches, the page with the Match.                                   *)
ListMatches ==
  /\ listCall.phase = "asked" /\ listCall' = [phase |-> "read", answer |-> matchRow]
  /\ HistoryStays /\ UNCHANGED <<changeCall, fed>> /\ CallStep

(* The poller reads a change.                                               *)
ChangeTold ==
  /\ changeCall.phase = "none" /\ matchRow.version > fed /\ fed' = matchRow.version
  /\ changeCall' = [phase |-> "told", answer |-> matchRow]
  /\ HistoryStays /\ UNCHANGED listCall /\ CallStep

(* consume: a change of a Match that runs is taken; otherwise the Match is  *)
(* asked for.                                                               *)
Consume ==
  LET change == changeCall.answer
  IN /\ changeCall.phase = "told"
     /\ \/ /\ listed.version > change.version
           /\ changeCall' = NoCall /\ HistoryStays
        \/ /\ listed.version <= change.version
           /\ listed # Unlisted /\ change.status = "running"
           /\ changeCall' = NoCall /\ Take(change)
        \/ /\ listed.version <= change.version
           /\ listed = Unlisted \/ change.status # "running"
           /\ changeCall' = [changeCall EXCEPT !.phase = "asked"]
           /\ HistoryStays
     /\ UNCHANGED <<listCall, fed>> /\ CallStep

ConsumeDetail ==
  /\ \/ changeCall.phase = "read" /\ changeCall' = NoCall /\ Take(changeCall.answer)
     \/ changeCall.phase \in {"asked", "read"} /\ changeCall' = NoCall /\ HistoryStays
  /\ UNCHANGED <<listCall, fed>> /\ CallStep

(* GET /matches/{id}                                                        *)
GetMatch ==
  /\ changeCall.phase = "asked" /\ changeCall' = [phase |-> "read", answer |-> matchRow]
  /\ HistoryStays /\ UNCHANGED <<listCall, fed>> /\ CallStep

HistoryNext ==
  \/ MatchRuns \/ ReplayRetry \/ ResumeMatch \/ SupersedeMatch \/ Dispatch \/ DispatchFails
  \/ Retry \/ RetryArrives \/ RetryFails \/ LoadHistory \/ ListMatches
  \/ ChangeTold \/ Consume \/ ConsumeDetail \/ GetMatch

HistorySpec == HistoryInit /\ [][HistoryNext]_historyVars

-----------------------------------------------------------------------------
(* A failure is offered for a retry once: not again when its retry was      *)
(* accepted, whatever old list or change arrives.  And it is offered: a     *)
(* failed Match that is shown as it is, while nothing is under way, can be  *)
(* retried, or can be once the history has been loaded again; but for the   *)
(* failure that was answered to a repeated key, which is never offered.     *)
OfferedOnce ==
  /\ CanRetry => listed.version > accepted
  /\ /\ matchRow.status = "failed" /\ listed = matchRow
     /\ retryCall = NoRetry /\ listCall = NoCall /\ changeCall = NoCall
     => CanRetry \/ matchRow.version > suppressed \/ matchRow.version = repeated

=============================================================================
