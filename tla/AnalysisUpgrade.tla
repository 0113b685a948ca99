--------------------------- MODULE AnalysisUpgrade ---------------------------
(***************************************************************************)
(* The migration that puts the public state of analysis jobs under          *)
(* constraints, against the sessions of the program that it may meet.  The  *)
(* rows it finds are bound only by the checks of the first schema.  It      *)
(* repairs them in one transaction, behind two gates that do not wait, and  *)
(* leaves constraints and triggers for whoever writes later.                *)
(*                                                                          *)
(* The jobs are those of one target.  An error's code, and what a row tells *)
(* of it (its message and whether a retry is offered), are their classes; a *)
(* result is the profile that profile_id and result_payload both name,      *)
(* "none", or "torn" where they disagree.                                   *)
(***************************************************************************)
EXTENDS Integers

CONSTANTS
  JobIds, Sessions, ProfileIds,
  LegacyStages, LegacyUnits, LegacyCodes, LegacyTimes,   \* what the rows hold at first
  MaxTime                                                \* bound: stamps are 1..MaxTime

Null == -1
Stages == {"none", "fetching_data", "analyzing", "finalizing"}
PublicCodes == {"permanent", "temporary", "internal", "queue"}
Codes == PublicCodes \cup {"none", "other"}
Results == ProfileIds \cup {"none", "torn"}

ASSUME UpgradeAssumption ==
  /\ LegacyStages \subseteq Stages /\ LegacyUnits \subseteq Nat /\ LegacyCodes \subseteq Codes
  /\ LegacyTimes \subseteq Nat /\ MaxTime \in Nat
  /\ {"none", "torn"} \cap ProfileIds = {} /\ "none" \notin JobIds

VARIABLES
  legacy,      \* the committed rows of analysis_jobs
  sound,       \* profiles that stand, under their id, for the target
  mark,        \* analysis_job_change_watermark
  polled,      \* the cursor a poller was given before the upgrade
  revision,    \* alembic_version
  migration,   \* the gates a migration under way has passed
  session      \* open transactions of the program

upgradeVars == <<legacy, sound, mark, polled, revision, migration, session>>

JobRow ==
  [status : {"queued", "running", "succeeded", "failed"}, stage : Stages,
   units : Int, total : Int, error : Codes, told : Codes, result : Results,
   created : Nat, started : Nat \cup {Null}, ended : Nat \cup {Null}, updated : Nat]

(* The rows the first schema admits, of the values given: it bounds no units. *)
AnyUnits == LegacyUnits \cup {-n : n \in LegacyUnits}
LegacyRow ==
  [status : {"queued", "running", "succeeded", "failed"}, stage : LegacyStages,
   units : AnyUnits, total : AnyUnits, error : LegacyCodes, told : LegacyCodes,
   result : Results, created : LegacyTimes, started : LegacyTimes \cup {Null},
   ended : LegacyTimes \cup {Null}, updated : LegacyTimes]

NoRow == [status |-> "queued", stage |-> "none", units |-> 0, total |-> 0, error |-> "none",
          told |-> "none", result |-> "none", created |-> 0, started |-> Null,
          ended |-> Null, updated |-> 0]
Closed == [tables |-> FALSE, advisory |-> FALSE, due |-> FALSE,
           job |-> "none", row |-> NoRow, profile |-> "none"]

UpgradeInit ==
  /\ legacy \in [JobIds -> LegacyRow] /\ sound \in SUBSET ProfileIds
  /\ mark \in LegacyTimes /\ \A j \in JobIds : mark >= legacy[j].updated
  /\ polled = 0 /\ revision = "0003" /\ migration = "none"
  /\ session = [s \in Sessions |-> Closed]

-----------------------------------------------------------------------------
(* The repairs, in their order *)

Later(a, b) == IF a >= b THEN a ELSE b
Coalesce(t, default) == IF t = Null THEN default ELSE t
StartOf(r) == Later(r.created, Coalesce(r.started, r.created))
EndOf(r) == Later(r.created, Coalesce(r.ended, r.created))

InProgress(r) == r.total > 0 /\ r.units >= 0 /\ r.units < r.total
UnitsOf(r) == IF InProgress(r) THEN r.units
              ELSE IF r.units < 0 THEN 0 ELSE IF r.units > 4 THEN 4 ELSE r.units
TotalOf(r) == IF InProgress(r) THEN r.total ELSE 5

(* What a repair sets of a row.                                             *)
At(r, stage, units, total) == [r EXCEPT !.stage = stage, !.units = units, !.total = total]
Telling(r, code, result) == [r EXCEPT !.error = code, !.told = code, !.result = result]
Timed(r, started, ended) == [r EXCEPT !.started = started, !.ended = ended]

(* A success without its profile becomes a failure. *)
RejectInvalid(r) ==
  IF r.status = "succeeded" /\ r.result \notin sound
  THEN [Timed(Telling(At(r, "none", 0, 0), "permanent", "none"), Null, EndOf(r))
          EXCEPT !.status = "failed"]
  ELSE r

RepairQueued(r) ==
  IF r.status = "queued"
  THEN Timed(Telling(At(r, "none", 0, 0), "none", "none"), Null, Null)
  ELSE r

RepairRunning(r) ==
  LET stage == IF r.stage = "none" THEN "fetching_data" ELSE r.stage
  IN IF r.status = "running"
     THEN Timed(Telling(At(r, stage, UnitsOf(r), TotalOf(r)), "none", "none"), StartOf(r), Null)
     ELSE r

RepairSucceeded(r) ==
  LET total == IF r.total > 0 THEN r.total ELSE 5
  IN IF r.status = "succeeded"
     THEN Timed(Telling(At(r, "finalizing", total, total), "none", r.result),
                StartOf(r), Later(StartOf(r), Coalesce(r.ended, r.created)))
     ELSE r

RepairFailed(r) ==
  LET code == IF r.error \in PublicCodes THEN r.error ELSE "internal"
  IN IF r.status # "failed" THEN r
     ELSE IF r.stage = "none"
     THEN Timed(Telling(At(r, "none", 0, 0), code, "none"), Null, EndOf(r))
     ELSE Timed(Telling(At(r, r.stage, UnitsOf(r), TotalOf(r)), code, "none"),
                StartOf(r), Later(StartOf(r), EndOf(r)))

Repaired(r) ==
  RepairFailed(RepairSucceeded(RepairRunning(RepairQueued(RejectInvalid(r)))))

-----------------------------------------------------------------------------
(* The constraints *)

StatusShape(r) ==
  /\ r.updated >= r.created
  /\ r.status = "queued" => /\ r.stage = "none" /\ r.units = 0 /\ r.total = 0
                            /\ r.started = Null /\ r.ended = Null
  /\ r.status = "running" => /\ r.stage # "none" /\ r.total > 0 /\ r.units < r.total
                             /\ r.started # Null /\ r.started >= r.created /\ r.ended = Null
  /\ r.status = "succeeded" =>
       /\ r.stage = "finalizing" /\ r.total > 0 /\ r.units = r.total
       /\ r.started # Null /\ r.started >= r.created /\ r.ended # Null /\ r.ended >= r.started
  /\ r.status = "failed" =>
       /\ r.ended # Null /\ r.ended >= r.created
       /\ \/ r.stage = "none" /\ r.units = 0 /\ r.total = 0 /\ r.started = Null
          \/ /\ r.stage # "none" /\ r.total > 0 /\ r.units < r.total
             /\ r.started # Null /\ r.started >= r.created /\ r.ended >= r.started
  /\ r.status # "failed" => r.error = "none" /\ r.told = "none"
  /\ r.status # "succeeded" => r.result = "none"

ErrorMapping(r) == r.status = "failed" => r.error \in PublicCodes /\ r.told = r.error

RowIsValid(r) ==
  /\ r.units >= 0 /\ r.total >= 0 /\ r.units <= r.total
  /\ StatusShape(r) /\ ErrorMapping(r)

(* analysis_job_succeeded_profile_is_valid *)
ProfileIsValid(r, profiles) == r.status = "succeeded" => r.result \in profiles

Accepted(r, profiles) == RowIsValid(r) /\ ProfileIsValid(r, profiles)

-----------------------------------------------------------------------------
(* The migration *)

(* A change is stamped after the watermark and every change; the repair     *)
(* after every creation as well.                                            *)
NextStamps == {t \in 1..MaxTime : t > mark /\ \A j \in JobIds : t > legacy[j].updated}
RepairStamps == {t \in NextStamps : \A j \in JobIds : t > legacy[j].created}

(* Mutant: whoever has written is not waited for. *)
LockAnyway ==
  /\ migration = "none" /\ migration' = "tables"
  /\ UNCHANGED <<legacy, sound, mark, polled, revision, session>>

LockTables ==
  /\ migration = "none" /\ \A s \in Sessions : ~session[s].tables
  /\ migration' = "tables"
  /\ UNCHANGED <<legacy, sound, mark, polled, revision, session>>

TryAdvisory ==
  /\ migration = "tables"
  /\ migration' = IF \E s \in Sessions : session[s].advisory THEN "none" ELSE "locked"
  /\ UNCHANGED <<legacy, sound, mark, polled, revision, session>>

Upgrade ==
  /\ migration = "locked" /\ revision = "0003"
  /\ \E t \in RepairStamps :
       LET rows == [j \in JobIds |-> [Repaired(legacy[j]) EXCEPT !.updated = t]]
       IN \/ /\ \A j \in JobIds : Accepted(rows[j], sound)
             /\ legacy' = rows /\ mark' = t /\ revision' = "0004" /\ migration' = "none"
          \/ /\ \E j \in JobIds : ~Accepted(rows[j], sound)
             /\ migration' = "refused" /\ UNCHANGED <<legacy, mark, revision>>
  /\ UNCHANGED <<sound, polled, session>>

Downgrade ==
  /\ migration = "locked" /\ revision = "0004"
  /\ revision' = "0003" /\ migration' = "none"
  /\ UNCHANGED <<legacy, sound, mark, polled, session>>

(* The process is lost, or the command is stopped. *)
Abort ==
  /\ migration \in {"tables", "locked"} /\ migration' = "none"
  /\ UNCHANGED <<legacy, sound, mark, polled, revision, session>>

-----------------------------------------------------------------------------
(* Sessions of the program, released and present: in either order they lock *)
(* rows and take the job-change lock, which a release takes for jobs only.  *)

Store == <<legacy, sound, mark>>
Keeps == UNCHANGED <<legacy, sound, mark, polled, revision, migration>>

TakeTables(s) ==
  /\ migration \notin {"tables", "locked"} /\ ~session[s].tables
  /\ session' = [session EXCEPT ![s].tables = TRUE] /\ Keeps

TakeAdvisory(s) ==
  /\ migration # "locked" /\ \A other \in Sessions : ~session[other].advisory
  /\ session' = [session EXCEPT ![s].advisory = TRUE] /\ Keeps

(* A worker claims a job, fails it or finishes it; the clock it reads and   *)
(* the stamp of its change are one.                                         *)
ClaimedJob(r, t) == [Timed(At(r, "fetching_data", 0, 5), t, r.ended)
                       EXCEPT !.status = "running", !.updated = t]
FailedJob(r, t) == [Timed(Telling(r, "internal", "none"), r.started, t)
                      EXCEPT !.status = "failed", !.updated = t]
FinishedJob(r, p, t) ==
  [Timed(Telling(At(r, "finalizing", r.total, r.total), "none", p), r.started, t)
     EXCEPT !.status = "succeeded", !.updated = t]
Changes(r, t) ==
  (IF r.status = "queued" THEN {ClaimedJob(r, t)} ELSE {})
  \cup (IF r.status \in {"queued", "running"} THEN {FailedJob(r, t)} ELSE {})
  \cup (IF r.status = "running" THEN {FinishedJob(r, p, t) : p \in ProfileIds} ELSE {})

WriteJob(s, j) ==
  /\ session[s].tables /\ session[s].advisory /\ session[s].job = "none"
  /\ \E t \in NextStamps : \E r \in Changes(legacy[j], t) :
       session' = [session EXCEPT ![s].job = j, ![s].row = r, ![s].due = revision = "0004"]
  /\ Keeps

(* A profile begins to stand for the target, or no longer does. *)
WriteProfile(s, p) ==
  /\ session[s].tables /\ session[s].profile = "none"
  /\ revision = "0004" => session[s].advisory
  /\ session' = [session EXCEPT ![s].profile = p, ![s].due = revision = "0004"]
  /\ Keeps

RowsAfter(s) == IF session[s].job = "none" THEN legacy
                ELSE [legacy EXCEPT ![session[s].job] = session[s].row]
SoundAfter(s) == IF session[s].profile = "none" THEN sound
                 ELSE IF session[s].profile \in sound THEN sound \ {session[s].profile}
                 ELSE sound \cup {session[s].profile}

(* The checks of the row, and the deferred triggers of jobs and profiles,   *)
(* which are due for what is written once they exist.                       *)
Checks(s) ==
  /\ session[s].due
  /\ session[s].job # "none" => Accepted(session[s].row, SoundAfter(s))
  /\ session[s].profile # "none" /\ session[s].profile \notin SoundAfter(s) =>
       \A j \in JobIds : RowsAfter(s)[j].status = "succeeded" =>
                           RowsAfter(s)[j].result # session[s].profile
  /\ session' = [session EXCEPT ![s].due = FALSE] /\ Keeps

Commits(s) ==
  /\ session[s].job # "none" \/ session[s].profile # "none"
  /\ ~session[s].due
  /\ legacy' = RowsAfter(s) /\ sound' = SoundAfter(s)
  /\ mark' = IF session[s].job = "none" THEN mark ELSE session[s].row.updated
  /\ session' = [session EXCEPT ![s] = Closed]
  /\ UNCHANGED <<polled, revision, migration>>

(* A poller reads a page, whose last row is its cursor. *)
Polls(s, j) ==
  /\ session[s].tables /\ session[s].advisory /\ revision = "0003"
  /\ polled' = legacy[j].updated
  /\ session' = [session EXCEPT ![s] = Closed]
  /\ UNCHANGED <<legacy, sound, mark, revision, migration>>

RollsBack(s) == session' = [session EXCEPT ![s] = Closed] /\ Keeps

UpgradeNext ==
  \/ LockTables \/ TryAdvisory \/ Upgrade \/ Downgrade \/ Abort
  \/ \E s \in Sessions :
       \/ TakeTables(s) \/ TakeAdvisory(s) \/ Checks(s) \/ Commits(s) \/ RollsBack(s)
       \/ \E j \in JobIds : WriteJob(s, j) \/ Polls(s, j)
       \/ \E p \in ProfileIds : WriteProfile(s, p)

UpgradeSpec == UpgradeInit /\ [][UpgradeNext]_upgradeVars

-----------------------------------------------------------------------------
(* The migration takes whatever rows it finds: none of its own constraints  *)
(* refuses what it has repaired, and from then on every row obeys them,     *)
(* with the profile it names, and is shown again to a poller that had seen  *)
(* it before, whatever was in flight when it began.                         *)
UpgradeTakesAll ==
  /\ migration # "refused"
  /\ revision = "0004" =>
       \A j \in JobIds : Accepted(legacy[j], sound) /\ legacy[j].updated > polled
=============================================================================
