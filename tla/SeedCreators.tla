---------------------------- MODULE SeedCreators ----------------------------
(***************************************************************************)
(* The command that seeds creators from a CSV file: for every row it makes  *)
(* sure that the channel has a profile and an Analysis Job, sends the job   *)
(* to the workers, and records the outcome in a report on disk, so that a   *)
(* later run takes up the rows which failed or were not reached.  Several   *)
(* operators may run it at once, each with a report of his own, while the   *)
(* API and the workers go on with the same channels.                        *)
(*                                                                          *)
(* A row is abstracted to the channel its URL means, if it is valid; a      *)
(* profile to whether it is the seed's carrier or has been analyzed.        *)
(***************************************************************************)
EXTENDS Integers, FiniteSets, Sequences

CONSTANTS
  Seeders,    \* operators, with a report each
  NRows,      \* rows of the CSV
  Channels,   \* the channels its rows mean
  MaxRuns,    \* bound: how often an operator starts the command
  MaxJobs,    \* bound: the Analysis Jobs of a channel
  MaxTroubles \* bound: faults and crashes

VARIABLES
  sheet,     \* the CSV: the channel of each row, Invalid where there is none
  profileOf, \* each channel's profile: "none", "seeded" or "analyzed"
  jobsOf,    \* the statuses of each channel's jobs, oldest first
  sent,      \* the jobs sent to the workers
  report,    \* the reports on disk
  run,       \* each operator's run of the command
  runs,      \* how often he has started it
  troubles   \* faults and crashes so far

seedVars == <<sheet, profileOf, jobsOf, sent, report, run, runs, troubles>>

Rows == 1..NRows
Invalid == "invalid"

ASSUME SeedAssumption ==
  /\ NRows \in Nat /\ MaxJobs \in Nat /\ MaxRuns \in Nat /\ MaxTroubles \in Nat
  /\ Invalid \notin Channels

RowStatus == {"incomplete", "queued", "duplicate", "failed"}
Resolved == {"queued", "duplicate"}

(* What a row's entry tells: its status, the channel once it is known, and  *)
(* the number of the channel's job, 0 if it names none.                     *)
Entry == [status : RowStatus, channel : Channels \cup {Invalid}, job : 0..MaxJobs]
Fresh == [r \in Rows |-> [status |-> "incomplete", channel |-> Invalid, job |-> 0]]
NoReport == [r \in Rows |-> [status |-> "absent", channel |-> Invalid, job |-> 0]]

(* A run: the row it is at, its copy of the report, and the channels it has *)
(* seen with the job it knows of (Unseen otherwise).                        *)
Unseen == -1
RunPhase == {"off", "row", "prepare", "dispatch", "compensate", "write"}
SeedRun == [phase : RunPhase, row : 1..(NRows + 1), rows : [Rows -> Entry],
            seen : [Channels -> Unseen..MaxJobs]]
Off == [phase |-> "off", row |-> 1, rows |-> Fresh, seen |-> [c \in Channels |-> Unseen]]

JobStatus == {"queued", "running", "succeeded", "failed"}

SeedTypeOK ==
  /\ sheet \in [Rows -> Channels \cup {Invalid}]
  /\ profileOf \in [Channels -> {"none", "seeded", "analyzed"}]
  /\ \A c \in Channels : /\ DOMAIN jobsOf[c] \in {1..n : n \in 0..MaxJobs}
                         /\ \A n \in DOMAIN jobsOf[c] :
                              jobsOf[c][n] \in JobStatus
  /\ sent \subseteq Channels \X (1..MaxJobs)
  /\ report \in [Seeders -> [Rows -> Entry] \cup {NoReport}]
  /\ run \in [Seeders -> SeedRun]
  /\ runs \in [Seeders -> 0..MaxRuns] /\ troubles \in 0..MaxTroubles

SeedInit ==
  /\ sheet \in [Rows -> Channels \cup {Invalid}]
  /\ profileOf \in [Channels -> {"none", "analyzed"}]
  /\ jobsOf = [c \in Channels |-> <<>>] /\ sent = {}
  /\ report = [s \in Seeders |-> NoReport]
  /\ run = [s \in Seeders |-> Off]
  /\ runs = [s \in Seeders |-> 0] /\ troubles = 0

Trouble == troubles < MaxTroubles /\ troubles' = troubles + 1

-----------------------------------------------------------------------------
(* The database *)

Newest(c) == Len(jobsOf[c])
ActiveJob(c) == LET live == {n \in DOMAIN jobsOf[c] : jobsOf[c][n] \in {"queued", "running"}}
                IN IF live = {} THEN 0 ELSE CHOOSE n \in live : TRUE
AddJob(c) == jobsOf' = [jobsOf EXCEPT ![c] = Append(@, "queued")]
JobBecomes(c, n, status) == jobsOf' = [jobsOf EXCEPT ![c][n] = status]

(* A user asks the API to analyze a channel, which also sends the job.      *)
RequestAnalysis(c) ==
  /\ ActiveJob(c) = 0 /\ Newest(c) < MaxJobs
  /\ AddJob(c) /\ sent' = sent \cup {<<c, Newest(c) + 1>>}
  /\ UNCHANGED <<sheet, profileOf, report, run, runs, troubles>>

(* A worker takes up a job that was sent, and finishes it or fails.         *)
WorkOn(c, n) ==
  /\ <<c, n>> \in sent
  /\ \/ jobsOf[c][n] = "queued" /\ JobBecomes(c, n, "running") /\ UNCHANGED profileOf
     \/ /\ jobsOf[c][n] = "running" /\ JobBecomes(c, n, "succeeded")
        /\ profileOf' = [profileOf EXCEPT ![c] = "analyzed"]
     \/ jobsOf[c][n] = "running" /\ JobBecomes(c, n, "failed") /\ UNCHANGED profileOf
  /\ UNCHANGED <<sheet, sent, report, run, runs, troubles>>

-----------------------------------------------------------------------------
(* The command *)

Continue(s, changed) == run' = [run EXCEPT ![s] = changed]
Here(s) == sheet[run[s].row]

Elsewhere == UNCHANGED <<sheet, profileOf, jobsOf, sent>>

(* Mutant: what any row of the report tells of has been seen from the start. *)
LaunchKnowing(s) ==
  /\ run[s].phase = "off" /\ runs[s] < MaxRuns
  /\ runs' = [runs EXCEPT ![s] = @ + 1]
  /\ report' = IF report[s] = NoReport THEN [report EXCEPT ![s] = Fresh] ELSE report
  /\ Continue(s, [Off EXCEPT !.phase = "row", !.rows = report'[s],
       !.seen = [c \in Channels |-> IF \E r \in Rows : report'[s][r].channel = c
                                     THEN 0 ELSE Unseen]])
  /\ Elsewhere /\ UNCHANGED troubles

(* A report is made if there is none, else loaded. *)
Launch(s) ==
  /\ run[s].phase = "off" /\ runs[s] < MaxRuns
  /\ runs' = [runs EXCEPT ![s] = @ + 1]
  /\ report' = IF report[s] = NoReport THEN [report EXCEPT ![s] = Fresh] ELSE report
  /\ Continue(s, [Off EXCEPT !.phase = "row", !.rows = report'[s]])
  /\ Elsewhere /\ UNCHANGED troubles

Entered(s, status, channel, job) ==
  [run[s] EXCEPT !.phase = "write",
                 !.rows[run[s].row] = [status |-> status, channel |-> channel, job |-> job]]

(* A resolved row is kept; its channel has been seen. *)
PassOn(s) ==
  LET entry == run[s].rows[run[s].row]
      c == entry.channel
  IN /\ run[s].phase = "row" /\ run[s].row <= NRows /\ entry.status \in Resolved
     /\ Continue(s, [run[s] EXCEPT !.row = @ + 1,
                       !.seen = [d \in Channels |-> IF d = c /\ @[d] = Unseen
                                                      THEN entry.job ELSE @[d]]])
     /\ Elsewhere /\ UNCHANGED <<report, runs, troubles>>

(* Any other row: what it says is validated, its channel resolved, and a    *)
(* channel that has been seen makes it a duplicate.                         *)
TakeUp(s) ==
  LET c == Here(s)
  IN /\ run[s].phase = "row" /\ run[s].row <= NRows
     /\ run[s].rows[run[s].row].status \notin Resolved
     /\ \/ c = Invalid /\ Continue(s, Entered(s, "failed", Invalid, 0)) /\ UNCHANGED troubles
        \/ c # Invalid /\ Trouble /\ Continue(s, Entered(s, "failed", Invalid, 0))
        \/ /\ c # Invalid /\ UNCHANGED troubles
           /\ Continue(s, IF run[s].seen[c] # Unseen
                            THEN Entered(s, "duplicate", c, run[s].seen[c])
                            ELSE [run[s] EXCEPT !.phase = "prepare", !.seen[c] = 0])
     /\ Elsewhere /\ UNCHANGED <<report, runs>>

(* store.prepare, one transaction under the change lock: a channel that has *)
(* been analyzed or has an active job is left alone.  So would be one whose *)
(* profile is neither analyzed nor a seed, which nothing here makes.        *)
Prepare(s) ==
  LET c == Here(s)
      known == [Entered(s, "duplicate", c, ActiveJob(c)) EXCEPT !.seen[c] = ActiveJob(c)]
  IN /\ run[s].phase = "prepare" /\ UNCHANGED troubles
     /\ IF profileOf[c] = "analyzed" \/ ActiveJob(c) # 0
          THEN Continue(s, known) /\ UNCHANGED <<profileOf, jobsOf>>
          ELSE /\ Newest(c) < MaxJobs /\ AddJob(c)
               /\ profileOf' = [profileOf EXCEPT ![c] = "seeded"]
               /\ Continue(s, [run[s] EXCEPT !.phase = "dispatch", !.seen[c] = Newest(c) + 1])
     /\ UNCHANGED <<sheet, sent, report, runs>>

PrepareFails(s) ==
  /\ run[s].phase = "prepare" /\ Trouble
  /\ Continue(s, Entered(s, "failed", Here(s), 0))
  /\ Elsewhere /\ UNCHANGED <<report, runs>>

(* A send that raises may have reached the broker all the same. *)
SendJob(s) ==
  LET c == Here(s)
      n == run[s].seen[c]
      mail == sent \cup {<<c, n>>}
  IN /\ run[s].phase = "dispatch"
     /\ \/ sent' = mail /\ Continue(s, Entered(s, "queued", c, n)) /\ UNCHANGED troubles
        \/ /\ Trouble /\ sent' \in {sent, mail}
           /\ Continue(s, [run[s] EXCEPT !.phase = "compensate"])
     /\ UNCHANGED <<sheet, profileOf, jobsOf, report, runs>>

(* mark_queue_failure: a job that is still queued fails, unless that fails, *)
(* too.                                                                     *)
MarkQueueFailure(s) ==
  LET c == Here(s)
      n == run[s].seen[c]
  IN /\ run[s].phase = "compensate" /\ Continue(s, Entered(s, "failed", c, n))
     /\ \/ /\ IF jobsOf[c][n] = "queued" THEN JobBecomes(c, n, "failed") ELSE UNCHANGED jobsOf
           /\ UNCHANGED troubles
        \/ Trouble /\ UNCHANGED jobsOf
     /\ UNCHANGED <<sheet, profileOf, sent, report, runs>>

(* The report replaces the one on disk after every row. *)
WriteReport(s) ==
  /\ run[s].phase = "write" /\ report' = [report EXCEPT ![s] = run[s].rows]
  /\ Continue(s, [run[s] EXCEPT !.phase = "row", !.row = @ + 1])
  /\ Elsewhere /\ UNCHANGED <<runs, troubles>>

EndRun(s) ==
  /\ run[s].phase = "row" /\ run[s].row > NRows /\ Continue(s, Off)
  /\ Elsewhere /\ UNCHANGED <<report, runs, troubles>>

(* The command is interrupted, or its report cannot be written. *)
Interrupt(s) ==
  /\ run[s].phase # "off" /\ Trouble /\ Continue(s, Off)
  /\ Elsewhere /\ UNCHANGED <<report, runs>>

SeedNext ==
  \/ \E s \in Seeders :
       \/ Launch(s) \/ PassOn(s) \/ TakeUp(s) \/ Prepare(s) \/ PrepareFails(s)
       \/ SendJob(s) \/ MarkQueueFailure(s) \/ WriteReport(s) \/ EndRun(s) \/ Interrupt(s)
  \/ \E c \in Channels : RequestAnalysis(c) \/ \E n \in 1..MaxJobs : WorkOn(c, n)

SeedSpec == SeedInit /\ [][SeedNext]_seedVars

-----------------------------------------------------------------------------
(* When a report has no row left to take up, every channel of the CSV has   *)
(* been taken in: it has a profile, or a job that makes one.  Runs may have *)
(* been interrupted anywhere, and rows may have failed and been retried in  *)
(* any order.                                                               *)
AllTakenIn ==
  \A s \in Seeders :
    (\A r \in Rows : report[s][r].status \in Resolved) =>
      \A r \in Rows : profileOf[sheet[r]] # "none" \/ jobsOf[sheet[r]] # <<>>

=============================================================================
