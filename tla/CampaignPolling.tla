-------------------------- MODULE CampaignPolling ---------------------------
(***************************************************************************)
(* How the macOS client keeps the campaigns it shows up to date: a timer    *)
(* runs while anything it shows is being sent, and each time it fires it    *)
(* loads the list of campaigns and the open one.  The user's own loads, the *)
(* refresh after a send and the timer share the list (one load at a time),  *)
(* the open campaign (the latest call wins) and the decision to go on.      *)
(*                                                                          *)
(* A campaign is abstracted to whether it is being sent.  The API may       *)
(* answer anything, since sends come from other clients, too.  A cancelled  *)
(* call fails, or is answered all the same.                                 *)
(***************************************************************************)
EXTENDS Integers, FiniteSets

CONSTANTS
  Campaigns,  \* ids of campaigns
  Tasks       \* bound: the client's concurrent tasks

VARIABLES
  campaigns,        \* the list: "absent", "sending" or "settled"
  selectedID,       \* selectedCampaignID
  selectedCampaign, \* what is shown of it, "none" if nothing
  tracked,          \* trackedCampaignIDs
  refreshRequired,  \* campaignRefreshRequired
  tasks,            \* the user's tasks and the timers
  pollingTask,      \* campaignPollingTask
  latestOpen        \* the task of the latest campaignGeneration

campaignVars == <<campaigns, selectedID, selectedCampaign, tracked, refreshRequired,
                  tasks, pollingTask, latestOpen>>

NoCampaign == "no campaign"
NoTask == "no task"

ASSUME CampaignAssumption == NoCampaign \notin Campaigns /\ NoTask \notin Tasks

NoList == [c \in Campaigns |-> "absent"]

(* A task: asleep, loading the list (and then the open campaign, if `opens`)*)
(* or loading the open campaign.                                            *)
Task == [at : {"idle", "asleep", "list", "open"}, opens : BOOLEAN, cancelled : BOOLEAN]
Idle == [at |-> "idle", opens |-> FALSE, cancelled |-> FALSE]

CampaignTypeOK ==
  /\ campaigns \in [Campaigns -> {"absent", "sending", "settled"}]
  /\ selectedID \in Campaigns \cup {NoCampaign}
  /\ selectedCampaign \in {"none", "sending", "settled"}
  /\ tracked \subseteq Campaigns /\ refreshRequired \in BOOLEAN
  /\ tasks \in [Tasks -> Task] /\ pollingTask \in Tasks \cup {NoTask}
  /\ latestOpen \in Tasks \cup {NoTask}
  /\ Cardinality({t \in Tasks : tasks[t].at = "list"}) <= 1

CampaignInit ==
  /\ campaigns = NoList /\ selectedID = NoCampaign /\ selectedCampaign = "none"
  /\ tracked = {} /\ refreshRequired = FALSE
  /\ tasks = [t \in Tasks |-> Idle] /\ pollingTask = NoTask /\ latestOpen = NoTask

IsLoadingCampaigns == \E t \in Tasks : tasks[t].at = "list"

-----------------------------------------------------------------------------
(* updateCampaignPolling, after the changes of a step: `now` are the tasks, *)
(* `timer` the polling task and `watched` the tracked campaigns so far.     *)

Reconciled(watched) ==
  {c \in watched : campaigns'[c] # "settled"
                   /\ (selectedID' = c => selectedCampaign' # "settled")}

Requires(watched, list, shown) ==
  watched # {} \/ shown = "sending" \/ \E c \in Campaigns : list[c] = "sending"

UpdateCampaignPolling(now, timer, watched) ==
  LET left == Reconciled(watched)
  IN /\ tracked' = left
     /\ \/ /\ Requires(left, campaigns', selectedCampaign') /\ timer # NoTask
           /\ tasks' = now /\ pollingTask' = timer
        \/ /\ Requires(left, campaigns', selectedCampaign') /\ timer = NoTask
           /\ \E t \in {u \in Tasks : now[u] = Idle} :
                tasks' = [now EXCEPT ![t] = [Idle EXCEPT !.at = "asleep"]] /\ pollingTask' = t
        \/ /\ ~Requires(left, campaigns', selectedCampaign') /\ pollingTask' = NoTask
           /\ tasks' = IF timer = NoTask THEN now ELSE [now EXCEPT ![timer].cancelled = TRUE]

(* A task ends.  A timer that has not been stopped makes room for the next. *)
Ended(t) == [tasks EXCEPT ![t] = Idle]
(* Mutant: a timer's cycle ends as any load does, without making room. *)
KeepTimer(t) == pollingTask
TimerAfter(t) == IF pollingTask = t THEN NoTask ELSE pollingTask

Finish(t) == UpdateCampaignPolling(Ended(t), TimerAfter(t), tracked)

-----------------------------------------------------------------------------
(* openCampaign, up to its call: what was shown of another campaign goes.   *)
Opening(t, id) ==
  /\ selectedID' = id
  /\ selectedCampaign' = IF selectedID = id THEN selectedCampaign ELSE "none"
  /\ latestOpen' = t

OpenCampaign(t, id) ==
  /\ tasks[t] = Idle /\ Opening(t, id)
  /\ tasks' = [tasks EXCEPT ![t].at = "open"]
  /\ UNCHANGED <<campaigns, tracked, refreshRequired, pollingTask>>

(* It is answered, or fails; only the latest call counts.                   *)
CampaignArrives(t) ==
  /\ tasks[t].at = "open"
  /\ \/ latestOpen = t /\ selectedCampaign' \in {"sending", "settled"}
     \/ UNCHANGED selectedCampaign
  /\ latestOpen' = IF latestOpen = t THEN NoTask ELSE latestOpen
  /\ UNCHANGED <<campaigns, selectedID, refreshRequired>>
  /\ Finish(t)

(* loadCampaigns and refreshCampaignsAndSelectedDetail by the user.         *)
LoadCampaigns(t, opens) ==
  /\ tasks[t] = Idle /\ ~IsLoadingCampaigns
  /\ tasks' = [tasks EXCEPT ![t] = [Idle EXCEPT !.at = "list", !.opens = opens]]
  /\ refreshRequired' = FALSE
  /\ UNCHANGED <<campaigns, selectedID, selectedCampaign, tracked, pollingTask, latestOpen>>

(* refreshCampaignsAfterAcceptedSend: the campaign of a batch that is being *)
(* sent is tracked, one of a batch that has been is not.  A load under way  *)
(* is repeated.                                                             *)
RefreshAfterSend(t, batch) ==
  /\ tasks[t] = Idle
  /\ UNCHANGED <<campaigns, selectedID, selectedCampaign, latestOpen>>
  /\ \/ /\ IsLoadingCampaigns /\ refreshRequired' = TRUE
        /\ UpdateCampaignPolling(tasks, pollingTask, tracked \cup batch)
     \/ /\ ~IsLoadingCampaigns /\ refreshRequired' = FALSE
        /\ tasks' = [tasks EXCEPT ![t] = [Idle EXCEPT !.at = "list"]]
        /\ tracked' = tracked \cup batch /\ UNCHANGED pollingTask

(* The list arrives, or its load fails and leaves it; a refresh that was    *)
(* asked for meanwhile begins the load again.                               *)
ListAnswers ==
  campaigns' = campaigns \/ campaigns' \in [Campaigns -> {"absent", "sending", "settled"}]

ListArrives(t) ==
  /\ tasks[t].at = "list" /\ ListAnswers /\ refreshRequired' = FALSE
  /\ \/ /\ refreshRequired
        /\ UNCHANGED <<selectedID, selectedCampaign, tracked, tasks, pollingTask, latestOpen>>
     \/ /\ ~refreshRequired /\ tasks[t].opens /\ selectedID # NoCampaign
        /\ Opening(t, selectedID)
        /\ UpdateCampaignPolling([tasks EXCEPT ![t].at = "open"], pollingTask, tracked)
     \/ /\ ~refreshRequired /\ ~(tasks[t].opens /\ selectedID # NoCampaign)
        /\ UNCHANGED <<selectedID, selectedCampaign, latestOpen>> /\ Finish(t)

(* The sleep ends.  A stopped timer is cancelled, and does nothing more.    *)
TimerStopped(t) ==
  /\ tasks[t].at = "asleep" /\ tasks[t].cancelled
  /\ tasks' = Ended(t)
  /\ UNCHANGED <<campaigns, selectedID, selectedCampaign, tracked, refreshRequired,
                 pollingTask, latestOpen>>

(* campaignPollingTimerFired: the list is loaded if there is one, unless    *)
(* it is being loaded, and then the open campaign.                          *)
TimerFires(t) ==
  LET wanted == Requires(tracked, campaigns, selectedCampaign)
      lists == ~IsLoadingCampaigns /\ (campaigns # NoList \/ tracked # {})
      opens == selectedID # NoCampaign
  IN /\ tasks[t].at = "asleep" /\ pollingTask = t
     /\ UNCHANGED campaigns
     /\ \/ /\ wanted /\ lists /\ refreshRequired' = FALSE
           /\ tasks' = [tasks EXCEPT ![t] = [Idle EXCEPT !.at = "list", !.opens = TRUE]]
           /\ UNCHANGED <<selectedID, selectedCampaign, tracked, pollingTask, latestOpen>>
        \/ /\ wanted /\ ~lists /\ opens /\ Opening(t, selectedID)
           /\ tasks' = [tasks EXCEPT ![t].at = "open"]
           /\ UNCHANGED <<tracked, refreshRequired, pollingTask>>
        \/ /\ ~wanted \/ (~lists /\ ~opens)
           /\ UNCHANGED <<selectedID, selectedCampaign, refreshRequired, latestOpen>>
           /\ Finish(t)

CampaignNext ==
  \E t \in Tasks :
    \/ \E c \in Campaigns : OpenCampaign(t, c)
    \/ \E batch \in {{}} \cup {{c} : c \in Campaigns} : RefreshAfterSend(t, batch)
    \/ \E opens \in BOOLEAN : LoadCampaigns(t, opens)
    \/ CampaignArrives(t) \/ ListArrives(t) \/ TimerStopped(t) \/ TimerFires(t)

CampaignSpec == CampaignInit /\ [][CampaignNext]_campaignVars

-----------------------------------------------------------------------------
(* While anything the client shows or tracks is being sent, a timer is      *)
(* asleep that will fire, or a load is under way whose end decides again.   *)
(* What the polling task names is never a task that has ended.              *)
KeepsPollingCampaigns ==
  /\ pollingTask # NoTask =>
       tasks[pollingTask].at # "idle" /\ ~tasks[pollingTask].cancelled
  /\ Requires(tracked, campaigns, selectedCampaign) =>
       pollingTask # NoTask \/ \E t \in Tasks : tasks[t].at \in {"list", "open"}

=============================================================================
