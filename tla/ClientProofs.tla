---------------------------- MODULE ClientProofs ----------------------------
(***************************************************************************)
(* What TLAPS proves of the macOS client: its campaign timer, its library,  *)
(* its Match history and its template editor, whatever the order in which   *)
(* its calls are answered and for every set of campaigns, profiles,         *)
(* templates and bounds.                                                    *)
(***************************************************************************)
EXTENDS CampaignPolling, LibraryModel, MatchHistory, OutreachTemplates, TLAPS

-----------------------------------------------------------------------------
(* Campaigns.  Every step that may leave a campaign without a timer decides *)
(* about the timer again, or leaves a load that will.                       *)

CampaignTypes ==
  /\ tasks \in [Tasks -> Task] /\ pollingTask \in Tasks \cup {NoTask}
  /\ tracked \subseteq Campaigns

CampaignInv == CampaignTypes /\ KeepsPollingCampaigns

(* A task that the client may call its timer. *)
MayPoll(now, timer) == timer # NoTask => now[timer].at # "idle" /\ ~now[timer].cancelled

LEMMA IdleIsATask == Idle \in Task /\ Idle.at = "idle"
BY DEF Idle, Task

(* A step that decides about the timer leaves one, if one is required.      *)
LEMMA UpdateKeeps ==
  ASSUME NEW now \in [Tasks -> Task], NEW timer \in Tasks \cup {NoTask}, MayPoll(now, timer),
         NEW watched \in SUBSET Campaigns, UpdateCampaignPolling(now, timer, watched)
  PROVE  CampaignInv'
<1> DEFINE left == Reconciled(watched)
<1>1. tracked' = left /\ left \subseteq Campaigns
  BY DEF UpdateCampaignPolling, Reconciled
<1>2. CASE Requires(left, campaigns', selectedCampaign') /\ timer # NoTask
           /\ tasks' = now /\ pollingTask' = timer
  BY <1>1, <1>2 DEF CampaignInv, CampaignTypes, KeepsPollingCampaigns, MayPoll
<1>3. CASE /\ timer = NoTask
           /\ \E t \in {u \in Tasks : now[u] = Idle} :
                tasks' = [now EXCEPT ![t] = [Idle EXCEPT !.at = "asleep"]] /\ pollingTask' = t
  <2>1. PICK t \in Tasks : tasks' = [now EXCEPT ![t] = [Idle EXCEPT !.at = "asleep"]]
                           /\ pollingTask' = t
    BY <1>3
  <2> DEFINE sleeper == [Idle EXCEPT !.at = "asleep"]
  <2>2. sleeper \in Task /\ sleeper.at # "idle" /\ ~sleeper.cancelled
    BY DEF Idle, Task
  <2> HIDE DEF sleeper
  <2>3. tasks' \in [Tasks -> Task] /\ tasks'[pollingTask'] = sleeper
    BY <2>1, <2>2 DEF sleeper
  <2> QED
    BY <1>1, <2>1, <2>2, <2>3, CampaignAssumption
       DEF CampaignInv, CampaignTypes, KeepsPollingCampaigns
<1>4. CASE /\ ~Requires(left, campaigns', selectedCampaign') /\ pollingTask' = NoTask
           /\ tasks' = IF timer = NoTask THEN now ELSE [now EXCEPT ![timer].cancelled = TRUE]
  <2>1. tasks' \in [Tasks -> Task]
    BY <1>4 DEF Task
  <2>2. ~Requires(tracked, campaigns, selectedCampaign)'
    BY <1>1, <1>4 DEF Requires
  <2> QED
    BY <1>1, <1>4, <2>1, <2>2 DEF CampaignInv, CampaignTypes, KeepsPollingCampaigns
<1> QED
  BY <1>2, <1>3, <1>4 DEF UpdateCampaignPolling

LEMMA FinishKeeps ==
  ASSUME CampaignInv, NEW t \in Tasks, Finish(t)
  PROVE  CampaignInv'
<1>1. Ended(t) \in [Tasks -> Task] /\ \A u \in Tasks \ {t} : Ended(t)[u] = tasks[u]
  BY IdleIsATask DEF CampaignInv, CampaignTypes, Ended
<1>2. TimerAfter(t) \in Tasks \cup {NoTask} /\ TimerAfter(t) # t
  BY CampaignAssumption DEF CampaignInv, CampaignTypes, TimerAfter
<1>3. MayPoll(Ended(t), TimerAfter(t))
  BY <1>1, <1>2 DEF CampaignInv, CampaignTypes, KeepsPollingCampaigns, MayPoll, TimerAfter
<1>4. PICK now, timer, watched : now = Ended(t) /\ timer = TimerAfter(t) /\ watched = tracked
  OBVIOUS
<1> QED
  BY <1>1, <1>2, <1>3, <1>4, UpdateKeeps DEF Finish, CampaignInv, CampaignTypes

(* A task that begins to load is none that polls, and keeps the client      *)
(* polling until its load ends.                                             *)
LEMMA LoadKeeps ==
  ASSUME CampaignInv, NEW t \in Tasks, NEW task \in Task, task.at \in {"list", "open"},
         pollingTask = t => ~task.cancelled,
         tasks' = [tasks EXCEPT ![t] = task], tracked' \subseteq Campaigns, UNCHANGED pollingTask
  PROVE  CampaignInv'
<1>1. tasks' \in [Tasks -> Task] /\ tasks'[t] = task /\ \A u \in Tasks \ {t} : tasks'[u] = tasks[u]
  BY DEF CampaignInv, CampaignTypes
<1> QED
  BY <1>1 DEF CampaignInv, CampaignTypes, KeepsPollingCampaigns

LEMMA BeginKeeps ==
  ASSUME CampaignInv, NEW t \in Tasks, tasks[t] = Idle, tracked' \subseteq Campaigns,
         UNCHANGED pollingTask,
         \/ tasks' = [tasks EXCEPT ![t].at = "open"]
         \/ \E task \in Task : task.at = "list" /\ tasks' = [tasks EXCEPT ![t] = task]
  PROVE  CampaignInv'
<1>1. pollingTask # t
  BY IdleIsATask, CampaignAssumption DEF CampaignInv, KeepsPollingCampaigns, CampaignTypes
<1>2. \E task \in Task : task.at \in {"list", "open"} /\ tasks' = [tasks EXCEPT ![t] = task]
  BY DEF CampaignInv, CampaignTypes, Idle, Task
<1> QED
  BY <1>1, <1>2, LoadKeeps

LEMMA CampaignNextKeeps == CampaignInv /\ [CampaignNext]_campaignVars => CampaignInv'
<1> SUFFICES ASSUME CampaignInv, [CampaignNext]_campaignVars PROVE CampaignInv'
  OBVIOUS
<1>0. tracked \subseteq Campaigns /\ tasks \in [Tasks -> Task]
  BY DEF CampaignInv, CampaignTypes
<1>1. ASSUME NEW t \in Tasks, NEW c \in Campaigns, OpenCampaign(t, c) PROVE CampaignInv'
  BY <1>0, <1>1, BeginKeeps DEF OpenCampaign
<1>2. ASSUME NEW t \in Tasks, NEW batch \in SUBSET Campaigns, RefreshAfterSend(t, batch)
      PROVE  CampaignInv'
  <2>1. CASE ~IsLoadingCampaigns
    <3>1. [Idle EXCEPT !.at = "list"] \in Task /\ [Idle EXCEPT !.at = "list"].at = "list"
      BY DEF Idle, Task
    <3> QED
      BY <1>0, <1>2, <2>1, <3>1, BeginKeeps DEF RefreshAfterSend
  <2>2. CASE UpdateCampaignPolling(tasks, pollingTask, tracked \cup batch)
    <3>1. PICK now, timer, watched :
            now = tasks /\ timer = pollingTask /\ watched = tracked \cup batch
      OBVIOUS
    <3>2. MayPoll(now, timer) /\ watched \in SUBSET Campaigns
          /\ now \in [Tasks -> Task] /\ timer \in Tasks \cup {NoTask}
      BY <1>0, <3>1 DEF MayPoll, CampaignInv, CampaignTypes, KeepsPollingCampaigns
    <3> QED
      BY <2>2, <3>1, <3>2, UpdateKeeps
  <2> QED
    BY <1>2, <2>1, <2>2 DEF RefreshAfterSend
<1>3. ASSUME NEW t \in Tasks, NEW opens \in BOOLEAN, LoadCampaigns(t, opens) PROVE CampaignInv'
  <2>1. [Idle EXCEPT !.at = "list", !.opens = opens] \in Task
        /\ [Idle EXCEPT !.at = "list", !.opens = opens].at = "list"
    BY DEF Idle, Task
  <2> QED
    BY <1>0, <1>3, <2>1, BeginKeeps DEF LoadCampaigns
<1>4. ASSUME NEW t \in Tasks, CampaignArrives(t) PROVE CampaignInv'
  BY <1>4, FinishKeeps DEF CampaignArrives
<1>5. ASSUME NEW t \in Tasks, ListArrives(t) PROVE CampaignInv'
  <2>1. CASE UNCHANGED <<tracked, tasks, pollingTask>>
    BY <1>5, <2>1 DEF ListArrives, CampaignInv, CampaignTypes, KeepsPollingCampaigns
  <2>2. CASE UpdateCampaignPolling([tasks EXCEPT ![t].at = "open"], pollingTask, tracked)
    <3>1. PICK now, timer, watched :
            now = [tasks EXCEPT ![t].at = "open"] /\ timer = pollingTask /\ watched = tracked
      OBVIOUS
    <3>2. now \in [Tasks -> Task] /\ timer \in Tasks \cup {NoTask} /\ watched \in SUBSET Campaigns
      BY <1>0, <3>1 DEF CampaignInv, CampaignTypes, Task
    <3>3. MayPoll(now, timer)
      BY <1>0, <3>1 DEF MayPoll, CampaignInv, CampaignTypes, KeepsPollingCampaigns, Task
    <3> QED
      BY <2>2, <3>1, <3>2, <3>3, UpdateKeeps
  <2> QED
    BY <1>5, <2>1, <2>2, FinishKeeps DEF ListArrives
<1>6. ASSUME NEW t \in Tasks, TimerStopped(t) PROVE CampaignInv'
  <2>1. /\ tasks' \in [Tasks -> Task] /\ pollingTask # t /\ tasks[t].at = "asleep"
        /\ \A u \in Tasks \ {t} : tasks'[u] = tasks[u]
    BY <1>0, <1>6, IdleIsATask, CampaignAssumption
       DEF TimerStopped, Ended, CampaignInv, KeepsPollingCampaigns
  <2> QED
    BY <1>6, <2>1 DEF TimerStopped, CampaignInv, CampaignTypes, KeepsPollingCampaigns
<1>7. ASSUME NEW t \in Tasks, TimerFires(t) PROVE CampaignInv'
  <2>1. ~tasks[t].cancelled
    BY <1>7, CampaignAssumption DEF TimerFires, CampaignInv, KeepsPollingCampaigns
  <2>2. CASE Finish(t)
    BY <2>2, FinishKeeps
  <2>3. CASE /\ tasks' = [tasks EXCEPT ![t] = [Idle EXCEPT !.at = "list", !.opens = TRUE]]
             /\ UNCHANGED <<tracked, pollingTask>>
    <3>1. [Idle EXCEPT !.at = "list", !.opens = TRUE] \in Task
          /\ [Idle EXCEPT !.at = "list", !.opens = TRUE].at = "list"
          /\ ~[Idle EXCEPT !.at = "list", !.opens = TRUE].cancelled
      BY DEF Idle, Task
    <3> QED
      BY <1>0, <2>3, <3>1, LoadKeeps
  <2>4. CASE tasks' = [tasks EXCEPT ![t].at = "open"] /\ UNCHANGED <<tracked, pollingTask>>
    <3>1. \E task \in Task : /\ task.at = "open" /\ ~task.cancelled
                             /\ tasks' = [tasks EXCEPT ![t] = task]
      <4>1. PICK task : task = [tasks[t] EXCEPT !.at = "open"]
        OBVIOUS
      <4>2. task \in Task /\ task.at = "open" /\ ~task.cancelled
        BY <1>0, <2>1, <4>1 DEF Task
      <4>3. tasks' = [tasks EXCEPT ![t] = task]
        BY <2>4, <4>1
      <4> QED
        BY <4>2, <4>3
    <3> QED
      BY <1>0, <2>4, <3>1, LoadKeeps
  <2> QED
    BY <1>7, <2>2, <2>3, <2>4 DEF TimerFires
<1>8. CASE UNCHANGED campaignVars
  BY <1>8 DEF campaignVars, CampaignInv, CampaignTypes, KeepsPollingCampaigns
<1> QED
  BY <1>1, <1>2, <1>3, <1>4, <1>5, <1>6, <1>7, <1>8 DEF CampaignNext

LEMMA CampaignBegins == CampaignInit => CampaignInv
BY IdleIsATask DEF CampaignInit, CampaignInv, CampaignTypes, KeepsPollingCampaigns,
                   Requires, NoList

(* A campaign that is being sent is never left without a timer or a load    *)
(* that decides again, in whatever order the client's calls are answered.   *)
THEOREM CampaignsArePolled == CampaignSpec => []KeepsPollingCampaigns
<1>1. CampaignInv => KeepsPollingCampaigns
  BY DEF CampaignInv
<1> QED
  BY CampaignBegins, CampaignNextKeeps, <1>1, PTL DEF CampaignSpec

-----------------------------------------------------------------------------
(* The library.  A load remembers which favorites moved while it was under  *)
(* way, so what its page says of the others is so when it arrives; and a page *)
(* of criteria that were replaced is dropped.                               *)

(* Where a page may end. *)
Cursors == {NoCursor} \cup {CHOOSE p \in S : \A q \in S : q <= p : S \in SUBSET Profiles}

Loads == [kind : {"none", "first", "next"}, phase : {"asked", "read"}, criteria : Criteria,
          page : [Profiles -> Shown], next : Cursors, moved : SUBSET Profiles]

LibraryTypes ==
  /\ favorites \subseteq Profiles /\ criteria \in Criteria /\ shown \in Criteria
  /\ items \in [Profiles -> Shown] /\ nextCursor \in Cursors
  /\ pageLoad \in Loads /\ overlays \in [Profiles -> {"none", "updating", "yes", "no"}]
  /\ updates \in [Profiles -> FavoriteUpdate]

(* A favorite that is being stored has an overlay, and is stored as it says. *)
UpdatesSound ==
  \A p \in Profiles :
    /\ overlays[p] = "updating" <=> updates[p].phase # "none"
    /\ updates[p].phase = "set" => updates[p].to = Mark(p \in favorites)

(* What a page has found is so, but for the favorites that moved since; of  *)
(* those the overlay is, unless their request has failed.                   *)
PageIsTrue ==
  pageLoad.kind # "none" =>
    \A p \in Profiles :
      /\ /\ pageLoad.phase = "read" /\ pageLoad.page[p] # "absent"
         /\ p \notin pageLoad.moved /\ updates[p].phase = "none"
         => pageLoad.page[p] = Mark(p \in favorites)
      /\ p \in pageLoad.moved /\ overlays[p] \in {"yes", "no"} /\ p \notin unsure
         => overlays[p] = Mark(p \in favorites)
      /\ p \in pageLoad.moved => overlays[p] # "none"

(* A list with more pages to come is of the present criteria, and a load    *)
(* of others is pending until it has succeeded or failed.                   *)
ReloadsSound ==
  /\ nextCursor # NoCursor => shown = criteria
  /\ shown = criteria \/ pendingReload \/ loadFailed
  /\ scheduled \in Nat

FavoritesInv == LibraryTypes /\ UpdatesSound /\ PageIsTrue /\ FavoritesAreTrue

LEMMA MarksShown == \A b \in BOOLEAN : Mark(b) \in {"yes", "no"}
BY DEF Mark

(* Loads that begin, are dropped, or are told of an overlay. *)
LEMMA LoadShapes ==
  ASSUME LibraryTypes
  PROVE  /\ \A c \in Criteria : /\ NoLoadOf(c) \in Loads /\ NoLoadOf(c).kind = "none"
                                /\ NoLoadOf(c).criteria = c
         /\ Dropped \in Loads /\ Dropped.kind = "none" /\ Dropped.criteria = criteria
         /\ \A kind \in {"first", "next"} :
              /\ Asked(kind) \in Loads /\ Asked(kind).kind = kind /\ Asked(kind).phase = "asked"
              /\ Asked(kind).criteria = criteria /\ Asked(kind).moved = {}
<1>1. ASSUME NEW c \in Criteria
      PROVE  /\ NoLoadOf(c) \in Loads /\ NoLoadOf(c).kind = "none" /\ NoLoadOf(c).criteria = c
             /\ NoLoadOf(c).phase = "asked" /\ NoLoadOf(c).moved = {}
  BY DEF NoLoadOf, Loads, NoPage, Shown, Cursors
<1>2. criteria \in Criteria
  BY DEF LibraryTypes
<1>3. ASSUME NEW kind \in {"first", "next"}
      PROVE  /\ Asked(kind) \in Loads /\ Asked(kind).kind = kind /\ Asked(kind).phase = "asked"
             /\ Asked(kind).criteria = criteria /\ Asked(kind).moved = {}
  <2>1. PICK load \in Loads : /\ load = NoLoadOf(criteria) /\ load.criteria = criteria
                              /\ load.phase = "asked" /\ load.moved = {}
    BY <1>1, <1>2
  <2>2. Asked(kind) = [load EXCEPT !.kind = kind]
    BY <2>1 DEF Asked
  <2> QED
    BY <2>1, <2>2 DEF Loads
<1> QED
  BY <1>1, <1>2, <1>3 DEF Dropped

LEMMA MovesShapes ==
  ASSUME NEW load \in Loads, NEW p \in Profiles
  PROVE  /\ Moves(load, p) \in Loads /\ Moves(load, p).kind = load.kind
         /\ Moves(load, p).phase = load.phase /\ Moves(load, p).criteria = load.criteria
         /\ Moves(load, p).page = load.page
         /\ load.kind # "none" => Moves(load, p).moved = load.moved \cup {p}
BY DEF Moves, Loads

(* The actions that read and load: nothing about a favorite changes, nor    *)
(* the list.                                                                *)
Quiet ==
  /\ UNCHANGED <<favorites, overlays, updates, unsure, items>>
  /\ \/ UNCHANGED pageLoad
     \/ pageLoad'.kind = "none"
     \/ pageLoad'.phase = "asked" /\ pageLoad'.moved = {}

LEMMA QuietKeeps ==
  ASSUME FavoritesInv, Quiet, LibraryTypes'
  PROVE  FavoritesInv'
BY DEF FavoritesInv, Quiet, UpdatesSound, PageIsTrue, FavoritesAreTrue

LEMMA NewCriteriaGives ==
  ASSUME LibraryTypes, NEW c \in Criteria, NewCriteria(c)
  PROVE  /\ LibraryTypes' /\ Quiet /\ nextCursor' = NoCursor /\ criteria' = c
         /\ pageLoad'.kind = "none" /\ pendingReload'
<1>1. NoLoadOf(c) \in Loads /\ NoLoadOf(c).kind = "none"
  BY LoadShapes
<1> QED
  BY <1>1 DEF NewCriteria, FavoritesStay, LibraryTypes, Quiet, Cursors

LEMMA BeginFirstPageGives ==
  ASSUME LibraryTypes, BeginFirstPage
  PROVE  /\ LibraryTypes' /\ Quiet /\ pageLoad'.kind = "first"
         /\ pageLoad'.criteria = criteria'
         /\ UNCHANGED <<isSelected, criteria, shown, nextCursor, dirty, pendingReload, loadFailed>>
BY LoadShapes DEF BeginFirstPage, ListStays, NoEdit, LibraryTypes, Quiet

LEMMA UnlessLoadingGives ==
  ASSUME LibraryTypes, FirstPageUnlessLoading
  PROVE  /\ LibraryTypes' /\ Quiet /\ pageLoad'.kind = "first"
         /\ pageLoad' = pageLoad \/ pageLoad'.criteria = criteria'
         /\ UNCHANGED <<isSelected, criteria, shown, nextCursor, dirty, pendingReload, loadFailed>>
<1>1. CASE BeginFirstPage
  BY <1>1, BeginFirstPageGives
<1>2. CASE ~BeginFirstPage
  BY <1>2 DEF FirstPageUnlessLoading, ListStays, NoEdit, LibraryTypes, Quiet
<1> QED
  BY <1>1, <1>2

LEMMA ReadPageGives ==
  ASSUME LibraryTypes, ReadPage
  PROVE  /\ LibraryTypes' /\ pageLoad'.kind = pageLoad.kind /\ pageLoad'.phase = "read"
         /\ pageLoad'.criteria = pageLoad.criteria /\ pageLoad'.moved = pageLoad.moved
         /\ \A p \in Profiles : pageLoad'.page[p] # "absent" =>
              pageLoad'.page[p] = Mark(p \in favorites)
         /\ UNCHANGED <<isSelected, criteria, pendingReload, debounce, scheduled, loadFailed,
                        items, nextCursor, dirty, shown, favorites, overlays, updates, unsure>>
<1>1. PICK rest : rest = Rest(pageLoad.criteria, pageLoad.next)
  OBVIOUS
<1>2. PICK page \in SUBSET Profiles :
        page = {p \in rest : Cardinality({q \in rest : q < p}) < PageSize}
  <2>1. rest \subseteq Profiles
    BY <1>1, LibraryAssumption DEF Rest, Matching, LibraryTypes, Loads, Criteria, Profiles
  <2> QED
    BY <2>1
<1>3. PICK next \in Cursors :
        next = IF page = rest THEN NoCursor ELSE CHOOSE p \in page : \A q \in page : q <= p
  <2>1. (CHOOSE p \in page : \A q \in page : q <= p) \in Cursors
    BY Zenon DEF Cursors
  <2>2. NoCursor \in Cursors
    BY DEF Cursors
  <2> QED
    BY <2>1, <2>2
<1>4. PICK found \in [Profiles -> Shown] :
        found = [p \in Profiles |-> IF p \in page THEN Mark(p \in favorites) ELSE "absent"]
  <2>1. \A p \in Profiles : Mark(p \in favorites) \in Shown /\ "absent" \in Shown
    BY DEF Mark, Shown
  <2> QED
    BY <2>1
<1>5. pageLoad' = [pageLoad EXCEPT !.phase = "read", !.page = found, !.next = next]
  BY <1>1, <1>2, <1>3, <1>4 DEF ReadPage, NextCursor
<1>6. /\ pageLoad' \in Loads /\ pageLoad'.kind = pageLoad.kind /\ pageLoad'.phase = "read"
      /\ pageLoad'.criteria = pageLoad.criteria /\ pageLoad'.moved = pageLoad.moved
      /\ pageLoad'.page = found
  BY <1>5 DEF LibraryTypes, Loads
<1>7. UNCHANGED <<isSelected, criteria, pendingReload, debounce, scheduled, loadFailed,
                  items, nextCursor, dirty, shown, favorites, overlays, updates, unsure>>
  BY DEF ReadPage, ListStays, NoEdit
<1> QED
  BY <1>4, <1>6, <1>7 DEF LibraryTypes

LEMMA PageArrivesGives ==
  ASSUME LibraryTypes, UpdatesSound, PageArrives
  PROVE  /\ LibraryTypes' /\ pageLoad'.kind = "none"
         /\ UNCHANGED <<criteria, favorites, overlays, updates>>
         /\ nextCursor' = pageLoad.next
<1>1. pageLoad' \in Loads /\ pageLoad'.kind = "none"
  BY LoadShapes DEF PageArrives
<1>2. \A p \in Profiles : KeptOf(p) \in Shown
  <2>1. \A p \in Profiles : /\ pageLoad.page[p] \in Shown /\ updates[p].to \in {"yes", "no"}
                            /\ overlays[p] \in {"none", "updating", "yes", "no"}
    BY DEF LibraryTypes, Loads, FavoriteUpdate
  <2> QED
    BY <2>1 DEF KeptOf, Shown
<1>3. items' \in [Profiles -> Shown] /\ nextCursor' \in Cursors
  BY <1>2 DEF PageArrives, LibraryTypes, Loads
<1>4. shown' \in Criteria
  BY DEF PageArrives, LibraryTypes, Loads
<1> QED
  BY <1>1, <1>3, <1>4 DEF PageArrives, LibraryTypes

LEMMA PageArrivesKeepsFavorites ==
  ASSUME FavoritesInv, PageArrives
  PROVE  FavoritesInv'
<1>1. /\ LibraryTypes' /\ pageLoad'.kind = "none"
      /\ UNCHANGED <<criteria, favorites, overlays, updates>>
  BY PageArrivesGives DEF FavoritesInv
<1>2. ASSUME NEW p \in Profiles, items'[p] # "absent", updates[p].phase = "none", p \notin unsure'
      PROVE  items'[p] = Mark(p \in favorites)
  <2>1. CASE pageLoad.kind = "next" /\ items[p] # "absent"
    <3>1. items'[p] = items[p] /\ p \notin unsure
      BY <1>2, <2>1 DEF PageArrives
    <3> QED
      BY <1>2, <3>1 DEF FavoritesInv, FavoritesAreTrue
  <2>2. CASE ~(pageLoad.kind = "next" /\ items[p] # "absent")
    <3>1. items'[p] = KeptOf(p) /\ pageLoad.page[p] # "absent"
          /\ overlays[p] # "updating" /\ pageLoad.kind \in {"first", "next"}
      BY <1>2, <2>2 DEF PageArrives, KeptOf, FavoritesInv, UpdatesSound, LibraryTypes, Loads
    <3>2. CASE p \in pageLoad.moved /\ overlays[p] # "none"
      <4>1. items'[p] = overlays[p] /\ overlays[p] \in {"yes", "no"}
        BY <1>2, <3>1, <3>2 DEF KeptOf, FavoritesInv, LibraryTypes
      <4>2. p \notin unsure
        BY <1>2, <3>2 DEF PageArrives
      <4> QED
        BY <3>1, <3>2, <4>1, <4>2 DEF FavoritesInv, PageIsTrue
    <3>3. CASE p \notin pageLoad.moved
      <4>1. items'[p] = pageLoad.page[p] /\ pageLoad.phase = "read"
        BY <3>1, <3>3 DEF KeptOf, PageArrives
      <4> QED
        BY <1>2, <3>1, <3>3, <4>1 DEF FavoritesInv, PageIsTrue
    <3>4. p \in pageLoad.moved => overlays[p] # "none"
      BY <3>1 DEF FavoritesInv, PageIsTrue
    <3> QED
      BY <3>2, <3>3, <3>4
  <2> QED
    BY <2>1, <2>2
<1>3. UpdatesSound' /\ PageIsTrue'
  BY <1>1 DEF FavoritesInv, UpdatesSound, PageIsTrue
<1> QED
  BY <1>1, <1>2, <1>3 DEF FavoritesInv, FavoritesAreTrue

(* A favorite: the load under way goes on knowing of it, or is dropped. *)
LEMMA FavoriteTypes ==
  ASSUME LibraryTypes, NEW p \in Profiles, NEW load \in Loads, NEW mark \in {"yes", "no"},
         NEW overlay \in {"updating", "yes", "no"}, NEW u \in FavoriteUpdate,
         pageLoad' = Moves(load, p), updates' = [updates EXCEPT ![p] = u],
         overlays' = [overlays EXCEPT ![p] = overlay],
         items' \in [Profiles -> Shown], favorites' \subseteq Profiles,
         UNCHANGED <<criteria, shown, nextCursor>>
  PROVE  /\ LibraryTypes'
         /\ updates'[p] = u /\ overlays'[p] = overlay
         /\ \A q \in Profiles \ {p} : updates'[q] = updates[q] /\ overlays'[q] = overlays[q]
BY MovesShapes DEF LibraryTypes

LEMMA ToggleKeeps ==
  ASSUME FavoritesInv, NEW p \in Profiles, ToggleFavorite(p)
  PROVE  FavoritesInv'
<1>1. /\ items[p] # "absent" /\ updates[p].phase = "none"
      /\ items' = [items EXCEPT ![p] = Opposite(items[p])]
      /\ UNCHANGED <<favorites, unsure, criteria, shown, nextCursor>>
  BY DEF ToggleFavorite, CriteriaStay
<1>2. Opposite(items[p]) \in {"yes", "no"}
  BY DEF Opposite
<1>3. PICK load \in Loads : load = DropsLoad /\ (load = pageLoad \/ load.kind = "none")
  BY LoadShapes DEF DropsLoad, FavoritesInv, LibraryTypes
<1>4. PICK u \in FavoriteUpdate : u = [phase |-> "asked", to |-> Opposite(items[p])]
  BY <1>2 DEF FavoriteUpdate
<1>5. /\ items' \in [Profiles -> Shown] /\ \A q \in Profiles \ {p} : items'[q] = items[q]
  BY <1>1, <1>2 DEF FavoritesInv, LibraryTypes, Shown
<1>6. /\ LibraryTypes' /\ updates'[p].phase = "asked" /\ overlays'[p] = "updating"
      /\ \A q \in Profiles \ {p} : updates'[q] = updates[q] /\ overlays'[q] = overlays[q]
  <2>1. /\ pageLoad' = Moves(load, p) /\ updates' = [updates EXCEPT ![p] = u]
        /\ overlays' = [overlays EXCEPT ![p] = "updating"]
    BY <1>3, <1>4 DEF ToggleFavorite
  <2>2. u.phase = "asked" /\ favorites' \subseteq Profiles /\ LibraryTypes
    BY <1>1, <1>4 DEF FavoritesInv, LibraryTypes
  <2> QED
    BY <1>1, <1>5, <2>1, <2>2, FavoriteTypes
<1>7. UpdatesSound' /\ FavoritesAreTrue'
  BY <1>1, <1>5, <1>6 DEF FavoritesInv, UpdatesSound, FavoritesAreTrue
<1>8. PageIsTrue'
  BY <1>1, <1>3, <1>6, MovesShapes DEF FavoritesInv, PageIsTrue, ToggleFavorite
<1> QED
  BY <1>6, <1>7, <1>8 DEF FavoritesInv

LEMMA SetKeeps ==
  ASSUME FavoritesInv, NEW p \in Profiles, SetFavorite(p)
  PROVE  FavoritesInv'
<1>1. /\ updates[p].phase = "asked"
      /\ UNCHANGED <<items, pageLoad, overlays, unsure, criteria, shown, nextCursor>>
  BY DEF SetFavorite, CriteriaStay
<1>2. /\ updates' \in [Profiles -> FavoriteUpdate] /\ updates'[p].phase = "set"
      /\ updates'[p].to = updates[p].to /\ updates[p].to \in {"yes", "no"}
      /\ \A q \in Profiles \ {p} : updates'[q] = updates[q]
  BY DEF SetFavorite, FavoritesInv, LibraryTypes, FavoriteUpdate
<1>3. /\ favorites' \subseteq Profiles /\ updates[p].to = Mark(p \in favorites')
      /\ \A q \in Profiles \ {p} : q \in favorites' <=> q \in favorites
  BY <1>2 DEF SetFavorite, WithFavorite, FavoritesInv, LibraryTypes, Mark
<1>4. \A q \in Profiles \ {p} : Mark(q \in favorites') = Mark(q \in favorites)
  BY <1>3 DEF Mark
<1>5. overlays[p] = "updating"
  BY <1>1 DEF FavoritesInv, UpdatesSound
<1> QED
  BY <1>1, <1>2, <1>3, <1>4, <1>5
     DEF FavoritesInv, LibraryTypes, UpdatesSound, PageIsTrue, FavoritesAreTrue

(* The request ends: with its answer, or without. *)
LEMMA EndKeeps ==
  ASSUME FavoritesInv, NEW p \in Profiles, FavoriteSet(p) \/ FavoriteFails(p)
  PROVE  FavoritesInv'
<1>1. /\ updates[p].phase # "none" /\ updates' = [updates EXCEPT ![p] = NoFavoriteUpdate]
      /\ pageLoad' = Moves(pageLoad, p)
      /\ UNCHANGED <<favorites, criteria, shown, nextCursor>>
  BY DEF FavoriteSet, FavoriteFails, CriteriaStay
<1>2. PICK overlay \in {"yes", "no"} :
        /\ overlays' = [overlays EXCEPT ![p] = overlay]
        /\ overlay = Mark(p \in favorites) \/ p \in unsure'
  <2>1. updates[p].to \in {"yes", "no"}
    BY DEF FavoritesInv, LibraryTypes, FavoriteUpdate
  <2>2. CASE FavoriteSet(p)
    BY <2>1, <2>2 DEF FavoriteSet, FavoritesInv, UpdatesSound
  <2>3. CASE FavoriteFails(p)
    BY <2>1, <2>3 DEF FavoriteFails, Opposite
  <2> QED
    BY <2>2, <2>3
<1>3. /\ items' \in [Profiles -> Shown] /\ \A q \in Profiles \ {p} : items'[q] = items[q]
      /\ items'[p] = "absent" \/ items'[p] = Mark(p \in favorites) \/ p \in unsure'
      /\ \A q \in Profiles \ {p} : q \in unsure' <=> q \in unsure
  <2>1. updates[p].to \in {"yes", "no"}
    BY DEF FavoritesInv, LibraryTypes, FavoriteUpdate
  <2>2. CASE FavoriteSet(p)
    BY <2>1, <2>2 DEF FavoriteSet, FavoritesInv, LibraryTypes, UpdatesSound, Shown
  <2>3. CASE FavoriteFails(p)
    BY <2>1, <2>3 DEF FavoriteFails, Opposite, FavoritesInv, LibraryTypes, Shown
  <2> QED
    BY <2>2, <2>3
<1>4. NoFavoriteUpdate \in FavoriteUpdate /\ NoFavoriteUpdate.phase = "none"
  BY DEF NoFavoriteUpdate, FavoriteUpdate
<1>5. /\ LibraryTypes' /\ updates'[p].phase = "none" /\ overlays'[p] = overlay
      /\ \A q \in Profiles \ {p} : updates'[q] = updates[q] /\ overlays'[q] = overlays[q]
  BY <1>1, <1>2, <1>3, <1>4, FavoriteTypes DEF FavoritesInv, LibraryTypes
<1>6. UpdatesSound' /\ FavoritesAreTrue'
  BY <1>1, <1>3, <1>5 DEF FavoritesInv, UpdatesSound, FavoritesAreTrue
<1>7. PageIsTrue'
  <2>1. pageLoad \in Loads
    BY DEF FavoritesInv, LibraryTypes
  <2> QED
    <3> SUFFICES ASSUME pageLoad.kind # "none" PROVE PageIsTrue'
      BY <1>1, <2>1, MovesShapes DEF PageIsTrue
    <3>1. /\ pageLoad'.phase = pageLoad.phase /\ pageLoad'.page = pageLoad.page
          /\ pageLoad'.moved = pageLoad.moved \cup {p}
      BY <1>1, <2>1, MovesShapes
    <3> QED
      BY <1>1, <1>2, <1>3, <1>5, <3>1 DEF FavoritesInv, PageIsTrue
<1> QED
  BY <1>5, <1>6, <1>7 DEF FavoritesInv

LEMMA QuietActions ==
  ASSUME LibraryTypes,
         \/ \E q \in Queries : SetSearch(q)
         \/ \E enabled \in BOOLEAN : SetOnlyCollection(enabled)
         \/ SelectType \/ SelectOtherType \/ LoadFirstPage \/ DebounceFires \/ ScheduledFires
         \/ ConsumeUnselected \/ LoadNextPage \/ PageFails
  PROVE  LibraryTypes' /\ Quiet
<1>1. ASSUME NEW q \in Queries, SetSearch(q) PROVE LibraryTypes' /\ Quiet
  <2>1. [criteria EXCEPT !.query = q] \in Criteria
    BY DEF LibraryTypes, Criteria
  <2> QED
    BY <1>1, <2>1, NewCriteriaGives DEF SetSearch
<1>2. ASSUME NEW enabled \in BOOLEAN, SetOnlyCollection(enabled) PROVE LibraryTypes' /\ Quiet
  <2>1. [criteria EXCEPT !.only = enabled] \in Criteria
    BY DEF LibraryTypes, Criteria
  <2> QED
    BY <1>2, <2>1, NewCriteriaGives DEF SetOnlyCollection
<1>3. CASE SelectType \/ SelectOtherType
  BY <1>3 DEF SelectType, SelectOtherType, ListStays, NoEdit, LibraryTypes, Quiet
<1>4. CASE LoadFirstPage \/ DebounceFires \/ ScheduledFires
  BY <1>4, BeginFirstPageGives, UnlessLoadingGives
     DEF LoadFirstPage, DebounceFires, ScheduledFires
<1>5. CASE ConsumeUnselected \/ PageFails
  BY <1>5, LoadShapes DEF ConsumeUnselected, PageFails, ListStays, NoEdit, LibraryTypes, Quiet
<1>6. CASE LoadNextPage
  <2>1. /\ pageLoad' \in Loads /\ pageLoad'.phase = "asked" /\ pageLoad'.moved = {}
    <3>1. PICK load \in Loads : load = Asked("next") /\ load.phase = "asked" /\ load.moved = {}
      BY LoadShapes
    <3>2. pageLoad' = [load EXCEPT !.next = nextCursor] /\ nextCursor \in Cursors
      BY <1>6, <3>1 DEF LoadNextPage, LibraryTypes
    <3> QED
      BY <3>1, <3>2 DEF Loads
  <2> QED
    BY <1>6, <2>1 DEF LoadNextPage, ListStays, NoEdit, LibraryTypes, Quiet
<1> QED
  BY <1>1, <1>2, <1>3, <1>4, <1>5, <1>6

LEMMA FavoritesNextKeep == FavoritesInv /\ [LibraryNext]_libraryVars => FavoritesInv'
<1> SUFFICES ASSUME FavoritesInv, [LibraryNext]_libraryVars PROVE FavoritesInv'
  OBVIOUS
<1>1. CASE UNCHANGED libraryVars
  BY <1>1 DEF libraryVars, FavoritesInv, LibraryTypes, UpdatesSound, PageIsTrue, FavoritesAreTrue
<1>2. CASE ReadPage
  <2>1. LibraryTypes' /\ UpdatesSound' /\ FavoritesAreTrue'
    BY <1>2, ReadPageGives DEF FavoritesInv, UpdatesSound, FavoritesAreTrue
  <2>2. PageIsTrue'
    BY <1>2, ReadPageGives DEF FavoritesInv, PageIsTrue
  <2> QED
    BY <2>1, <2>2 DEF FavoritesInv
<1>3. CASE PageArrives
  BY <1>3, PageArrivesKeepsFavorites
<1>4. ASSUME NEW p \in Profiles,
             ToggleFavorite(p) \/ SetFavorite(p) \/ FavoriteSet(p) \/ FavoriteFails(p)
      PROVE  FavoritesInv'
  BY <1>4, ToggleKeeps, SetKeeps, EndKeeps
<1> QED
  BY <1>1, <1>2, <1>3, <1>4, QuietActions, QuietKeeps DEF LibraryNext, FavoritesInv

LEMMA LibraryTypesBegin == LibraryInit => LibraryTypes
<1> SUFFICES ASSUME LibraryInit PROVE LibraryTypes
  OBVIOUS
<1>1. criteria \in Criteria
  BY LibraryAssumption DEF LibraryInit, Criteria, Profiles
<1>2. pageLoad \in Loads
  BY <1>1 DEF LibraryInit, NoLoadOf, Loads, NoPage, Shown, Cursors
<1>3. NoFavoriteUpdate \in FavoriteUpdate
  BY DEF NoFavoriteUpdate, FavoriteUpdate
<1> QED
  BY <1>1, <1>2, <1>3 DEF LibraryInit, LibraryTypes, NoPage, Shown, Cursors

LEMMA FavoritesBegin == LibraryInit => FavoritesInv
<1> SUFFICES ASSUME LibraryInit PROVE FavoritesInv
  OBVIOUS
<1>1. UpdatesSound
  BY DEF LibraryInit, UpdatesSound, NoFavoriteUpdate
<1>2. PageIsTrue /\ FavoritesAreTrue
  BY DEF LibraryInit, PageIsTrue, FavoritesAreTrue, NoLoadOf, NoPage
<1> QED
  BY <1>1, <1>2, LibraryTypesBegin DEF FavoritesInv

(* What is known of favorites stays true of them.                           *)
THEOREM FavoritesKeep == LibrarySpec => []FavoritesInv
BY FavoritesBegin, FavoritesNextKeep, PTL DEF LibrarySpec

(* The list shows each favorite as it is stored, unless its request is      *)
(* under way or has failed, however pages and favorites overtook each other.*)
THEOREM FavoritesShownTrue == LibrarySpec => []FavoritesAreTrue
<1>1. FavoritesInv => FavoritesAreTrue
  BY DEF FavoritesInv
<1> QED
  BY <1>1, FavoritesKeep, PTL

-----------------------------------------------------------------------------
(* The criteria *)

CriteriaSound == ReloadsSound /\ CriteriaAreApplied

LEMMA LoadingKeepsCriteria ==
  ASSUME CriteriaSound,
         UNCHANGED <<criteria, shown, nextCursor, dirty, pendingReload, loadFailed>>,
         pageLoad'.kind = "first", pageLoad' = pageLoad \/ pageLoad'.criteria = criteria',
         scheduled' \in Nat
  PROVE  CriteriaSound'
BY DEF CriteriaSound, ReloadsSound, CriteriaAreApplied

(* A load that is dropped is not one that was to apply new criteria.        *)
LEMMA FavoritesKeepCriteria ==
  ASSUME CriteriaSound, CriteriaStay,
         \/ UNCHANGED <<pageLoad>>
         \/ /\ pageLoad'.kind = pageLoad.kind /\ pageLoad'.criteria = pageLoad.criteria
         \/ pageLoad'.kind = "none" /\ ~pendingReload
  PROVE  CriteriaSound'
BY DEF CriteriaSound, ReloadsSound, CriteriaAreApplied, CriteriaStay

LEMMA CriteriaNextKeep ==
  LibraryTypes /\ CriteriaSound /\ [LibraryNext]_libraryVars => CriteriaSound'
<1> SUFFICES ASSUME LibraryTypes, CriteriaSound, [LibraryNext]_libraryVars PROVE CriteriaSound'
  OBVIOUS
<1>1. ASSUME NEW q \in Queries, SetSearch(q) PROVE CriteriaSound'
  <2>1. [criteria EXCEPT !.query = q] \in Criteria
    BY DEF LibraryTypes, Criteria
  <2> QED
    BY <1>1, <2>1, NewCriteriaGives
       DEF SetSearch, CriteriaSound, ReloadsSound, CriteriaAreApplied
<1>2. ASSUME NEW enabled \in BOOLEAN, SetOnlyCollection(enabled) PROVE CriteriaSound'
  <2>1. [criteria EXCEPT !.only = enabled] \in Criteria
    BY DEF LibraryTypes, Criteria
  <2> QED
    BY <1>2, <2>1, NewCriteriaGives
       DEF SetOnlyCollection, CriteriaSound, ReloadsSound, CriteriaAreApplied
<1>3. CASE SelectType
  BY <1>3 DEF SelectType, ListStays, CriteriaSound, ReloadsSound, CriteriaAreApplied
<1>4. CASE SelectOtherType
  BY <1>4 DEF SelectOtherType, ListStays, CriteriaSound, ReloadsSound, CriteriaAreApplied
<1>5. CASE LoadFirstPage \/ DebounceFires \/ ScheduledFires
  BY <1>5, BeginFirstPageGives, UnlessLoadingGives, LoadingKeepsCriteria
     DEF LoadFirstPage, DebounceFires, ScheduledFires, CriteriaSound, ReloadsSound
<1>6. CASE ConsumeUnselected
  BY <1>6, LoadShapes DEF ConsumeUnselected, CriteriaSound, ReloadsSound, CriteriaAreApplied
<1>7. CASE LoadNextPage
  <2>1. /\ pageLoad'.kind = "next" /\ pageLoad'.criteria = criteria
        /\ UNCHANGED <<criteria, shown, nextCursor, pendingReload, loadFailed, scheduled>>
        /\ nextCursor # NoCursor
    <3>1. PICK load \in Loads : load = Asked("next") /\ load.kind = "next" /\ load.criteria = criteria
      BY LoadShapes
    <3>2. pageLoad' = [load EXCEPT !.next = nextCursor]
      BY <1>7, <3>1 DEF LoadNextPage
    <3> QED
      BY <1>7, <3>1, <3>2 DEF LoadNextPage, ListStays, Loads
  <2> QED
    BY <2>1 DEF CriteriaSound, ReloadsSound, CriteriaAreApplied
<1>8. CASE ReadPage
  BY <1>8, ReadPageGives DEF CriteriaSound, ReloadsSound, CriteriaAreApplied
<1>9. CASE PageArrives
  <2>1. /\ pageLoad.kind \in {"first", "next"} /\ pageLoad.criteria = criteria
        /\ pageLoad.kind = "next" => shown = criteria
    BY <1>9 DEF PageArrives, CriteriaSound, CriteriaAreApplied, LibraryTypes, Loads
  <2>2. /\ pageLoad'.kind = "none" /\ criteria' = criteria /\ shown' = criteria
        /\ UNCHANGED scheduled
    BY <1>9, <2>1, LoadShapes DEF PageArrives
  <2> QED
    BY <2>2 DEF CriteriaSound, ReloadsSound, CriteriaAreApplied
<1>10. CASE PageFails
  BY <1>10, LoadShapes DEF PageFails, ListStays, CriteriaSound, ReloadsSound, CriteriaAreApplied
<1>11. ASSUME NEW p \in Profiles, ToggleFavorite(p) PROVE CriteriaSound'
  <2>1. PICK load \in Loads : /\ load = DropsLoad
                              /\ load = pageLoad \/ (load.kind = "none" /\ ~pendingReload)
    BY LoadShapes DEF DropsLoad, LibraryTypes
  <2>2. pageLoad' = Moves(load, p) /\ CriteriaStay
    BY <1>11, <2>1 DEF ToggleFavorite
  <2>3. pageLoad'.kind = load.kind /\ pageLoad'.criteria = load.criteria
    BY <2>2, MovesShapes
  <2> QED
    BY <2>1, <2>2, <2>3, FavoritesKeepCriteria
<1>12. ASSUME NEW p \in Profiles, SetFavorite(p) PROVE CriteriaSound'
  BY <1>12, FavoritesKeepCriteria DEF SetFavorite
<1>13. ASSUME NEW p \in Profiles, FavoriteSet(p) \/ FavoriteFails(p) PROVE CriteriaSound'
  <2>1. pageLoad' = Moves(pageLoad, p) /\ CriteriaStay /\ pageLoad \in Loads
    BY <1>13 DEF FavoriteSet, FavoriteFails, LibraryTypes
  <2> QED
    BY <2>1, MovesShapes, FavoritesKeepCriteria
<1>14. CASE UNCHANGED libraryVars
  BY <1>14 DEF libraryVars, CriteriaSound, ReloadsSound, CriteriaAreApplied
<1> QED
  BY <1>1, <1>2, <1>3, <1>4, <1>5, <1>6, <1>7, <1>8, <1>9, <1>10, <1>11, <1>12, <1>13, <1>14
     DEF LibraryNext

(* The list is of the criteria shown with it, or their load is under way,   *)
(* set up or has failed, and lists of different criteria are never joined.  *)
THEOREM CriteriaApplied == LibrarySpec => []CriteriaAreApplied
<1>1. LibraryInit => CriteriaSound
  BY DEF LibraryInit, CriteriaSound, ReloadsSound, CriteriaAreApplied, NoLoadOf
<1>2. FavoritesInv /\ CriteriaSound /\ [LibraryNext]_libraryVars => CriteriaSound'
  BY CriteriaNextKeep DEF FavoritesInv
<1>3. CriteriaSound => CriteriaAreApplied
  BY DEF CriteriaSound
<1> QED
  BY <1>1, <1>2, <1>3, FavoritesKeep, PTL DEF LibrarySpec

-----------------------------------------------------------------------------
(* The history.  A failure is suppressed under the version its retry was    *)
(* accepted at, until something later is listed.                            *)

(* Nothing is known of the Match that it has not been.                      *)
KnownVersions ==
  /\ listed.version <= matchRow.version /\ accepted <= matchRow.version
  /\ retryCall.at <= matchRow.version /\ retryCall.answer.version <= matchRow.version
  /\ listCall.answer.version <= matchRow.version
  /\ changeCall.answer.version <= matchRow.version

(* A retry was asked for a failure, under a key; the Match has moved on     *)
(* since, or it is answered with the failure as it was.                     *)
RetrySound ==
  /\ retryCall.phase # "none" => retryCall.at # 0 /\ retryKey # 0
  /\ retryCall.phase = "sent" => matchRow.version > retryCall.at
  /\ retryCall.phase = "answered" /\ matchRow.status = "failed"
       => matchRow.version > retryCall.at \/ repeated = matchRow.version
  /\ \A k \in 1..MaxKeys : replay[k] = "successor" => matchRow.status = "superseded"

(* What is suppressed is the failure whose retry was accepted last, until   *)
(* something later is listed.                                               *)
SuppressionSound ==
  /\ suppressed \in {0, accepted}
  /\ suppressed = 0 => listed.version > accepted \/ accepted = 0
  /\ accepted # 0 /\ matchRow.status = "failed" =>
       matchRow.version > accepted \/ repeated = matchRow.version

HistoryInv == HistoryTypeOK /\ KnownVersions /\ RetrySound /\ SuppressionSound

LEMMA StatusesListed ==
  /\ "running" \in Statuses /\ "failed" \in Statuses /\ "superseded" \in Statuses
  /\ \A s \in Snapshot : s.version \in 1..MaxVersion /\ s.status \in Statuses
  /\ \A v \in 1..MaxVersion, s \in Statuses : [version |-> v, status |-> s] \in Snapshot
  /\ Unlisted.version = 0 /\ Successor.version = 0
  /\ MaxVersion \in Nat /\ MaxKeys \in Nat
BY HistoryAssumption DEF Statuses, Snapshot, Unlisted, Successor

(* The row moves on. *)
LEMMA MovesToGives ==
  ASSUME HistoryTypeOK, NEW status \in Statuses, MovesTo(status)
  PROVE  /\ matchRow' \in Snapshot /\ matchRow'.status = status
         /\ matchRow'.version = matchRow.version + 1
         /\ matchRow.version \in 1..MaxVersion
BY StatusesListed DEF MovesTo, HistoryTypeOK, Snapshot

LEMMA RunsKeeps ==
  ASSUME HistoryInv, MatchRuns
  PROVE  HistoryInv'
<1>1. PICK s \in Statuses : MovesTo(s)
  BY DEF MatchRuns, Statuses
<1>2. /\ matchRow' \in Snapshot /\ matchRow'.version = matchRow.version + 1
      /\ matchRow.version \in 1..MaxVersion /\ matchRow.status # "superseded"
  BY <1>1, MovesToGives DEF MatchRuns, HistoryInv
<1>3. UNCHANGED <<replay, listed, suppressed, retryKey, keysUsed, retryCall, listCall,
                  changeCall, fed, accepted, repeated>>
  BY DEF MatchRuns, ClientStays, ReadersStay
<1>4. HistoryTypeOK'
  BY <1>2, <1>3 DEF HistoryInv, HistoryTypeOK
<1>5. retryCall.at \in Nat /\ accepted \in Nat /\ MaxVersion \in Nat
  BY StatusesListed DEF HistoryInv, HistoryTypeOK
<1>6. KnownVersions'
  BY <1>2, <1>3, <1>5, StatusesListed DEF HistoryInv, HistoryTypeOK, KnownVersions
<1>7. RetrySound' /\ SuppressionSound'
  BY <1>2, <1>3, <1>5 DEF HistoryInv, KnownVersions, RetrySound, SuppressionSound
<1> QED
  BY <1>4, <1>6, <1>7 DEF HistoryInv

LEMMA ReplayKeeps ==
  ASSUME HistoryInv, ReplayRetry
  PROVE  HistoryInv'
<1>1. /\ retryCall.phase = "asked" /\ retryKey \in 1..MaxKeys /\ replay[retryKey] # "none"
      /\ UNCHANGED <<matchRow, replay, listed, suppressed, retryKey, keysUsed, listCall,
                     changeCall, fed, accepted>>
  BY StatusesListed DEF ReplayRetry, HistoryInv, HistoryTypeOK, RetrySound,
                        ServerStays, ClientStays, ReadersStay
<1>2. CASE /\ replay[retryKey] = "same" /\ retryCall' = Answered(retryCall, matchRow)
           /\ repeated' = IF matchRow.status = "failed" THEN matchRow.version ELSE repeated
  <2>1. /\ retryCall'.phase = "answered" /\ retryCall'.at = retryCall.at
        /\ retryCall'.answer = matchRow
    BY <1>2 DEF Answered, HistoryInv, HistoryTypeOK
  <2>2. HistoryTypeOK'
    <3>1. matchRow.version \in 1..MaxVersion
      BY StatusesListed DEF HistoryInv, HistoryTypeOK
    <3>2. repeated' \in 0..MaxVersion
      BY <1>2, <3>1 DEF HistoryInv, HistoryTypeOK
    <3>3. retryCall' \in [phase : {"none", "asked", "sent", "answered"}, at : 0..MaxVersion,
                          answer : Snapshot \cup {Unlisted, Successor}]
      BY <1>2 DEF Answered, HistoryInv, HistoryTypeOK
    <3> QED
      BY <1>1, <3>2, <3>3 DEF HistoryInv, HistoryTypeOK
  <2>3. KnownVersions'
    BY <1>1, <2>1, StatusesListed DEF HistoryInv, HistoryTypeOK, KnownVersions
  <2> QED
    BY <1>1, <1>2, <2>1, <2>2, <2>3 DEF HistoryInv, RetrySound, SuppressionSound
<1>3. CASE /\ replay[retryKey] = "successor" /\ retryCall' = Answered(retryCall, Successor)
           /\ UNCHANGED repeated
  <2>1. /\ retryCall'.phase = "answered" /\ retryCall'.at = retryCall.at
        /\ retryCall'.answer = Successor
    BY <1>3 DEF Answered, HistoryInv, HistoryTypeOK
  <2>2. HistoryTypeOK'
    <3>1. retryCall' \in [phase : {"none", "asked", "sent", "answered"}, at : 0..MaxVersion,
                          answer : Snapshot \cup {Unlisted, Successor}]
      BY <1>3 DEF Answered, HistoryInv, HistoryTypeOK
    <3> QED
      BY <1>1, <1>3, <3>1 DEF HistoryInv, HistoryTypeOK
  <2>3. matchRow.status = "superseded"
    BY <1>1, <1>3 DEF HistoryInv, RetrySound
  <2>4. KnownVersions'
    BY <1>1, <2>1, StatusesListed DEF HistoryInv, HistoryTypeOK, KnownVersions
  <2> QED
    BY <1>1, <1>3, <2>1, <2>2, <2>3, <2>4 DEF HistoryInv, RetrySound, SuppressionSound
<1> QED
  BY <1>2, <1>3 DEF ReplayRetry

(* A retry that is performed moves the Match beyond the failure.            *)
LEMMA RetriedKeeps ==
  ASSUME HistoryInv, NEW status \in {"running", "superseded"}, MayRetry, MovesTo(status),
         NEW call \in [phase : {"sent", "answered"}, at : {retryCall.at},
                       answer : Snapshot \cup {Unlisted, Successor}],
         retryCall' = call, call.answer \in {matchRow', Successor},
         replay' = [replay EXCEPT ![retryKey] =
                      IF status = "superseded" THEN "successor" ELSE "same"],
         UNCHANGED repeated, ClientStays, ReadersStay
  PROVE  HistoryInv'
<1>1. /\ matchRow' \in Snapshot /\ matchRow'.version = matchRow.version + 1
      /\ matchRow.version \in 1..MaxVersion /\ matchRow'.status = status
  BY StatusesListed, MovesToGives DEF HistoryInv
<1>2. /\ retryKey \in 1..MaxKeys /\ matchRow.status = "failed"
      /\ UNCHANGED <<listed, suppressed, retryKey, keysUsed, accepted, repeated, listCall,
                     changeCall, fed>>
  BY StatusesListed DEF MayRetry, HistoryInv, HistoryTypeOK, RetrySound,
                        ClientStays, ReadersStay
<1>3. /\ retryCall.at \in Nat /\ accepted \in Nat /\ MaxVersion \in Nat
      /\ retryCall.at <= matchRow.version /\ accepted <= matchRow.version
      /\ retryCall.at # 0 /\ retryCall.at \in 0..MaxVersion
  BY StatusesListed DEF HistoryInv, HistoryTypeOK, KnownVersions, RetrySound, MayRetry
<1>4. HistoryTypeOK'
  <2>1. replay' \in [1..MaxKeys -> {"none", "same", "successor"}]
    BY DEF HistoryInv, HistoryTypeOK
  <2>2. retryCall' \in [phase : {"none", "asked", "sent", "answered"}, at : 0..MaxVersion,
                        answer : Snapshot \cup {Unlisted, Successor}]
    BY <1>3
  <2> QED
    BY <1>1, <1>2, <2>1, <2>2 DEF HistoryInv, HistoryTypeOK
<1>5. KnownVersions'
  BY <1>1, <1>2, <1>3, StatusesListed DEF HistoryInv, HistoryTypeOK, KnownVersions
<1>6. \A k \in 1..MaxKeys : replay'[k] = "successor" => status = "superseded"
  <2>1. \A k \in 1..MaxKeys : replay[k] # "successor"
    BY <1>2 DEF HistoryInv, RetrySound
  <2> QED
    BY <1>2, <2>1 DEF HistoryInv, HistoryTypeOK
<1>7. RetrySound' /\ SuppressionSound'
  BY <1>1, <1>2, <1>3, <1>6 DEF HistoryInv, RetrySound, SuppressionSound
<1> QED
  BY <1>4, <1>5, <1>7 DEF HistoryInv

LEMMA PerformKeeps ==
  ASSUME HistoryInv, ResumeMatch \/ SupersedeMatch
  PROVE  HistoryInv'
<1>0. retryCall \in [phase : {"none", "asked", "sent", "answered"}, at : 0..MaxVersion,
                     answer : Snapshot \cup {Unlisted, Successor}]
  BY DEF HistoryInv, HistoryTypeOK
<1>1. CASE ResumeMatch
  <2>1. matchRow' \in Snapshot
    BY <1>1, StatusesListed, MovesToGives DEF ResumeMatch, HistoryInv
  <2>2. PICK call : call = [retryCall EXCEPT !.phase = "sent", !.answer = matchRow']
    OBVIOUS
  <2>3. /\ call \in [phase : {"sent", "answered"}, at : {retryCall.at},
                     answer : Snapshot \cup {Unlisted, Successor}]
        /\ call.answer = matchRow'
    BY <1>0, <2>1, <2>2
  <2>4. replay' = [replay EXCEPT ![retryKey] =
                     IF "running" = "superseded" THEN "successor" ELSE "same"]
    BY <1>1 DEF ResumeMatch
  <2> QED
    BY <1>1, <2>2, <2>3, <2>4, RetriedKeeps DEF ResumeMatch
<1>2. CASE SupersedeMatch
  <2>1. PICK call : call = Answered(retryCall, Successor)
    OBVIOUS
  <2>2. /\ call \in [phase : {"sent", "answered"}, at : {retryCall.at},
                     answer : Snapshot \cup {Unlisted, Successor}]
        /\ call.answer = Successor
    BY <1>0, <2>1 DEF Answered
  <2>3. replay' = [replay EXCEPT ![retryKey] =
                     IF "superseded" = "superseded" THEN "successor" ELSE "same"]
    BY <1>2 DEF SupersedeMatch
  <2> QED
    BY <1>2, <2>1, <2>2, <2>3, RetriedKeeps DEF SupersedeMatch
<1> QED
  BY <1>1, <1>2

(* The send after a retry, and its failure. *)
LEMMA SendsKeep ==
  ASSUME HistoryInv, Dispatch \/ DispatchFails
  PROVE  HistoryInv'
<1>1. /\ retryCall.phase = "sent" /\ matchRow.version > retryCall.at
      /\ UNCHANGED <<replay, listed, suppressed, retryKey, keysUsed, listCall, changeCall,
                     fed, accepted, repeated>>
  BY DEF Dispatch, DispatchFails, HistoryInv, RetrySound, ServerStays, ClientStays, ReadersStay
<1>2. /\ matchRow' \in Snapshot /\ matchRow'.version \in Nat /\ matchRow.version \in Nat
      /\ matchRow' = matchRow
         \/ (matchRow'.version = matchRow.version + 1 /\ matchRow.status # "superseded")
  <2>1. CASE UNCHANGED matchRow
    BY <2>1, StatusesListed DEF HistoryInv, HistoryTypeOK
  <2>2. CASE matchRow.status = "running" /\ MovesTo("failed")
    BY <2>2, StatusesListed, MovesToGives DEF HistoryInv
  <2> QED
    BY <2>1, <2>2 DEF Dispatch, DispatchFails, ServerStays
<1>3. /\ retryCall'.phase = "answered" /\ retryCall'.at = retryCall.at
      /\ retryCall'.answer \in {retryCall.answer, matchRow'}
      /\ retryCall' \in [phase : {"none", "asked", "sent", "answered"}, at : 0..MaxVersion,
                         answer : Snapshot \cup {Unlisted, Successor}]
  BY <1>2 DEF Dispatch, DispatchFails, Answered, HistoryInv, HistoryTypeOK
<1>4. HistoryTypeOK'
  BY <1>1, <1>2, <1>3 DEF HistoryInv, HistoryTypeOK
<1>5. KnownVersions'
  <2>1. /\ retryCall.at \in Nat /\ accepted \in Nat /\ listed.version \in Nat
        /\ retryCall.answer.version \in Nat /\ listCall.answer.version \in Nat
        /\ changeCall.answer.version \in Nat
    BY StatusesListed DEF HistoryInv, HistoryTypeOK
  <2> QED
    BY <1>1, <1>2, <1>3, <2>1 DEF HistoryInv, KnownVersions
<1>6. RetrySound' /\ SuppressionSound'
  <2>1. /\ retryCall.at \in Nat /\ accepted \in Nat /\ accepted <= matchRow.version
    BY StatusesListed DEF HistoryInv, HistoryTypeOK, KnownVersions
  <2> QED
    BY <1>1, <1>2, <1>3, <2>1 DEF HistoryInv, RetrySound, SuppressionSound
<1> QED
  BY <1>4, <1>5, <1>6 DEF HistoryInv

LEMMA RetryKeeps ==
  ASSUME HistoryInv, Retry
  PROVE  HistoryInv'
<1>1. /\ listed.status = "failed"
      /\ retryCall' = [NoRetry EXCEPT !.phase = "asked", !.at = listed.version]
      /\ UNCHANGED <<listed, suppressed, accepted, repeated, matchRow, replay, listCall,
                     changeCall, fed>>
  BY DEF Retry, CanRetry, ServerStays, ReadersStay
<1>2. listed \in Snapshot /\ listed.version \in 1..MaxVersion
  BY <1>1, StatusesListed DEF HistoryInv, HistoryTypeOK, Unlisted
<1>3. /\ retryCall'.phase = "asked" /\ retryCall'.at = listed.version
      /\ retryCall'.answer = Unlisted
      /\ retryCall' \in [phase : {"none", "asked", "sent", "answered"}, at : 0..MaxVersion,
                         answer : Snapshot \cup {Unlisted, Successor}]
  <2>1. listed.version \in 0..MaxVersion
    BY <1>2, StatusesListed
  <2> QED
    BY <1>1, <2>1 DEF NoRetry
<1>4. retryKey' \in 0..keysUsed' /\ keysUsed' \in 0..MaxKeys /\ retryKey' # 0
  BY StatusesListed DEF Retry, HistoryInv, HistoryTypeOK
<1>5. HistoryTypeOK'
  BY <1>1, <1>3, <1>4 DEF HistoryInv, HistoryTypeOK
<1>6. matchRow.version \in 1..MaxVersion
  BY StatusesListed DEF HistoryInv, HistoryTypeOK
<1> QED
  BY <1>1, <1>2, <1>3, <1>4, <1>5, <1>6, StatusesListed
     DEF HistoryInv, KnownVersions, RetrySound, SuppressionSound

LEMMA RetryArrivesKeeps ==
  ASSUME HistoryInv, RetryArrives
  PROVE  HistoryInv'
<1>1. /\ retryCall.phase = "answered" /\ retryCall' = NoRetry /\ retryKey' = 0
      /\ suppressed' = retryCall.at /\ accepted' = retryCall.at
      /\ UNCHANGED <<keysUsed, repeated, matchRow, replay, listCall, changeCall, fed>>
  BY DEF RetryArrives, ServerStays, ReadersStay
<1>2. listed' \in {listed, retryCall.answer} /\ listed' # Successor
  BY StatusesListed DEF RetryArrives, Upserted, HistoryInv, HistoryTypeOK, Snapshot, Unlisted,
                        Successor, Statuses
<1>3. /\ retryCall'.phase = "none" /\ retryCall'.at = 0 /\ retryCall'.answer = Unlisted
      /\ retryCall' \in [phase : {"none", "asked", "sent", "answered"}, at : 0..MaxVersion,
                         answer : Snapshot \cup {Unlisted, Successor}]
  BY <1>1, StatusesListed DEF NoRetry
<1>4. keysUsed \in 0..MaxKeys /\ MaxKeys \in Nat /\ retryCall.at \in 0..MaxVersion
  BY StatusesListed DEF HistoryInv, HistoryTypeOK
<1>5. HistoryTypeOK'
  BY <1>1, <1>2, <1>3, <1>4 DEF HistoryInv, HistoryTypeOK
<1>6. KnownVersions'
  BY <1>1, <1>2, <1>3, StatusesListed DEF HistoryInv, HistoryTypeOK, KnownVersions
<1>7. RetrySound' /\ SuppressionSound'
  BY <1>1, <1>2, <1>3, <1>4 DEF HistoryInv, KnownVersions, RetrySound, SuppressionSound
<1> QED
  BY <1>5, <1>6, <1>7 DEF HistoryInv

LEMMA RetryFailsKeeps ==
  ASSUME HistoryInv, RetryFails
  PROVE  HistoryInv'
<1>1. /\ retryCall' = NoRetry
      /\ UNCHANGED <<matchRow, replay, listed, suppressed, retryKey, keysUsed, listCall,
                     changeCall, fed, accepted, repeated>>
  BY DEF RetryFails, ServerStays, ClientStays, ReadersStay
<1>2. /\ retryCall'.phase = "none" /\ retryCall'.at = 0 /\ retryCall'.answer = Unlisted
      /\ retryCall' \in [phase : {"none", "asked", "sent", "answered"}, at : 0..MaxVersion,
                         answer : Snapshot \cup {Unlisted, Successor}]
  BY <1>1, StatusesListed DEF NoRetry
<1>3. matchRow.version \in 1..MaxVersion
  BY StatusesListed DEF HistoryInv, HistoryTypeOK
<1> QED
  BY <1>1, <1>2, <1>3, StatusesListed
     DEF HistoryInv, HistoryTypeOK, KnownVersions, RetrySound, SuppressionSound

(* The readers: whatever they have of the Match is taken unless something   *)
(* later is listed.                                                         *)
LEMMA ReadersKeep ==
  ASSUME HistoryInv, CallStep,
         listCall' \in [phase : {"none", "asked", "read"}, answer : Snapshot \cup {Unlisted}],
         changeCall' \in [phase : {"none", "told", "asked", "read"},
                          answer : Snapshot \cup {Unlisted}],
         fed' \in 0..MaxVersion,
         listCall'.answer.version <= matchRow.version,
         changeCall'.answer.version <= matchRow.version,
         HistoryStays \/ \E s \in Snapshot \cup {Unlisted} :
                           s.version <= matchRow.version /\ Take(s)
  PROVE  HistoryInv'
<1>1. UNCHANGED <<retryKey, keysUsed, retryCall, accepted, repeated, matchRow, replay>>
  BY DEF CallStep, ServerStays
<1>2. /\ listed.version \in Nat /\ accepted \in Nat /\ suppressed \in Nat
      /\ listed.version <= matchRow.version
  BY StatusesListed DEF HistoryInv, HistoryTypeOK, KnownVersions
<1>3. /\ listed' \in Snapshot \cup {Unlisted} /\ suppressed' \in 0..MaxVersion
      /\ listed'.version <= matchRow.version /\ suppressed' \in {0, accepted}
      /\ suppressed' = 0 => listed'.version > accepted \/ accepted = 0
  <2>1. CASE HistoryStays
    BY <2>1 DEF HistoryStays, HistoryInv, HistoryTypeOK, KnownVersions, SuppressionSound
  <2>2. ASSUME NEW s \in Snapshot \cup {Unlisted}, s.version <= matchRow.version, Take(s)
        PROVE  /\ listed' \in Snapshot \cup {Unlisted} /\ suppressed' \in 0..MaxVersion
               /\ listed'.version <= matchRow.version /\ suppressed' \in {0, accepted}
               /\ suppressed' = 0 => listed'.version > accepted \/ accepted = 0
    <3>1. s.version \in Nat
      BY StatusesListed
    <3>2. CASE listed.version > s.version
      BY <2>2, <3>2 DEF Take, HistoryInv, HistoryTypeOK, KnownVersions, SuppressionSound
    <3>3. CASE ~(listed.version > s.version)
      BY <1>2, <2>2, <3>1, <3>3, StatusesListed
         DEF Take, Lifted, HistoryInv, HistoryTypeOK, SuppressionSound
    <3> QED
      BY <3>2, <3>3
  <2> QED
    BY <2>1, <2>2
<1>4. HistoryTypeOK'
  BY <1>1, <1>3 DEF HistoryInv, HistoryTypeOK
<1> QED
  BY <1>1, <1>3, <1>4 DEF HistoryInv, KnownVersions, RetrySound, SuppressionSound

LEMMA CallsAreCalls ==
  ASSUME HistoryInv
  PROVE  /\ NoCall \in [phase : {"none", "asked", "read"}, answer : Snapshot \cup {Unlisted}]
         /\ NoCall \in [phase : {"none", "told", "asked", "read"}, answer : Snapshot \cup {Unlisted}]
         /\ NoCall.answer = Unlisted /\ matchRow \in Snapshot /\ matchRow.version \in 1..MaxVersion
         /\ 0 <= matchRow.version /\ fed \in 0..MaxVersion
         /\ listCall \in [phase : {"none", "asked", "read"}, answer : Snapshot \cup {Unlisted}]
         /\ changeCall \in [phase : {"none", "told", "asked", "read"},
                            answer : Snapshot \cup {Unlisted}]
         /\ listCall.answer.version <= matchRow.version
         /\ changeCall.answer.version <= matchRow.version
BY StatusesListed DEF NoCall, HistoryInv, HistoryTypeOK, KnownVersions

LEMMA ListsKeep ==
  ASSUME HistoryInv, LoadHistory \/ ListMatches
  PROVE  HistoryInv'
<1>1. UNCHANGED <<changeCall, fed>> /\ CallStep
  BY DEF LoadHistory, ListMatches
<1>2. /\ listCall' \in [phase : {"none", "asked", "read"}, answer : Snapshot \cup {Unlisted}]
      /\ listCall'.answer.version <= matchRow.version
  BY CallsAreCalls, StatusesListed DEF LoadHistory, ListMatches, NoCall
<1>3. HistoryStays \/ Take(listCall.answer)
  BY DEF LoadHistory, ListMatches
<1> QED
  BY <1>1, <1>2, <1>3, CallsAreCalls, ReadersKeep

LEMMA ChangesKeep ==
  ASSUME HistoryInv, ChangeTold \/ Consume \/ ConsumeDetail \/ GetMatch
  PROVE  HistoryInv'
<1>1. UNCHANGED listCall /\ CallStep
  BY DEF ChangeTold, Consume, ConsumeDetail, GetMatch
<1>2. fed' \in 0..MaxVersion
  BY CallsAreCalls DEF ChangeTold, Consume, ConsumeDetail, GetMatch
<1>3. /\ changeCall' \in [phase : {"none", "told", "asked", "read"},
                          answer : Snapshot \cup {Unlisted}]
      /\ changeCall'.answer.version <= matchRow.version
  BY CallsAreCalls, StatusesListed DEF ChangeTold, Consume, ConsumeDetail, GetMatch
<1>4. HistoryStays \/ Take(changeCall.answer)
  BY DEF ChangeTold, Consume, ConsumeDetail, GetMatch
<1> QED
  BY <1>1, <1>2, <1>3, <1>4, CallsAreCalls, ReadersKeep

LEMMA HistoryNextKeeps == HistoryInv /\ [HistoryNext]_historyVars => HistoryInv'
<1> SUFFICES ASSUME HistoryInv, [HistoryNext]_historyVars PROVE HistoryInv'
  OBVIOUS
<1>1. CASE UNCHANGED historyVars
  BY <1>1 DEF historyVars, HistoryInv, HistoryTypeOK, KnownVersions, RetrySound, SuppressionSound
<1>2. CASE HistoryNext
  BY <1>2, RunsKeeps, ReplayKeeps, PerformKeeps, SendsKeep, RetryKeeps, RetryArrivesKeeps,
     RetryFailsKeeps, ListsKeep, ChangesKeep DEF HistoryNext
<1> QED
  BY <1>1, <1>2

LEMMA HistoryBegins == HistoryInit => HistoryInv
<1> SUFFICES ASSUME HistoryInit PROVE HistoryInv
  OBVIOUS
<1>1. /\ matchRow \in Snapshot /\ matchRow.version = 1
      /\ NoRetry.phase = "none" /\ NoRetry.at = 0 /\ NoRetry.answer = Unlisted
      /\ NoCall.phase = "none" /\ NoCall.answer = Unlisted
  BY StatusesListed, HistoryAssumption DEF HistoryInit, NoRetry, NoCall
<1>2. HistoryTypeOK
  BY <1>1, StatusesListed, HistoryAssumption DEF HistoryInit, HistoryTypeOK, NoRetry, NoCall
<1> QED
  BY <1>1, <1>2, StatusesListed
     DEF HistoryInit, HistoryInv, KnownVersions, RetrySound, SuppressionSound

(* Retries, lists and changes of the feed keep the history's invariant.     *)
THEOREM HistoryKeeps == HistorySpec => []HistoryInv
BY HistoryBegins, HistoryNextKeeps, PTL DEF HistorySpec

(* A failure is offered for a retry once, and not kept from it either,      *)
(* however lists, changes and the retry's answer overtook each other.       *)
THEOREM FailuresAreOfferedOnce == HistorySpec => []OfferedOnce
<1>1. HistoryInv => OfferedOnce
  <2> SUFFICES ASSUME HistoryInv PROVE OfferedOnce
    OBVIOUS
  <2>1. /\ accepted \in Nat /\ suppressed \in {0, accepted} /\ matchRow.version \in Nat
        /\ listed.status = "failed" => listed.version \in 1..MaxVersion
    BY StatusesListed DEF HistoryInv, HistoryTypeOK, SuppressionSound, Unlisted
  <2>2. CanRetry => listed.version > accepted
    BY <2>1 DEF CanRetry, HistoryInv, SuppressionSound
  <2>3. /\ matchRow.status = "failed" /\ listed = matchRow /\ retryCall = NoRetry
        => CanRetry \/ matchRow.version > suppressed \/ matchRow.version = repeated
    BY <2>1 DEF CanRetry, HistoryInv, SuppressionSound, NoRetry
  <2> QED
    BY <2>2, <2>3 DEF OfferedOnce
<1> QED
  BY <1>1, HistoryKeeps, PTL

-----------------------------------------------------------------------------
(* The editor.  Text that was typed differs from the list, which the load   *)
(* under way knows or which it finds changed when it arrives; and what is   *)
(* typed while an action is under way is what that action saves.            *)

EditorTypes ==
  /\ rows \in Table /\ list \in Table
  /\ selected \in Templates \cup {NoId} /\ draft \in Draft \cup {NoDraft}
  /\ loading \in Load /\ action \in Action

(* Text that was typed differs from the list; a load that no action has     *)
(* overtaken knows whether the draft did when it began; and what is typed   *)
(* while an action is under way is what that action saves.                  *)
TypedSound ==
  /\ typed => Dirty(list, selected, draft)
  /\ loading.phase # "none" /\ ~stale =>
       (loading.dirty <=> Dirty(list, loading.selected, loading.draft))
  /\ Busy /\ typed => action.kind = "save" /\ draft.name = action.draft.name
  /\ action.kind = "save" => action.draft.name \in Names
  /\ action.phase = "answered" =>
       /\ action.id \in Templates
       /\ action.kind = "save" => action.row.name = action.draft.name

EditorInv == EditorTypes /\ TypedSound

DraftStep ==
  typed => \/ draft' = draft
           \/ \E name \in Names : Type(name)
           \/ DiscardDraft
           \/ action.kind = "save" /\ draft'.name = draft.name

LEMMA EditorShapes ==
  /\ Absent \in [name : Names \cup {Empty}, default : BOOLEAN]
  /\ NoTable \in Table /\ NoLoad \in Load /\ NoLoad.phase = "none"
  /\ NoAction \in Action /\ NoAction.kind = "none" /\ NoAction.phase = "asked"
  /\ \A table \in Table, t \in Templates : DraftOf(table, t) \in Draft
BY DEF Absent, NoTable, Table, NoLoad, Load, NoAction, Action, DraftOf, Draft, Template

LEMMA DirtyIsBoolean == \A table, sel, d : Dirty(table, sel, d) \in BOOLEAN
BY DEF Dirty

(* What the editor falls back to is a draft of the list, or none.           *)
LEMMA FallbackShapes ==
  ASSUME NEW table \in Table, Fallback(table)
  PROVE  list' = table /\ selected' \in Templates \cup {NoId} /\ draft' \in Draft \cup {NoDraft}
<1>1. In(table) \subseteq Templates /\ Defaults(table) \subseteq Templates
  BY DEF In, Defaults
<1> QED
  BY <1>1, EditorShapes DEF Fallback, Shows

(* What the API does leaves a table of templates. *)
LEMMA TableChanges ==
  ASSUME rows \in Table, NEW t \in Templates
  PROVE  /\ \A name \in Names : Create(t, name) => rows' \in Table /\ rows'[t].name = name
         /\ \A name \in Names : Rename(t, name) => rows' \in Table /\ rows'[t].name = name
         /\ \A copy \in Templates : Duplicate(t, copy) => rows' \in Table
         /\ SetDefault(t) => rows' \in Table
         /\ Delete(t) => rows' \in Table
<1>1. ASSUME NEW name \in Names, Create(t, name) PROVE rows' \in Table /\ rows'[t].name = name
  <2>1. [name |-> name, default |-> In(rows) = {}] \in Template
    BY DEF Template
  <2> QED
    BY <1>1, <2>1 DEF Create, Table
<1>2. ASSUME NEW name \in Names, Rename(t, name) PROVE rows' \in Table /\ rows'[t].name = name
  <2>1. rows[t] \in Template
    BY <1>2 DEF Rename, In, Table
  <2>2. [rows[t] EXCEPT !.name = name] \in Template /\ [rows[t] EXCEPT !.name = name].name = name
    BY <2>1 DEF Template
  <2>3. rows' = [rows EXCEPT ![t] = [rows[t] EXCEPT !.name = name]]
    BY <1>2 DEF Rename
  <2> QED
    BY <2>2, <2>3 DEF Table
<1>3. ASSUME NEW copy \in Templates, Duplicate(t, copy) PROVE rows' \in Table
  <2>1. \A name \in Names : [name |-> name, default |-> FALSE] \in Template
    BY DEF Template
  <2> QED
    BY <1>3, <2>1 DEF Duplicate, Table
<1>4. ASSUME SetDefault(t) PROVE rows' \in Table
  <2>1. \A u \in In(rows) : [rows[u] EXCEPT !.default = (u = t)] \in Template
    <3>1. \A u \in In(rows) : rows[u] \in Template
      BY DEF In, Table
    <3> QED
      BY <3>1 DEF Template
  <2> QED
    BY <1>4, <2>1 DEF SetDefault, Table
<1>5. ASSUME Delete(t) PROVE rows' \in Table
  BY <1>5 DEF Delete, Table
<1> QED
  BY <1>1, <1>2, <1>3, <1>4, <1>5

LEMMA OthersSound ==
  ASSUME EditorInv, ByOthers
  PROVE  EditorInv' /\ DraftStep
<1>1. rows' \in Table
  BY TableChanges DEF ByOthers, EditorInv, EditorTypes
<1> QED
  BY <1>1 DEF ByOthers, EditorInv, EditorTypes, TypedSound, DraftStep, Busy, Dirty, In, DraftOf

-----------------------------------------------------------------------------
(* The list *)

LEMMA LoadsSound ==
  ASSUME EditorInv, AskList \/ ReadList \/ LoseList
  PROVE  EditorInv' /\ DraftStep
<1>1. UNCHANGED <<rows, list, selected, draft, action, typed>>
  BY DEF AskList, ReadList, LoseList
<1>2. CASE AskList
  <2>1. PICK edited \in BOOLEAN : edited = Dirty(list, selected, draft)
    BY DirtyIsBoolean
  <2>2. loading' = [phase |-> "asked", draft |-> draft, selected |-> selected,
                    dirty |-> edited, answer |-> NoTable]
    BY <1>2, <2>1 DEF AskList
  <2>3. loading' \in Load /\ loading'.draft = draft /\ loading'.selected = selected
        /\ loading'.dirty = Dirty(list, selected, draft)
    BY <2>1, <2>2, EditorShapes DEF EditorInv, EditorTypes, Load
  <2> QED
    BY <1>1, <2>3 DEF EditorInv, EditorTypes, TypedSound, DraftStep, Busy, Dirty, In, DraftOf
<1>3. CASE ReadList
  <2>1. /\ loading.phase = "asked" /\ loading' \in Load /\ loading'.draft = loading.draft
        /\ loading'.selected = loading.selected /\ loading'.dirty = loading.dirty
        /\ stale' = stale
    BY <1>3 DEF ReadList, EditorInv, EditorTypes, Load
  <2> QED
    BY <1>1, <2>1 DEF EditorInv, EditorTypes, TypedSound, DraftStep, Busy, Dirty, In, DraftOf
<1>4. CASE LoseList
  <2>1. loading' \in Load /\ loading'.phase = "none"
    BY <1>4, EditorShapes DEF LoseList
  <2> QED
    BY <1>1, <2>1 DEF EditorInv, EditorTypes, TypedSound, DraftStep, Busy, Dirty, In, DraftOf
<1> QED
  BY <1>2, <1>3, <1>4

(* A list that replaces the draft finds it as it was when the load began,   *)
(* and then nothing had been typed.                                         *)
LEMMA ReceiveListSound ==
  ASSUME EditorInv, ReceiveList
  PROVE  EditorInv' /\ DraftStep
<1>1. /\ loading.phase = "read" /\ loading' = NoLoad /\ UNCHANGED <<rows, action, stale>>
      /\ loading.answer \in Table /\ loading \in Load
  BY DEF ReceiveList, EditorInv, EditorTypes, Load
<1>2. typed => stale \/ Preserve
  BY <1>1 DEF EditorInv, TypedSound, Preserve, Dirty, In, DraftOf
<1>3. CASE stale \/ Preserve
  <2>1. /\ UNCHANGED <<selected, draft>> /\ list' \in {list, loading.answer}
    BY <1>3 DEF ReceiveList, Shows
  <2>2. typed' => typed /\ Dirty(list', selected', draft')
    BY DEF ReceiveList
  <2>3. EditorTypes'
    BY <1>1, <2>1, EditorShapes DEF EditorInv, EditorTypes
  <2>4. TypedSound'
    BY <1>1, <2>1, <2>2, EditorShapes DEF EditorInv, TypedSound, Busy
  <2> QED
    BY <2>1, <2>3, <2>4 DEF EditorInv, DraftStep
<1>4. CASE ~stale /\ ~Preserve
  <2>1. Fallback(loading.answer) /\ ~typed /\ ~typed'
    BY <1>2, <1>4 DEF ReceiveList
  <2>2. /\ list' = loading.answer /\ selected' \in Templates \cup {NoId}
        /\ draft' \in Draft \cup {NoDraft}
    <3>1. PICK table \in Table : table = loading.answer
      BY <1>1
    <3>2. Fallback(table)
      BY <2>1, <3>1
    <3> QED
      BY <3>1, <3>2, FallbackShapes
  <2>3. EditorTypes'
    BY <1>1, <2>2, EditorShapes DEF EditorInv, EditorTypes
  <2>4. TypedSound'
    BY <1>1, <2>1, EditorShapes DEF EditorInv, TypedSound, Busy
  <2> QED
    BY <2>1, <2>3, <2>4 DEF EditorInv, DraftStep
<1> QED
  BY <1>3, <1>4

-----------------------------------------------------------------------------
(* The user *)

LEMMA ShowsSound ==
  ASSUME EditorInv, EditorWaits, ~Busy, NEW sel \in Templates \cup {NoId},
         NEW d \in Draft \cup {NoDraft}, Shows(list, sel, d),
         typed' => Dirty(list, sel, d)
  PROVE  EditorInv'
<1>1. EditorTypes'
  BY DEF EditorInv, EditorTypes, EditorWaits, Shows
<1>2. list' = list /\ action' = action /\ loading' = loading /\ stale' = stale
      /\ selected' = sel /\ draft' = d
  BY DEF EditorWaits, Shows
<1>3. TypedSound'
  BY <1>2 DEF EditorInv, TypedSound, Busy, Dirty, In, DraftOf
<1> QED
  BY <1>1, <1>3 DEF EditorInv

LEMMA UserSound ==
  ASSUME EditorInv,
         \/ \E t \in Templates : Select(t)
         \/ \E name \in Names : Type(name)
         \/ BeginCreating \/ DiscardDraft
  PROVE  EditorInv' /\ DraftStep
<1>1. ASSUME NEW t \in Templates, Select(t) PROVE EditorInv' /\ DraftStep
  <2>1. PICK d \in Draft \cup {NoDraft} : d = DraftOf(list, t)
    BY EditorShapes DEF EditorInv, EditorTypes
  <2>2. EditorInv'
    BY <1>1, <2>1, ShowsSound DEF Select
  <2>3. ~typed
    BY <1>1 DEF Select, EditorInv, TypedSound
  <2> QED
    BY <2>2, <2>3 DEF DraftStep
<1>2. CASE BeginCreating
  <2>1. PICK d \in Draft \cup {NoDraft} : d = [id |-> NoId, name |-> Empty]
    BY DEF Draft
  <2>2. EditorInv'
    BY <1>2, <2>1, ShowsSound DEF BeginCreating
  <2>3. ~typed
    BY <1>2 DEF BeginCreating, EditorInv, TypedSound
  <2> QED
    BY <2>2, <2>3 DEF DraftStep
<1>3. ASSUME NEW name \in Names, Type(name) PROVE EditorInv' /\ DraftStep
  <2>1. PICK d \in Draft \cup {NoDraft} : d = [draft EXCEPT !.name = name]
    BY <1>3 DEF Type, EditorInv, EditorTypes, Draft
  <2>2. draft' = d /\ selected \in Templates \cup {NoId}
    BY <1>3, <2>1 DEF Type, Shows, EditorInv, EditorTypes
  <2>3. typed' => Dirty(list, selected, d)
    BY <1>3, <2>2 DEF Type
  <2>4. EditorInv'
    BY <1>3, <2>1, <2>2, <2>3, ShowsSound DEF Type
  <2> QED
    BY <1>3, <2>4 DEF DraftStep
<1>4. CASE DiscardDraft
  <2>1. ~Busy /\ EditorWaits /\ ~typed'
    BY <1>4 DEF DiscardDraft
  <2>2. list \in Table
    BY DEF EditorInv, EditorTypes
  <2>3. PICK sel \in Templates \cup {NoId}, d \in Draft \cup {NoDraft} : Shows(list, sel, d)
    <3>1. CASE selected \in In(list)
      <4>1. selected \in Templates /\ DraftOf(list, selected) \in Draft
        BY <2>2, <3>1, EditorShapes DEF In
      <4> QED
        BY <1>4, <3>1, <4>1 DEF DiscardDraft
    <3>2. CASE selected \notin In(list)
      <4>1. PICK table \in Table : table = list
        BY <2>2
      <4>2. Fallback(table)
        BY <1>4, <3>2, <4>1 DEF DiscardDraft
      <4> QED
        BY <4>1, <4>2, FallbackShapes DEF Shows
    <3> QED
      BY <3>1, <3>2
  <2>4. EditorInv'
    BY <2>1, <2>3, ShowsSound
  <2> QED
    BY <1>4, <2>4 DEF DraftStep
<1> QED
  BY <1>1, <1>2, <1>3, <1>4

LEMMA AskActionSound ==
  ASSUME EditorInv, Save \/ \E kind \in {"duplicate", "default", "delete"} : Act(kind)
  PROVE  EditorInv' /\ DraftStep
<1>1. UNCHANGED <<rows, list, selected, draft, loading, stale, typed>>
  BY DEF Save, Act, AskAction
<1>2. /\ action' \in Action /\ action'.phase = "asked"
      /\ typed => action'.kind = "save" /\ action'.draft = draft
      /\ action'.kind = "save" => action'.draft.name \in Names
  <2>1. CASE Save
    <3>1. draft \in Draft /\ draft.name \in Names
      BY <2>1 DEF Save, EditorInv, EditorTypes, Draft
    <3>2. action' = [NoAction EXCEPT !.kind = "save", !.id = draft.id, !.draft = draft]
      BY <2>1 DEF Save, AskAction
    <3> QED
      BY <3>1, <3>2, EditorShapes DEF Action, Draft
  <2>2. ASSUME NEW kind \in {"duplicate", "default", "delete"}, Act(kind)
        PROVE  action' \in Action /\ action'.phase = "asked" /\ ~typed /\ action'.kind # "save"
    <3>1. action' = [NoAction EXCEPT !.kind = kind, !.id = selected, !.draft = NoDraft]
      BY <2>2 DEF Act, AskAction
    <3>2. ~typed /\ selected \in Templates \cup {NoId}
      BY <2>2 DEF Act, EditorInv, EditorTypes, TypedSound
    <3> QED
      BY <3>1, <3>2, EditorShapes DEF Action
  <2> QED
    BY <2>1, <2>2
<1> QED
  BY <1>1, <1>2 DEF EditorInv, EditorTypes, TypedSound, DraftStep, Busy, Dirty, In, DraftOf

-----------------------------------------------------------------------------
(* The action: what was typed is what it saves, before and after. *)

LEMMA PerformSound ==
  ASSUME EditorInv, PerformAction
  PROVE  EditorInv' /\ DraftStep
<1>1. /\ UNCHANGED <<list, selected, draft, loading, stale, typed>>
      /\ action \in Action /\ rows \in Table
  BY DEF PerformAction, EditorInv, EditorTypes
<1>2. PICK t \in Templates :
        /\ \/ action.kind = "save" /\ Create(t, action.draft.name)
           \/ action.kind = "save" /\ Rename(t, action.draft.name)
           \/ action.kind # "save" /\ (Duplicate(action.id, t) \/ SetDefault(t) \/ Delete(t))
        /\ action.kind = "duplicate" => Duplicate(action.id, t)
        /\ action.kind \in {"default", "delete"} => SetDefault(t) \/ Delete(t)
        /\ action.kind # "none"
        /\ action' = [action EXCEPT !.phase = "answered", !.id = t, !.row = rows'[t]]
  BY DEF PerformAction
<1>3. rows' \in Table /\ (action.kind = "save" => rows'[t].name = action.draft.name)
  <2>1. CASE action.kind = "save"
    <3>1. PICK name \in Names : name = action.draft.name
      BY <2>1 DEF EditorInv, TypedSound
    <3>2. Create(t, name) \/ Rename(t, name)
      BY <1>2, <2>1, <3>1
    <3> QED
      BY <1>1, <3>1, <3>2, TableChanges
  <2>2. CASE action.kind = "duplicate"
    <3>1. PICK u \in Templates : u = action.id /\ Duplicate(u, t)
      BY <1>2, <2>2 DEF Duplicate, In
    <3> QED
      BY <1>1, <2>2, <3>1, TableChanges
  <2>3. CASE action.kind \in {"default", "delete"}
    BY <1>1, <1>2, <2>3, TableChanges
  <2> QED
    BY <1>1, <1>2, <2>1, <2>2, <2>3 DEF Action
<1>4. /\ action' \in Action /\ action'.kind = action.kind /\ action'.draft = action.draft
      /\ action'.id = t /\ action'.row = rows'[t]
  BY <1>1, <1>2, <1>3 DEF Action, Table
<1>5. EditorTypes' /\ DraftStep
  BY <1>1, <1>3, <1>4 DEF EditorInv, EditorTypes, DraftStep
<1>6. TypedSound'
  BY <1>1, <1>3, <1>4 DEF EditorInv, TypedSound, Busy, Dirty, In, DraftOf
<1> QED
  BY <1>5, <1>6 DEF EditorInv

LEMMA LoseSound ==
  ASSUME EditorInv, LoseAction
  PROVE  EditorInv' /\ DraftStep
BY EditorShapes
   DEF LoseAction, EditorInv, EditorTypes, TypedSound, DraftStep, Busy, Dirty, In, DraftOf

LEMMA ReceiveActionSound ==
  ASSUME EditorInv, ReceiveAction
  PROVE  EditorInv' /\ DraftStep
<1>1. /\ action \in Action /\ list \in Table /\ action.id \in Templates
      /\ typed => action.kind = "save" /\ draft.name = action.row.name
      /\ action' = NoAction /\ UNCHANGED <<rows, loading>> /\ stale' = TRUE /\ typed' = FALSE
      /\ action.row \in Template \cup {Absent}
  BY DEF ReceiveAction, EditorInv, EditorTypes, TypedSound, Busy, Action
<1>2. /\ list' \in Table /\ selected' \in Templates \cup {NoId} /\ draft' \in Draft \cup {NoDraft}
      /\ typed => draft'.name = draft.name
  <2>1. CASE action.kind = "delete"
    <3>1. PICK kept \in Table : kept = [list EXCEPT ![action.id] = Absent]
      BY <1>1 DEF Table
    <3>2. Fallback(kept)
      BY <2>1, <3>1 DEF ReceiveAction
    <3> QED
      BY <1>1, <2>1, <3>1, <3>2, FallbackShapes
  <2>2. CASE action.kind # "delete"
    <3>1. PICK default \in BOOLEAN : default = (action.kind = "default" \/ action.row.default)
      OBVIOUS
    <3> DEFINE table == Upsert(list, action.id, action.row, default)
    <3>2. list' = table /\ selected' = action.id /\ draft' = DraftOf(table, action.id)
      BY <2>2, <3>1 DEF ReceiveAction, Shows
    <3>3. table \in Table
      <4>1. \A u \in In(list) : [list[u] EXCEPT !.default = FALSE] \in Template
        BY <1>1 DEF Table, In, Template, Absent
      <4> QED
        BY <1>1, <4>1 DEF Upsert, Table
    <3>4. table[action.id] = action.row
      BY <1>1 DEF Upsert
    <3>5. DraftOf(table, action.id) \in Draft /\ DraftOf(table, action.id).name = action.row.name
      BY <1>1, <3>3, <3>4, EditorShapes DEF DraftOf
    <3> QED
      BY <1>1, <3>2, <3>3, <3>5
  <2> QED
    BY <2>1, <2>2
<1>3. EditorTypes' /\ TypedSound'
  BY <1>1, <1>2, EditorShapes DEF EditorInv, EditorTypes, TypedSound, Busy
<1> QED
  BY <1>1, <1>2, <1>3 DEF EditorInv, DraftStep

-----------------------------------------------------------------------------
LEMMA EditorBegins == EditorInit => EditorInv
BY EditorShapes DEF EditorInit, EditorInv, EditorTypes, TypedSound, Busy

LEMMA EditorStep == EditorInv /\ [EditorNext]_editorVars => EditorInv' /\ [DraftStep]_editorVars
<1> SUFFICES ASSUME EditorInv, [EditorNext]_editorVars
             PROVE  EditorInv' /\ [DraftStep]_editorVars
  OBVIOUS
<1>1. CASE EditorNext
  BY <1>1, OthersSound, LoadsSound, ReceiveListSound, UserSound, AskActionSound,
     PerformSound, LoseSound, ReceiveActionSound DEF EditorNext
<1>2. CASE UNCHANGED editorVars
  BY <1>2 DEF editorVars, EditorInv, EditorTypes, TypedSound, Busy, Dirty, In, DraftOf
<1> QED
  BY <1>1, <1>2

(* What the user has typed is neither replaced by an answer that comes late *)
(* nor lost, for any number of templates, names and other clients           *)
(* (OutreachManagementModel.swift: loadTemplates, saveTemplate).        *)
THEOREM TypedTextSurvives == EditorSpec => DraftSurvives
<1>1. EditorSpec => []EditorInv
  BY EditorBegins, EditorStep, PTL DEF EditorSpec
<1>2. EditorSpec => [][DraftStep]_editorVars
  BY <1>1, EditorStep, PTL DEF EditorSpec
<1> QED
  BY <1>2 DEF DraftSurvives, DraftStep

=============================================================================
