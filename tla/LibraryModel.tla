---------------------------- MODULE LibraryModel ----------------------------
(***************************************************************************)
(* The macOS client's library of profiles of one type, in front of the API: *)
(* searches (debounced), the collection filter, first and next pages,       *)
(* favorites that are shown before they are stored, reloads after analyses, *)
(* and the change of the selected type.  The two types have a state each    *)
(* and differ in nothing.                                                   *)
(*                                                                          *)
(* A profile is a number, its place in the order of the list; a query is    *)
(* the set of profiles it finds.  The generations that a call compares when *)
(* it is answered are abstracted away: a load whose generation has passed   *)
(* would change nothing, and is dropped at once.  Left out are other clients *)
(* and the button of the open profile's page, which stores a favorite       *)
(* without an overlay and then reloads the list.  A favorite's request that *)
(* fails has been performed or never will be.                               *)
(***************************************************************************)
EXTENDS Integers, FiniteSets

CONSTANTS
  NProfiles,    \* profiles of the type
  Queries,      \* what a search may find: sets of profiles
  PageSize,     \* profiles of a page
  MaxScheduled, \* bound: scheduled reloads that have not begun
  MaxEdits      \* bound: criteria and favorites the user changes

ASSUME LibraryAssumption ==
  /\ NProfiles \in Nat /\ PageSize \in Nat \ {0}
  /\ MaxScheduled \in Nat /\ MaxEdits \in Nat
  /\ Queries \subseteq SUBSET (1..NProfiles)
  /\ 1..NProfiles \in Queries \* of the empty search

VARIABLES
  favorites,     \* the profiles that are favorites in the database
  isSelected,    \* selectedType is this type
  criteria,      \* query and onlyCollection
  items,         \* the list: "absent", or what it shows as favorite
  nextCursor,    \* the last profile of the pages so far, NoCursor at the end
  dirty,         \* not loaded, or dirty: an analysis has ended since
  pendingReload,
  debounce,      \* the debounced search of the present criteria
  scheduled,     \* scheduled reloads of the present criteria
  pageLoad,      \* the load of a page whose answer will count
  overlays,      \* favoriteOverlays: "none", or what an answer must not undo
  updates,       \* the favorites' requests under way
  shown,         \* the criteria of the list: a history
  loadFailed,    \* a load of the present criteria has failed, and none has
                 \* succeeded: a history
  unsure,        \* profiles whose request failed, and no list has told since
  edits          \* criteria and favorites the user has changed so far

libraryVars == <<favorites, isSelected, criteria, items, nextCursor, dirty, pendingReload,
                 debounce, scheduled, pageLoad, overlays, updates,
                 shown, loadFailed, unsure, edits>>

Profiles == 1..NProfiles
NoCursor == 0
Criteria == [query : Queries, only : BOOLEAN]
Shown == {"absent", "yes", "no"}
Mark(favorite) == IF favorite THEN "yes" ELSE "no"

(* A load: its cursor (the first page: NoCursor), and what it has found;    *)
(* `moved` are the profiles whose overlays were written since it was asked. *)
PageLoad == [kind : {"none", "first", "next"}, phase : {"asked", "read"},
             criteria : Criteria, page : [Profiles -> Shown],
             next : 0..NProfiles, moved : SUBSET Profiles]
NoPage == [p \in Profiles |-> "absent"]
NoLoadOf(c) == [kind |-> "none", phase |-> "asked", criteria |-> c, page |-> NoPage,
                next |-> NoCursor, moved |-> {}]
Asked(kind) == [NoLoadOf(criteria) EXCEPT !.kind = kind]
Dropped == NoLoadOf(criteria)

FavoriteUpdate == [phase : {"none", "asked", "set"}, to : {"yes", "no"}]
NoFavoriteUpdate == [phase |-> "none", to |-> "no"]
Opposite(mark) == IF mark = "yes" THEN "no" ELSE "yes"

LibraryTypeOK ==
  /\ favorites \subseteq Profiles /\ isSelected \in BOOLEAN /\ criteria \in Criteria
  /\ items \in [Profiles -> Shown] /\ nextCursor \in 0..NProfiles
  /\ dirty \in BOOLEAN /\ pendingReload \in BOOLEAN
  /\ debounce \in {"none", "asleep"} /\ scheduled \in 0..MaxScheduled
  /\ pageLoad \in PageLoad /\ overlays \in [Profiles -> {"none", "updating", "yes", "no"}]
  /\ updates \in [Profiles -> FavoriteUpdate]
  /\ shown \in Criteria /\ loadFailed \in BOOLEAN /\ unsure \subseteq Profiles
  /\ edits \in 0..MaxEdits

LibraryInit ==
  /\ favorites = {} /\ isSelected \in BOOLEAN
  /\ criteria = [query |-> Profiles, only |-> FALSE]
  /\ items = NoPage /\ nextCursor = NoCursor
  /\ dirty = TRUE /\ pendingReload = FALSE
  /\ debounce = "none" /\ scheduled = 0 /\ pageLoad = NoLoadOf(criteria)
  /\ overlays = [p \in Profiles |-> "none"] /\ updates = [p \in Profiles |-> NoFavoriteUpdate]
  /\ shown = criteria /\ loadFailed = FALSE /\ unsure = {} /\ edits = 0

ListStays == UNCHANGED <<items, nextCursor, dirty, shown>>
(* An action that changes neither favorites nor criteria. *)
NoEdit == UNCHANGED <<favorites, overlays, updates, unsure, edits>>
FavoritesStay == UNCHANGED <<favorites, overlays, updates, unsure>>

-----------------------------------------------------------------------------
(* Criteria and reloads *)

(* setSearch and setOnlyCollection: the list's loads and its cursor go, and *)
(* a load of the new criteria is set up, later or at once.                  *)
NewCriteria(c) ==
  /\ isSelected /\ c # criteria /\ criteria' = c
  /\ edits < MaxEdits /\ edits' = edits + 1
  /\ pageLoad' = NoLoadOf(c) /\ nextCursor' = NoCursor /\ pendingReload' = TRUE
  /\ loadFailed' = FALSE /\ UNCHANGED <<isSelected, items, dirty, shown>> /\ FavoritesStay

SetSearch(q) ==
  /\ NewCriteria([criteria EXCEPT !.query = q])
  /\ debounce' = "asleep" /\ scheduled' = 0

SetOnlyCollection(enabled) ==
  /\ NewCriteria([criteria EXCEPT !.only = enabled])
  /\ debounce' = "none" /\ scheduled' = 1

(* selectType of this type, and of the other. *)
SelectType ==
  /\ isSelected' = TRUE
  /\ IF dirty /\ pageLoad.kind # "first"
       THEN scheduled < MaxScheduled /\ scheduled' = scheduled + 1 /\ pendingReload' = TRUE
       ELSE UNCHANGED <<scheduled, pendingReload>>
  /\ UNCHANGED <<criteria, debounce, pageLoad, loadFailed>> /\ ListStays /\ NoEdit

SelectOtherType ==
  /\ isSelected /\ isSelected' = FALSE
  /\ UNCHANGED <<criteria, debounce, scheduled, pendingReload, pageLoad, loadFailed>>
  /\ ListStays /\ NoEdit

(* loadFirstPage, up to its call.  It cancels the debounced search, which   *)
(* may have slept long enough before.                                       *)
BeginFirstPage ==
  /\ pageLoad' = Asked("first")
  /\ UNCHANGED <<isSelected, criteria, pendingReload, loadFailed>> /\ ListStays /\ NoEdit

(* The user asks for it, or consume does after an analysis of the type.     *)
LoadFirstPage ==
  /\ isSelected /\ BeginFirstPage
  /\ debounce' \in {"none", debounce} /\ UNCHANGED scheduled

(* The tasks of a search and of a scheduled reload: nothing is done if the  *)
(* first page is being loaded already.                                      *)
FirstPageUnlessLoading ==
  \/ pageLoad.kind # "first" /\ BeginFirstPage
  \/ /\ pageLoad.kind = "first"
     /\ UNCHANGED <<isSelected, criteria, pendingReload, pageLoad, loadFailed>>
     /\ ListStays /\ NoEdit

DebounceFires ==
  /\ debounce = "asleep" /\ debounce' = "none" /\ UNCHANGED scheduled
  /\ FirstPageUnlessLoading

ScheduledFires ==
  /\ scheduled > 0 /\ scheduled' = scheduled - 1
  /\ debounce' \in IF pageLoad.kind = "first" THEN {debounce} ELSE {"none", debounce}
  /\ FirstPageUnlessLoading

(* consume, after an analysis of the type, while the other is selected.     *)
ConsumeUnselected ==
  /\ ~isSelected /\ pageLoad' = Dropped /\ dirty' = TRUE
  /\ UNCHANGED <<isSelected, criteria, items, nextCursor, pendingReload,
                 debounce, scheduled, shown, loadFailed>>
  /\ NoEdit

-----------------------------------------------------------------------------
(* Pages *)

LoadNextPage ==
  /\ isSelected /\ nextCursor # NoCursor /\ pageLoad.kind = "none"
  /\ pageLoad' = [Asked("next") EXCEPT !.next = nextCursor]
  /\ UNCHANGED <<isSelected, criteria, pendingReload, debounce, scheduled, loadFailed>>
  /\ ListStays /\ NoEdit

(* The API: the first PageSize profiles after the cursor.                   *)
Matching(c) == {p \in c.query : c.only => p \in favorites}
Rest(c, cursor) == {p \in Matching(c) : p > cursor}

(* A cursor is signed for the criteria of the list it was given with, and   *)
(* refused when the profile it names is found no more: one that was the     *)
(* last of its page and has ceased to be a favorite.                        *)
InScope(load) == load.kind = "next" => load.criteria = shown
CursorMatches(load) == load.next = NoCursor \/ load.next \in Matching(load.criteria)
ValidatedCursor(load) == InScope(load) /\ CursorMatches(load)

(* The cursor after a page: its last profile, if there are more.            *)
NextCursor(page, rest) ==
  IF page = rest THEN NoCursor ELSE CHOOSE p \in page : \A q \in page : q <= p

ReadPage ==
  LET rest == Rest(pageLoad.criteria, pageLoad.next)
      page == {p \in rest : Cardinality({q \in rest : q < p}) < PageSize}
  IN /\ pageLoad.kind # "none" /\ pageLoad.phase = "asked" /\ ValidatedCursor(pageLoad)
     /\ pageLoad' = [pageLoad EXCEPT
          !.phase = "read",
          !.page = [p \in Profiles |-> IF p \in page THEN Mark(p \in favorites) ELSE "absent"],
          !.next = NextCursor(page, rest)]
     /\ UNCHANGED <<isSelected, criteria, pendingReload, debounce, scheduled, loadFailed>>
     /\ ListStays /\ NoEdit

(* Mutant: only a favorite that is being stored is kept from the page.      *)
KeptWhileStored(p) ==
  IF pageLoad.page[p] # "absent" /\ overlays[p] = "updating" THEN updates[p].to
  ELSE pageLoad.page[p]

(* reconciled: a favorite that is being stored, or has been changed since   *)
(* the page was asked for, is kept from it.                                 *)
KeptOf(p) ==
  IF pageLoad.page[p] = "absent" THEN "absent"
  ELSE IF overlays[p] = "updating" THEN updates[p].to
  ELSE IF overlays[p] = "none" \/ p \notin pageLoad.moved THEN pageLoad.page[p]
  ELSE IF criteria.only /\ overlays[p] = "no" THEN "absent"
  ELSE overlays[p]

PageArrives ==
  LET told == {p \in Profiles : pageLoad.page[p] # "absent"} \ pageLoad.moved
  IN /\ pageLoad.kind # "none" /\ pageLoad.phase = "read" /\ pageLoad' = Dropped
     /\ items' = [p \in Profiles |->
          IF pageLoad.kind = "next" /\ items[p] # "absent" THEN items[p] ELSE KeptOf(p)]
     /\ nextCursor' = pageLoad.next
     /\ unsure' = IF pageLoad.kind = "first" THEN unsure \ told
                  ELSE unsure \ {p \in told : items[p] = "absent"}
     /\ IF pageLoad.kind = "first"
          THEN /\ dirty' = FALSE /\ pendingReload' = FALSE
               /\ shown' = pageLoad.criteria /\ loadFailed' = FALSE
          ELSE UNCHANGED <<dirty, pendingReload, shown, loadFailed>>
     /\ UNCHANGED <<isSelected, criteria, debounce, scheduled, favorites, overlays,
                    updates, edits>>

(* The call fails, or its cursor is refused. *)
PageFails ==
  /\ pageLoad.kind # "none" /\ pageLoad' = Dropped
  /\ IF pageLoad.kind = "first" THEN loadFailed' = TRUE /\ pendingReload' = FALSE
     ELSE UNCHANGED <<loadFailed, pendingReload>>
  /\ UNCHANGED <<isSelected, criteria, debounce, scheduled>> /\ ListStays /\ NoEdit

-----------------------------------------------------------------------------
(* Favorites *)

(* A load that goes on knows of the overlay that is written.                *)
Moves(load, p) == [load EXCEPT !.moved = IF load.kind = "none" THEN {} ELSE @ \cup {p}]

(* Mutant: every load is dropped, the one that applies new criteria, too.   *)
DropsAny == Dropped

(* A favorite drops the load under way, unless it is to apply new criteria. *)
DropsLoad == IF pendingReload THEN pageLoad ELSE Dropped

CriteriaStay == UNCHANGED <<isSelected, criteria, nextCursor, dirty,
                            pendingReload, debounce, scheduled, shown, loadFailed>>

ToggleFavorite(p) ==
  /\ items[p] # "absent" /\ updates[p].phase = "none"
  /\ edits < MaxEdits /\ edits' = edits + 1
  /\ updates' = [updates EXCEPT ![p] = [phase |-> "asked", to |-> Opposite(items[p])]]
  /\ overlays' = [overlays EXCEPT ![p] = "updating"]
  /\ items' = [items EXCEPT ![p] = Opposite(@)]
  /\ pageLoad' = Moves(DropsLoad, p)
  /\ UNCHANGED <<favorites, unsure>> /\ CriteriaStay

(* set_game_favorite, set_creator_favorite: the collection afterwards. *)
WithFavorite(p, mark) == IF mark = "yes" THEN favorites \cup {p} ELSE favorites \ {p}

(* The API stores it. *)
SetFavorite(p) ==
  /\ updates[p].phase = "asked"
  /\ favorites' = WithFavorite(p, updates[p].to)
  /\ updates' = [updates EXCEPT ![p].phase = "set"]
  /\ UNCHANGED <<items, pageLoad, overlays, unsure, edits>> /\ CriteriaStay

FavoriteSet(p) ==
  /\ updates[p].phase = "set" /\ updates' = [updates EXCEPT ![p] = NoFavoriteUpdate]
  /\ overlays' = [overlays EXCEPT ![p] = updates[p].to]
  /\ pageLoad' = Moves(pageLoad, p)
  /\ items' = [items EXCEPT ![p] =
       IF @ = "absent" \/ (criteria.only /\ updates[p].to = "no") THEN "absent"
       ELSE updates[p].to]
  /\ unsure' = unsure \ {p} /\ UNCHANGED <<favorites, edits>> /\ CriteriaStay

(* The request fails, or only its answer is lost: the favorite is shown as  *)
(* it was.                                                                  *)
FavoriteFails(p) ==
  LET original == Opposite(updates[p].to)
  IN /\ updates[p].phase # "none" /\ updates' = [updates EXCEPT ![p] = NoFavoriteUpdate]
     /\ overlays' = [overlays EXCEPT ![p] = original]
     /\ pageLoad' = Moves(pageLoad, p)
     /\ items' = [items EXCEPT ![p] = IF @ = updates[p].to THEN original ELSE @]
     /\ unsure' = unsure \cup {p} /\ UNCHANGED <<favorites, edits>> /\ CriteriaStay

LibraryNext ==
  \/ \E q \in Queries : SetSearch(q)
  \/ \E enabled \in BOOLEAN : SetOnlyCollection(enabled)
  \/ SelectType \/ SelectOtherType \/ LoadFirstPage \/ DebounceFires \/ ScheduledFires
  \/ ConsumeUnselected \/ LoadNextPage \/ ReadPage \/ PageArrives \/ PageFails
  \/ \E p \in Profiles : ToggleFavorite(p) \/ SetFavorite(p) \/ FavoriteSet(p) \/ FavoriteFails(p)

LibrarySpec == LibraryInit /\ [][LibraryNext]_libraryVars

-----------------------------------------------------------------------------
(* What the list shows as a favorite is one, and what it does not is none,  *)
(* unless a request for it is under way or has failed since: however pages  *)
(* and favorites overtook each other.                                       *)
FavoritesAreTrue ==
  \A p \in Profiles :
    items[p] # "absent" /\ updates[p].phase = "none" /\ p \notin unsure =>
      items[p] = Mark(p \in favorites)

(* The list is of the criteria that are shown with it, or a load of them is *)
(* under way or set up, or has failed; and no page of one is appended to a  *)
(* list of another.                                                         *)
CriteriaAreApplied ==
  /\ shown = criteria \/ pageLoad.kind = "first" \/ debounce = "asleep" \/ scheduled > 0
     \/ loadFailed \/ (dirty /\ ~isSelected)
  /\ pageLoad.kind # "none" => pageLoad.criteria = criteria
  /\ pageLoad.kind = "next" => pageLoad.criteria = shown

=============================================================================
