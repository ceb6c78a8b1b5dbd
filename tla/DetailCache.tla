----------------------------- MODULE DetailCache -----------------------------
(***************************************************************************)
(* shell/panel.py's detail cache as the pages of a panel use it: Linear's  *)
(* trail of issues and projects, GitHub's pull request and its diff.       *)
(*                                                                         *)
(* Opening a page asks for its item's detail: the panel posts a message,   *)
(* the app starts a worker for the integration of the tab that is active   *)
(* when the message is handled, and the result lands in the panel by key.  *)
(* A key is an item and its updated_at, here a stamp; stamp 0 is Linear's  *)
(* UNKNOWN_UPDATED_AT, of an item that is not in the list.                 *)
(***************************************************************************)
EXTENDS Integers, Sequences, Functions

CONSTANTS
    Items,      \* the integration's items
    MaxStamp,   \* bound: versions of an item
    MaxTrail,   \* bound: pages on top of each other
    MaxPosted,  \* bound: DetailRequested messages not handled yet
    Workers,    \* bound: fetch_detail workers at a time
    Tabs,       \* the app's tabs
    Own,        \* the tab of this panel
    Unknown,    \* tabs that are not supported by this build
    Reloads,    \* TRUE: Linear, reopening a failed page reloads it; FALSE: GitHub
    None

ASSUME BoundsAssumption ==
    MaxStamp \in Nat \ {0} /\ MaxTrail \in Nat \ {0} /\ MaxPosted \in Nat \ {0}
ASSUME TabsAssumption == Own \in Tabs /\ Unknown \subseteq Tabs \ {Own}
ASSUME ReloadsAssumption == Reloads \in BOOLEAN
ASSUME NoneAssumption == None \notin Tabs \cup (Items \X Nat)

VARIABLES
    listed,     \* listed[i]: the stamp of i in self.items, 0 when it is not there
    trail,      \* the keys of the open pages, bottom to top
    details,    \* keys of _details
    errors,     \* keys of _detail_errors
    pending,    \* _detail_pending, or None
    posted,     \* keys of the DetailRequested messages not handled yet
    active,     \* the app's active tab
    loading,    \* loading[w]: the key worker w loads, or None
    route,      \* route[w]: the integration it asks, or None
    dropped     \* history: keys whose last request the app took and ignored

cacheVars == <<details, errors, pending>>
workerVars == <<loading, route>>
vars == <<listed, trail, cacheVars, posted, active, workerVars, dropped>>

Stamp == 0..MaxStamp
Key == Items \X Stamp
Pages == Range(trail)

Init ==
    /\ listed = [i \in Items |-> 0]
    /\ trail = <<>>
    /\ details = {} /\ errors = {} /\ pending = None
    /\ posted = <<>>
    /\ active = Own
    /\ loading = [w \in Workers |-> None]
    /\ route = [w \in Workers |-> None]
    /\ dropped = {}

-----------------------------------------------------------------------------
(* Asking for a detail *)

\* Post DetailRequested unless the detail is cached, or k is the pending one.
Ask(k, cached, asked) ==
    IF k \in cached \/ asked = k
      THEN pending' = asked /\ UNCHANGED <<posted, dropped>>
      ELSE /\ Len(posted) < MaxPosted
           /\ pending' = k
           /\ posted' = Append(posted, k)
           /\ dropped' = dropped \ {k}

\* request_detail: an earlier error goes if the detail is asked for again.
RequestDetail(k) ==
    /\ Ask(k, details, pending)
    /\ errors' = IF k \in details \/ pending = k THEN errors ELSE errors \ {k}
    /\ UNCHANGED details

\* reload_detail: what the panel has of k goes first, then request_detail.
ReloadDetail(k) ==
    /\ details' = details \ {k}
    /\ errors' = errors \ {k}
    /\ Ask(k, details \ {k}, IF pending = k THEN None ELSE pending)

-----------------------------------------------------------------------------
(* The user *)

\* open_issue, open_project, open_pull_request, open_diff.
Open(k) ==
    /\ active = Own
    /\ Len(trail) < MaxTrail
    /\ trail' = Append(trail, k)
    /\ IF Reloads /\ k \in errors THEN ReloadDetail(k) ELSE RequestDetail(k)
    /\ UNCHANGED <<listed, active, workerVars>>

\* From the list, which is on screen when no page is.
OpenListed(i) ==
    /\ trail = <<>>
    /\ listed[i] # 0
    /\ Open(<<i, listed[i]>>)

\* open_target, open_diff: what the page on top names once its detail is there;
\* issue_of_target finds the listed item or makes one up.
OpenTarget(i) ==
    /\ trail # <<>>
    /\ trail[Len(trail)] \in details
    /\ Open(<<i, listed[i]>>)

\* go_back, go_back_to, close_diff, close_pull_request: only n pages stay.
GoBack(n) ==
    /\ active = Own
    /\ n < Len(trail)
    /\ trail' = SubSeq(trail, 1, n)
    /\ UNCHANGED <<listed, cacheVars, posted, active, workerVars, dropped>>

SwitchTab(t) ==
    /\ active # t
    /\ active' = t
    /\ UNCHANGED <<listed, trail, cacheVars, posted, workerVars, dropped>>

-----------------------------------------------------------------------------
(* The app and its workers *)

\* on_panel_detail_requested: fetch_detail for the tab that is active now; it
\* returns at once if this build does not support that one.
DetailRequested(w) ==
    /\ posted # <<>>
    /\ posted' = Tail(posted)
    /\ loading[w] = None
    /\ IF active \in Unknown
         THEN dropped' = dropped \cup {Head(posted)} /\ UNCHANGED workerVars
         ELSE /\ loading' = [loading EXCEPT ![w] = Head(posted)]
              /\ UNCHANGED dropped
              /\ route' = [route EXCEPT ![w] = active]
    /\ UNCHANGED <<listed, trail, cacheVars, active>>

Settled(k) == pending' = IF pending = k THEN None ELSE pending

Ends(w) ==
    /\ loading' = [loading EXCEPT ![w] = None]
    /\ route' = [route EXCEPT ![w] = None]

\* show_detail; only the integration the item came from can load it.
ShowDetail(w) ==
    /\ loading[w] # None
    /\ route[w] = Own
    /\ details' = details \cup {loading[w]}
    /\ errors' = errors \ {loading[w]}
    /\ Settled(loading[w])
    /\ Ends(w)
    /\ UNCHANGED <<listed, trail, posted, active, dropped>>

\* show_detail_error: no detail view, not connected, a failed fetch.
ShowDetailError(w) ==
    /\ loading[w] # None
    /\ errors' = errors \cup {loading[w]}
    /\ Settled(loading[w])
    /\ Ends(w)
    /\ UNCHANGED <<listed, trail, details, posted, active, dropped>>

\* Bug: only the page on top is kept.
TopInUse == IF trail = <<>> THEN {} ELSE {trail[Len(trail)]}

\* Bug: only what is listed is kept.
NothingInUse == {}

\* detail_keys_in_use: the open pages.
KeysInUse == Pages

\* _show_items: a fetch of the tab has landed, and prune_detail_cache drops
\* what is neither listed nor in use.
ShowItems ==
    /\ listed' \in [Items -> Stamp]
    /\ LET live == {<<i, listed'[i]>> : i \in {j \in Items : listed'[j] # 0}} \cup KeysInUse
       IN  details' = details \cap live /\ errors' = errors \cap live
    /\ UNCHANGED <<trail, pending, posted, active, workerVars, dropped>>

-----------------------------------------------------------------------------

Next ==
    \/ \E i \in Items : OpenListed(i) \/ OpenTarget(i)
    \/ \E n \in 0..MaxTrail : GoBack(n)
    \/ \E t \in Tabs : SwitchTab(t)
    \/ \E w \in Workers : DetailRequested(w) \/ ShowDetail(w) \/ ShowDetailError(w)
    \/ ShowItems

\* A posted message is handled and a worker ends, at the latest by its timeout;
\* strongly fair, since only the bound on workers can keep a message waiting.
Fairness ==
    /\ SF_vars(\E w \in Workers : DetailRequested(w))
    /\ \A w \in Workers : WF_vars(ShowDetail(w) \/ ShowDetailError(w))

Spec == Init /\ [][Next]_vars
FairSpec == Spec /\ Fairness

-----------------------------------------------------------------------------
(* Properties *)

\* "Every page on the trail keeps its cache key while it can be returned to":
\* neither a refresh of the list nor another page takes its detail away.
PagesKeepDetails ==
    [][\A k \in Pages \cap Pages' :
          k \in details /\ k \notin errors => k \in details']_vars

\* Every page shows its detail or an error in the end, unless it is left or
\* fetch_detail ignored its request.
PageLoads ==
    \A k \in Key : k \in Pages ~> k \notin Pages \/ k \in details \cup errors \cup dropped

=============================================================================
