------------------------------ MODULE Dashboard ------------------------------
(***************************************************************************)
(* shell/app.py: the tabs of the running dashboard, the fetch workers that *)
(* fill their panels, and the refresh indicator.                           *)
(*                                                                         *)
(* Handlers and call_from_thread callbacks run on the UI thread, one at a  *)
(* time; a coroutine handler (drop_tab, add_tab_live) lets others run at   *)
(* its awaits.  refresh_tab runs on worker threads, any number at once and *)
(* several for one tab: @work(thread=True) is not exclusive.  A step of a  *)
(* worker is one access to shared state or one call_from_thread.           *)
(*                                                                         *)
(* What a panel shows is the number of the version of the service's data   *)
(* that it was fetched from.                                               *)
(***************************************************************************)
EXTENDS Integers, FiniteSets

CONSTANTS
    Tabs,       \* integration ids
    Startup,    \* those configured when the app starts
    Unknown,    \* configured, but not supported by this build
    Managed,    \* those the user adds or removes while it runs
    OwnBar,     \* tabs whose panel declares a refresh indicator of its own
    Workers,    \* bound: fetch workers at a time
    Panels,     \* panel objects; one that nothing refers to may be reused
    MaxVersion, \* bound: versions of a service's data
    Empty,      \* the versions with no items
    Reconnect,  \* may an integration removed in this session be added again?
    Failures,   \* the ways a fetch can fail
    Retryable,  \* those that retrying may help: the last good items are kept
    None

ASSUME TabsAssumption ==
    /\ Startup \subseteq Tabs /\ Unknown \subseteq Startup
    /\ OwnBar \subseteq Tabs \ Unknown /\ Managed \subseteq Tabs
ASSUME VersionsAssumption == MaxVersion \in Nat \ {0} /\ Empty \subseteq 1..MaxVersion
ASSUME NoneAssumption ==
    /\ None \notin Tabs \cup Panels \cup Nat
    /\ None \notin Failures /\ Failures \cap Nat = {} /\ Retryable \subseteq Failures
ASSUME ReconnectAssumption == Reconnect \in BOOLEAN

VARIABLES
    tabIds,     \* self.tab_ids, as a set
    active,     \* TabbedContent.active, or None
    panelOf,    \* panelOf[t]: the panel mounted for tab t, or None
    activated,  \* panels of the TabActivated messages not handled yet
    screen,     \* what is on top: the tabs, or a management screen at some step
    subject,    \* the integration that management screen is about, or None
    removed,    \* integrations removed in this session
    connected,  \* integrations with stored credentials
    fresh,      \* the integrations with a _fetched_at younger than stale_after
    state,      \* state[p]: panel p's PanelState
    items,      \* items[p]: the version panel p shows, 0 before any
    fetching,   \* fetching[p]: between fetch_started and fetch_finished
    crossed,    \* crossed[p]: two fetches of p have run at once, one still does
    version,    \* version[t]: the version the service of t has
    pc,         \* pc[w]: where worker w is in refresh_tab
    tab, panel, \* tab[w], panel[w]: w's arguments
    staged,     \* staged[w]: w reports stages (r was pressed), so w is forced
    barred,     \* barred[w]: the indicator w reports to is the mounted one
    result,     \* result[w]: what w fetched, or how that failed
    bar,        \* the stage the mounted indicator shows, or "hidden"
    barKind     \* which indicator is mounted, or None

tabVars == <<tabIds, active, panelOf, activated, removed, connected>>
menuVars == <<screen, subject>>
panelVars == <<state, items, fetching, crossed>>
workerVars == <<pc, tab, panel, staged, barred, result>>
barVars == <<bar, barKind>>
vars == <<tabVars, menuVars, fresh, panelVars, version, workerVars, barVars>>

Version == 1..MaxVersion
Bracket == {"resolve", "stage", "fetch", "stamp", "land", "finish"}
PCs == {"idle", "check", "start", "report"} \cup Bracket
Kind(t) == IF t \in OwnBar THEN t ELSE "plain"

\* compose() has built a panel per configured tab; Textual activates one tab.
Init ==
    /\ tabIds = Startup
    /\ active \in IF Startup = {} THEN {None} ELSE Startup
    /\ panelOf \in [Tabs -> Panels \cup {None}]
    /\ \A t \in Tabs : panelOf[t] = None <=> t \notin Startup
    /\ \A t, u \in Startup : panelOf[t] = panelOf[u] => t = u
    /\ activated = IF Startup = {} THEN {} ELSE {panelOf[active]}
    /\ screen = "tabs" /\ subject = None
    /\ removed = {} /\ connected = Startup
    /\ fresh = {}
    /\ state = [p \in Panels |->
          IF \E t \in Unknown : panelOf[t] = p THEN "error" ELSE "loading"]
    /\ items = [p \in Panels |-> 0]
    /\ fetching = [p \in Panels |-> FALSE]
    /\ crossed = [p \in Panels |-> FALSE]
    /\ version = [t \in Tabs |-> 1]
    /\ pc = [w \in Workers |-> "idle"]
    /\ tab = [w \in Workers |-> None]
    /\ panel = [w \in Workers |-> None]
    /\ staged = [w \in Workers |-> FALSE]
    /\ barred = [w \in Workers |-> FALSE]
    /\ result = [w \in Workers |-> None]
    /\ bar = "hidden" /\ barKind = None

HasItems(p) == items[p] # 0 /\ items[p] \notin Empty
InBracket(p) == {w \in Workers : panel[w] = p /\ pc[w] \in Bracket}
Mounted(p) == \E t \in Tabs : panelOf[t] = p

-----------------------------------------------------------------------------
(* The user, Textual and the service *)

\* refresh_tab(t, p): a worker starts; s: it is forced and reports its stages.
RefreshTab(w, t, p, s) ==
    /\ pc[w] = "idle"
    /\ pc' = [pc EXCEPT ![w] = "check"]
    /\ tab' = [tab EXCEPT ![w] = t]
    /\ panel' = [panel EXCEPT ![w] = p]
    /\ staged' = [staged EXCEPT ![w] = s]
    /\ UNCHANGED result

\* Tab keys, clicks: Textual makes t the active tab and posts TabActivated.
Activate(t) ==
    /\ screen = "tabs"
    /\ t \in tabIds \ {active}
    /\ active' = t
    /\ activated' = activated \cup {panelOf[t]}
    /\ UNCHANGED <<tabIds, panelOf, removed, connected, menuVars, fresh, panelVars,
                   version, workerVars, barVars>>

\* on_tabbed_content_tab_activated, also below a management screen.
TabActivated(t) ==
    /\ panelOf[t] \in activated
    /\ activated' = activated \ {panelOf[t]}
    /\ \E w \in Workers : RefreshTab(w, t, panelOf[t], FALSE)
    /\ UNCHANGED <<tabIds, active, panelOf, removed, connected, menuVars, fresh, panelVars,
                   version, barred, barVars>>

\* on_app_focus, skipped while a management screen is on top.
AppFocus ==
    /\ screen = "tabs"
    /\ active # None /\ panelOf[active] # None
    /\ \E w \in Workers : RefreshTab(w, active, panelOf[active], FALSE)
    /\ UNCHANGED <<tabVars, menuVars, fresh, panelVars, version, barred, barVars>>

\* action_refresh: _refresh_indicator keeps the mounted indicator if it is of
\* the panel's kind and else mounts another, to which no older worker reports.
ActionRefresh(w) ==
    /\ screen = "tabs"
    /\ active # None /\ panelOf[active] # None
    /\ RefreshTab(w, active, panelOf[active], TRUE)
    /\ bar' = "connecting"
    /\ barKind' = Kind(active)
    /\ barred' = [v \in Workers |-> v = w \/ (barred[v] /\ barKind = Kind(active))]
    /\ UNCHANGED <<tabVars, menuVars, fresh, panelVars, version>>

\* The indicator's timer after DONE.
HideBar ==
    /\ bar = "done"
    /\ bar' = "hidden"
    /\ UNCHANGED <<tabVars, menuVars, fresh, panelVars, version, workerVars, barKind>>

\* stale_after goes by.
GoStale(t) ==
    /\ t \in fresh
    /\ fresh' = fresh \ {t}
    /\ UNCHANGED <<tabVars, menuVars, panelVars, version, workerVars, barVars>>

\* Somebody changes the service's data.
ServiceChanges(t) ==
    /\ version[t] < MaxVersion
    /\ version' = [version EXCEPT ![t] = @ + 1]
    /\ UNCHANGED <<tabVars, menuVars, fresh, panelVars, workerVars, barVars>>

-----------------------------------------------------------------------------
(* A fetch worker *)

\* stage is what the worker's own indicator is told; only a mounted one shows.
Show(w, stage) == bar' = IF barred[w] THEN stage ELSE bar

\* _fetch_tab: an unknown integration, or a fresh tab that is not forced, is
\* done here.  The freshness is read on the worker thread.
Check(w) ==
    LET skip == tab[w] \in Unknown \/ (~ staged[w] /\ tab[w] \in fresh)
    IN  /\ pc[w] = "check"
        /\ pc' = [pc EXCEPT ![w] = IF skip THEN "report" ELSE "start"]
        /\ UNCHANGED <<tabVars, menuVars, fresh, panelVars, version, tab, panel, staged,
                       barred, result, barVars>>

\* panel.fetch_started on the UI thread: nothing to a panel that is gone.
FetchStarted(w) ==
    /\ pc[w] = "start"
    /\ pc' = [pc EXCEPT ![w] = "resolve"]
    /\ fetching' = [fetching EXCEPT ![panel[w]] = @ \/ Mounted(panel[w])]
    /\ crossed' = [crossed EXCEPT ![panel[w]] = @ \/ InBracket(panel[w]) # {}]
    /\ UNCHANGED <<tabVars, menuVars, fresh, state, items, version, tab, panel, staged,
                   barred, result, barVars>>

\* resolve_connection and credentials_for: a tab that is not connected, a bad
\* connection, a refused refresh or an unreadable store ends the fetch.
Resolve(w) ==
    /\ pc[w] = "resolve"
    /\ \/ /\ tab[w] \in connected
          /\ pc' = [pc EXCEPT ![w] = IF staged[w] THEN "stage" ELSE "fetch"]
          /\ UNCHANGED result
       \/ /\ pc' = [pc EXCEPT ![w] = "land"]
          /\ \E kind \in Failures : result' = [result EXCEPT ![w] = kind]
    /\ UNCHANGED <<tabVars, menuVars, fresh, panelVars, version, tab, panel, staged,
                   barred, barVars>>

\* on_stage(FETCHING) on the UI thread.
StageFetching(w) ==
    /\ pc[w] = "stage"
    /\ pc' = [pc EXCEPT ![w] = "fetch"]
    /\ Show(w, "fetching")
    /\ UNCHANGED <<tabVars, menuVars, fresh, panelVars, version, tab, panel, staged,
                   barred, result, barKind>>

\* Bug: an older answer of the service is used again.
FetchCached(w) ==
    /\ pc[w] = "fetch"
    /\ pc' = [pc EXCEPT ![w] = "stamp"]
    /\ \E v \in 1..version[tab[w]] : result' = [result EXCEPT ![w] = v]
    /\ UNCHANGED <<tabVars, menuVars, fresh, panelVars, version, tab, panel, staged,
                   barred, barVars>>

\* integration.fetch returns items, or raises: Unavailable and the like are
\* transient, Malformed and AuthExpired break the tab.
Fetch(w) ==
    /\ pc[w] = "fetch"
    /\ \/ /\ pc' = [pc EXCEPT ![w] = "stamp"]
          /\ result' = [result EXCEPT ![w] = version[tab[w]]]
       \/ /\ pc' = [pc EXCEPT ![w] = "land"]
          /\ \E kind \in Failures : result' = [result EXCEPT ![w] = kind]
    /\ UNCHANGED <<tabVars, menuVars, fresh, panelVars, version, tab, panel, staged,
                   barred, barVars>>

\* self._fetched_at[integration_id] = now(), on the worker thread.
Stamp(w) ==
    /\ pc[w] = "stamp"
    /\ pc' = [pc EXCEPT ![w] = "land"]
    /\ fresh' = fresh \cup {tab[w]}
    /\ UNCHANGED <<tabVars, menuVars, panelVars, version, tab, panel, staged, barred, result,
                   barVars>>

\* _show_items.
ShowItems(p, v) ==
    /\ items' = [items EXCEPT ![p] = v]
    /\ state' = [state EXCEPT ![p] = IF v \in Empty THEN "empty" ELSE "ready"]

\* Bug: a transient failure marks even an empty panel stale.
ShowErrorStale(p, kind) ==
    /\ state' = [state EXCEPT ![p] = IF kind \in Retryable THEN "stale" ELSE "error"]
    /\ UNCHANGED items

\* _show_error: a transient failure keeps the last good items, marked stale.
ShowError(p, kind) ==
    /\ state' = [state EXCEPT ![p] =
          IF kind \in Retryable /\ HasItems(p) THEN "stale" ELSE "error"]
    /\ UNCHANGED items

\* Bug: a failure is not shown.
LandItemsOnly(w) ==
    /\ pc[w] = "land"
    /\ pc' = [pc EXCEPT ![w] = "finish"]
    /\ \/ result[w] \in Version /\ ShowItems(panel[w], result[w])
       \/ result[w] \notin Version /\ UNCHANGED <<state, items>>
    /\ UNCHANGED <<tabVars, menuVars, fresh, fetching, crossed, version, tab, panel, staged,
                   barred, result, barVars>>

\* The result lands in the panel, on the UI thread.
Land(w) ==
    /\ pc[w] = "land"
    /\ pc' = [pc EXCEPT ![w] = "finish"]
    /\ \/ result[w] \in Version /\ ShowItems(panel[w], result[w])
       \/ result[w] \notin Version /\ ShowError(panel[w], result[w])
    /\ UNCHANGED <<tabVars, menuVars, fresh, fetching, crossed, version, tab, panel, staged,
                   barred, result, barVars>>

\* Bug: fetch_finished is called after a success only, not in a finally.
FetchSucceeded(w) ==
    /\ pc[w] = "finish"
    /\ pc' = [pc EXCEPT ![w] = "report"]
    /\ fetching' = [fetching EXCEPT ![panel[w]] = @ /\ result[w] \notin Version]
    /\ crossed' = [crossed EXCEPT ![panel[w]] = @ /\ InBracket(panel[w]) # {w}]
    /\ UNCHANGED <<tabVars, menuVars, fresh, state, items, version, tab, panel, staged,
                   barred, result, barVars>>

\* panel.fetch_finished on the UI thread.
FetchFinished(w) ==
    /\ pc[w] = "finish"
    /\ pc' = [pc EXCEPT ![w] = "report"]
    /\ fetching' = [fetching EXCEPT ![panel[w]] = @ /\ ~ Mounted(panel[w])]
    /\ crossed' = [crossed EXCEPT ![panel[w]] = @ /\ InBracket(panel[w]) # {w}]
    /\ UNCHANGED <<tabVars, menuVars, fresh, state, items, version, tab, panel, staged,
                   barred, result, barVars>>

\* Bug: the final stage is reported after a success only, not in a finally.
ReportSuccess(w) ==
    /\ pc[w] = "report"
    /\ IF staged[w] /\ result[w] \in Version THEN Show(w, "done") ELSE UNCHANGED bar
    /\ pc' = [pc EXCEPT ![w] = "idle"]
    /\ tab' = [tab EXCEPT ![w] = None]
    /\ panel' = [panel EXCEPT ![w] = None]
    /\ staged' = [staged EXCEPT ![w] = FALSE]
    /\ barred' = [barred EXCEPT ![w] = FALSE]
    /\ result' = [result EXCEPT ![w] = None]
    /\ UNCHANGED <<tabVars, menuVars, fresh, panelVars, version, barKind>>

\* refresh_tab's finally: the final stage, if stages are reported at all.
Report(w) ==
    /\ pc[w] = "report"
    /\ IF staged[w]
         THEN Show(w, IF result[w] \in Version THEN "done" ELSE "hidden")
         ELSE UNCHANGED bar
    /\ pc' = [pc EXCEPT ![w] = "idle"]
    /\ tab' = [tab EXCEPT ![w] = None]
    /\ panel' = [panel EXCEPT ![w] = None]
    /\ staged' = [staged EXCEPT ![w] = FALSE]
    /\ barred' = [barred EXCEPT ![w] = FALSE]
    /\ result' = [result EXCEPT ![w] = None]
    /\ UNCHANGED <<tabVars, menuVars, fresh, panelVars, version, barKind>>

-----------------------------------------------------------------------------
(* Management screens: one at a time, with every shell action blocked *)

OpenMenu ==
    /\ screen = "tabs"
    /\ screen' = "menu"
    /\ UNCHANGED <<tabVars, subject, fresh, panelVars, version, workerVars, barVars>>

\* Escape, a refused removal, a failed or cancelled connection.
Dismiss ==
    /\ screen \in {"menu", "removing", "adding"}
    /\ screen' = "tabs"
    /\ subject' = None
    /\ UNCHANGED <<tabVars, fresh, panelVars, version, workerVars, barVars>>

\* action_confirm: the removal worker has deleted the credentials.
RemoveCredentials(t) ==
    /\ screen = "menu"
    /\ t \in tabIds \cap Managed
    /\ screen' = "removing"
    /\ subject' = t
    /\ connected' = connected \ {t}
    /\ UNCHANGED <<tabIds, active, panelOf, activated, removed, fresh, panelVars, version,
                   workerVars, barVars>>

\* Bug: the screen is dismissed without waiting for the pane to be gone.
DropTabUnawaited ==
    /\ screen = "removing"
    /\ screen' = "tabs"
    /\ tabIds' = tabIds \ {subject}
    /\ fresh' = fresh \ {subject}
    /\ removed' = removed \cup {subject}
    /\ subject' = None
    /\ UNCHANGED <<active, panelOf, activated, connected, panelVars, version, workerVars,
                   barVars>>

\* The config entry is deleted too: _succeed runs drop_tab up to its await.
DropTab ==
    /\ screen = "removing"
    /\ screen' = "dropping"
    /\ tabIds' = tabIds \ {subject}
    /\ fresh' = fresh \ {subject}
    /\ removed' = removed \cup {subject}
    /\ UNCHANGED <<active, panelOf, activated, connected, subject, panelVars, version,
                   workerVars, barVars>>

\* remove_pane has ended: the pane is gone, and if it was in front Textual has
\* activated another; drop_tab returns and the screen is dismissed.
PaneRemoved ==
    /\ screen = "dropping"
    /\ screen' = "tabs"
    /\ subject' = None
    /\ panelOf' = [panelOf EXCEPT ![subject] = None]
    /\ IF active # subject
         THEN /\ UNCHANGED active
              /\ activated' = activated \ {panelOf[subject]}
         ELSE \E t \in IF tabIds = {} THEN {None} ELSE tabIds :
              /\ active' = t
              /\ activated' = (activated \ {panelOf[subject]})
                                 \cup IF t = None THEN {} ELSE {panelOf[t]}
    /\ UNCHANGED <<tabIds, removed, connected, fresh, panelVars, version, workerVars, barVars>>

\* open_tab_for has stored the credentials of a tab that is not configured.
StoreCredentials(t) ==
    /\ screen = "menu"
    /\ t \in Managed \ (tabIds \cup Unknown)
    /\ t \in removed => Reconnect
    /\ screen' = "adding"
    /\ subject' = t
    /\ connected' = connected \cup {t}
    /\ UNCHANGED <<tabIds, active, panelOf, activated, removed, fresh, panelVars, version,
                   workerVars, barVars>>

Referenced == {panelOf[t] : t \in Tabs} \cup {panel[w] : w \in Workers}

\* The config entry is saved too: add_tab_live up to its await, with a new panel.
AddTabLive(p) ==
    /\ screen = "adding"
    /\ p \notin Referenced
    /\ screen' = "mounting"
    /\ tabIds' = tabIds \cup {subject}
    /\ panelOf' = [panelOf EXCEPT ![subject] = p]
    /\ state' = [state EXCEPT ![p] = "loading"]
    /\ items' = [items EXCEPT ![p] = 0]
    /\ fetching' = [fetching EXCEPT ![p] = FALSE]
    /\ crossed' = [crossed EXCEPT ![p] = FALSE]
    /\ UNCHANGED <<active, activated, removed, connected, subject, fresh, version, workerVars,
                   barVars>>

\* Bug: the tab comes to the front without the message that fetches it.
PaneAddedSilently ==
    /\ screen = "mounting"
    /\ screen' = "tabs"
    /\ subject' = None
    /\ active' = subject
    /\ UNCHANGED <<tabIds, panelOf, activated, removed, connected, fresh, panelVars, version,
                   workerVars, barVars>>

\* add_pane has ended: the new tab is made the active one, the screen dismissed.
PaneAdded ==
    /\ screen = "mounting"
    /\ screen' = "tabs"
    /\ subject' = None
    /\ active' = subject
    /\ activated' = activated \cup {panelOf[subject]}
    /\ UNCHANGED <<tabIds, panelOf, removed, connected, fresh, panelVars, version, workerVars,
                   barVars>>

-----------------------------------------------------------------------------

WorkerStep(w) ==
    \/ Check(w)
    \/ FetchStarted(w)
    \/ Resolve(w)
    \/ StageFetching(w)
    \/ Fetch(w)
    \/ Stamp(w)
    \/ Land(w)
    \/ FetchFinished(w)
    \/ Report(w)

MenuStep ==
    \/ OpenMenu
    \/ Dismiss
    \/ \E t \in Tabs : RemoveCredentials(t) \/ StoreCredentials(t)
    \/ DropTab
    \/ PaneRemoved
    \/ \E p \in Panels : AddTabLive(p)
    \/ PaneAdded

Next ==
    \/ \E w \in Workers : WorkerStep(w) \/ ActionRefresh(w)
    \/ \E t \in Tabs : Activate(t) \/ TabActivated(t) \/ GoStale(t) \/ ServiceChanges(t)
    \/ AppFocus
    \/ HideBar
    \/ MenuStep

\* Worker threads run, and every posted message is handled in the end; strongly
\* fair, since only the bound on workers can keep a handler waiting.  The user
\* and the service need not do anything.
Fairness ==
    /\ \A w \in Workers : WF_vars(WorkerStep(w))
    /\ \A t \in Tabs : SF_vars(TabActivated(t))

Spec == Init /\ [][Next]_vars
FairSpec == Spec /\ Fairness

-----------------------------------------------------------------------------
(* Properties *)

\* The tab in front never sits at "loading" with nobody to load it: its
\* activation is still to be handled, or a worker has yet to land in its panel.
\* "Activating the new pane fires on_tabbed_content_tab_activated, which
\* fetches with the fresh credentials right away."
LoadingIsAttended ==
    active # None /\ panelOf[active] # None /\ state[panelOf[active]] = "loading" =>
        \/ panelOf[active] \in activated
        \/ \E w \in Workers :
              panel[w] = panelOf[active] /\ pc[w] \in {"check", "start"} \cup (Bracket \ {"finish"})

\* "The refresh indicator never gets stuck partway through its bar": while it
\* shows a partial one, a worker that reports to it has its final stage to come.
BarIsAttended ==
    bar \in {"connecting", "fetching"} =>
        \E w \in Workers : barred[w] /\ staged[w] /\ pc[w] # "idle"

\* Nothing on screen waits for a step that nobody is going to make.
WaitsAreAttended == LoadingIsAttended /\ BarIsAttended

\* fetch_started and fetch_finished bracket the network part: a mounted panel
\* shows no fetch when none is under way, and shows one that is, unless two
\* overlap.
FetchingIsShown ==
    \A p \in {q \in Panels : Mounted(q)} :
        /\ fetching[p] => InBracket(p) # {}
        /\ InBracket(p) # {} => fetching[p] \/ crossed[p]

\* "A tab with nothing in it and a tab whose fetch failed must never look
\* alike": the state a panel shows agrees with the items it holds.
StateMatchesItems ==
    \A p \in Panels :
        /\ state[p] \in {"ready", "stale"} => HasItems(p)
        /\ state[p] = "empty" => items[p] \in Empty
        /\ state[p] = "loading" => items[p] = 0

\* What a panel shows of its data and of its fetches is so, at each step between the
\* worker's and the UI thread's.
PanelIsHonest == FetchingIsShown /\ StateMatchesItems

\* Whenever the shell's tab keys are not blocked, they find their tab:
\* _shift_tab's tab_ids.index(tabs.active) does not raise.
TabKeysAreSafe ==
    screen = "tabs" /\ tabIds # {} => active \in tabIds /\ panelOf[active] # None

\* A panel goes back to an older version of the data only if two fetches of it
\* ran at once.
RewindsOnlyWhenCrossed ==
    [][\A p \in Panels :
          0 < items'[p] /\ items'[p] < items[p] => crossed[p]]_vars

\* A tab that stays in front stops loading.
LoadingEnds ==
    \A t \in Tabs :
        active = t /\ panelOf[t] # None /\ state[panelOf[t]] = "loading"
            ~> active # t \/ panelOf[t] = None \/ state[panelOf[t]] # "loading"

\* "Whatever happens, on_stage receives a final stage": a bar that moves gets to
\* its end, unless another tab's indicator takes its place.
BarEnds ==
    \A k \in OwnBar \cup {"plain"} :
        barKind = k /\ bar \in {"connecting", "fetching"}
            ~> barKind # k \/ bar \in {"done", "hidden"}

\* No wait that is shown goes on for ever: neither a tab's loading state nor
\* the refresh bar.
WaitsEnd == LoadingEnds /\ BarEnds

=============================================================================
