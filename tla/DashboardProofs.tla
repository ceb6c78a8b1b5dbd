--------------------------- MODULE DashboardProofs ---------------------------
(***************************************************************************)
(* The tabs of the running dashboard, its fetch workers and its refresh    *)
(* indicator: for every set of tabs, panels, data versions and failures,   *)
(* and for any number of workers.                                          *)
(***************************************************************************)
EXTENDS Dashboard, TLAPS

Screens == {"tabs", "menu", "removing", "dropping", "adding", "mounting"}
States == {"loading", "ready", "empty", "stale", "error"}
Bars == {"hidden", "connecting", "fetching", "done"}

TabsTypeOK ==
    /\ tabIds \in SUBSET Tabs
    /\ active \in Tabs \cup {None}
    /\ panelOf \in [Tabs -> Panels \cup {None}]
    /\ activated \in SUBSET Panels
    /\ screen \in Screens
    /\ subject \in Tabs \cup {None}
    /\ removed \in SUBSET Tabs
    /\ connected \in SUBSET Tabs
    /\ fresh \in SUBSET Tabs

PanelsTypeOK ==
    /\ state \in [Panels -> States]
    /\ items \in [Panels -> {0} \cup Version]
    /\ fetching \in [Panels -> BOOLEAN]
    /\ crossed \in [Panels -> BOOLEAN]
    /\ version \in [Tabs -> Version]

WorkersTypeOK ==
    /\ pc \in [Workers -> PCs]
    /\ tab \in [Workers -> Tabs \cup {None}]
    /\ panel \in [Workers -> Panels \cup {None}]
    /\ staged \in [Workers -> BOOLEAN]
    /\ barred \in [Workers -> BOOLEAN]
    /\ result \in [Workers -> Version \cup Failures \cup {None}]
    /\ bar \in Bars

\* What a worker has while it runs, and the answer it has between its fetch and
\* its landing; only a forced one reports stages.
WorkersAreSound ==
    \A w \in Workers :
        /\ pc[w] = "idle" <=> panel[w] = None
        /\ pc[w] = "idle" <=> tab[w] = None
        /\ pc[w] = "idle" => ~ staged[w] /\ ~ barred[w]
        /\ pc[w] = "stage" => staged[w]
        /\ pc[w] = "stamp" => result[w] \in Version
        /\ pc[w] = "land" => result[w] # None
        /\ pc[w] \notin {"stamp", "land", "finish", "report"} => result[w] = None
        /\ tab[w] \in Unknown => pc[w] \in {"check", "report"}

TypeInv == TabsTypeOK /\ PanelsTypeOK /\ WorkersTypeOK /\ WorkersAreSound

\* The steps of a removal and of an addition: which tabs have a panel, and what
\* the screen that waits for one is about.
TabsAreMounted ==
    /\ screen \in {"tabs", "menu"} <=> subject = None
    /\ \A t \in Tabs :
          panelOf[t] # None <=> t \in tabIds \/ (screen = "dropping" /\ t = subject)
    /\ screen = "removing" => subject \in tabIds
    /\ screen = "dropping" => subject \in removed \ tabIds
    /\ screen = "adding" =>
          subject \notin tabIds \cup Unknown /\ (subject \in removed => Reconnect)
    /\ screen = "mounting" => subject \in tabIds

\* A panel is that of one tab, and the messages are about mounted panels.
PanelsAreOwn ==
    /\ \A t, u \in Tabs : panelOf[t] # None /\ panelOf[t] = panelOf[u] => t = u
    /\ \A p \in activated : \E t \in Tabs : panelOf[t] = p

\* The tab in front is one of those with a pane, if there is one.
HasPane(t) == panelOf[t] # None /\ (screen = "mounting" => t # subject)
FrontIsAPane ==
    /\ active # None => HasPane(active)
    /\ active = None => \A t \in Tabs : ~ HasPane(t)

\* A worker's panel is never given to another tab while it runs.
WorkersKeepTheirPanel ==
    /\ \A w \in Workers, t \in Tabs : panelOf[t] # None /\ panelOf[t] = panel[w] => tab[w] = t
    /\ \A v, w \in Workers : panel[v] # None /\ panel[v] = panel[w] => tab[v] = tab[w]

TabsInv == TabsAreMounted /\ PanelsAreOwn /\ FrontIsAPane /\ WorkersKeepTheirPanel

\* Two fetches of a panel that run at once are recorded.
OverlapIsCrossed ==
    \A v, w \in Workers :
        v # w /\ panel[v] = panel[w] /\ pc[v] \in Bracket /\ pc[w] \in Bracket
            => crossed[panel[w]]

\* Nothing is newer than the data of the service, and what a worker is about to
\* land is not older than what its panel shows, unless fetches overlap.
AnswersAreInOrder ==
    /\ \A t \in Tabs : panelOf[t] # None => items[panelOf[t]] <= version[t]
    /\ \A w \in Workers :
          pc[w] # "idle" =>
              /\ items[panel[w]] <= version[tab[w]]
              /\ result[w] \in Version => result[w] <= version[tab[w]]
              /\ pc[w] \in {"stamp", "land"} /\ result[w] \in Version =>
                    items[panel[w]] <= result[w] \/ crossed[panel[w]]

PanelsInv == OverlapIsCrossed /\ AnswersAreInOrder /\ PanelIsHonest

\* A tab that was removed, or never mounted, has no panel that a worker could
\* mistake for its own.
WorkersAreOfTheTab ==
    /\ \A w \in Workers : tab[w] # None =>
          panelOf[tab[w]] = panel[w] \/ (panelOf[tab[w]] = None /\ tab[w] \in removed)
    /\ \A t \in fresh : panelOf[t] # None \/ t \in removed

\* A tab that counts as fetched and still loads has its items on the way; a tab
\* of an unknown integration never loads.
FreshIsLanding ==
    \A t \in Tabs : panelOf[t] # None /\ state[panelOf[t]] = "loading" =>
        /\ t \notin Unknown
        /\ t \in fresh => \E w \in Workers : panel[w] = panelOf[t] /\ pc[w] = "land"

LoadingInv == WorkersAreOfTheTab /\ FreshIsLanding /\ LoadingIsAttended

IInv == TypeInv /\ TabsInv /\ PanelsInv /\ BarIsAttended

-----------------------------------------------------------------------------

(* The inductive invariant *)

\* Each step keeps every variable's type, and each worker what it has at its step.
LEMMA TypeStep ==
  ASSUME TypeInv, TabsInv, [Next]_vars
  PROVE  TypeInv'
<1> USE NoneAssumption, TabsAssumption, VersionsAssumption
       DEF TypeInv, TabsTypeOK, PanelsTypeOK, WorkersTypeOK, WorkersAreSound, TabsInv,
           TabsAreMounted, FrontIsAPane, HasPane, tabVars, menuVars, panelVars,
           workerVars, barVars, Screens, States, Bars, PCs, Bracket, Version
<1>1. ASSUME NEW w \in Workers, Check(w) PROVE TypeInv'
  BY <1>1 DEF Check
<1>2. ASSUME NEW w \in Workers, FetchStarted(w) PROVE TypeInv'
  BY <1>2 DEF FetchStarted
<1>3. ASSUME NEW w \in Workers, Resolve(w) PROVE TypeInv'
  BY <1>3 DEF Resolve
<1>4. ASSUME NEW w \in Workers, StageFetching(w) PROVE TypeInv'
  BY <1>4 DEF StageFetching, Show
<1>5. ASSUME NEW w \in Workers, Fetch(w) PROVE TypeInv'
  BY <1>5 DEF Fetch
<1>6. ASSUME NEW w \in Workers, Stamp(w) PROVE TypeInv'
  BY <1>6 DEF Stamp
<1>7. ASSUME NEW w \in Workers, Land(w) PROVE TypeInv'
  BY <1>7 DEF Land, ShowItems, ShowError, HasItems
<1>8. ASSUME NEW w \in Workers, FetchFinished(w) PROVE TypeInv'
  BY <1>8 DEF FetchFinished
<1>9. ASSUME NEW w \in Workers, Report(w) PROVE TypeInv'
  BY <1>9 DEF Report, Show
<1>10. ASSUME NEW w \in Workers, ActionRefresh(w) PROVE TypeInv'
  BY <1>10 DEF ActionRefresh, RefreshTab
<1>11. ASSUME NEW t \in Tabs, Activate(t) PROVE TypeInv'
  BY <1>11 DEF Activate
<1>12. ASSUME NEW t \in Tabs, TabActivated(t) PROVE TypeInv'
  BY <1>12 DEF TabActivated, RefreshTab
<1>13. ASSUME NEW t \in Tabs, GoStale(t) PROVE TypeInv'
  BY <1>13 DEF GoStale
<1>14. ASSUME NEW t \in Tabs, ServiceChanges(t) PROVE TypeInv'
  BY <1>14 DEF ServiceChanges
<1>15. CASE AppFocus
  BY <1>15 DEF AppFocus, RefreshTab
<1>16. CASE HideBar
  BY <1>16 DEF HideBar
<1>17. CASE OpenMenu
  BY <1>17 DEF OpenMenu
<1>18. CASE Dismiss
  BY <1>18 DEF Dismiss
<1>19. ASSUME NEW t \in Tabs, RemoveCredentials(t) PROVE TypeInv'
  BY <1>19 DEF RemoveCredentials
<1>20. ASSUME NEW t \in Tabs, StoreCredentials(t) PROVE TypeInv'
  BY <1>20 DEF StoreCredentials
<1>21. CASE DropTab
  BY <1>21 DEF DropTab
<1>22. CASE PaneRemoved
  BY <1>22 DEF PaneRemoved
<1>23. ASSUME NEW p \in Panels, AddTabLive(p) PROVE TypeInv'
  BY <1>23 DEF AddTabLive, Referenced
<1>24. CASE PaneAdded
  BY <1>24 DEF PaneAdded
<1>25. CASE UNCHANGED vars
  BY <1>25 DEF vars
<1> QED
  BY <1>1, <1>2, <1>3, <1>4, <1>5, <1>6, <1>7, <1>8, <1>9, <1>10, <1>11, <1>12, <1>13,
     <1>14, <1>15, <1>16, <1>17, <1>18, <1>19, <1>20, <1>21, <1>22, <1>23, <1>24, <1>25
     DEF Next, WorkerStep, MenuStep

\* Each step keeps the tabs, their panels and the workers of those apart.
LEMMA TabsStep ==
  ASSUME TypeInv, TabsInv, [Next]_vars
  PROVE  TabsInv'
<1> USE NoneAssumption, TabsAssumption, VersionsAssumption
       DEF TypeInv, TabsTypeOK, PanelsTypeOK, WorkersTypeOK, WorkersAreSound, tabVars,
           menuVars, panelVars, workerVars, barVars, TabsInv, TabsAreMounted, PanelsAreOwn,
           FrontIsAPane, HasPane, WorkersKeepTheirPanel, Screens
<1>1. ASSUME NEW w \in Workers, Check(w) PROVE TabsInv'
  BY <1>1 DEF Check
<1>2. ASSUME NEW w \in Workers, FetchStarted(w) PROVE TabsInv'
  BY <1>2 DEF FetchStarted
<1>3. ASSUME NEW w \in Workers, Resolve(w) PROVE TabsInv'
  BY <1>3 DEF Resolve
<1>4. ASSUME NEW w \in Workers, StageFetching(w) PROVE TabsInv'
  BY <1>4 DEF StageFetching, Show
<1>5. ASSUME NEW w \in Workers, Fetch(w) PROVE TabsInv'
  BY <1>5 DEF Fetch
<1>6. ASSUME NEW w \in Workers, Stamp(w) PROVE TabsInv'
  BY <1>6 DEF Stamp
<1>7. ASSUME NEW w \in Workers, Land(w) PROVE TabsInv'
  BY <1>7 DEF Land, ShowItems, ShowError, HasItems
<1>8. ASSUME NEW w \in Workers, FetchFinished(w) PROVE TabsInv'
  BY <1>8 DEF FetchFinished
<1>9. ASSUME NEW w \in Workers, Report(w) PROVE TabsInv'
  BY <1>9 DEF Report, Show
<1>10. ASSUME NEW w \in Workers, ActionRefresh(w) PROVE TabsInv'
  BY <1>10 DEF ActionRefresh, RefreshTab
<1>11. ASSUME NEW t \in Tabs, Activate(t) PROVE TabsInv'
  BY <1>11 DEF Activate
<1>12. ASSUME NEW t \in Tabs, TabActivated(t) PROVE TabsInv'
  BY <1>12 DEF TabActivated, RefreshTab
<1>13. CASE AppFocus
  BY <1>13 DEF AppFocus, RefreshTab
<1>14. CASE OpenMenu
  BY <1>14 DEF OpenMenu
<1>15. CASE Dismiss
  BY <1>15 DEF Dismiss
<1>16. ASSUME NEW t \in Tabs, RemoveCredentials(t) PROVE TabsInv'
  BY <1>16 DEF RemoveCredentials
<1>17. ASSUME NEW t \in Tabs, StoreCredentials(t) PROVE TabsInv'
  BY <1>17 DEF StoreCredentials
<1>18. CASE DropTab
  BY <1>18 DEF DropTab
<1>19. CASE PaneRemoved
  BY <1>19 DEF PaneRemoved
<1>20. ASSUME NEW p \in Panels, AddTabLive(p) PROVE TabsInv'
  BY <1>20 DEF AddTabLive, Referenced
<1>21. CASE PaneAdded
  BY <1>21 DEF PaneAdded
<1>22. CASE UNCHANGED <<pc, tabIds, active, panelOf, activated, screen,
         subject, removed, tab, panel>>
  BY <1>22
<1> QED
  BY <1>1, <1>2, <1>3, <1>4, <1>5, <1>6, <1>7, <1>8, <1>9, <1>10, <1>11, <1>12, <1>13,
     <1>14, <1>15, <1>16, <1>17, <1>18, <1>19, <1>20, <1>21, <1>22
     DEF Next, WorkerStep, MenuStep, GoStale, ServiceChanges, HideBar, vars

\* Overlapping fetches of a panel are recorded while one of them runs.
LEMMA OverlapStep ==
  ASSUME TypeInv, TabsInv, OverlapIsCrossed, [Next]_vars
  PROVE  OverlapIsCrossed'
<1> USE NoneAssumption, TabsAssumption, VersionsAssumption
       DEF TypeInv, TabsTypeOK, PanelsTypeOK, WorkersTypeOK, WorkersAreSound, tabVars,
           menuVars, panelVars, workerVars, barVars, TabsInv, TabsAreMounted, PanelsAreOwn,
           FrontIsAPane, HasPane, WorkersKeepTheirPanel,
           OverlapIsCrossed, Bracket
<1>1. ASSUME NEW w \in Workers, Check(w) PROVE OverlapIsCrossed'
  BY <1>1 DEF Check
<1>2. ASSUME NEW w \in Workers, FetchStarted(w) PROVE OverlapIsCrossed'
  <2>1. crossed'[panel[w]] = (crossed[panel[w]] \/ InBracket(panel[w]) # {})
    BY <1>2 DEF FetchStarted
  <2>2. ASSUME NEW v \in Workers, v # w, panel[v] = panel[w], pc[v] \in Bracket
        PROVE  crossed'[panel[w]]
    BY <2>1, <2>2 DEF InBracket
  <2> QED
    BY <1>2, <2>2 DEF FetchStarted
<1>3. ASSUME NEW w \in Workers, Resolve(w) PROVE OverlapIsCrossed'
  BY <1>3 DEF Resolve
<1>4. ASSUME NEW w \in Workers, StageFetching(w) PROVE OverlapIsCrossed'
  BY <1>4 DEF StageFetching, Show
<1>5. ASSUME NEW w \in Workers, Fetch(w) PROVE OverlapIsCrossed'
  BY <1>5 DEF Fetch
<1>6. ASSUME NEW w \in Workers, Stamp(w) PROVE OverlapIsCrossed'
  BY <1>6 DEF Stamp
<1>7. ASSUME NEW w \in Workers, Land(w) PROVE OverlapIsCrossed'
  BY <1>7 DEF Land, ShowItems, ShowError, HasItems
<1>8. ASSUME NEW w \in Workers, FetchFinished(w) PROVE OverlapIsCrossed'
  BY <1>8 DEF FetchFinished, InBracket
<1>9. ASSUME NEW w \in Workers, Report(w) PROVE OverlapIsCrossed'
  BY <1>9 DEF Report, Show
<1>10. ASSUME NEW w \in Workers, ActionRefresh(w) PROVE OverlapIsCrossed'
  BY <1>10 DEF ActionRefresh, RefreshTab
<1>11. ASSUME NEW t \in Tabs, TabActivated(t) PROVE OverlapIsCrossed'
  BY <1>11 DEF TabActivated, RefreshTab
<1>12. CASE AppFocus
  BY <1>12 DEF AppFocus, RefreshTab
<1>13. ASSUME NEW p \in Panels, AddTabLive(p) PROVE OverlapIsCrossed'
  BY <1>13 DEF AddTabLive, Referenced
<1>14. CASE UNCHANGED <<pc, panel, crossed>>
  BY <1>14
<1> QED
  BY <1>1, <1>2, <1>3, <1>4, <1>5, <1>6, <1>7, <1>8, <1>9, <1>10, <1>11, <1>12, <1>13,
     <1>14
     DEF Next, WorkerStep, MenuStep, Activate, GoStale, ServiceChanges, HideBar,
         OpenMenu, Dismiss, RemoveCredentials, StoreCredentials, DropTab, PaneRemoved,
         PaneAdded, vars

\* What is to land is not older than what is shown, unless fetches overlap.
LEMMA OrderStep ==
  ASSUME TypeInv, TypeInv', TabsInv, OverlapIsCrossed, AnswersAreInOrder, [Next]_vars
  PROVE  AnswersAreInOrder'
<1> USE NoneAssumption, TabsAssumption, VersionsAssumption
       DEF TypeInv, TabsTypeOK, PanelsTypeOK, WorkersTypeOK, WorkersAreSound, tabVars,
           menuVars, panelVars, workerVars, barVars, TabsInv, TabsAreMounted, PanelsAreOwn,
           FrontIsAPane, HasPane, WorkersKeepTheirPanel,
           OverlapIsCrossed, AnswersAreInOrder, Bracket, Version
<1>1. ASSUME NEW w \in Workers, Check(w) PROVE AnswersAreInOrder'
  BY <1>1 DEF Check
<1>2. ASSUME NEW w \in Workers, FetchStarted(w) PROVE AnswersAreInOrder'
  BY <1>2 DEF FetchStarted
<1>3. ASSUME NEW w \in Workers, Resolve(w) PROVE AnswersAreInOrder'
  BY <1>3 DEF Resolve
<1>4. ASSUME NEW w \in Workers, StageFetching(w) PROVE AnswersAreInOrder'
  BY <1>4 DEF StageFetching, Show
<1>5. ASSUME NEW w \in Workers, Fetch(w) PROVE AnswersAreInOrder'
  BY <1>5 DEF Fetch
<1>6. ASSUME NEW w \in Workers, Stamp(w) PROVE AnswersAreInOrder'
  BY <1>6 DEF Stamp
<1>7. ASSUME NEW w \in Workers, Land(w) PROVE AnswersAreInOrder'
  BY <1>7 DEF Land, ShowItems, ShowError, HasItems
<1>8. ASSUME NEW w \in Workers, FetchFinished(w) PROVE AnswersAreInOrder'
  BY <1>8 DEF FetchFinished, InBracket
<1>9. ASSUME NEW w \in Workers, Report(w) PROVE AnswersAreInOrder'
  BY <1>9 DEF Report, Show
<1>10. ASSUME NEW w \in Workers, ActionRefresh(w) PROVE AnswersAreInOrder'
  BY <1>10 DEF ActionRefresh, RefreshTab
<1>11. ASSUME NEW t \in Tabs, TabActivated(t) PROVE AnswersAreInOrder'
  BY <1>11 DEF TabActivated, RefreshTab
<1>12. ASSUME NEW t \in Tabs, ServiceChanges(t) PROVE AnswersAreInOrder'
  BY <1>12 DEF ServiceChanges
<1>13. CASE AppFocus
  BY <1>13 DEF AppFocus, RefreshTab
<1>14. CASE PaneRemoved
  BY <1>14 DEF PaneRemoved
<1>15. ASSUME NEW p \in Panels, AddTabLive(p) PROVE AnswersAreInOrder'
  BY <1>15 DEF AddTabLive, Referenced
<1>16. CASE UNCHANGED <<panelOf, items, version, pc, panel, tab, result,
         crossed>>
  BY <1>16
<1> QED
  BY <1>1, <1>2, <1>3, <1>4, <1>5, <1>6, <1>7, <1>8, <1>9, <1>10, <1>11, <1>12, <1>13,
     <1>14, <1>15, <1>16
     DEF Next, WorkerStep, MenuStep, Activate, GoStale, HideBar, OpenMenu, Dismiss,
         RemoveCredentials, StoreCredentials, DropTab, PaneAdded, vars

\* A panel shows a fetch when one is under way, and only then.
LEMMA FetchingStep ==
  ASSUME TypeInv, TabsInv, OverlapIsCrossed, FetchingIsShown, [Next]_vars
  PROVE  FetchingIsShown'
<1> USE NoneAssumption, TabsAssumption, VersionsAssumption
       DEF TypeInv, TabsTypeOK, PanelsTypeOK, WorkersTypeOK, WorkersAreSound, tabVars,
           menuVars, panelVars, workerVars, barVars, TabsInv, TabsAreMounted, PanelsAreOwn,
           FrontIsAPane, HasPane, WorkersKeepTheirPanel,
           OverlapIsCrossed, FetchingIsShown, Bracket, InBracket, Mounted
<1>1. ASSUME NEW w \in Workers, Check(w) PROVE FetchingIsShown'
  BY <1>1 DEF Check
<1>2. ASSUME NEW w \in Workers, FetchStarted(w) PROVE FetchingIsShown'
  <2>1. fetching'[panel[w]] = (fetching[panel[w]] \/ Mounted(panel[w]))
    BY <1>2 DEF FetchStarted
  <2>2. ASSUME NEW p \in Panels, Mounted(p), p = panel[w]
        PROVE  InBracket(p)' # {} /\ fetching'[p]
    <3>1. w \in InBracket(p)'
      BY <1>2, <2>2 DEF FetchStarted
    <3> QED
      BY <2>1, <2>2, <3>1
  <2>3. ASSUME NEW p \in Panels, p # panel[w]
        PROVE  /\ InBracket(p)' = InBracket(p)
               /\ fetching'[p] = fetching[p] /\ crossed'[p] = crossed[p]
    BY <1>2, <2>3 DEF FetchStarted
  <2>4. ASSUME NEW p \in Panels, Mounted(p)'
        PROVE  /\ fetching'[p] => InBracket(p)' # {}
               /\ InBracket(p)' # {} => fetching'[p] \/ crossed'[p]
    <3>1. Mounted(p)
      BY <1>2, <2>4 DEF FetchStarted
    <3> QED
      BY <2>2, <2>3, <3>1
  <2> QED
    BY <2>4
<1>3. ASSUME NEW w \in Workers, Resolve(w) PROVE FetchingIsShown'
  BY <1>3 DEF Resolve
<1>4. ASSUME NEW w \in Workers, StageFetching(w) PROVE FetchingIsShown'
  BY <1>4 DEF StageFetching, Show
<1>5. ASSUME NEW w \in Workers, Fetch(w) PROVE FetchingIsShown'
  BY <1>5 DEF Fetch
<1>6. ASSUME NEW w \in Workers, Stamp(w) PROVE FetchingIsShown'
  BY <1>6 DEF Stamp
<1>7. ASSUME NEW w \in Workers, Land(w) PROVE FetchingIsShown'
  BY <1>7 DEF Land, ShowItems, ShowError, HasItems
<1>8. ASSUME NEW w \in Workers, FetchFinished(w) PROVE FetchingIsShown'
  <2>1. /\ fetching'[panel[w]] = (fetching[panel[w]] /\ ~ Mounted(panel[w]))
        /\ crossed'[panel[w]] = (crossed[panel[w]] /\ InBracket(panel[w]) # {w})
    BY <1>8 DEF FetchFinished
  <2>2. ASSUME NEW p \in Panels, Mounted(p), p = panel[w], InBracket(p)' # {}
        PROVE  crossed'[p]
    <3>1. PICK v \in Workers : v # w /\ v \in InBracket(p)
      BY <1>8, <2>2 DEF FetchFinished
    <3>2. crossed[p]
      BY <1>8, <2>2, <3>1 DEF FetchFinished
    <3> QED
      BY <2>1, <2>2, <3>1, <3>2
  <2>3. ASSUME NEW p \in Panels, p # panel[w]
        PROVE  /\ InBracket(p)' = InBracket(p)
               /\ fetching'[p] = fetching[p] /\ crossed'[p] = crossed[p]
    BY <1>8, <2>3 DEF FetchFinished
  <2>4. ASSUME NEW p \in Panels, Mounted(p), p = panel[w] PROVE ~ fetching'[p]
    BY <2>1, <2>4
  <2> QED
    BY <1>8, <2>2, <2>3, <2>4 DEF FetchFinished
<1>9. ASSUME NEW w \in Workers, Report(w) PROVE FetchingIsShown'
  BY <1>9 DEF Report, Show
<1>10. ASSUME NEW w \in Workers, ActionRefresh(w) PROVE FetchingIsShown'
  BY <1>10 DEF ActionRefresh, RefreshTab
<1>11. ASSUME NEW t \in Tabs, TabActivated(t) PROVE FetchingIsShown'
  BY <1>11 DEF TabActivated, RefreshTab
<1>12. CASE AppFocus
  BY <1>12 DEF AppFocus, RefreshTab
<1>13. CASE PaneRemoved
  BY <1>13 DEF PaneRemoved
<1>14. ASSUME NEW p \in Panels, AddTabLive(p) PROVE FetchingIsShown'
  BY <1>14 DEF AddTabLive, Referenced
<1>15. CASE UNCHANGED <<panelOf, pc, panel, fetching, crossed>>
  BY <1>15
<1> QED
  BY <1>1, <1>2, <1>3, <1>4, <1>5, <1>6, <1>7, <1>8, <1>9, <1>10, <1>11, <1>12, <1>13,
     <1>14, <1>15
     DEF Next, WorkerStep, MenuStep, Activate, GoStale, ServiceChanges, HideBar,
         OpenMenu, Dismiss, RemoveCredentials, StoreCredentials, DropTab, PaneAdded,
         vars

\* The state of a panel agrees with its items.
LEMMA StateStep ==
  ASSUME TypeInv, TabsInv, StateMatchesItems, [Next]_vars
  PROVE  StateMatchesItems'
<1> USE NoneAssumption, TabsAssumption, VersionsAssumption
       DEF TypeInv, TabsTypeOK, PanelsTypeOK, WorkersTypeOK, WorkersAreSound, tabVars,
           menuVars, panelVars, workerVars, barVars, TabsInv, TabsAreMounted, PanelsAreOwn,
           FrontIsAPane, HasPane, WorkersKeepTheirPanel,
           StateMatchesItems, HasItems, Version
<1>1. ASSUME NEW w \in Workers, Land(w) PROVE StateMatchesItems'
  BY <1>1 DEF Land, ShowItems, ShowError, HasItems
<1>2. ASSUME NEW p \in Panels, AddTabLive(p) PROVE StateMatchesItems'
  BY <1>2 DEF AddTabLive, Referenced
<1>3. CASE UNCHANGED <<state, items>>
  BY <1>3
<1> QED
  BY <1>1, <1>2, <1>3
     DEF Next, WorkerStep, MenuStep, Check, FetchStarted, Resolve, StageFetching, Fetch,
         Stamp, FetchFinished, Report, ActionRefresh, Activate, TabActivated, GoStale,
         ServiceChanges, AppFocus, HideBar, OpenMenu, Dismiss, RemoveCredentials,
         StoreCredentials, DropTab, PaneRemoved, PaneAdded, vars

\* A bar that moves has a worker that will end it.
LEMMA BarStep ==
  ASSUME TypeInv, BarIsAttended, [Next]_vars
  PROVE  BarIsAttended'
<1> USE NoneAssumption, TabsAssumption, VersionsAssumption
       DEF TypeInv, TabsTypeOK, PanelsTypeOK, WorkersTypeOK, WorkersAreSound, tabVars,
           menuVars, panelVars, workerVars, barVars, TabsInv, TabsAreMounted, PanelsAreOwn,
           FrontIsAPane, HasPane, WorkersKeepTheirPanel,
           BarIsAttended, Bars
<1>1. ASSUME NEW w \in Workers, Check(w) PROVE BarIsAttended'
  BY <1>1 DEF Check
<1>2. ASSUME NEW w \in Workers, FetchStarted(w) PROVE BarIsAttended'
  BY <1>2 DEF FetchStarted
<1>3. ASSUME NEW w \in Workers, Resolve(w) PROVE BarIsAttended'
  BY <1>3 DEF Resolve
<1>4. ASSUME NEW w \in Workers, StageFetching(w) PROVE BarIsAttended'
  BY <1>4 DEF StageFetching, Show
<1>5. ASSUME NEW w \in Workers, Fetch(w) PROVE BarIsAttended'
  BY <1>5 DEF Fetch
<1>6. ASSUME NEW w \in Workers, Stamp(w) PROVE BarIsAttended'
  BY <1>6 DEF Stamp
<1>7. ASSUME NEW w \in Workers, Land(w) PROVE BarIsAttended'
  BY <1>7 DEF Land, ShowItems, ShowError, HasItems
<1>8. ASSUME NEW w \in Workers, FetchFinished(w) PROVE BarIsAttended'
  BY <1>8 DEF FetchFinished
<1>9. ASSUME NEW w \in Workers, Report(w) PROVE BarIsAttended'
  BY <1>9 DEF Report, Show
<1>10. ASSUME NEW w \in Workers, ActionRefresh(w) PROVE BarIsAttended'
  BY <1>10 DEF ActionRefresh, RefreshTab
<1>11. ASSUME NEW t \in Tabs, TabActivated(t) PROVE BarIsAttended'
  BY <1>11 DEF TabActivated, RefreshTab
<1>12. CASE AppFocus
  BY <1>12 DEF AppFocus, RefreshTab
<1>13. CASE HideBar
  BY <1>13 DEF HideBar
<1>14. CASE UNCHANGED <<bar, pc, staged, barred>>
  BY <1>14
<1> QED
  BY <1>1, <1>2, <1>3, <1>4, <1>5, <1>6, <1>7, <1>8, <1>9, <1>10, <1>11, <1>12, <1>13,
     <1>14
     DEF Next, WorkerStep, MenuStep, Activate, GoStale, ServiceChanges, OpenMenu,
         Dismiss, RemoveCredentials, StoreCredentials, DropTab, PaneRemoved, AddTabLive,
         PaneAdded, vars

\* A worker's tab has its panel, unless it was removed.
LEMMA OfTheTabStep ==
  ASSUME ~ Reconnect, TypeInv, TabsInv, WorkersAreOfTheTab, [Next]_vars
  PROVE  WorkersAreOfTheTab'
<1> USE NoneAssumption, TabsAssumption, VersionsAssumption
       DEF TypeInv, TabsTypeOK, PanelsTypeOK, WorkersTypeOK, WorkersAreSound, tabVars,
           menuVars, panelVars, workerVars, barVars, TabsInv, TabsAreMounted, PanelsAreOwn,
           FrontIsAPane, HasPane, WorkersKeepTheirPanel,
           WorkersAreOfTheTab
<1>1. ASSUME NEW w \in Workers, Stamp(w) PROVE WorkersAreOfTheTab'
  BY <1>1 DEF Stamp
<1>2. ASSUME NEW w \in Workers, Report(w) PROVE WorkersAreOfTheTab'
  BY <1>2 DEF Report, Show
<1>3. ASSUME NEW w \in Workers, ActionRefresh(w) PROVE WorkersAreOfTheTab'
  BY <1>3 DEF ActionRefresh, RefreshTab
<1>4. ASSUME NEW t \in Tabs, TabActivated(t) PROVE WorkersAreOfTheTab'
  BY <1>4 DEF TabActivated, RefreshTab
<1>5. ASSUME NEW t \in Tabs, GoStale(t) PROVE WorkersAreOfTheTab'
  BY <1>5 DEF GoStale
<1>6. CASE AppFocus
  BY <1>6 DEF AppFocus, RefreshTab
<1>7. CASE DropTab
  BY <1>7 DEF DropTab
<1>8. CASE PaneRemoved
  BY <1>8 DEF PaneRemoved
<1>9. ASSUME NEW p \in Panels, AddTabLive(p) PROVE WorkersAreOfTheTab'
  BY <1>9 DEF AddTabLive, Referenced
<1>10. CASE UNCHANGED <<panelOf, removed, fresh, tab, panel>>
  BY <1>10
<1> QED
  BY <1>1, <1>2, <1>3, <1>4, <1>5, <1>6, <1>7, <1>8, <1>9, <1>10
     DEF Next, WorkerStep, MenuStep, Check, FetchStarted, Resolve, StageFetching, Fetch,
         Land, FetchFinished, Activate, ServiceChanges, HideBar, OpenMenu, Dismiss,
         RemoveCredentials, StoreCredentials, PaneAdded, vars

\* A tab that counts as fetched and still loads has its items on the way.
LEMMA FreshStep ==
  ASSUME ~ Reconnect, TypeInv, TabsInv, WorkersAreOfTheTab, FreshIsLanding, [Next]_vars
  PROVE  FreshIsLanding'
<1> USE NoneAssumption, TabsAssumption, VersionsAssumption
       DEF TypeInv, TabsTypeOK, PanelsTypeOK, WorkersTypeOK, WorkersAreSound, tabVars,
           menuVars, panelVars, workerVars, barVars, TabsInv, TabsAreMounted, PanelsAreOwn,
           FrontIsAPane, HasPane, WorkersKeepTheirPanel,
           WorkersAreOfTheTab, FreshIsLanding
<1>1. ASSUME NEW w \in Workers, Check(w) PROVE FreshIsLanding'
  BY <1>1 DEF Check
<1>2. ASSUME NEW w \in Workers, FetchStarted(w) PROVE FreshIsLanding'
  BY <1>2 DEF FetchStarted
<1>3. ASSUME NEW w \in Workers, Resolve(w) PROVE FreshIsLanding'
  BY <1>3 DEF Resolve
<1>4. ASSUME NEW w \in Workers, StageFetching(w) PROVE FreshIsLanding'
  BY <1>4 DEF StageFetching, Show
<1>5. ASSUME NEW w \in Workers, Fetch(w) PROVE FreshIsLanding'
  BY <1>5 DEF Fetch
<1>6. ASSUME NEW w \in Workers, Stamp(w) PROVE FreshIsLanding'
  BY <1>6 DEF Stamp
<1>7. ASSUME NEW w \in Workers, Land(w) PROVE FreshIsLanding'
  BY <1>7 DEF Land, ShowItems, ShowError, HasItems
<1>8. ASSUME NEW w \in Workers, FetchFinished(w) PROVE FreshIsLanding'
  BY <1>8 DEF FetchFinished
<1>9. ASSUME NEW w \in Workers, Report(w) PROVE FreshIsLanding'
  BY <1>9 DEF Report, Show
<1>10. ASSUME NEW w \in Workers, ActionRefresh(w) PROVE FreshIsLanding'
  BY <1>10 DEF ActionRefresh, RefreshTab
<1>11. ASSUME NEW t \in Tabs, TabActivated(t) PROVE FreshIsLanding'
  BY <1>11 DEF TabActivated, RefreshTab
<1>12. ASSUME NEW t \in Tabs, GoStale(t) PROVE FreshIsLanding'
  BY <1>12 DEF GoStale
<1>13. CASE AppFocus
  BY <1>13 DEF AppFocus, RefreshTab
<1>14. CASE DropTab
  BY <1>14 DEF DropTab
<1>15. CASE PaneRemoved
  BY <1>15 DEF PaneRemoved
<1>16. ASSUME NEW p \in Panels, AddTabLive(p) PROVE FreshIsLanding'
  BY <1>16 DEF AddTabLive, Referenced
<1>17. CASE UNCHANGED <<panelOf, state, fresh, pc, panel>>
  BY <1>17
<1> QED
  BY <1>1, <1>2, <1>3, <1>4, <1>5, <1>6, <1>7, <1>8, <1>9, <1>10, <1>11, <1>12, <1>13,
     <1>14, <1>15, <1>16, <1>17
     DEF Next, WorkerStep, MenuStep, Activate, ServiceChanges, HideBar, OpenMenu,
         Dismiss, RemoveCredentials, StoreCredentials, PaneAdded, vars

\* The tab in front is not left loading.
LEMMA LoadingStep ==
  ASSUME ~ Reconnect, TypeInv, TabsInv, WorkersAreOfTheTab, FreshIsLanding, LoadingIsAttended,
         [Next]_vars
  PROVE  LoadingIsAttended'
<1> USE NoneAssumption, TabsAssumption, VersionsAssumption
       DEF TypeInv, TabsTypeOK, PanelsTypeOK, WorkersTypeOK, WorkersAreSound, tabVars,
           menuVars, panelVars, workerVars, barVars, TabsInv, TabsAreMounted, PanelsAreOwn,
           FrontIsAPane, HasPane, WorkersKeepTheirPanel,
           WorkersAreOfTheTab, FreshIsLanding, LoadingIsAttended, Bracket
<1>1. ASSUME NEW w \in Workers, Check(w) PROVE LoadingIsAttended'
  BY <1>1 DEF Check
<1>2. ASSUME NEW w \in Workers, FetchStarted(w) PROVE LoadingIsAttended'
  BY <1>2 DEF FetchStarted
<1>3. ASSUME NEW w \in Workers, Resolve(w) PROVE LoadingIsAttended'
  BY <1>3 DEF Resolve
<1>4. ASSUME NEW w \in Workers, StageFetching(w) PROVE LoadingIsAttended'
  BY <1>4 DEF StageFetching, Show
<1>5. ASSUME NEW w \in Workers, Fetch(w) PROVE LoadingIsAttended'
  BY <1>5 DEF Fetch
<1>6. ASSUME NEW w \in Workers, Stamp(w) PROVE LoadingIsAttended'
  BY <1>6 DEF Stamp
<1>7. ASSUME NEW w \in Workers, Land(w) PROVE LoadingIsAttended'
  BY <1>7 DEF Land, ShowItems, ShowError, HasItems
<1>8. ASSUME NEW w \in Workers, FetchFinished(w) PROVE LoadingIsAttended'
  BY <1>8 DEF FetchFinished
<1>9. ASSUME NEW w \in Workers, Report(w) PROVE LoadingIsAttended'
  BY <1>9 DEF Report, Show
<1>10. ASSUME NEW w \in Workers, ActionRefresh(w) PROVE LoadingIsAttended'
  BY <1>10 DEF ActionRefresh, RefreshTab
<1>11. ASSUME NEW t \in Tabs, Activate(t) PROVE LoadingIsAttended'
  BY <1>11 DEF Activate
<1>12. ASSUME NEW t \in Tabs, TabActivated(t) PROVE LoadingIsAttended'
  BY <1>12 DEF TabActivated, RefreshTab
<1>13. CASE AppFocus
  BY <1>13 DEF AppFocus, RefreshTab
<1>14. CASE PaneRemoved
  BY <1>14 DEF PaneRemoved
<1>15. ASSUME NEW p \in Panels, AddTabLive(p) PROVE LoadingIsAttended'
  BY <1>15 DEF AddTabLive, Referenced
<1>16. CASE PaneAdded
  BY <1>16 DEF PaneAdded
<1>17. CASE UNCHANGED <<active, activated, panelOf, state, pc, panel>>
  BY <1>17
<1> QED
  BY <1>1, <1>2, <1>3, <1>4, <1>5, <1>6, <1>7, <1>8, <1>9, <1>10, <1>11, <1>12, <1>13,
     <1>14, <1>15, <1>16, <1>17
     DEF Next, WorkerStep, MenuStep, GoStale, ServiceChanges, HideBar, OpenMenu,
         Dismiss, RemoveCredentials, StoreCredentials, DropTab, vars

-----------------------------------------------------------------------------
(* Theorems *)

\* The initial state satisfies the invariant.
LEMMA InitInv == Init => IInv
<1> SUFFICES ASSUME Init PROVE IInv
  OBVIOUS
<1> USE NoneAssumption, TabsAssumption, VersionsAssumption DEF Init
<1>1. TypeInv
  <2>1. TabsTypeOK
    BY DEF TabsTypeOK, Screens
  <2>2. PanelsTypeOK
    BY DEF PanelsTypeOK, States, Version
  <2>3. WorkersTypeOK /\ WorkersAreSound
    BY DEF WorkersTypeOK, WorkersAreSound, PCs, Bars
  <2> QED
    BY <2>1, <2>2, <2>3 DEF TypeInv
<1>2. TabsInv
  BY DEF TabsInv, TabsAreMounted, PanelsAreOwn, FrontIsAPane, HasPane, WorkersKeepTheirPanel
<1>3. OverlapIsCrossed /\ AnswersAreInOrder
  BY DEF OverlapIsCrossed, AnswersAreInOrder, Bracket, Version
<1>4. FetchingIsShown /\ StateMatchesItems /\ BarIsAttended
  BY DEF FetchingIsShown, StateMatchesItems, BarIsAttended, InBracket, Bracket
<1> QED
  BY <1>1, <1>2, <1>3, <1>4 DEF IInv, PanelsInv, PanelIsHonest

\* The invariant holds of every behaviour.
LEMMA Invariance == Spec => []IInv
<1>1. IInv /\ [Next]_vars => IInv'
  <2> SUFFICES ASSUME IInv, [Next]_vars PROVE IInv'
    OBVIOUS
  <2> USE DEF IInv, PanelsInv, PanelIsHonest
  <2>1. TypeInv'
    BY TypeStep
  <2> QED
    BY <2>1, TabsStep, OverlapStep, OrderStep, FetchingStep, StateStep, BarStep
<1> QED
  BY <1>1, InitInv, PTL DEF Spec

\* Every variable keeps its type, every worker its arguments from its start to its
\* last report, and every tab its own panel, which no worker takes for another
\* tab's: refresh_tab holds the panel object, not the tab's name.
THEOREM TypeCorrect == Spec => [](TypeInv /\ TabsInv)
  BY Invariance, PTL DEF IInv

\* A mounted panel shows a fetch exactly while one is under way, unless two overlap,
\* and a state that agrees with its items: on_fetch_started, _show_items, _show_error
\* and on_fetch_finished, from any number of workers.
THEOREM PanelsAreHonest == Spec => []PanelIsHonest
  BY Invariance, PTL DEF IInv, PanelsInv

\* Whenever the tab keys are not blocked the tab in front is one of tab_ids and has
\* its pane: drop_tab and add_tab_live end before their screen does.
THEOREM TabKeysFindTheirTab == Spec => []TabKeysAreSafe
<1>1. IInv => TabKeysAreSafe
  BY NoneAssumption
     DEF IInv, TypeInv, TabsTypeOK, TabsInv, TabsAreMounted, FrontIsAPane, HasPane,
         TabKeysAreSafe
<1> QED
  BY <1>1, Invariance, PTL

\* A panel goes back to older data only if two fetches of it ran at once.
THEOREM RewindsNeedTwo == Spec => RewindsOnlyWhenCrossed
<1>1. IInv /\ [Next]_vars =>
        [\A p \in Panels : 0 < items'[p] /\ items'[p] < items[p] => crossed[p]]_vars
  <2> SUFFICES ASSUME IInv, Next, NEW p \in Panels, 0 < items'[p], items'[p] < items[p]
               PROVE  crossed[p]
    BY DEF vars
  <2> USE NoneAssumption, VersionsAssumption
          DEF IInv, TypeInv, PanelsTypeOK, WorkersTypeOK, WorkersAreSound, Version
  <2>1. ASSUME NEW w \in Workers, Land(w) PROVE crossed[p]
    <3>1. panel[w] = p /\ result[w] \in Version /\ items'[p] = result[w]
      BY <2>1 DEF Land, ShowItems, ShowError
    <3> QED
      BY <2>1, <3>1 DEF Land, PanelsInv, AnswersAreInOrder
  <2>2. ASSUME NEW q \in Panels, AddTabLive(q) PROVE crossed[p]
    BY <2>2 DEF AddTabLive
  <2>3. CASE UNCHANGED items
    BY <2>3
  <2> QED
    BY <2>1, <2>2, <2>3 DEF Next, WorkerStep, MenuStep, panelVars, Check, FetchStarted,
       Resolve, StageFetching, Fetch, Stamp, FetchFinished, Report, ActionRefresh, Activate,
       TabActivated, GoStale, ServiceChanges, AppFocus, HideBar, OpenMenu, Dismiss,
       RemoveCredentials, StoreCredentials, DropTab, PaneRemoved, PaneAdded
<1> QED
  BY <1>1, Invariance, PTL DEF Spec, RewindsOnlyWhenCrossed

\* No integration being added again after its removal, neither the loading state of
\* the tab in front nor a moving refresh bar waits for a step nobody will make.
THEOREM NobodyIsLeftWaiting == ASSUME ~ Reconnect PROVE Spec => []WaitsAreAttended
<1>1. Init => LoadingInv
  BY NoneAssumption, TabsAssumption
     DEF Init, LoadingInv, WorkersAreOfTheTab, FreshIsLanding, LoadingIsAttended
<1>2. IInv /\ LoadingInv /\ [Next]_vars => LoadingInv'
  BY OfTheTabStep, FreshStep, LoadingStep DEF IInv, LoadingInv
<1> QED
  BY <1>1, <1>2, Invariance, PTL DEF Spec, IInv, LoadingInv, WaitsAreAttended

=============================================================================
