-------------------------- MODULE ConnectionsProofs --------------------------
(***************************************************************************)
(* Connecting and removing integrations one operation after another, beside *)
(* a dashboard, with failures and deaths anywhere: for every set of         *)
(* integrations and every number of commands.                               *)
(***************************************************************************)
EXTENDS Connections, TLAPS

ConnectionsTypeOK ==
    /\ tabs \in SUBSET Ids /\ creds \in SUBSET Ids /\ marks \in SUBSET Ids
    /\ running \in BOOLEAN /\ live \in [Ids -> 0 .. MaxPanes] /\ seen \in SUBSET Ids
    /\ pc \in [Actors -> PCs]
    /\ id \in [Actors -> Ids \cup {None}]
    /\ read \in [Actors -> SUBSET Ids]
    /\ gone \in SUBSET Ids /\ behind \in SUBSET Ids /\ stranded \in SUBSET Ids
    /\ cutConnect \in SUBSET Ids /\ cutRemove \in SUBSET Ids

\* Who is where: an operation is about an integration, unless it is a reordering; the
\* menu's is that of a running dashboard, and a stopped one shows nothing.
OperationsAreSound ==
    /\ \A a \in Actors : id[a] = None <=> pc[a] \in {"idle", "sort"}
    /\ \A c \in Commands : pc[c] \notin {"load", "mount", "confirm", "drop", "sort"}
    /\ pc[Ui] # "idle" => running
    /\ ~ running => seen = {} /\ \A i \in Ids : live[i] = 0

\* One operation at a time.
OneOperation == \A a, b \in Actors : pc[a] # "idle" /\ pc[b] # "idle" => a = b

\* No other operation changes the config between the read and the write of one.
ReadIsConfig ==
    \A a \in Actors :
        pc[a] \in {"save", "delete", "unlist", "sort"} \/ (pc[a] = "login" /\ a # Ui)
            => read[a] = tabs

\* What the two writes of an operation have done so far.
HalfDone ==
    \A a \in Actors :
        /\ pc[a] \in {"load", "save", "mount"} => id[a] \in creds
        /\ pc[a] = "mount" => id[a] \in tabs
        /\ pc[a] \in {"unlist", "recall", "purge", "drop"} => id[a] \notin creds
        /\ pc[a] \in {"recall", "purge", "drop"} => id[a] \notin tabs
        /\ pc[a] = "drop" => id[a] \notin marks

TypeInv == ConnectionsTypeOK /\ OperationsAreSound

Alone == OneOperation /\ ReadIsConfig /\ HalfDone

\* Purged marks are in no memory that is written back.  A pane that a removal in the
\* menu left is not that of a completed removal, unless a command completed it.
MarksAreForgotten ==
    /\ pc[Ui] \in RemovePCs => id[Ui] \notin gone
    /\ running => gone \cap stranded \subseteq behind
    /\ (gone \ behind) \cap seen = {}
    /\ \A a \in Actors : pc[a] = "purge" => (gone \ behind) \cap read[a] = {}

Forgotten == RemovedStaysRemoved /\ MarksAreForgotten

\* The dashboard shows the configured tabs also within an operation of its menu, but
\* for the one that the operation is about; that of a login has no pane yet.
LiveFollows ==
    running =>
        \A i \in Ids \ (behind \cup stranded) :
            \/ i \in tabs <=> live[i] > 0
            \/ pc[Ui] \in {"mount", "recall", "purge", "drop"} /\ id[Ui] = i
PaneIsNew ==
    pc[Ui] \in ConnectPCs => id[Ui] \in behind \cup stranded \/ live[id[Ui]] = 0

Shown == LiveFollows /\ PaneIsNew /\ OneTabPerIntegration

IInv == TypeInv /\ Alone /\ TokenAndTabGoTogether /\ Forgotten /\ Shown

-----------------------------------------------------------------------------
(* The inductive invariant *)

\* No integration has a pane yet.
LEMMA NoPanes == [i \in Ids |-> 0] \in [Ids -> 0 .. MaxPanes]
  BY DEF MaxPanes

\* The types of the initial state.
LEMMA TypeInit == Init => TypeInv
<1> SUFFICES ASSUME Init PROVE TypeInv
  OBVIOUS
<1>1. live \in [Ids -> 0 .. MaxPanes]
  BY NoPanes DEF Init
<1> QED
  BY <1>1, NoneAssumption, ActorsAssumption
     DEF Init, TypeInv, ConnectionsTypeOK, OperationsAreSound, Actors, PCs

\* Each step keeps every variable's type and every actor in its place.
LEMMA TypeStep ==
  ASSUME TypeInv, [Next]_vars
  PROVE  TypeInv'
<1> USE NoneAssumption, ActorsAssumption
       DEF TypeInv, ConnectionsTypeOK, OperationsAreSound, disk, dashboard, history,
           Actors, PCs, ConnectPCs, RemovePCs, MaxPanes
<1>1. ASSUME NEW c \in Commands, NEW i \in Ids, ConnectCommand(c, i) PROVE TypeInv'
  BY <1>1 DEF ConnectCommand, Begin, MayStart
<1>2. ASSUME NEW i \in Ids, AddIntegration(i) PROVE TypeInv'
  BY <1>2 DEF AddIntegration, Begin, MayStart
<1>3. ASSUME NEW a \in Actors, StoreToken(a) PROVE TypeInv'
  BY <1>3 DEF StoreToken, Continue
<1>4. CASE LoadConfig
  BY <1>4 DEF LoadConfig, Continue
<1>5. ASSUME NEW a \in Actors, SaveTab(a) PROVE TypeInv'
  BY <1>5 DEF SaveTab, Continue, End, Beside
<1>6. CASE MountTab
  BY <1>6 DEF MountTab, End
<1>7. ASSUME NEW c \in Commands, NEW i \in Ids, LogoutCommand(c, i) PROVE TypeInv'
  BY <1>7 DEF LogoutCommand, Begin, MayStart
<1>8. ASSUME NEW i \in Ids, ChooseRemoval(i) PROVE TypeInv'
  BY <1>8 DEF ChooseRemoval, Begin, MayStart
<1>9. CASE ConfirmRemoval
  BY <1>9 DEF ConfirmRemoval, Continue
<1>10. ASSUME NEW a \in Actors, DeleteToken(a) PROVE TypeInv'
  BY <1>10 DEF DeleteToken, Continue
<1>11. ASSUME NEW a \in Actors, UnlistTab(a) PROVE TypeInv'
  BY <1>11 DEF UnlistTab, Continue, Beside
<1>12. ASSUME NEW a \in Actors, RecallMarks(a) PROVE TypeInv'
  BY <1>12 DEF RecallMarks, Continue
<1>13. ASSUME NEW a \in Actors, PurgeMarks(a) PROVE TypeInv'
  BY <1>13 DEF PurgeMarks, Continue, End, Beside
<1>14. CASE DropTab
  BY <1>14 DEF DropTab, End
<1>15. CASE StartDashboard
  BY <1>15 DEF StartDashboard
<1>16. CASE Quit
  <2>1. live' \in [Ids -> 0 .. MaxPanes]
    BY <1>16, NoPanes DEF Quit, StopDashboard
  <2> QED
    BY <1>16, <2>1 DEF Quit, StopDashboard
<1>17. CASE Reorder
  BY <1>17 DEF Reorder, Begin, MayStart
<1>18. CASE SaveOrder
  BY <1>18 DEF SaveOrder, End
<1>19. ASSUME NEW i \in Ids, Mark(i) PROVE TypeInv'
  BY <1>19 DEF Mark
<1>20. ASSUME NEW a \in Actors, GiveUp(a) PROVE TypeInv'
  BY <1>20 DEF GiveUp, End, CutShort
<1>21. ASSUME NEW a \in Actors, Die(a) PROVE TypeInv'
  <2>1. CASE a = Ui
    <3>1. live' \in [Ids -> 0 .. MaxPanes]
      BY <1>21, <2>1, NoPanes DEF Die, StopDashboard
    <3>2. /\ pc' = [pc EXCEPT ![Ui] = "idle"] /\ id' = [id EXCEPT ![Ui] = None]
          /\ read' = [read EXCEPT ![Ui] = {}] /\ running' = FALSE /\ seen' = {}
          /\ UNCHANGED <<tabs, creds, marks, gone, behind>>
      BY <1>21, <2>1 DEF Die, End, CutShort, StopDashboard
    <3>3. pc[Ui] # "idle" /\ (id[Ui] \in Ids \/ pc[Ui] = "sort")
      BY <1>21, <2>1 DEF Die
    <3>4. cutConnect' \in SUBSET Ids /\ cutRemove' \in SUBSET Ids /\ stranded' \in SUBSET Ids
      BY <1>21, <2>1, <3>3 DEF Die, CutShort
    <3>5. \A i \in Ids : live'[i] = 0
      BY <1>21, <2>1 DEF Die, StopDashboard
    <3> QED
      BY <3>1, <3>2, <3>4, <3>5
  <2>2. CASE a # Ui
    BY <1>21, <2>2 DEF Die, End, CutShort
  <2> QED
    BY <2>1, <2>2
<1>22. CASE UNCHANGED vars
  BY <1>22 DEF vars
<1> QED
  BY <1>1, <1>2, <1>3, <1>4, <1>5, <1>6, <1>7, <1>8, <1>9, <1>10, <1>11, <1>12,
     <1>13, <1>14, <1>15, <1>16, <1>17, <1>18, <1>19, <1>20, <1>21, <1>22
     DEF Next, ConnectStep, RemoveStep, DashboardStep

\* Alone, an operation writes from what it read, and its two writes go together.
LEMMA AloneStep ==
  ASSUME ~ Overlap, IInv, TypeInv', [Next]_vars
  PROVE  Alone'
<1> USE NoneAssumption, ActorsAssumption
       DEF Alone, IInv, TypeInv, ConnectionsTypeOK, OperationsAreSound, OneOperation,
           ReadIsConfig, HalfDone, disk, dashboard, history, Actors
<1>1. ASSUME NEW c \in Commands, NEW i \in Ids, ConnectCommand(c, i) PROVE Alone'
  BY <1>1 DEF ConnectCommand, Begin, MayStart
<1>2. ASSUME NEW i \in Ids, AddIntegration(i) PROVE Alone'
  BY <1>2 DEF AddIntegration, Begin, MayStart
<1>3. ASSUME NEW a \in Actors, StoreToken(a) PROVE Alone'
  BY <1>3 DEF StoreToken, Continue
<1>4. CASE LoadConfig
  BY <1>4 DEF LoadConfig, Continue
<1>5. ASSUME NEW a \in Actors, SaveTab(a) PROVE Alone'
  BY <1>5 DEF SaveTab, Continue, End, Beside
<1>6. CASE MountTab
  BY <1>6 DEF MountTab, End
<1>7. ASSUME NEW c \in Commands, NEW i \in Ids, LogoutCommand(c, i) PROVE Alone'
  BY <1>7 DEF LogoutCommand, Begin, MayStart
<1>8. ASSUME NEW i \in Ids, ChooseRemoval(i) PROVE Alone'
  BY <1>8 DEF ChooseRemoval, Begin, MayStart
<1>9. CASE ConfirmRemoval
  BY <1>9 DEF ConfirmRemoval, Continue
<1>10. ASSUME NEW a \in Actors, DeleteToken(a) PROVE Alone'
  BY <1>10 DEF DeleteToken, Continue
<1>11. ASSUME NEW a \in Actors, UnlistTab(a) PROVE Alone'
  BY <1>11 DEF UnlistTab, Continue, Beside
<1>12. ASSUME NEW a \in Actors, RecallMarks(a) PROVE Alone'
  BY <1>12 DEF RecallMarks, Continue
<1>13. ASSUME NEW a \in Actors, PurgeMarks(a) PROVE Alone'
  BY <1>13 DEF PurgeMarks, Continue, End, Beside
<1>14. CASE DropTab
  BY <1>14 DEF DropTab, End
<1>15. CASE StartDashboard
  BY <1>15 DEF StartDashboard
<1>16. CASE Quit
  BY <1>16 DEF Quit, StopDashboard
<1>17. CASE Reorder
  BY <1>17 DEF Reorder, Begin, MayStart
<1>18. CASE SaveOrder
  BY <1>18 DEF SaveOrder, End
<1>19. ASSUME NEW i \in Ids, Mark(i) PROVE Alone'
  BY <1>19 DEF Mark
<1>20. ASSUME NEW a \in Actors, GiveUp(a) PROVE Alone'
  BY <1>20 DEF GiveUp, End, CutShort
<1>21. ASSUME NEW a \in Actors, Die(a) PROVE Alone'
  BY <1>21 DEF Die, End, CutShort, StopDashboard
<1>22. CASE UNCHANGED vars
  BY <1>22 DEF vars
<1> QED
  BY <1>1, <1>2, <1>3, <1>4, <1>5, <1>6, <1>7, <1>8, <1>9, <1>10, <1>11, <1>12,
     <1>13, <1>14, <1>15, <1>16, <1>17, <1>18, <1>19, <1>20, <1>21, <1>22
     DEF Next, ConnectStep, RemoveStep, DashboardStep

\* No step leaves a token without its tab, or a tab without its token.
LEMMA TokenAndTabStep ==
  ASSUME ~ Overlap, IInv, TypeInv', [Next]_vars
  PROVE  TokenAndTabGoTogether'
<1> USE NoneAssumption, ActorsAssumption
       DEF Alone, IInv, TypeInv, ConnectionsTypeOK, OperationsAreSound, OneOperation,
           ReadIsConfig, HalfDone, disk, dashboard, history, Actors,
           TokenAndTabGoTogether, ConnectedIsATab, TabHasToken
<1>1. ASSUME NEW c \in Commands, NEW i \in Ids, ConnectCommand(c, i) PROVE TokenAndTabGoTogether'
  BY <1>1 DEF ConnectCommand, Begin, MayStart
<1>2. ASSUME NEW i \in Ids, AddIntegration(i) PROVE TokenAndTabGoTogether'
  BY <1>2 DEF AddIntegration, Begin, MayStart
<1>3. ASSUME NEW a \in Actors, StoreToken(a) PROVE TokenAndTabGoTogether'
  BY <1>3 DEF StoreToken, Continue
<1>4. CASE LoadConfig
  BY <1>4 DEF LoadConfig, Continue
<1>5. ASSUME NEW a \in Actors, SaveTab(a) PROVE TokenAndTabGoTogether'
  BY <1>5 DEF SaveTab, Continue, End, Beside
<1>6. CASE MountTab
  BY <1>6 DEF MountTab, End
<1>7. ASSUME NEW c \in Commands, NEW i \in Ids, LogoutCommand(c, i) PROVE TokenAndTabGoTogether'
  BY <1>7 DEF LogoutCommand, Begin, MayStart
<1>8. ASSUME NEW i \in Ids, ChooseRemoval(i) PROVE TokenAndTabGoTogether'
  BY <1>8 DEF ChooseRemoval, Begin, MayStart
<1>9. CASE ConfirmRemoval
  BY <1>9 DEF ConfirmRemoval, Continue
<1>10. ASSUME NEW a \in Actors, DeleteToken(a) PROVE TokenAndTabGoTogether'
  BY <1>10 DEF DeleteToken, Continue
<1>11. ASSUME NEW a \in Actors, UnlistTab(a) PROVE TokenAndTabGoTogether'
  BY <1>11 DEF UnlistTab, Continue, Beside
<1>12. ASSUME NEW a \in Actors, RecallMarks(a) PROVE TokenAndTabGoTogether'
  BY <1>12 DEF RecallMarks, Continue
<1>13. ASSUME NEW a \in Actors, PurgeMarks(a) PROVE TokenAndTabGoTogether'
  BY <1>13 DEF PurgeMarks, Continue, End, Beside
<1>14. CASE DropTab
  BY <1>14 DEF DropTab, End
<1>15. CASE StartDashboard
  BY <1>15 DEF StartDashboard
<1>16. CASE Quit
  BY <1>16 DEF Quit, StopDashboard
<1>17. CASE Reorder
  BY <1>17 DEF Reorder, Begin, MayStart
<1>18. CASE SaveOrder
  BY <1>18 DEF SaveOrder, End
<1>19. ASSUME NEW i \in Ids, Mark(i) PROVE TokenAndTabGoTogether'
  BY <1>19 DEF Mark
<1>20. ASSUME NEW a \in Actors, GiveUp(a) PROVE TokenAndTabGoTogether'
  BY <1>20 DEF GiveUp, End, CutShort
<1>21. ASSUME NEW a \in Actors, Die(a) PROVE TokenAndTabGoTogether'
  BY <1>21 DEF Die, End, CutShort, StopDashboard
<1>22. CASE UNCHANGED vars
  BY <1>22 DEF vars
<1> QED
  BY <1>1, <1>2, <1>3, <1>4, <1>5, <1>6, <1>7, <1>8, <1>9, <1>10, <1>11, <1>12,
     <1>13, <1>14, <1>15, <1>16, <1>17, <1>18, <1>19, <1>20, <1>21, <1>22
     DEF Next, ConnectStep, RemoveStep, DashboardStep

\* No step brings back what a removal took away.
LEMMA ForgottenStep ==
  ASSUME ~ Overlap, IInv, TypeInv', [Next]_vars
  PROVE  Forgotten'
<1> USE NoneAssumption, ActorsAssumption
       DEF Alone, IInv, TypeInv, ConnectionsTypeOK, OperationsAreSound, OneOperation,
           ReadIsConfig, HalfDone, disk, dashboard, history, Actors,
           Forgotten, RemovedStaysRemoved, TokenStaysRemoved, TabStaysRemoved,
           MarksStayRemoved, MarksAreForgotten, Shown, LiveFollows, RemovePCs
<1>1. ASSUME NEW c \in Commands, NEW i \in Ids, ConnectCommand(c, i) PROVE Forgotten'
  BY <1>1 DEF ConnectCommand, Begin, MayStart
<1>2. ASSUME NEW i \in Ids, AddIntegration(i) PROVE Forgotten'
  BY <1>2 DEF AddIntegration, Begin, MayStart
<1>3. ASSUME NEW a \in Actors, StoreToken(a) PROVE Forgotten'
  BY <1>3 DEF StoreToken, Continue
<1>4. CASE LoadConfig
  BY <1>4 DEF LoadConfig, Continue
<1>5. ASSUME NEW a \in Actors, SaveTab(a) PROVE Forgotten'
  BY <1>5 DEF SaveTab, Continue, End, Beside
<1>6. CASE MountTab
  BY <1>6 DEF MountTab, End
<1>7. ASSUME NEW c \in Commands, NEW i \in Ids, LogoutCommand(c, i) PROVE Forgotten'
  BY <1>7 DEF LogoutCommand, Begin, MayStart
<1>8. ASSUME NEW i \in Ids, ChooseRemoval(i) PROVE Forgotten'
  BY <1>8 DEF ChooseRemoval, Begin, MayStart
<1>9. CASE ConfirmRemoval
  BY <1>9 DEF ConfirmRemoval, Continue
<1>10. ASSUME NEW a \in Actors, DeleteToken(a) PROVE Forgotten'
  BY <1>10 DEF DeleteToken, Continue
<1>11. ASSUME NEW a \in Actors, UnlistTab(a) PROVE Forgotten'
  BY <1>11 DEF UnlistTab, Continue, Beside
<1>12. ASSUME NEW a \in Actors, RecallMarks(a) PROVE Forgotten'
  BY <1>12 DEF RecallMarks, Continue
<1>13. ASSUME NEW a \in Actors, PurgeMarks(a) PROVE Forgotten'
  BY <1>13 DEF PurgeMarks, Continue, End, Beside
<1>14. CASE DropTab
  BY <1>14 DEF DropTab, End
<1>15. CASE StartDashboard
  BY <1>15 DEF StartDashboard
<1>16. CASE Quit
  BY <1>16 DEF Quit, StopDashboard
<1>17. CASE Reorder
  BY <1>17 DEF Reorder, Begin, MayStart
<1>18. CASE SaveOrder
  BY <1>18 DEF SaveOrder, End
<1>19. ASSUME NEW i \in Ids, Mark(i) PROVE Forgotten'
  BY <1>19 DEF Mark
<1>20. ASSUME NEW a \in Actors, GiveUp(a) PROVE Forgotten'
  BY <1>20 DEF GiveUp, End, CutShort
<1>21. ASSUME NEW a \in Actors, Die(a) PROVE Forgotten'
  BY <1>21 DEF Die, End, CutShort, StopDashboard
<1>22. CASE UNCHANGED vars
  BY <1>22 DEF vars
<1> QED
  BY <1>1, <1>2, <1>3, <1>4, <1>5, <1>6, <1>7, <1>8, <1>9, <1>10, <1>11, <1>12,
     <1>13, <1>14, <1>15, <1>16, <1>17, <1>18, <1>19, <1>20, <1>21, <1>22
     DEF Next, ConnectStep, RemoveStep, DashboardStep

\* No step makes the dashboard show other tabs than the configured ones.
LEMMA ShownStep ==
  ASSUME ~ Overlap, IInv, TypeInv', [Next]_vars
  PROVE  Shown'
<1> USE NoneAssumption, ActorsAssumption
       DEF Alone, IInv, TypeInv, ConnectionsTypeOK, OperationsAreSound, OneOperation,
           ReadIsConfig, HalfDone, disk, dashboard, history, Actors,
           Shown, LiveFollows, PaneIsNew, OneTabPerIntegration, ConnectPCs, Forgotten,
           RemovedStaysRemoved, TabStaysRemoved
<1>1. ASSUME NEW c \in Commands, NEW i \in Ids, ConnectCommand(c, i) PROVE Shown'
  BY <1>1 DEF ConnectCommand, Begin, MayStart
<1>2. ASSUME NEW i \in Ids, AddIntegration(i) PROVE Shown'
  BY <1>2 DEF AddIntegration, Begin, MayStart
<1>3. ASSUME NEW a \in Actors, StoreToken(a) PROVE Shown'
  BY <1>3 DEF StoreToken, Continue
<1>4. CASE LoadConfig
  BY <1>4 DEF LoadConfig, Continue
<1>5. ASSUME NEW a \in Actors, SaveTab(a) PROVE Shown'
  BY <1>5 DEF SaveTab, Continue, End, Beside
<1>6. CASE MountTab
  BY <1>6 DEF MountTab, End
<1>7. ASSUME NEW c \in Commands, NEW i \in Ids, LogoutCommand(c, i) PROVE Shown'
  BY <1>7 DEF LogoutCommand, Begin, MayStart
<1>8. ASSUME NEW i \in Ids, ChooseRemoval(i) PROVE Shown'
  BY <1>8 DEF ChooseRemoval, Begin, MayStart
<1>9. CASE ConfirmRemoval
  BY <1>9 DEF ConfirmRemoval, Continue
<1>10. ASSUME NEW a \in Actors, DeleteToken(a) PROVE Shown'
  BY <1>10 DEF DeleteToken, Continue
<1>11. ASSUME NEW a \in Actors, UnlistTab(a) PROVE Shown'
  BY <1>11 DEF UnlistTab, Continue, Beside
<1>12. ASSUME NEW a \in Actors, RecallMarks(a) PROVE Shown'
  BY <1>12 DEF RecallMarks, Continue
<1>13. ASSUME NEW a \in Actors, PurgeMarks(a) PROVE Shown'
  BY <1>13 DEF PurgeMarks, Continue, End, Beside
<1>14. CASE DropTab
  BY <1>14 DEF DropTab, End
<1>15. CASE StartDashboard
  BY <1>15 DEF StartDashboard
<1>16. CASE Quit
  BY <1>16 DEF Quit, StopDashboard
<1>17. CASE Reorder
  BY <1>17 DEF Reorder, Begin, MayStart
<1>18. CASE SaveOrder
  BY <1>18 DEF SaveOrder, End
<1>19. ASSUME NEW i \in Ids, Mark(i) PROVE Shown'
  BY <1>19 DEF Mark
<1>20. ASSUME NEW a \in Actors, GiveUp(a) PROVE Shown'
  BY <1>20 DEF GiveUp, End, CutShort
<1>21. ASSUME NEW a \in Actors, Die(a) PROVE Shown'
  BY <1>21 DEF Die, End, CutShort, StopDashboard
<1>22. CASE UNCHANGED vars
  BY <1>22 DEF vars
<1> QED
  BY <1>1, <1>2, <1>3, <1>4, <1>5, <1>6, <1>7, <1>8, <1>9, <1>10, <1>11, <1>12,
     <1>13, <1>14, <1>15, <1>16, <1>17, <1>18, <1>19, <1>20, <1>21, <1>22
     DEF Next, ConnectStep, RemoveStep, DashboardStep

-----------------------------------------------------------------------------
(* Theorems *)

\* Every variable keeps its type and every operation its actor: a command never
\* is in a step of the menu, a menu operation is that of a running dashboard,
\* and a stopped dashboard shows nothing, also when operations overlap.
THEOREM TypeCorrect == Spec => []TypeInv
  BY TypeInit, TypeStep, PTL DEF Spec

\* The invariant holds of every behaviour.
LEMMA Invariance == ASSUME ~ Overlap PROVE Spec => []IInv
<1>1. Init => Alone /\ TokenAndTabGoTogether /\ Forgotten /\ Shown
  BY NoneAssumption, ActorsAssumption
     DEF Init, Actors, Alone, OneOperation, ReadIsConfig, HalfDone, TokenAndTabGoTogether,
         ConnectedIsATab, TabHasToken, Forgotten, RemovedStaysRemoved, TokenStaysRemoved,
         TabStaysRemoved, MarksStayRemoved, MarksAreForgotten, Shown, LiveFollows,
         PaneIsNew, OneTabPerIntegration, ConnectPCs, RemovePCs
<1>2. IInv /\ [Next]_vars => IInv'
  <2> SUFFICES ASSUME IInv, [Next]_vars PROVE IInv'
    OBVIOUS
  <2>1. TypeInv'
    BY TypeStep DEF IInv
  <2> QED
    BY <2>1, AloneStep, TokenAndTabStep, ForgottenStep, ShownStep DEF IInv
<1> QED
  BY TypeInit, <1>1, <1>2, PTL DEF Spec, IInv

\* When operations do not overlap, a token and its tab entry come and go
\* together, whatever fails or dies: cli.connect_command and open_tab_for store
\* the token first, remove_integration deletes it first, and only an operation
\* cut short between its two writes leaves one without the other.
THEOREM TokensHaveTabs == ASSUME ~ Overlap PROVE Spec => []TokenAndTabGoTogether
  BY Invariance, PTL DEF IInv

\* When operations do not overlap, what remove_integration took away (token,
\* tab, seen marks) is gone until the next login of that integration.
THEOREM RemovalsLast == ASSUME ~ Overlap PROVE Spec => []RemovedStaysRemoved
<1>1. IInv => RemovedStaysRemoved
  BY DEF IInv, Forgotten
<1> QED
  BY <1>1, Invariance, PTL

\* When operations do not overlap, the dashboard shows each configured tab once
\* and nothing else between two operations of its menu, except what a command
\* changed beside it and what a removal in the menu left: RemoveConfirmModal._fail
\* closes the modal and drops no pane, also when only the purge of the marks failed.
THEOREM TabsAreShown == ASSUME ~ Overlap PROVE Spec => []TabsShownAreConfigured
<1>1. IInv => TabsShownAreConfigured
  BY DEF IInv, Shown, LiveFollows, TabsShownAreConfigured, LiveIsConfigured
<1> QED
  BY <1>1, Invariance, PTL

=============================================================================
