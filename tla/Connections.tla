----------------------------- MODULE Connections -----------------------------
(***************************************************************************)
(* Connecting and removing integrations: cli.py's commands and the menu of *)
(* a running dashboard, over the three stores they share (config.toml, the *)
(* credentials, state.json).  A command or a menu operation is a sequence  *)
(* of reads and writes of single stores; other processes run between them, *)
(* and any of them may fail or die there.                                  *)
(*                                                                         *)
(* A store is the set of integrations it holds something about; that one   *)
(* write of a store is atomic is PrivateFile's subject, and updates of the *)
(* credential store are TokenRefresh's.                                    *)
(***************************************************************************)
EXTENDS Integers

CONSTANTS
    Ids,        \* supported integrations
    Commands,   \* CLI processes
    Ui,         \* the menu of the dashboard
    Overlap,    \* may an operation start while another is under way?
    Faults,     \* may calls fail and processes die?
    None

ASSUME ActorsAssumption == Ui \notin Commands
ASSUME FlagsAssumption == Overlap \in BOOLEAN /\ Faults \in BOOLEAN
ASSUME NoneAssumption == None \notin Ids

VARIABLES
    tabs,       \* config.toml: integrations with a tab entry
    creds,      \* the credential store: integrations with a token
    marks,      \* state.json: integrations with seen marks
    running,    \* is the dashboard running?
    live,       \* live[i]: the entries of i in the dashboard's tab_ids
    seen,       \* integrations with marks in the dashboard's SeenState
    pc,         \* pc[a]: the next step of a's operation
    id,         \* id[a]: the integration it is about, or None
    read,       \* read[a]: what it has read of the store it is to write
    gone,       \* integrations whose removal completed, with no login since
    cutConnect, \* token stored, but the connect ended before the tab was saved
    cutRemove,  \* token deleted, but the removal ended before the tab was
    behind,     \* integrations a command changed beside the running dashboard
    stranded    \* their removal in the menu ended before the pane was dropped

disk == <<tabs, creds, marks>>
dashboard == <<running, live, seen>>
history == <<gone, cutConnect, cutRemove, behind, stranded>>
vars == <<disk, dashboard, pc, id, read, history>>

Actors == Commands \cup {Ui}
ConnectPCs == {"login", "load", "save", "mount"}
RemovePCs == {"confirm", "delete", "unlist", "recall", "purge", "drop"}
PCs == {"idle", "sort"} \cup ConnectPCs \cup RemovePCs

\* Bound: entries of one integration in tab_ids.
MaxPanes == 2

\* A fresh machine, or one with connected integrations.
Init ==
    /\ tabs \in SUBSET Ids
    /\ creds = tabs
    /\ marks = {}
    /\ running = FALSE
    /\ live = [i \in Ids |-> 0]
    /\ seen = {}
    /\ pc = [a \in Actors |-> "idle"]
    /\ id = [a \in Actors |-> None]
    /\ read = [a \in Actors |-> {}]
    /\ gone = {} /\ cutConnect = {} /\ cutRemove = {} /\ behind = {} /\ stranded = {}

-----------------------------------------------------------------------------
(* Steps of an operation *)

MayStart(a) ==
    /\ pc[a] = "idle"
    /\ a = Ui => running
    /\ Overlap \/ \A b \in Actors : pc[b] = "idle"

Begin(a, i, step, snapshot) ==
    /\ MayStart(a)
    /\ pc' = [pc EXCEPT ![a] = step]
    /\ id' = [id EXCEPT ![a] = i]
    /\ read' = [read EXCEPT ![a] = snapshot]

Continue(a, step) ==
    /\ pc' = [pc EXCEPT ![a] = step]
    /\ UNCHANGED id

End(a) ==
    /\ pc' = [pc EXCEPT ![a] = "idle"]
    /\ id' = [id EXCEPT ![a] = None]
    /\ read' = [read EXCEPT ![a] = {}]

\* What a command writes, a running dashboard does not see.
Beside(a) ==
    behind' = IF a # Ui /\ running THEN behind \cup {id[a]} ELSE behind

-----------------------------------------------------------------------------
(* Connecting *)

\* `smorg connect`: the config is loaded before the login.
ConnectCommand(c, i) ==
    /\ Begin(c, i, "login", tabs)
    /\ UNCHANGED <<disk, dashboard, history>>

\* Bug: the menu offers configured integrations too.
AddAnything(i) ==
    /\ Begin(Ui, i, "login", {})
    /\ UNCHANGED <<disk, dashboard, history>>

\* "Add integration" offers what has no configured tab.
AddIntegration(i) ==
    /\ i \notin tabs
    /\ Begin(Ui, i, "login", {})
    /\ UNCHANGED <<disk, dashboard, history>>

\* The login has ended and set_credentials stores its token.
StoreToken(a) ==
    /\ pc[a] = "login"
    /\ creds' = creds \cup {id[a]}
    /\ gone' = gone \ {id[a]}
    /\ cutRemove' = cutRemove \ {id[a]}
    /\ Continue(a, IF a = Ui THEN "load" ELSE "save")
    /\ UNCHANGED <<tabs, marks, dashboard, read, cutConnect, behind, stranded>>

\* open_tab_for loads the config only now.
LoadConfig ==
    /\ pc[Ui] = "load"
    /\ read' = [read EXCEPT ![Ui] = tabs]
    /\ Continue(Ui, "save")
    /\ UNCHANGED <<disk, dashboard, history>>

\* save_config(add_tab(config, tab)).
SaveTab(a) ==
    /\ pc[a] = "save"
    /\ tabs' = read[a] \cup {id[a]}
    /\ cutConnect' = cutConnect \ {id[a]}
    /\ IF a = Ui THEN Continue(a, "mount") /\ UNCHANGED read ELSE End(a)
    /\ Beside(a)
    /\ UNCHANGED <<creds, marks, dashboard, gone, cutRemove, stranded>>

\* add_tab_live.
MountTab ==
    /\ pc[Ui] = "mount"
    /\ live[id[Ui]] < MaxPanes
    /\ live' = [live EXCEPT ![id[Ui]] = @ + 1]
    /\ End(Ui)
    /\ UNCHANGED <<disk, running, seen, history>>

-----------------------------------------------------------------------------
(* Removing: remove_integration *)

\* `smorg logout` of anything.  The config is loaded before the revocation.
LogoutCommand(c, i) ==
    /\ Begin(c, i, "delete", tabs)
    /\ UNCHANGED <<disk, dashboard, history>>

\* "Remove integration" offers the configured tabs.
ChooseRemoval(i) ==
    /\ i \in tabs
    /\ Begin(Ui, i, "confirm", {})
    /\ UNCHANGED <<disk, dashboard, history>>

\* The user confirms; remove_integration loads the config.
ConfirmRemoval ==
    /\ pc[Ui] = "confirm"
    /\ read' = [read EXCEPT ![Ui] = tabs]
    /\ Continue(Ui, "delete")
    /\ UNCHANGED <<disk, dashboard, history>>

\* Bug: a token that could not be deleted does not stop the removal.
DeleteTokenPerhaps(a) ==
    /\ pc[a] = "delete"
    /\ creds' \in {creds, creds \ {id[a]}}
    /\ cutConnect' = cutConnect \ {id[a]}
    /\ Continue(a, IF id[a] \in read[a] THEN "unlist" ELSE "recall")
    /\ UNCHANGED <<tabs, marks, dashboard, read, gone, cutRemove, behind, stranded>>

\* Bug: the token of what has no tab is not looked for.
DeleteTokenOfTab(a) ==
    /\ pc[a] = "delete"
    /\ IF id[a] \in read[a]
         THEN creds' = creds \ {id[a]} /\ cutConnect' = cutConnect \ {id[a]}
         ELSE UNCHANGED <<creds, cutConnect>>
    /\ Continue(a, IF id[a] \in read[a] THEN "unlist" ELSE "recall")
    /\ UNCHANGED <<tabs, marks, dashboard, read, gone, cutRemove, behind, stranded>>

\* After the revocation: delete_credentials; then the tab, if it was there.
DeleteToken(a) ==
    /\ pc[a] = "delete"
    /\ creds' = creds \ {id[a]}
    /\ cutConnect' = cutConnect \ {id[a]}
    /\ Continue(a, IF id[a] \in read[a] THEN "unlist" ELSE "recall")
    /\ UNCHANGED <<tabs, marks, dashboard, read, gone, cutRemove, behind, stranded>>

\* save_config of the other tabs that were loaded.
UnlistTab(a) ==
    /\ pc[a] = "unlist"
    /\ tabs' = read[a] \ {id[a]}
    /\ cutRemove' = cutRemove \ {id[a]}
    /\ Continue(a, "recall")
    /\ Beside(a)
    /\ UNCHANGED <<creds, marks, dashboard, read, gone, cutConnect, stranded>>

\* SeenState.load().
RecallMarks(a) ==
    /\ pc[a] = "recall"
    /\ read' = [read EXCEPT ![a] = marks]
    /\ Continue(a, "purge")
    /\ UNCHANGED <<disk, dashboard, history>>

\* state.forget(integration_id), state.save(): a command ends here.
PurgeMarks(a) ==
    /\ pc[a] = "purge"
    /\ marks' = read[a] \ {id[a]}
    /\ IF a = Ui
         THEN Continue(a, "drop") /\ UNCHANGED <<read, gone>>
         ELSE End(a) /\ gone' = gone \cup {id[a]}
    /\ Beside(a)
    /\ UNCHANGED <<tabs, creds, dashboard, cutConnect, cutRemove, stranded>>

\* Bug: the pane is kept.
ForgetOnly ==
    /\ pc[Ui] = "drop"
    /\ seen' = seen \ {id[Ui]}
    /\ gone' = gone \cup {id[Ui]}
    /\ behind' = behind \ {id[Ui]}
    /\ stranded' = stranded \ {id[Ui]}
    /\ End(Ui)
    /\ UNCHANGED <<disk, running, live, cutConnect, cutRemove>>

\* _succeed: app.seen.forget and drop_tab.
DropTab ==
    /\ pc[Ui] = "drop"
    /\ seen' = seen \ {id[Ui]}
    /\ live' = [live EXCEPT ![id[Ui]] = 0]
    /\ gone' = gone \cup {id[Ui]}
    /\ behind' = behind \ {id[Ui]}
    /\ stranded' = stranded \ {id[Ui]}
    /\ End(Ui)
    /\ UNCHANGED <<disk, running, cutConnect, cutRemove>>

-----------------------------------------------------------------------------
(* The rest of the dashboard *)

\* _run: the tabs are read, on_mount loads the seen-state.
StartDashboard ==
    /\ ~ running
    /\ running' = TRUE
    /\ live' = [i \in Ids |-> IF i \in tabs THEN 1 ELSE 0]
    /\ seen' = marks
    /\ behind' = behind \cap gone
    /\ stranded' = {}
    /\ UNCHANGED <<disk, pc, id, read, gone, cutConnect, cutRemove>>

StopDashboard ==
    /\ running' = FALSE
    /\ live' = [i \in Ids |-> 0]
    /\ seen' = {}

Quit ==
    /\ running
    /\ pc[Ui] = "idle"
    /\ StopDashboard
    /\ UNCHANGED <<disk, pc, id, read, history>>

\* The reorder screen is saved: the config is loaded ...
Reorder ==
    /\ Begin(Ui, None, "sort", tabs)
    /\ UNCHANGED <<disk, dashboard, history>>

\* ... and saved with the same tabs in another order; apply_tab_order places
\* each of them once.
SaveOrder ==
    /\ pc[Ui] = "sort"
    /\ tabs' = read[Ui]
    /\ live' = [i \in Ids |-> IF i \in read[Ui] /\ live[i] > 1 THEN 1 ELSE live[i]]
    /\ End(Ui)
    /\ UNCHANGED <<creds, marks, running, seen, history>>

\* mark_seen, mark_all_seen, mark_unseen: SeenState.save writes all marks in
\* memory; the marks stay in memory when it fails.
Mark(i) ==
    /\ running
    /\ pc[Ui] = "idle"
    /\ live[i] > 0
    /\ seen' \in {seen \cup {i}, seen \ {i}}
    /\ marks' = seen' \/ (Faults /\ UNCHANGED marks)
    /\ UNCHANGED <<tabs, creds, running, live, pc, id, read, history>>

-----------------------------------------------------------------------------
(* Faults *)

\* What an operation leaves half done if it ends where a is.
CutShort(a) ==
    /\ cutConnect' = cutConnect \cup
          (IF pc[a] \in {"load", "save"} THEN {id[a]} \ tabs ELSE {})
    /\ cutRemove' = cutRemove \cup
          (IF pc[a] = "unlist" THEN {id[a]} \ creds ELSE {})
    /\ stranded' = stranded \cup
          (IF a = Ui /\ pc[a] = "purge" THEN {id[a]} ELSE {})
    /\ UNCHANGED <<gone, behind>>

\* A login that fails, a screen that is cancelled, a CredentialStoreError or a
\* ConfigError (the save of state.json raises it too): the operation ends, nothing
\* is undone, and a dashboard goes on.
GiveUp(a) ==
    /\ Faults \/ pc[a] \in {"login", "confirm"}
    /\ pc[a] \in {"login", "confirm", "load", "save", "delete", "unlist", "purge", "sort"}
    /\ End(a)
    /\ CutShort(a)
    /\ UNCHANGED <<disk, dashboard>>

\* A process dies, or its purge of state.json raises OSError, caught by nobody.
Die(a) ==
    /\ Faults
    /\ pc[a] # "idle"
    /\ End(a)
    /\ CutShort(a)
    /\ IF a = Ui THEN StopDashboard ELSE UNCHANGED dashboard
    /\ UNCHANGED disk

-----------------------------------------------------------------------------

ConnectStep ==
    \/ \E c \in Commands, i \in Ids : ConnectCommand(c, i)
    \/ \E i \in Ids : AddIntegration(i)
    \/ \E a \in Actors : StoreToken(a) \/ SaveTab(a)
    \/ LoadConfig
    \/ MountTab

RemoveStep ==
    \/ \E c \in Commands, i \in Ids : LogoutCommand(c, i)
    \/ \E i \in Ids : ChooseRemoval(i)
    \/ ConfirmRemoval
    \/ \E a \in Actors : DeleteToken(a) \/ UnlistTab(a) \/ RecallMarks(a) \/ PurgeMarks(a)
    \/ DropTab

DashboardStep ==
    \/ StartDashboard
    \/ Quit
    \/ Reorder
    \/ SaveOrder
    \/ \E i \in Ids : Mark(i)

Next ==
    \/ ConnectStep
    \/ RemoveStep
    \/ DashboardStep
    \/ \E a \in Actors : GiveUp(a) \/ Die(a)

Spec == Init /\ [][Next]_vars

-----------------------------------------------------------------------------
(* Properties *)

\* "Each connected integration is a tab": a stored token has a tab entry,
\* unless a connect is, or was cut short, between its two writes.  Above all,
\* no removal, whatever fails in it, leaves a token that no tab points to.
ConnectedIsATab ==
    \A i \in creds \ tabs :
        \/ i \in cutConnect
        \/ \E a \in Actors : id[a] = i /\ pc[a] \in {"load", "save"}

\* "A recorded tab without its token is broken": there is none, unless a
\* removal is, or was cut short, between its two writes.
TabHasToken ==
    \A i \in tabs \ creds :
        \/ i \in cutRemove
        \/ \E a \in Actors : id[a] = i /\ pc[a] = "unlist"

TokenAndTabGoTogether == ConnectedIsATab /\ TabHasToken

\* "smorg logout (or Remove integration) removes a tab, its stored token, and
\* its seen marks", each for good until the next login; the marks, unless the
\* dashboard had them in memory while a command removed them beside it.
TokenStaysRemoved == gone \cap creds = {}
TabStaysRemoved == gone \cap tabs = {}
MarksStayRemoved == (gone \ behind) \cap marks = {}

RemovedStaysRemoved == TokenStaysRemoved /\ TabStaysRemoved /\ MarksStayRemoved

\* "One tab per integration", in the running dashboard too, whatever was cut
\* short, unless a command changed the integration beside it, or its removal in
\* the menu saved the config and then failed to purge the marks: remove.py leaves
\* the pane, and what is no longer configured can be added a second time.
OneTabPerIntegration == \A i \in Ids \ (behind \cup stranded) : live[i] <= 1

\* Between two operations of its menu the dashboard shows the configured tabs,
\* but for those two kinds.
LiveIsConfigured ==
    running /\ pc[Ui] = "idle" =>
        \A i \in Ids \ (behind \cup stranded) : i \in tabs <=> live[i] > 0

\* The dashboard shows the configured tabs, each once, but for those two kinds.
TabsShownAreConfigured == OneTabPerIntegration /\ LiveIsConfigured

=============================================================================
