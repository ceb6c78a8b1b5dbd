------------------------------- MODULE TabOrder -------------------------------
(***************************************************************************)
(* The order of the tabs, in config.toml and on the screen of a running     *)
(* dashboard: the reorder screen works on what it read when it was opened   *)
(* (shell/menu/reorder.py), while commands add and remove tabs beside it    *)
(* (cli.py, core/removal.py).  A login and a revocation take their time     *)
(* between the read of the config and its save; what the other stores hold  *)
(* is Connections' subject.                                                 *)
(***************************************************************************)
EXTENDS Lists, SequencesExt

CONSTANTS Integrations, MaxChanges   \* integrations; bound on the operations

ASSUME TabOrderAssumption == IsFiniteSet(Integrations)

VARIABLES
    config,      \* config.toml: the integrations in order
    shown,       \* SmorgApp.tab_ids
    chosen,      \* the integration that the menu is connecting, if any
    order,       \* the reorder screen's list, or <<>> when it is closed
    moved,       \* its _moved
    command,     \* the command or the menu's removal under way
    changes,     \* their number
    wanted,      \* history: the tabs that were added and not removed
    touched,     \* history: the tabs changed in the config and not on the screen
    lastSave,    \* history: the number of saves
    overwritten  \* history: a save was made from a config older than another save

barVars == <<shown, order, moved, chosen>>
tabVars == <<config, barVars, command, changes, wanted, touched, lastSave, overwritten>>

NoCommand == [is |-> "none"]
Without(list, id) == Kept(list, ToSet(list) \ {id})

TabOrderInit ==
    /\ \E n \in {0, Cardinality(Integrations)} :
          config \in {s \in [1 .. n -> Integrations] : IsInjective(s)}
    /\ shown = config /\ order = <<>> /\ moved = FALSE /\ chosen = {}
    /\ command = NoCommand /\ changes = 0
    /\ wanted = ToSet(config) /\ touched = {} /\ lastSave = 0 /\ overwritten = FALSE

\* save_config, of something made from the config as it was after `loadedAt' saves.
Save(tabs, loadedAt) ==
    /\ config' = tabs
    /\ lastSave' = lastSave + 1
    /\ overwritten' = (overwritten \/ loadedAt # lastSave)

-----------------------------------------------------------------------------
(* Adding and removing, which load the config, wait, and save it.           *)

\* add_tab: an entry of the integration is replaced where it is.
AddTab(list, id) == IF Contains(list, id) THEN list ELSE Append(list, id)

Begins(operation, by, id) ==
    /\ command = NoCommand /\ changes < MaxChanges
    /\ changes' = changes + 1
    /\ command' = [is |-> operation, by |-> by, id |-> id, loaded |-> config, at |-> lastSave]
    /\ UNCHANGED <<config, barVars, wanted, touched, lastSave, overwritten>>

\* smorg connect and smorg remove.
ConnectCommand == \E id \in Integrations : Begins("connect", "command", id)
RemoveCommand == \E id \in ToSet(config) : Begins("remove", "command", id)

\* No other screen of the menu is open.
MenuIsFree == order = <<>> /\ chosen = {} /\ (command # NoCommand => command.by = "command")

\* The menu's removal.
RemoveInMenu == MenuIsFree /\ \E id \in ToSet(config) : Begins("remove", "menu", id)

\* Connect_interactive returned, or the token was revoked; what was loaded is saved.
OperationSaves ==
    IF command.is = "connect"
    THEN /\ Save(AddTab(command.loaded, command.id), command.at)
         /\ wanted' = wanted \cup {command.id}
    ELSE /\ Save(Without(command.loaded, command.id), command.at)
         /\ wanted' = wanted \ {command.id}

\* A dashboard does not see it.
CommandEnds ==
    /\ command # NoCommand /\ command.by = "command"
    /\ OperationSaves
    /\ command' = NoCommand
    /\ touched' = touched \cup {command.id}
    /\ UNCHANGED <<barVars, changes>>

\* The menu's removal drops the tab, if the seen marks are purged ...
RemovalEnds ==
    /\ command # NoCommand /\ command.by = "menu"
    /\ OperationSaves
    /\ command' = NoCommand
    /\ shown' = Without(shown, command.id)
    /\ touched' = touched \ {command.id}
    /\ UNCHANGED <<order, moved, chosen, changes>>

\* ... and keeps it, if they are not: _fail.
RemovalFails ==
    /\ command # NoCommand /\ command.by = "menu"
    /\ OperationSaves
    /\ command' = NoCommand
    /\ touched' = touched \cup {command.id}
    /\ UNCHANGED <<barVars, changes>>

\* The login failed, or the process was stopped.
GivesUp ==
    /\ command # NoCommand /\ command' = NoCommand
    /\ UNCHANGED <<config, barVars, changes, wanted, touched, lastSave, overwritten>>

\* The menu's add: it offers what is not configured, shown or not.
ChooseInMenu ==
    /\ MenuIsFree /\ changes < MaxChanges
    /\ \E id \in Integrations \ ToSet(config) : chosen' = {id}
    /\ changes' = changes + 1
    /\ UNCHANGED <<config, shown, order, moved, command, wanted, touched, lastSave, overwritten>>

\* Bug: the tab is shown first.
ShowFirst ==
    \E id \in chosen :
        /\ Save(AddTab(config, id), lastSave)
        /\ shown' = <<id>> \o shown
        /\ wanted' = wanted \cup {id}
        /\ chosen' = {}
        /\ UNCHANGED <<order, moved, command, changes, touched>>

\* open_tab_for loads the config after the login; add_tab_live shows the tab last,
\* whatever is shown.
AddInMenu ==
    \E id \in chosen :
        /\ Save(AddTab(config, id), lastSave)
        /\ shown' = Append(shown, id)
        /\ wanted' = wanted \cup {id}
        /\ chosen' = {}
        /\ UNCHANGED <<order, moved, command, changes, touched>>

\* The login ends without a tab.
CancelInMenu ==
    /\ chosen # {} /\ chosen' = {}
    /\ UNCHANGED <<config, shown, order, moved, command, changes, wanted, touched, lastSave,
                   overwritten>>

-----------------------------------------------------------------------------
(* The reorder screen.                                                      *)

OpenReorder ==
    /\ MenuIsFree /\ config # <<>>
    /\ order' = config /\ moved' = FALSE
    /\ UNCHANGED <<config, shown, chosen, command, changes, wanted, touched, lastSave, overwritten>>

\* _move, from the highlighted row to its neighbour.
MoveTab(offset) ==
    /\ \E i \in DOMAIN order :
          /\ i + offset \in DOMAIN order
          /\ order' = [order EXCEPT ![i] = order[i + offset], ![i + offset] = order[i]]
    /\ moved' = TRUE
    /\ UNCHANGED <<config, shown, chosen, command, changes, wanted, touched, lastSave, overwritten>>

\* Bug: what the reorder screen does not know is lost.
ReorderedOnly(list, named) == Kept(named, ToSet(list))

\* config.reorder_tabs and SmorgApp.apply_tab_order: what the list does not name
\* goes last, as it was; what it names and is not there is left out.
Reordered(list, named) ==
    Kept(named, ToSet(list)) \o Kept(list, ToSet(list) \ ToSet(named))

SaveOrder ==
    /\ order # <<>> /\ moved /\ changes < MaxChanges
    /\ Save(Reordered(config, order), lastSave)
    /\ shown' = Reordered(shown, order)
    /\ order' = <<>> /\ moved' = FALSE
    /\ changes' = changes + 1
    /\ UNCHANGED <<chosen, command, wanted, touched>>

\* Escape, enter on what was not moved, and a config that cannot be saved.
LeaveReorder ==
    /\ order # <<>>
    /\ order' = <<>> /\ moved' = FALSE
    /\ UNCHANGED <<config, shown, chosen, command, changes, wanted, touched, lastSave, overwritten>>

TabOrderNext ==
    \/ ConnectCommand \/ RemoveCommand \/ RemoveInMenu \/ ChooseInMenu
    \/ CommandEnds \/ RemovalEnds \/ RemovalFails \/ GivesUp \/ AddInMenu \/ CancelInMenu
    \/ OpenReorder \/ SaveOrder \/ LeaveReorder \/ \E offset \in {-1, 1} : MoveTab(offset)

-----------------------------------------------------------------------------
Index(list, t) == CHOOSE i \in DOMAIN list : list[i] = t

\* The screen shows, once, the tabs of the config and in their order, but for those
\* that were changed in the config only: a command changed them beside the dashboard,
\* or the menu's removal saved the config and failed after it.  These may stay, be
\* missing, or, added again, be shown twice.
ScreenAgrees ==
    /\ ToSet(config) \ touched = ToSet(shown) \ touched
    /\ \A s, t \in ToSet(config) \ touched :
          Index(config, s) < Index(config, t) <=> Index(shown, s) < Index(shown, t)
    /\ \A i, j \in DOMAIN shown : shown[i] = shown[j] /\ shown[i] \notin touched => i = j

\* The config lists a tab once.  Unless one operation saved what it had loaded before
\* another one saved, it has the tabs that were added and not removed, and the screen
\* agrees with it, wherever the reorder screen was open meanwhile.
TabsAreKept ==
    /\ IsInjective(config)
    /\ ~ overwritten => ToSet(config) = wanted /\ ScreenAgrees
=============================================================================
