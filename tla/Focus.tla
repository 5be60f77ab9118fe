------------------------------- MODULE Focus --------------------------------
(***************************************************************************)
(* Which part of the TUI has the focus (pkg/bubbletui/bubbletui.go), with  *)
(* the modals that take it away for a while (query_history.go, schema.go,  *)
(* the help overlay), the full screen layout, the editor's mode and the    *)
(* status bar that reports them (editor.go, status_bar.go).                *)
(*                                                                         *)
(* A key or a message is one call of Model.Update.  What Update returns as *)
(* a command runs in its own goroutine and comes back as a message: the    *)
(* commands and the messages under way form a bag, and any of them may be  *)
(* next.  The driver is one that tracks an active schema and no schema was *)
(* pinned, so that ctrl+s opens the schema picker.                         *)
(***************************************************************************)
EXTENDS Naturals

CONSTANTS
    Schemas,        \* the schemas of the database
    MaxInFlight,    \* bound on the commands and messages under way
    Racing          \* FALSE: the user lets a mode change, or a schema that
                    \* was picked, reach the status bar before the next one

Panels == {"Editor", "Sidebar", "Results"}
Modals == {"History", "Schemas"}
Modes == {"normal", "insert"}

Fetch == [cmd : {"fetch"}, of : Modals]
SetSchema == [cmd : {"setSchema"}, name : Schemas]
ModeChange == [msg : {"modeChange"}, mode : Modes]
SchemaSelected == [msg : {"schemaSelected"}, name : Schemas]
QuerySelected == [msg |-> "querySelected"]
BackToNormal == [msg |-> "backToNormal"]

InFlight == Fetch \cup SetSchema \cup ModeChange \cup SchemaSelected
                \cup {QuerySelected, BackToNormal}

ASSUME FocusAssumption ==
    /\ Schemas # {}
    /\ MaxInFlight \in Nat
    /\ Racing \in BOOLEAN

VARIABLES
    app,            \* "running", or "crashed" by a panic
    focus,          \* Model.focus
    fullScreen,     \* Model.fullScreen
    lit,            \* the panels drawn as focused: textarea focus, selected
                    \* of the sidebar, focused of the result set
    size,           \* size[p]: layout panel p was last sized for, or "old"
                    \* when the window has changed since
    state,          \* state of each modal
    list,           \* whether SelectedItem finds an item in the list of
                    \* each modal: "empty" or "items"
    mode, barMode,  \* the editor's mode, and the one the status bar shows
    barFocus,       \* the focus the status bar shows
    schema,         \* the schema set last in the database
    barSchema,      \* the schema the status bar shows
    inbox           \* how many of each command and message are under way

widgets == <<lit, size, barFocus>>
modals == <<state, list>>
modeVars == <<mode, barMode>>
schemaVars == <<schema, barSchema>>
vars == <<app, focus, fullScreen, widgets, modals, modeVars, schemaVars, inbox>>

Init ==
    /\ app = "running"
    /\ focus = "Editor"
    /\ fullScreen = FALSE
    /\ lit = {"Editor"}
    /\ size = [p \in Panels |-> "split"]
    /\ state = [d \in Modals |-> "loading"]
    /\ list = [d \in Modals |-> "empty"]
    /\ mode = "normal" /\ barMode = "normal"
    /\ barFocus = "Editor"
    /\ schema \in Schemas /\ barSchema = schema
    /\ inbox = [m \in InFlight |-> 0]
-----------------------------------------------------------------------------
(* Helpers.                                                                *)

Quiet(set) == \A m \in set : inbox[m] = 0

(* Bound: a key that would put more than MaxInFlight of one sort under way *)
(* is not pressed.                                                         *)
Issue(m) ==
    /\ inbox[m] < MaxInFlight
    /\ inbox' = [inbox EXCEPT ![m] = @ + 1]

Take(m) ==
    /\ inbox[m] > 0
    /\ inbox' = [inbox EXCEPT ![m] = @ - 1]

(* applySizes: the full screen layout sizes the focused panel only, the    *)
(* split layout sizes all of them.                                         *)
Sized(s, f, full) ==
    IF full
    THEN [p \in Panels |-> IF p = f /\ p # "Sidebar" THEN "full" ELSE s[p]]
    ELSE [p \in Panels |-> "split"]

ApplySizes == size' = Sized(size, focus', fullScreen')

(* Mutant of NormalView: the panels keep the sizes they had.               *)
NormalViewUnsized ==
    /\ focus' = "Editor"
    /\ lit' = {"Editor"}
    /\ UNCHANGED <<fullScreen, size, barFocus>>

(* Mutant of NormalView: the panel that had the focus stays lit.           *)
NormalViewBothLit ==
    /\ focus' = "Editor"
    /\ lit' = lit \cup {"Editor"}
    /\ UNCHANGED <<fullScreen, barFocus>>
    /\ ApplySizes

(* backToNormal(), and what esc does in the help modal.                    *)
NormalView ==
    /\ focus' = "Editor"
    /\ lit' = {"Editor"}
    /\ UNCHANGED <<fullScreen, barFocus>>
    /\ ApplySizes
-----------------------------------------------------------------------------
(* Keys of Model.Update.                                                   *)

Key == app = "running"

(* Mutant of Help: the status bar, which has no such panel, shows it.      *)
HelpInStatusBar ==
    /\ Key
    /\ focus' = "Help" /\ barFocus' = "Help"
    /\ UNCHANGED <<app, fullScreen, lit, modals, modeVars, schemaVars, inbox>>
    /\ ApplySizes

Help ==
    /\ Key
    /\ focus' = "Help"
    /\ UNCHANGED <<app, fullScreen, lit, barFocus, modals, modeVars, schemaVars, inbox>>
    /\ ApplySizes

(* alt+h and ctrl+s: the modal opens in its loading state, over the list   *)
(* of its last fetch.                                                      *)
Open(modal) ==
    /\ Key
    /\ focus' = modal
    /\ state' = [state EXCEPT ![modal] = "loading"]
    /\ Issue([cmd |-> "fetch", of |-> modal])
    /\ UNCHANGED <<app, fullScreen, lit, barFocus, list, modeVars, schemaVars>>
    /\ ApplySizes

FullScreen ==
    /\ Key
    /\ ~fullScreen
    /\ focus \in {"Editor", "Results"}
    /\ fullScreen' = TRUE
    /\ UNCHANGED focus
    /\ UNCHANGED <<app, lit, barFocus, modals, modeVars, schemaVars, inbox>>
    /\ ApplySizes

(* The editor's mode change is reported to the status bar by a message.    *)
ChangeMode(m) ==
    /\ Racing \/ Quiet(ModeChange)
    /\ mode' = m
    /\ Issue([msg |-> "modeChange", mode |-> m])
    /\ UNCHANGED barMode

(* esc in the editor: leaves full screen and insert mode with one press.   *)
EscEditor ==
    /\ Key
    /\ focus = "Editor"
    /\ fullScreen' = FALSE
    /\ UNCHANGED focus
    /\ \/ mode = "insert" /\ ChangeMode("normal")
       \/ mode = "normal" /\ UNCHANGED <<modeVars, inbox>>
    /\ UNCHANGED <<app, lit, barFocus, modals, schemaVars>>
    /\ ApplySizes

EscPanel ==
    /\ Key
    /\ focus \in {"Sidebar", "Results"}
    /\ fullScreen' = IF focus = "Results" THEN FALSE ELSE fullScreen
    /\ UNCHANGED focus
    /\ UNCHANGED <<app, lit, barFocus, modals, modeVars, schemaVars, inbox>>
    /\ ApplySizes

EscHelp ==
    /\ Key
    /\ focus = "Help"
    /\ NormalView
    /\ UNCHANGED <<app, modals, modeVars, schemaVars, inbox>>

(* A modal closes by a message to itself; full screen is kept, because     *)
(* toggleFullScreen does nothing while a modal has the focus.              *)
EscModal ==
    /\ Key
    /\ focus \in Modals
    /\ Issue(BackToNormal)
    /\ UNCHANGED focus /\ UNCHANGED fullScreen
    /\ UNCHANGED <<app, lit, barFocus, modals, modeVars, schemaVars>>
    /\ ApplySizes

Right ==
    /\ Key
    /\ focus = "Sidebar"
    /\ focus' = "Editor"
    /\ lit' = (lit \ {"Sidebar"}) \cup {"Editor"}
    /\ barFocus' = "Editor"
    /\ UNCHANGED fullScreen
    /\ UNCHANGED <<app, modals, modeVars, schemaVars, inbox>>
    /\ ApplySizes

Down ==
    /\ Key
    /\ focus = "Editor"
    /\ focus' = "Results"
    /\ lit' = (lit \ {"Editor"}) \cup {"Results"}
    /\ barFocus' = "Results"
    /\ UNCHANGED fullScreen
    /\ UNCHANGED <<app, modals, modeVars, schemaVars, inbox>>
    /\ ApplySizes

Up ==
    /\ Key
    /\ focus = "Results"
    /\ focus' = "Editor"
    /\ lit' = (lit \ {"Results"}) \cup {"Editor"}
    /\ barFocus' = "Editor"
    /\ UNCHANGED fullScreen
    /\ UNCHANGED <<app, modals, modeVars, schemaVars, inbox>>
    /\ ApplySizes

(* Mutant of Left: full screen survives the move to the sidebar.           *)
LeftKeepsFullScreen ==
    /\ Key
    /\ focus \in {"Editor", "Results"}
    /\ focus' = "Sidebar"
    /\ lit' = (lit \ {focus}) \cup {"Sidebar"}
    /\ barFocus' = "Sidebar"
    /\ UNCHANGED fullScreen
    /\ UNCHANGED <<app, modals, modeVars, schemaVars, inbox>>
    /\ ApplySizes

(* Whatever has the focus, the key leaves full screen.                     *)
Left ==
    /\ Key
    /\ \/ /\ focus \in {"Editor", "Results"}
          /\ focus' = "Sidebar"
          /\ lit' = (lit \ {focus}) \cup {"Sidebar"}
          /\ barFocus' = "Sidebar"
       \/ /\ focus \notin {"Editor", "Results"}
          /\ UNCHANGED <<focus, lit, barFocus>>
    /\ fullScreen' = FALSE
    /\ UNCHANGED <<app, modals, modeVars, schemaVars, inbox>>
    /\ ApplySizes
-----------------------------------------------------------------------------
(* Keys of the editor and of the modals.                                   *)

Insert ==
    /\ Key
    /\ focus = "Editor"
    /\ mode = "normal"
    /\ ChangeMode("insert")
    /\ UNCHANGED <<app, focus, fullScreen, widgets, modals, schemaVars>>

(* enter takes SelectedItem() whatever the state of the modal, and panics  *)
(* when there is none: the list is empty before the first fetch has ended, *)
(* and when a filter leaves no item.                                       *)
Enter(modal) ==
    /\ Key
    /\ focus = modal
    /\ \/ /\ list[modal] = "empty"
          /\ app' = "crashed"
          /\ UNCHANGED inbox
       \/ /\ list[modal] # "empty"
          /\ \/ modal = "History" /\ Issue(QuerySelected)
             \/ /\ modal = "Schemas"
                /\ Racing \/ Quiet(SetSchema \cup SchemaSelected)
                /\ \E s \in Schemas : Issue([cmd |-> "setSchema", name |-> s])
          /\ UNCHANGED app
    /\ UNCHANGED <<focus, fullScreen, lit, barFocus, modals, modeVars, schemaVars>>
    /\ ApplySizes

(* Typing a filter hides items and clearing it brings them back.           *)
Filter(modal) ==
    /\ Key
    /\ focus = modal
    /\ state[modal] = "form"
    /\ list' = [list EXCEPT ![modal] = IF @ = "empty" THEN "items" ELSE "empty"]
    /\ UNCHANGED <<focus, fullScreen>>
    /\ UNCHANGED <<app, lit, barFocus, state, modeVars, schemaVars, inbox>>
    /\ ApplySizes
-----------------------------------------------------------------------------
(* Messages.                                                               *)

(* tea.WindowSizeMsg                                                       *)
WindowSize ==
    /\ app = "running"
    /\ size' = Sized([p \in Panels |-> "old"], focus, fullScreen)
    /\ UNCHANGED <<app, focus, fullScreen, lit, barFocus, modals, modeVars, schemaVars, inbox>>

(* queryHistoryLoadedMsg and schemaLoadedMsg go to the panel or modal in   *)
(* focus, so the items are lost unless it is the modal that fetched them.  *)
Loaded(modal) ==
    /\ app = "running"
    /\ Take([cmd |-> "fetch", of |-> modal])
    /\ IF focus = modal
       THEN /\ state' = [state EXCEPT ![modal] = "form"]
            /\ list' = [list EXCEPT ![modal] = "items"]
       ELSE UNCHANGED modals
    /\ UNCHANGED <<app, focus, fullScreen, widgets, modeVars, schemaVars>>

(* queryHistoryErrMsg closes whatever has the focus.                       *)
HistoryErr ==
    /\ app = "running"
    /\ Take([cmd |-> "fetch", of |-> "History"])
    /\ NormalView
    /\ UNCHANGED <<app, modals, modeVars, schemaVars>>

(* errMsg and errSchemasMsg are handled by nothing.                        *)
Unhandled ==
    /\ app = "running"
    /\ \E c \in Fetch \cup SetSchema : Take(c)
    /\ UNCHANGED <<app, focus, fullScreen, widgets, modals, modeVars, schemaVars>>

(* Mutant of ModeChanged: the message does not reach the status bar.       *)
ModeDropped(m) ==
    /\ app = "running"
    /\ Take(m)
    /\ UNCHANGED <<app, focus, fullScreen, widgets, modals, modeVars, schemaVars>>

(* modeChangeMsg                                                           *)
ModeChanged(m) ==
    /\ app = "running"
    /\ Take(m)
    /\ barMode' = m.mode
    /\ UNCHANGED <<app, focus, fullScreen, widgets, modals, mode, schemaVars>>

(* setSchema's command runs SetActiveSchema and answers.                   *)
SchemaSet(c) ==
    /\ app = "running"
    /\ inbox[c] > 0
    /\ schema' = c.name
    /\ LET answer == [msg |-> "schemaSelected", name |-> c.name]
       IN inbox' = [inbox EXCEPT ![c] = @ - 1, ![answer] = @ + 1]
    /\ UNCHANGED <<app, focus, fullScreen, widgets, modals, modeVars, barSchema>>

(* Mutant of SchemaPicked: the status bar is not told.                     *)
SchemaPickedSilently(m) ==
    /\ app = "running"
    /\ Take(m)
    /\ NormalView
    /\ UNCHANGED <<app, modals, modeVars, schemaVars>>

(* schemaSelectedMsg                                                       *)
SchemaPicked(m) ==
    /\ app = "running"
    /\ Take(m)
    /\ NormalView
    /\ barSchema' = m.name
    /\ UNCHANGED <<app, modals, modeVars, schema>>

(* Mutant of Returned: the message goes to the modal that sent it.         *)
ReturnedIgnored(m) ==
    /\ app = "running"
    /\ Take(m)
    /\ UNCHANGED <<app, focus, fullScreen, widgets, modals, modeVars, schemaVars>>

(* querySelectedMsg, backToNormalMsg                                       *)
Returned(m) ==
    /\ app = "running"
    /\ Take(m)
    /\ NormalView
    /\ UNCHANGED <<app, modals, modeVars, schemaVars>>
-----------------------------------------------------------------------------
Crashed == app = "crashed" /\ UNCHANGED vars

Keys ==
    \/ Help \/ FullScreen \/ EscEditor \/ EscPanel \/ EscHelp \/ EscModal
    \/ Right \/ Down \/ Up \/ Left \/ Insert
    \/ \E modal \in Modals : Open(modal) \/ Enter(modal) \/ Filter(modal)

Messages ==
    \/ WindowSize \/ HistoryErr \/ Unhandled
    \/ \E modal \in Modals : Loaded(modal)
    \/ \E m \in ModeChange : ModeChanged(m)
    \/ \E c \in SetSchema : SchemaSet(c)
    \/ \E m \in SchemaSelected : SchemaPicked(m)
    \/ \E m \in {QuerySelected, BackToNormal} : Returned(m)

Next == Keys \/ Messages \/ Crashed

Spec == Init /\ [][Next]_vars

(* Bubble Tea delivers every message.                                      *)
FairSpec == Spec /\ \A m \in {QuerySelected, BackToNormal} : WF_vars(Returned(m))
-----------------------------------------------------------------------------
(* Properties.                                                             *)

TypeOK ==
    /\ app \in {"running", "crashed"}
    /\ focus \in Panels \cup Modals \cup {"Help"}
    /\ fullScreen \in BOOLEAN
    /\ lit \subseteq Panels
    /\ size \in [Panels -> {"split", "full", "old"}]
    /\ state \in [Modals -> {"loading", "form"}]
    /\ list \in [Modals -> {"empty", "items"}]
    /\ mode \in Modes /\ barMode \in Modes
    /\ barFocus \in Panels
    /\ schema \in Schemas /\ barSchema \in Schemas
    /\ inbox \in [InFlight -> Nat]

(* However modals open, close late and close one another, the panel that   *)
(* receives the keys is the one drawn as focused, and the only one: the    *)
(* three flags live in three widgets and every transition sets them by     *)
(* hand (bubbletui.go:238-323, 394-400).                                   *)
OnlyFocusIsLit ==
    /\ focus \in Panels => lit = {focus}
    /\ \E p \in Panels : lit = {p}

(* "Full-screen mode is also left automatically if you navigate focus      *)
(* away ... it isn't available for the sidebar tree" (README.md:575): the  *)
(* sidebar in full screen would be a blank screen (bubbletui.go:462-471).  *)
NeverBlank == fullScreen => focus # "Sidebar"

(* What is on screen has the size of the current layout and of the current *)
(* window, though modals and full screen postpone the sizing of panels     *)
(* that are hidden (bubbletui.go:566-623).                                 *)
LaidOut ==
    focus \in Panels =>
        IF fullScreen
        THEN size[focus] = "full"
        ELSE \A p \in Panels : size[p] = "split"

(* The mode, once the status bar has been told, for a user who does not    *)
(* switch twice before that.                                               *)
ModeShown == ~Racing /\ Quiet(ModeChange) => barMode = mode

(* The schema, for a user who picks one at a time.                         *)
SchemaShown ==
    ~Racing /\ Quiet(SetSchema \cup SchemaSelected) => barSchema = schema

(* The status bar tells the truth about what lives in other places: the    *)
(* editor's mode, and "the schema the session is currently using"          *)
(* (README.md:563), whatever fails or is dismissed in between.             *)
StatusBarTrue == ModeShown /\ SchemaShown

(* "Esc: dismiss ... the query history or the schema picker" (README.md:   *)
(* 711): the editor gets the focus back.                                   *)
EscReturns == (inbox[BackToNormal] > 0) ~> (focus = "Editor" \/ app = "crashed")
=============================================================================
