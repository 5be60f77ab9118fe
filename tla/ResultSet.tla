----------------------------- MODULE ResultSet ------------------------------
(***************************************************************************)
(* The result set panel of the TUI (pkg/bubbletui/resultset.go): a row of  *)
(* tabs, one panel per tab, and a viewport that shows the content of one   *)
(* panel or a notice.  This module has the component's state and the       *)
(* operations its Update runs; Session.tla says when they run.             *)
(*                                                                         *)
(* Every operation that renders reads tablesMetadata[activeTab], which     *)
(* panics when the index is out of range: see InRange.                     *)
(***************************************************************************)
EXTENDS Naturals

VARIABLES
    tabs,       \* len(tabs)
    panels,     \* len(tablesMetadata)
    activeTab,  \* index of the highlighted tab, from 0
    viewport    \* {i} when panel i is shown, {} for a notice or nothing yet

vars == <<tabs, panels, activeTab, viewport>>

TableTabs == 4          \* Data, Columns, Indexes, Constraints
ViewTabs == 2           \* View Def, Data

Init ==
    /\ tabs = TableTabs
    /\ panels = TableTabs
    /\ activeTab = 0
    /\ viewport = {}

InRange(tab, count) == tab < count

(* r.viewport.SetContent(r.tablesMetadata[r.activeTab].View().Content)     *)
RenderActive == viewport' = {activeTab'}

(* querySuccessMsg: one tab and one panel per result of the batch.         *)
QuerySuccess(n) ==
    /\ tabs' = n
    /\ panels' = n
    /\ activeTab' = 0
    /\ RenderActive

(* Mutant of Metadata: the highlighted tab survives the change of tabs.    *)
MetadataKeepsTab(isTable) ==
    /\ tabs' = IF isTable THEN TableTabs ELSE ViewTabs
    /\ panels' = IF isTable THEN TableTabs ELSE ViewTabs
    /\ UNCHANGED activeTab
    /\ RenderActive

(* metadataSuccessMsg: the tabs of a table or those of a view.             *)
Metadata(isTable) ==
    /\ tabs' = IF isTable THEN TableTabs ELSE ViewTabs
    /\ panels' = IF isTable THEN TableTabs ELSE ViewTabs
    /\ activeTab' = 0
    /\ RenderActive

(* queryErrMsg, metadataErrMsg, updateGraphErrMsg: only the viewport.      *)
ShowNotice ==
    /\ viewport' = {}
    /\ UNCHANGED <<tabs, panels, activeTab>>

NextTab ==
    /\ activeTab' = IF activeTab = tabs - 1 THEN 0 ELSE activeTab + 1
    /\ RenderActive
    /\ UNCHANGED <<tabs, panels>>

PrevTab ==
    /\ activeTab' = IF activeTab = 0 THEN tabs - 1 ELSE activeTab - 1
    /\ RenderActive
    /\ UNCHANGED <<tabs, panels>>

(* GoToTop, GoToBottom and every key the panel scrolls with render the     *)
(* active panel again, a notice included.                                  *)
ScrollKey ==
    /\ UNCHANGED <<tabs, panels, activeTab>>
    /\ RenderActive
-----------------------------------------------------------------------------
(* The tabs and the panels are in step, and the viewport shows the panel   *)
(* of the highlighted tab unless it shows a notice.                        *)
InStep ==
    /\ tabs = panels
    /\ InRange(activeTab, panels)
    /\ viewport \subseteq {activeTab}
=============================================================================
