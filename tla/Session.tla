------------------------------ MODULE Session -------------------------------
(***************************************************************************)
(* One run of the TUI seen from Model.Update (pkg/bubbletui/bubbletui.go): *)
(* the user fires batches of statements and asks for tables and views; a   *)
(* key or a message is handled at once by Update, every command it returns *)
(* runs in a goroutine of its own, and the answers come back as messages   *)
(* in any order.  Composes the result set panel and the sidebar catalog;   *)
(* AsyncQuery.tla details what a batch does while it is "running".         *)
(*                                                                         *)
(* A request goes through these phases:                                    *)
(*   "idle"      the user has not made it                                  *)
(*   "fired"     executeQueryMsg, selectTableMsg or selectViewMsg is on    *)
(*               its way to Update                                         *)
(*   "running"   its command runs                                          *)
(*   "answered"  the answer is on its way to Update                        *)
(*   "shown"     Update has handled the answer                             *)
(***************************************************************************)
EXTENDS Naturals

CONSTANTS
    Batches,        \* executions of the editor's content or of one line
    Tables, Views,  \* requests for the metadata of a table, of a view
    RawCounts,      \* how many statements a text may split into
    MaxQueries,     \* statements kept of them (5)
    DDL,            \* the batches with a statement whose first word is DDL
    None,
    Overlap         \* FALSE: the user waits for every answer before asking
                    \* for something else; TRUE: the user does not

Metas == Tables \cup Views
Requests == Batches \cup Metas

ASSUME SessionAssumption ==
    /\ Batches \cap Metas = {} /\ Tables \cap Views = {}
    /\ None \notin Requests
    /\ RawCounts \subseteq Nat
    /\ MaxQueries \in Nat \ {0}
    /\ DDL \subseteq Batches
    /\ Overlap \in BOOLEAN

VARIABLES
    app,        \* "running", "quit", or "crashed" by a panic
    phase,      \* phase[r]: see above
    size,       \* size[b]: number of statements batch b was fired with
    ctx,        \* ctx[b]: the context of batch b, "live" or "cancelled"
    kill,       \* cancelQuery: the batch whose context it cancels, or None
    failed,     \* the metadata requests that failed
    saves,      \* the batches whose results were handed to saveQueriesCmd
    altered,    \* altered[b]: catalog version batch b made, 0 for none
    tabs, panels, activeTab, viewport,      \* ResultSet
    db, tree, reload, snapshot              \* Catalog

RS == INSTANCE ResultSet
Sidebar == INSTANCE Catalog

requests == <<phase, size, ctx, kill, failed, saves, altered>>
panel == <<tabs, panels, activeTab, viewport>>
catalog == <<db, tree, reload, snapshot>>
vars == <<app, requests, panel, catalog>>

Phases == {"idle", "fired", "running", "answered", "shown"}

Init ==
    /\ app = "running"
    /\ phase = [r \in Requests |-> "idle"]
    /\ size = [b \in Batches |-> 0]
    /\ ctx = [b \in Batches |-> "live"]
    /\ kill = None
    /\ failed = {}
    /\ saves = {}
    /\ altered = [b \in Batches |-> 0]
    /\ RS!Init
    /\ Sidebar!Init
-----------------------------------------------------------------------------
(* The user.                                                               *)

InFlight == {r \in Requests : phase[r] \in {"fired", "running", "answered"}}

MayAsk == Overlap \/ (InFlight = {} /\ ~Sidebar!Reloading)

(* Mutant of Prepared: the batch is not cut.                               *)
PreparedAll(raw) == raw

(* prepareQueriesForExecution, once blank statements are dropped.          *)
Prepared(raw) == IF raw > MaxQueries THEN MaxQueries ELSE raw

Fire(b, n) ==
    /\ app = "running"
    /\ phase[b] = "idle"
    /\ MayAsk
    /\ phase' = [phase EXCEPT ![b] = "fired"]
    /\ size' = [size EXCEPT ![b] = n]
    /\ UNCHANGED <<app, ctx, kill, failed, saves, altered, panel, catalog>>

(* ctrl+e ignores an editor without statements.                            *)
ExecuteQuery(b) ==
    \E raw \in RawCounts : Prepared(raw) # 0 /\ Fire(b, Prepared(raw))

(* ctrl+r ignores an empty line only: a line of blanks or semicolons is    *)
(* fired as a batch of no statements.                                      *)
ExecuteSingleQuery(b) == \E raw \in RawCounts : Fire(b, Prepared(raw))

(* enter on a table or on a view of the sidebar                            *)
Select(m) ==
    /\ app = "running"
    /\ phase[m] = "idle"
    /\ MayAsk
    /\ phase' = [phase EXCEPT ![m] = "fired"]
    /\ UNCHANGED <<app, size, ctx, kill, failed, saves, altered, panel, catalog>>

(* A key Update has handled goes on to the panel in focus: the result set  *)
(* renders its active panel again, the others ignore ctrl+c.               *)
KeyFallsThrough == RS!ScrollKey \/ UNCHANGED panel

(* Mutant of CtrlC: the kill switch quits the application as well.         *)
CtrlCQuitsAtOnce ==
    /\ app = "running"
    /\ app' = "quit"
    /\ UNCHANGED <<requests, panel, catalog>>

CtrlC ==
    /\ app = "running"
    /\ \/ /\ kill # None
          /\ ctx' = [ctx EXCEPT ![kill] = "cancelled"]
          /\ kill' = None
          /\ KeyFallsThrough
          /\ UNCHANGED <<app, phase, size, failed, saves, altered, catalog>>
       \/ /\ kill = None
          /\ app' = "quit"
          /\ UNCHANGED <<requests, panel, catalog>>

(* The keys of the result set.                                             *)
BrowseResults ==
    /\ app = "running"
    /\ RS!NextTab \/ RS!PrevTab \/ RS!ScrollKey
    /\ UNCHANGED <<app, requests, catalog>>
-----------------------------------------------------------------------------
(* Messages handled by Update.                                             *)

(* executeQueryMsg                                                         *)
Execute(b) ==
    /\ app = "running"
    /\ phase[b] = "fired"
    /\ phase' = [phase EXCEPT ![b] = "running"]
    /\ kill' = b
    /\ UNCHANGED <<app, size, ctx, failed, saves, altered, panel, catalog>>

(* selectTableMsg, selectViewMsg: runTableMetadata, runViewMetadata        *)
Describe(m) ==
    /\ app = "running"
    /\ phase[m] = "fired"
    /\ phase' = [phase EXCEPT ![m] = "running"]
    /\ UNCHANGED <<app, size, ctx, kill, failed, saves, altered, panel, catalog>>

(* Mutant of QuerySuccessMsg: the answer leaves the kill switch armed.     *)
AnswerKeepsSwitch(b) ==
    /\ app = "running"
    /\ phase[b] = "answered"
    /\ phase' = [phase EXCEPT ![b] = "shown"]
    /\ RS!QuerySuccess(size[b])
    /\ saves' = saves \cup {b}
    /\ Sidebar!QuerySuccess(b, b \in DDL)
    /\ UNCHANGED <<app, size, ctx, kill, failed, altered>>

(* Mutant of QuerySuccessMsg: the results of a cancelled batch are dropped.*)
DropsCancelled(b) ==
    /\ app = "running"
    /\ phase[b] = "answered"
    /\ phase' = [phase EXCEPT ![b] = "shown"]
    /\ kill' = None
    /\ RS!QuerySuccess(size[b])
    /\ saves' = IF ctx[b] = "cancelled" THEN saves ELSE saves \cup {b}
    /\ Sidebar!QuerySuccess(b, b \in DDL)
    /\ UNCHANGED <<app, size, ctx, failed, altered>>

(* querySuccessMsg, once the batch has reported: any answer clears the     *)
(* kill switch, the result set shows the results and saves them, and the   *)
(* sidebar reloads the catalog when asked to.  A batch of no statements    *)
(* leaves no panel to render, which panics before the sidebar's turn.      *)
QuerySuccessMsg(b) ==
    /\ app = "running"
    /\ phase[b] = "answered"
    /\ phase' = [phase EXCEPT ![b] = "shown"]
    /\ kill' = None
    /\ RS!QuerySuccess(size[b])
    /\ \/ /\ RS!InRange(activeTab', panels')
          /\ saves' = saves \cup {b}
          /\ Sidebar!QuerySuccess(b, b \in DDL)
          /\ UNCHANGED app
       \/ /\ ~RS!InRange(activeTab', panels')
          /\ app' = "crashed"
          /\ UNCHANGED <<saves, catalog>>
    /\ UNCHANGED <<size, ctx, failed, altered>>

(* metadataSuccessMsg, metadataErrMsg                                      *)
MetadataMsg(m) ==
    /\ app = "running"
    /\ phase[m] = "answered"
    /\ phase' = [phase EXCEPT ![m] = "shown"]
    /\ kill' = None
    /\ IF m \in failed THEN RS!ShowNotice ELSE RS!Metadata(m \in Tables)
    /\ UNCHANGED <<app, size, ctx, failed, saves, altered, catalog>>

(* updateGraphMsg, updateGraphErrMsg                                       *)
UpdateGraphMsg(b) ==
    /\ app = "running"
    /\ \/ Sidebar!UpdateGraph(b) /\ UNCHANGED panel
       \/ Sidebar!UpdateGraphErr(b) /\ RS!ShowNotice
    /\ UNCHANGED <<app, requests>>
-----------------------------------------------------------------------------
(* Commands, each in its goroutine.                                        *)

(* A statement of a running batch changes the catalog.  A DDL statement    *)
(* that fails, or that the first word does not give away, is a batch       *)
(* outside DDL or one that never takes this step.                          *)
Alter(b) ==
    /\ app = "running"
    /\ phase[b] = "running"
    /\ size[b] # 0
    /\ altered[b] = 0
    /\ Sidebar!Alter
    /\ altered' = [altered EXCEPT ![b] = db']
    /\ UNCHANGED <<app, phase, size, ctx, kill, failed, saves, panel>>

(* runConcurrentlyCmd returns: QueryBatch's Return.                        *)
BatchReturns(b) ==
    /\ app = "running"
    /\ phase[b] = "running"
    /\ phase' = [phase EXCEPT ![b] = "answered"]
    /\ UNCHANGED <<app, size, ctx, kill, failed, saves, altered, panel, catalog>>

MetadataReturns(m) ==
    /\ app = "running"
    /\ phase[m] = "running"
    /\ phase' = [phase EXCEPT ![m] = "answered"]
    /\ failed' \in {failed, failed \cup {m}}
    /\ UNCHANGED <<app, size, ctx, kill, saves, altered, panel, catalog>>

CatalogCommand(b) ==
    /\ app = "running"
    /\ Sidebar!ReadCatalog(b) \/ Sidebar!CatalogError(b)
    /\ UNCHANGED <<app, requests, panel>>
-----------------------------------------------------------------------------
Stopped == app # "running" /\ UNCHANGED vars

Next ==
    \/ \E b \in Batches :
        \/ ExecuteQuery(b) \/ ExecuteSingleQuery(b)
        \/ Execute(b) \/ QuerySuccessMsg(b) \/ UpdateGraphMsg(b)
        \/ Alter(b) \/ BatchReturns(b) \/ CatalogCommand(b)
    \/ \E m \in Metas :
        Select(m) \/ Describe(m) \/ MetadataReturns(m) \/ MetadataMsg(m)
    \/ CtrlC \/ BrowseResults
    \/ Stopped

Spec == Init /\ [][Next]_vars

(* Bubble Tea delivers every message.  The database is relied on for one   *)
(* thing only: a cancelled batch returns (CancelReturns of AsyncQuery).    *)
Fairness ==
    \A b \in Batches :
        /\ WF_vars(Execute(b))
        /\ WF_vars(QuerySuccessMsg(b))
        /\ WF_vars(ctx[b] = "cancelled" /\ BatchReturns(b))

FairSpec == Spec /\ Fairness
-----------------------------------------------------------------------------
(* Properties.                                                             *)

TypeOK ==
    /\ app \in {"running", "quit", "crashed"}
    /\ phase \in [Requests -> Phases]
    /\ size \in [Batches -> 0..MaxQueries]
    /\ ctx \in [Batches -> {"live", "cancelled"}]
    /\ kill \in Batches \cup {None}
    /\ failed \subseteq Metas
    /\ saves \subseteq Batches
    /\ altered \in [Batches -> Nat]
    /\ tabs \in Nat /\ panels \in Nat /\ activeTab \in Nat
    /\ viewport \subseteq Nat
    /\ db \in Nat /\ tree \in Nat
    /\ reload \in [Batches -> Sidebar!Progress]
    /\ snapshot \in [Batches -> Nat]

(* While the application runs, however answers and keys interleave, the    *)
(* panel that the next key reads by activeTab exists (resultset.go:202-263 *)
(* index tablesMetadata without a check).                                  *)
PanelExists == app = "running" => RS!InStep

(* The kill switch is never a dead one: the batch it cancels has not been  *)
(* shown, and nothing has cancelled it yet.  Otherwise ctrl+c would seem   *)
(* to be swallowed (bubbletui.go:254-256, 349).                            *)
SwitchIsLive ==
    kill # None =>
        /\ phase[kill] \in {"running", "answered"}
        /\ ctx[kill] = "live"

(* "While a batch is running, press Ctrl+c to cancel it; press Ctrl+c      *)
(* again to quit dblab" (README.md:618): ctrl+c never quits over a batch   *)
(* that runs and that nothing has cancelled.                               *)
QuitsWhenIdle ==
    [][app' = "quit" =>
        \A b \in Batches : ~(phase[b] = "running" /\ ctx[b] = "live")]_vars

(* "Whitespace-only queries are ignored" (README.md:602): no execution of  *)
(* a text without statements stops the application.                        *)
BlankIgnored == app # "crashed"

(* Once the sidebar is done reloading for a batch, its tree has what the   *)
(* batch changed ("used to refresh the database graph from executed        *)
(* queries", bubbletui.go:107), unless the reload failed.                  *)
TreeCurrent ==
    \A b \in DDL :
        /\ app = "running" /\ phase[b] = "shown"
        /\ ~Sidebar!Reloading /\ reload[b] # "refused"
        => tree >= altered[b]

(* A batch the user cancels ends: its results, the error of each cancelled *)
(* statement included, are shown and saved like those of any other batch,  *)
(* unless the application has stopped.                                     *)
CancelledIsShown ==
    \A b \in Batches : ctx[b] = "cancelled" ~> (b \in saves \/ app # "running")
=============================================================================
