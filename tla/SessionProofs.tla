--------------------------- MODULE SessionProofs ----------------------------
(***************************************************************************)
(* Proofs about Session for any number of batches and of requests for      *)
(* metadata: its types, the panel that keys read, the kill switch, and,    *)
(* for a user who waits for every answer, what ctrl+c quits over and how   *)
(* current the sidebar's tree is.                                          *)
(***************************************************************************)
EXTENDS Session, TLAPS

USE DEF Requests, Metas

Operations(b) ==
    \/ ExecuteQuery(b) \/ ExecuteSingleQuery(b)
    \/ Execute(b) \/ QuerySuccessMsg(b) \/ UpdateGraphMsg(b)
    \/ Alter(b) \/ BatchReturns(b) \/ CatalogCommand(b)

Asking(m) == Select(m) \/ Describe(m) \/ MetadataReturns(m) \/ MetadataMsg(m)

LEMMA Steps ==
    [Next]_vars <=> \/ \E b \in Batches : Operations(b)
                    \/ \E m \in Tables \cup Views : Asking(m)
                    \/ CtrlC \/ BrowseResults \/ Stopped \/ UNCHANGED vars
BY DEF Next, Operations, Asking

(* A text is cut to at most MaxQueries statements.                         *)
LEMMA PreparedType ==
    ASSUME NEW raw \in RawCounts
    PROVE  Prepared(raw) \in 0..MaxQueries
BY SessionAssumption DEF Prepared

LEMMA FireOf ==
    ASSUME NEW b, ExecuteQuery(b) \/ ExecuteSingleQuery(b)
    PROVE  \E n \in 0..MaxQueries : Fire(b, n)
BY PreparedType DEF ExecuteQuery, ExecuteSingleQuery
-----------------------------------------------------------------------------
(* The requests and the kill switch.                                       *)
RequestsOK ==
    /\ app \in {"running", "quit", "crashed"}
    /\ phase \in [Requests -> Phases]
    /\ size \in [Batches -> 0..MaxQueries]
    /\ ctx \in [Batches -> {"live", "cancelled"}]
    /\ kill \in Batches \cup {None}
    /\ failed \subseteq Metas
    /\ saves \subseteq Batches

(* A batch that has not been executed has not been cancelled either.       *)
FreshIsLive == \A b \in Batches : phase[b] \in {"idle", "fired"} => ctx[b] = "live"

SwitchInv == RequestsOK /\ FreshIsLive /\ SwitchIsLive

LEMMA SwitchStep ==
    ASSUME SwitchInv, [Next]_vars
    PROVE  SwitchInv'
<1> USE SessionAssumption DEF SwitchInv, RequestsOK, FreshIsLive, SwitchIsLive, Phases
<1>1. CASE UNCHANGED <<app, requests>>
  BY <1>1 DEF requests
<1>2. ASSUME NEW b \in Batches, Operations(b)
      PROVE  SwitchInv'
  <2>1. CASE ExecuteQuery(b) \/ ExecuteSingleQuery(b)
    BY <2>1, FireOf DEF Fire
  <2>2. CASE Execute(b)
    BY <2>2 DEF Execute
  <2>3. CASE QuerySuccessMsg(b)
    BY <2>3 DEF QuerySuccessMsg
  <2>4. CASE UpdateGraphMsg(b) \/ CatalogCommand(b)
    BY <1>1, <2>4 DEF UpdateGraphMsg, CatalogCommand
  <2>5. CASE Alter(b)
    BY <2>5 DEF Alter
  <2>6. CASE BatchReturns(b)
    BY <2>6 DEF BatchReturns
  <2> QED
    BY <1>2, <2>1, <2>2, <2>3, <2>4, <2>5, <2>6 DEF Operations
<1>3. ASSUME NEW m \in Tables \cup Views, Asking(m)
      PROVE  SwitchInv'
  BY <1>3 DEF Asking, Select, Describe, MetadataReturns, MetadataMsg
<1>4. CASE CtrlC
  <2>1. CASE kill # None
    BY <1>4, <2>1 DEF CtrlC
  <2>2. CASE kill = None
    BY <1>4, <2>2 DEF CtrlC, requests
  <2> QED
    BY <2>1, <2>2
<1>5. CASE BrowseResults \/ Stopped \/ UNCHANGED vars
  BY <1>1, <1>5 DEF BrowseResults, Stopped, vars
<1> QED
  BY <1>2, <1>3, <1>4, <1>5, Steps
-----------------------------------------------------------------------------
(* The result set panel.                                                   *)
PanelOK == tabs \in Nat /\ panels \in Nat /\ activeTab \in Nat /\ viewport \subseteq Nat

PanelInv == PanelOK /\ PanelExists

LEMMA PanelStep ==
    ASSUME RequestsOK, PanelInv, [Next]_vars
    PROVE  PanelInv'
<1> USE SessionAssumption DEF PanelInv, PanelOK, PanelExists, RS!InStep, RS!InRange
<1>1. CASE UNCHANGED panel /\ (app' = app \/ app' # "running")
  BY <1>1 DEF panel
<1>2. ASSUME app = "running", app' = "running",
             RS!NextTab \/ RS!PrevTab \/ RS!ScrollKey \/ RS!ShowNotice
      PROVE  PanelInv'
  BY <1>2 DEF RS!NextTab, RS!PrevTab, RS!ScrollKey, RS!ShowNotice, RS!RenderActive
<1>3. ASSUME NEW n \in Nat, RS!QuerySuccess(n), app' = "running" => n # 0
      PROVE  PanelInv'
  BY <1>3 DEF RS!QuerySuccess, RS!RenderActive
<1>4. ASSUME NEW b \in Batches, Operations(b)
      PROVE  PanelInv'
  <2>1. CASE QuerySuccessMsg(b)
    <3>1. size[b] \in Nat /\ RS!QuerySuccess(size[b])
      BY <2>1 DEF QuerySuccessMsg, RequestsOK
    <3>2. app' = "running" => size[b] # 0
      BY <2>1, <3>1 DEF QuerySuccessMsg, RS!QuerySuccess
    <3> QED
      BY <1>3, <3>1, <3>2
  <2>2. CASE UpdateGraphMsg(b)
    BY <1>1, <1>2, <2>2 DEF UpdateGraphMsg
  <2>3. CASE ExecuteQuery(b) \/ ExecuteSingleQuery(b)
    BY <1>1, <2>3, FireOf DEF Fire
  <2>4. CASE Execute(b) \/ Alter(b) \/ BatchReturns(b) \/ CatalogCommand(b)
    BY <1>1, <2>4 DEF Execute, Alter, BatchReturns, CatalogCommand
  <2> QED
    BY <1>4, <2>1, <2>2, <2>3, <2>4 DEF Operations
<1>5. ASSUME NEW m \in Tables \cup Views, Asking(m)
      PROVE  PanelInv'
  <2>1. CASE MetadataMsg(m)
    BY <1>2, <2>1 DEF MetadataMsg, RS!Metadata, RS!RenderActive, RS!TableTabs, RS!ViewTabs
  <2>2. CASE Select(m) \/ Describe(m) \/ MetadataReturns(m)
    BY <1>1, <2>2 DEF Select, Describe, MetadataReturns
  <2> QED
    BY <1>5, <2>1, <2>2 DEF Asking
<1>6. CASE CtrlC
  BY <1>1, <1>2, <1>6 DEF CtrlC, KeyFallsThrough
<1>7. CASE BrowseResults
  BY <1>2, <1>7 DEF BrowseResults
<1>8. CASE Stopped \/ UNCHANGED vars
  BY <1>1, <1>8 DEF Stopped, vars
<1> QED
  BY <1>4, <1>5, <1>6, <1>7, <1>8, Steps
-----------------------------------------------------------------------------
(* A user who waits: one thing is under way at a time, a request or the    *)
(* reload it led to.                                                       *)
Loading == {b \in Batches : reload[b] \in {"asked", "read", "failed"}}
Busy == InFlight \cup Loading

CatalogOK ==
    /\ altered \in [Batches -> Nat]
    /\ db \in Nat /\ tree \in Nat
    /\ reload \in [Batches -> Sidebar!Progress]
    /\ snapshot \in [Batches -> Nat]

(* The switch is armed for the one batch that runs.                        *)
Armed == \A b \in Batches : phase[b] = "running" /\ ctx[b] = "live" => kill = b

OneAtATime == \A r, s \in Busy : r = s

WaitInv == CatalogOK /\ (~Overlap => OneAtATime /\ Armed)

LEMMA WaitStep ==
    ASSUME SwitchInv, WaitInv, [Next]_vars
    PROVE  WaitInv'
<1> USE SessionAssumption
    DEF SwitchInv, RequestsOK, WaitInv, CatalogOK, OneAtATime, Armed, Busy, InFlight, Loading,
        Phases, Sidebar!Progress
<1>1. CASE UNCHANGED <<requests, catalog>>
  BY <1>1 DEF requests, catalog
<1>2. ASSUME NEW r \in Requests, MayAsk, phase[r] = "idle",
             phase' = [phase EXCEPT ![r] = "fired"],
             UNCHANGED <<ctx, kill, altered, catalog>>
      PROVE  WaitInv'
  BY <1>2 DEF MayAsk, catalog, Sidebar!Reloading
<1>3. ASSUME NEW b \in Batches, Operations(b)
      PROVE  WaitInv'
  <2>1. CASE ExecuteQuery(b) \/ ExecuteSingleQuery(b)
    BY <1>2, <2>1, FireOf DEF Fire
  <2>2. CASE Execute(b)
    BY <2>2 DEF Execute, catalog
  <2>3. CASE QuerySuccessMsg(b)
    BY <2>3 DEF QuerySuccessMsg, Sidebar!QuerySuccess, catalog
  <2>4. CASE UpdateGraphMsg(b)
    BY <2>4 DEF UpdateGraphMsg, Sidebar!UpdateGraph, Sidebar!UpdateGraphErr, requests
  <2>5. CASE CatalogCommand(b)
    BY <2>5 DEF CatalogCommand, Sidebar!ReadCatalog, Sidebar!CatalogError, requests
  <2>6. CASE Alter(b)
    BY <2>6 DEF Alter, Sidebar!Alter
  <2>7. CASE BatchReturns(b)
    BY <2>7 DEF BatchReturns, catalog
  <2> QED
    BY <1>3, <2>1, <2>2, <2>3, <2>4, <2>5, <2>6, <2>7 DEF Operations
<1>4. ASSUME NEW m \in Tables \cup Views, Asking(m)
      PROVE  WaitInv'
  <2>1. CASE Select(m)
    BY <1>2, <2>1 DEF Select
  <2>2. CASE Describe(m) \/ MetadataReturns(m) \/ MetadataMsg(m)
    BY <2>2 DEF Describe, MetadataReturns, MetadataMsg, catalog
  <2> QED
    BY <1>4, <2>1, <2>2 DEF Asking
<1>5. CASE CtrlC
  <2>1. CASE kill # None
    BY <1>5, <2>1 DEF CtrlC, catalog
  <2>2. CASE kill = None
    BY <1>1, <1>5, <2>2 DEF CtrlC
  <2> QED
    BY <2>1, <2>2
<1>6. CASE BrowseResults \/ Stopped \/ UNCHANGED vars
  BY <1>1, <1>6 DEF BrowseResults, Stopped, vars
<1> QED
  BY <1>3, <1>4, <1>5, <1>6, Steps
-----------------------------------------------------------------------------
(* What the sidebar has read: a version that is not of the future, and     *)
(* for a user who waits, all that a batch changed once it was read.        *)
Versions ==
    /\ tree <= db
    /\ \A b \in Batches : altered[b] <= db /\ snapshot[b] <= db

NotYet == \A b \in Batches : phase[b] # "shown" => reload[b] = "none"

HasRead ==
    app = "running" => \A b \in Batches :
        /\ reload[b] = "read" => tree <= snapshot[b] /\ altered[b] <= snapshot[b]
        /\ reload[b] = "shown" => altered[b] <= tree
        /\ b \in DDL /\ phase[b] = "shown" => reload[b] # "none"

TreeInv == Versions /\ NotYet /\ (~Overlap => HasRead)

LEMMA TreeStep ==
    ASSUME SwitchInv, WaitInv, TreeInv, [Next]_vars
    PROVE  TreeInv'
<1> USE SessionAssumption
    DEF SwitchInv, RequestsOK, WaitInv, CatalogOK, TreeInv, Versions, NotYet, HasRead, Phases,
        Sidebar!Progress
<1>1. CASE UNCHANGED <<phase, altered, catalog>> /\ (app' = app \/ app' # "running")
  BY <1>1 DEF catalog
<1>2. ASSUME NEW r \in Requests, phase[r] # "shown", NEW p \in Phases \ {"shown"},
             phase' = [phase EXCEPT ![r] = p],
             UNCHANGED <<app, altered, catalog>>
      PROVE  TreeInv'
  BY <1>2 DEF catalog
<1>3. ASSUME NEW b \in Batches, Operations(b)
      PROVE  TreeInv'
  <2>1. CASE ExecuteQuery(b) \/ ExecuteSingleQuery(b)
    <3>1. /\ phase[b] = "idle" /\ phase' = [phase EXCEPT ![b] = "fired"]
          /\ UNCHANGED <<app, altered, catalog>>
      BY <2>1, FireOf DEF Fire
    <3> QED
      BY <1>2, <3>1
  <2>2. CASE Execute(b)
    BY <1>2, <2>2 DEF Execute
  <2>7. CASE BatchReturns(b)
    BY <1>2, <2>7 DEF BatchReturns
  <2>3. CASE QuerySuccessMsg(b)
    <3>1. /\ phase' = [phase EXCEPT ![b] = "shown"] /\ phase[b] = "answered"
          /\ altered' = altered /\ app = "running"
      BY <2>3 DEF QuerySuccessMsg
    <3>2. CASE Sidebar!QuerySuccess(b, b \in DDL) /\ app' = app
      <4>1. reload' = [reload EXCEPT ![b] = IF b \in DDL THEN "asked" ELSE @]
            /\ db' = db /\ tree' = tree /\ snapshot' = snapshot
        BY <3>2 DEF Sidebar!QuerySuccess
      <4>2. reload[b] = "none"
        BY <3>1
      <4>3. \A c \in Batches : c # b => phase'[c] = phase[c] /\ reload'[c] = reload[c]
        BY <3>1, <4>1
      <4>4. reload'[b] = IF b \in DDL THEN "asked" ELSE "none"
        BY <4>1, <4>2
      <4>5. Versions'
        BY <3>1, <4>1
      <4>6. NotYet'
        BY <3>1, <4>3
      <4>7. ~Overlap => HasRead'
        BY <3>1, <3>2, <4>1, <4>3, <4>4
      <4> QED
        BY <4>5, <4>6, <4>7
    <3>3. CASE app' = "crashed" /\ UNCHANGED catalog
      BY <3>1, <3>3 DEF catalog
    <3> QED
      BY <2>3, <3>2, <3>3 DEF QuerySuccessMsg
  <2>4. CASE UpdateGraphMsg(b)
    <3>1. ASSUME Sidebar!UpdateGraph(b) PROVE TreeInv'
      BY <2>4, <3>1 DEF UpdateGraphMsg, Sidebar!UpdateGraph, requests,
         OneAtATime, Busy, InFlight, Loading
    <3>2. ASSUME Sidebar!UpdateGraphErr(b) PROVE TreeInv'
      BY <2>4, <3>2 DEF UpdateGraphMsg, Sidebar!UpdateGraphErr, requests
    <3> QED
      BY <2>4, <3>1, <3>2 DEF UpdateGraphMsg
  <2>5. CASE CatalogCommand(b)
    BY <2>5 DEF CatalogCommand, Sidebar!ReadCatalog, Sidebar!CatalogError, requests
  <2>6. CASE Alter(b)
    BY <2>6 DEF Alter, Sidebar!Alter, OneAtATime, Busy, InFlight, Loading
  <2> QED
    BY <1>3, <2>1, <2>2, <2>3, <2>4, <2>5, <2>6, <2>7 DEF Operations
<1>4. ASSUME NEW m \in Tables \cup Views, Asking(m)
      PROVE  TreeInv'
  BY <1>4 DEF Asking, Select, Describe, MetadataReturns, MetadataMsg, catalog
<1>5. CASE CtrlC
  BY <1>1, <1>5 DEF CtrlC, requests
<1>6. CASE BrowseResults \/ Stopped \/ UNCHANGED vars
  BY <1>1, <1>6 DEF BrowseResults, Stopped, vars, requests
<1> QED
  BY <1>3, <1>4, <1>5, <1>6, Steps
-----------------------------------------------------------------------------
IInv == SwitchInv /\ PanelInv /\ WaitInv /\ TreeInv

LEMMA InitIInv == Init => IInv
<1> SUFFICES ASSUME Init PROVE IInv
  OBVIOUS
<1> USE SessionAssumption DEF Init, RS!Init, Sidebar!Init
<1>1. SwitchInv
  BY DEF SwitchInv, RequestsOK, FreshIsLive, SwitchIsLive, Phases
<1>2. PanelInv
  BY DEF PanelInv, PanelOK, PanelExists, RS!InStep, RS!InRange, RS!TableTabs
<1>3. WaitInv
  BY DEF WaitInv, CatalogOK, OneAtATime, Armed, Busy, InFlight, Loading, Sidebar!Progress
<1>4. TreeInv
  BY DEF TreeInv, Versions, NotYet, HasRead
<1> QED
  BY <1>1, <1>2, <1>3, <1>4 DEF IInv

LEMMA StepIInv == IInv /\ [Next]_vars => IInv'
<1> SUFFICES ASSUME IInv, [Next]_vars PROVE IInv'
  OBVIOUS
<1>1. RequestsOK
  BY DEF IInv, SwitchInv
<1> QED
  BY <1>1, SwitchStep, PanelStep, WaitStep, TreeStep DEF IInv

LEMMA Invariance == Spec => []IInv
BY InitIInv, StepIInv, PTL DEF Spec

(* Every variable keeps its type, activeTab below zero included.           *)
THEOREM TypeCorrect == Spec => []TypeOK
<1>1. IInv => TypeOK
  BY DEF IInv, SwitchInv, RequestsOK, PanelInv, PanelOK, WaitInv, CatalogOK, TypeOK
<1> QED
  BY <1>1, Invariance, PTL

(* No key finds the result set without the panel it reads, for any number  *)
(* of batches and metadata requests that overlap in any way.               *)
THEOREM PanelIsThere == Spec => []PanelExists
<1>1. IInv => PanelExists
  BY DEF IInv, PanelInv
<1> QED
  BY <1>1, Invariance, PTL

(* The kill switch never belongs to a batch that is over or cancelled.     *)
THEOREM SwitchAlive == Spec => []SwitchIsLive
<1>1. IInv => SwitchIsLive
  BY DEF IInv, SwitchInv
<1> QED
  BY <1>1, Invariance, PTL

(* For a user who waits for every answer, ctrl+c never quits over a batch  *)
(* that runs and that nothing has cancelled.                               *)
THEOREM QuitOnlyIdle ==
    ASSUME ~Overlap
    PROVE  Spec => QuitsWhenIdle
<1>1. ASSUME IInv, [Next]_vars
      PROVE  [app' = "quit" =>
                \A b \in Batches : ~(phase[b] = "running" /\ ctx[b] = "live")]_vars
  <2> SUFFICES ASSUME ~UNCHANGED vars, app' = "quit"
               PROVE  \A b \in Batches : ~(phase[b] = "running" /\ ctx[b] = "live")
    BY <1>1
  <2> USE SessionAssumption DEF IInv, SwitchInv, RequestsOK
  <2>1. CASE \E b \in Batches : Operations(b)
    <3> PICK b \in Batches : Operations(b)
      BY <2>1
    <3>1. app = "running" /\ (app' = app \/ app' = "crashed")
      BY FireOf DEF Operations, Fire, Execute, QuerySuccessMsg, UpdateGraphMsg, requests, Alter,
         BatchReturns, CatalogCommand
    <3> QED
      BY <3>1
  <2>2. CASE \E m \in Tables \cup Views : Asking(m)
    BY <2>2 DEF Asking, Select, Describe, MetadataReturns, MetadataMsg
  <2>3. CASE CtrlC
    BY <1>1, <2>3 DEF CtrlC, WaitInv, Armed
  <2>4. CASE BrowseResults
    BY <2>4 DEF BrowseResults
  <2>5. CASE Stopped
    BY <2>5 DEF Stopped
  <2> QED
    BY <1>1, <2>1, <2>2, <2>3, <2>4, <2>5, Steps
<1> QED
  BY <1>1, Invariance, PTL DEF Spec, QuitsWhenIdle

(* For such a user, what a batch changed is in the tree once the sidebar   *)
(* has reloaded for it.                                                    *)
THEOREM TreeIsCurrent ==
    ASSUME ~Overlap
    PROVE  Spec => []TreeCurrent
<1>1. IInv => TreeCurrent
  BY SessionAssumption
     DEF IInv, TreeInv, HasRead, TreeCurrent, WaitInv, CatalogOK, Sidebar!Reloading,
         Sidebar!Progress
<1> QED
  BY <1>1, Invariance, PTL
=============================================================================
