---------------------------- MODULE FocusProofs -----------------------------
(***************************************************************************)
(* Proofs about Focus for every set of schemas and any number of messages  *)
(* under way: its types, what is lit, what is laid out and what the status *)
(* bar shows.                                                              *)
(***************************************************************************)
EXTENDS Focus, TLAPS

USE DEF Panels, Modals, Modes

(* The sorts of messages and commands, and that each is in InFlight.       *)
LEMMA Sorts ==
    /\ \A modal \in Modals : [cmd |-> "fetch", of |-> modal] \in InFlight
    /\ \A m \in Modes : [msg |-> "modeChange", mode |-> m] \in ModeChange
    /\ \A s \in Schemas : [cmd |-> "setSchema", name |-> s] \in SetSchema
    /\ \A s \in Schemas : [msg |-> "schemaSelected", name |-> s] \in SchemaSelected
    /\ Fetch \subseteq InFlight /\ ModeChange \subseteq InFlight
    /\ SetSchema \subseteq InFlight /\ SchemaSelected \subseteq InFlight
    /\ QuerySelected \in InFlight /\ BackToNormal \in InFlight
BY DEF InFlight, Fetch, ModeChange, SetSchema, SchemaSelected

InboxOK == inbox \in [InFlight -> Nat]

LEMMA Sent ==
    ASSUME InboxOK, NEW m \in InFlight, Issue(m) \/ Take(m)
    PROVE  InboxOK'
BY DEF InboxOK, Issue, Take

(* The inbox is a bag of known messages after every step.                  *)
LEMMA InboxStep ==
    ASSUME InboxOK, [Next]_vars
    PROVE  InboxOK'
<1>1. CASE UNCHANGED inbox
  BY <1>1 DEF InboxOK
<1>2. CASE \E m \in InFlight : Issue(m) \/ Take(m)
  BY <1>2, Sent
<1>3. CASE \E c \in SetSchema : SchemaSet(c)
  BY <1>3, Sorts DEF SchemaSet, InboxOK, SetSchema
<1>4. UNCHANGED inbox \/ (\E m \in InFlight : Issue(m) \/ Take(m))
        \/ (\E c \in SetSchema : SchemaSet(c))
  <2>1. CASE \E modal \in Modals : Open(modal)
    BY <2>1, Sorts DEF Open
  <2>2. CASE EscEditor \/ Insert
    BY <2>2, Sorts DEF EscEditor, Insert, ChangeMode
  <2>3. CASE EscModal
    BY <2>3, Sorts DEF EscModal
  <2>4. CASE \E modal \in Modals : Enter(modal)
    BY <2>4, Sorts DEF Enter
  <2>5. CASE \E modal \in Modals : Loaded(modal)
    BY <2>5, Sorts DEF Loaded
  <2>6. CASE HistoryErr \/ Unhandled
    BY <2>6, Sorts DEF HistoryErr, Unhandled
  <2>7. CASE (\E m \in ModeChange : ModeChanged(m)) \/ (\E m \in SchemaSelected : SchemaPicked(m))
    BY <2>7, Sorts DEF ModeChanged, SchemaPicked
  <2>8. CASE \E m \in {QuerySelected, BackToNormal} : Returned(m)
    BY <2>8, Sorts DEF Returned
  <2>9. CASE \/ Help \/ FullScreen \/ EscPanel \/ EscHelp \/ Right \/ Down \/ Up \/ Left
             \/ WindowSize \/ Crashed \/ UNCHANGED vars
             \/ \E modal \in Modals : Filter(modal)
    BY <2>9 DEF Help, FullScreen, EscPanel, EscHelp, Right, Down, Up, Left, WindowSize,
                Crashed, Filter, vars
  <2>10. CASE \E c \in SetSchema : SchemaSet(c)
    BY <2>10
  <2> QED
    BY <2>1, <2>2, <2>3, <2>4, <2>5, <2>6, <2>7, <2>8, <2>9, <2>10 DEF Next, Keys, Messages
<1> QED
  BY <1>1, <1>2, <1>3, <1>4
-----------------------------------------------------------------------------
(* Everything but the inbox and the status bar's two values.               *)
ShapeOK ==
    /\ focus \in Panels \cup Modals \cup {"Help"}
    /\ fullScreen \in BOOLEAN
    /\ size \in [Panels -> {"split", "full", "old"}]
    /\ barFocus \in Panels

ModalsOK ==
    /\ app \in {"running", "crashed"}
    /\ state \in [Modals -> {"loading", "form"}]
    /\ list \in [Modals -> {"empty", "items"}]

ShownOK ==
    /\ mode \in Modes /\ barMode \in Modes
    /\ schema \in Schemas /\ barSchema \in Schemas

LEMMA SizedType ==
    ASSUME NEW s \in [Panels -> {"split", "full", "old"}],
           NEW f, NEW full \in BOOLEAN
    PROVE  Sized(s, f, full) \in [Panels -> {"split", "full", "old"}]
BY DEF Sized

(* The panels: what has the focus, is lit, and is laid out.                *)
PanelsInv == ShapeOK /\ OnlyFocusIsLit /\ NeverBlank /\ LaidOut

LEMMA PanelsStep ==
    ASSUME PanelsInv, [Next]_vars
    PROVE  PanelsInv'
<1> USE DEF PanelsInv, ShapeOK, OnlyFocusIsLit, NeverBlank, LaidOut
<1>1. ASSUME ApplySizes, focus' \in Panels \cup Modals \cup {"Help"},
             fullScreen' \in BOOLEAN, NeverBlank'
      PROVE  LaidOut' /\ size' \in [Panels -> {"split", "full", "old"}]
  BY <1>1 DEF ApplySizes, Sized
<1>2. CASE UNCHANGED <<focus, fullScreen, lit, size, barFocus>>
  BY <1>2
<1>3. CASE Help \/ FullScreen \/ EscEditor \/ EscPanel
  BY <1>1, <1>3 DEF Help, FullScreen, EscEditor, EscPanel
<1>4. CASE EscHelp \/ HistoryErr \/ (\E m \in SchemaSelected : SchemaPicked(m))
             \/ (\E m \in {QuerySelected, BackToNormal} : Returned(m))
  <2>1. NormalView
    BY <1>4 DEF EscHelp, HistoryErr, SchemaPicked, Returned
  <2> QED
    BY <1>1, <2>1 DEF NormalView
<1>5. CASE Right \/ Down \/ Up \/ Left
  BY <1>1, <1>5 DEF Right, Down, Up, Left
<1>6. CASE EscModal \/ \E modal \in Modals : Open(modal) \/ Enter(modal) \/ Filter(modal)
  BY <1>1, <1>6 DEF EscModal, Open, Enter, Filter
<1>7. CASE WindowSize
  BY <1>7 DEF WindowSize, Sized
<1>8. CASE \/ Insert \/ Unhandled \/ Crashed \/ UNCHANGED vars
           \/ \E modal \in Modals : Loaded(modal)
           \/ \E m \in ModeChange : ModeChanged(m)
           \/ \E c \in SetSchema : SchemaSet(c)
  BY <1>2, <1>8 DEF Insert, Unhandled, Crashed, vars, widgets, Loaded, ModeChanged, SchemaSet
<1> QED
  BY <1>3, <1>4, <1>5, <1>6, <1>7, <1>8 DEF Next, Keys, Messages

(* The modals keep their types.                                            *)
LEMMA ModalsStep ==
    ASSUME ModalsOK, [Next]_vars
    PROVE  ModalsOK'
<1> USE DEF ModalsOK
<1>1. CASE UNCHANGED <<app, state, list>>
  BY <1>1
<1>2. CASE \E modal \in Modals : Open(modal) \/ Enter(modal) \/ Filter(modal) \/ Loaded(modal)
  BY <1>2 DEF Open, Enter, Filter, Loaded, modals
<1>3. CASE \/ Help \/ FullScreen \/ EscEditor \/ EscPanel \/ EscHelp \/ EscModal
           \/ Right \/ Down \/ Up \/ Left \/ Insert \/ WindowSize \/ HistoryErr \/ Unhandled
  BY <1>1, <1>3 DEF Help, FullScreen, EscEditor, EscPanel, EscHelp, EscModal, Right, Down,
     Up, Left, Insert, WindowSize, HistoryErr, Unhandled, modals
<1>4. CASE \/ \E m \in ModeChange : ModeChanged(m)
           \/ \E c \in SetSchema : SchemaSet(c)
           \/ \E m \in SchemaSelected : SchemaPicked(m)
           \/ \E m \in {QuerySelected, BackToNormal} : Returned(m)
           \/ Crashed \/ UNCHANGED vars
  BY <1>1, <1>4 DEF ModeChanged, SchemaSet, SchemaPicked, Returned, Crashed, vars, modals
<1> QED
  BY <1>2, <1>3, <1>4 DEF Next, Keys, Messages
-----------------------------------------------------------------------------
(* The mode: for a user who does not race, at most one message is under    *)
(* way, and it carries the editor's mode.                                  *)
ModeInv ==
    /\ mode \in Modes /\ barMode \in Modes
    /\ ~Racing => \A m \in ModeChange : inbox[m] # 0 => m.mode = mode /\ inbox[m] = 1
    /\ ModeShown

LEMMA ModeStep ==
    ASSUME InboxOK, ModeInv, [Next]_vars
    PROVE  ModeInv'
<1> USE DEF ModeInv, ModeShown, Quiet, InboxOK, FocusAssumption
<1>1. CASE UNCHANGED <<mode, barMode>> /\ \A m \in ModeChange : inbox'[m] = inbox[m]
  BY <1>1
<1>2. ASSUME NEW m \in InFlight \ ModeChange, Issue(m) \/ Take(m)
      PROVE  \A n \in ModeChange : inbox'[n] = inbox[n]
  BY <1>2, Sorts DEF Issue, Take
<1>3. /\ \A n \in Fetch \cup SetSchema \cup SchemaSelected : n \in InFlight \ ModeChange
      /\ QuerySelected \in InFlight \ ModeChange /\ BackToNormal \in InFlight \ ModeChange
  BY Sorts DEF Fetch, SetSchema, SchemaSelected, ModeChange, QuerySelected, BackToNormal
<1>4. \A modal \in Modals : [cmd |-> "fetch", of |-> modal] \in Fetch
  BY DEF Fetch
<1>5. ASSUME NEW m \in Modes, ChangeMode(m)
      PROVE  ModeInv'
  <2> DEFINE msg == [msg |-> "modeChange", mode |-> m]
  <2>1. msg \in ModeChange /\ msg \in InFlight /\ msg.mode = m
    BY Sorts
  <2>2. inbox' = [inbox EXCEPT ![msg] = @ + 1] /\ mode' = m /\ barMode' = barMode
    BY <1>5 DEF ChangeMode, Issue
  <2>3. ASSUME ~Racing PROVE \A n \in ModeChange : inbox'[n] = IF n = msg THEN 1 ELSE 0
    BY <2>1, <2>2, <2>3, <1>5, Sorts DEF ChangeMode
  <2> HIDE DEF msg
  <2> QED
    BY <2>1, <2>2, <2>3
<1>6. ASSUME NEW m \in ModeChange, ModeChanged(m)
      PROVE  ModeInv'
  <2>1. m \in InFlight /\ m.mode \in Modes
    BY Sorts DEF ModeChange
  <2>2. inbox[m] # 0 /\ inbox' = [inbox EXCEPT ![m] = @ - 1] /\ barMode' = m.mode /\ mode' = mode
    BY <1>6, <2>1 DEF ModeChanged, Take
  <2>3. \A n \in ModeChange : n.mode = m.mode => n = m
    BY DEF ModeChange
  <2> QED
    BY <2>1, <2>2, <2>3, Sorts
<1>7. CASE EscEditor \/ Insert
  BY <1>1, <1>5, <1>7 DEF EscEditor, Insert, modeVars
<1>8. CASE EscModal \/ \E modal \in Modals : Open(modal) \/ Loaded(modal)
  BY <1>1, <1>2, <1>3, <1>4, <1>8 DEF EscModal, Open, Loaded, modeVars
<1>9. CASE \E modal \in Modals : Enter(modal)
  <2>1. \A s \in Schemas : [cmd |-> "setSchema", name |-> s] \in SetSchema
    BY Sorts
  <2> QED
    BY <2>1, <1>1, <1>2, <1>3, <1>9 DEF Enter, modeVars
<1>10. CASE \/ HistoryErr \/ Unhandled \/ (\E m \in SchemaSelected : SchemaPicked(m))
            \/ \E m \in {QuerySelected, BackToNormal} : Returned(m)
  BY <1>1, <1>2, <1>3, <1>4, <1>10 DEF HistoryErr, Unhandled, SchemaPicked, Returned, modeVars
<1>11. CASE \E c \in SetSchema : SchemaSet(c)
  <2> PICK c \in SetSchema : SchemaSet(c)
    BY <1>11
  <2> DEFINE answer == [msg |-> "schemaSelected", name |-> c.name]
  <2>1. answer \in SchemaSelected
    BY DEF SetSchema, SchemaSelected
  <2>2. c \notin ModeChange /\ answer \notin ModeChange
    BY <1>3, <2>1
  <2>3. inbox' = [inbox EXCEPT ![c] = @ - 1, ![answer] = @ + 1]
    BY DEF SchemaSet
  <2>4. \A n \in ModeChange : inbox'[n] = inbox[n]
    BY <2>2, <2>3, Sorts
  <2> QED
    BY <1>1, <2>4 DEF SchemaSet, modeVars
<1>12. CASE \/ Help \/ FullScreen \/ EscPanel \/ EscHelp \/ Right \/ Down \/ Up \/ Left
            \/ WindowSize \/ Crashed \/ UNCHANGED vars
            \/ \E modal \in Modals : Filter(modal)
  BY <1>1, <1>12 DEF Help, FullScreen, EscPanel, EscHelp, Right, Down, Up, Left, WindowSize,
     Crashed, Filter, vars, modeVars
<1> QED
  BY <1>6, <1>7, <1>8, <1>9, <1>10, <1>11, <1>12 DEF Next, Keys, Messages
-----------------------------------------------------------------------------
(* The schema: for a user who does not race, at most one pick is under way *)
(* as a command or as its message, and the message carries what was set.   *)
Picks == SetSchema \cup SchemaSelected

SchemaInv ==
    /\ schema \in Schemas /\ barSchema \in Schemas
    /\ ~Racing =>
        /\ \A m \in Picks : inbox[m] # 0 => inbox[m] = 1 /\ \A n \in Picks : n # m => inbox[n] = 0
        /\ \A m \in SchemaSelected : inbox[m] # 0 => m.name = schema
        /\ (\A m \in SchemaSelected : inbox[m] = 0) => barSchema = schema

LEMMA SchemaStep ==
    ASSUME InboxOK, SchemaInv, [Next]_vars
    PROVE  SchemaInv'
<1> USE DEF SchemaInv, InboxOK, FocusAssumption
<1>1. CASE UNCHANGED <<schema, barSchema>> /\ \A m \in Picks : inbox'[m] = inbox[m]
  BY <1>1 DEF Picks
<1>2. ASSUME NEW m \in InFlight \ Picks, Issue(m) \/ Take(m)
      PROVE  \A n \in Picks : inbox'[n] = inbox[n]
  BY <1>2, Sorts DEF Issue, Take, Picks
<1>3. /\ \A n \in Fetch \cup ModeChange : n \in InFlight \ Picks
      /\ QuerySelected \in InFlight \ Picks /\ BackToNormal \in InFlight \ Picks
  BY Sorts DEF Fetch, SetSchema, SchemaSelected, ModeChange, QuerySelected, BackToNormal, Picks
<1>4. /\ \A modal \in Modals : [cmd |-> "fetch", of |-> modal] \in Fetch
      /\ \A m \in Modes : [msg |-> "modeChange", mode |-> m] \in ModeChange
  BY DEF Fetch, ModeChange
<1>5. Picks \subseteq InFlight /\ SetSchema \cap SchemaSelected = {}
      /\ \A n \in Picks : n.name \in Schemas
  BY Sorts DEF Picks, SetSchema, SchemaSelected
<1>6. ASSUME NEW s \in Schemas, Racing \/ Quiet(SetSchema \cup SchemaSelected),
             Issue([cmd |-> "setSchema", name |-> s]), UNCHANGED <<schema, barSchema>>
      PROVE  SchemaInv'
  <2> DEFINE c == [cmd |-> "setSchema", name |-> s]
  <2>1. c \in SetSchema /\ c \in InFlight
    BY Sorts
  <2>2. inbox' = [inbox EXCEPT ![c] = @ + 1]
    BY <1>6 DEF Issue
  <2>3. ASSUME ~Racing PROVE \A n \in Picks : inbox[n] = 0
    BY <1>6, <2>3 DEF Quiet, Picks
  <2> HIDE DEF c
  <2> QED
    BY <1>5, <1>6, <2>1, <2>2, <2>3 DEF Picks
<1>7. ASSUME NEW c \in SetSchema, Take(c), UNCHANGED <<schema, barSchema>>
      PROVE  SchemaInv'
  <2>1. inbox[c] # 0 /\ inbox' = [inbox EXCEPT ![c] = @ - 1] /\ c \in Picks /\ c \notin SchemaSelected
    BY <1>5, <1>7 DEF Take, Picks
  <2> QED
    BY <1>5, <1>7, <2>1 DEF Picks
<1>8. CASE \E c \in SetSchema : SchemaSet(c)
  <2> PICK c \in SetSchema : SchemaSet(c)
    BY <1>8
  <2> DEFINE answer == [msg |-> "schemaSelected", name |-> c.name]
  <2>1. answer \in SchemaSelected /\ answer.name = c.name /\ c.name \in Schemas
    BY DEF SetSchema, SchemaSelected
  <2>2. /\ inbox' = [inbox EXCEPT ![c] = @ - 1, ![answer] = @ + 1]
        /\ schema' = c.name /\ barSchema' = barSchema /\ inbox[c] # 0
    BY DEF SchemaSet, InboxOK, schemaVars
  <2>3. c \in Picks /\ answer \in Picks /\ c # answer
    BY <1>5, <2>1 DEF Picks
  <2> HIDE DEF answer
  <2>4. ASSUME ~Racing PROVE inbox[c] = 1 /\ \A n \in Picks : n # c => inbox[n] = 0
    BY <2>2, <2>3, <2>4
  <2>a. c \in InFlight /\ answer \in InFlight
    BY <1>5, <2>3
  <2>b. /\ inbox'[c] = inbox[c] - 1 /\ inbox'[answer] = inbox[answer] + 1
        /\ \A n \in InFlight : n # c /\ n # answer => inbox'[n] = inbox[n]
    BY <2>2, <2>3, <2>a
  <2>5. ASSUME ~Racing PROVE \A n \in Picks : inbox'[n] = IF n = answer THEN 1 ELSE 0
    <3>1. inbox[c] = 1 /\ \A n \in Picks : n # c => inbox[n] = 0
      BY <2>4, <2>5
    <3> HIDE DEF SchemaInv, InboxOK
    <3>2. inbox'[c] = 0 /\ inbox'[answer] = 1
      BY <3>1, <2>b, <2>3
    <3>3. ASSUME NEW n \in Picks, n # c, n # answer PROVE inbox'[n] = 0
      BY <3>1, <3>3, <2>b, <1>5
    <3> QED BY <3>2, <3>3, <2>3
  <2>6. SchemaSelected \subseteq Picks
    BY DEF Picks
  <2>7. ASSUME ~Racing
        PROVE  /\ \A m \in Picks : inbox'[m] # 0 =>
                    inbox'[m] = 1 /\ \A n \in Picks : n # m => inbox'[n] = 0
               /\ \A m \in SchemaSelected : inbox'[m] # 0 => m.name = schema'
               /\ ~\A m \in SchemaSelected : inbox'[m] = 0
    <3>1. \A n \in Picks : inbox'[n] = IF n = answer THEN 1 ELSE 0
      BY <2>5, <2>7
    <3> HIDE DEF SchemaInv, InboxOK
    <3>2. \A m \in Picks : inbox'[m] # 0 => m = answer
      BY <3>1
    <3>3. inbox'[answer] = 1
      BY <3>1, <2>3
    <3>4. \A m \in SchemaSelected : inbox'[m] # 0 => m.name = schema'
      BY <3>2, <2>1, <2>2, <2>6
    <3>5. ~\A m \in SchemaSelected : inbox'[m] = 0
      BY <3>3, <2>1
    <3> QED BY <3>2, <3>3, <3>4, <3>5
  <2> QED
    BY <2>1, <2>2, <2>7
<1>9. CASE \E m \in SchemaSelected : SchemaPicked(m)
  <2> PICK m \in SchemaSelected : SchemaPicked(m)
    BY <1>9
  <2>1. /\ inbox[m] # 0 /\ inbox' = [inbox EXCEPT ![m] = @ - 1]
        /\ schema' = schema /\ barSchema' = m.name /\ m \in Picks
    BY DEF SchemaPicked, Take, Picks, InboxOK
  <2> QED
    BY <1>5, <2>1 DEF Picks
<1>10. CASE EscEditor \/ Insert
  BY <1>1, <1>2, <1>3, <1>4, <1>10 DEF EscEditor, Insert, ChangeMode, modeVars, schemaVars
<1>11. CASE EscModal \/ \E modal \in Modals : Open(modal) \/ Loaded(modal)
  BY <1>1, <1>2, <1>3, <1>4, <1>11 DEF EscModal, Open, Loaded, schemaVars
<1>12. CASE \E modal \in Modals : Enter(modal)
  BY <1>1, <1>2, <1>3, <1>6, <1>12 DEF Enter, schemaVars
<1>13. CASE Unhandled
  BY <1>1, <1>2, <1>3, <1>7, <1>13 DEF Unhandled, schemaVars
<1>14. CASE \/ HistoryErr \/ \E m \in ModeChange : ModeChanged(m)
            \/ \E m \in {QuerySelected, BackToNormal} : Returned(m)
  BY <1>1, <1>2, <1>3, <1>4, <1>14 DEF HistoryErr, ModeChanged, Returned, schemaVars
<1>15. CASE \/ Help \/ FullScreen \/ EscPanel \/ EscHelp \/ Right \/ Down \/ Up \/ Left
            \/ WindowSize \/ Crashed \/ UNCHANGED vars
            \/ \E modal \in Modals : Filter(modal)
  BY <1>1, <1>15 DEF Help, FullScreen, EscPanel, EscHelp, Right, Down, Up, Left, WindowSize,
     Crashed, Filter, vars, schemaVars
<1> QED
  BY <1>8, <1>9, <1>10, <1>11, <1>12, <1>13, <1>14, <1>15 DEF Next, Keys, Messages
-----------------------------------------------------------------------------
IInv == InboxOK /\ PanelsInv /\ ModalsOK /\ ModeInv /\ SchemaInv

LEMMA InitIInv == Init => IInv
<1> SUFFICES ASSUME Init PROVE IInv
  OBVIOUS
<1> USE DEF Init
<1>1. InboxOK
  BY DEF InboxOK
<1>2. PanelsInv /\ ModalsOK
  BY DEF PanelsInv, ShapeOK, OnlyFocusIsLit, NeverBlank, LaidOut, ModalsOK
<1>3. ModeInv
  BY Sorts DEF ModeInv, ModeShown
<1>4. SchemaInv
  BY Sorts DEF SchemaInv, Picks
<1> QED
  BY <1>1, <1>2, <1>3, <1>4 DEF IInv

LEMMA StepIInv == IInv /\ [Next]_vars => IInv'
BY InboxStep, PanelsStep, ModalsStep, ModeStep, SchemaStep DEF IInv

LEMMA Invariance == Spec => []IInv
BY InitIInv, StepIInv, PTL DEF Spec

(* Every variable keeps its type, the inbox its bound below.               *)
THEOREM TypeCorrect == Spec => []TypeOK
<1>1. IInv => TypeOK
  BY DEF IInv, InboxOK, PanelsInv, ShapeOK, OnlyFocusIsLit, ModalsOK, ModeInv, SchemaInv, TypeOK
<1> QED
  BY <1>1, Invariance, PTL

(* Whatever modals open and close, and however many of their messages are  *)
(* under way, exactly one panel is lit, the one with the focus.            *)
THEOREM OnePanelLit == Spec => []OnlyFocusIsLit
<1>1. IInv => OnlyFocusIsLit
  BY DEF IInv, PanelsInv
<1> QED
  BY <1>1, Invariance, PTL

(* Full screen never gets to the sidebar.                                  *)
THEOREM ScreenNeverBlank == Spec => []NeverBlank
<1>1. IInv => NeverBlank
  BY DEF IInv, PanelsInv
<1> QED
  BY <1>1, Invariance, PTL

(* What is on screen has the size of the current layout and window.        *)
THEOREM ScreenLaidOut == Spec => []LaidOut
<1>1. IInv => LaidOut
  BY DEF IInv, PanelsInv
<1> QED
  BY <1>1, Invariance, PTL

(* The status bar shows the mode and the schema, for every set of schemas  *)
(* and whatever is dismissed or fails, once its messages have arrived.     *)
THEOREM StatusBarCorrect == Spec => []StatusBarTrue
<1>1. IInv => ModeShown
  BY DEF IInv, ModeInv
<1>2. IInv => SchemaShown
  BY DEF IInv, SchemaInv, SchemaShown, Quiet
<1> QED
  BY <1>1, <1>2, Invariance, PTL DEF StatusBarTrue
=============================================================================
