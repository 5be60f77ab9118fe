------------------------------ MODULE ConnPool ------------------------------
(***************************************************************************)
(* The client and its connection pool (pkg/client/client.go).  The client  *)
(* makes a session read-only, and picks its schema, by executing a SET     *)
(* statement like any other: database/sql runs it on one connection, and   *)
(* the setting belongs to that connection.  Every later statement runs on  *)
(* whichever connection the pool hands out.                                *)
(*                                                                         *)
(* database/sql itself is outside the repository: Acquire takes an idle    *)
(* connection when there is one and opens another otherwise, Release keeps *)
(* at most MaxIdle of them.  The driver is one that tracks an active       *)
(* schema (Postgres, Oracle).                                              *)
(***************************************************************************)
EXTENDS Naturals, FiniteSets

CONSTANTS
    Conns,          \* connections that can be open at once
    Workers,        \* goroutines: statements of a batch, metadata, the picker
    MaxIdle,        \* idle connections kept by database/sql (2)
    Schemas,
    ServerDefault,  \* the schema of a connection that was just opened
    ReadOnly,       \* command.Options.ReadOnly
    Pinned,         \* command.Options.Schema, or NoSchema
    NoSchema,
    MaxPicks        \* bound on the schemas being picked at once

ASSUME PoolAssumption ==
    /\ MaxIdle \in Nat
    /\ ServerDefault \in Schemas
    /\ NoSchema \notin Schemas /\ Pinned \in Schemas \cup {NoSchema}
    /\ ReadOnly \in BOOLEAN
    /\ MaxPicks \in Nat
    /\ IsFiniteSet(Workers) /\ "none" \notin Conns

VARIABLES
    boot,       \* progress of New: "schema", "readonly", "ready"
    schema,     \* Client.schema of New, then what the status bar shows
    idle,       \* the free connections of the pool
    task,       \* task[w]: what goroutine w executes, or Free
    conn,       \* conn[w]: the connection it executes it on, or None
    setting,    \* setting[c]: the session settings of connection c
    opened      \* connections opened so far: 0, 1, or 2 for more

vars == <<boot, schema, idle, task, conn, setting, opened>>

None == "none"
Fresh == [readOnly |-> FALSE, schema |-> ServerDefault]
Free == [does |-> "nothing"]
Statement == [does |-> "statement"]
Use(s) == [does |-> "set schema", schema |-> s]
Tell(s) == [does |-> "schemaSelectedMsg", schema |-> s]
Picks == {Use(s) : s \in Schemas} \cup {Tell(s) : s \in Schemas}
Tasks == {Free, Statement} \cup Picks

Picking == {w \in Workers : task[w] \in Picks}

Used == {conn[w] : w \in Workers} \ {None}

Init ==
    /\ boot = "schema"
    /\ schema = Pinned
    /\ idle = {}
    /\ task = [w \in Workers |-> Free]
    /\ conn = [w \in Workers |-> None]
    /\ setting = [c \in Conns |-> Fresh]
    /\ opened = 0
-----------------------------------------------------------------------------
(* database/sql.                                                           *)

(* The connections the pool may hand out next.                             *)
Handed ==
    IF idle # {} THEN idle ELSE {c \in Conns : c \notin Used}

(* The settings connection c has when it is handed out.                    *)
SettingOf(c) == IF c \in idle THEN setting[c] ELSE Fresh

CountOpened == opened' = IF idle = {} /\ opened < 2 THEN opened + 1 ELSE opened

Kept(c) == Cardinality(idle \ {c}) < MaxIdle
-----------------------------------------------------------------------------
(* New, in the main goroutine, before anything else uses the pool.         *)

(* Mutant of SetUpSchema: the schema is set although none is pinned.       *)
SetUpUnpinned ==
    /\ boot = "schema"
    /\ \E c \in Handed :
        /\ schema' = Pinned
        /\ setting' = [setting EXCEPT ![c] = [SettingOf(c) EXCEPT !.schema = Pinned]]
        /\ idle' = idle \cup {c}
    /\ boot' = "readonly"
    /\ CountOpened
    /\ UNCHANGED <<task, conn>>

(* SetActiveSchema when a schema is pinned, fetchActiveSchema otherwise.   *)
SetUpSchema ==
    /\ boot = "schema"
    /\ \E c \in Handed :
        /\ schema' = IF Pinned = NoSchema THEN SettingOf(c).schema ELSE Pinned
        /\ setting' = [setting EXCEPT ![c] = [SettingOf(c) EXCEPT !.schema = schema']]
        /\ idle' = idle \cup {c}
    /\ boot' = "readonly"
    /\ CountOpened
    /\ UNCHANGED <<task, conn>>

(* Mutant of SetUpReadOnly: the driver is missing from the switch.         *)
SkipReadOnly ==
    /\ boot = "readonly"
    /\ boot' = "ready"
    /\ UNCHANGED <<schema, idle, task, conn, setting, opened>>

SetUpReadOnly ==
    /\ boot = "readonly"
    /\ \E c \in Handed :
        /\ setting' = [setting EXCEPT ![c] = [SettingOf(c) EXCEPT !.readOnly = ReadOnly]]
        /\ idle' = idle \cup {c}
    /\ boot' = "ready"
    /\ CountOpened
    /\ UNCHANGED <<schema, task, conn>>
-----------------------------------------------------------------------------
(* The session.                                                            *)

Acquire(w, t) ==
    /\ boot = "ready"
    /\ task[w] = Free
    /\ task' = [task EXCEPT ![w] = t]
    /\ \E c \in Handed :
        /\ conn' = [conn EXCEPT ![w] = c]
        /\ setting' = [setting EXCEPT ![c] = SettingOf(c)]
        /\ idle' = idle \ {c}
    /\ CountOpened
    /\ UNCHANGED <<boot, schema>>

Release(w) ==
    /\ conn' = [conn EXCEPT ![w] = None]
    /\ idle' = IF Kept(conn[w]) THEN idle \cup {conn[w]} ELSE idle

Turn(w, from, to) ==
    /\ task[w] = from
    /\ task' = [task EXCEPT ![w] = to]

(* A statement of a batch (AsyncQuery), or of the catalog (Query).         *)
RunStatement(w) == Acquire(w, Statement)

EndStatement(w) ==
    /\ Turn(w, Statement, Free)
    /\ Release(w)
    /\ UNCHANGED <<boot, schema, setting, opened>>

(* setSchema of the picker: a pinned schema disables it.                   *)
PickSchema(w, s) ==
    /\ Pinned = NoSchema
    /\ Cardinality(Picking) < MaxPicks
    /\ Acquire(w, Use(s))

(* Mutant of SchemaSet: the driver is missing from the switch.             *)
SchemaNotSet(w, s) ==
    /\ Turn(w, Use(s), Tell(s))
    /\ Release(w)
    /\ UNCHANGED <<boot, schema, setting, opened>>

(* SetActiveSchema returns, and setSchema answers.                         *)
SchemaSet(w, s) ==
    /\ Turn(w, Use(s), Tell(s))
    /\ setting' = [setting EXCEPT ![conn[w]].schema = s]
    /\ Release(w)
    /\ UNCHANGED <<boot, schema, opened>>

(* SetActiveSchema fails: errSchemasMsg changes nothing.                   *)
PickFails(w, s) ==
    /\ Turn(w, Use(s), Free)
    /\ Release(w)
    /\ UNCHANGED <<boot, schema, setting, opened>>

(* Model.Update handles schemaSelectedMsg: the status bar shows it.        *)
SchemaPicked(w, s) ==
    /\ Turn(w, Tell(s), Free)
    /\ schema' = s
    /\ UNCHANGED <<boot, idle, conn, setting, opened>>

(* The driver drops the connection, as several do when the context of a    *)
(* statement is cancelled.                                                 *)
Break(w) ==
    /\ Turn(w, Statement, Free)
    /\ conn' = [conn EXCEPT ![w] = None]
    /\ UNCHANGED <<boot, schema, idle, setting, opened>>
-----------------------------------------------------------------------------
Next ==
    \/ SetUpSchema \/ SetUpReadOnly
    \/ \E w \in Workers :
        \/ RunStatement(w) \/ EndStatement(w) \/ Break(w)
        \/ \E s \in Schemas :
            PickSchema(w, s) \/ SchemaSet(w, s) \/ PickFails(w, s) \/ SchemaPicked(w, s)

Spec == Init /\ [][Next]_vars
-----------------------------------------------------------------------------
(* Properties.                                                             *)

TypeOK ==
    /\ boot \in {"schema", "readonly", "ready"}
    /\ schema \in Schemas \cup {NoSchema}
    /\ idle \subseteq Conns
    /\ task \in [Workers -> Tasks]
    /\ conn \in [Workers -> Conns \cup {None}]
    /\ setting \in [Conns -> [readOnly : BOOLEAN, schema : Schemas]]
    /\ opened \in 0..2

(* "You can use the --readonly flag to open a connection in read-only      *)
(* mode.  This prevents any write operations" (README.md:197): no          *)
(* statement runs on a connection that lacks the setting.                  *)
ReadOnlyHolds ==
    ReadOnly => \A w \in Workers : task[w] = Statement => setting[conn[w]].readOnly

(* What the code does ensure: statements are read-only as long as the pool *)
(* has needed one connection, which two statements at once, or one that    *)
(* broke, put an end to for the rest of the session.                       *)
ReadOnlyOnFirst == opened < 2 => ReadOnlyHolds

(* "... so unqualified table names in the queries you execute resolve      *)
(* against the new schema" (README.md:569): as long as the pool has needed *)
(* one connection, and no schema is being picked, a statement runs in the  *)
(* schema the status bar shows, whatever picks failed before.              *)
SchemaOnFirst ==
    opened < 2 /\ Picking = {} => \A w \in Workers :
        task[w] = Statement => setting[conn[w]].schema = schema

(* What the settings of the session amount to.                             *)
SettingsOnFirst == ReadOnlyOnFirst /\ SchemaOnFirst
=============================================================================
