------------------------------ MODULE Dialect -------------------------------
(***************************************************************************)
(* What the queries of the five databases about themselves answer          *)
(* (pkg/client/postgres.go, mysql.go, sqlite.go, oracle.go, mssql.go):     *)
(* which schemas, tables and views they list, and which relations the tabs *)
(* of a table or of a view come from.                                      *)
(*                                                                         *)
(* A database is a function from places, the pairs of a schema and a name, *)
(* to what is there.  For MySQL, Default is the database of the connection *)
(* and the other schemas are other databases of the server.  How a server  *)
(* reads an identifier that is not quoted is outside the repository:       *)
(* PostgreSQL and Oracle fold its case, the others take it as it is.       *)
(***************************************************************************)
EXTENDS Naturals

CONSTANTS
    Schemas,
    Default,    \* the schema of names that are not qualified
    Names,
    Fold        \* Fold[n]: the name meant by n where it is not quoted

ASSUME DialectAssumption ==
    /\ Default \in Schemas
    /\ Fold \in [Names -> Names]
    /\ \A n \in Names : Fold[Fold[n]] = Fold[n]

Drivers == {"postgres", "mysql", "sqlite", "oracle", "sqlserver"}
NoSchema == "none"

Places == [schema : Schemas, name : Names]
Kinds == {"none", "table", "view"}

At(s, n) == [schema |-> s, name |-> n]
Is(db, kinds) == {p \in Places : db[p] \in kinds}
In(places, s) == {p.name : p \in {q \in places : q.schema = s}}
AnySchema(n) == {p \in Places : p.name = n}
There(db, places) == places \cap Is(db, {"table", "view"})

(* An answer: the places its rows describe, or an error.                   *)
Answer(places) == [ok |-> TRUE, about |-> places]
Error == [ok |-> FALSE, about |-> {}]
NeedsIt(db, p) == IF There(db, {p}) = {} THEN Error ELSE Answer({p})
-----------------------------------------------------------------------------
(* The lists of a catalog.  With --schema the schema is not looked up.     *)

PostgresSchemas(db) == Schemas
OracleSchemas(db) == {s \in Schemas : In(Is(db, {"table"}), s) # {}}
SQLServerSchemas(db) == Schemas

(* information_schema.tables and SHOW TABLES have the views as well.       *)
PostgresTables(db, s) == In(Is(db, {"table", "view"}), s)
MySQLTables(db) == In(Is(db, {"table", "view"}), Default)
SQLiteTables(db) == In(Is(db, {"table"}), Default)
OracleTables(db, s) == In(Is(db, {"table"}), s)
SQLServerTables(db, s) == In(Is(db, {"table"}), s)

PostgresViews(db, s) == In(Is(db, {"view"}), s)
MySQLViews(db) == In(Is(db, {"view"}), Default)
SQLiteViews(db) == In(Is(db, {"view"}), Default)
OracleViews(db, s) == In(Is(db, {"view"}), s)
SQLServerViews(db, s) == In(Is(db, {"view"}), s)

HasSchemas(driver) == driver \in {"postgres", "oracle", "sqlserver"}

SchemasOf(driver, db) ==
    CASE driver = "postgres" -> PostgresSchemas(db)
      [] driver = "oracle" -> OracleSchemas(db)
      [] driver = "sqlserver" -> SQLServerSchemas(db)

TablesOf(driver, db, s) ==
    CASE driver = "postgres" -> PostgresTables(db, s)
      [] driver = "mysql" -> MySQLTables(db)
      [] driver = "sqlite" -> SQLiteTables(db)
      [] driver = "oracle" -> OracleTables(db, s)
      [] driver = "sqlserver" -> SQLServerTables(db, s)

(* Mutant of ViewsOf: the query of the tables is run twice.                *)
ViewsAreTables(driver, db, s) == TablesOf(driver, db, s)

ViewsOf(driver, db, s) ==
    CASE driver = "postgres" -> PostgresViews(db, s)
      [] driver = "mysql" -> MySQLViews(db)
      [] driver = "sqlite" -> SQLiteViews(db)
      [] driver = "oracle" -> OracleViews(db, s)
      [] driver = "sqlserver" -> SQLServerViews(db, s)
-----------------------------------------------------------------------------
(* The tabs of a relation.  ref is a TableRef or a ViewRef, whose schema   *)
(* only PostgreSQL and Oracle get.                                         *)

(* The place that a name stands for in a statement without quotes.         *)
Meant(driver, ref) ==
    CASE driver \in {"postgres", "oracle"} -> At(ref.schema, Fold[ref.name])
      [] OTHER -> At(Default, ref.name)

(* tableContent and viewContent: SELECT * FROM the name.                   *)
Content(driver, db, ref) == NeedsIt(db, Meant(driver, ref))

(* pg_class and pg_namespace are searched for the very schema and name,    *)
(* the cast to regclass folds and fails when nothing is found.             *)
PostgresTab(db, tab, ref) ==
    LET p == At(ref.schema, ref.name)
    IN  IF tab = "View Def" THEN NeedsIt(db, Meant("postgres", ref))
        ELSE Answer(There(db, {p}))

(* DESCRIBE and SHOW INDEX fail without the table; the constraints are     *)
(* those of every table of that name on the server.                        *)
MySQLTab(db, tab, ref) ==
    LET p == At(Default, ref.name)
    IN  CASE tab \in {"Columns", "Indexes"} -> NeedsIt(db, p)
          [] tab = "Constraints" ->
                Answer(AnySchema(ref.name) \cap Is(db, {"table"}))
          [] tab = "View Def" -> Answer({p} \cap Is(db, {"view"}))

(* sqlite_master and PRAGMA functions, which know one schema.              *)
SQLiteTab(db, tab, ref) ==
    LET p == At(Default, ref.name)
    IN  CASE tab \in {"Columns", "Indexes"} -> Answer(There(db, {p}))
          [] tab = "Constraints" -> Answer({p} \cap Is(db, {"table"}))
          [] tab = "View Def" -> Answer({p} \cap Is(db, {"view"}))

(* Mutant of OracleTab: USER_* instead of ALL_* for lack of a schema.      *)
OracleTabOfUser(db, tab, ref) ==
    Answer(There(db, {At(Default, Fold[ref.name])}))

(* ALL_TAB_COLUMNS, ALL_INDEXES, ALL_CONSTRAINTS, ALL_VIEWS by owner and   *)
(* name, both in upper case.                                               *)
OracleTab(db, tab, ref) ==
    LET p == At(ref.schema, Fold[ref.name])
    IN  IF tab = "View Def" THEN Answer({p} \cap Is(db, {"view"}))
        ELSE Answer(There(db, {p}))

(* OBJECT_ID resolves the name in the default schema; constraints and      *)
(* indexes are those of every table of that name.                          *)
SQLServerTab(db, tab, ref) ==
    LET p == At(Default, ref.name)
    IN  CASE tab = "Columns" -> Answer(There(db, {p}))
          [] tab \in {"Indexes", "Constraints"} ->
                Answer(AnySchema(ref.name) \cap Is(db, {"table"}))
          [] tab = "View Def" -> Answer(There(db, {p}))

TabOf(driver, db, tab, ref) ==
    IF tab = "Data" THEN Content(driver, db, ref)
    ELSE CASE driver = "postgres" -> PostgresTab(db, tab, ref)
           [] driver = "mysql" -> MySQLTab(db, tab, ref)
           [] driver = "sqlite" -> SQLiteTab(db, tab, ref)
           [] driver = "oracle" -> OracleTab(db, tab, ref)
           [] driver = "sqlserver" -> SQLServerTab(db, tab, ref)

(* The queries of Metadata and of ViewMetadata, in order.                  *)
TableTabs == <<"Data", "Columns", "Constraints", "Indexes">>
ViewTabs == <<"View Def", "Data">>
=============================================================================
