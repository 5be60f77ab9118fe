---------------------------- MODULE BrowseProofs ----------------------------
(***************************************************************************)
(* Proofs about Browse for every database, any number of schemas, names,   *)
(* reads, requests and changes in between: the tree of the sidebar is      *)
(* faithful to what was there, the tabs shown together are about the       *)
(* relation selected, and they are those of the last request.              *)
(***************************************************************************)
EXTENDS Browse, TLAPS

ReadRecord == [at : ReadingAt, schema : Schemas, todo : SUBSET Schemas,
               nodes : SUBSET Nodes, always : SUBSET Nodes, ever : SUBSET Nodes]

ServerInv ==
    /\ driver \in Drivers
    /\ pinned \in IF HasSchemas(driver) THEN Schemas \cup {NoSchema} ELSE {NoSchema}
    /\ db \in [Places -> Kinds]

(* Covered, for what a read has found so far.                              *)
Covers(rec) ==
    IF pinned # NoSchema THEN {pinned}
    ELSE CASE ~HasSchemas(driver) -> {Default}
           [] driver = "oracle" -> {f.schema : f \in {g \in rec.always : g.type = "table"}}
           [] OTHER -> Schemas

(* A fact that the read has found, or whose query is still to come.        *)
Known(rec, f) ==
    \/ f \in rec.nodes
    \/ f.schema \in rec.todo
    \/ rec.at = "schemas"
    \/ rec.at = "tables" /\ f.schema = rec.schema
    \/ rec.at = "views" /\ f.schema = rec.schema /\ f.type = "view"

UpToDate(rec) ==
    rec.at \in {"schemas", "tables", "views"} =>
        rec.always \subseteq Facts(db) /\ Facts(db) \subseteq rec.ever

Queue(rec) ==
    /\ rec.at \notin {"tables", "views"} => rec.todo = {}
    /\ rec.at \in {"tables", "views"} /\ ~HasSchemas(driver) =>
          rec.schema = Default /\ rec.todo = {}
    /\ rec.at = "schemas" => HasSchemas(driver) /\ pinned = NoSchema

Complete(rec) == \A f \in rec.always : f.schema \in Covers(rec) => Known(rec, f)

Sound(rec) == \A node \in rec.nodes : \E f \in rec.ever : Stands(node, f)

RecordInv(rec) ==
    /\ rec \in ReadRecord
    /\ UpToDate(rec)
    /\ Queue(rec)
    /\ Complete(rec)
    /\ Sound(rec)

TreeInv ==
    /\ ServerInv
    /\ DOMAIN read = Reads /\ read = [r \in Reads |-> read[r]]
    /\ \A r \in Reads : RecordInv(read[r])
    /\ tree # None => tree \in Reads /\ read[tree].at = "done"
-----------------------------------------------------------------------------
(* The queries of the servers.                                             *)

LEMMA FactsAre ==
    ASSUME NEW d \in [Places -> Kinds], NEW f
    PROVE  f \in Facts(d) <=> f \in Nodes /\ d[PlaceOf(f)] = f.type
<1>1. ASSUME f \in Facts(d)
      PROVE  f \in Nodes /\ d[PlaceOf(f)] = f.type
  <2>1. PICK p \in Is(d, {"table", "view"}) :
            f = [type |-> d[p], schema |-> p.schema, name |-> p.name]
    BY <1>1 DEF Facts
  <2>2. p \in Places /\ d[p] \in {"table", "view"}
    BY DEF Is
  <2>3. p = [schema |-> p.schema, name |-> p.name] /\ p.schema \in Schemas /\ p.name \in Names
    BY <2>2 DEF Places
  <2>4. f.type = d[p] /\ f.schema = p.schema /\ f.name = p.name
    BY <2>1
  <2> QED
    BY <2>1, <2>2, <2>3, <2>4 DEF Nodes, NodeTypes, PlaceOf, At
<1>2. ASSUME f \in Nodes, d[PlaceOf(f)] = f.type
      PROVE  f \in Facts(d)
  <2>1. f = [type |-> f.type, schema |-> f.schema, name |-> f.name]
    BY <1>2 DEF Nodes
  <2>2. /\ PlaceOf(f) \in Places /\ PlaceOf(f).schema = f.schema /\ PlaceOf(f).name = f.name
        /\ f.type \in {"table", "view"}
    BY <1>2 DEF Nodes, NodeTypes, PlaceOf, At, Places
  <2>3. PlaceOf(f) \in Is(d, {"table", "view"})
    BY <1>2, <2>2 DEF Is
  <2> QED
    BY <1>2, <2>1, <2>2, <2>3 DEF Facts
<1> QED
  BY <1>1, <1>2

LEMMA NamesIn ==
    ASSUME NEW d \in [Places -> Kinds], NEW kinds, NEW s \in Schemas, NEW n
    PROVE  n \in In(Is(d, kinds), s) <=> n \in Names /\ d[At(s, n)] \in kinds
<1>1. ASSUME n \in In(Is(d, kinds), s)
      PROVE  n \in Names /\ d[At(s, n)] \in kinds
  <2>1. PICK p \in Places : d[p] \in kinds /\ p.schema = s /\ p.name = n
    BY <1>1 DEF In, Is
  <2>2. p = At(s, n) /\ n \in Names
    BY <2>1 DEF Places, At
  <2> QED
    BY <2>1, <2>2
<1>2. ASSUME n \in Names, d[At(s, n)] \in kinds
      PROVE  n \in In(Is(d, kinds), s)
  <2>1. At(s, n) \in Places /\ At(s, n).schema = s /\ At(s, n).name = n
    BY <1>2 DEF Places, At
  <2> QED
    BY <1>2, <2>1 DEF In, Is
<1> QED
  BY <1>1, <1>2

LEMMA TablesListed ==
    ASSUME ServerInv, NEW s \in Schemas, ~HasSchemas(driver) => s = Default, NEW n
    PROVE  /\ n \in Names /\ db[At(s, n)] = "table" => n \in TablesOf(driver, db, s)
           /\ n \in TablesOf(driver, db, s) =>
                n \in Names /\ \/ db[At(s, n)] = "table"
                               \/ driver \in {"postgres", "mysql"} /\ db[At(s, n)] = "view"
<1> USE DEF ServerInv
<1>1. CASE driver = "postgres"
  BY <1>1, NamesIn DEF TablesOf, PostgresTables
<1>2. CASE driver = "mysql"
  <2>1. s = Default
    BY <1>2 DEF HasSchemas
  <2> QED
    BY <1>2, <2>1, NamesIn DEF TablesOf, MySQLTables
<1>3. CASE driver = "sqlite"
  <2>1. s = Default
    BY <1>3 DEF HasSchemas
  <2> QED
    BY <1>3, <2>1, NamesIn DEF TablesOf, SQLiteTables
<1>4. CASE driver = "oracle"
  BY <1>4, NamesIn DEF TablesOf, OracleTables
<1>5. CASE driver = "sqlserver"
  BY <1>5, NamesIn DEF TablesOf, SQLServerTables
<1> QED
  BY <1>1, <1>2, <1>3, <1>4, <1>5 DEF Drivers

LEMMA ViewsListed ==
    ASSUME ServerInv, NEW s \in Schemas, ~HasSchemas(driver) => s = Default, NEW n
    PROVE  n \in ViewsOf(driver, db, s) <=> n \in Names /\ db[At(s, n)] = "view"
<1> USE DEF ServerInv
<1>1. CASE driver = "postgres"
  BY <1>1, NamesIn DEF ViewsOf, PostgresViews
<1>2. CASE driver = "mysql"
  <2>1. s = Default
    BY <1>2 DEF HasSchemas
  <2> QED
    BY <1>2, <2>1, NamesIn DEF ViewsOf, MySQLViews
<1>3. CASE driver = "sqlite"
  <2>1. s = Default
    BY <1>3 DEF HasSchemas
  <2> QED
    BY <1>3, <2>1, NamesIn DEF ViewsOf, SQLiteViews
<1>4. CASE driver = "oracle"
  BY <1>4, NamesIn DEF ViewsOf, OracleViews
<1>5. CASE driver = "sqlserver"
  BY <1>5, NamesIn DEF ViewsOf, SQLServerViews
<1> QED
  BY <1>1, <1>2, <1>3, <1>4, <1>5 DEF Drivers
-----------------------------------------------------------------------------
(* The steps of a read.                                                    *)

(* On to the next schema, or to the end of the catalog.                    *)
LEMMA NextKept ==
    ASSUME NEW rec \in ReadRecord, NEW todo \in SUBSET Schemas,
           ServerInv,
           rec.always \subseteq Facts(db), Facts(db) \subseteq rec.ever,
           ~HasSchemas(driver) => todo \subseteq {Default},
           \A f \in rec.always : f.schema \in Covers(rec) => f \in rec.nodes \/ f.schema \in todo,
           Sound(rec),
           NEW next \in NextSchema(rec, todo)
    PROVE  RecordInv(next)
<1>1. CASE todo = {}
  <2>1. next = [rec EXCEPT !.at = "answered", !.todo = {}]
    BY <1>1 DEF NextSchema
  <2>2. /\ next \in ReadRecord /\ next.at = "answered" /\ next.todo = {}
        /\ next.always = rec.always /\ next.nodes = rec.nodes /\ next.ever = rec.ever
    BY <2>1 DEF ReadRecord, ReadingAt
  <2>3. Complete(next)
    BY <1>1, <2>2 DEF Complete, Covers, Known
  <2> QED
    BY <2>2, <2>3 DEF RecordInv, UpToDate, Queue, Sound
<1>2. CASE todo # {}
  <2>1. PICK s \in todo : next = [rec EXCEPT !.at = "tables", !.schema = s, !.todo = todo \ {s}]
    BY <1>2 DEF NextSchema
  <2>2. /\ next \in ReadRecord /\ next.at = "tables" /\ next.schema = s /\ next.todo = todo \ {s}
        /\ next.always = rec.always /\ next.nodes = rec.nodes /\ next.ever = rec.ever
    BY <2>1 DEF ReadRecord, ReadingAt
  <2>3. Complete(next)
    BY <2>2 DEF Complete, Covers, Known
  <2>4. Queue(next)
    BY <2>2 DEF Queue
  <2> QED
    BY <2>2, <2>3, <2>4 DEF RecordInv, UpToDate, Sound
<1> QED
  BY <1>1, <1>2

LEMMA BegunKept ==
    ASSUME ServerInv, NEW next \in Begun(db, driver, pinned)
    PROVE  RecordInv(next)
<1> DEFINE r == [IdleRead EXCEPT !.always = Facts(db), !.ever = Facts(db)]
<1>1. Facts(db) \subseteq Nodes
  BY FactsAre DEF ServerInv
<1>2. /\ r \in ReadRecord /\ r.at = "idle" /\ r.todo = {} /\ r.nodes = {}
      /\ r.always = Facts(db) /\ r.ever = Facts(db)
  BY <1>1, DialectAssumption DEF IdleRead, ReadRecord, ReadingAt
<1>3. Sound(r)
  <2> HIDE DEF r
  <2> QED
    BY <1>2 DEF Sound
<1>4. CASE HasSchemas(driver) /\ pinned = NoSchema
  <2>1. next = [r EXCEPT !.at = "schemas"]
    BY <1>4 DEF Begun
  <2> HIDE DEF r
  <2>2. /\ next \in ReadRecord /\ next.at = "schemas" /\ next.todo = {} /\ next.nodes = {}
        /\ next.always = Facts(db) /\ next.ever = Facts(db)
    BY <1>2, <2>1 DEF ReadRecord, ReadingAt
  <2> QED
    BY <1>4, <2>2 DEF RecordInv, UpToDate, Queue, Complete, Known, Sound
<1>5. CASE HasSchemas(driver) /\ pinned # NoSchema
  <2>1. next \in NextSchema(r, {pinned})
    BY <1>5 DEF Begun
  <2> HIDE DEF r
  <2>2. {pinned} \in SUBSET Schemas
    BY <1>5 DEF ServerInv
  <2>3. Covers(r) = {pinned}
    BY <1>5 DEF Covers
  <2> QED
    BY <1>2, <1>3, <1>5, <2>1, <2>2, <2>3, NextKept
<1>6. CASE ~HasSchemas(driver)
  <2>1. next \in NextSchema(r, {Default})
    BY <1>6 DEF Begun
  <2> HIDE DEF r
  <2>2. {Default} \in SUBSET Schemas
    BY DialectAssumption
  <2>3. Covers(r) = {Default}
    <3>1. pinned = NoSchema
      BY <1>6 DEF ServerInv
    <3>2. ~HasSchemas(driver) /\ driver # "oracle"
      BY <1>6 DEF HasSchemas
    <3> QED
      BY <3>1, <3>2 DEF Covers
  <2> QED
    BY <1>2, <1>3, <1>6, <2>1, <2>2, <2>3, NextKept
<1> QED
  BY <1>4, <1>5, <1>6

(* The schemas in which something was all the while are looked through.    *)
LEMMA SchemasKept ==
    ASSUME ServerInv, NEW rec, RecordInv(rec), rec.at = "schemas",
           NEW next \in NextSchema(rec, SchemasOf(driver, db))
    PROVE  RecordInv(next)
<1>1. /\ rec \in ReadRecord /\ rec.always \subseteq Facts(db) /\ Facts(db) \subseteq rec.ever
      /\ HasSchemas(driver) /\ pinned = NoSchema /\ Sound(rec)
  BY DEF RecordInv, UpToDate, Queue
<1>2. SchemasOf(driver, db) \subseteq Schemas
  BY <1>1 DEF HasSchemas, SchemasOf, PostgresSchemas, OracleSchemas, SQLServerSchemas
<1>3. ASSUME NEW f \in rec.always, f.schema \in Covers(rec)
      PROVE  f.schema \in SchemasOf(driver, db)
  <2>1. f.schema \in Schemas
    BY <1>1, <1>3 DEF ReadRecord, Nodes
  <2>2. CASE driver = "oracle"
    <3>1. Covers(rec) = {g.schema : g \in {h \in rec.always : h.type = "table"}}
      BY <1>1, <2>2 DEF Covers
    <3>2. PICK g \in rec.always : g.type = "table" /\ g.schema = f.schema
      BY <1>3, <3>1
    <3>3. g \in Nodes /\ db[PlaceOf(g)] = "table"
      BY <1>1, <3>2, FactsAre DEF ServerInv
    <3>4. g.name \in In(Is(db, {"table"}), g.schema)
      BY <3>3, NamesIn DEF ServerInv, Nodes, PlaceOf
    <3> QED
      BY <2>1, <2>2, <3>2, <3>4 DEF SchemasOf, OracleSchemas
  <2>3. CASE driver # "oracle"
    BY <1>1, <2>1, <2>3 DEF HasSchemas, SchemasOf, PostgresSchemas, SQLServerSchemas
  <2> QED
    BY <2>2, <2>3
<1> QED
  BY <1>1, <1>2, <1>3, NextKept

LEMMA TablesKept ==
    ASSUME ServerInv, NEW rec, RecordInv(rec), rec.at = "tables", NEW next,
           next = [rec EXCEPT !.at = "views",
                       !.nodes = @ \cup NodesOf("table", rec.schema, TablesOf(driver, db, rec.schema))]
    PROVE  RecordInv(next)
<1> DEFINE found == NodesOf("table", rec.schema, TablesOf(driver, db, rec.schema))
<1>1. /\ rec \in ReadRecord /\ rec.always \subseteq Facts(db) /\ Facts(db) \subseteq rec.ever
      /\ ~HasSchemas(driver) => rec.schema = Default /\ rec.todo = {}
      /\ Sound(rec) /\ Complete(rec) /\ rec.schema \in Schemas
  BY DEF RecordInv, UpToDate, Queue, ReadRecord
<1>2. ASSUME NEW node \in found
      PROVE  node \in Nodes /\ \E f \in rec.ever : Stands(node, f)
  <2>1. PICK n \in TablesOf(driver, db, rec.schema) :
            node = [type |-> "table", schema |-> rec.schema, name |-> n]
    BY <1>2 DEF NodesOf
  <2> DEFINE kind == db[At(rec.schema, n)]
             f == [type |-> kind, schema |-> rec.schema, name |-> n]
  <2>2. n \in Names /\ (kind = "table" \/ (driver \in {"postgres", "mysql"} /\ kind = "view"))
    <3>1. \/ db[At(rec.schema, n)] = "table"
          \/ driver \in {"postgres", "mysql"} /\ db[At(rec.schema, n)] = "view"
      BY <1>1, TablesListed
    <3>2. n \in Names
      BY <1>1, TablesListed
    <3> QED
      BY <3>1, <3>2
  <2>3. f \in Nodes /\ f.schema = rec.schema /\ f.name = n /\ f.type = kind
    BY <1>1, <2>2 DEF Nodes, NodeTypes
  <2>4. f \in Facts(db)
    BY <2>3, FactsAre DEF ServerInv, PlaceOf
  <2>5. Stands(node, f)
    BY <2>1, <2>2, <2>3 DEF Stands, PlaceOf
  <2>6. node \in Nodes
    BY <1>1, <2>1, <2>2 DEF Nodes, NodeTypes
  <2> QED
    BY <1>1, <2>4, <2>5, <2>6
<1>3. ASSUME NEW f \in rec.always, f.schema = rec.schema, f.type = "table"
      PROVE  f \in found
  <2>1. f \in Nodes /\ db[PlaceOf(f)] = "table"
    BY <1>1, <1>3, FactsAre DEF ServerInv
  <2>2. f.name \in TablesOf(driver, db, rec.schema)
    BY <1>1, <1>3, <2>1, TablesListed DEF PlaceOf, Nodes
  <2>3. f = [type |-> "table", schema |-> rec.schema, name |-> f.name]
    BY <1>3, <2>1 DEF Nodes
  <2> QED
    BY <2>2, <2>3 DEF NodesOf
<1> HIDE DEF found
<1>4. /\ next \in ReadRecord /\ next.at = "views" /\ next.nodes = rec.nodes \cup found
      /\ next.todo = rec.todo /\ next.schema = rec.schema
      /\ next.always = rec.always /\ next.ever = rec.ever
  <2>1. next = [rec EXCEPT !.at = "views", !.nodes = @ \cup found]
    BY DEF found
  <2> QED
    BY <1>1, <1>2, <2>1 DEF ReadRecord, ReadingAt
<1>5. Complete(next)
  <2>1. ASSUME NEW f \in next.always, f.schema \in Covers(next)
        PROVE  Known(next, f)
    <3>1. Known(rec, f) /\ f.type \in {"table", "view"}
      BY <1>1, <1>4, <2>1 DEF Complete, Covers, ReadRecord, Nodes, NodeTypes
    <3> QED
      BY <1>3, <1>4, <2>1, <3>1 DEF Known
  <2> QED
    BY <2>1 DEF Complete
<1>6. Sound(next)
  BY <1>1, <1>2, <1>4 DEF Sound
<1> QED
  BY <1>1, <1>4, <1>5, <1>6 DEF RecordInv, UpToDate, Queue

LEMMA ViewsKept ==
    ASSUME ServerInv, NEW rec, RecordInv(rec), rec.at = "views", NEW next,
           next \in NextSchema([rec EXCEPT !.nodes = @ \cup
                        NodesOf("view", rec.schema, ViewsOf(driver, db, rec.schema))], rec.todo)
    PROVE  RecordInv(next)
<1> DEFINE found == NodesOf("view", rec.schema, ViewsOf(driver, db, rec.schema))
           full == [rec EXCEPT !.nodes = @ \cup found]
<1>1. /\ rec \in ReadRecord /\ rec.always \subseteq Facts(db) /\ Facts(db) \subseteq rec.ever
      /\ ~HasSchemas(driver) => rec.schema = Default /\ rec.todo = {}
      /\ Sound(rec) /\ Complete(rec) /\ rec.schema \in Schemas /\ rec.todo \in SUBSET Schemas
  BY DEF RecordInv, UpToDate, Queue, ReadRecord
<1>2. ASSUME NEW node \in found
      PROVE  node \in Nodes /\ \E f \in rec.ever : Stands(node, f)
  <2>1. PICK n \in ViewsOf(driver, db, rec.schema) :
            node = [type |-> "view", schema |-> rec.schema, name |-> n]
    BY <1>2 DEF NodesOf
  <2>2. n \in Names /\ db[At(rec.schema, n)] = "view"
    BY <1>1, ViewsListed
  <2>3. node \in Nodes /\ node.schema = rec.schema /\ node.name = n /\ node.type = "view"
    BY <1>1, <2>1, <2>2 DEF Nodes, NodeTypes
  <2>4. node \in Facts(db)
    BY <2>2, <2>3, FactsAre DEF ServerInv, PlaceOf
  <2> QED
    BY <1>1, <2>3, <2>4 DEF Stands
<1>3. ASSUME NEW f \in rec.always, f.schema = rec.schema, f.type = "view"
      PROVE  f \in found
  <2>1. f \in Nodes /\ db[PlaceOf(f)] = "view"
    BY <1>1, <1>3, FactsAre DEF ServerInv
  <2>2. f.name \in ViewsOf(driver, db, rec.schema)
    BY <1>1, <1>3, <2>1, ViewsListed DEF PlaceOf, Nodes
  <2>3. f = [type |-> "view", schema |-> rec.schema, name |-> f.name]
    BY <1>3, <2>1 DEF Nodes
  <2> QED
    BY <2>2, <2>3 DEF NodesOf
<1>4. next \in NextSchema(full, rec.todo)
  OBVIOUS
<1> HIDE DEF found
<1>5. /\ full \in ReadRecord /\ full.nodes = rec.nodes \cup found
      /\ full.always = rec.always /\ full.ever = rec.ever
  BY <1>1, <1>2 DEF ReadRecord
<1> HIDE DEF full
<1>6. ASSUME NEW f \in full.always, f.schema \in Covers(full)
      PROVE  f \in full.nodes \/ f.schema \in rec.todo
  <2>1. Known(rec, f)
    BY <1>1, <1>5, <1>6 DEF Complete, Covers
  <2> QED
    BY <1>3, <1>5, <1>6, <2>1 DEF Known
<1>7. Sound(full)
  BY <1>1, <1>2, <1>5 DEF Sound
<1> QED
  BY <1>1, <1>4, <1>5, <1>6, <1>7, NextKept
-----------------------------------------------------------------------------
(* The tree.                                                               *)

LEMMA TreeInit == Init => TreeInv
<1> SUFFICES ASSUME Init
             PROVE  TreeInv
  OBVIOUS
<1>1. ServerInv
  BY BrowseAssumption DEF Init, ServerInv
<1>2. PICK b \in Begun(db, driver, pinned) :
          read = [x \in Reads |-> IF x = Boot THEN b ELSE IdleRead]
  BY DEF Init
<1>3. RecordInv(b)
  BY <1>1, BegunKept
<1>4. RecordInv(IdleRead)
  BY DialectAssumption
  DEF RecordInv, IdleRead, ReadRecord, ReadingAt, UpToDate, Queue, Complete, Sound
<1> QED
  BY <1>1, <1>2, <1>3, <1>4 DEF TreeInv, Init

(* A read is in order as long as the database stays as it is.              *)
LEMMA Carried ==
    ASSUME UNCHANGED <<driver, pinned, db>>, NEW x, RecordInv(read'[x])
    PROVE  RecordInv(read[x])'
<1> DEFINE rec == read'[x]
<1>1. rec \in ReadRecord /\ UpToDate(rec) /\ Queue(rec) /\ Complete(rec) /\ Sound(rec)
  BY DEF RecordInv
<1>2. UpToDate(read[x])'
  BY <1>1 DEF UpToDate
<1>3. Queue(read[x])'
  BY <1>1 DEF Queue
<1>4. Covers(read[x])' = Covers(rec)
  BY DEF Covers
<1>5. \A f : Known(read[x], f)' <=> Known(rec, f)
  BY DEF Known
<1>6. Complete(read[x])'
  BY <1>1, <1>4, <1>5 DEF Complete
<1>7. Sound(read[x])'
  BY <1>1 DEF Sound, Stands
<1> QED
  BY <1>1, <1>2, <1>3, <1>6, <1>7 DEF RecordInv

(* What a read has found stands, whatever the others do.                   *)
LEMMA TurnKept ==
    ASSUME TreeInv, NEW r \in Reads, NEW next, RecordInv(next), ReadTurns(r, next),
           \/ tree' = tree /\ read[r].at # "done"
           \/ tree' = r /\ next.at = "done"
    PROVE  TreeInv'
<1>1. /\ read' = [read EXCEPT ![r] = next]
      /\ driver' = driver /\ pinned' = pinned /\ db' = db
  BY DEF ReadTurns
<1>2. ServerInv'
  BY <1>1 DEF TreeInv, ServerInv
<1>4. read'[r] = next /\ \A x \in Reads \ {r} : read'[x] = read[x]
  BY <1>1 DEF TreeInv
<1>5. \A x \in Reads : RecordInv(read'[x])
  BY <1>4 DEF TreeInv
<1>6. \A x \in Reads : RecordInv(read[x])'
  BY <1>1, <1>5, Carried
<1>7. DOMAIN read' = Reads /\ read' = [x \in Reads |-> read'[x]]
  BY <1>1 DEF TreeInv
<1>8. tree' # None => tree' \in Reads /\ read'[tree'].at = "done"
  BY <1>4 DEF TreeInv
<1> QED
  BY <1>2, <1>6, <1>7, <1>8 DEF TreeInv

(* A change of the database: only what is there all the while counts.      *)
LEMMA AlterKept ==
    ASSUME TreeInv, NEW p \in Places, NEW kind \in Kinds, Alter(p, kind)
    PROVE  TreeInv'
<1> DEFINE Seen(x) == IF InCatalog(x)
                      THEN [read[x] EXCEPT !.always = @ \cap Facts(db'), !.ever = @ \cup Facts(db')]
                      ELSE read[x]
<1>1. /\ read' = [x \in Reads |-> Seen(x)]
      /\ driver' = driver /\ pinned' = pinned /\ tree' = tree
      /\ db' = [db EXCEPT ![p] = kind]
  BY DEF Alter
<1>2. ServerInv'
  BY <1>1 DEF TreeInv, ServerInv
<1>3. Facts(db') \subseteq Nodes
  BY <1>2, FactsAre DEF ServerInv
<1>4. ASSUME NEW x \in Reads
      PROVE  RecordInv(read[x])'
  <2>1. RecordInv(read[x]) /\ read'[x] = Seen(x)
    BY <1>1 DEF TreeInv
  <2>2. CASE ~InCatalog(x)
    <3>1. read'[x] = read[x] /\ read[x].at \notin {"schemas", "tables", "views"}
      BY <2>1, <2>2 DEF InCatalog
    <3> QED
      BY <1>1, <2>1, <3>1
      DEF RecordInv, UpToDate, Queue, Complete, Covers, Known, Sound, Stands
  <2>3. CASE InCatalog(x)
    <3>1. read'[x] = [read[x] EXCEPT !.always = @ \cap Facts(db'), !.ever = @ \cup Facts(db')]
      BY <2>1, <2>3
    <3>2. read[x] \in ReadRecord
      BY <2>1 DEF RecordInv
    <3> DEFINE rec == read[x]
               new == read'[x]
    <3>3. /\ new \in ReadRecord /\ new.at = rec.at /\ new.nodes = rec.nodes
          /\ new.todo = rec.todo /\ new.schema = rec.schema
          /\ new.always = rec.always \cap Facts(db')
          /\ new.ever = rec.ever \cup Facts(db')
      BY <1>3, <3>1, <3>2 DEF ReadRecord
    <3>4. UpToDate(rec)'
      BY <3>3 DEF UpToDate
    <3>5. Queue(rec)'
      BY <1>1, <2>1, <3>3 DEF RecordInv, Queue
    <3>6. Complete(rec)'
      <4>1. ASSUME NEW f \in new.always, f.schema \in Covers(new)
            PROVE  Known(new, f)
        <5>1. f \in rec.always /\ f.schema \in Covers(rec)
          BY <3>3, <4>1 DEF Covers
        <5>2. Known(rec, f)
          BY <2>1, <5>1 DEF RecordInv, Complete
        <5> QED
          BY <3>3, <5>2 DEF Known
      <4> QED
        BY <1>1, <4>1 DEF Complete, Covers, Known
    <3>7. Sound(rec)'
      <4>1. \A node \in new.nodes : \E f \in new.ever : Stands(node, f)
        BY <2>1, <3>3 DEF RecordInv, Sound
      <4> QED
        BY <1>1, <4>1 DEF Sound, Stands
    <3> QED
      BY <3>3, <3>4, <3>5, <3>6, <3>7 DEF RecordInv
  <2> QED
    BY <2>2, <2>3
<1>5. tree' # None => tree' \in Reads /\ read'[tree'].at = "done"
  BY <1>1 DEF TreeInv, InCatalog
<1> QED
  BY <1>1, <1>2, <1>4, <1>5 DEF TreeInv

LEMMA TreeStep ==
    ASSUME TreeInv, [Next]_vars
    PROVE  TreeInv'
<1>0. ServerInv /\ \A r \in Reads : RecordInv(read[r])
  BY DEF TreeInv
<1>1. ASSUME NEW p \in Places, NEW kind \in Kinds, Alter(p, kind)
      PROVE  TreeInv'
  BY <1>1, AlterKept
<1>2. ASSUME NEW r \in Reads, Reload(r)
      PROVE  TreeInv'
  <2>1. PICK next \in Begun(db, driver, pinned) : ReadTurns(r, next)
    BY <1>2 DEF Reload
  <2> QED
    BY <1>0, <1>2, <2>1, BegunKept, TurnKept DEF Reload, Reading
<1>3. ASSUME NEW r \in Reads, ReadSchemas(r)
      PROVE  TreeInv'
  <2>1. PICK next \in NextSchema(read[r], SchemasOf(driver, db)) : ReadTurns(r, next)
    BY <1>3 DEF ReadSchemas
  <2> QED
    BY <1>0, <1>3, <2>1, SchemasKept, TurnKept DEF ReadSchemas, Reading
<1>4. ASSUME NEW r \in Reads, ReadTables(r)
      PROVE  TreeInv'
  <2> DEFINE s == read[r].schema
             next == [read[r] EXCEPT !.at = "views",
                          !.nodes = @ \cup NodesOf("table", s, TablesOf(driver, db, s))]
  <2>1. ReadTurns(r, next) /\ tree' = tree /\ read[r].at = "tables"
    BY <1>4 DEF ReadTables, Reading
  <2>2. RecordInv(next)
    BY <1>0, <2>1, TablesKept
  <2> HIDE DEF next
  <2> QED
    BY <2>1, <2>2, TurnKept
<1>5. ASSUME NEW r \in Reads, ReadViews(r)
      PROVE  TreeInv'
  <2>1. PICK next \in NextSchema([read[r] EXCEPT !.nodes = @ \cup
                          NodesOf("view", read[r].schema, ViewsOf(driver, db, read[r].schema))],
                          read[r].todo) :
            ReadTurns(r, next)
    BY <1>5 DEF ReadViews
  <2> QED
    BY <1>0, <1>5, <2>1, ViewsKept, TurnKept DEF ReadViews, Reading
<1>6. ASSUME NEW r \in Reads, CatalogFails(r)
      PROVE  TreeInv'
  <2> DEFINE next == [IdleRead EXCEPT !.at = "failed"]
  <2>1. ReadTurns(r, next) /\ tree' = tree /\ read[r].at # "done"
    BY <1>6 DEF CatalogFails, InCatalog
  <2>2. RecordInv(next)
    BY DialectAssumption
    DEF RecordInv, IdleRead, ReadRecord, ReadingAt, UpToDate, Queue, Complete, Sound
  <2> HIDE DEF next
  <2> QED
    BY <2>1, <2>2, TurnKept
<1>7. ASSUME NEW r \in Reads, UpdateGraph(r) \/ UpdateGraphErr(r)
      PROVE  TreeInv'
  <2> DEFINE next == [read[r] EXCEPT !.at = "done"]
  <2>1. /\ ReadTurns(r, next) /\ tree' \in {tree, r}
        /\ read[r].at \in {"answered", "failed"}
    BY <1>7 DEF UpdateGraph, UpdateGraphErr, Reading
  <2>2. /\ next \in ReadRecord /\ next.at = "done" /\ next.todo = read[r].todo
        /\ next.schema = read[r].schema /\ next.nodes = read[r].nodes
        /\ next.always = read[r].always /\ next.ever = read[r].ever
    BY <1>0 DEF RecordInv, ReadRecord, ReadingAt
  <2> HIDE DEF next
  <2>3. RecordInv(next)
    BY <1>0, <2>1, <2>2
    DEF RecordInv, UpToDate, Queue, Complete, Covers, Known, Sound
  <2> QED
    BY <2>1, <2>2, <2>3, TurnKept
<1>8. ASSUME UNCHANGED <<driver, pinned, db, read, tree>>
      PROVE  TreeInv'
  BY <1>0, <1>8, Carried DEF TreeInv, ServerInv
<1>9. ASSUME NEW m \in Metas, NEW node, Enter(m, node)
      PROVE  TreeInv'
  BY <1>8, <1>9 DEF Enter, MetaTurns
<1>10. ASSUME NEW m \in Metas, ReadTab(m) \/ TabFails(m) \/ ShowTabs(m) \/ ShowError(m)
       PROVE  TreeInv'
  BY <1>8, <1>10 DEF ReadTab, TabFails, ShowTabs, ShowError, MetaTurns
<1>11. CASE UNCHANGED vars
  BY <1>8, <1>11 DEF vars
<1> QED
  BY <1>1, <1>2, <1>3, <1>4, <1>5, <1>6, <1>7, <1>9, <1>10, <1>11 DEF Next

(* However the database changes between the queries of a catalog, the tree *)
(* has all that was there throughout and nothing that never was            *)
(* (client.go's Catalog, sidebar.go's updateGraph).                        *)
THEOREM TreeIsFaithful == Spec => []TreeFaithful
<1>1. TreeInv => TreeFaithful
  <2> SUFFICES ASSUME TreeInv, tree # None
               PROVE  /\ \A f \in read[tree].always : f.schema \in Covered(tree) => f \in read[tree].nodes
                      /\ \A node \in read[tree].nodes : \E f \in read[tree].ever : Stands(node, f)
    BY DEF TreeFaithful
  <2>1. tree \in Reads /\ read[tree].at = "done" /\ RecordInv(read[tree])
    BY DEF TreeInv
  <2>2. Covered(tree) = Covers(read[tree])
    BY DEF Covered, Covers
  <2>3. read[tree].todo = {}
    BY <2>1 DEF RecordInv, Queue
  <2> QED
    BY <2>1, <2>2, <2>3 DEF RecordInv, Complete, Known, Sound
<1> QED
  BY <1>1, TreeInit, TreeStep, PTL DEF Spec
-----------------------------------------------------------------------------
(* The tabs.                                                               *)

Tabs == {"Data", "Columns", "Constraints", "Indexes", "View Def"}

(* What is left of TableTabs or ViewTabs while they are read.              *)
Lefts == {TableTabs, <<"Columns", "Constraints", "Indexes">>, <<"Constraints", "Indexes">>,
          <<"Indexes">>, ViewTabs, <<"Data">>}

Shaped(rec) ==
    /\ rec \in [at : AskingAt, node : {rec.node}, left : Lefts \cup {<<>>},
                tabs : {rec.tabs}, calm : BOOLEAN]
    /\ \E S : rec.tabs \in Seq(S)

(* A tab that is about the relation of a node.                             *)
About(rec, tab, about) ==
    LET own == PlaceOf(rec.node)
    IN  /\ about \subseteq IF ByName(tab) THEN AnySchema(own.name) ELSE {own}
        /\ rec.calm /\ tab \in {"Data", "Columns"} => about = {own}

Described(rec) ==
    \A i \in 1..Len(rec.tabs) : About(rec, rec.tabs[i][1], rec.tabs[i][2])

(* While nothing changes, a relation whose rows were read is still there   *)
(* when its columns are.                                                   *)
StillThere(rec) ==
    (rec.at = "reading" /\ rec.calm /\ Head(rec.left) = "Columns") =>
        db[PlaceOf(rec.node)] \in {"table", "view"}

MetaInv(rec) ==
    /\ Shaped(rec)
    /\ rec.at = "reading" => rec.left # <<>> /\ rec.node \in Nodes
    /\ (rec.node # NoNode /\ Addressable(rec.node)) => Described(rec) /\ StillThere(rec)

TabsInv ==
    /\ TreeInv
    /\ meta = [m \in Metas |-> meta[m]]
    /\ \A m \in Metas : MetaInv(meta[m])

LEMMA OnePlace ==
    ASSUME NEW d \in [Places -> Kinds], NEW p \in Places
    PROVE  /\ There(d, {p}) \subseteq {p}
           /\ d[p] \in {"table", "view"} => There(d, {p}) = {p}
           /\ NeedsIt(d, p).ok => d[p] \in {"table", "view"} /\ NeedsIt(d, p).about = {p}
<1>1. There(d, {p}) = IF d[p] \in {"table", "view"} THEN {p} ELSE {}
  BY DEF There, Is
<1> QED
  BY <1>1 DEF NeedsIt, Answer, Error

(* What the answer of a query may be about, for a node that can be found.  *)
Fits(node, tab, answer) ==
    LET own == PlaceOf(node)
    IN  /\ answer.about \subseteq Places
        /\ answer.about \subseteq IF ByName(tab) THEN AnySchema(own.name) ELSE {own}
        /\ tab = "Data" => answer.about = {own} /\ db[own] \in {"table", "view"}
        /\ tab = "Columns" /\ db[own] \in {"table", "view"} => answer.about = {own}

LEMMA OwnPlace ==
    ASSUME NEW node \in Nodes
    PROVE  /\ PlaceOf(node) \in Places /\ PlaceOf(node) = At(node.schema, node.name)
           /\ PlaceOf(node).name = node.name
           /\ {PlaceOf(node)} \subseteq AnySchema(node.name)
           /\ AnySchema(node.name) \subseteq Places
BY DEF PlaceOf, At, Places, Nodes, AnySchema

LEMMA FitsOne ==
    ASSUME ServerInv, NEW node \in Nodes, NEW tab \in Tabs
    PROVE  /\ NeedsIt(db, PlaceOf(node)).ok => Fits(node, tab, NeedsIt(db, PlaceOf(node)))
           /\ tab # "Data" => Fits(node, tab, Answer(There(db, {PlaceOf(node)})))
<1> DEFINE own == PlaceOf(node)
<1>1. own \in Places /\ {own} \subseteq AnySchema(own.name) /\ db \in [Places -> Kinds]
  BY OwnPlace DEF ServerInv
<1>2. \A answer : answer.about = {own} /\ db[own] \in {"table", "view"} => Fits(node, tab, answer)
  BY <1>1 DEF Fits
<1>3. NeedsIt(db, own).ok => Fits(node, tab, NeedsIt(db, own))
  BY <1>1, <1>2, OnePlace
<1>4. ASSUME tab # "Data"
      PROVE  Fits(node, tab, Answer(There(db, {own})))
  <2>1. \A places : places \subseteq {own} /\ (db[own] \in {"table", "view"} => places = {own})
                      => Fits(node, tab, Answer(places))
    BY <1>1, <1>4 DEF Fits, Answer
  <2>2. There(db, {own}) \subseteq {own} /\ (db[own] \in {"table", "view"} => There(db, {own}) = {own})
    BY <1>1, OnePlace
  <2> QED
    BY <2>1, <2>2
<1> QED
  BY <1>3, <1>4

LEMMA FitsSome ==
    ASSUME NEW node \in Nodes, NEW tab \in Tabs \ {"Data", "Columns"}, NEW X
    PROVE  /\ Fits(node, tab, Answer({PlaceOf(node)} \cap X))
           /\ ByName(tab) => Fits(node, tab, Answer(AnySchema(node.name) \cap X))
<1> DEFINE own == PlaceOf(node)
<1>1. own \in Places /\ {own} \subseteq AnySchema(own.name) /\ AnySchema(own.name) \subseteq Places
  BY OwnPlace
<1>2. \A places : Answer(places).about = places
  BY DEF Answer
<1>3. own.name = node.name
  BY OwnPlace
<1> QED
  BY <1>1, <1>2, <1>3 DEF Fits

(* One query, of each server.                                              *)
LEMMA TabAnswers ==
    ASSUME ServerInv, NEW node \in Nodes, Addressable(node), NEW tab \in Tabs,
           TabOf(driver, db, tab, node).ok
    PROVE  Fits(node, tab, TabOf(driver, db, tab, node))
<1> DEFINE own == PlaceOf(node)
           answer == TabOf(driver, db, tab, node)
<1>1. own = At(node.schema, node.name) /\ driver \in Drivers
  BY OwnPlace DEF ServerInv
<1>2. driver \in {"postgres", "oracle"} => At(node.schema, Fold[node.name]) = own
  BY <1>1 DEF Addressable
<1>3. driver \notin {"postgres", "oracle"} => At(Default, node.name) = own
  BY <1>1 DEF Addressable
<1>4. Meant(driver, node) = own
  BY <1>2, <1>3 DEF Meant
<1>5. ASSUME answer = NeedsIt(db, own)
      PROVE  Fits(node, tab, answer)
  BY <1>5, FitsOne
<1>6. ASSUME tab # "Data", answer = Answer(There(db, {own}))
      PROVE  Fits(node, tab, answer)
  BY <1>6, FitsOne
<1>7. ASSUME tab \notin {"Data", "Columns"}, NEW X, answer = Answer({own} \cap X)
      PROVE  Fits(node, tab, answer)
  BY <1>7, FitsSome
<1>8. ASSUME tab \notin {"Data", "Columns"}, ByName(tab), NEW X,
             answer = Answer(AnySchema(node.name) \cap X)
      PROVE  Fits(node, tab, answer)
  BY <1>8, FitsSome
<1> USE DEF Tabs
<1>9. CASE tab = "Data"
  <2>1. answer = NeedsIt(db, own)
    BY <1>4, <1>9 DEF TabOf, Content
  <2> QED
    BY <1>5, <2>1
<1>10. CASE tab # "Data" /\ driver = "postgres"
  <2>1. answer = PostgresTab(db, tab, node)
    BY <1>10 DEF TabOf
  <2>2. CASE tab = "View Def"
    <3>1. PostgresTab(db, tab, node) = NeedsIt(db, own)
      BY <1>4, <1>10, <2>2 DEF PostgresTab
    <3> QED
      BY <1>10, <1>5, <2>1, <2>2, <3>1
  <2>3. CASE tab = "Columns"
    <3>1. PostgresTab(db, tab, node) = Answer(There(db, {own}))
      BY <1>1, <1>10, <2>3 DEF PostgresTab
    <3> QED
      BY <1>10, <1>6, <2>1, <2>3, <3>1
  <2>4. CASE tab = "Constraints"
    <3>1. PostgresTab(db, tab, node) = Answer(There(db, {own}))
      BY <1>1, <1>10, <2>4 DEF PostgresTab
    <3> QED
      BY <1>10, <1>6, <2>1, <2>4, <3>1
  <2>5. CASE tab = "Indexes"
    <3>1. PostgresTab(db, tab, node) = Answer(There(db, {own}))
      BY <1>1, <1>10, <2>5 DEF PostgresTab
    <3> QED
      BY <1>10, <1>6, <2>1, <2>5, <3>1
  <2> QED
    BY <1>10, <2>2, <2>3, <2>4, <2>5
<1>11. CASE tab # "Data" /\ driver = "mysql"
  <2>1. answer = MySQLTab(db, tab, node)
    BY <1>11 DEF TabOf
  <2>2. CASE tab = "Columns"
    <3>1. MySQLTab(db, tab, node) = NeedsIt(db, own)
      BY <1>3, <1>11, <2>2 DEF MySQLTab
    <3> QED
      BY <1>11, <1>5, <2>1, <2>2, <3>1
  <2>3. CASE tab = "Indexes"
    <3>1. MySQLTab(db, tab, node) = NeedsIt(db, own)
      BY <1>3, <1>11, <2>3 DEF MySQLTab
    <3> QED
      BY <1>11, <1>5, <2>1, <2>3, <3>1
  <2>4. CASE tab = "Constraints"
    <3>1. MySQLTab(db, tab, node) = Answer(AnySchema(node.name) \cap Is(db, {"table"}))
      BY <1>11, <2>4 DEF MySQLTab
    <3> QED
      BY <1>11, <1>8, <2>1, <2>4, <3>1 DEF ByName
  <2>5. CASE tab = "View Def"
    <3>1. MySQLTab(db, tab, node) = Answer({own} \cap Is(db, {"view"}))
      BY <1>3, <1>11, <2>5 DEF MySQLTab
    <3> QED
      BY <1>11, <1>7, <2>1, <2>5, <3>1
  <2> QED
    BY <1>11, <2>2, <2>3, <2>4, <2>5
<1>12. CASE tab # "Data" /\ driver = "sqlite"
  <2>1. answer = SQLiteTab(db, tab, node)
    BY <1>12 DEF TabOf
  <2>2. CASE tab = "Columns"
    <3>1. SQLiteTab(db, tab, node) = Answer(There(db, {own}))
      BY <1>3, <1>12, <2>2 DEF SQLiteTab
    <3> QED
      BY <1>12, <1>6, <2>1, <2>2, <3>1
  <2>3. CASE tab = "Indexes"
    <3>1. SQLiteTab(db, tab, node) = Answer(There(db, {own}))
      BY <1>3, <1>12, <2>3 DEF SQLiteTab
    <3> QED
      BY <1>12, <1>6, <2>1, <2>3, <3>1
  <2>4. CASE tab = "Constraints"
    <3>1. SQLiteTab(db, tab, node) = Answer({own} \cap Is(db, {"table"}))
      BY <1>3, <1>12, <2>4 DEF SQLiteTab
    <3> QED
      BY <1>12, <1>7, <2>1, <2>4, <3>1
  <2>5. CASE tab = "View Def"
    <3>1. SQLiteTab(db, tab, node) = Answer({own} \cap Is(db, {"view"}))
      BY <1>3, <1>12, <2>5 DEF SQLiteTab
    <3> QED
      BY <1>12, <1>7, <2>1, <2>5, <3>1
  <2> QED
    BY <1>12, <2>2, <2>3, <2>4, <2>5
<1>13. CASE tab # "Data" /\ driver = "oracle"
  <2>1. answer = OracleTab(db, tab, node)
    BY <1>13 DEF TabOf
  <2>2. CASE tab = "View Def"
    <3>1. OracleTab(db, tab, node) = Answer({own} \cap Is(db, {"view"}))
      BY <1>2, <1>13, <2>2 DEF OracleTab
    <3> QED
      BY <1>13, <1>7, <2>1, <2>2, <3>1
  <2>3. CASE tab = "Columns"
    <3>1. OracleTab(db, tab, node) = Answer(There(db, {own}))
      BY <1>2, <1>13, <2>3 DEF OracleTab
    <3> QED
      BY <1>13, <1>6, <2>1, <2>3, <3>1
  <2>4. CASE tab = "Constraints"
    <3>1. OracleTab(db, tab, node) = Answer(There(db, {own}))
      BY <1>2, <1>13, <2>4 DEF OracleTab
    <3> QED
      BY <1>13, <1>6, <2>1, <2>4, <3>1
  <2>5. CASE tab = "Indexes"
    <3>1. OracleTab(db, tab, node) = Answer(There(db, {own}))
      BY <1>2, <1>13, <2>5 DEF OracleTab
    <3> QED
      BY <1>13, <1>6, <2>1, <2>5, <3>1
  <2> QED
    BY <1>13, <2>2, <2>3, <2>4, <2>5
<1>14. CASE tab # "Data" /\ driver = "sqlserver"
  <2>1. answer = SQLServerTab(db, tab, node)
    BY <1>14 DEF TabOf
  <2>2. CASE tab = "Columns"
    <3>1. SQLServerTab(db, tab, node) = Answer(There(db, {own}))
      BY <1>3, <1>14, <2>2 DEF SQLServerTab
    <3> QED
      BY <1>14, <1>6, <2>1, <2>2, <3>1
  <2>3. CASE tab = "Indexes"
    <3>1. SQLServerTab(db, tab, node) = Answer(AnySchema(node.name) \cap Is(db, {"table"}))
      BY <1>14, <2>3 DEF SQLServerTab
    <3> QED
      BY <1>14, <1>8, <2>1, <2>3, <3>1 DEF ByName
  <2>4. CASE tab = "Constraints"
    <3>1. SQLServerTab(db, tab, node) = Answer(AnySchema(node.name) \cap Is(db, {"table"}))
      BY <1>14, <2>4 DEF SQLServerTab
    <3> QED
      BY <1>14, <1>8, <2>1, <2>4, <3>1 DEF ByName
  <2>5. CASE tab = "View Def"
    <3>1. SQLServerTab(db, tab, node) = Answer(There(db, {own}))
      BY <1>3, <1>14, <2>5 DEF SQLServerTab
    <3> QED
      BY <1>14, <1>6, <2>1, <2>5, <3>1
  <2> QED
    BY <1>14, <2>2, <2>3, <2>4, <2>5
<1> QED
  BY <1>1, <1>9, <1>10, <1>11, <1>12, <1>13, <1>14 DEF Drivers

(* The fields of a request.                                                *)
Has(rec, at, node, left, tabs, calm) ==
    rec.at = at /\ rec.node = node /\ rec.left = left /\ rec.tabs = tabs /\ rec.calm = calm

LEMMA IdleMetaIs ==
    /\ IdleMeta \in [at : AskingAt, node : {NoNode}, left : {<<>>}, tabs : {<<>>}, calm : BOOLEAN]
    /\ Has(IdleMeta, "idle", NoNode, <<>>, <<>>, TRUE)
    /\ <<>> \in Seq({}) /\ Len(<<>>) = 0
<1> DEFINE none == <<>>
           no == NoNode
           idle == [at |-> "idle", node |-> no, left |-> none, tabs |-> none, calm |-> TRUE]
<1>1. IdleMeta = idle
  BY DEF IdleMeta
<1>2. <<>> \in Seq({}) /\ Len(<<>>) = 0
  OBVIOUS
<1>3. /\ idle \in [at : AskingAt, node : {no}, left : {none}, tabs : {none}, calm : BOOLEAN]
      /\ Has(idle, "idle", no, none, none, TRUE)
  <2> HIDE DEF none, no
  <2> QED
    BY DEF Has, AskingAt
<1> QED
  BY <1>1, <1>2, <1>3

LEMMA LeftsRead ==
    ASSUME NEW left \in Lefts
    PROVE  /\ left # <<>> /\ Head(left) \in Tabs /\ Tail(left) \in Lefts \cup {<<>>}
           /\ Head(Tail(left)) = "Columns" /\ Tail(left) # <<>> => Head(left) = "Data"
<1> DEFINE l4 == <<"Data", "Columns", "Constraints", "Indexes">>
           l3 == <<"Columns", "Constraints", "Indexes">>
           l2 == <<"Constraints", "Indexes">>
           l1 == <<"Indexes">>
           v2 == <<"View Def", "Data">>
           v1 == <<"Data">>
<1>1. l4 # <<>> /\ Head(l4) = "Data" /\ Tail(l4) = l3
  OBVIOUS
<1>2. l3 # <<>> /\ Head(l3) = "Columns" /\ Tail(l3) = l2
  OBVIOUS
<1>3. l2 # <<>> /\ Head(l2) = "Constraints" /\ Tail(l2) = l1
  OBVIOUS
<1>4. l1 # <<>> /\ Head(l1) = "Indexes" /\ Tail(l1) = <<>>
  OBVIOUS
<1>5. v2 # <<>> /\ Head(v2) = "View Def" /\ Tail(v2) = v1
  OBVIOUS
<1>6. v1 # <<>> /\ Head(v1) = "Data" /\ Tail(v1) = <<>>
  OBVIOUS
<1>7. Lefts = {l4, l3, l2, l1, v2, v1}
  BY Zenon DEF Lefts, TableTabs, ViewTabs
<1> HIDE DEF l4, l3, l2, l1, v2, v1
<1> QED
  BY <1>1, <1>2, <1>3, <1>4, <1>5, <1>6, <1>7 DEF Tabs
LEMMA AppendIsSeq ==
    ASSUME NEW S, NEW seq \in Seq(S), NEW e \in S
    PROVE  /\ Append(seq, e) \in Seq(S)
           /\ Len(Append(seq, e)) = Len(seq) + 1 /\ Len(seq) \in Nat
           /\ \A i \in 1..Len(seq) : Append(seq, e)[i] = seq[i]
           /\ Append(seq, e)[Len(seq) + 1] = e
OBVIOUS

(* A request is in order as long as the database stays as it is.           *)
LEMMA MetaCarried ==
    ASSUME UNCHANGED <<driver, db>>, NEW x, MetaInv(meta'[x])
    PROVE  MetaInv(meta[x])'
<1> DEFINE rec == meta'[x]
<1>1. Shaped(meta[x])'
  BY DEF MetaInv, Shaped
<1>2. \A node : Addressable(node)' <=> Addressable(node)
  BY DEF Addressable
<1>3. Described(rec) => Described(meta[x])'
  BY DEF Described, About, ByName
<1>4. StillThere(rec) => StillThere(meta[x])'
  BY DEF StillThere
<1> QED
  BY <1>1, <1>2, <1>3, <1>4 DEF MetaInv

(* The other requests stand while one goes on.                             *)
LEMMA MetaTurnKept ==
    ASSUME TabsInv, TreeInv', NEW m \in Metas, NEW next, MetaInv(next), MetaTurns(m, next)
    PROVE  TabsInv'
<1>1. meta' = [meta EXCEPT ![m] = next] /\ UNCHANGED <<driver, db>>
  BY DEF MetaTurns
<1>2. \A x \in Metas : meta'[x] = IF x = m THEN next ELSE meta[x]
  BY <1>1 DEF TabsInv
<1>3. \A x \in Metas : MetaInv(meta'[x])
  BY <1>2 DEF TabsInv
<1>4. \A x \in Metas : MetaInv(meta[x])'
  BY <1>1, <1>3, MetaCarried
<1>5. meta' = [x \in Metas |-> meta'[x]]
  BY <1>1 DEF TabsInv
<1> QED
  BY <1>4, <1>5 DEF TabsInv

LEMMA EnterKept ==
    ASSUME TabsInv, TreeInv', NEW m \in Metas, NEW node \in Nodes, Enter(m, node)
    PROVE  TabsInv'
<1> DEFINE new == [IdleMeta EXCEPT !.at = "reading", !.node = node,
                       !.left = IF node.type = "table" THEN TableTabs ELSE ViewTabs]
           left == IF node.type = "table" THEN TableTabs ELSE ViewTabs
           none == <<>>
<1>1. MetaTurns(m, new)
  BY DEF Enter
<1>2. left \in Lefts /\ left # none /\ Head(left) # "Columns"
  <2>1. left \in Lefts
    BY DEF Lefts
  <2>2. Head(TableTabs) = "Data" /\ Head(ViewTabs) = "View Def"
    BY DEF TableTabs, ViewTabs
  <2> QED
    BY <2>1, <2>2, LeftsRead
<1>3. /\ IdleMeta \in [at : AskingAt, node : {NoNode}, left : {none}, tabs : {none}, calm : BOOLEAN]
      /\ Has(IdleMeta, "idle", NoNode, none, none, TRUE)
      /\ none \in Seq({}) /\ Len(none) = 0
  BY IdleMetaIs
<1>4. new = [IdleMeta EXCEPT !.at = "reading", !.node = node, !.left = left]
  OBVIOUS
<1> HIDE DEF new, left, none
<1>5. /\ new \in [at : AskingAt, node : {NoNode, node}, left : {none, left}, tabs : {none},
                   calm : BOOLEAN]
      /\ Has(new, "reading", node, left, none, TRUE)
  <2>1. IdleMeta \in [at : AskingAt, node : {NoNode, node}, left : {none, left}, tabs : {none},
                      calm : BOOLEAN]
    BY <1>3
  <2>2. IdleMeta.tabs = none /\ IdleMeta.calm = TRUE /\ "reading" \in AskingAt
    BY <1>3 DEF Has, AskingAt
  <2> QED
    BY <1>4, <2>1, <2>2 DEF Has
<1>6. Shaped(new)
  <2>1. new \in [at : AskingAt, node : {new.node}, left : Lefts \cup {<<>>}, tabs : {new.tabs},
                 calm : BOOLEAN]
    BY <1>2, <1>5 DEF Has
  <2> QED
    BY <1>3, <1>5, <2>1 DEF Shaped, Has
<1>7. Described(new) /\ StillThere(new)
  BY <1>2, <1>3, <1>5 DEF Described, StillThere, Has
<1>8. new.left # <<>>
  BY <1>2, <1>5 DEF Has, none
<1>9. MetaInv(new)
  BY <1>5, <1>6, <1>7, <1>8 DEF MetaInv, Has
<1> QED
  BY <1>1, <1>9, MetaTurnKept

LEMMA IdleMetaKept ==
    ASSUME NEW at \in AskingAt \ {"reading"}
    PROVE  MetaInv([IdleMeta EXCEPT !.at = at])
<1> DEFINE new == [IdleMeta EXCEPT !.at = at]
           none == <<>>
<1>1. /\ IdleMeta \in [at : AskingAt, node : {NoNode}, left : {none}, tabs : {none}, calm : BOOLEAN]
      /\ Has(IdleMeta, "idle", NoNode, none, none, TRUE)
      /\ none \in Seq({})
  BY IdleMetaIs
<1> HIDE DEF new, none
<1>2. /\ new \in [at : AskingAt, node : {NoNode}, left : {none}, tabs : {none}, calm : BOOLEAN]
      /\ Has(new, at, NoNode, none, none, TRUE)
  <2>1. new = [IdleMeta EXCEPT !.at = at]
    BY DEF new
  <2>2. /\ IdleMeta.node = NoNode /\ IdleMeta.left = none /\ IdleMeta.tabs = none
        /\ IdleMeta.calm = TRUE
    BY <1>1 DEF Has
  <2> QED
    BY <1>1, <2>1, <2>2 DEF Has
<1>3. Shaped(new)
  <2>1. new \in [at : AskingAt, node : {new.node}, left : Lefts \cup {<<>>}, tabs : {new.tabs},
                 calm : BOOLEAN]
    BY <1>2 DEF Has, none
  <2> QED
    BY <1>1, <1>2, <2>1 DEF Shaped, Has
<1>4. MetaInv(new)
  BY <1>2, <1>3 DEF MetaInv, Has
<1> QED
  BY <1>4 DEF new

LEMMA ReadTabKept ==
    ASSUME TabsInv, TreeInv', NEW m \in Metas, ReadTab(m)
    PROVE  TabsInv'
<1> DEFINE rec == meta[m]
           tab == Head(rec.left)
           rest == Tail(rec.left)
           answer == TabOf(driver, db, tab, rec.node)
           new == [rec EXCEPT !.tabs = Append(@, <<tab, answer.about>>), !.left = rest,
                              !.at = IF rest = <<>> THEN "answered" ELSE @]
           next == IF answer.ok THEN new ELSE [IdleMeta EXCEPT !.at = "failed"]
<1>1. MetaTurns(m, next) /\ rec.at = "reading"
  BY DEF ReadTab, Requested
<1>2. Shaped(rec) /\ rec.left \in Lefts /\ rec.node \in Nodes /\ MetaInv(rec)
  BY <1>1 DEF TabsInv, MetaInv, Shaped
<1>3. /\ tab \in Tabs /\ rest \in Lefts \cup {<<>>}
      /\ Head(rest) = "Columns" /\ rest # <<>> => tab = "Data"
  BY <1>2, LeftsRead
<1>4. ServerInv
  BY DEF TabsInv, TreeInv
<1>5. ASSUME answer.ok
      PROVE  MetaInv(new)
  <2> HIDE DEF tab, rest, answer
  <2> DEFINE all == Append(rec.tabs, <<tab, answer.about>>)
             at == IF rest = <<>> THEN "answered" ELSE "reading"
  <2>8. new = [rec EXCEPT !.tabs = all, !.left = rest, !.at = at]
    BY <1>1
  <2>9. at \in AskingAt
    BY DEF AskingAt
  <2> HIDE DEF new, all, at
  <2>1. /\ new \in [at : AskingAt, node : {rec.node}, left : Lefts \cup {<<>>},
                     tabs : {rec.tabs, all}, calm : BOOLEAN]
        /\ Has(new, at, rec.node, rest, all, rec.calm)
    <3>1. rec \in [at : AskingAt, node : {rec.node}, left : Lefts \cup {<<>>},
                   tabs : {rec.tabs, all}, calm : BOOLEAN]
      BY <1>2 DEF Shaped
    <3> QED
      BY <1>3, <2>8, <2>9, <3>1 DEF Has
  <2>2. PICK S : rec.tabs \in Seq(S)
    BY <1>2 DEF Shaped
  <2>3. rec.tabs \in Seq(S \cup {<<tab, answer.about>>})
    BY <2>2
  <2>4. all \in Seq(S \cup {<<tab, answer.about>>})
    BY <2>3, AppendIsSeq DEF all
  <2>5. /\ Len(new.tabs) = Len(rec.tabs) + 1 /\ Len(rec.tabs) \in Nat
        /\ \A i \in 1..Len(rec.tabs) : new.tabs[i] = rec.tabs[i]
        /\ new.tabs[Len(rec.tabs) + 1] = <<tab, answer.about>>
    <3>1. new.tabs = Append(rec.tabs, <<tab, answer.about>>)
      BY <2>1 DEF Has, all
    <3> QED
      BY <2>3, <3>1, AppendIsSeq
  <2>6. Shaped(new)
    <3>1. new \in [at : AskingAt, node : {new.node}, left : Lefts \cup {<<>>}, tabs : {new.tabs},
                   calm : BOOLEAN]
      BY <2>1
    <3> QED
      BY <2>1, <2>4, <3>1 DEF Shaped, Has
  <2>7. ASSUME rec.node # NoNode, Addressable(rec.node)
        PROVE  Described(new) /\ StillThere(new)
    <3>1. Described(rec) /\ StillThere(rec)
      BY <1>2, <2>7 DEF MetaInv
    <3>2. Fits(rec.node, tab, answer)
      BY <1>2, <1>3, <1>4, <1>5, <2>7, TabAnswers DEF answer
    <3>3. new.node = rec.node /\ new.calm = rec.calm /\ new.left = rest /\ new.at = at
      BY <2>1 DEF Has
    <3>4. rec.calm /\ tab = "Columns" => db[PlaceOf(rec.node)] \in {"table", "view"}
      BY <1>1, <3>1 DEF StillThere, tab
    <3>5. About(new, tab, answer.about)
      BY <3>2, <3>3, <3>4 DEF About, Fits
    <3>6. \A i \in 1..Len(rec.tabs) : About(new, rec.tabs[i][1], rec.tabs[i][2])
      BY <3>1, <3>3 DEF Described, About
    <3>7. Described(new)
      <4>1. \A i \in 1..Len(new.tabs) : i \in 1..Len(rec.tabs) \/ i = Len(rec.tabs) + 1
        BY <2>5
      <4>2. <<tab, answer.about>>[1] = tab /\ <<tab, answer.about>>[2] = answer.about
        OBVIOUS
      <4> QED
        BY <2>5, <3>5, <3>6, <4>1, <4>2 DEF Described
    <3>8. StillThere(new)
      BY <1>3, <3>2, <3>3 DEF StillThere, Fits, at
    <3> QED
      BY <3>7, <3>8
  <2> QED
    BY <1>2, <2>1, <2>6, <2>7 DEF MetaInv, Has, at
<1>6. ASSUME ~answer.ok
      PROVE  MetaInv([IdleMeta EXCEPT !.at = "failed"])
  BY IdleMetaKept DEF AskingAt
<1>7. MetaInv(next)
  <2> HIDE DEF new, answer
  <2> QED
    BY <1>5, <1>6
<1> HIDE DEF next
<1> QED
  BY <1>1, <1>7, MetaTurnKept

LEMMA FailedKept ==
    ASSUME TabsInv, TreeInv', NEW m \in Metas, TabFails(m)
    PROVE  TabsInv'
<1>1. MetaInv([IdleMeta EXCEPT !.at = "failed"])
  BY IdleMetaKept DEF AskingAt
<1> QED
  BY <1>1, MetaTurnKept DEF TabFails

LEMMA AnsweredKept ==
    ASSUME TabsInv, TreeInv', NEW m \in Metas, ShowTabs(m) \/ ShowError(m)
    PROVE  TabsInv'
<1> DEFINE rec == meta[m]
           new == [rec EXCEPT !.at = "done"]
<1>1. MetaTurns(m, new)
  BY DEF ShowTabs, ShowError
<1>2. Shaped(rec) /\ MetaInv(rec)
  BY DEF TabsInv, MetaInv
<1>3. new = [rec EXCEPT !.at = "done"]
  OBVIOUS
<1> HIDE DEF rec, new
<1>4. /\ new \in [at : AskingAt, node : {rec.node}, left : Lefts \cup {<<>>}, tabs : {rec.tabs},
                 calm : BOOLEAN]
      /\ Has(new, "done", rec.node, rec.left, rec.tabs, rec.calm)
  <2>1. rec \in [at : AskingAt, node : {rec.node}, left : Lefts \cup {<<>>}, tabs : {rec.tabs},
                 calm : BOOLEAN]
    BY <1>2 DEF Shaped
  <2>2. "done" \in AskingAt
    BY DEF AskingAt
  <2> QED
    BY <1>3, <2>1, <2>2 DEF Has
<1>5. Shaped(new)
  BY <1>2, <1>4 DEF Shaped, Has
<1>6. Described(rec) => Described(new)
  BY <1>4 DEF Described, About, Has
<1>7. MetaInv(new)
  BY <1>2, <1>4, <1>5, <1>6 DEF MetaInv, StillThere, Has
<1> QED
  BY <1>1, <1>7, MetaTurnKept

(* A request during which something changed promises less.                 *)
LEMMA AlteredKept ==
    ASSUME TabsInv, TreeInv', NEW p \in Places, NEW kind \in Kinds, Alter(p, kind)
    PROVE  TabsInv'
<1>1. /\ meta' = [m \in Metas |-> [meta[m] EXCEPT !.calm = @ /\ meta[m].at # "reading"]]
      /\ driver' = driver
  BY DEF Alter
<1>2. ASSUME NEW m \in Metas
      PROVE  MetaInv(meta[m])'
  <2> DEFINE rec == meta[m]
             new == meta'[m]
             calm == rec.calm /\ rec.at # "reading"
  <2>1. new = [rec EXCEPT !.calm = calm]
    BY <1>1
  <2>2. Shaped(rec) /\ MetaInv(rec)
    BY DEF TabsInv, MetaInv
  <2>3. calm \in BOOLEAN
    OBVIOUS
  <2>4. calm => rec.calm /\ rec.at # "reading"
    OBVIOUS
  <2> HIDE DEF rec, new, calm
  <2>5. /\ new \in [at : AskingAt, node : {rec.node}, left : Lefts \cup {<<>>}, tabs : {rec.tabs},
                   calm : BOOLEAN]
        /\ Has(new, rec.at, rec.node, rec.left, rec.tabs, calm)
    <3>1. rec \in [at : AskingAt, node : {rec.node}, left : Lefts \cup {<<>>}, tabs : {rec.tabs},
                   calm : BOOLEAN]
      BY <2>2 DEF Shaped
    <3> QED
      BY <2>1, <2>3, <3>1 DEF Has
  <2>6. Shaped(new)
    BY <2>2, <2>5 DEF Shaped, Has
  <2>7. Described(rec) => Described(new)
    BY <2>4, <2>5 DEF Described, About, Has
  <2>8. ~(new.at = "reading" /\ new.calm)
    BY <2>4, <2>5 DEF Has
  <2>9. /\ Shaped(meta[m])'
        /\ (Described(new) => Described(meta[m])')
        /\ StillThere(meta[m])'
    BY <1>1, <2>6, <2>8 DEF Shaped, Described, About, ByName, StillThere, new
  <2>10. \A node : Addressable(node)' <=> Addressable(node)
    BY <1>1 DEF Addressable
  <2>11. /\ new.at = "reading" => new.left # <<>> /\ new.node \in Nodes
         /\ (new.node # NoNode /\ Addressable(new.node)) => Described(new)
    BY <2>2, <2>5, <2>7 DEF MetaInv, Has
  <2> QED
    BY <2>9, <2>10, <2>11 DEF MetaInv, new
<1>3. meta' = [m \in Metas |-> meta'[m]]
  BY <1>1
<1> QED
  BY <1>2, <1>3 DEF TabsInv

LEMMA TabsStep ==
    ASSUME TabsInv, [Next]_vars
    PROVE  TabsInv'
<1>0. TreeInv'
  BY TreeStep DEF TabsInv
<1>1. ASSUME UNCHANGED <<driver, db, meta>>
      PROVE  TabsInv'
  BY <1>0, <1>1, MetaCarried DEF TabsInv
<1>2. ASSUME NEW p \in Places, NEW kind \in Kinds, Alter(p, kind)
      PROVE  TabsInv'
  BY <1>0, <1>2, AlteredKept
<1>3. ASSUME NEW r \in Reads,
             \/ Reload(r) \/ ReadSchemas(r) \/ ReadTables(r) \/ ReadViews(r)
             \/ CatalogFails(r) \/ UpdateGraph(r) \/ UpdateGraphErr(r)
      PROVE  TabsInv'
  BY <1>1, <1>3 DEF Reload, ReadSchemas, ReadTables, ReadViews, CatalogFails, UpdateGraph,
                    UpdateGraphErr, ReadTurns
<1>4. ASSUME NEW m \in Metas, NEW node \in IF Started THEN read[tree].nodes ELSE {}, Enter(m, node)
      PROVE  TabsInv'
  <2>1. tree \in Reads /\ node \in read[tree].nodes
    BY <1>4 DEF Started, TabsInv, TreeInv
  <2>2. node \in Nodes
    BY <2>1 DEF TabsInv, TreeInv, RecordInv, ReadRecord
  <2> QED
    BY <1>0, <1>4, <2>2, EnterKept
<1>5. ASSUME NEW m \in Metas, ReadTab(m) \/ TabFails(m) \/ ShowTabs(m) \/ ShowError(m)
      PROVE  TabsInv'
  BY <1>0, <1>5, ReadTabKept, FailedKept, AnsweredKept
<1>6. CASE UNCHANGED vars
  BY <1>1, <1>6 DEF vars
<1> QED
  BY <1>2, <1>3, <1>4, <1>5, <1>6 DEF Next

LEMMA TabsInit == Init => TabsInv
<1> SUFFICES ASSUME Init
             PROVE  TabsInv
  OBVIOUS
<1>1. meta = [m \in Metas |-> IdleMeta]
  BY DEF Init
<1>2. MetaInv(IdleMeta)
  <2>1. Shaped(IdleMeta)
    BY IdleMetaIs DEF Shaped, Has
  <2> QED
    BY <2>1, IdleMetaIs DEF MetaInv, Has
<1> QED
  BY <1>1, <1>2, TreeInit DEF TabsInv

(* The tabs shown together are about the relation selected, as far as its  *)
(* name and its schema can find it, whatever changes between their queries *)
(* (client.go's Metadata and ViewMetadata, and the clients' queries).      *)
THEOREM TabsAreAboutSelected == Spec => []TabsDescribeSelected
<1>1. TabsInv => TabsDescribeSelected
  BY DEF TabsInv, MetaInv, Described, About, TabsDescribeSelected
<1> QED
  BY <1>1, TabsInit, TabsStep, PTL DEF Spec
-----------------------------------------------------------------------------
(* What the result set shows.                                              *)

PanelInv ==
    /\ TabsInv
    /\ last # None => last \in Metas
    /\ last \notin raced => UnderWay \subseteq {last}
    /\ ShowsLastSelected

(* How far a request is, after a step of its own.                          *)
LEMMA AtAfter ==
    ASSUME TabsInv, NEW m \in Metas, NEW next, MetaTurns(m, next)
    PROVE  \A x \in Metas : meta'[x].at = IF x = m THEN next.at ELSE meta[x].at
BY DEF TabsInv, MetaTurns

LEMMA ShownKept ==
    ASSUME PanelInv, TabsInv', NEW m \in Metas, ReadTab(m) \/ TabFails(m) \/ ShowTabs(m) \/ ShowError(m)
    PROVE  PanelInv'
<1>1. /\ last' = last /\ raced' = raced
      /\ meta[m].at \in {"reading", "answered", "failed"}
  BY DEF ReadTab, TabFails, ShowTabs, ShowError, Requested
<1>2. \A x \in Metas \ {m} : meta'[x].at = meta[x].at
  BY DEF PanelInv, TabsInv, ReadTab, TabFails, ShowTabs, ShowError, MetaTurns
<1>3. UnderWay' \subseteq UnderWay
  BY <1>1, <1>2 DEF UnderWay
<1>4. ShowsLastSelected'
  <2> SUFFICES ASSUME last # None, last \notin raced, meta'[last].at = "done"
               PROVE  panel' \in {last, None}
    BY <1>1 DEF ShowsLastSelected
  <2>1. last \in Metas /\ UnderWay \subseteq {last}
    BY DEF PanelInv
  <2>2. m = last
    BY <1>1, <2>1 DEF UnderWay
  <2>3. CASE ShowTabs(m) \/ ShowError(m)
    BY <2>2, <2>3 DEF ShowTabs, ShowError
  <2>4. CASE TabFails(m)
    <3>1. MetaTurns(m, [IdleMeta EXCEPT !.at = "failed"])
      BY <2>4 DEF TabFails
    <3>2. [IdleMeta EXCEPT !.at = "failed"].at = "failed"
      BY DEF IdleMeta
    <3> QED
      BY <2>1, <2>2, <3>1, <3>2, AtAfter DEF PanelInv
  <2>5. CASE ReadTab(m)
    <3> DEFINE tab == Head(meta[m].left)
               rest == Tail(meta[m].left)
               answer == TabOf(driver, db, tab, meta[m].node)
               new == [meta[m] EXCEPT !.tabs = Append(@, <<tab, answer.about>>), !.left = rest,
                                      !.at = IF rest = <<>> THEN "answered" ELSE @]
               next == IF answer.ok THEN new ELSE [IdleMeta EXCEPT !.at = "failed"]
    <3>1. MetaTurns(m, next) /\ meta[m].at = "reading"
      BY <2>5 DEF ReadTab, Requested
    <3>2. Shaped(meta[m])
      BY DEF PanelInv, TabsInv, MetaInv
    <3>3. new.at \in {"answered", "reading"}
      <4> HIDE DEF tab, rest, answer
      <4> QED
        BY <3>1, <3>2 DEF Shaped
    <3>4. [IdleMeta EXCEPT !.at = "failed"].at = "failed"
      BY DEF IdleMeta
    <3>5. next.at # "done"
      <4> HIDE DEF new, answer
      <4> QED
        BY <3>3, <3>4
    <3> HIDE DEF next
    <3> QED
      BY <2>1, <2>2, <3>1, <3>5, AtAfter DEF PanelInv
  <2> QED
    BY <2>3, <2>4, <2>5
<1> QED
  BY <1>1, <1>3, <1>4 DEF PanelInv

LEMMA EnterShown ==
    ASSUME PanelInv, TabsInv', NEW m \in Metas, NEW node, Enter(m, node)
    PROVE  PanelInv'
<1> DEFINE new == [IdleMeta EXCEPT !.at = "reading", !.node = node,
                       !.left = IF node.type = "table" THEN TableTabs ELSE ViewTabs]
<1>1. /\ MetaTurns(m, new) /\ last' = m
      /\ raced' = IF UnderWay = {} THEN raced ELSE raced \cup UnderWay \cup {m}
  BY DEF Enter
<1>2. new.at = "reading"
  BY DEF IdleMeta
<1> HIDE DEF new
<1>3. \A x \in Metas : meta'[x].at = IF x = m THEN "reading" ELSE meta[x].at
  BY <1>1, <1>2, AtAfter DEF PanelInv
<1>4. UnderWay' \subseteq UnderWay \cup {m}
  BY <1>3 DEF UnderWay
<1>5. ShowsLastSelected'
  BY <1>1, <1>3 DEF ShowsLastSelected
<1>6. last' \notin raced' => UnderWay' \subseteq {last'}
  BY <1>1, <1>4
<1> QED
  BY <1>1, <1>5, <1>6 DEF PanelInv

LEMMA PanelStep ==
    ASSUME PanelInv, [Next]_vars
    PROVE  PanelInv'
<1>0. TabsInv /\ TabsInv'
  BY TabsStep DEF PanelInv
<1>1. ASSUME UNCHANGED <<last, raced>>, \A m \in Metas : meta'[m].at = meta[m].at,
             panel' \in {panel, None}
      PROVE  PanelInv'
  <2>1. UnderWay' = UnderWay
    BY <1>1 DEF UnderWay
  <2>2. ShowsLastSelected'
    BY <1>1 DEF PanelInv, ShowsLastSelected
  <2> QED
    BY <1>0, <1>1, <2>1, <2>2 DEF PanelInv
<1>2. ASSUME NEW p \in Places, NEW kind \in Kinds, Alter(p, kind)
      PROVE  PanelInv'
  <2>1. /\ meta' = [m \in Metas |-> [meta[m] EXCEPT !.calm = @ /\ meta[m].at # "reading"]]
        /\ UNCHANGED <<last, raced, panel>>
    BY <1>2 DEF Alter
  <2>2. ASSUME NEW m \in Metas
        PROVE  meta'[m].at = meta[m].at
    <3>1. Shaped(meta[m])
      BY <1>0 DEF TabsInv, MetaInv
    <3> QED
      BY <2>1, <3>1 DEF Shaped
  <2> QED
    BY <1>1, <2>1, <2>2
<1>3. ASSUME NEW r \in Reads,
             \/ Reload(r) \/ ReadSchemas(r) \/ ReadTables(r) \/ ReadViews(r)
             \/ CatalogFails(r) \/ UpdateGraph(r) \/ UpdateGraphErr(r)
      PROVE  PanelInv'
  BY <1>1, <1>3 DEF Reload, ReadSchemas, ReadTables, ReadViews, CatalogFails, UpdateGraph,
                    UpdateGraphErr, ReadTurns
<1>4. ASSUME NEW m \in Metas, NEW node \in IF Started THEN read[tree].nodes ELSE {}, Enter(m, node)
      PROVE  PanelInv'
  BY <1>0, <1>4, EnterShown
<1>5. ASSUME NEW m \in Metas, ReadTab(m) \/ TabFails(m) \/ ShowTabs(m) \/ ShowError(m)
      PROVE  PanelInv'
  BY <1>0, <1>5, ShownKept
<1>6. CASE UNCHANGED vars
  BY <1>1, <1>6 DEF vars
<1> QED
  BY <1>2, <1>3, <1>4, <1>5, <1>6 DEF Next

LEMMA PanelInit == Init => PanelInv
<1> SUFFICES ASSUME Init
             PROVE  PanelInv
  OBVIOUS
<1>1. meta = [m \in Metas |-> IdleMeta] /\ last = None
  BY DEF Init
<1>2. UnderWay = {}
  BY <1>1 DEF UnderWay, IdleMeta
<1> QED
  BY <1>1, <1>2, TabsInit DEF PanelInv, ShowsLastSelected

(* The result set is never left with the tabs of an earlier selection once *)
(* the last one is answered, also with an error, if they did not overlap   *)
(* (resultset.go's metadataSuccessMsg and metadataErrMsg).                 *)
THEOREM ShowsTheLast == Spec => []ShowsLastSelected
<1>1. PanelInv => ShowsLastSelected
  BY DEF PanelInv
<1> QED
  BY <1>1, PanelInit, PanelStep, PTL DEF Spec
-----------------------------------------------------------------------------
(* Types.                                                                  *)

NodesOK == \A m \in Metas : meta[m].node \in Nodes \cup {NoNode}

TypesInv ==
    /\ PanelInv
    /\ changes \in 0..MaxChanges
    /\ panel \in Metas \cup {None}
    /\ raced \subseteq Metas
    /\ NodesOK

LEMMA NodesTurn ==
    ASSUME TabsInv, NodesOK, NEW m \in Metas, NEW next, MetaTurns(m, next),
           next.node \in Nodes \cup {NoNode}
    PROVE  NodesOK'
BY DEF TabsInv, NodesOK, MetaTurns

LEMMA NodesStep ==
    ASSUME PanelInv, NodesOK, [Next]_vars
    PROVE  NodesOK'
<1>0. TabsInv /\ TreeInv /\ \A m \in Metas : Shaped(meta[m])
  BY DEF PanelInv, TabsInv, MetaInv
<1>1. CASE UNCHANGED meta
  BY <1>1 DEF NodesOK
<1>2. ASSUME NEW p \in Places, NEW kind \in Kinds, Alter(p, kind)
      PROVE  NodesOK'
  <2>1. meta' = [m \in Metas |-> [meta[m] EXCEPT !.calm = @ /\ meta[m].at # "reading"]]
    BY <1>2 DEF Alter
  <2>2. ASSUME NEW m \in Metas
        PROVE  meta'[m].node = meta[m].node
    BY <1>0, <2>1 DEF Shaped
  <2> QED
    BY <2>2 DEF NodesOK
<1>3. ASSUME NEW m \in Metas, NEW node \in IF Started THEN read[tree].nodes ELSE {}, Enter(m, node)
      PROVE  NodesOK'
  <2> DEFINE new == [IdleMeta EXCEPT !.at = "reading", !.node = node,
                         !.left = IF node.type = "table" THEN TableTabs ELSE ViewTabs]
  <2>1. new.node = node
    BY DEF IdleMeta
  <2>2. node \in Nodes
    BY <1>0 DEF Started, TreeInv, RecordInv, ReadRecord
  <2>3. MetaTurns(m, new)
    BY <1>3 DEF Enter
  <2> HIDE DEF new
  <2> QED
    BY <1>0, <2>1, <2>2, <2>3, NodesTurn
<1>4. ASSUME NEW m \in Metas, TabFails(m)
      PROVE  NodesOK'
  <2>1. [IdleMeta EXCEPT !.at = "failed"].node = NoNode
    BY DEF IdleMeta
  <2> QED
    BY <1>0, <1>4, <2>1, NodesTurn DEF TabFails
<1>5. ASSUME NEW m \in Metas, ShowTabs(m) \/ ShowError(m)
      PROVE  NodesOK'
  <2>1. [meta[m] EXCEPT !.at = "done"].node = meta[m].node
    BY <1>0 DEF Shaped
  <2>2. MetaTurns(m, [meta[m] EXCEPT !.at = "done"])
    BY <1>5 DEF ShowTabs, ShowError
  <2> QED
    BY <1>0, <2>1, <2>2, NodesTurn DEF NodesOK
<1>6. ASSUME NEW m \in Metas, ReadTab(m)
      PROVE  NodesOK'
  <2> DEFINE tab == Head(meta[m].left)
             rest == Tail(meta[m].left)
             answer == TabOf(driver, db, tab, meta[m].node)
             new == [meta[m] EXCEPT !.tabs = Append(@, <<tab, answer.about>>), !.left = rest,
                                    !.at = IF rest = <<>> THEN "answered" ELSE @]
             next == IF answer.ok THEN new ELSE [IdleMeta EXCEPT !.at = "failed"]
  <2>1. MetaTurns(m, next)
    BY <1>6 DEF ReadTab
  <2>2. new.node = meta[m].node
    <3> HIDE DEF tab, rest, answer
    <3> QED
      BY <1>0 DEF Shaped
  <2>3. [IdleMeta EXCEPT !.at = "failed"].node = NoNode
    BY DEF IdleMeta
  <2>4. next.node \in {meta[m].node, NoNode}
    <3> HIDE DEF new, answer
    <3> QED
      BY <2>2, <2>3
  <2> HIDE DEF next
  <2> QED
    BY <1>0, <2>1, <2>4, NodesTurn DEF NodesOK
<1>7. ASSUME NEW r \in Reads,
             \/ Reload(r) \/ ReadSchemas(r) \/ ReadTables(r) \/ ReadViews(r)
             \/ CatalogFails(r) \/ UpdateGraph(r) \/ UpdateGraphErr(r)
      PROVE  NodesOK'
  BY <1>1, <1>7 DEF Reload, ReadSchemas, ReadTables, ReadViews, CatalogFails, UpdateGraph,
                    UpdateGraphErr, ReadTurns
<1> QED
  BY <1>1, <1>2, <1>3, <1>4, <1>5, <1>6, <1>7 DEF Next, vars

LEMMA TypesStep ==
    ASSUME TypesInv, [Next]_vars
    PROVE  TypesInv'
<1>0. PanelInv' /\ NodesOK'
  BY PanelStep, NodesStep DEF TypesInv
<1>1. CASE UNCHANGED <<changes, panel, raced>>
  BY <1>0, <1>1 DEF TypesInv
<1>2. ASSUME NEW p \in Places, NEW kind \in Kinds, Alter(p, kind)
      PROVE  TypesInv'
  <2>1. changes' = changes + 1 /\ changes < MaxChanges /\ UNCHANGED <<panel, raced>>
    BY <1>2 DEF Alter
  <2>2. changes' \in 0..MaxChanges
    BY <2>1, BrowseAssumption DEF TypesInv
  <2> QED
    BY <1>0, <2>1, <2>2 DEF TypesInv
<1>3. ASSUME NEW r \in Reads,
             \/ Reload(r) \/ ReadSchemas(r) \/ ReadTables(r) \/ ReadViews(r)
             \/ CatalogFails(r) \/ UpdateGraph(r) \/ UpdateGraphErr(r)
      PROVE  TypesInv'
  BY <1>0, <1>3 DEF Reload, ReadSchemas, ReadTables, ReadViews, CatalogFails, UpdateGraph,
                    UpdateGraphErr, ReadTurns, TypesInv
<1>4. ASSUME NEW m \in Metas, NEW node, Enter(m, node)
      PROVE  TypesInv'
  BY <1>0, <1>4 DEF Enter, MetaTurns, UnderWay, TypesInv
<1>5. ASSUME NEW m \in Metas, ReadTab(m) \/ TabFails(m) \/ ShowTabs(m) \/ ShowError(m)
      PROVE  TypesInv'
  BY <1>0, <1>5 DEF ReadTab, TabFails, ShowTabs, ShowError, MetaTurns, TypesInv
<1> QED
  BY <1>1, <1>2, <1>3, <1>4, <1>5 DEF Next, vars

(* The variables keep their types; a node that tabs were asked for is one  *)
(* of a schema and a name the database knows.                              *)
THEOREM TypeCorrect == Spec => []TypeOK
<1>1. Init => TypesInv
  <2> SUFFICES ASSUME Init
               PROVE  TypesInv
    OBVIOUS
  <2>1. \A m \in Metas : meta[m].node = NoNode
    BY DEF Init, IdleMeta
  <2> QED
    BY <2>1, PanelInit, BrowseAssumption DEF Init, TypesInv, NodesOK
<1>2. TypesInv => TypeOK
  <2> SUFFICES ASSUME TypesInv
               PROVE  TypeOK
    OBVIOUS
  <2>1. TreeInv /\ ServerInv /\ \A m \in Metas : meta[m].at \in AskingAt
    BY DEF TypesInv, PanelInv, TabsInv, TreeInv, MetaInv, Shaped
  <2>2. read \in [Reads -> ReadRecord]
    BY <2>1 DEF TreeInv, RecordInv
  <2>3. last \in Metas \cup {None}
    BY DEF TypesInv, PanelInv
  <2> QED
    BY <2>1, <2>2, <2>3 DEF TypesInv, NodesOK, ServerInv, ReadRecord, TreeInv, TypeOK
<1> QED
  BY <1>1, <1>2, TypesStep, PTL DEF Spec
=============================================================================
