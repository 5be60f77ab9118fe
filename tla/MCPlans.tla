------------------------------ MODULE MCPlans -------------------------------
(* PostgreSQL has many plans and few statements, so that any two of them   *)
(* are compared; SQLite the other way round.                               *)
EXTENDS Plans, TLC

CONSTANTS v1, v2

OpTypesDef ==
    [l \in {"Seq Scan", "Foreign Scan", "Index Scan",
            "Nested Loop", "Append", "union_result", "ordering_operation",
            "materialized_from_subquery", "SELECT STATEMENT", "TABLE ACCESS FULL",
            "INDEX RANGE SCAN", "query_block", "nested_loop", "ref",
            "Table scan", "Table Scan", "Nested Loops", "SCAN", "SEARCH"} |->
        CASE l \in {"Seq Scan", "TABLE ACCESS FULL", "Table scan",
                    "Table Scan", "SCAN"} -> "SEQ_SCAN"
          [] l = "Foreign Scan" -> "OTHER_SCAN"
          [] l \in {"Index Scan", "INDEX RANGE SCAN", "ref", "SEARCH"} ->
                "INDEX_SCAN"
          [] l \in {"Nested Loop", "nested_loop", "Nested Loops"} ->
                "NESTED_LOOP_JOIN"
          [] l \in {"Append", "union_result"} -> "APPEND"
          [] l = "ordering_operation" -> "SORT"
          [] l = "materialized_from_subquery" -> "SUBQUERY"
          [] OTHER -> "RESULT"]

Row(depth, label, object, index, cost) ==
    [depth |-> depth, label |-> label, object |-> object, index |-> index,
     cost |-> cost]

Element(depth, key, label, object) ==
    [depth |-> depth, key |-> key, label |-> label, object |-> object,
     index |-> "", cost |-> 1]
Container(depth, key) == Element(depth, key, key, "")
Scan(depth, object)   == Element(depth, "table", "hash_ALL", object)

(* All depths of at most n lines, each at most one deeper than the last    *)
(* and none above lowest but the first.                                    *)
Depths(n, lowest) ==
    {d \in UNION {[1..k -> 0..(n - 1)] : k \in 1..n} :
        /\ d[1] = 0
        /\ \A i \in 2..Len(d) : d[i] \in lowest..(d[i - 1] + 1)}

Lines(depths, label, leaf) ==
    {[i \in DOMAIN d |-> Row(d[i], IF i = 1 THEN label ELSE leaf, "a", "", i)] :
        d \in depths}

(* An append over up to three scans, and some joins two levels down.       *)
ScanA == Row(1, "Seq Scan", "a", "", 1)
ScanB == Row(1, "Seq Scan", "b", "", 1)
Index == Row(1, "Index Scan", "a", "i", 1)
Scans == {ScanA, ScanB, Index}
Deeper(rows) == [i \in DOMAIN rows |-> [rows[i] EXCEPT !.depth = @ + 1]]
Join(kids) == <<Row(1, "Nested Loop", "", "", 2)>> \o Deeper(kids)
PostgresPlans ==
    {<<Row(0, "Append", "", "", 3)>> \o kids :
        kids \in UNION {[1..k -> Scans] : k \in 0..2}
            \union {<<ScanB>> \o p : p \in [1..2 -> Scans]}
            \union {<<[ScanA EXCEPT !.cost = 2]>>,
                    <<[ScanA EXCEPT !.object = "c"]>>,
                    <<[ScanA EXCEPT !.label = "Foreign Scan"], ScanA, ScanB>>}
            \union {Join(<<ScanA, Index>>), Join(<<Index, ScanA>>),
                    Join(<<ScanA, ScanB>>) \o <<ScanA>>,
                    <<ScanA>> \o Join(<<ScanB, ScanA>>)}}

(* A rule makes two statements of one.                                     *)
RewrittenPlan ==
    <<Row(0, "Nested Loop", "", "", 2), ScanA, Index,
      Row(0, "Append", "", "", 3), ScanB>>

(* Tables alone and joined, the last with a subquery of its condition; a   *)
(* window; INSERT ... SELECT; a union; a derived table.                    *)
Block == Container(0, "query_block")
MySQLPlans ==
    {<<Block, Scan(1, "a")>>,
     <<Block, Container(1, "nested_loop"), Scan(2, "b"),
       Element(2, "table", "ref", "a"), Container(3, "attached_subqueries"),
       Container(4, "query_block"), Scan(5, "c")>>,
     <<Block, Container(1, "windowing"), Scan(2, "a")>>,
     <<Block, Element(1, "table", "INSERT", "a"), Container(1, "insert_from"),
       Scan(2, "b")>>,
     <<Block, Container(1, "union_result"), Container(2, "query_block"),
       Container(3, "ordering_operation"), Scan(4, "a"),
       Container(2, "query_block"), Scan(3, "b")>>,
     <<Block, Element(1, "table", "materialized_from_subquery", "d"),
       Container(2, "query_block"), Scan(3, "a"),
       Container(2, "attached_subqueries")>>}

SQLServerPlans ==
    {<<Row(0, "Nested Loops", "", "", 1), Row(1, "Table Scan", t, "", 1),
       Row(1, "Table Scan", "b", "", 1)>> : t \in {"a", "b"}}

SQLiteRow(id, parent, label, object) ==
    [id |-> id, parent |-> parent, label |-> label, object |-> object,
     index |-> "", cost |-> 0]
SQLitePlans ==
    {<<SQLiteRow(2, 0, "SCAN", "a")>>,
     <<SQLiteRow(3, 0, "SCAN", "a"), SQLiteRow(5, 0, "SEARCH", "b")>>,
     <<SQLiteRow(1, 0, "compound", ""), SQLiteRow(2, 1, "SCAN", "a"),
       SQLiteRow(6, 1, "SCAN", "b")>>}

DocumentsDef ==
    LET Analyze(d) == <<d, "EXPLAIN ANALYZE">>
        Plain(d)   == <<d, "EXPLAIN">>
    IN  (Plain("postgresql") :> PostgresPlans \union {RewrittenPlan})
     @@ (Analyze("postgresql") :> {<<Row(0, "Seq Scan", "a", "", 1)>>})
     @@ (Plain("mysql") :> MySQLPlans)
     @@ (Analyze("mysql") :> Lines(Depths(4, 0), "Nested Loop", "Table scan"))
     @@ (Plain("oracle") :>
            Lines(Depths(4, 1), "SELECT STATEMENT", "TABLE ACCESS FULL")
             \union Lines(Depths(2, 1), "SELECT STATEMENT", "INDEX RANGE SCAN"))
     @@ (Plain("sqlserver") :> SQLServerPlans)
     @@ (Plain("sqlite") :> SQLitePlans)

(* A view may call nextval where its reader does not.                      *)
Effects  == {"rows", "lasting"}
Write1   == [verb |-> "DELETE", calls |-> {}, does |-> Effects]
Sequence == [verb |-> "SELECT", calls |-> {"sequence"}, does |-> {"lasting"}]
Link     == [verb |-> "SELECT", calls |-> {"dblink"}, does |-> {"lasting"}]
With     == [verb |-> "WITH", calls |-> {}, does |-> Effects]
Call     == [verb |-> "SELECT", calls |-> {"function"}, does |-> {"rows"}]
View     == [verb |-> "SELECT", calls |-> {}, does |-> {"lasting"}]
StatementsDef ==
    [d \in Dialects |->
        CASE d = "postgresql" -> {Read, Write1, Sequence, Link, With, View}
          [] d = "mysql"      -> {Read, Write1, Call}
          [] OTHER            -> {Read, Write1}]

MaxStatementsDef ==
    [d \in Dialects |-> IF d = "sqlite" THEN 3 ELSE 2]

(* The two names share a file.                                             *)
SecondsDef == 1..2
SanitizeDef == (v1 :> "v_1") @@ (v2 :> "v_1")
                   @@ (1 :> "1") @@ (2 :> "2")

Symmetry == Permutations(Goroutines) \union Permutations(Conns)
=============================================================================
