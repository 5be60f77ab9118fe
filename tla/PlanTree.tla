------------------------------ MODULE PlanTree ------------------------------
(***************************************************************************)
(* From what a database answers to EXPLAIN to the tree of operators dblab  *)
(* works with (pkg/plan Parse and the parsers it calls).                   *)
(*                                                                         *)
(* An answer is the sequence of its rows, elements or lines in the order   *)
(* they are printed.  Each has its label, the object, index and cost it    *)
(* names, and its place: its depth (how many JSON or XML elements enclose  *)
(* it, or how far it is indented), and in SQLite its id and its parent's.  *)
(* An element of MySQL's JSON has the key it is under.                     *)
(*                                                                         *)
(* A tree numbers its nodes; parent[i] is 0 for a root.  The children of a *)
(* node are in the order of their numbers, which is how every parser       *)
(* appends them.  The identifiers assignIDs derives from the positions are *)
(* left to the numbers, the metrics to the cost.                           *)
(***************************************************************************)
EXTENDS Naturals, FiniteSets, Sequences

CONSTANT OpTypes        \* the operator category of every label

Normalize(label) ==
    IF label \in DOMAIN OpTypes THEN OpTypes[label] ELSE "UNKNOWN"

Node(op, object, index, cost) ==
    [op |-> op, object |-> object, index |-> index, cost |-> cost]

Kids(t, i) == {j \in DOMAIN t.node : t.parent[j] = i}

(* The tree of these nodes; several roots, or none, get a common one.      *)
Rooted(nodes, parents, common) ==
    LET roots == {i \in DOMAIN parents : parents[i] = 0}
        top   == Len(nodes) + 1
    IN  IF Cardinality(roots) = 1
        THEN [node |-> nodes, parent |-> parents,
              root |-> CHOOSE i \in roots : TRUE]
        ELSE [node |-> Append(nodes, Node(common, "", "", 0)),
              parent |-> Append([i \in DOMAIN parents |->
                            IF i \in roots THEN top ELSE parents[i]], 0),
              root |-> top]
-----------------------------------------------------------------------------
(* The greatest of these numbers, 0 if there is none.                      *)
GreatestOf(numbers) ==
    IF numbers = {} THEN 0
    ELSE CHOOSE k \in numbers : \A l \in numbers : l <= k

(* The parent of a row by what depth means: the nearest row before it that *)
(* is less deep.  JSON and XML documents nest their children, so that this *)
(* is the element around it.                                               *)
Enclosing(rows, i) ==
    GreatestOf({j \in 1..(i - 1) : rows[j].depth < rows[i].depth})

(* The XML parser of SQL Server makes a node of every element.             *)
Nested(rows) == [i \in DOMAIN rows |-> Enclosing(rows, i)]

Inside(rows, i) == {j \in DOMAIN rows : Enclosing(rows, j) = i}

(* mysqlInner goes on with the first of these that a block has.            *)
Operations == <<"nested_loop", "ordering_operation", "grouping_operation",
                "duplicates_removal", "union_result", "table">>

Inner(rows, i) ==
    {j \in Inside(rows, i) :
        \E k \in DOMAIN Operations :
            /\ rows[j].key = Operations[k]
            /\ \A l \in Inside(rows, i), m \in 1..(k - 1) :
                  rows[l].key # Operations[m]}

(* What MySQL's parser goes on with below an element: the operation of     *)
(* every entry of a join, the blocks of a union or of a derived table, and *)
(* nothing below another table.                                            *)
MySQLFollowed(rows, i) ==
    LET derived == rows[i].label = "materialized_from_subquery"
        Under(keys) == {j \in Inside(rows, i) : rows[j].key \in keys}
    IN  CASE rows[i].key = "nested_loop" ->
                Under({Operations[k] : k \in DOMAIN Operations})
          [] rows[i].key = "union_result" \/ derived -> Under({"query_block"})
          [] rows[i].key = "table" /\ ~derived -> {}
          [] OTHER -> Inner(rows, i)

Followed(dialect, rows, i) ==
    IF dialect = "mysql" THEN MySQLFollowed(rows, i) ELSE Inside(rows, i)

(* The JSON parsers start at the first element, of several plans too, and  *)
(* make a node of each they come to: the rows up to i they came to.        *)
Visit(dialect, rows, before, i) ==
    IF i = 1 \/ \E k \in DOMAIN before : i \in Followed(dialect, rows, before[k])
    THEN Append(before, i) ELSE before

Visited(dialect, rows) ==
    LET visited[i \in 0..Len(rows)] ==
            IF i = 0 THEN <<>> ELSE Visit(dialect, rows, visited[i - 1], i)
    IN  visited

(* The stack of the Oracle parser, of row i on what the rows before it     *)
(* left: it pops as long as the stack is deeper than the row.              *)
OraclePush(rows, before, i) ==
    LET keep == IF Len(before) < rows[i].depth
                THEN Len(before) ELSE rows[i].depth
    IN  Append(SubSeq(before, 1, keep), i)

OracleStack(rows) ==
    LET stack[i \in 0..Len(rows)] ==
            IF i = 0 THEN <<>> ELSE OraclePush(rows, stack[i - 1], i)
    IN  stack

(* Mutant of IteratorPush: a row is not closed by the next of its depth.   *)
IteratorPushKeepsEqual(rows, before, i) ==
    LET outer == {k \in DOMAIN before : rows[before[k]].depth <= rows[i].depth}
    IN  Append(SubSeq(before, 1, GreatestOf(outer)), i)

(* The stack of MySQL's iterator tree: it pops rows at least as deep, down *)
(* to the first that is not.                                               *)
IteratorPush(rows, before, i) ==
    LET outer == {k \in DOMAIN before : rows[before[k]].depth < rows[i].depth}
    IN  Append(SubSeq(before, 1, GreatestOf(outer)), i)

IteratorStack(rows) ==
    LET stack[i \in 0..Len(rows)] ==
            IF i = 0 THEN <<>> ELSE IteratorPush(rows, stack[i - 1], i)
    IN  stack

(* A row is appended to the children of the one below it on the stack.     *)
Stacked(rows, stack) ==
    [i \in DOMAIN rows |->
        LET s == stack[i] IN IF Len(s) = 1 THEN 0 ELSE s[Len(s) - 1]]

(* SQLite names the parent; one that is no row's id makes a root.          *)
Referred(rows) ==
    [i \in DOMAIN rows |->
        LET named == {j \in DOMAIN rows : rows[j].id = rows[i].parent}
        IN  IF named = {} THEN 0 ELSE CHOOSE j \in named : TRUE]
-----------------------------------------------------------------------------
PlainNode(row) ==
    Node(Normalize(row.label), row.object, row.index, row.cost)

(* Oracle has one name per row, the index of an index scan or else the     *)
(* object.                                                                 *)
OracleNode(row) ==
    LET op == Normalize(row.label)
    IN  IF op \in {"INDEX_SCAN", "BITMAP_INDEX_SCAN"}
        THEN Node(op, "", row.object, row.cost)
        ELSE Node(op, row.object, "", row.cost)

MySQLNode(row) ==
    LET op == Normalize(row.label)
    IN  Node(IF op = "UNKNOWN" THEN "SEQ_SCAN" ELSE op,
             row.object, row.index, row.cost)

(* SQL Server's object is the first one within the element: an operator    *)
(* that reads no table gets the one of the first operator below it.        *)
SQLServerNode(rows, i) ==
    LET below == {j \in i..Len(rows) :
                    \A k \in (i + 1)..j : rows[k].depth > rows[i].depth}
        named == {j \in below : rows[j].object # ""}
        first == CHOOSE j \in named : \A k \in named : j <= k
    IN  IF named = {} THEN Node(Normalize(rows[i].label), "", "", rows[i].cost)
        ELSE Node(Normalize(rows[i].label), rows[first].object,
                  rows[first].index, rows[i].cost)

PlainNodes(rows) == [i \in DOMAIN rows |-> PlainNode(rows[i])]

(* Oracle keeps the last row of depth 0 as the root.                       *)
ParseOracle(rows) ==
    LET parents == Stacked(rows, OracleStack(rows))
        tops    == {i \in DOMAIN rows : parents[i] = 0}
    IN  [node |-> [i \in DOMAIN rows |-> OracleNode(rows[i])], parent |-> parents,
         root |-> CHOOSE i \in tops : \A j \in tops : j <= i]

(* The tree of these rows, by number, each below the one around it.        *)
ParseJSON(nodes, rows, from) ==
    [node   |-> [k \in DOMAIN from |-> nodes[from[k]]],
     parent |-> [k \in DOMAIN from |->
                    LET around == {l \in DOMAIN from :
                                      from[l] = Enclosing(rows, from[k])}
                    IN  IF around = {} THEN 0 ELSE CHOOSE l \in around : TRUE],
     root   |-> 1]

(* The row each node is made of, but for a common root.                    *)
From(dialect, mode, rows) ==
    IF dialect = "postgresql" \/ (dialect = "mysql" /\ mode = "EXPLAIN")
    THEN Visited(dialect, rows)[Len(rows)]
    ELSE [i \in DOMAIN rows |-> i]

ParseTree(dialect, mode, rows) ==
    CASE dialect = "postgresql" ->
            ParseJSON(PlainNodes(rows), rows, From(dialect, mode, rows))
      [] dialect = "mysql" /\ mode = "EXPLAIN" ->
            ParseJSON([i \in DOMAIN rows |-> MySQLNode(rows[i])], rows,
                      From(dialect, mode, rows))
      [] dialect = "mysql" /\ mode = "EXPLAIN ANALYZE" ->
            Rooted(PlainNodes(rows),
                   Stacked(rows, IteratorStack(rows)), "APPEND")
      [] dialect = "oracle" -> ParseOracle(rows)
      [] dialect = "sqlserver" ->
            Rooted([i \in DOMAIN rows |-> SQLServerNode(rows, i)],
                   Nested(rows), "RESULT")
      [] dialect = "sqlite" ->
            Rooted(PlainNodes(rows), Referred(rows), "RESULT")

(* A plan keeps the answer it was made of.                                 *)
Parse(dialect, mode, rows) ==
    LET t == ParseTree(dialect, mode, rows)
    IN  [node |-> t.node, parent |-> t.parent, root |-> t.root, mode |-> mode,
         raw |-> rows, from |-> From(dialect, mode, rows)]
=============================================================================
