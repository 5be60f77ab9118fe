------------------------------- MODULE Browse -------------------------------
(***************************************************************************)
(* The sidebar and what it is about: the catalog tree, read with one query *)
(* after another while anybody may change the database (Catalog in         *)
(* pkg/client, updateGraph in pkg/bubbletui/sidebar.go), and the tabs of   *)
(* the relation picked from it, also read query by query (Metadata and     *)
(* ViewMetadata in pkg/client/client.go).  Session.tla has both as single  *)
(* steps next to everything else a session does.                           *)
(*                                                                         *)
(* A read of the catalog, by what it does next:                            *)
(*   "idle", "schemas", "tables" and "views" of its schema, "answered" or  *)
(*   "failed" while the message is on its way, then "done"                 *)
(* A request for the tabs of a node:                                       *)
(*   "idle", "reading", "answered" or "failed", then "done"                *)
(***************************************************************************)
EXTENDS Dialect, Sequences, FiniteSets

CONSTANTS
    Reads, Boot,    \* reads of the catalog, the one of the start among them
    Metas,          \* requests for tabs
    Databases,      \* what the database may be at the start
    MaxChanges      \* bound on the changes of the database

ASSUME BrowseAssumption ==
    /\ Boot \in Reads
    /\ Databases \subseteq [Places -> Kinds]
    /\ MaxChanges \in Nat

VARIABLES
    driver, pinned,     \* of the connection; pinned is --schema, or NoSchema
    db, changes,        \* the database, and how often it was changed
    read,               \* read[r]: a read of the catalog
    tree,               \* the read whose nodes the sidebar shows
    meta,               \* meta[m]: a request for tabs
    panel,              \* the request whose tabs the result set shows
    last,               \* history: the request made last
    raced               \* history: requests under way beside another one

vars == <<driver, pinned, db, changes, read, tree, meta, panel, last, raced>>

None == "none"
NodeTypes == {"table", "view"}
Nodes == [type : NodeTypes, schema : Schemas, name : Names]
NodesOf(type, s, names) == {[type |-> type, schema |-> s, name |-> n] : n \in names}
PlaceOf(node) == At(node.schema, node.name)

(* What exists: history for the reads under way.                           *)
Facts(d) == {[type |-> d[p], schema |-> p.schema, name |-> p.name] :
                p \in Is(d, {"table", "view"})}

IdleRead == [at |-> "idle", schema |-> Default, todo |-> {}, nodes |-> {},
             always |-> {}, ever |-> {}]

(* Turns to the next schema of the queue, in the order of the server.      *)
NextSchema(r, todo) ==
    IF todo = {} THEN {[r EXCEPT !.at = "answered", !.todo = {}]}
    ELSE {[r EXCEPT !.at = "tables", !.schema = s, !.todo = todo \ {s}] : s \in todo}

(* Catalog: the root, and for some drivers its schemas, of which a pinned  *)
(* one needs no query.                                                     *)
Begun(d, drv, pin) ==
    LET r == [IdleRead EXCEPT !.always = Facts(d), !.ever = Facts(d)]
    IN  CASE HasSchemas(drv) /\ pin = NoSchema -> {[r EXCEPT !.at = "schemas"]}
          [] HasSchemas(drv) /\ pin # NoSchema -> NextSchema(r, {pin})
          [] OTHER -> NextSchema(r, {Default})

NoNode == [type |-> "none"]
IdleMeta == [at |-> "idle", node |-> NoNode, left |-> <<>>, tabs |-> <<>>, calm |-> TRUE]

Init ==
    /\ driver \in Drivers
    /\ pinned \in IF HasSchemas(driver) THEN Schemas \cup {NoSchema} ELSE {NoSchema}
    /\ db \in Databases
    /\ driver = "sqlite" => \A p \in Places : p.schema # Default => db[p] = "none"
    /\ changes = 0
    /\ \E r \in Begun(db, driver, pinned) :
        read = [x \in Reads |-> IF x = Boot THEN r ELSE IdleRead]
    /\ tree = None
    /\ meta = [m \in Metas |-> IdleMeta]
    /\ panel = None
    /\ last = None
    /\ raced = {}
-----------------------------------------------------------------------------
InCatalog(r) == read[r].at \in {"schemas", "tables", "views"}

(* Somebody creates a relation, drops it or makes it one of another kind.  *)
Alter(p, kind) ==
    /\ changes < MaxChanges
    /\ db[p] # kind
    /\ driver = "sqlite" => p.schema = Default
    /\ db' = [db EXCEPT ![p] = kind]
    /\ changes' = changes + 1
    /\ read' = [r \in Reads |->
                    IF InCatalog(r)
                    THEN [read[r] EXCEPT !.always = @ \cap Facts(db'), !.ever = @ \cup Facts(db')]
                    ELSE read[r]]
    /\ meta' = [m \in Metas |-> [meta[m] EXCEPT !.calm = @ /\ meta[m].at # "reading"]]
    /\ UNCHANGED <<driver, pinned, tree, panel, last, raced>>
-----------------------------------------------------------------------------
(* Reading the catalog.                                                    *)

Started == tree # None

Reading(r, at) == read[r].at = at
ReadTurns(r, next) ==
    /\ read' = [read EXCEPT ![r] = next]
    /\ UNCHANGED <<driver, pinned, db, changes, meta, last, raced>>

(* querySuccessMsg with reloadCatalog: the command starts to read.         *)
Reload(r) ==
    /\ Started
    /\ Reading(r, "idle")
    /\ \E next \in Begun(db, driver, pinned) : ReadTurns(r, next)
    /\ UNCHANGED <<tree, panel>>

ReadSchemas(r) ==
    /\ Reading(r, "schemas")
    /\ \E next \in NextSchema(read[r], SchemasOf(driver, db)) : ReadTurns(r, next)
    /\ UNCHANGED <<tree, panel>>

ReadTables(r) ==
    /\ Reading(r, "tables")
    /\ LET s == read[r].schema
           found == NodesOf("table", s, TablesOf(driver, db, s))
       IN  ReadTurns(r, [read[r] EXCEPT !.at = "views", !.nodes = @ \cup found])
    /\ UNCHANGED <<tree, panel>>

ReadViews(r) ==
    /\ Reading(r, "views")
    /\ LET s == read[r].schema
           found == NodesOf("view", s, ViewsOf(driver, db, s))
       IN  \E next \in NextSchema([read[r] EXCEPT !.nodes = @ \cup found], read[r].todo) :
              ReadTurns(r, next)
    /\ UNCHANGED <<tree, panel>>

(* Mutant of CatalogFails: the error of the tables is a shadowed err.      *)
CatalogGoesOn(r) ==
    /\ Reading(r, "tables")
    /\ ReadTurns(r, [read[r] EXCEPT !.at = "views"])
    /\ UNCHANGED <<tree, panel>>

(* Any query may fail, which ends Catalog.                                 *)
CatalogFails(r) ==
    /\ InCatalog(r)
    /\ ReadTurns(r, [IdleRead EXCEPT !.at = "failed"])
    /\ UNCHANGED <<tree, panel>>

(* NewSidebarViewport, later updateGraphMsg: the tree is replaced.         *)
UpdateGraph(r) ==
    /\ Reading(r, "answered")
    /\ ReadTurns(r, [read[r] EXCEPT !.at = "done"])
    /\ tree' = r
    /\ UNCHANGED panel

(* updateGraphErrMsg: a notice over the tabs; at the start, dblab ends.    *)
UpdateGraphErr(r) ==
    /\ Started
    /\ Reading(r, "failed")
    /\ ReadTurns(r, [read[r] EXCEPT !.at = "done"])
    /\ panel' = None
    /\ UNCHANGED tree
-----------------------------------------------------------------------------
(* The tabs of a relation.                                                 *)

Requested(m, at) == meta[m].at = at
MetaTurns(m, next) ==
    /\ meta' = [meta EXCEPT ![m] = next]
    /\ UNCHANGED <<driver, pinned, db, changes, read, tree>>

UnderWay == {m \in Metas : meta[m].at \in {"reading", "answered", "failed"}}

(* enter on a table or a view, selectTableMsg or selectViewMsg, and the    *)
(* command that reads its tabs.                                            *)
Enter(m, node) ==
    /\ Started
    /\ Requested(m, "idle")
    /\ MetaTurns(m, [IdleMeta EXCEPT !.at = "reading", !.node = node,
                        !.left = IF node.type = "table" THEN TableTabs ELSE ViewTabs])
    /\ last' = m
    /\ raced' = IF UnderWay = {} THEN raced ELSE raced \cup UnderWay \cup {m}
    /\ UNCHANGED panel

(* One query of Metadata or ViewMetadata, which an error ends.             *)
ReadTab(m) ==
    /\ Requested(m, "reading")
    /\ LET tab == Head(meta[m].left)
           rest == Tail(meta[m].left)
           answer == TabOf(driver, db, tab, meta[m].node)
       IN  MetaTurns(m, IF answer.ok
                        THEN [meta[m] EXCEPT !.tabs = Append(@, <<tab, answer.about>>),
                                  !.left = rest,
                                  !.at = IF rest = <<>> THEN "answered" ELSE @]
                        ELSE [IdleMeta EXCEPT !.at = "failed"])
    /\ UNCHANGED <<panel, last, raced>>

TabFails(m) ==
    /\ Requested(m, "reading")
    /\ MetaTurns(m, [IdleMeta EXCEPT !.at = "failed"])
    /\ UNCHANGED <<panel, last, raced>>

(* metadataSuccessMsg                                                      *)
ShowTabs(m) ==
    /\ Requested(m, "answered")
    /\ MetaTurns(m, [meta[m] EXCEPT !.at = "done"])
    /\ panel' = m
    /\ UNCHANGED <<last, raced>>

(* Mutant of ShowError: the message is handled by nothing.                 *)
ErrorIgnored(m) ==
    /\ Requested(m, "failed")
    /\ MetaTurns(m, [meta[m] EXCEPT !.at = "done"])
    /\ UNCHANGED <<panel, last, raced>>

(* metadataErrMsg                                                          *)
ShowError(m) ==
    /\ Requested(m, "failed")
    /\ MetaTurns(m, [meta[m] EXCEPT !.at = "done"])
    /\ panel' = None
    /\ UNCHANGED <<last, raced>>
-----------------------------------------------------------------------------
Next ==
    \/ \E p \in Places, kind \in Kinds : Alter(p, kind)
    \/ \E r \in Reads :
        \/ Reload(r) \/ ReadSchemas(r) \/ ReadTables(r) \/ ReadViews(r)
        \/ CatalogFails(r) \/ UpdateGraph(r) \/ UpdateGraphErr(r)
    \/ \E m \in Metas :
        \/ \E node \in IF Started THEN read[tree].nodes ELSE {} : Enter(m, node)
        \/ ReadTab(m) \/ TabFails(m) \/ ShowTabs(m) \/ ShowError(m)

Spec == Init /\ [][Next]_vars
-----------------------------------------------------------------------------
(* Type invariant.                                                         *)
ReadingAt == {"idle", "schemas", "tables", "views", "answered", "failed", "done"}
AskingAt == {"idle", "reading", "answered", "failed", "done"}

TypeOK ==
    /\ driver \in Drivers
    /\ pinned \in Schemas \cup {NoSchema}
    /\ db \in [Places -> Kinds]
    /\ changes \in 0..MaxChanges
    /\ read \in [Reads -> [at : ReadingAt, schema : Schemas, todo : SUBSET Schemas,
                           nodes : SUBSET Nodes, always : SUBSET Nodes,
                           ever : SUBSET Nodes]]
    /\ tree \in Reads \cup {None}
    /\ \A m \in Metas : meta[m].at \in AskingAt /\ meta[m].node \in Nodes \cup {NoNode}
    /\ panel \in Metas \cup {None}
    /\ last \in Metas \cup {None}
    /\ raced \subseteq Metas

(* The schemas a tree is about: the pinned one, the database of the        *)
(* connection where there are none, else all; of Oracle's only those that  *)
(* had a table all the while.                                              *)
Covered(r) ==
    IF pinned # NoSchema THEN {pinned}
    ELSE CASE ~HasSchemas(driver) -> {Default}
           [] driver = "oracle" -> {f.schema : f \in {g \in read[r].always : g.type = "table"}}
           [] OTHER -> Schemas

(* A view listed by PostgreSQL and MySQL among the tables, too.            *)
Stands(node, f) ==
    /\ PlaceOf(node) = PlaceOf(f)
    /\ node.type = f.type \/ (node.type = "table" /\ driver \in {"postgres", "mysql"})

(* The sidebar's tree is put together from one query after another, with   *)
(* no transaction around them (client.Catalog): whatever existed all the   *)
(* while is in it, under its own schema and as what it is, and whatever is *)
(* in it existed at some time of the read.  An error on the way must not   *)
(* leave a tree with half of its nodes.                                    *)
TreeFaithful ==
    tree # None =>
        /\ \A f \in read[tree].always : f.schema \in Covered(tree) => f \in read[tree].nodes
        /\ \A node \in read[tree].nodes : \E f \in read[tree].ever : Stands(node, f)

(* A node that its tabs can find: its name is what an identifier without   *)
(* quotes comes to, and its schema the default one where none is passed.   *)
Addressable(node) ==
    /\ driver \in {"postgres", "oracle"} => Fold[node.name] = node.name
    /\ driver \notin {"postgres", "oracle"} => node.schema = Default

(* The tabs that are searched by the name of the relation alone.           *)
ByName(tab) == \/ driver = "mysql" /\ tab = "Constraints"
               \/ driver = "sqlserver" /\ tab \in {"Constraints", "Indexes"}

(* The tabs of the result set come from statements of their own, each with *)
(* its own idea of what a name means: those shown together describe the    *)
(* selected relation, not a homonym of another schema, and while nothing   *)
(* changes its rows and its columns are there (sidebar.go's schema of      *)
(* selectTableMsg, the queries of pkg/client).                             *)
TabsDescribeSelected ==
    \A m \in Metas :
        (meta[m].at \in {"answered", "done"} /\ meta[m].left = <<>> /\ meta[m].node # NoNode
         /\ Addressable(meta[m].node)) =>
            LET own == PlaceOf(meta[m].node)
            IN  \A i \in 1..Len(meta[m].tabs) :
                    LET tab == meta[m].tabs[i][1]
                        about == meta[m].tabs[i][2]
                    IN  /\ about \subseteq IF ByName(tab) THEN AnySchema(own.name) ELSE {own}
                        /\ meta[m].calm /\ tab \in {"Data", "Columns"} => about = {own}

(* What the result set shows is never of an earlier request than the last  *)
(* one, once that is answered, unless it overlapped another request:       *)
(* a failed one takes the tabs of its forerunner off the screen            *)
(* (resultset.go's metadataErrMsg).                                        *)
ShowsLastSelected ==
    (last # None /\ last \notin raced /\ meta[last].at = "done") =>
        panel \in {last, None}
=============================================================================
