------------------------------- MODULE Plans --------------------------------
(***************************************************************************)
(* Statements with a plan directive ("| plan", "| analyze", "| baseline    *)
(* save, diff or list") next to statements without one, as the goroutines  *)
(* of batches run them (pkg/client/plan.go runPlan), about one query of    *)
(* one session.  Any call of the database may fail, because the server     *)
(* refuses or the user cancels.                                            *)
(***************************************************************************)
EXTENDS PlanDiff, PlanGuard, Baselines, Functions

CONSTANTS
    Goroutines,
    Conns,          \* connections of the pool
    None,           \* no name, no connection
    Documents,      \* by dialect and mode, the plans the planner may choose
    Statements,     \* by dialect, the statements: their verb, the calls the
                    \*   regular expressions of the dialect see, what they do
    MaxStatements   \* bound, by dialect: statements executed

VARIABLES
    dialect,    \* of the session
    job,        \* what each goroutine does, or the answer it gave last
    asked,      \* statements executed so far
    free,       \* connections in the pool
    showplan,   \* connections with SHOWPLAN_XML on
    open,       \* goroutines with an open transaction
    effects,    \* history: what directives did to the database, by whom
    spoilt,     \* history: connections that went back with SHOWPLAN_XML on
    calm        \* history: goroutines whose diff saw no baseline replaced

vars == <<baselineVars, dialect, job, asked, free, showplan, open, effects,
          spoilt, calm>>

Dialects == {"postgresql", "mysql", "oracle", "sqlserver", "sqlite"}

(* Rows have a depth, or ids in SQLite, which prints a row below its       *)
(* parent.  Oracle prints one tree, each row at most one deeper than the   *)
(* last.                                                                   *)
ASSUME SomeDocuments ==
    /\ DOMAIN Documents = Dialects \X {"EXPLAIN"}
            \union {d \in Dialects : AnalyzeSupported(d)} \X {"EXPLAIN ANALYZE"}
    /\ \A key \in DOMAIN Documents : \A rows \in Documents[key] :
          /\ Len(rows) \in Nat \ {0} /\ DOMAIN rows = 1..Len(rows)
          /\ key[1] # "sqlite" => \A i \in DOMAIN rows : rows[i].depth \in Nat
          /\ key[1] = "sqlite" => \A i, j \in DOMAIN rows :
                rows[j].id = rows[i].parent => j < i
          /\ key[1] = "oracle" =>
                /\ rows[1].depth = 0
                /\ \A i \in 2..Len(rows) :
                      rows[i].depth \in 1..(rows[i - 1].depth + 1)

(* What executing a statement does is the database's affair, not a thing   *)
(* its text shows: "lasting" is what a rollback does not undo (a sequence, *)
(* remote work, an autonomous transaction), by a call, a trigger, a view.  *)
(* The regular expressions look for no call in MySQL.                      *)
ASSUME CallsSeen ==
    \A t \in Statements["mysql"] : t.calls \subseteq {"function"}

Read == [verb |-> "SELECT", calls |-> {}, does |-> {}]
NoPlan == [node |-> <<>>, parent |-> <<>>, root |-> 0, mode |-> "",
           raw |-> <<>>, from |-> <<>>]

(* The directives of trimPlanDirective; "run" has none.  A name goes with  *)
(* save and diff only.                                                     *)
Directives ==
    [kind : {"run", "plan", "analyze", "list"}, name : {None}]
        \union [kind : {"save", "diff"}, name : Names \union {None}]

Mode(d) == IF d.kind = "analyze" THEN "EXPLAIN ANALYZE" ELSE "EXPLAIN"

(* at is where the goroutine is; "answered" with a plan, a baseline to     *)
(* compare it with, or neither; conn is the connection it holds or held.   *)
IdleJob == [at |-> "answered", dir |-> [kind |-> "none", name |-> None],
            text |-> Read, plan |-> NoPlan, base |-> Absent, conn |-> None,
            picked |-> None, ran |-> TRUE, floor |-> 0]

Init ==
    /\ BaselinesInit
    /\ dialect \in Dialects
    /\ job = [g \in Goroutines |-> IdleJob]
    /\ asked = 0 /\ free = Conns /\ showplan = {} /\ open = {}
    /\ effects = {} /\ spoilt = {} /\ calm = {}

At(g, place) == job[g].at = place

(* An error ends the directive, as does an answer nothing is kept of.      *)
Ended(j) == [IdleJob EXCEPT !.dir = j.dir]
Fails(g) == job' = [job EXCEPT ![g] = Ended(job[g])]

(* The newest baseline a diff can be about at this moment.                 *)
NewestFor(d) ==
    LET own == {b \in Listed :
                    d.name = None \/ Sanitize[b.name] = Sanitize[d.name]}
        times == {b.created : b \in own} \union {0}
    IN  CHOOSE t \in times : \A u \in times : u <= t
-----------------------------------------------------------------------------
(* A list is answered from the files; a statement Guard blocks fails.      *)
Submit(g) ==
    /\ At(g, "answered") /\ asked < MaxStatements[dialect]
    /\ \E d \in Directives : \E t \in Statements[dialect] :
        /\ d.kind \in {"run", "analyze"} \/ t = Read
        /\ \/ /\ \/ d.kind = "list"
                 \/ d.kind = "analyze" /\ Guard(dialect, t, TRUE) = "BLOCK"
              /\ job' = [job EXCEPT ![g] = [IdleJob EXCEPT !.dir = d]]
           \/ /\ d.kind # "list"
              /\ d.kind = "analyze" => Guard(dialect, t, TRUE) # "BLOCK"
              /\ job' = [job EXCEPT ![g] =
                    [IdleJob EXCEPT !.dir = d, !.text = t,
                        !.at = IF d.kind = "run" THEN "run" ELSE "explain",
                        !.floor = IF d.kind = "diff"
                                  THEN NewestFor(d) ELSE 0]]
        /\ calm' = IF d.kind = "diff" THEN calm \union {g} ELSE calm \ {g}
    /\ asked' = asked + 1
    /\ UNCHANGED <<baselineVars, dialect, free, showplan, open, effects, spoilt>>

(* A statement without directive runs on any connection of the pool; with  *)
(* SHOWPLAN_XML on, the server plans it instead.                           *)
Run(g) ==
    /\ At(g, "run")
    /\ \/ Fails(g)
       \/ \E c \in free :
             job' = [job EXCEPT ![g].at = "answered", ![g].conn = c,
                                ![g].ran = c \notin showplan]
    /\ UNCHANGED <<baselineVars, dialect, asked, free, showplan, open, effects,
                   spoilt, calm>>

(* fillPlanResult goes on with the plan.                                   *)
WithPlan(j, plan) ==
    [j EXCEPT !.plan = plan,
              !.at = CASE j.dir.kind = "save" -> "save"
                       [] j.dir.kind = "diff" -> "load"
                       [] OTHER -> "answered"]

(* What the planner may answer, read and parsed.                           *)
Parsed == [key \in DOMAIN Documents |->
              {Parse(key[1], key[2], rows) : rows \in Documents[key]}]
Answers(mode) == Parsed[<<dialect, mode>>]

(* PostgreSQL, MySQL and SQLite answer one query.                          *)
Explain(g) ==
    /\ At(g, "explain") /\ Mode(job[g].dir) = "EXPLAIN"
    /\ dialect \in {"postgresql", "mysql", "sqlite"}
    /\ \/ Fails(g)
       \/ \E plan \in Answers("EXPLAIN") :
             job' = [job EXCEPT ![g] = WithPlan(@, plan)]
    /\ UNCHANGED <<baselineVars, dialect, asked, free, showplan, open, effects,
                   spoilt, calm>>

(* Oracle writes the plan to a table and reads it, on one connection, which*)
(* nobody else has in between: after the first step it can only fail.      *)
OracleExplain(g) ==
    /\ At(g, "explain") /\ dialect = "oracle" /\ free # {}
    /\ \/ Fails(g)
       \/ \E plan \in Answers("EXPLAIN") :
             job' = [job EXCEPT ![g] = WithPlan(@, plan)]
    /\ UNCHANGED <<baselineVars, dialect, asked, free, showplan, open, effects,
                   spoilt, calm>>

Done(g) ==
    {[by |-> g, text |-> job[g].text, kind |-> k] : k \in job[g].text.does}

(* runAnalyzeIsolated begins a transaction, executes the statement in it   *)
(* and rolls it back whether it answered, timed out or failed.             *)
AnalyzeBegins(g) ==
    /\ At(g, "explain") /\ Mode(job[g].dir) = "EXPLAIN ANALYZE"
    /\ \/ Fails(g) /\ UNCHANGED <<open, effects>>
       \/ /\ job' = [job EXCEPT ![g].at = "tx"]
          /\ open' = open \union {g}
          /\ effects' = effects \union Done(g)
    /\ UNCHANGED <<baselineVars, dialect, asked, free, showplan, spoilt, calm>>

Rollback(g) ==
    /\ open' = open \ {g}
    /\ effects' = {e \in effects : e.by # g \/ e.kind = "lasting"}

AnalyzeEnds(g) ==
    /\ At(g, "tx")
    /\ \/ Fails(g)
       \/ \E plan \in Answers("EXPLAIN ANALYZE") :
             job' = [job EXCEPT ![g] = WithPlan(@, plan)]
    /\ Rollback(g)
    /\ UNCHANGED <<baselineVars, dialect, asked, free, showplan, spoilt, calm>>
-----------------------------------------------------------------------------
(* runSQLServerExplain pins a connection.  When SHOWPLAN_XML ON fails, the *)
(* deferred OFF is not registered yet, although the server may have        *)
(* executed it, as when the answer was cancelled.                          *)
ShowplanOn(g) ==
    /\ At(g, "explain") /\ dialect = "sqlserver"
    /\ \E c \in free :
        \/ /\ job' = [job EXCEPT ![g].at = "pinned", ![g].conn = c]
           /\ free' = free \ {c} /\ showplan' = showplan \union {c}
           /\ UNCHANGED spoilt
        \/ /\ Fails(g) /\ UNCHANGED free
           /\ \/ UNCHANGED <<showplan, spoilt>>
              \/ showplan' = showplan \union {c} /\ spoilt' = spoilt \union {c}
    /\ UNCHANGED <<baselineVars, dialect, asked, open, effects, calm>>

ShowplanRead(g) ==
    /\ At(g, "pinned")
    /\ \/ job' = [job EXCEPT ![g].at = "off"]
       \/ \E plan \in Answers("EXPLAIN") :
             job' = [job EXCEPT ![g].at = "off", ![g].plan = plan]
    /\ UNCHANGED <<baselineVars, dialect, asked, free, showplan, open, effects,
                   spoilt, calm>>

(* Mutant of ShowplanOff: OFF is not deferred, a failing query skips it.   *)
ShowplanOffWhenPlanned(g) ==
    /\ At(g, "off")
    /\ \/ job[g].plan # NoPlan /\ showplan' = showplan \ {job[g].conn}
       \/ job[g].plan = NoPlan /\ UNCHANGED showplan
    /\ free' = free \union {job[g].conn}
    /\ job' = [job EXCEPT ![g] = IF @.plan = NoPlan THEN Ended(@)
                                 ELSE WithPlan(@, @.plan)]
    /\ UNCHANGED <<baselineVars, dialect, asked, open, effects, calm, spoilt>>

(* The deferred calls: OFF, whose error is dropped, and the connection     *)
(* back to the pool.                                                       *)
ShowplanOff(g) ==
    /\ At(g, "off")
    /\ \/ showplan' = showplan \ {job[g].conn} /\ UNCHANGED spoilt
       \/ spoilt' = spoilt \union {job[g].conn} /\ UNCHANGED showplan
    /\ free' = free \union {job[g].conn}
    /\ job' = [job EXCEPT ![g] = IF @.plan = NoPlan THEN Ended(@)
                                 ELSE WithPlan(@, @.plan)]
    /\ UNCHANGED <<baselineVars, dialect, asked, open, effects, calm>>
-----------------------------------------------------------------------------
(* The diffs under way stay calm unless a baseline is replaced.            *)
Undisturbed ==
    IF \E f \in Files : Decoded(f) /\ files'[f] # files[f] THEN {} ELSE calm

(* SaveBaseline: without a name the time is one.                           *)
SaveBegins(g) ==
    /\ At(g, "save")
    /\ \/ Fails(g) /\ UNCHANGED <<baselineVars, calm>>
       \/ /\ \/ now' = now
             \/ now + 1 \in Seconds /\ now' = now + 1
          /\ \E b \in {Baseline(IF job[g].dir.name = None THEN now'
                                ELSE job[g].dir.name,
                                created + 1, job[g].plan)} :
                /\ Truncate(b)
                /\ job' = [job EXCEPT ![g].at = "write", ![g].base = b]
          /\ calm' = Undisturbed
    /\ UNCHANGED <<dialect, asked, free, showplan, open, effects, spoilt>>

SaveEnds(g) ==
    /\ At(g, "write")
    /\ \/ Write(job[g].base)
       \/ UNCHANGED baselineVars       \* the write fails
    /\ job' = [job EXCEPT ![g] = Ended(@)]
    /\ calm' = Undisturbed
    /\ UNCHANGED <<dialect, asked, free, showplan, open, effects, spoilt>>

(* LatestBaseline lists the directory and loads the newest by its name.    *)
Latest(g) ==
    /\ At(g, "load") /\ job[g].dir.name = None /\ job[g].picked = None
    /\ \/ Listed = {} /\ Fails(g)
       \/ /\ Listed # {}
          /\ job' = [job EXCEPT ![g].picked = Newest(Listed).name]
    /\ UNCHANGED <<baselineVars, dialect, asked, free, showplan, open, effects,
                   spoilt, calm>>

LoadBaseline(g, name) ==
    /\ \/ ~Decoded(Sanitize[name]) /\ Fails(g)
       \/ /\ Decoded(Sanitize[name])
          /\ job' = [job EXCEPT ![g].at = "answered",
                                ![g].base = files[Sanitize[name]]]
    /\ UNCHANGED <<baselineVars, dialect, asked, free, showplan, open, effects,
                   spoilt, calm>>

Load(g) ==
    /\ At(g, "load")
    /\ \/ job[g].dir.name # None /\ LoadBaseline(g, job[g].dir.name)
       \/ job[g].picked # None /\ LoadBaseline(g, job[g].picked)

Next ==
    \E g \in Goroutines :
        \/ Submit(g) \/ Run(g) \/ Explain(g) \/ OracleExplain(g)
        \/ AnalyzeBegins(g) \/ AnalyzeEnds(g)
        \/ ShowplanOn(g) \/ ShowplanRead(g) \/ ShowplanOff(g)
        \/ SaveBegins(g) \/ SaveEnds(g) \/ Latest(g) \/ Load(g)

Spec == Init /\ [][Next]_vars
-----------------------------------------------------------------------------
Answered(g, kind) == At(g, "answered") /\ job[g].dir.kind = kind

(* The plan of a directive, and that of the baseline it is compared with.  *)
Compared == {g \in Goroutines : Answered(g, "diff") /\ job[g].base # Absent}
Old(g) == job[g].base.plan
New(g) == job[g].plan

(* The parent a row names: in SQLite by id, else by its depth.             *)
Named(rows, i) ==
    IF dialect = "sqlite"
    THEN Referred(rows)[i] ELSE Enclosing(rows, i)

(* The rows a plan shows.  MySQL's JSON may lose some of any shape.        *)
Shows(t) ==
    LET shown == {t.from[k] : k \in DOMAIN t.from}
    IN  CASE dialect = "postgresql" ->
                shown = {i \in DOMAIN t.raw :
                            \A j \in 2..i : t.raw[j].depth > t.raw[1].depth}
          [] dialect = "mysql" /\ t.mode = "EXPLAIN" -> shown \subseteq DOMAIN t.raw
          [] OTHER -> shown = DOMAIN t.raw

(* A node is below that of the row its own row belongs to, whichever of    *)
(* the stacks, references and descents of the parsers put it there, and    *)
(* one root is above all of them.  No row is lost but in JSON, where       *)
(* PostgreSQL's parser shows the whole of the first plan and no other, and *)
(* MySQL's never a row without the ones around it.                         *)
RowsKept ==
    \A g \in Goroutines : job[g].plan # NoPlan =>
        LET t == New(g)
        IN  /\ Shows(t)
            /\ \A k \in DOMAIN t.from :
                  \/ /\ t.parent[k] \in DOMAIN t.from
                     /\ t.from[t.parent[k]] = Named(t.raw, t.from[k])
                  \/ /\ Named(t.raw, t.from[k]) = 0
                     /\ t.parent[k] \in {0, t.root}
            /\ {k \in DOMAIN t.node : t.parent[k] = 0} = {t.root}

(* A diff accounts for every node of both plans exactly once, as kept,     *)
(* added or removed, and compares nodes only below nodes it compares.      *)
AlignedOnce ==
    \A g \in Compared :
        LET pairs == Alignment(Old(g), New(g))
            Once(t, side) ==
                \A i \in DOMAIN t.node :
                    Cardinality({p \in pairs : p[side] = i}) = 1
        IN  /\ Once(Old(g), 1) /\ Once(New(g), 2)
            /\ \A p \in pairs :
                  p[1] # 0 /\ p[2] # 0 /\ p # <<Old(g).root, New(g).root>> =>
                      <<Old(g).parent[p[1]], New(g).parent[p[2]]>> \in pairs

(* One tree is the other but for the order of children: its nodes are      *)
(* those of the other, in another order, below the same parents.           *)
Reordered(s, t) ==
    \E to \in Bijection(DOMAIN s.node, DOMAIN t.node) :
        /\ \A i \in DOMAIN to : t.node[to[i]] = s.node[i]
        /\ \A i, j \in DOMAIN to : s.parent[j] = i <=> t.parent[to[j]] = to[i]

WithoutObjects(t) ==
    [node   |-> [i \in DOMAIN t.node |-> [t.node[i] EXCEPT !.object = ""]],
     parent |-> t.parent]

TellsApart(t) ==
    \A i, j \in DOMAIN t.node :
        i # j /\ t.parent[i] = t.parent[j] =>
            Signature(t.node[i]) # Signature(t.node[j])

(* "Reordering neither hides real changes nor produces spurious ones"      *)
(* (Diff): plans that differ in the order of children only have no change, *)
(* if siblings can be told apart by operator and object; and plans without *)
(* a change differ in order and in objects only.                           *)
ReorderingIsQuiet ==
    \A g \in Compared :
        LET quiet == Diff(Old(g), New(g)) = {}
        IN  /\ TellsApart(New(g)) /\ Reordered(Old(g), New(g)) => quiet
            /\ quiet => Reordered(WithoutObjects(Old(g)),
                                  WithoutObjects(New(g)))

(* A diff compares with a baseline of the name it was given, and with none *)
(* older than the newest one there was when it was asked, unless a save    *)
(* replaced a baseline meanwhile.                                          *)
ComparesWithNewest ==
    \A g \in Compared :
        LET d == job[g].dir
        IN  /\ d.name # None =>
                    Sanitize[job[g].base.name] = Sanitize[d.name]
            /\ g \in calm => job[g].base.created >= job[g].floor

(* What the first word or the calls of a statement show.                   *)
ShowsEffects(t) ==
    \/ t.verb \in {"INSERT", "UPDATE", "DELETE"}
    \/ t.calls \intersect {"sequence", "dblink"} # {}

(* What EXPLAIN ANALYZE did to the database is gone when it has answered,  *)
(* however it ended, and no answer leaves its transaction open; what the   *)
(* rollback cannot undo was never done by a statement whose first word     *)
(* writes or that calls a sequence or dblink.  A WITH that writes, another *)
(* function or a view may leave something: Guard does not see it.          *)
AnalyzeUndone ==
    /\ \A e \in effects :
          IF e.kind = "lasting" THEN ~ShowsEffects(e.text) ELSE e.by \in open
    /\ \A g \in open : At(g, "tx")

(* A statement without directive that succeeds was executed, not planned,  *)
(* unless it got a connection whose SHOWPLAN_XML dblab failed to switch    *)
(* off or was cancelled switching on.                                      *)
RunsForReal ==
    \A g \in Goroutines : Answered(g, "run") =>
        job[g].ran \/ job[g].conn \in spoilt

=============================================================================
