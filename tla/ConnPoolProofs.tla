-------------------------- MODULE ConnPoolProofs ---------------------------
(***************************************************************************)
(* Proofs about ConnPool for any number of connections, goroutines and     *)
(* idle connections: its types, and which statements run with the settings *)
(* of the session.                                                         *)
(***************************************************************************)
EXTENDS ConnPool, FiniteSetTheorems, TLAPS

Settings == [readOnly : BOOLEAN, schema : Schemas]

LEMMA TaskKinds ==
    /\ Free # Statement
    /\ \A s \in Schemas : /\ Use(s) # Free /\ Use(s) # Statement
                          /\ Tell(s) # Free /\ Tell(s) # Statement
                          /\ Use(s) \in Picks /\ Tell(s) \in Picks
    /\ \A s, t \in Schemas : /\ Use(s) # Tell(t)
                             /\ Use(s) = Use(t) => s = t
                             /\ Tell(s) = Tell(t) => s = t
    /\ Free \notin Picks /\ Statement \notin Picks
    /\ Tasks = {Free, Statement} \cup Picks
    /\ \A t \in Picks : \E s \in Schemas : t = Use(s) \/ t = Tell(s)
BY DEF Free, Statement, Use, Tell, Tasks, Picks

LEMMA NoneIsNoConn == None \notin Conns
BY PoolAssumption DEF None

(* What the session's steps amount to.                                     *)
Takes(w, t) ==
    /\ Acquire(w, t)
    /\ \/ t = Statement
       \/ Cardinality(Picking) < MaxPicks /\ \E s \in Schemas : t = Use(s)

GivesBack(w, from, to) ==
    /\ Turn(w, from, to) /\ UNCHANGED <<boot, schema, opened>>
    /\ conn' = [conn EXCEPT ![w] = None]
    /\ idle' \in {idle, idle \cup {conn[w]}}

(* Ends or breaks, without changing a setting.                             *)
Leaves(w, from) == GivesBack(w, from, Free) /\ UNCHANGED setting

LEMMA Steps ==
    ASSUME [Next]_vars
    PROVE  \/ SetUpSchema \/ SetUpReadOnly \/ UNCHANGED vars
           \/ \E w \in Workers :
                \/ \E t \in Tasks : Takes(w, t)
                \/ Leaves(w, Statement)
                \/ \E s \in Schemas :
                    \/ Leaves(w, Use(s))
                    \/ /\ GivesBack(w, Use(s), Tell(s))
                       /\ setting' = [setting EXCEPT ![conn[w]].schema = s]
                    \/ SchemaPicked(w, s)
<1> USE TaskKinds DEF Leaves, GivesBack, Release, Takes
<1>1. ASSUME NEW w \in Workers, RunStatement(w) PROVE Takes(w, Statement)
  BY <1>1 DEF RunStatement
<1>2. ASSUME NEW w \in Workers, EndStatement(w) \/ Break(w) PROVE Leaves(w, Statement)
  BY <1>2 DEF EndStatement, Break
<1>3. ASSUME NEW w \in Workers, NEW s \in Schemas, PickSchema(w, s) PROVE Takes(w, Use(s))
  BY <1>3 DEF PickSchema
<1>4. ASSUME NEW w \in Workers, NEW s \in Schemas, PickFails(w, s) PROVE Leaves(w, Use(s))
  BY <1>4 DEF PickFails
<1>5. ASSUME NEW w \in Workers, NEW s \in Schemas, SchemaSet(w, s)
      PROVE  /\ GivesBack(w, Use(s), Tell(s))
             /\ setting' = [setting EXCEPT ![conn[w]].schema = s]
  BY <1>5 DEF SchemaSet
<1> HIDE DEF Leaves, GivesBack, Release, Takes
<1> QED
  BY <1>1, <1>2, <1>3, <1>4, <1>5 DEF Next
-----------------------------------------------------------------------------
(* Who has a connection: the goroutines that execute something, each its   *)
(* own, and the pool the others.                                           *)
Waits(t) == t = Free \/ \E s \in Schemas : t = Tell(s)

Holding ==
    /\ \A w \in Workers : conn[w] = None <=> Waits(task[w])
    /\ \A w \in Workers : conn[w] \notin idle
    /\ \A v, w \in Workers : conn[v] = conn[w] /\ conn[v] # None => v = w

TypeInv == TypeOK /\ Holding

LEMMA WaitsWhen ==
    /\ Waits(Free) /\ ~Waits(Statement)
    /\ \A s \in Schemas : Waits(Tell(s)) /\ ~Waits(Use(s))
BY TaskKinds DEF Waits

LEMMA SettingType ==
    ASSUME TypeOK, NEW c \in Conns
    PROVE  SettingOf(c) \in Settings
BY PoolAssumption DEF TypeOK, SettingOf, Fresh, Settings

LEMMA HandedType ==
    ASSUME TypeOK, NEW c \in Handed
    PROVE  /\ c \in Conns
           /\ idle # {} => c \in idle
           /\ idle = {} => \A w \in Workers : conn[w] # c
BY NoneIsNoConn DEF TypeOK, Handed, Used

LEMMA TypeStep ==
    ASSUME TypeInv, [Next]_vars
    PROVE  TypeInv'
<1> USE PoolAssumption, TaskKinds, WaitsWhen, NoneIsNoConn DEF TypeInv, TypeOK, Holding
<1>1. CASE UNCHANGED vars
  BY <1>1 DEF vars, Waits
<1>2. CASE SetUpSchema
  <2> PICK c \in Handed :
        /\ schema' = IF Pinned = NoSchema THEN SettingOf(c).schema ELSE Pinned
        /\ setting' = [setting EXCEPT ![c] = [SettingOf(c) EXCEPT !.schema = schema']]
        /\ idle' = idle \cup {c}
    BY <1>2 DEF SetUpSchema
  <2>1. c \in Conns /\ \A w \in Workers : conn[w] # c
    BY HandedType
  <2>2. SettingOf(c) \in Settings /\ schema' \in Schemas
    BY <2>1, SettingType DEF Settings
  <2>3. TypeOK'
    BY <1>2, <2>1, <2>2 DEF SetUpSchema, CountOpened, Settings
  <2> QED
    BY <1>2, <2>1, <2>3 DEF SetUpSchema
<1>3. CASE SetUpReadOnly
  <2> PICK c \in Handed :
        /\ setting' = [setting EXCEPT ![c] = [SettingOf(c) EXCEPT !.readOnly = ReadOnly]]
        /\ idle' = idle \cup {c}
    BY <1>3 DEF SetUpReadOnly
  <2>1. c \in Conns /\ \A w \in Workers : conn[w] # c
    BY HandedType
  <2>2. SettingOf(c) \in Settings
    BY <2>1, SettingType
  <2>3. TypeOK'
    BY <1>3, <2>1, <2>2 DEF SetUpReadOnly, CountOpened, Settings
  <2> QED
    BY <1>3, <2>1, <2>3 DEF SetUpReadOnly
<1>4. ASSUME NEW w \in Workers, NEW t \in Tasks, Takes(w, t) PROVE TypeInv'
  <2> PICK c \in Handed :
        /\ conn' = [conn EXCEPT ![w] = c]
        /\ setting' = [setting EXCEPT ![c] = SettingOf(c)]
        /\ idle' = idle \ {c}
    BY <1>4 DEF Takes, Acquire
  <2>1. c \in Conns /\ \A v \in Workers : conn[v] # c
    BY HandedType
  <2>2. SettingOf(c) \in Settings
    BY <2>1, SettingType
  <2>3. task' = [task EXCEPT ![w] = t] /\ ~Waits(t)
    BY <1>4 DEF Takes, Acquire
  <2>4. TypeOK'
    BY <1>4, <2>1, <2>2, <2>3 DEF Takes, Acquire, CountOpened, Settings
  <2>5. Holding'
    BY <2>1, <2>3 DEF Waits
  <2> QED
    BY <2>4, <2>5
<1>5. ASSUME NEW w \in Workers, NEW from \in Tasks, NEW to \in Tasks, Waits(to), ~Waits(from),
             GivesBack(w, from, to),
             setting' \in [Conns -> Settings]
      PROVE  TypeInv'
  <2>1. conn[w] \in Conns
    BY <1>5 DEF GivesBack, Turn
  <2>2. TypeOK'
    BY <1>5, <2>1 DEF GivesBack, Turn, Settings
  <2>3. Holding'
    BY <1>5, <2>1 DEF GivesBack, Turn, Waits
  <2> QED
    BY <2>2, <2>3
<1>6. ASSUME NEW w \in Workers, NEW s \in Schemas, SchemaPicked(w, s) PROVE TypeInv'
  <2>1. task' = [task EXCEPT ![w] = Free] /\ Waits(task[w]) /\ Waits(task'[w])
    BY <1>6 DEF SchemaPicked, Turn
  <2>2. TypeOK'
    BY <1>6, <2>1 DEF SchemaPicked
  <2>3. \A v \in Workers : Waits(task'[v]) <=> Waits(task[v])
    BY <2>1
  <2>4. Holding'
    BY <1>6, <2>3 DEF SchemaPicked, Waits
  <2> QED
    BY <2>2, <2>4
<1>7. ASSUME NEW w \in Workers, Leaves(w, Statement) PROVE TypeInv'
  BY <1>5, <1>7 DEF Leaves, Settings
<1>8. ASSUME NEW w \in Workers, NEW s \in Schemas, Leaves(w, Use(s)) PROVE TypeInv'
  BY <1>5, <1>8 DEF Leaves, Settings
<1>9. ASSUME NEW w \in Workers, NEW s \in Schemas, GivesBack(w, Use(s), Tell(s)),
             setting' = [setting EXCEPT ![conn[w]].schema = s]
      PROVE  TypeInv'
  <2>1. setting' \in [Conns -> Settings]
    <3>1. \A c \in Conns : [setting[c] EXCEPT !.schema = s] \in Settings /\ setting[c] \in Settings
      BY DEF Settings
    <3>2. setting' = [c \in Conns |-> IF c = conn[w] THEN [setting[c] EXCEPT !.schema = s]
                                      ELSE setting[c]]
      BY <1>9
    <3> QED
      BY <3>1, <3>2
  <2>2. Use(s) \in Tasks /\ Tell(s) \in Tasks
    OBVIOUS
  <2> QED
    BY <1>5, <1>9, <2>1, <2>2
<1> QED
  BY <1>1, <1>2, <1>3, <1>4, <1>6, <1>7, <1>8, <1>9, Steps
-----------------------------------------------------------------------------
(* While the pool has needed one connection, there is one.                 *)
Open(c) == c \in idle \/ \E w \in Workers : conn[w] = c

OneConn ==
    /\ boot = "schema" => opened = 0
    /\ boot = "readonly" => idle # {}
    /\ boot # "schema" => opened # 0
    /\ boot # "ready" => \A w \in Workers : task[w] = Free
    /\ opened = 0 => \A c \in Conns : ~Open(c)
    /\ opened < 2 => \A c, d \in Conns : Open(c) /\ Open(d) => c = d

(* That connection has the settings of the session; a schema being picked  *)
(* is the one that its message will tell.                                  *)
ReadOnlyInv ==
    boot = "ready" /\ opened < 2 =>
        \A c \in Conns : Open(c) => setting[c].readOnly = ReadOnly

Told(s) == \E w \in Workers : task[w] = Tell(s)

SchemaInv ==
    /\ \A v, w \in Workers : task[v] \in Picks /\ task[w] \in Picks => v = w
    /\ boot # "schema" /\ opened < 2 =>
        \A c \in Conns : Open(c) =>
            /\ \A s \in Schemas : Told(s) => setting[c].schema = s
            /\ (\A s \in Schemas : ~Told(s)) => setting[c].schema = schema

LEMMA OneConnStep ==
    ASSUME TypeInv, OneConn, [Next]_vars
    PROVE  OneConn'
<1> USE PoolAssumption, TaskKinds, NoneIsNoConn DEF TypeInv, TypeOK, OneConn
<1>1. CASE UNCHANGED vars
  BY <1>1 DEF vars, Open
<1>2. CASE SetUpSchema \/ SetUpReadOnly
  <2> PICK c \in Handed : idle' = idle \cup {c}
    BY <1>2 DEF SetUpSchema, SetUpReadOnly
  <2>1. c \in Conns /\ (idle # {} => c \in idle)
    BY HandedType
  <2>2. CountOpened /\ UNCHANGED <<task, conn>>
        /\ boot # "ready" /\ boot' # "schema" /\ (boot' = "ready" <=> boot = "readonly")
    BY <1>2 DEF SetUpSchema, SetUpReadOnly
  <2>3. \A w \in Workers : conn[w] = None
    BY <2>2 DEF Holding, Waits
  <2> QED
    BY <2>1, <2>2, <2>3 DEF Open, CountOpened
<1>3. ASSUME NEW w \in Workers, NEW t \in Tasks, Takes(w, t) PROVE OneConn'
  <2> PICK c \in Handed : conn' = [conn EXCEPT ![w] = c] /\ idle' = idle \ {c}
    BY <1>3 DEF Takes, Acquire
  <2>1. c \in Conns /\ (idle # {} => c \in idle)
    BY HandedType
  <2>2. CountOpened /\ boot = "ready" /\ boot' = boot
    BY <1>3 DEF Takes, Acquire
  <2>3. \A d \in Conns : Open(d)' => d = c \/ Open(d)
    BY <2>1 DEF Open
  <2>4. idle # {} => Open(c)
    BY <2>1 DEF Open
  <2> QED
    BY <2>1, <2>2, <2>3, <2>4 DEF CountOpened
<1>4. ASSUME NEW w \in Workers, NEW from, NEW to, ~Waits(from), GivesBack(w, from, to)
      PROVE  OneConn'
  <2>1. boot = "ready"
    BY <1>4, WaitsWhen DEF GivesBack, Turn
  <2>2. conn[w] \in Conns /\ Open(conn[w])
    BY <1>4 DEF GivesBack, Turn, Holding, Open
  <2>3. \A d \in Conns : Open(d)' => Open(d)
    BY <1>4, <2>2 DEF GivesBack, Open
  <2> QED
    BY <1>4, <2>1, <2>3 DEF GivesBack
<1>5. ASSUME NEW w \in Workers, NEW s \in Schemas, SchemaPicked(w, s) PROVE OneConn'
  BY <1>5 DEF SchemaPicked, Turn, Open
<1> QED
  BY <1>1, <1>2, <1>3, <1>4, <1>5, Steps, WaitsWhen DEF Leaves

LEMMA ReadOnlyStep ==
    ASSUME TypeInv, OneConn, ReadOnlyInv, [Next]_vars
    PROVE  ReadOnlyInv'
<1> USE PoolAssumption, TaskKinds, NoneIsNoConn DEF TypeInv, TypeOK, ReadOnlyInv
<1>1. CASE UNCHANGED vars
  BY <1>1 DEF vars, Open
<1>2. CASE SetUpSchema
  BY <1>2 DEF SetUpSchema
<1>3. CASE SetUpReadOnly
  <2> PICK c \in Handed :
        /\ setting' = [setting EXCEPT ![c] = [SettingOf(c) EXCEPT !.readOnly = ReadOnly]]
        /\ idle' = idle \cup {c}
    BY <1>3 DEF SetUpReadOnly
  <2>1. c \in Conns /\ c \in idle /\ SettingOf(c) \in Settings
    BY <1>3, HandedType, SettingType DEF SetUpReadOnly, OneConn
  <2>2. setting'[c].readOnly = ReadOnly
    BY <2>1 DEF Settings
  <2>3. opened' = opened /\ UNCHANGED conn /\ idle' = idle
    BY <1>3, <2>1 DEF SetUpReadOnly, CountOpened
  <2>4. \A d \in Conns : Open(d)' => Open(d)
    BY <2>3 DEF Open
  <2>5. opened < 2 => \A d \in Conns : Open(d)' => d = c
    BY <2>1, <2>4 DEF OneConn, Open
  <2> QED
    BY <2>2, <2>3, <2>5
<1>4. ASSUME NEW w \in Workers, NEW t \in Tasks, Takes(w, t) PROVE ReadOnlyInv'
  <2> PICK c \in Handed :
        /\ conn' = [conn EXCEPT ![w] = c]
        /\ setting' = [setting EXCEPT ![c] = SettingOf(c)]
        /\ idle' = idle \ {c}
    BY <1>4 DEF Takes, Acquire
  <2>1. c \in Conns /\ (idle # {} => c \in idle)
    BY HandedType
  <2>2. CountOpened /\ boot = "ready" /\ opened # 0
    BY <1>4 DEF Takes, Acquire, OneConn
  <2>3. SUFFICES ASSUME opened' < 2, NEW d \in Conns, Open(d)'
                 PROVE  setting'[d].readOnly = ReadOnly
    OBVIOUS
  <2>4. idle # {} /\ opened < 2
    BY <2>2, <2>3 DEF CountOpened
  <2>5. Open(c) /\ c \in idle
    BY <2>1, <2>4 DEF Open
  <2>6. setting' = setting
    BY <2>1, <2>5 DEF SettingOf
  <2>7. Open(d)
    BY <2>3, <2>5 DEF Open
  <2> QED
    BY <2>2, <2>4, <2>6, <2>7
<1>5. ASSUME NEW w \in Workers, NEW from, NEW to, ~Waits(from), GivesBack(w, from, to),
             \A c \in Conns : setting'[c].readOnly = setting[c].readOnly
      PROVE  ReadOnlyInv'
  <2>1. conn[w] \in Conns /\ Open(conn[w])
    BY <1>5 DEF GivesBack, Turn, Holding, Open
  <2>2. \A d \in Conns : Open(d)' => Open(d)
    BY <1>5, <2>1 DEF GivesBack, Open
  <2> QED
    BY <1>5, <2>2 DEF GivesBack
<1>6. ASSUME NEW w \in Workers, NEW s \in Schemas, SchemaPicked(w, s) PROVE ReadOnlyInv'
  BY <1>6 DEF SchemaPicked, Open
<1>7. ASSUME NEW w \in Workers, NEW s \in Schemas, GivesBack(w, Use(s), Tell(s)),
             setting' = [setting EXCEPT ![conn[w]].schema = s]
      PROVE  ReadOnlyInv'
  <2>1. \A c \in Conns : setting'[c].readOnly = setting[c].readOnly
    BY <1>7
  <2> QED
    BY <1>5, <1>7, <2>1, WaitsWhen
<1>8. ASSUME NEW w \in Workers, NEW from, ~Waits(from), Leaves(w, from) PROVE ReadOnlyInv'
  BY <1>5, <1>8 DEF Leaves
<1> QED
  BY <1>1, <1>2, <1>3, <1>4, <1>6, <1>7, <1>8, Steps, WaitsWhen

(* With one pick at most, a second one starts when none is under way.      *)
LEMMA OnePick ==
    ASSUME MaxPicks <= 1, Cardinality(Picking) < MaxPicks
    PROVE  Picking = {}
<1>1. IsFiniteSet(Picking)
  BY PoolAssumption, FS_Subset DEF Picking
<1>2. Cardinality(Picking) = 0
  BY <1>1, FS_CardinalityType, PoolAssumption
<1> QED
  BY <1>1, <1>2, FS_EmptySet

LEMMA SchemaStep ==
    ASSUME MaxPicks <= 1, TypeInv, OneConn, SchemaInv, [Next]_vars
    PROVE  SchemaInv'
<1> USE PoolAssumption, TaskKinds, NoneIsNoConn DEF TypeInv, TypeOK, SchemaInv
<1>1. CASE UNCHANGED vars
  BY <1>1 DEF vars, Open, Told
<1>2. CASE SetUpSchema
  <2> PICK c \in Handed :
        /\ schema' = IF Pinned = NoSchema THEN SettingOf(c).schema ELSE Pinned
        /\ setting' = [setting EXCEPT ![c] = [SettingOf(c) EXCEPT !.schema = schema']]
        /\ idle' = idle \cup {c}
    BY <1>2 DEF SetUpSchema
  <2>1. c \in Conns /\ SettingOf(c) \in Settings
    BY HandedType, SettingType
  <2>2. \A d \in Conns : ~Open(d)
    BY <1>2 DEF SetUpSchema, OneConn
  <2>3. \A d \in Conns : Open(d)' => d = c
    BY <1>2, <2>2 DEF SetUpSchema, Open
  <2>4. setting'[c].schema = schema'
    BY <2>1 DEF Settings
  <2>5. \A w \in Workers : task'[w] = Free
    BY <1>2 DEF SetUpSchema, OneConn
  <2> QED
    BY <2>3, <2>4, <2>5 DEF Told
<1>3. CASE SetUpReadOnly
  <2> PICK c \in Handed :
        /\ setting' = [setting EXCEPT ![c] = [SettingOf(c) EXCEPT !.readOnly = ReadOnly]]
        /\ idle' = idle \cup {c}
    BY <1>3 DEF SetUpReadOnly
  <2>1. c \in Conns /\ c \in idle
    BY <1>3, HandedType DEF SetUpReadOnly, OneConn
  <2>2. \A d \in Conns : setting'[d].schema = setting[d].schema
    BY <2>1 DEF SettingOf
  <2>3. opened' = opened /\ UNCHANGED <<schema, task, conn>> /\ idle' = idle
    BY <1>3, <2>1 DEF SetUpReadOnly, CountOpened
  <2>4. boot = "readonly"
    BY <1>3 DEF SetUpReadOnly
  <2> QED
    BY <2>2, <2>3, <2>4 DEF Open, Told
<1>4. ASSUME NEW w \in Workers, NEW t \in Tasks, Takes(w, t) PROVE SchemaInv'
  <2> PICK c \in Handed :
        /\ conn' = [conn EXCEPT ![w] = c]
        /\ setting' = [setting EXCEPT ![c] = SettingOf(c)]
        /\ idle' = idle \ {c}
    BY <1>4 DEF Takes, Acquire
  <2>1. c \in Conns /\ (idle # {} => c \in idle)
    BY HandedType
  <2>2. /\ CountOpened /\ boot = "ready" /\ opened # 0 /\ schema' = schema
        /\ task' = [task EXCEPT ![w] = t] /\ task[w] = Free
    BY <1>4 DEF Takes, Acquire, OneConn
  <2>3. t \notin Picks \/ Picking = {}
    BY <1>4, OnePick DEF Takes
  <2>4. \A u, v \in Workers : task'[u] \in Picks /\ task'[v] \in Picks => u = v
    BY <2>2, <2>3 DEF Picking
  <2>5. \A s \in Schemas : Told(s)' <=> Told(s)
    <3>1. \A s \in Schemas : t # Tell(s)
      BY <1>4 DEF Takes
    <3> QED
      BY <2>2, <3>1 DEF Told
  <2>6. ASSUME opened' < 2, NEW d \in Conns, Open(d)'
        PROVE  Open(d) /\ setting' = setting /\ opened < 2
    <3>1. idle # {} /\ opened < 2
      BY <2>2, <2>6 DEF CountOpened
    <3>2. Open(c) /\ c \in idle
      BY <2>1, <3>1 DEF Open
    <3>3. setting' = setting
      BY <2>1, <3>2 DEF SettingOf
    <3> QED
      BY <2>6, <3>1, <3>2, <3>3 DEF Open
  <2> QED
    BY <2>2, <2>4, <2>5, <2>6
<1>5. ASSUME NEW w \in Workers, NEW from \in Tasks, ~Waits(from), Leaves(w, from) PROVE SchemaInv'
  <2>1. /\ UNCHANGED <<boot, schema, opened, setting>> /\ task' = [task EXCEPT ![w] = Free]
        /\ task[w] = from
    BY <1>5 DEF Leaves, GivesBack, Turn
  <2>2. conn[w] \in Conns /\ Open(conn[w])
    BY <1>5, <2>1 DEF Holding, Open
  <2>3. \A d \in Conns : Open(d)' => Open(d)
    BY <1>5, <2>2 DEF Leaves, GivesBack, Open
  <2>4. \A s \in Schemas : Told(s)' <=> Told(s)
    BY <1>5, <2>1, WaitsWhen DEF Told
  <2>5. \A v \in Workers : task'[v] \in Picks => task[v] \in Picks
    BY <2>1
  <2> QED
    BY <2>1, <2>3, <2>4, <2>5
<1>6. ASSUME NEW w \in Workers, NEW s \in Schemas, GivesBack(w, Use(s), Tell(s)),
             setting' = [setting EXCEPT ![conn[w]].schema = s]
      PROVE  SchemaInv'
  <2>1. /\ UNCHANGED <<boot, schema, opened>> /\ task' = [task EXCEPT ![w] = Tell(s)]
        /\ task[w] = Use(s)
    BY <1>6 DEF GivesBack, Turn
  <2>2. conn[w] \in Conns /\ Open(conn[w])
    BY <2>1, WaitsWhen DEF Holding, Open
  <2>3. \A d \in Conns : Open(d)' => Open(d)
    BY <1>6, <2>2 DEF GivesBack, Open
  <2>4. \A v \in Workers : v # w => task[v] \notin Picks
    BY <2>1
  <2>5. \A q \in Schemas : Told(q)' <=> q = s
    BY <2>1, <2>4 DEF Told
  <2>6. setting'[conn[w]].schema = s
    BY <1>6, <2>2
  <2>7. opened < 2 => \A d \in Conns : Open(d)' => d = conn[w]
    BY <2>2, <2>3 DEF OneConn
  <2>8. \A v \in Workers : task'[v] \in Picks => v = w
    BY <2>1, <2>4
  <2> QED
    BY <2>1, <2>5, <2>6, <2>7, <2>8
<1>7. ASSUME NEW w \in Workers, NEW s \in Schemas, SchemaPicked(w, s) PROVE SchemaInv'
  <2>1. /\ UNCHANGED <<boot, idle, conn, setting, opened>> /\ task' = [task EXCEPT ![w] = Free]
        /\ task[w] = Tell(s) /\ schema' = s
    BY <1>7 DEF SchemaPicked, Turn
  <2>2. \A v \in Workers : task'[v] \notin Picks
    BY <2>1
  <2>3. Told(s) /\ \A q \in Schemas : ~Told(q)'
    BY <2>1, <2>2 DEF Told
  <2>4. \A d \in Conns : Open(d)' <=> Open(d)
    BY <2>1 DEF Open
  <2> QED
    BY <2>1, <2>2, <2>3, <2>4
<1> QED
  BY <1>1, <1>2, <1>3, <1>4, <1>5, <1>6, <1>7, Steps, WaitsWhen
-----------------------------------------------------------------------------
LEMMA InitInv == Init => TypeInv /\ OneConn /\ ReadOnlyInv /\ SchemaInv
<1> SUFFICES ASSUME Init PROVE TypeInv /\ OneConn /\ ReadOnlyInv /\ SchemaInv
  OBVIOUS
<1> USE PoolAssumption, TaskKinds, WaitsWhen, NoneIsNoConn DEF Init
<1>1. TypeOK
  BY DEF TypeOK, Fresh
<1>2. Holding
  BY DEF Holding
<1>3. OneConn /\ ReadOnlyInv
  BY DEF OneConn, ReadOnlyInv, Open
<1>4. SchemaInv
  BY DEF SchemaInv
<1> QED
  BY <1>1, <1>2, <1>3, <1>4 DEF TypeInv

IInv == TypeInv /\ OneConn /\ ReadOnlyInv

LEMMA Invariance == Spec => []IInv
<1>1. Init => IInv
  BY InitInv DEF IInv
<1>2. IInv /\ [Next]_vars => IInv'
  BY TypeStep, OneConnStep, ReadOnlyStep DEF IInv
<1> QED
  BY <1>1, <1>2, PTL DEF Spec

(* Every variable keeps its type: a goroutine that gives a connection back *)
(* had one.                                                                *)
THEOREM TypeCorrect == Spec => []TypeOK
<1>1. IInv => TypeOK
  BY DEF IInv, TypeInv
<1> QED
  BY <1>1, Invariance, PTL

(* As long as the pool has needed one connection, every statement of a     *)
(* read-only session runs on a read-only connection, for any number of     *)
(* goroutines.                                                             *)
THEOREM ReadOnlyUntilSecond == Spec => []ReadOnlyOnFirst
<1>1. IInv => ReadOnlyOnFirst
  <2> SUFFICES ASSUME IInv, opened < 2, ReadOnly, NEW w \in Workers, task[w] = Statement
               PROVE  setting[conn[w]].readOnly
    BY DEF ReadOnlyOnFirst, ReadOnlyHolds
  <2>1. conn[w] \in Conns
    BY WaitsWhen DEF IInv, TypeInv, TypeOK, Holding
  <2>2. boot = "ready"
    BY TaskKinds DEF IInv, OneConn
  <2> QED
    BY <2>1, <2>2 DEF IInv, ReadOnlyInv, Open
<1> QED
  BY <1>1, Invariance, PTL

(* And for a user who picks one schema at a time, it runs in the schema    *)
(* that the status bar shows.                                              *)
THEOREM SettingsUntilSecond ==
    ASSUME MaxPicks <= 1
    PROVE  Spec => []SettingsOnFirst
<1>1. Init => IInv /\ SchemaInv
  BY InitInv DEF IInv
<1>2. IInv /\ SchemaInv /\ [Next]_vars => SchemaInv'
  BY SchemaStep DEF IInv
<1>3. IInv /\ SchemaInv => SchemaOnFirst
  <2> SUFFICES ASSUME IInv, SchemaInv, opened < 2, Picking = {},
                      NEW w \in Workers, task[w] = Statement
               PROVE  setting[conn[w]].schema = schema
    BY DEF SchemaOnFirst
  <2>1. conn[w] \in Conns
    BY WaitsWhen DEF IInv, TypeInv, TypeOK, Holding
  <2>2. boot = "ready"
    BY TaskKinds DEF IInv, OneConn
  <2>3. \A s \in Schemas : ~Told(s)
    BY TaskKinds DEF Told, Picking
  <2> QED
    BY <2>1, <2>2, <2>3 DEF SchemaInv, Open
<1> QED
  BY <1>1, <1>2, <1>3, Invariance, ReadOnlyUntilSecond, PTL DEF Spec, SettingsOnFirst
=============================================================================
