---------------------------- MODULE PlansProofs -----------------------------
(***************************************************************************)
(* Proofs about Plans for any number of goroutines, connections and        *)
(* statements, whatever the planner answers and whichever call fails: what *)
(* an EXPLAIN ANALYZE did is rolled back, and what lasts was not to be seen*)
(* from its text, a statement is executed and not planned, unless its      *)
(* connection was given back with the planning on, a diff compares with    *)
(* the newest baseline, every node of a plan is in its place, a diff pairs *)
(* every node of both trees once, and the order of children makes no       *)
(* difference to it.                                                       *)
(***************************************************************************)
EXTENDS Plans, FiniteSetTheorems, SequenceTheorems, WellFoundedInduction, TLAPS

Fields == {"at", "dir", "text", "plan", "base", "conn", "picked", "ran", "floor"}

(* A job, where s are the connections spoilt so far.                       *)
JobInv(j, s) ==
    /\ DOMAIN j = Fields
    /\ j.at = "explain" /\ j.dir.kind = "analyze" => ~ShowsEffects(j.text)
    /\ j.dir.kind = "run" => j.at \in {"run", "answered"}
    /\ j.at = "answered" /\ j.dir.kind = "run" => j.ran \/ j.conn \in s

EffectsInv ==
    \A e \in effects :
        IF e.kind = "lasting" THEN ~ShowsEffects(e.text) ELSE e.by \in open

PlansInv ==
    /\ DOMAIN job = Goroutines
    /\ \A g \in Goroutines : JobInv(job[g], spoilt)
    /\ EffectsInv
    /\ open \subseteq Goroutines /\ \A g \in open : At(g, "tx")
    /\ free \intersect showplan \subseteq spoilt
    /\ dialect \in Dialects
-----------------------------------------------------------------------------
LEMMA IdleKept ==
    ASSUME NEW d, NEW s
    PROVE  /\ JobInv([IdleJob EXCEPT !.dir = d], s)
           /\ [IdleJob EXCEPT !.dir = d].at = "answered"
BY DEF JobInv, Fields, IdleJob

(* One goroutine goes on; no connection gets better meanwhile.             *)
LEMMA JobKept ==
    ASSUME PlansInv, NEW g \in Goroutines, NEW j, JobInv(j, spoilt'), spoilt \subseteq spoilt',
           job' = [job EXCEPT ![g] = j]
    PROVE  /\ DOMAIN job' = Goroutines
           /\ \A h \in Goroutines : JobInv(job'[h], spoilt')
           /\ \A h \in Goroutines \ {g} : job'[h] = job[h]
           /\ job'[g] = j
<1>1. DOMAIN job' = Goroutines /\ job'[g] = j /\ \A h \in Goroutines \ {g} : job'[h] = job[h]
  BY DEF PlansInv
<1>2. \A h \in Goroutines : JobInv(job[h], spoilt) => JobInv(job[h], spoilt')
  BY DEF JobInv
<1> QED
  BY <1>1, <1>2 DEF PlansInv

(* A step that opens no transaction and spoils no connection by a job that *)
(* has none open.                                                          *)
LEMMA PlainKept ==
    ASSUME PlansInv, NEW g \in Goroutines, ~At(g, "tx"), NEW j, JobInv(j, spoilt),
           job' = [job EXCEPT ![g] = j],
           UNCHANGED <<dialect, free, showplan, open, effects, spoilt>>
    PROVE  PlansInv'
<1>1. /\ DOMAIN job' = Goroutines
      /\ \A h \in Goroutines : JobInv(job'[h], spoilt')
      /\ \A h \in Goroutines \ {g} : job'[h] = job[h]
  BY JobKept
<1>2. \A h \in open : job'[h].at = "tx"
  BY <1>1 DEF PlansInv, EffectsInv, At
<1> QED
  BY <1>1, <1>2 DEF PlansInv, EffectsInv, At

LEMMA FailsKept ==
    ASSUME PlansInv, NEW g \in Goroutines, ~At(g, "tx"), Fails(g),
           UNCHANGED <<dialect, free, showplan, open, effects, spoilt>>
    PROVE  PlansInv'
BY IdleKept, PlainKept DEF Fails, Ended

LEMMA PlannedKept ==
    ASSUME NEW j, NEW s, JobInv(j, s), j.dir.kind # "run", NEW plan
    PROVE  JobInv(WithPlan(j, plan), s)
<1> DEFINE at == CASE j.dir.kind = "save" -> "save"
                   [] j.dir.kind = "diff" -> "load"
                   [] OTHER -> "answered"
<1>1. at # "explain"
  OBVIOUS
<1> HIDE DEF at
<1>2. WithPlan(j, plan) = [j EXCEPT !.plan = plan, !.at = at]
  BY DEF WithPlan, at
<1> QED
  BY <1>1, <1>2 DEF JobInv, Fields

(* The statement of an EXPLAIN ANALYZE that Guard lets through.            *)
LEMMA Guarded ==
    ASSUME dialect \in Dialects, NEW t \in Statements[dialect],
           Guard(dialect, t, TRUE) # "BLOCK"
    PROVE  ~ShowsEffects(t)
<1>1. /\ dialect \in {"postgresql", "mysql"} /\ t.verb \notin WriteVerbs
      /\ t.calls \intersect Irreversible(dialect) = {}
  BY DEF Guard, AnalyzeSupported
<1>2. CASE dialect = "postgresql"
  BY <1>1, <1>2 DEF ShowsEffects, WriteVerbs, Irreversible
<1>3. CASE dialect = "mysql"
  BY <1>1, <1>3, CallsSeen DEF ShowsEffects, WriteVerbs
<1> QED
  BY <1>1, <1>2, <1>3

LEMMA SubmitKept ==
    ASSUME PlansInv, NEW g \in Goroutines, Submit(g)
    PROVE  PlansInv'
<1>1. ~At(g, "tx") /\ UNCHANGED <<dialect, free, showplan, open, effects, spoilt>>
  BY DEF Submit, At
<1>2. PICK d \in Directives, t \in Statements[dialect] :
          \/ job' = [job EXCEPT ![g] = [IdleJob EXCEPT !.dir = d]]
          \/ /\ d.kind = "analyze" => Guard(dialect, t, TRUE) # "BLOCK"
             /\ job' = [job EXCEPT ![g] =
                    [IdleJob EXCEPT !.dir = d, !.text = t,
                        !.at = IF d.kind = "run" THEN "run" ELSE "explain",
                        !.floor = IF d.kind = "diff" THEN NewestFor(d) ELSE 0]]
  BY DEF Submit
<1>3. CASE job' = [job EXCEPT ![g] = [IdleJob EXCEPT !.dir = d]]
  BY <1>1, <1>3, IdleKept, PlainKept
<1>4. ASSUME d.kind = "analyze" => Guard(dialect, t, TRUE) # "BLOCK",
             NEW floor,
             job' = [job EXCEPT ![g] = [IdleJob EXCEPT !.dir = d, !.text = t,
                        !.at = IF d.kind = "run" THEN "run" ELSE "explain", !.floor = floor]]
      PROVE  PlansInv'
  <2> DEFINE j == [IdleJob EXCEPT !.dir = d, !.text = t,
                       !.at = IF d.kind = "run" THEN "run" ELSE "explain", !.floor = floor]
  <2>1. /\ DOMAIN j = Fields /\ j.dir = d /\ j.text = t
        /\ j.at = IF d.kind = "run" THEN "run" ELSE "explain"
    BY DEF IdleJob, Fields
  <2>2. d.kind = "analyze" => ~ShowsEffects(t)
    BY <1>4, Guarded DEF PlansInv
  <2>3. job' = [job EXCEPT ![g] = j]
    BY <1>4
  <2> HIDE DEF j
  <2>4. JobInv(j, spoilt)
    BY <2>1, <2>2 DEF JobInv
  <2> QED
    BY <1>1, <2>3, <2>4, PlainKept
<1> QED
  BY <1>2, <1>3, <1>4

LEMMA RunKept ==
    ASSUME PlansInv, NEW g \in Goroutines, Run(g)
    PROVE  PlansInv'
<1>1. ~At(g, "tx") /\ UNCHANGED <<dialect, free, showplan, open, effects, spoilt>>
  BY DEF Run, At
<1>2. CASE Fails(g)
  BY <1>1, <1>2, FailsKept
<1>3. ASSUME NEW c \in free,
             job' = [job EXCEPT ![g].at = "answered", ![g].conn = c, ![g].ran = c \notin showplan]
      PROVE  PlansInv'
  <2> DEFINE ran == c \notin showplan
  <2>1. ran \/ c \in spoilt
    BY <1>3 DEF PlansInv
  <2> HIDE DEF ran
  <2> DEFINE j == [job[g] EXCEPT !.at = "answered", !.conn = c, !.ran = ran]
  <2>2. JobInv(job[g], spoilt)
    BY DEF PlansInv
  <2>3. DOMAIN j = Fields /\ j.at = "answered" /\ j.conn = c /\ j.ran = ran /\ j.dir = job[g].dir
    BY <2>2 DEF JobInv, Fields
  <2>4. job' = [job EXCEPT ![g] = j]
    BY <1>3 DEF ran, PlansInv
  <2> HIDE DEF j
  <2>5. JobInv(j, spoilt)
    BY <2>1, <2>3 DEF JobInv
  <2> QED
    BY <1>1, <2>4, <2>5, PlainKept
<1> QED
  BY <1>2, <1>3 DEF Run

LEMMA ExplainKept ==
    ASSUME PlansInv, NEW g \in Goroutines, Explain(g) \/ OracleExplain(g)
    PROVE  PlansInv'
<1>1. /\ At(g, "explain") /\ ~At(g, "tx")
      /\ UNCHANGED <<dialect, free, showplan, open, effects, spoilt>>
      /\ \/ Fails(g)
         \/ \E plan \in Answers("EXPLAIN") : job' = [job EXCEPT ![g] = WithPlan(@, plan)]
  BY DEF Explain, OracleExplain, At
<1>2. JobInv(job[g], spoilt) /\ job[g].dir.kind # "run"
  BY <1>1 DEF PlansInv, JobInv, At
<1>3. CASE Fails(g)
  BY <1>1, <1>3, FailsKept
<1>4. ASSUME NEW plan, job' = [job EXCEPT ![g] = WithPlan(@, plan)]
      PROVE  PlansInv'
  <2>1. JobInv(WithPlan(job[g], plan), spoilt)
    BY <1>2, PlannedKept
  <2>2. job' = [job EXCEPT ![g] = WithPlan(job[g], plan)]
    BY <1>4
  <2> QED
    BY <1>1, <2>1, <2>2, PlainKept
<1> QED
  BY <1>1, <1>3, <1>4

(* The directives that only go on to another place.                        *)
LEMMA PlaceKept ==
    ASSUME NEW j, NEW s, JobInv(j, s), NEW place \in {"tx", "pinned", "off", "write", "answered"},
           j.dir.kind # "run"
    PROVE  JobInv([j EXCEPT !.at = place], s) /\ [j EXCEPT !.at = place].at = place
BY DEF JobInv, Fields

(* runAnalyzeIsolated, from its transaction to the rollback.               *)
LEMMA AnalyzeKept ==
    ASSUME PlansInv, NEW g \in Goroutines, AnalyzeBegins(g) \/ AnalyzeEnds(g)
    PROVE  PlansInv'
<1>0. UNCHANGED <<dialect, free, showplan, spoilt>> /\ JobInv(job[g], spoilt)
  <2>1. UNCHANGED <<dialect, free, showplan, spoilt>>
    BY DEF AnalyzeBegins, AnalyzeEnds
  <2> QED
    BY <2>1 DEF PlansInv
<1>1. CASE AnalyzeBegins(g)
  <2>1. At(g, "explain") /\ job[g].dir.kind = "analyze" /\ ~At(g, "tx")
    BY <1>1 DEF AnalyzeBegins, Mode, At
  <2>2. CASE Fails(g) /\ UNCHANGED <<open, effects>>
    BY <1>0, <2>1, <2>2, FailsKept
  <2>3. CASE /\ job' = [job EXCEPT ![g].at = "tx"]
             /\ open' = open \union {g}
             /\ effects' = effects \union Done(g)
    <3> DEFINE j == [job[g] EXCEPT !.at = "tx"]
    <3>1. JobInv(j, spoilt) /\ j.at = "tx"
      BY <1>0, <2>1, PlaceKept
    <3>2. job' = [job EXCEPT ![g] = j]
      BY <2>3 DEF PlansInv
    <3> HIDE DEF j
    <3>3. /\ DOMAIN job' = Goroutines /\ \A h \in Goroutines : JobInv(job'[h], spoilt')
          /\ \A h \in Goroutines \ {g} : job'[h] = job[h]
          /\ job'[g] = j
      BY <1>0, <3>1, <3>2, JobKept
    <3>4. EffectsInv'
      <4>1. \A e \in Done(g) : e.by = g /\ e.text = job[g].text
        BY DEF Done
      <4>2. ~ShowsEffects(job[g].text)
        BY <1>0, <2>1 DEF JobInv, At
      <4>3. \A e \in effects' : e \in effects \/ e \in Done(g)
        BY <2>3
      <4>4. ASSUME NEW e \in effects'
            PROVE  IF e.kind = "lasting" THEN ~ShowsEffects(e.text) ELSE e.by \in open'
        <5>1. CASE e \in effects
          BY <2>3, <5>1 DEF PlansInv, EffectsInv
        <5>2. CASE e \in Done(g)
          BY <2>3, <4>1, <4>2, <5>2
        <5> QED
          BY <4>3, <5>1, <5>2
      <4> QED
        BY <4>4 DEF EffectsInv, ShowsEffects
    <3>5. open' \subseteq Goroutines /\ \A h \in open' : job'[h].at = "tx"
      BY <2>3, <3>1, <3>3 DEF PlansInv, EffectsInv, At
    <3> QED
      BY <1>0, <3>3, <3>4, <3>5 DEF PlansInv, EffectsInv, At
  <2> QED
    BY <1>1, <2>2, <2>3 DEF AnalyzeBegins
<1>2. CASE AnalyzeEnds(g)
  <2>1. job[g].dir.kind # "run" /\ open' = open \ {g}
        /\ effects' = {e \in effects : e.by # g \/ e.kind = "lasting"}
    BY <1>0, <1>2 DEF AnalyzeEnds, Rollback, JobInv, At
  <2>2. PICK j : JobInv(j, spoilt) /\ job' = [job EXCEPT ![g] = j]
    <3>1. CASE Fails(g)
      BY <3>1, IdleKept DEF Fails, Ended
    <3>2. ASSUME NEW plan, job' = [job EXCEPT ![g] = WithPlan(@, plan)]
          PROVE  \E j : JobInv(j, spoilt) /\ job' = [job EXCEPT ![g] = j]
      <4>1. JobInv(WithPlan(job[g], plan), spoilt)
        BY <1>0, <2>1, PlannedKept
      <4>2. job' = [job EXCEPT ![g] = WithPlan(job[g], plan)]
        BY <3>2
      <4> QED
        BY <4>1, <4>2
    <3> QED
      BY <1>2, <3>1, <3>2 DEF AnalyzeEnds
  <2>3. /\ DOMAIN job' = Goroutines /\ \A h \in Goroutines : JobInv(job'[h], spoilt')
        /\ \A h \in Goroutines \ {g} : job'[h] = job[h]
    BY <1>0, <2>2, JobKept
  <2>4. open' \subseteq Goroutines /\ \A h \in open' : job'[h].at = "tx"
    BY <2>1, <2>3 DEF PlansInv, EffectsInv, At
  <2>5. EffectsInv'
    BY <2>1 DEF PlansInv, EffectsInv, ShowsEffects
  <2> QED
    BY <1>0, <2>3, <2>4, <2>5 DEF PlansInv, EffectsInv, At
<1> QED
  BY <1>1, <1>2
-----------------------------------------------------------------------------
(* A step of runSQLServerExplain: connections with the planning on are     *)
(* pinned, or were given back unnoticed.                                   *)
LEMMA PinnedKept ==
    ASSUME PlansInv, NEW g \in Goroutines, ~At(g, "tx"), NEW j, JobInv(j, spoilt'),
           job' = [job EXCEPT ![g] = j], spoilt \subseteq spoilt',
           free' \intersect showplan' \subseteq spoilt',
           UNCHANGED <<dialect, open, effects>>
    PROVE  PlansInv'
<1>1. /\ DOMAIN job' = Goroutines
      /\ \A h \in Goroutines : JobInv(job'[h], spoilt')
      /\ \A h \in Goroutines \ {g} : job'[h] = job[h]
  BY JobKept
<1>2. \A h \in open : job'[h].at = "tx"
  BY <1>1 DEF PlansInv, EffectsInv, At
<1> QED
  BY <1>1, <1>2 DEF PlansInv, EffectsInv, At

LEMMA OnKept ==
    ASSUME PlansInv, NEW g \in Goroutines, ShowplanOn(g)
    PROVE  PlansInv'
<1>1. /\ At(g, "explain") /\ ~At(g, "tx") /\ JobInv(job[g], spoilt)
      /\ job[g].dir.kind # "run" /\ UNCHANGED <<dialect, open, effects>>
  BY DEF ShowplanOn, PlansInv, JobInv, At
<1>2. PICK c \in free :
        \/ /\ job' = [job EXCEPT ![g].at = "pinned", ![g].conn = c]
           /\ free' = free \ {c} /\ showplan' = showplan \union {c}
           /\ UNCHANGED spoilt
        \/ /\ Fails(g) /\ UNCHANGED free
           /\ \/ UNCHANGED <<showplan, spoilt>>
              \/ showplan' = showplan \union {c} /\ spoilt' = spoilt \union {c}
  BY DEF ShowplanOn
<1>3. CASE /\ job' = [job EXCEPT ![g].at = "pinned", ![g].conn = c]
           /\ free' = free \ {c} /\ showplan' = showplan \union {c}
           /\ UNCHANGED spoilt
  <2> DEFINE j == [job[g] EXCEPT !.at = "pinned", !.conn = c]
  <2>1. j.at = "pinned" /\ j.dir = job[g].dir /\ DOMAIN j = Fields
    BY <1>1 DEF JobInv, Fields
  <2>2. job' = [job EXCEPT ![g] = j]
    BY <1>3 DEF PlansInv
  <2> HIDE DEF j
  <2>3. JobInv(j, spoilt')
    BY <1>1, <2>1 DEF JobInv
  <2>4. free' \intersect showplan' \subseteq spoilt'
    BY <1>3 DEF PlansInv
  <2> QED
    BY <1>1, <1>3, <2>2, <2>3, <2>4, PinnedKept
<1>4. CASE /\ Fails(g) /\ UNCHANGED free
           /\ \/ UNCHANGED <<showplan, spoilt>>
              \/ showplan' = showplan \union {c} /\ spoilt' = spoilt \union {c}
  <2>1. JobInv(Ended(job[g]), spoilt') /\ job' = [job EXCEPT ![g] = Ended(job[g])]
    BY <1>4, IdleKept DEF Fails, Ended
  <2>2. spoilt \subseteq spoilt' /\ free' \intersect showplan' \subseteq spoilt'
    BY <1>4 DEF PlansInv
  <2> QED
    BY <1>1, <2>1, <2>2, PinnedKept
<1> QED
  BY <1>2, <1>3, <1>4

LEMMA ReadKept ==
    ASSUME PlansInv, NEW g \in Goroutines, ShowplanRead(g)
    PROVE  PlansInv'
<1>1. /\ ~At(g, "tx") /\ JobInv(job[g], spoilt) /\ job[g].dir.kind # "run"
      /\ UNCHANGED <<dialect, free, showplan, open, effects, spoilt>>
  BY DEF ShowplanRead, PlansInv, JobInv, At
<1>2. PICK j : JobInv(j, spoilt) /\ job' = [job EXCEPT ![g] = j]
  <2>1. CASE job' = [job EXCEPT ![g].at = "off"]
    <3>1. job' = [job EXCEPT ![g] = [job[g] EXCEPT !.at = "off"]]
      BY <2>1 DEF PlansInv
    <3> QED
      BY <1>1, <3>1, PlaceKept
  <2>2. ASSUME NEW plan, job' = [job EXCEPT ![g].at = "off", ![g].plan = plan]
        PROVE  \E j : JobInv(j, spoilt) /\ job' = [job EXCEPT ![g] = j]
    <3> DEFINE j == [job[g] EXCEPT !.at = "off", !.plan = plan]
    <3>1. j.at = "off" /\ j.dir = job[g].dir /\ DOMAIN j = Fields
      BY <1>1 DEF JobInv, Fields
    <3>2. job' = [job EXCEPT ![g] = j]
      BY <2>2 DEF PlansInv
    <3> HIDE DEF j
    <3>3. JobInv(j, spoilt)
      BY <1>1, <3>1 DEF JobInv
    <3> QED
      BY <3>2, <3>3
  <2> QED
    BY <2>1, <2>2 DEF ShowplanRead
<1> QED
  BY <1>1, <1>2, PlainKept

LEMMA OffKept ==
    ASSUME PlansInv, NEW g \in Goroutines, ShowplanOff(g)
    PROVE  PlansInv'
<1>1. /\ ~At(g, "tx") /\ JobInv(job[g], spoilt) /\ job[g].dir.kind # "run"
      /\ UNCHANGED <<dialect, open, effects>>
  BY DEF ShowplanOff, PlansInv, JobInv, At
<1>2. /\ free' = free \union {job[g].conn}
      /\ \/ showplan' = showplan \ {job[g].conn} /\ UNCHANGED spoilt
         \/ spoilt' = spoilt \union {job[g].conn} /\ UNCHANGED showplan
  BY DEF ShowplanOff
<1>3. spoilt \subseteq spoilt' /\ free' \intersect showplan' \subseteq spoilt'
  BY <1>2 DEF PlansInv
<1>4. JobInv(job[g], spoilt')
  BY <1>1, <1>3 DEF JobInv
<1>5. PICK j : JobInv(j, spoilt') /\ job' = [job EXCEPT ![g] = j]
  <2>1. JobInv(Ended(job[g]), spoilt')
    BY IdleKept DEF Ended
  <2>2. JobInv(WithPlan(job[g], job[g].plan), spoilt')
    BY <1>1, <1>4, PlannedKept
  <2> QED
    BY <2>1, <2>2 DEF ShowplanOff
<1> QED
  BY <1>1, <1>3, <1>5, PinnedKept
-----------------------------------------------------------------------------
(* What a save or a diff does after the plan is there.                     *)
LEMMA BaselineKept ==
    ASSUME PlansInv, NEW g \in Goroutines,
           SaveBegins(g) \/ SaveEnds(g) \/ Latest(g) \/ Load(g)
    PROVE  PlansInv'
<1>1. /\ ~At(g, "tx") /\ JobInv(job[g], spoilt) /\ job[g].dir.kind # "run"
      /\ UNCHANGED <<dialect, free, showplan, open, effects, spoilt>>
  BY DEF SaveBegins, SaveEnds, Latest, Load, LoadBaseline, PlansInv, JobInv, At
<1>2. CASE Fails(g)
  BY <1>1, <1>2, FailsKept
<1>3. ASSUME NEW b, job' = [job EXCEPT ![g].at = "write", ![g].base = b]
      PROVE  PlansInv'
  <2> DEFINE j == [job[g] EXCEPT !.at = "write", !.base = b]
  <2>1. j.at = "write" /\ j.dir = job[g].dir /\ DOMAIN j = Fields
    BY <1>1 DEF JobInv, Fields
  <2>2. job' = [job EXCEPT ![g] = j]
    BY <1>3 DEF PlansInv
  <2> HIDE DEF j
  <2>3. JobInv(j, spoilt)
    BY <1>1, <2>1 DEF JobInv
  <2> QED
    BY <1>1, <2>2, <2>3, PlainKept
<1>4. ASSUME NEW name, job' = [job EXCEPT ![g].picked = name], job[g].at = "load"
      PROVE  PlansInv'
  <2> DEFINE j == [job[g] EXCEPT !.picked = name]
  <2>1. j.at = job[g].at /\ j.dir = job[g].dir /\ DOMAIN j = Fields
    BY <1>1 DEF JobInv, Fields
  <2>2. job' = [job EXCEPT ![g] = j]
    BY <1>4 DEF PlansInv
  <2> HIDE DEF j
  <2>3. JobInv(j, spoilt)
    BY <1>1, <1>4, <2>1 DEF JobInv
  <2> QED
    BY <1>1, <2>2, <2>3, PlainKept
<1>5. ASSUME NEW b, job' = [job EXCEPT ![g].at = "answered", ![g].base = b]
      PROVE  PlansInv'
  <2> DEFINE j == [job[g] EXCEPT !.at = "answered", !.base = b]
  <2>1. j.at = "answered" /\ j.dir = job[g].dir /\ DOMAIN j = Fields
    BY <1>1 DEF JobInv, Fields
  <2>2. job' = [job EXCEPT ![g] = j]
    BY <1>5 DEF PlansInv
  <2> HIDE DEF j
  <2>3. JobInv(j, spoilt)
    BY <1>1, <2>1 DEF JobInv
  <2> QED
    BY <1>1, <2>2, <2>3, PlainKept
<1>6. CASE SaveBegins(g)
  BY <1>2, <1>3, <1>6 DEF SaveBegins
<1>7. CASE SaveEnds(g)
  BY <1>2, <1>7 DEF SaveEnds, Fails
<1>8. CASE Latest(g)
  BY <1>2, <1>4, <1>8 DEF Latest, At
<1>9. CASE Load(g)
  BY <1>2, <1>5, <1>9 DEF Load, LoadBaseline
<1> QED
  BY <1>6, <1>7, <1>8, <1>9
-----------------------------------------------------------------------------
LEMMA PlansHolds == Spec => []PlansInv
<1>1. Init => PlansInv
  <2> SUFFICES ASSUME Init PROVE PlansInv
    OBVIOUS
  <2>1. /\ DOMAIN job = Goroutines
        /\ \A g \in Goroutines : job[g] = IdleJob
    BY DEF Init
  <2>2. JobInv(IdleJob, spoilt)
    BY DEF JobInv, Fields, IdleJob
  <2> QED
    BY <2>1, <2>2 DEF Init, PlansInv, EffectsInv
<1>2. PlansInv /\ [Next]_vars => PlansInv'
  <2> SUFFICES ASSUME PlansInv, [Next]_vars PROVE PlansInv'
    OBVIOUS
  <2>1. CASE UNCHANGED vars
    BY <2>1 DEF vars, PlansInv, EffectsInv, At
  <2>2. ASSUME NEW g \in Goroutines, Submit(g) PROVE PlansInv'
    BY <2>2, SubmitKept
  <2>3. ASSUME NEW g \in Goroutines, Run(g) PROVE PlansInv'
    BY <2>3, RunKept
  <2>4. ASSUME NEW g \in Goroutines, Explain(g) \/ OracleExplain(g) PROVE PlansInv'
    BY <2>4, ExplainKept
  <2>5. ASSUME NEW g \in Goroutines, AnalyzeBegins(g) \/ AnalyzeEnds(g) PROVE PlansInv'
    BY <2>5, AnalyzeKept
  <2>6. ASSUME NEW g \in Goroutines, ShowplanOn(g) PROVE PlansInv'
    BY <2>6, OnKept
  <2>7. ASSUME NEW g \in Goroutines, ShowplanRead(g) PROVE PlansInv'
    BY <2>7, ReadKept
  <2>8. ASSUME NEW g \in Goroutines, ShowplanOff(g) PROVE PlansInv'
    BY <2>8, OffKept
  <2>9. ASSUME NEW g \in Goroutines, SaveBegins(g) \/ SaveEnds(g) \/ Latest(g) \/ Load(g)
        PROVE  PlansInv'
    BY <2>9, BaselineKept
  <2> QED
    BY <2>1, <2>2, <2>3, <2>4, <2>5, <2>6, <2>7, <2>8, <2>9 DEF Next
<1> QED
  BY <1>1, <1>2, PTL DEF Spec

(* Whatever a planner answers, and whichever call fails or is cancelled,   *)
(* what a statement did that runAnalyzeIsolated executed is gone when it   *)
(* has answered, but for what no rollback undoes, and that is done by no   *)
(* statement whose first word or calls show it to Guard; no directive that *)
(* has answered left its transaction open.                                 *)
THEOREM AnalyzesAreUndone == Spec => []AnalyzeUndone
<1>1. PlansInv => AnalyzeUndone
  BY DEF PlansInv, EffectsInv, AnalyzeUndone
<1> QED
  BY <1>1, PlansHolds, PTL

(* However many goroutines plan and run statements on however many         *)
(* connections, a statement without directive that succeeds was executed,  *)
(* unless its connection is one runSQLServerExplain failed to switch back. *)
THEOREM RunsAreReal == Spec => []RunsForReal
<1>1. PlansInv => RunsForReal
  BY DEF PlansInv, JobInv, RunsForReal, Answered, At
<1> QED
  BY <1>1, PlansHolds, PTL
-----------------------------------------------------------------------------
(* Every set of numbers has a least one: an induction over Nat about one   *)
(* predicate is a proof that it has no least counterexample.               *)
LEMMA Least ==
    ASSUME NEW T, T \subseteq Nat, T # {}
    PROVE  \E n \in T : \A m \in T : n <= m
<1>1. PICK R : IsWellFoundedOn(R, Nat) /\ \A x, y \in Nat : <<x, y>> \in R <=> x < y
  <2>1. \A x, y \in Nat : <<x, y>> \in OpToRel(<, Nat) <=> x < y
    BY DEF OpToRel
  <2> QED
    BY <2>1, NatLessThanWellFounded
<1>2. IsWellFoundedOn(R, Nat)
  BY <1>1
<1>3. \E n \in T : \A y \in T : ~ (<<y, n>> \in R)
  BY ONLY <1>2, WFMin, T \subseteq Nat, T # {}, Zenon
<1>4. PICK n \in T : \A y \in T : ~(y < n)
  BY <1>1, <1>3
<1>5. \A y \in T : n <= y
  BY <1>4
<1> QED
  BY <1>5

(* A bounded one that is not empty has a greatest one.                     *)
LEMMA Greatest ==
    ASSUME NEW T, T \subseteq Nat, T # {}, NEW top \in Nat, \A t \in T : t <= top
    PROVE  \E n \in T : \A m \in T : m <= n
<1> DEFINE U == {top - t : t \in T}
<1>1. U \subseteq Nat /\ U # {}
  <2>1. \A t \in T : top - t \in Nat
    OBVIOUS
  <2>2. \E t : t \in T
    OBVIOUS
  <2> QED
    BY <2>1, <2>2
<1>2. PICK u \in U : \A v \in U : u <= v
  <2> HIDE DEF U
  <2> QED
    BY <1>1, Least
<1>3. PICK n \in T : u = top - n
  OBVIOUS
<1>4. ASSUME NEW m \in T PROVE m <= n
  <2>1. top - m \in U
    OBVIOUS
  <2>2. u <= top - m
    BY <1>2, <2>1
  <2> QED
    BY <1>3, <2>2
<1> QED
  BY <1>4
-----------------------------------------------------------------------------
(* A baseline, saved at one of the times so far.                           *)
IsBaseline(b, latest) ==
    /\ b.held = "baseline" /\ b.name \in Names \union Seconds
    /\ b.created \in Nat /\ b.created <= latest

(* A diff of d may be about b.                                             *)
Own(b, d) == d.name = None \/ Sanitize[b.name] = Sanitize[d.name]

(* A file has a baseline saved by a name of that file.                     *)
FilesInv ==
    /\ DOMAIN files = Files /\ created \in Nat /\ now \in Seconds
    /\ \A f \in Files : Decoded(f) =>
           IsBaseline(files[f], created) /\ Sanitize[files[f].name] = f

(* A diff that nobody disturbs: until it has answered, the baselines have  *)
(* one as new as the newest there was when it was asked, and once it has   *)
(* picked a name, that is the one.                                         *)
CalmInv(j) ==
    /\ j.at # "answered" /\ j.picked = None =>
           \/ j.floor = 0
           \/ \E b \in Listed : Own(b, j.dir) /\ j.floor <= b.created
    /\ j.at # "answered" /\ j.picked # None =>
           /\ Sanitize[j.picked] \in Files /\ Decoded(Sanitize[j.picked])
           /\ j.floor <= files[Sanitize[j.picked]].created
    /\ j.base # Absent => j.floor <= j.base.created

DiffInv(j) ==
    /\ j.dir.name \in Names \union {None} /\ j.floor \in Nat
    /\ j.picked # None => j.dir.name = None
    /\ j.at = "write" => IsBaseline(j.base, created)
    /\ j.dir.kind = "diff" => j.at \notin {"run", "save", "write"}
    /\ j.dir.kind = "diff" /\ j.base # Absent =>
           j.at = "answered" /\ Own(j.base, j.dir)

NewestInv ==
    /\ FilesInv
    /\ \A g \in Goroutines : DiffInv(job[g])
    /\ calm \subseteq Goroutines
    /\ \A g \in calm : job[g].dir.kind = "diff" /\ CalmInv(job[g])
-----------------------------------------------------------------------------
LEMMA ListedMember ==
    \A b : b \in Listed <=> \E f \in Files : Decoded(f) /\ b = files[f]
BY DEF Listed

LEMMA IdleIsCalm ==
    ASSUME NEW d, d.name \in Names \union {None}
    PROVE  DiffInv([IdleJob EXCEPT !.dir = d]) /\ CalmInv([IdleJob EXCEPT !.dir = d])
<1> DEFINE j == [IdleJob EXCEPT !.dir = d]
<1>1. /\ j.dir = d /\ j.at = "answered" /\ j.floor = 0 /\ j.picked = None
      /\ j.base = Absent
  BY DEF IdleJob
<1> HIDE DEF j
<1>2. DiffInv(j) /\ CalmInv(j)
  BY <1>1 DEF DiffInv, CalmInv
<1> QED
  BY <1>2 DEF j

(* A goroutine goes on while the baselines stay as they are.               *)
LEMMA StepKept ==
    ASSUME PlansInv, NewestInv, NEW g \in Goroutines, NEW j,
           job' = [job EXCEPT ![g] = j], UNCHANGED <<baselineVars, calm>>,
           DiffInv(j), g \in calm => j.dir.kind = "diff" /\ CalmInv(j)
    PROVE  NewestInv'
<1>1. /\ job'[g] = j /\ \A h \in Goroutines \ {g} : job'[h] = job[h]
      /\ files' = files /\ created' = created /\ now' = now /\ calm' = calm
  BY DEF PlansInv, baselineVars
<1>2. FilesInv'
  BY <1>1 DEF NewestInv, FilesInv, Decoded
<1>3. \A h \in Goroutines : DiffInv(job'[h])
  BY <1>1 DEF NewestInv
<1>4. \A h \in calm : job'[h].dir.kind = "diff" /\ CalmInv(job'[h])
  BY <1>1 DEF NewestInv
<1>5. \A i : (DiffInv(i) => DiffInv(i)') /\ (CalmInv(i) => CalmInv(i)')
  BY <1>1 DEF DiffInv, CalmInv, Listed, Decoded
<1> QED
  BY <1>1, <1>2, <1>3, <1>4, <1>5 DEF NewestInv

LEMMA FailsCalm ==
    ASSUME PlansInv, NewestInv, NEW g \in Goroutines, Fails(g),
           UNCHANGED <<baselineVars, calm>>
    PROVE  NewestInv'
<1> DEFINE j == [IdleJob EXCEPT !.dir = job[g].dir]
<1>1. DiffInv(j) /\ CalmInv(j)
  <2>1. job[g].dir.name \in Names \union {None}
    BY DEF NewestInv, DiffInv
  <2> QED
    BY <2>1, IdleIsCalm
<1>2. job' = [job EXCEPT ![g] = j]
  BY DEF Fails, Ended
<1>3. j.dir = job[g].dir
  BY DEF IdleJob
<1> HIDE DEF j
<1>4. g \in calm => j.dir.kind = "diff"
  BY <1>3 DEF NewestInv
<1> QED
  BY <1>1, <1>2, <1>4, StepKept

(* The steps that only bring a job to another place.                       *)
Carried(j, i) ==
    /\ i.at # "answered" /\ j.at # "write"
    /\ j.dir.kind = "diff" => j.at \notin {"run", "save", "answered"}
    /\ j.dir = i.dir /\ j.floor = i.floor /\ j.picked = i.picked /\ j.base = i.base

LEMMA MoveKept ==
    ASSUME PlansInv, NewestInv, NEW g \in Goroutines, NEW j, Carried(j, job[g]),
           job' = [job EXCEPT ![g] = j], UNCHANGED <<baselineVars, calm>>
    PROVE  NewestInv'
<1>1. DiffInv(job[g]) /\ (g \in calm => job[g].dir.kind = "diff" /\ CalmInv(job[g]))
  BY DEF NewestInv
<1>2. DiffInv(j)
  BY <1>1 DEF DiffInv, Carried
<1>3. g \in calm => j.dir.kind = "diff" /\ CalmInv(j)
  BY <1>1 DEF CalmInv, Carried
<1> QED
  BY <1>2, <1>3, StepKept

LEMMA PlanCarried ==
    ASSUME NEW i, DOMAIN i = Fields, NEW plan, i.at # "answered"
    PROVE  Carried(WithPlan(i, plan), i)
<1> DEFINE at == CASE i.dir.kind = "save" -> "save"
                   [] i.dir.kind = "diff" -> "load"
                   [] OTHER -> "answered"
<1>1. at # "write" /\ (i.dir.kind = "diff" => at = "load")
  OBVIOUS
<1> HIDE DEF at
<1>2. WithPlan(i, plan) = [i EXCEPT !.plan = plan, !.at = at]
  BY DEF WithPlan, at
<1> QED
  BY <1>1, <1>2 DEF Carried, Fields

(* The newest time of the baselines a diff can be about is 0, or there is  *)
(* one of that time.                                                       *)
LEMMA NewestTime ==
    ASSUME FilesInv, NEW d
    PROVE  /\ NewestFor(d) \in Nat
           /\ NewestFor(d) = 0 \/ \E b \in Listed : Own(b, d) /\ NewestFor(d) <= b.created
<1> DEFINE own == {b \in Listed : d.name = None \/ Sanitize[b.name] = Sanitize[d.name]}
           times == {b.created : b \in own} \union {0}
<1>1. \A b \in own : b.created \in Nat /\ b.created <= created
  BY ListedMember DEF FilesInv, IsBaseline
<1>2. \A t \in times : t \in Nat /\ t <= created
  BY <1>1 DEF FilesInv
<1>3. \E t \in times : \A u \in times : u <= t
  <2>1. times \subseteq Nat /\ times # {} /\ created \in Nat
    BY <1>2 DEF FilesInv
  <2> HIDE DEF times
  <2> QED
    BY <1>2, <2>1, Greatest
<1>4. NewestFor(d) = CHOOSE t \in times : \A u \in times : u <= t
  BY DEF NewestFor
<1>5. NewestFor(d) \in times
  <2> HIDE DEF times
  <2> QED
    BY <1>3, <1>4
<1>6. NewestFor(d) = 0 \/ \E b \in own : NewestFor(d) = b.created
  BY <1>5
<1> QED
  BY <1>1, <1>2, <1>5, <1>6 DEF Own

LEMMA SubmitCalm ==
    ASSUME PlansInv, NewestInv, NEW g \in Goroutines, Submit(g)
    PROVE  NewestInv'
<1>1. PICK d \in Directives, t \in Statements[dialect] :
          /\ \/ d.kind # "diff" /\ job' = [job EXCEPT ![g] = [IdleJob EXCEPT !.dir = d]]
             \/ job' = [job EXCEPT ![g] =
                    [IdleJob EXCEPT !.dir = d, !.text = t,
                        !.at = IF d.kind = "run" THEN "run" ELSE "explain",
                        !.floor = IF d.kind = "diff" THEN NewestFor(d) ELSE 0]]
          /\ calm' = IF d.kind = "diff" THEN calm \union {g} ELSE calm \ {g}
  BY DEF Submit
<1>2. d.name \in Names \union {None}
  BY DEF Directives
<1>3. UNCHANGED baselineVars
  BY DEF Submit
<1>4. PICK j : /\ job' = [job EXCEPT ![g] = j] /\ DiffInv(j) /\ j.dir = d
               /\ d.kind = "diff" => CalmInv(j)
  <2>1. CASE d.kind # "diff" /\ job' = [job EXCEPT ![g] = [IdleJob EXCEPT !.dir = d]]
    <3>1. DiffInv([IdleJob EXCEPT !.dir = d])
      BY <1>2, IdleIsCalm
    <3>2. [IdleJob EXCEPT !.dir = d].dir = d
      BY DEF IdleJob
    <3> QED
      BY <2>1, <3>1, <3>2
  <2>2. ASSUME NEW floor, floor = IF d.kind = "diff" THEN NewestFor(d) ELSE 0,
               job' = [job EXCEPT ![g] = [IdleJob EXCEPT !.dir = d, !.text = t,
                          !.at = IF d.kind = "run" THEN "run" ELSE "explain",
                          !.floor = floor]]
        PROVE  \E j : /\ job' = [job EXCEPT ![g] = j] /\ DiffInv(j) /\ j.dir = d
                      /\ d.kind = "diff" => CalmInv(j)
    <3> DEFINE j == [IdleJob EXCEPT !.dir = d, !.text = t,
                         !.at = IF d.kind = "run" THEN "run" ELSE "explain", !.floor = floor]
    <3>1. /\ j.dir = d /\ j.floor = floor
          /\ j.at = IF d.kind = "run" THEN "run" ELSE "explain"
          /\ j.picked = None /\ j.base = Absent
      BY DEF IdleJob
    <3>2. job' = [job EXCEPT ![g] = j]
      BY <2>2
    <3>3. /\ floor \in Nat
          /\ d.kind = "diff" => floor = 0 \/ \E b \in Listed : Own(b, d) /\ floor <= b.created
      BY <2>2, NewestTime DEF NewestInv
    <3> HIDE DEF j
    <3>4. DiffInv(j) /\ (d.kind = "diff" => CalmInv(j))
      BY <1>2, <3>1, <3>3 DEF DiffInv, CalmInv
    <3> QED
      BY <3>1, <3>2, <3>4
  <2> QED
    BY <1>1, <2>1, <2>2
<1>5. /\ job'[g] = j /\ \A h \in Goroutines \ {g} : job'[h] = job[h]
      /\ files' = files /\ created' = created /\ now' = now
  BY <1>3, <1>4 DEF PlansInv, baselineVars
<1>6. FilesInv'
  BY <1>5 DEF NewestInv, FilesInv, Decoded
<1>7. \A h \in Goroutines : DiffInv(job'[h])
  BY <1>4, <1>5 DEF NewestInv
<1>8. calm' \subseteq Goroutines /\ \A h \in calm' : job'[h].dir.kind = "diff" /\ CalmInv(job'[h])
  BY <1>1, <1>4, <1>5 DEF NewestInv
<1>9. \A i : (DiffInv(i) => DiffInv(i)') /\ (CalmInv(i) => CalmInv(i)')
  BY <1>5 DEF DiffInv, CalmInv, Listed, Decoded
<1> QED
  BY <1>6, <1>7, <1>8, <1>9 DEF NewestInv

(* Run, Explain, OracleExplain, runAnalyzeIsolated and                     *)
(* runSQLServerExplain leave the baselines alone.                          *)
Plain(g) ==
    \/ Run(g) \/ Explain(g) \/ OracleExplain(g) \/ AnalyzeBegins(g)
    \/ AnalyzeEnds(g) \/ ShowplanOn(g) \/ ShowplanRead(g) \/ ShowplanOff(g)

LEMMA PlainCalm ==
    ASSUME PlansInv, NewestInv, NEW g \in Goroutines, Plain(g)
    PROVE  NewestInv'
<1>0. UNCHANGED <<baselineVars, calm>> /\ job[g].at # "answered"
  BY DEF Plain, Run, Explain, OracleExplain, AnalyzeBegins, AnalyzeEnds, ShowplanOn,
         ShowplanRead, ShowplanOff, At
<1>1. DOMAIN job = Goroutines /\ DOMAIN job[g] = Fields /\ DiffInv(job[g])
  BY DEF PlansInv, JobInv, NewestInv
<1>2. CASE Fails(g)
  BY <1>0, <1>2, FailsCalm
<1>3. ASSUME NEW plan, job' = [job EXCEPT ![g] = WithPlan(job[g], plan)]
      PROVE  NewestInv'
  BY <1>0, <1>1, <1>3, PlanCarried, MoveKept
<1>4. ASSUME NEW j, job' = [job EXCEPT ![g] = j], j.at \in {"tx", "pinned", "off"},
             j.dir = job[g].dir, j.floor = job[g].floor, j.picked = job[g].picked,
             j.base = job[g].base
      PROVE  NewestInv'
  <2>1. Carried(j, job[g])
    BY <1>0, <1>4 DEF Carried
  <2> QED
    BY <1>0, <1>4, <2>1, MoveKept
<1>5. CASE Run(g)
  <2>1. ASSUME NEW c, NEW ran,
               job' = [job EXCEPT ![g].at = "answered", ![g].conn = c, ![g].ran = ran]
        PROVE  NewestInv'
    <3> DEFINE j == [job[g] EXCEPT !.at = "answered", !.conn = c, !.ran = ran]
    <3>1. /\ j.at = "answered" /\ j.dir = job[g].dir /\ j.floor = job[g].floor
          /\ j.picked = job[g].picked /\ j.base = job[g].base
      BY <1>1 DEF Fields
    <3>2. job' = [job EXCEPT ![g] = j]
      BY <1>1, <2>1
    <3> HIDE DEF j
    <3>3. Carried(j, job[g])
      BY <1>0, <1>1, <1>5, <3>1 DEF Carried, Run, At, DiffInv
    <3> QED
      BY <1>0, <3>2, <3>3, MoveKept
  <2> QED
    BY <1>2, <1>5, <2>1 DEF Run
<1>6. CASE Explain(g) \/ OracleExplain(g)
  BY <1>2, <1>3, <1>6 DEF Explain, OracleExplain
<1>7. CASE AnalyzeBegins(g)
  <2>1. CASE job' = [job EXCEPT ![g].at = "tx"]
    <3> DEFINE j == [job[g] EXCEPT !.at = "tx"]
    <3>1. /\ j.at = "tx" /\ j.dir = job[g].dir /\ j.floor = job[g].floor
          /\ j.picked = job[g].picked /\ j.base = job[g].base
      BY <1>1 DEF Fields
    <3>2. job' = [job EXCEPT ![g] = j]
      BY <1>1, <2>1
    <3> HIDE DEF j
    <3> QED
      BY <1>4, <3>1, <3>2
  <2> QED
    BY <1>2, <1>7, <2>1 DEF AnalyzeBegins
<1>8. CASE AnalyzeEnds(g)
  BY <1>2, <1>3, <1>8 DEF AnalyzeEnds
<1>9. CASE ShowplanOn(g)
  <2>1. ASSUME NEW c, job' = [job EXCEPT ![g].at = "pinned", ![g].conn = c]
        PROVE  NewestInv'
    <3> DEFINE j == [job[g] EXCEPT !.at = "pinned", !.conn = c]
    <3>1. /\ j.at = "pinned" /\ j.dir = job[g].dir /\ j.floor = job[g].floor
          /\ j.picked = job[g].picked /\ j.base = job[g].base
      BY <1>1 DEF Fields
    <3>2. job' = [job EXCEPT ![g] = j]
      BY <1>1, <2>1
    <3> HIDE DEF j
    <3> QED
      BY <1>4, <3>1, <3>2
  <2> QED
    BY <1>2, <1>9, <2>1 DEF ShowplanOn
<1>10. CASE ShowplanRead(g)
  <2>1. CASE job' = [job EXCEPT ![g].at = "off"]
    <3> DEFINE j == [job[g] EXCEPT !.at = "off"]
    <3>1. /\ j.at = "off" /\ j.dir = job[g].dir /\ j.floor = job[g].floor
          /\ j.picked = job[g].picked /\ j.base = job[g].base
      BY <1>1 DEF Fields
    <3>2. job' = [job EXCEPT ![g] = j]
      BY <1>1, <2>1
    <3> HIDE DEF j
    <3> QED
      BY <1>4, <3>1, <3>2
  <2>2. ASSUME NEW plan, job' = [job EXCEPT ![g].at = "off", ![g].plan = plan]
        PROVE  NewestInv'
    <3> DEFINE j == [job[g] EXCEPT !.at = "off", !.plan = plan]
    <3>1. /\ j.at = "off" /\ j.dir = job[g].dir /\ j.floor = job[g].floor
          /\ j.picked = job[g].picked /\ j.base = job[g].base
      BY <1>1 DEF Fields
    <3>2. job' = [job EXCEPT ![g] = j]
      BY <1>1, <2>2
    <3> HIDE DEF j
    <3> QED
      BY <1>4, <3>1, <3>2
  <2> QED
    BY <1>10, <2>1, <2>2 DEF ShowplanRead
<1>11. CASE ShowplanOff(g)
  <2>1. \/ job' = [job EXCEPT ![g] = Ended(job[g])]
        \/ job' = [job EXCEPT ![g] = WithPlan(job[g], job[g].plan)]
    BY <1>11 DEF ShowplanOff
  <2> QED
    BY <1>2, <1>3, <2>1 DEF Fails
<1> QED
  BY <1>5, <1>6, <1>7, <1>8, <1>9, <1>10, <1>11 DEF Plain
-----------------------------------------------------------------------------
(* A save goes on: what other goroutines wait for is still there, unless a *)
(* baseline was replaced.                                                  *)
LEMMA SaveKept ==
    ASSUME PlansInv, NewestInv, NEW g \in Goroutines, NEW j, job' = [job EXCEPT ![g] = j],
           j.dir = job[g].dir, j.dir.kind # "diff", DiffInv(j)', FilesInv',
           created <= created', calm' = Undisturbed
    PROVE  NewestInv'
<1>1. job'[g] = j /\ \A h \in Goroutines \ {g} : job'[h] = job[h]
  BY DEF PlansInv
<1>2. calm' \subseteq calm /\ g \notin calm
  BY DEF Undisturbed, NewestInv
<1>3. calm' # {} => \A f \in Files : Decoded(f) => files'[f] = files[f]
  BY DEF Undisturbed
<1>4. \A h \in Goroutines : DiffInv(job[h])'
  <2>1. ASSUME NEW i, DiffInv(i) PROVE DiffInv(i)'
    BY <2>1 DEF DiffInv, IsBaseline, NewestInv, FilesInv
  <2> QED
    BY <1>1, <2>1 DEF NewestInv
<1>5. ASSUME NEW h \in calm' PROVE (job[h].dir.kind = "diff" /\ CalmInv(job[h]))'
  <2>1. job'[h] = job[h] /\ job[h].dir.kind = "diff" /\ CalmInv(job[h])
    BY <1>1, <1>2, <1>5 DEF NewestInv
  <2>2. \A f \in Files : Decoded(f) => files'[f] = files[f] /\ Decoded(f)'
    BY <1>3, <1>5 DEF Decoded
  <2>3. \A b \in Listed : b \in Listed'
    BY <2>2 DEF Listed
  <2>4. ASSUME NEW i, CalmInv(i) PROVE CalmInv(i)'
    BY <2>2, <2>3, <2>4 DEF CalmInv
  <2> QED
    BY <2>1, <2>4
<1> QED
  BY <1>1, <1>2, <1>4, <1>5 DEF NewestInv

LEMMA SaveBeginsCalm ==
    ASSUME PlansInv, NewestInv, NEW g \in Goroutines, SaveBegins(g)
    PROVE  NewestInv'
<1>1. DOMAIN job = Goroutines /\ DOMAIN job[g] = Fields /\ DiffInv(job[g]) /\ FilesInv
  BY DEF PlansInv, JobInv, NewestInv
<1>2. job[g].at = "save" /\ job[g].dir.kind # "diff"
  BY <1>1 DEF SaveBegins, At, DiffInv
<1>3. CASE Fails(g) /\ UNCHANGED <<baselineVars, calm>>
  BY <1>3, FailsCalm
<1>4. CASE ~(Fails(g) /\ UNCHANGED <<baselineVars, calm>>)
  <2>1. PICK b :
          /\ now' = now \/ now' \in Seconds
          /\ b = Baseline(IF job[g].dir.name = None THEN now' ELSE job[g].dir.name,
                          created + 1, job[g].plan)
          /\ Truncate(b)
          /\ job' = [job EXCEPT ![g].at = "write", ![g].base = b]
          /\ calm' = Undisturbed
    BY <1>4 DEF SaveBegins
  <2>2. b.held = "baseline" /\ b.name \in Names \union Seconds /\ b.created = created + 1
    BY <1>1, <2>1 DEF Baseline, DiffInv, FilesInv
  <2>3. IsBaseline(b, created') /\ created' = created + 1 /\ created \in Nat
    BY <1>1, <2>1, <2>2 DEF Truncate, IsBaseline, FilesInv
  <2>4. FilesInv'
    <3>1. Sanitize[b.name] \in Files /\ now' \in Seconds
      BY <1>1, <2>1, <2>2 DEF Files, FilesInv
    <3>2. /\ DOMAIN files' = Files
          /\ \A f \in Files : files'[f] = files[f] \/ files'[f] = Empty
      BY <1>1, <2>1, <3>1 DEF Truncate, FilesInv
    <3>3. Empty.held # "baseline"
      BY DEF Empty
    <3>4. ASSUME NEW f \in Files, Decoded(f)'
          PROVE  IsBaseline(files'[f], created') /\ Sanitize[files'[f].name] = f
      <4>1. files'[f] = files[f] /\ Decoded(f)
        BY <3>2, <3>3, <3>4 DEF Decoded
      <4> QED
        BY <1>1, <2>3, <4>1 DEF FilesInv, IsBaseline
    <3> QED
      BY <2>3, <3>1, <3>2, <3>4 DEF FilesInv
  <2> DEFINE j == [job[g] EXCEPT !.at = "write", !.base = b]
  <2>5. /\ j.at = "write" /\ j.dir = job[g].dir /\ j.floor = job[g].floor
        /\ j.picked = job[g].picked /\ j.base = b
    BY <1>1 DEF Fields
  <2>6. job' = [job EXCEPT ![g] = j]
    BY <1>1, <2>1
  <2> HIDE DEF j
  <2> DEFINE latest == created'
  <2>7. ASSUME NEW i, i = j PROVE DiffInv(i)'
    <3>1. IsBaseline(i.base, latest)
      BY <2>3, <2>5, <2>7
    <3> QED
      BY <1>1, <1>2, <2>3, <2>5, <2>7, <3>1 DEF DiffInv
  <2>8. PICK i : /\ DiffInv(i)' /\ job' = [job EXCEPT ![g] = i]
                 /\ i.dir = job[g].dir
    BY <2>5, <2>6, <2>7
  <2>9. created <= created' /\ i.dir.kind # "diff"
    BY <1>2, <2>3, <2>8
  <2> QED
    BY <2>1, <2>4, <2>8, <2>9, SaveKept
<1> QED
  BY <1>3, <1>4

LEMMA SaveEndsCalm ==
    ASSUME PlansInv, NewestInv, NEW g \in Goroutines, SaveEnds(g)
    PROVE  NewestInv'
<1>1. DiffInv(job[g]) /\ FilesInv
  BY DEF NewestInv
<1>2. job[g].at = "write" /\ job[g].dir.kind # "diff" /\ IsBaseline(job[g].base, created)
  BY <1>1 DEF SaveEnds, At, DiffInv
<1>3. created' = created /\ now' = now /\ calm' = Undisturbed
  BY DEF SaveEnds, Write, baselineVars
<1>4. FilesInv'
  <2> DEFINE b == job[g].base
             file == Sanitize[b.name]
  <2>1. file \in Files
    BY <1>2 DEF Files, IsBaseline
  <2>2. /\ DOMAIN files' = Files
        /\ \A f \in Files : \/ files'[f] = files[f]
                            \/ files'[f] = Garbled
                            \/ f = file /\ files'[f] = b
    BY <1>1, <2>1 DEF SaveEnds, Write, FilesInv, baselineVars
  <2> HIDE DEF file
  <2>3. Garbled.held # "baseline"
    BY DEF Garbled
  <2>4. ASSUME NEW f \in Files, Decoded(f)'
        PROVE  IsBaseline(files'[f], created) /\ Sanitize[files'[f].name] = f
    <3>1. CASE files'[f] = files[f]
      BY <1>1, <2>4, <3>1 DEF Decoded, FilesInv
    <3>2. CASE f = file /\ files'[f] = b
      BY <1>2, <3>2 DEF file
    <3> QED
      BY <2>2, <2>3, <2>4, <3>1, <3>2 DEF Decoded
  <2> QED
    BY <1>1, <1>3, <2>2, <2>4 DEF FilesInv
<1> DEFINE j == [IdleJob EXCEPT !.dir = job[g].dir]
<1>5. DiffInv(j)
  <2>1. job[g].dir.name \in Names \union {None}
    BY <1>1 DEF DiffInv
  <2> QED
    BY <2>1, IdleIsCalm
<1>6. job' = [job EXCEPT ![g] = j] /\ j.dir = job[g].dir
  BY DEF SaveEnds, Ended, IdleJob
<1> HIDE DEF j
<1>7. ASSUME NEW i, DiffInv(i) PROVE DiffInv(i)'
  BY <1>3, <1>7 DEF DiffInv
<1>8. PICK i : DiffInv(i)' /\ job' = [job EXCEPT ![g] = i] /\ i.dir = job[g].dir
  <2>1. ASSUME NEW i, i = j PROVE DiffInv(i)'
    BY <1>5, <1>7, <2>1
  <2> QED
    BY <1>6, <2>1
<1>9. created <= created' /\ i.dir.kind # "diff"
  BY <1>1, <1>2, <1>3, <1>8 DEF FilesInv
<1> QED
  BY <1>3, <1>4, <1>8, <1>9, SaveKept

(* The newest of the list, which has one.                                  *)
LEMMA NewestListed ==
    ASSUME FilesInv, Listed # {}
    PROVE  Newest(Listed) \in Listed /\ \A c \in Listed : c.created <= Newest(Listed).created
<1> DEFINE times == {b.created : b \in Listed}
<1>1. \A b \in Listed : b.created \in Nat /\ b.created <= created
  BY ListedMember DEF FilesInv, IsBaseline
<1>2. times \subseteq Nat /\ times # {} /\ \A t \in times : t <= created
  BY <1>1
<1>3. PICK t \in times : \A u \in times : u <= t
  <2> HIDE DEF times
  <2> QED
    BY <1>2, Greatest DEF FilesInv
<1>4. PICK b \in Listed : \A c \in Listed : c.created <= b.created
  BY <1>3
<1> QED
  BY <1>4 DEF Newest

LEMMA LatestCalm ==
    ASSUME PlansInv, NewestInv, NEW g \in Goroutines, Latest(g)
    PROVE  NewestInv'
<1>1. /\ DOMAIN job = Goroutines /\ DOMAIN job[g] = Fields /\ DiffInv(job[g]) /\ FilesInv
      /\ g \in calm => job[g].dir.kind = "diff" /\ CalmInv(job[g])
      /\ UNCHANGED <<baselineVars, calm>>
  BY DEF PlansInv, JobInv, NewestInv, Latest
<1>2. job[g].at = "load" /\ job[g].dir.name = None /\ job[g].picked = None
  BY DEF Latest, At
<1>3. CASE Fails(g)
  BY <1>1, <1>3, FailsCalm
<1>4. CASE Listed # {} /\ job' = [job EXCEPT ![g].picked = Newest(Listed).name]
  <2>1. PICK b : /\ b \in Listed /\ b = Newest(Listed)
                 /\ \A c \in Listed : c.created <= b.created
    BY <1>1, <1>4, NewestListed
  <2>2. PICK f \in Files : Decoded(f) /\ b = files[f]
    BY <2>1, ListedMember
  <2>3. Sanitize[b.name] = f /\ b.created \in Nat
    BY <1>1, <2>2 DEF FilesInv, IsBaseline
  <2> DEFINE j == [job[g] EXCEPT !.picked = b.name]
  <2>4. /\ j.at = "load" /\ j.dir = job[g].dir /\ j.floor = job[g].floor
        /\ j.picked = b.name /\ j.base = job[g].base
    BY <1>1, <1>2 DEF Fields
  <2>5. job' = [job EXCEPT ![g] = j]
    BY <1>1, <1>4, <2>1
  <2> HIDE DEF j
  <2>6. DiffInv(j)
    BY <1>1, <1>2, <2>4 DEF DiffInv
  <2>7. g \in calm => j.dir.kind = "diff" /\ CalmInv(j)
    <3>1. SUFFICES ASSUME g \in calm PROVE CalmInv(j)
      BY <1>1, <2>4
    <3>2. job[g].floor <= b.created
      <4>1. CASE job[g].floor = 0
        BY <2>3, <4>1
      <4>2. ASSUME NEW c \in Listed, job[g].floor <= c.created PROVE job[g].floor <= b.created
        <5>1. c.created \in Nat /\ c.created <= b.created
          BY <1>1, <2>1, ListedMember DEF FilesInv, IsBaseline
        <5> QED
          BY <1>1, <2>3, <4>2, <5>1 DEF DiffInv
      <4> QED
        BY <1>1, <1>2, <3>1, <4>1, <4>2 DEF CalmInv
    <3>3. job[g].base = Absent
      BY <1>1, <1>2, <3>1 DEF DiffInv
    <3>4. \/ j.picked # None
          \/ \E c \in Listed : Own(c, j.dir) /\ j.floor <= c.created
      BY <1>2, <2>1, <2>4, <3>2 DEF Own
    <3> QED
      BY <2>2, <2>3, <2>4, <3>2, <3>3, <3>4 DEF CalmInv
  <2> QED
    BY <1>1, <2>5, <2>6, <2>7, StepKept
<1> QED
  BY <1>3, <1>4 DEF Latest

LEMMA LoadCalm ==
    ASSUME PlansInv, NewestInv, NEW g \in Goroutines, Load(g)
    PROVE  NewestInv'
<1>1. /\ DOMAIN job = Goroutines /\ DOMAIN job[g] = Fields /\ DiffInv(job[g]) /\ FilesInv
      /\ g \in calm => job[g].dir.kind = "diff" /\ CalmInv(job[g])
      /\ UNCHANGED <<baselineVars, calm>>
  BY DEF PlansInv, JobInv, NewestInv, Load, LoadBaseline
<1>2. PICK name : /\ LoadBaseline(g, name) /\ job[g].at = "load"
                  /\ \/ job[g].dir.name # None /\ name = job[g].dir.name
                     \/ job[g].picked # None /\ name = job[g].picked
  BY DEF Load, At
<1>3. CASE Fails(g)
  BY <1>1, <1>3, FailsCalm
<1>4. CASE /\ Decoded(Sanitize[name])
           /\ job' = [job EXCEPT ![g].at = "answered", ![g].base = files[Sanitize[name]]]
  <2> DEFINE f == Sanitize[name]
             b == files[f]
             j == [job[g] EXCEPT !.at = "answered", !.base = b]
  <2>1. /\ j.at = "answered" /\ j.dir = job[g].dir /\ j.floor = job[g].floor
        /\ j.picked = job[g].picked /\ j.base = b
    BY <1>1 DEF Fields
  <2>2. job' = [job EXCEPT ![g] = j]
    BY <1>1, <1>4
  <2> HIDE DEF j
  <2>3. DiffInv(j)
    <3>1. CASE job[g].dir.name = None
      BY <1>1, <2>1, <3>1 DEF DiffInv, Own
    <3>2. CASE job[g].dir.name # None
      <4>1. name \in Names /\ name = job[g].dir.name /\ f \in Files
        BY <1>1, <1>2, <3>2 DEF DiffInv, Files
      <4>2. Sanitize[b.name] = Sanitize[job[g].dir.name]
        BY <1>1, <1>4, <4>1 DEF FilesInv
      <4> QED
        BY <1>1, <2>1, <4>2 DEF DiffInv, Own
    <3> QED
      BY <3>1, <3>2
  <2>4. ASSUME g \in calm PROVE j.dir.kind = "diff" /\ CalmInv(j)
    <3>1. j.floor <= b.created
      <4>1. CASE job[g].picked # None
        BY <1>1, <1>2, <2>1, <2>4, <4>1 DEF CalmInv, DiffInv
      <4>2. CASE job[g].picked = None
        <5>1. name \in Names /\ name = job[g].dir.name /\ name # None /\ f \in Files
          BY <1>1, <1>2, <4>2 DEF DiffInv, Files
        <5>2. CASE job[g].floor = 0
          BY <1>1, <1>4, <2>1, <5>1, <5>2 DEF FilesInv, IsBaseline
        <5>3. ASSUME NEW c \in Listed, Own(c, job[g].dir), job[g].floor <= c.created
              PROVE  j.floor <= b.created
          <6>1. PICK h \in Files : Decoded(h) /\ c = files[h]
            BY ListedMember
          <6>2. h = f
            BY <1>1, <5>1, <5>3, <6>1 DEF FilesInv, Own
          <6> QED
            BY <2>1, <5>3, <6>1, <6>2
        <5> QED
          BY <1>1, <1>2, <2>4, <4>2, <5>2, <5>3 DEF CalmInv
      <4> QED
        BY <4>1, <4>2
    <3> QED
      BY <1>1, <2>1, <2>4, <3>1 DEF CalmInv
  <2> QED
    BY <1>1, <2>2, <2>3, <2>4, StepKept
<1> QED
  BY <1>2, <1>3, <1>4 DEF LoadBaseline
-----------------------------------------------------------------------------
LEMMA NewestHolds == Spec => []NewestInv
<1>1. Init => NewestInv
  <2> SUFFICES ASSUME Init PROVE NewestInv
    OBVIOUS
  <2>1. \A g \in Goroutines : job[g] = IdleJob
    BY DEF Init
  <2>2. DiffInv(IdleJob)
    BY DEF DiffInv, IdleJob
  <2>3. FilesInv
    BY DEF Init, BaselinesInit, FilesInv, Decoded, Absent
  <2> QED
    BY <2>1, <2>2, <2>3 DEF Init, NewestInv
<1>2. PlansInv /\ NewestInv /\ [Next]_vars => NewestInv'
  <2> SUFFICES ASSUME PlansInv, NewestInv, [Next]_vars PROVE NewestInv'
    OBVIOUS
  <2>1. CASE UNCHANGED vars
    <3>1. job' = job /\ files' = files /\ created' = created /\ now' = now /\ calm' = calm
      BY <2>1 DEF vars, baselineVars
    <3> QED
      BY <3>1 DEF NewestInv, FilesInv, DiffInv, CalmInv, Listed, Decoded
  <2>2. ASSUME NEW g \in Goroutines, Submit(g) PROVE NewestInv'
    BY <2>2, SubmitCalm
  <2>3. ASSUME NEW g \in Goroutines, Plain(g) PROVE NewestInv'
    BY <2>3, PlainCalm
  <2>4. ASSUME NEW g \in Goroutines, SaveBegins(g) PROVE NewestInv'
    BY <2>4, SaveBeginsCalm
  <2>5. ASSUME NEW g \in Goroutines, SaveEnds(g) PROVE NewestInv'
    BY <2>5, SaveEndsCalm
  <2>6. ASSUME NEW g \in Goroutines, Latest(g) PROVE NewestInv'
    BY <2>6, LatestCalm
  <2>7. ASSUME NEW g \in Goroutines, Load(g) PROVE NewestInv'
    BY <2>7, LoadCalm
  <2> QED
    BY <2>1, <2>2, <2>3, <2>4, <2>5, <2>6, <2>7 DEF Next, Plain
<1> QED
  BY <1>1, <1>2, PlansHolds, PTL DEF Spec

(* Whatever is saved, listed and loaded meanwhile, by whomever, a diff     *)
(* compares with a baseline of the name it was given, and LatestBaseline   *)
(* finds none older than the newest there was, unless one was replaced.    *)
THEOREM DiffsWithNewest == Spec => []ComparesWithNewest
<1>1. NewestInv => ComparesWithNewest
  BY DEF NewestInv, DiffInv, CalmInv, Own, ComparesWithNewest, Compared, Answered
<1> QED
  BY <1>1, NewestHolds, PTL
-----------------------------------------------------------------------------
(* Induction up to n.                                                      *)
LEMMA InductionUpTo ==
    ASSUME NEW n \in Nat, NEW H, 0 \in H, \A i \in 1..n : i - 1 \in H => i \in H
    PROVE  \A i \in 0..n : i \in H
<1> DEFINE T == (0..n) \ H
<1> SUFFICES ASSUME T # {} PROVE FALSE
  OBVIOUS
<1>1. T \subseteq Nat
  OBVIOUS
<1>2. PICK i \in T : \A m \in T : i <= m
  <2> HIDE DEF T
  <2> QED
    BY <1>1, Least
<1>3. i \in 1..n
  BY <1>2
<1>4. i - 1 \notin T /\ i - 1 \in 0..n
  BY <1>2, <1>3
<1>5. i \in H
  BY <1>3, <1>4
<1> QED
  BY <1>2, <1>5

(* What is defined step by step exists.                                    *)
Follows(f, n, S, base, step) ==
    f \in [0..n -> S] /\ f[0] = base /\ \A i \in 1..n : f[i] = step[i][f[i - 1]]

LEMMA Recursion ==
    ASSUME NEW n \in Nat, NEW S, NEW base \in S, NEW step \in [1..n -> [S -> S]]
    PROVE  \E f : Follows(f, n, S, base, step)
<1> DEFINE Good(k, f) == f[0] = base /\ \A i \in 1..k : f[i] = step[i][f[i - 1]]
           H == {k \in 0..n : \E f \in [0..k -> S] : Good(k, f)}
<1>1. 0 \in H
  <2> DEFINE f == [i \in 0..0 |-> base]
  <2>1. f \in [0..0 -> S] /\ Good(0, f)
    OBVIOUS
  <2> HIDE DEF f, Good
  <2> QED
    BY <2>1
<1>2. ASSUME NEW k \in 1..n, k - 1 \in H PROVE k \in H
  <2>1. PICK f \in [0..(k - 1) -> S] : Good(k - 1, f)
    BY <1>2
  <2> DEFINE e == step[k][f[k - 1]]
             h == [i \in 0..k |-> IF i = k THEN e ELSE f[i]]
  <2>2. e \in S
    <3>1. f[k - 1] \in S /\ step[k] \in [S -> S]
      OBVIOUS
    <3> QED
      BY <3>1
  <2>3. h \in [0..k -> S]
    <3> HIDE DEF e
    <3>1. ASSUME NEW i \in 0..k PROVE (IF i = k THEN e ELSE f[i]) \in S
      BY <2>2
    <3> QED
      BY <3>1
  <2>4. h[k] = e /\ \A i \in 0..(k - 1) : h[i] = f[i]
    <3> HIDE DEF e
    <3> QED
      OBVIOUS
  <2>5. h[0] = base
    <3> HIDE DEF h
    <3> QED
      BY <2>1, <2>4
  <2>6. ASSUME NEW i \in 1..k PROVE h[i] = step[i][h[i - 1]]
    <3> HIDE DEF h
    <3>1. h[i - 1] = f[i - 1]
      BY <2>4
    <3>2. CASE i = k
      BY <2>4, <3>1, <3>2
    <3>3. CASE i # k
      <4>1. i \in 1..(k - 1) /\ h[i] = f[i]
        BY <2>4, <3>3
      <4> QED
        BY <2>1, <3>1, <4>1
    <3> QED
      BY <3>2, <3>3
  <2>7. Good(k, h)
    <3> HIDE DEF h
    <3> QED
      BY <2>5, <2>6
  <2> HIDE DEF h, Good
  <2> QED
    BY <2>3, <2>7
<1>3. n \in H
  <2> HIDE DEF H
  <2>1. \A i \in 1..n : i - 1 \in H => i \in H
    BY <1>2
  <2>2. \A i \in 0..n : i \in H
    BY <1>1, <2>1, InductionUpTo, Zenon
  <2> QED
    BY <2>2
<1> QED
  BY <1>3 DEF Follows

(* The stacks of a parser, one for every row.                              *)
LEMMA OracleStacks ==
    ASSUME NEW rows, NEW n \in Nat, n = Len(rows),
           \A i \in 1..n : rows[i].depth \in Nat
    PROVE  /\ OracleStack(rows)[0] = <<>>
           /\ \A i \in 1..n : OracleStack(rows)[i] = OraclePush(rows, OracleStack(rows)[i - 1], i)
<1> DEFINE S == Seq(Nat)
           empty == <<>>
           step == [i \in 1..n |-> [before \in S |-> OraclePush(rows, before, i)]]
<1>1. ASSUME NEW i \in 1..n, NEW before \in S PROVE OraclePush(rows, before, i) \in S
  <2> DEFINE keep == IF Len(before) < rows[i].depth THEN Len(before) ELSE rows[i].depth
  <2>1. keep \in 0..Len(before)
    BY LenProperties
  <2> HIDE DEF keep
  <2>2. \A k \in 1..keep : before[k] \in Nat
    BY <2>1, ElementOfSeq
  <2>3. SubSeq(before, 1, keep) \in Seq(Nat)
    BY <2>1, <2>2, SubSeqProperties
  <2>4. Append(SubSeq(before, 1, keep), i) \in Seq(Nat)
    BY <2>3, AppendProperties
  <2> QED
    BY <2>4 DEF OraclePush, keep
<1>2. step \in [1..n -> [S -> S]]
  <2> HIDE DEF S
  <2> QED
    BY <1>1
<1>3. empty \in S
  OBVIOUS
<1>4. PICK f : Follows(f, n, S, empty, step)
  <2> HIDE DEF step, S, empty
  <2> QED
    BY <1>2, <1>3, Recursion
<1>5. \A i \in 1..n : f[i] = OraclePush(rows, f[i - 1], i)
  <2> TAKE i \in 1..n
  <2> HIDE DEF S
  <2>1. f[i - 1] \in S
    BY <1>4 DEF Follows
  <2> QED
    BY <1>4, <2>1 DEF Follows
<1>6. f = [i \in 0..n |-> IF i = 0 THEN <<>> ELSE OraclePush(rows, f[i - 1], i)]
  BY <1>4, <1>5 DEF Follows
<1> DEFINE stack == CHOOSE g : g =
                    [i \in 0..n |-> IF i = 0 THEN <<>> ELSE OraclePush(rows, g[i - 1], i)]
<1>7. stack = [i \in 0..n |-> IF i = 0 THEN <<>> ELSE OraclePush(rows, stack[i - 1], i)]
  BY <1>6
<1>8. OracleStack(rows) = stack
  BY DEF OracleStack
<1> HIDE DEF stack
<1>9. stack[0] = <<>>
  BY <1>7
<1>10. ASSUME NEW i \in 1..n PROVE stack[i] = OraclePush(rows, stack[i - 1], i)
  <2>1. i \in 0..n /\ i # 0
    OBVIOUS
  <2> QED
    BY <1>7, <2>1
<1> QED
  BY <1>8, <1>9, <1>10

(* GreatestOf is the greatest.                                             *)
LEMMA GreatestIs ==
    ASSUME NEW T, T \subseteq Nat, NEW top \in Nat, \A t \in T : t <= top
    PROVE  /\ T = {} => GreatestOf(T) = 0
           /\ T # {} => GreatestOf(T) \in T /\ \A t \in T : t <= GreatestOf(T)
<1>1. T # {} => \E n \in T : \A m \in T : m <= n
  BY Greatest
<1> QED
  BY <1>1 DEF GreatestOf

LEMMA Kept ==
    ASSUME NEW S, NEW before \in Seq(S), NEW k \in 0..Len(before), NEW i \in S
    PROVE  LET s == Append(SubSeq(before, 1, k), i)
           IN  /\ s \in Seq(S) /\ Len(s) = k + 1 /\ s[k + 1] = i
               /\ \A p \in 1..k : s[p] = before[p]
<1> DEFINE front == SubSeq(before, 1, k)
<1>1. k \in Nat /\ Len(before) \in Nat
  BY LenProperties
<1>2. \A p \in 1..k : before[p] \in S
  BY <1>1, ElementOfSeq
<1>3. /\ front \in Seq(S) /\ Len(front) = k
      /\ \A p \in 1..k : front[p] = before[p]
  <2>1. /\ front \in Seq(S) /\ Len(front) = IF 1 <= k THEN k - 1 + 1 ELSE 0
        /\ \A p \in 1..(k - 1 + 1) : front[p] = before[1 + p - 1]
    BY <1>1, <1>2, SubSeqProperties
  <2> HIDE DEF front
  <2> QED
    BY <1>1, <2>1
<1> HIDE DEF front
<1>4. /\ Append(front, i) \in Seq(S) /\ Len(Append(front, i)) = k + 1
      /\ Append(front, i)[k + 1] = i
      /\ \A p \in 1..k : Append(front, i)[p] = front[p]
  BY <1>3, AppendProperties
<1> QED
  BY <1>3, <1>4 DEF front

LEMMA AtMost ==
    /\ \A a, b, c \in Nat : a <= b /\ b < c => a < c
    /\ \A a, b, c \in Nat : a <= b /\ b <= c => a <= c
    /\ \A a, b \in Nat : a < b => a <= b
  OBVIOUS

Deep(rows, n) == \A i \in 1..n : rows[i].depth \in Nat

(* The stack after row i: the rows on it are below one another, the last is*)
(* row i, and every row so far is one of them or was closed by one.        *)
StackInv(rows, s, i) ==
    /\ s \in Seq(1..i)
    /\ i > 0 => Len(s) > 0 /\ s[Len(s)] = i
    /\ \A p, q \in 1..Len(s) :
          p < q => s[p] < s[q] /\ rows[s[p]].depth < rows[s[q]].depth
    /\ \A j \in 1..i : \E q \in 1..Len(s) :
          /\ j <= s[q] /\ rows[s[q]].depth <= rows[j].depth
          /\ \A p \in 1..(q - 1) : s[p] < j

LEMMA PushKeeps ==
    ASSUME NEW rows, NEW n \in Nat, Deep(rows, n), NEW i \in 1..n, NEW before,
           StackInv(rows, before, i - 1), NEW k \in 0..Len(before),
           k > 0 => rows[before[k]].depth < rows[i].depth,
           \A l \in (k + 1)..Len(before) : rows[i].depth <= rows[before[l]].depth
    PROVE  StackInv(rows, Append(SubSeq(before, 1, k), i), i)
<1> DEFINE s == Append(SubSeq(before, 1, k), i)
<1>1. before \in Seq(1..(i - 1)) /\ Len(before) \in Nat /\ k \in Nat
  <2>1. before \in Seq(1..(i - 1))
    BY DEF StackInv
  <2> QED
    BY <2>1, LenProperties
<1>2. \A p \in 1..Len(before) : before[p] \in 1..(i - 1)
  BY <1>1, ElementOfSeq
<1>3. before \in Seq(1..i)
  <2>1. \A p \in 1..Len(before) : before[p] \in 1..i
    BY <1>2
  <2>2. before \in [1..Len(before) -> 1..i]
    BY <1>1, <2>1
  <2> QED
    BY <1>1, <2>2
<1>4. /\ s \in Seq(1..i) /\ Len(s) = k + 1 /\ s[k + 1] = i
      /\ \A p \in 1..k : s[p] = before[p]
  BY <1>3, Kept
<1> HIDE DEF s
<1>a. /\ \A p \in 1..k : p \in 1..Len(before)
      /\ \A p \in 1..(k + 1) : p = k + 1 \/ p \in 1..k
      /\ \A p \in 1..Len(before) : p \in 1..k \/ p \in (k + 1)..Len(before)
  BY ONLY <1>1, k \in 0..Len(before)
<1>b. \A p \in 1..k : s[p] \in 1..(i - 1) /\ s[p] = before[p]
  BY <1>2, <1>4, <1>a
<1>c. \A p, q \in 1..Len(before) :
          p < q => before[p] < before[q] /\ rows[before[p]].depth < rows[before[q]].depth
  BY DEF StackInv
<1>5. ASSUME NEW p \in 1..Len(s), NEW q \in 1..Len(s), p < q
      PROVE  s[p] < s[q] /\ rows[s[p]].depth < rows[s[q]].depth
  <2>1. p \in 1..k /\ p \in 1..Len(before) /\ s[p] = before[p]
    <3>1. p # k + 1
      BY <1>1, <1>4, <1>5
    <3> QED
      BY <1>4, <1>a, <3>1
  <2>2. before[p] \in 1..(i - 1)
    BY <1>2, <2>1
  <2>3. CASE q \in 1..k
    <3>1. q \in 1..Len(before) /\ s[q] = before[q]
      BY <1>4, <1>a, <2>3
    <3>2. before[p] < before[q] /\ rows[before[p]].depth < rows[before[q]].depth
      BY <1>5, <1>c, <2>1, <3>1
    <3> QED
      BY <2>1, <3>1, <3>2
  <2>4. CASE q = k + 1
    <3>1. k \in 1..Len(before) /\ s[q] = i
      BY <1>1, <1>4, <2>1, <2>4
    <3>2. before[k] \in 1..(i - 1)
      BY <1>2, <3>1
    <3>3. before[p] \in 1..n /\ before[k] \in 1..n
      BY <2>2, <3>2
    <3>4. rows[before[p]].depth \in Nat /\ rows[before[k]].depth \in Nat /\ rows[i].depth \in Nat
      BY <3>3 DEF Deep
    <3>5. rows[before[p]].depth <= rows[before[k]].depth
      <4>1. CASE p = k
        BY <3>4, <4>1
      <4>2. CASE p < k
        <5>1. rows[before[p]].depth < rows[before[k]].depth
          BY <1>c, <2>1, <3>1, <4>2
        <5> QED
          BY <3>4, <5>1
      <4> QED
        BY <2>1, <4>1, <4>2
    <3>6. rows[before[k]].depth < rows[i].depth
      BY <3>1
    <3>7. rows[before[p]].depth < rows[i].depth
      <4> DEFINE a == rows[before[p]].depth
                 b == rows[before[k]].depth
                 c == rows[i].depth
      <4>1. a \in Nat /\ b \in Nat /\ c \in Nat /\ a <= b /\ b < c
        BY <3>4, <3>5, <3>6
      <4> HIDE DEF a, b, c
      <4>2. a < c
        BY ONLY <4>1
      <4> QED
        BY <4>2 DEF a, c
    <3>8. before[p] < i
      BY <2>2
    <3> QED
      BY <2>1, <3>1, <3>7, <3>8
  <2> QED
    BY <1>4, <1>a, <2>3, <2>4
<1>6. ASSUME NEW j \in 1..i
      PROVE  \E q \in 1..Len(s) :
                /\ j <= s[q] /\ rows[s[q]].depth <= rows[j].depth
                /\ \A p \in 1..(q - 1) : s[p] < j
  <2>0. k + 1 \in 1..Len(s) /\ rows[i].depth \in Nat
    BY <1>1, <1>4 DEF Deep
  <2>1. CASE j = i
    <3>1. \A p \in 1..k : s[p] < j
      BY <1>b, <2>1
    <3> QED
      BY <1>1, <1>4, <2>0, <2>1, <3>1
  <2>2. CASE j # i
    <3>1. j \in 1..(i - 1)
      BY <2>2
    <3>2. PICK q \in 1..Len(before) :
              /\ j <= before[q] /\ rows[before[q]].depth <= rows[j].depth
              /\ \A p \in 1..(q - 1) : before[p] < j
      BY <3>1 DEF StackInv
    <3>3. CASE q <= k
      <4>1. q \in 1..k /\ q \in 1..Len(s) /\ s[q] = before[q]
        <5>1. q \in 1..k
          BY <1>1, <3>3
        <5> QED
          BY <1>1, <1>4, <5>1
      <4>2. \A p \in 1..(q - 1) : s[p] < j
        <5>1. \A p \in 1..(q - 1) : p \in 1..k
          BY <1>1, <4>1
        <5> QED
          BY <1>b, <3>2, <5>1
      <4> QED
        BY <3>2, <4>1, <4>2
    <3>4. CASE k < q
      <4>1. rows[i].depth <= rows[before[q]].depth
        <5>1. q \in (k + 1)..Len(before)
          BY <1>1, <3>4
        <5> QED
          BY <5>1
      <4>2. before[q] \in 1..n /\ j \in 1..n
        BY <1>2
      <4>3. rows[before[q]].depth \in Nat /\ rows[j].depth \in Nat
        BY <4>2 DEF Deep
      <4>4. rows[i].depth <= rows[j].depth
        <5>1. rows[before[q]].depth <= rows[j].depth /\ rows[i].depth \in Nat
          BY <2>0, <3>2
        <5> QED
          BY <4>1, <4>3, <5>1, AtMost
      <4>5. \A p \in 1..k : s[p] < j
        <5>1. \A p \in 1..k : p \in 1..(q - 1)
          BY <1>1, <3>4
        <5> QED
          BY <1>b, <3>2, <5>1
      <4> QED
        <5>1. s[k + 1] = i /\ j <= i /\ k + 1 - 1 = k
          BY <1>1, <1>4
        <5> QED
          BY <2>0, <4>4, <4>5, <5>1
    <3> QED
      BY <1>1, <3>3, <3>4
  <2> QED
    BY <2>1, <2>2
<1>7. i > 0 => Len(s) > 0 /\ s[Len(s)] = i
  BY <1>1, <1>4
<1>8. StackInv(rows, s, i)
  BY <1>4, <1>5, <1>6, <1>7 DEF StackInv
<1> QED
  BY <1>8 DEF s

(* What is below the last row on the stack is the row around it.           *)
LEMMA TopIsEnclosed ==
    ASSUME NEW rows, NEW n \in Nat, Deep(rows, n), NEW i \in 1..n, NEW s, StackInv(rows, s, i)
    PROVE  (IF Len(s) = 1 THEN 0 ELSE s[Len(s) - 1]) = Enclosing(rows, i)
<1> DEFINE outer == {j \in 1..(i - 1) : rows[j].depth < rows[i].depth}
<1>1. /\ s \in Seq(1..i) /\ Len(s) \in Nat /\ Len(s) > 0 /\ s[Len(s)] = i
      /\ \A p \in 1..Len(s) : s[p] \in 1..i
  <2>1. s \in Seq(1..i) /\ Len(s) > 0 /\ s[Len(s)] = i
    BY DEF StackInv
  <2> QED
    BY <2>1, LenProperties, ElementOfSeq
<1>2. outer \subseteq Nat /\ \A j \in outer : j <= i
  OBVIOUS
<1>3. Enclosing(rows, i) = GreatestOf(outer)
  BY DEF Enclosing
<1>4. /\ outer = {} => GreatestOf(outer) = 0
      /\ outer # {} => GreatestOf(outer) \in outer /\ \A t \in outer : t <= GreatestOf(outer)
  <2>1. i \in Nat
    OBVIOUS
  <2> HIDE DEF outer
  <2> QED
    BY <1>2, <2>1, GreatestIs
<1>5. ASSUME NEW j \in outer
      PROVE  Len(s) > 1 /\ j <= s[Len(s) - 1]
  <2>1. PICK q \in 1..Len(s) : j <= s[q] /\ rows[s[q]].depth <= rows[j].depth
    BY DEF StackInv
  <2>2. q # Len(s)
    <3>1. rows[i].depth \in Nat /\ rows[j].depth \in Nat
      BY DEF Deep
    <3> QED
      BY <1>1, <2>1, <3>1
  <2>3. q \in 1..(Len(s) - 1) /\ Len(s) > 1 /\ Len(s) - 1 \in 1..Len(s)
    BY <1>1, <2>2
  <2>4. s[q] <= s[Len(s) - 1]
    <3>1. CASE q = Len(s) - 1
      BY <1>1, <3>1
    <3>2. CASE q < Len(s) - 1
      <4>1. s[q] < s[Len(s) - 1]
        BY <2>3, <3>2 DEF StackInv
      <4> QED
        <5> DEFINE a == s[q]
                   b == s[Len(s) - 1]
        <5>0. \A k \in 1..Len(s) : s[k] \in Nat
          BY <1>1
        <5>1. a \in Nat /\ b \in Nat /\ a < b
          BY <2>3, <4>1, <5>0
        <5> HIDE DEF a, b
        <5>2. a <= b
          BY ONLY <5>1
        <5> QED
          BY <5>2 DEF a, b
    <3> QED
      BY <1>1, <2>3, <3>1, <3>2
  <2>5. s[q] \in Nat /\ s[Len(s) - 1] \in Nat
    <3>1. \A p \in 1..Len(s) : s[p] \in Nat
      BY <1>1
    <3> QED
      BY <2>3, <3>1
  <2>6. j \in Nat
    OBVIOUS
  <2> QED
    BY <2>1, <2>3, <2>4, <2>5, <2>6
<1>6. CASE Len(s) = 1
  <2>1. outer = {}
    <3> HIDE DEF outer
    <3> QED
      BY <1>5, <1>6
  <2> QED
    BY <1>3, <1>4, <1>6, <2>1
<1>7. CASE Len(s) # 1
  <2>1. Len(s) - 1 \in 1..Len(s) /\ Len(s) \in 1..Len(s) /\ Len(s) - 1 < Len(s)
    <3>1. \A m \in Nat : m > 0 /\ m # 1 => m - 1 \in 1..m /\ m \in 1..m /\ m - 1 < m
      OBVIOUS
    <3> QED
      BY <1>1, <1>7, <3>1
  <2>2. s[Len(s) - 1] < s[Len(s)] /\ rows[s[Len(s) - 1]].depth < rows[s[Len(s)]].depth
    BY <2>1 DEF StackInv
  <2>3. s[Len(s) - 1] \in outer
    BY <1>1, <2>1, <2>2
  <2>4. GreatestOf(outer) \in outer /\ s[Len(s) - 1] <= GreatestOf(outer)
    BY <1>4, <2>3
  <2>5. GreatestOf(outer) <= s[Len(s) - 1]
    <3> HIDE DEF outer
    <3> QED
      BY <1>5, <2>4
  <2>6. s[Len(s) - 1] \in Nat /\ GreatestOf(outer) \in Nat
    BY <1>1, <1>2, <2>1, <2>4
  <2>7. s[Len(s) - 1] = GreatestOf(outer)
    BY <2>4, <2>5, <2>6
  <2> QED
    BY <1>3, <1>7, <2>7
<1> QED
  BY <1>6, <1>7

LEMMA NothingStacked == ASSUME NEW rows PROVE StackInv(rows, <<>>, 0)
BY DEF StackInv

LEMMA IteratorPushKeeps ==
    ASSUME NEW rows, NEW n \in Nat, Deep(rows, n), NEW i \in 1..n,
           NEW before, StackInv(rows, before, i - 1)
    PROVE  StackInv(rows, IteratorPush(rows, before, i), i)
<1> DEFINE outer == {k \in DOMAIN before : rows[before[k]].depth < rows[i].depth}
           keep == GreatestOf(outer)
<1>1. /\ before \in Seq(1..(i - 1)) /\ Len(before) \in Nat /\ DOMAIN before = 1..Len(before)
      /\ \A p \in 1..Len(before) : before[p] \in 1..(i - 1)
  <2>1. before \in Seq(1..(i - 1))
    BY DEF StackInv
  <2> QED
    BY <2>1, LenProperties, ElementOfSeq
<1>2. outer \subseteq Nat /\ \A k \in outer : k <= Len(before)
  BY <1>1
<1>3. /\ outer = {} => keep = 0
      /\ outer # {} => keep \in outer /\ \A k \in outer : k <= keep
  <2> HIDE DEF outer
  <2> QED
    BY <1>1, <1>2, GreatestIs
<1>4. IteratorPush(rows, before, i) = Append(SubSeq(before, 1, keep), i)
  BY DEF IteratorPush
<1> HIDE DEF keep
<1>5. /\ keep \in 0..Len(before) /\ keep \in Nat
      /\ keep > 0 => rows[before[keep]].depth < rows[i].depth
  <2>1. CASE outer = {}
    BY <1>1, <1>3, <2>1
  <2>2. CASE outer # {}
    BY <1>1, <1>3, <2>2
  <2> QED
    BY <2>1, <2>2
<1>6. ASSUME NEW l \in (keep + 1)..Len(before)
      PROVE  rows[i].depth <= rows[before[l]].depth
  <2>1. l \in 1..Len(before) /\ keep < l
    BY <1>1, <1>5
  <2>2. before[l] \in 1..n
    BY <1>1, <2>1
  <2>3. rows[i].depth \in Nat /\ rows[before[l]].depth \in Nat
    BY <2>2 DEF Deep
  <2>4. l \notin outer
    <3> HIDE DEF outer
    <3> QED
      BY <1>3, <1>5, <2>1
  <2>5. ~(rows[before[l]].depth < rows[i].depth)
    BY <1>1, <2>1, <2>4
  <2> QED
    BY <2>3, <2>5
<1> QED
  BY <1>4, <1>5, <1>6, PushKeeps

LEMMA IteratorStacks ==
    ASSUME NEW rows, NEW n \in Nat, n = Len(rows)
    PROVE  /\ IteratorStack(rows)[0] = <<>>
           /\ \A i \in 1..n :
                 IteratorStack(rows)[i] = IteratorPush(rows, IteratorStack(rows)[i - 1], i)
<1> DEFINE S == Seq(Nat)
           empty == <<>>
           step == [i \in 1..n |-> [before \in S |-> IteratorPush(rows, before, i)]]
<1>1. ASSUME NEW i \in 1..n, NEW before \in S PROVE IteratorPush(rows, before, i) \in S
  <2> DEFINE outer == {k \in DOMAIN before : rows[before[k]].depth < rows[i].depth}
             keep == GreatestOf(outer)
  <2>1. keep \in 0..Len(before)
    <3>1. Len(before) \in Nat /\ outer \subseteq 1..Len(before)
      BY LenProperties
    <3>2. outer \subseteq Nat /\ \A k \in outer : k <= Len(before)
      BY <3>1
    <3>3. (outer = {} /\ keep = 0) \/ keep \in outer
      <4> HIDE DEF outer
      <4> QED
        BY <3>1, <3>2, GreatestIs
    <3> HIDE DEF keep
    <3> QED
      BY <3>1, <3>3
  <2> HIDE DEF keep
  <2>2. \A k \in 1..keep : before[k] \in Nat
    BY <2>1, ElementOfSeq
  <2>3. SubSeq(before, 1, keep) \in Seq(Nat)
    BY <2>1, <2>2, SubSeqProperties
  <2>4. Append(SubSeq(before, 1, keep), i) \in Seq(Nat)
    BY <2>3, AppendProperties
  <2> QED
    BY <2>4 DEF IteratorPush, keep
<1>2. step \in [1..n -> [S -> S]]
  <2> HIDE DEF S
  <2> QED
    BY <1>1
<1>3. empty \in S
  OBVIOUS
<1>4. PICK f : Follows(f, n, S, empty, step)
  <2> HIDE DEF step, S, empty
  <2> QED
    BY <1>2, <1>3, Recursion
<1>5. \A i \in 1..n : f[i] = IteratorPush(rows, f[i - 1], i)
  <2> TAKE i \in 1..n
  <2> HIDE DEF S
  <2>1. f[i - 1] \in S
    BY <1>4 DEF Follows
  <2> QED
    BY <1>4, <2>1 DEF Follows
<1>6. f = [i \in 0..n |-> IF i = 0 THEN <<>> ELSE IteratorPush(rows, f[i - 1], i)]
  BY <1>4, <1>5 DEF Follows
<1> DEFINE stack == CHOOSE g : g =
                    [i \in 0..n |-> IF i = 0 THEN <<>> ELSE IteratorPush(rows, g[i - 1], i)]
<1>7. stack = [i \in 0..n |-> IF i = 0 THEN <<>> ELSE IteratorPush(rows, stack[i - 1], i)]
  BY <1>6
<1>8. IteratorStack(rows) = stack
  BY DEF IteratorStack
<1> HIDE DEF stack
<1>9. stack[0] = <<>>
  BY <1>7
<1>10. ASSUME NEW i \in 1..n PROVE stack[i] = IteratorPush(rows, stack[i - 1], i)
  <2>1. i \in 0..n /\ i # 0
    OBVIOUS
  <2> QED
    BY <1>7, <2>1
<1> QED
  BY <1>8, <1>9, <1>10

LEMMA IteratorStacksKept ==
    ASSUME NEW rows, NEW n \in Nat, n = Len(rows), Deep(rows, n)
    PROVE  \A i \in 1..n : StackInv(rows, IteratorStack(rows)[i], i)
<1> DEFINE s == IteratorStack(rows)
           H == {i \in 0..n : StackInv(rows, s[i], i)}
<1>1. s[0] = <<>> /\ \A i \in 1..n : s[i] = IteratorPush(rows, s[i - 1], i)
  BY IteratorStacks
<1> HIDE DEF s
<1>2. 0 \in H
  BY <1>1, NothingStacked
<1>3. ASSUME NEW i \in 1..n, i - 1 \in H PROVE i \in H
  <2>1. StackInv(rows, s[i - 1], i - 1)
    BY <1>3
  <2>2. StackInv(rows, IteratorPush(rows, s[i - 1], i), i)
    BY <2>1, IteratorPushKeeps
  <2>3. i \in 0..n
    OBVIOUS
  <2> QED
    BY <1>1, <2>2, <2>3
<1>4. \A i \in 0..n : i \in H
  <2> HIDE DEF H
  <2>1. \A i \in 1..n : i - 1 \in H => i \in H
    BY <1>3
  <2> QED
    BY <1>2, <2>1, InductionUpTo, Zenon
<1>5. \A i \in 1..n : StackInv(rows, s[i], i)
  <2> TAKE i \in 1..n
  <2>1. i \in 0..n
    OBVIOUS
  <2> QED
    BY <1>4, <2>1
<1> QED
  BY <1>5 DEF s

(* The rows on Oracle's stack have the depths from 0 on.                   *)
OracleInv(rows, s, i) ==
    /\ StackInv(rows, s, i)
    /\ i > 0 => Len(s) = rows[i].depth + 1
    /\ \A p \in 1..Len(s) : rows[s[p]].depth = p - 1

Indented(rows, n) ==
    /\ n > 0 => rows[1].depth = 0
    /\ \A i \in 2..n : rows[i].depth \in 1..(rows[i - 1].depth + 1)

LEMMA OraclePushKeeps ==
    ASSUME NEW rows, NEW n \in Nat, Deep(rows, n), Indented(rows, n), NEW i \in 1..n,
           NEW before, OracleInv(rows, before, i - 1), i = 1 => Len(before) = 0
    PROVE  OracleInv(rows, OraclePush(rows, before, i), i)
<1> DEFINE keep == IF Len(before) < rows[i].depth THEN Len(before) ELSE rows[i].depth
<1>1. /\ before \in Seq(1..(i - 1)) /\ Len(before) \in Nat
      /\ \A p \in 1..Len(before) : before[p] \in 1..(i - 1)
  <2>1. before \in Seq(1..(i - 1))
    BY DEF OracleInv, StackInv
  <2> QED
    BY <2>1, LenProperties, ElementOfSeq
<1>2. rows[i].depth \in Nat
  BY DEF Deep
<1>3. rows[i].depth <= Len(before)
  <2>1. CASE i = 1
    BY <2>1, <1>1 DEF Indented
  <2>2. CASE i # 1
    <3>1. i \in 2..n /\ i - 1 \in 1..n /\ i - 1 > 0
      BY <2>2
    <3>2. rows[i].depth \in 1..(rows[i - 1].depth + 1) /\ rows[i - 1].depth \in Nat
      BY <3>1 DEF Indented, Deep
    <3>3. Len(before) = rows[i - 1].depth + 1
      BY <3>1 DEF OracleInv
    <3> QED
      BY <3>2, <3>3
  <2> QED
    BY <2>1, <2>2
<1>4. keep = rows[i].depth /\ keep \in 0..Len(before)
  BY <1>1, <1>2, <1>3
<1> DEFINE s == Append(SubSeq(before, 1, keep), i)
<1>5. OraclePush(rows, before, i) = s
  BY DEF OraclePush
<1> HIDE DEF keep
<1>6. \A p \in 1..Len(before) : rows[before[p]].depth = p - 1
  BY DEF OracleInv
<1>7. keep > 0 => rows[before[keep]].depth < rows[i].depth
  <2>1. keep > 0 => keep \in 1..Len(before)
    BY <1>1, <1>4
  <2>2. keep \in Nat
    BY <1>2, <1>4
  <2> QED
    BY <1>4, <1>6, <2>1, <2>2
<1>8. ASSUME NEW l \in (keep + 1)..Len(before)
      PROVE  rows[i].depth <= rows[before[l]].depth
  <2>1. l \in 1..Len(before) /\ keep <= l - 1
    BY <1>1, <1>2, <1>4
  <2> QED
    BY <1>4, <1>6, <2>1
<1>9. StackInv(rows, s, i)
  <2>1. StackInv(rows, before, i - 1)
    BY DEF OracleInv
  <2> HIDE DEF s
  <2> QED
    BY <1>4, <1>7, <1>8, <2>1, PushKeeps DEF s
<1>10. Len(s) = keep + 1 /\ s[keep + 1] = i /\ \A p \in 1..keep : s[p] = before[p]
  <2>1. before \in Seq(1..i)
    <3>1. \A p \in 1..Len(before) : before[p] \in 1..i
      BY <1>1
    <3>2. before \in [1..Len(before) -> 1..i]
      BY <1>1, <3>1
    <3> QED
      BY <1>1, <3>2
  <2>2. i \in 1..i
    OBVIOUS
  <2>3. ASSUME NEW k \in 0..Len(before)
        PROVE  LET t == Append(SubSeq(before, 1, k), i)
               IN  Len(t) = k + 1 /\ t[k + 1] = i /\ \A p \in 1..k : t[p] = before[p]
    BY <2>1, <2>2, Kept
  <2>4. keep \in 0..Len(before)
    BY <1>4
  <2> QED
    BY <2>3, <2>4
<1> HIDE DEF s
<1>11. ASSUME NEW p \in 1..Len(s) PROVE rows[s[p]].depth = p - 1
  <2>1. keep \in Nat
    BY <1>2, <1>4
  <2>2. CASE p = keep + 1
    BY <1>4, <1>10, <2>1, <2>2
  <2>3. CASE p # keep + 1
    <3>1. p \in 1..keep
      BY <1>10, <2>1, <2>3
    <3>2. p \in 1..Len(before)
      BY <1>1, <1>4, <2>1, <3>1
    <3> QED
      BY <1>6, <1>10, <3>1, <3>2
  <2> QED
    BY <2>2, <2>3
<1>12. OracleInv(rows, s, i)
  BY <1>4, <1>9, <1>10, <1>11 DEF OracleInv
<1> QED
  BY <1>5, <1>12

LEMMA OracleStacksKept ==
    ASSUME NEW rows, NEW n \in Nat, n = Len(rows), Deep(rows, n), Indented(rows, n)
    PROVE  \A i \in 1..n : OracleInv(rows, OracleStack(rows)[i], i)
<1> DEFINE s == OracleStack(rows)
           H == {i \in 0..n : OracleInv(rows, s[i], i) /\ (i = 0 => Len(s[i]) = 0)}
<1>1. s[0] = <<>> /\ \A i \in 1..n : s[i] = OraclePush(rows, s[i - 1], i)
  BY OracleStacks DEF Deep
<1> HIDE DEF s
<1>2. 0 \in H
  <2>1. Len(<<>>) = 0 /\ s[0] = <<>>
    BY <1>1
  <2>2. OracleInv(rows, <<>>, 0)
    BY NothingStacked DEF OracleInv
  <2> QED
    BY <2>1, <2>2
<1>3. ASSUME NEW i \in 1..n, i - 1 \in H PROVE i \in H
  <2>1. OracleInv(rows, s[i - 1], i - 1) /\ (i = 1 => Len(s[i - 1]) = 0)
    BY <1>3
  <2>2. OracleInv(rows, OraclePush(rows, s[i - 1], i), i)
    BY <2>1, OraclePushKeeps
  <2>3. i \in 0..n /\ i # 0
    OBVIOUS
  <2> QED
    BY <1>1, <2>2, <2>3
<1>4. \A i \in 0..n : i \in H
  <2> HIDE DEF H
  <2>1. \A i \in 1..n : i - 1 \in H => i \in H
    BY <1>3
  <2> QED
    BY <1>2, <2>1, InductionUpTo, Zenon
<1>5. \A i \in 1..n : OracleInv(rows, s[i], i)
  <2> TAKE i \in 1..n
  <2>1. i \in 0..n
    OBVIOUS
  <2> QED
    BY <1>4, <2>1
<1> QED
  BY <1>5 DEF s

LEMMA SameLength ==
    ASSUME NEW m \in Nat, NEW n \in Nat, 1..m = 1..n
    PROVE  m = n
<1>1. CASE m < n
  <2>1. m + 1 \in 1..n /\ m + 1 \notin 1..m
    BY <1>1
  <2> QED
    BY <2>1
<1>2. CASE n < m
  <2>1. n + 1 \in 1..m /\ n + 1 \notin 1..n
    BY <1>2
  <2> QED
    BY <2>1
<1> QED
  BY <1>1, <1>2

(* One element more.                                                       *)
LEMMA Appended ==
    ASSUME NEW n \in Nat, NEW f, f = [i \in 1..n |-> f[i]], NEW e
    PROVE  /\ Len(f) = n /\ Len(Append(f, e)) = n + 1 /\ DOMAIN Append(f, e) = 1..(n + 1)
           /\ \A i \in 1..n : Append(f, e)[i] = f[i]
           /\ Append(f, e)[n + 1] = e
<1> DEFINE S == {f[i] : i \in 1..n} \union {e}
<1>1. f \in [1..n -> S]
  BY Zenon
<1>2. f \in Seq(S)
  <2> HIDE DEF S
  <2> QED
    BY <1>1
<1>3. Len(f) = n
  <2>1. Len(f) \in Nat /\ DOMAIN f = 1..Len(f)
    <3> HIDE DEF S
    <3> QED
      BY <1>2, LenProperties
  <2>2. DOMAIN f = 1..n
    OBVIOUS
  <2> QED
    BY <2>1, <2>2, SameLength
<1>4. e \in S
  OBVIOUS
<1>5. /\ Append(f, e) \in Seq(S) /\ Len(Append(f, e)) = n + 1
      /\ \A i \in 1..n : Append(f, e)[i] = f[i]
      /\ Append(f, e)[n + 1] = e
  <2> HIDE DEF S
  <2> QED
    BY <1>2, <1>3, <1>4, AppendProperties
<1>6. DOMAIN Append(f, e) = 1..(n + 1)
  <2> HIDE DEF S
  <2> QED
    BY <1>5, LenProperties
<1> QED
  BY <1>3, <1>5, <1>6

(* Each node but the root has the parent that is named, or the root if     *)
(* none is.                                                                *)
TreeOf(node, parent, root, n, named) ==
    /\ \/ DOMAIN node = 1..n /\ Len(node) = n
       \/ DOMAIN node = 1..(n + 1) /\ Len(node) = n + 1 /\ root = n + 1
    /\ \A i \in 1..n :
          \/ parent[i] = named[i] /\ parent[i] # 0
          \/ named[i] = 0 /\ parent[i] \in {0, root}
    /\ {i \in DOMAIN node : parent[i] = 0} = {root}

LEMMA RootedKeeps ==
    ASSUME NEW n \in Nat \ {0}, NEW nodes, nodes = [i \in 1..n |-> nodes[i]],
           NEW parents, parents = [i \in 1..n |-> parents[i]], NEW common
    PROVE  LET t == Rooted(nodes, parents, common)
           IN  TreeOf(t.node, t.parent, t.root, n, parents)
<1> DEFINE roots == {i \in DOMAIN parents : parents[i] = 0}
           top == Len(nodes) + 1
           up == [i \in DOMAIN parents |-> IF i \in roots THEN top ELSE parents[i]]
           one == [node |-> nodes, parent |-> parents, root |-> CHOOSE i \in roots : TRUE]
           many == [node |-> Append(nodes, Node(common, "", "", 0)),
                    parent |-> Append(up, 0), root |-> top]
<1>1. DOMAIN nodes = 1..n /\ DOMAIN parents = 1..n
  OBVIOUS
<1>2. Rooted(nodes, parents, common) = IF Cardinality(roots) = 1 THEN one ELSE many
  BY DEF Rooted
<1>3. CASE Cardinality(roots) = 1
  <2>1. IsFiniteSet(roots)
    <3>1. IsFiniteSet(1..n)
      <4>1. 1 \in Int /\ n \in Int
        OBVIOUS
      <4> QED
        BY <4>1, FS_Interval
    <3>2. roots \subseteq 1..n
      BY <1>1
    <3> QED
      BY <3>1, <3>2, FS_Subset
  <2>2. PICK x : roots = {x}
    <3> HIDE DEF roots
    <3> QED
      BY <1>3, <2>1, FS_Singleton
  <2>3. (CHOOSE i \in roots : TRUE) = x
    BY <2>2
  <2>4. one.node = nodes /\ one.parent = parents /\ one.root = x
    BY <2>3
  <2>5. TreeOf(nodes, parents, x, n, parents)
    <3>1. Len(nodes) = n
      BY Appended
    <3> QED
      BY <1>1, <2>2, <3>1 DEF TreeOf
  <2> HIDE DEF one, many, roots
  <2> QED
    BY <1>2, <1>3, <2>4, <2>5
<1>4. CASE Cardinality(roots) # 1
  <2>1. /\ Len(nodes) = n /\ DOMAIN Append(nodes, Node(common, "", "", 0)) = 1..(n + 1)
        /\ Len(Append(nodes, Node(common, "", "", 0))) = n + 1
    BY Appended
  <2>2. up = [i \in 1..n |-> up[i]]
    BY <1>1
  <2>3. /\ \A i \in 1..n : Append(up, 0)[i] = up[i]
        /\ Append(up, 0)[n + 1] = 0
    <3> HIDE DEF up
    <3> QED
      BY <2>2, Appended
  <2>4. /\ many.node = Append(nodes, Node(common, "", "", 0))
        /\ many.parent = Append(up, 0) /\ many.root = n + 1
    BY <2>1
  <2>5. \A i \in 1..n : up[i] = IF parents[i] = 0 THEN n + 1 ELSE parents[i]
    BY <1>1, <2>1
  <2>6. TreeOf(Append(nodes, Node(common, "", "", 0)), Append(up, 0), n + 1, n, parents)
    <3> HIDE DEF up
    <3>1. \A i \in 1..n : Append(up, 0)[i] = IF parents[i] = 0 THEN n + 1 ELSE parents[i]
      BY <2>3, <2>5
    <3> DEFINE all == Append(up, 0)
    <3>2. ASSUME NEW i \in 1..n PROVE all[i] # 0
      <4>1. CASE parents[i] = 0
        <5>1. all[i] = n + 1
          BY <3>1, <4>1
        <5>2. n + 1 # 0
          OBVIOUS
        <5> HIDE DEF all
        <5> QED
          BY <5>1, <5>2
      <4>2. CASE parents[i] # 0
        BY <3>1, <4>2
      <4> QED
        BY <4>1, <4>2
    <3>3. {i \in 1..(n + 1) : all[i] = 0} = {n + 1}
      <4>1. all[n + 1] = 0
        BY <2>3
      <4>2. \A i \in 1..(n + 1) : i = n + 1 \/ i \in 1..n
        OBVIOUS
      <4>3. n + 1 \in 1..(n + 1)
        OBVIOUS
      <4> HIDE DEF all
      <4> QED
        BY <3>2, <4>1, <4>2, <4>3
    <3> QED
      BY <2>1, <3>1, <3>3 DEF TreeOf
  <2> HIDE DEF one, many, roots
  <2> QED
    BY <1>2, <1>4, <2>4, <2>6
<1> QED
  BY <1>3, <1>4

(* The row around a row.                                                   *)
LEMMA EnclosingIs ==
    ASSUME NEW rows, NEW i \in Nat \ {0}
    PROVE  LET e == Enclosing(rows, i)
           IN  /\ e \in 0..(i - 1)
               /\ e # 0 => rows[e].depth < rows[i].depth
               /\ \A j \in 1..(i - 1) : rows[j].depth < rows[i].depth => j <= e
<1> DEFINE T == {j \in 1..(i - 1) : rows[j].depth < rows[i].depth}
<1>1. Enclosing(rows, i) = GreatestOf(T)
  BY DEF Enclosing
<1>2. T \subseteq 1..(i - 1) /\ T \subseteq Nat
  OBVIOUS
<1>3. i - 1 \in Nat /\ 0 \in 0..(i - 1) /\ 1..(i - 1) \subseteq 0..(i - 1)
  OBVIOUS
<1>4. \A t \in T : t <= i - 1
  BY <1>2
<1>5. CASE T = {}
  <2>1. GreatestOf(T) = 0
    BY <1>5 DEF GreatestOf
  <2> QED
    BY <1>1, <1>3, <1>5, <2>1
<1>6. CASE T # {}
  <2>1. GreatestOf(T) \in T /\ \A t \in T : t <= GreatestOf(T)
    <3> HIDE DEF T
    <3> QED
      BY <1>2, <1>3, <1>4, <1>6, GreatestIs
  <2> QED
    BY <1>1, <2>1
<1> QED
  BY <1>5, <1>6

(* The rows visited up to i: in order, from the first on, each but the     *)
(* first with the one around it.                                           *)
VisitInv(rows, s, i) ==
    /\ s \in Seq(1..i)
    /\ i > 0 => Len(s) > 0 /\ s[1] = 1
    /\ \A p, q \in 1..Len(s) : p < q => s[p] < s[q]
    /\ \A q \in 2..Len(s) : \E p \in 1..Len(s) : s[p] = Enclosing(rows, s[q])

LEMMA FollowedInside ==
    ASSUME NEW d, NEW rows, NEW i, NEW j \in Followed(d, rows, i)
    PROVE  Enclosing(rows, j) = i
<1>1. MySQLFollowed(rows, i) \subseteq Inside(rows, i)
  BY DEF MySQLFollowed, Inner
<1>2. j \in Inside(rows, i)
  BY <1>1 DEF Followed
<1> QED
  BY <1>2 DEF Inside

LEMMA VisitKeeps ==
    ASSUME NEW d, NEW rows, NEW i \in Nat \ {0}, NEW before, VisitInv(rows, before, i - 1)
    PROVE  VisitInv(rows, Visit(d, rows, before, i), i)
<1> DEFINE goes == i = 1 \/ \E k \in DOMAIN before : i \in Followed(d, rows, before[k])
           s == Append(before, i)
           m == Len(before)
<1>1. Visit(d, rows, before, i) = IF goes THEN s ELSE before
  BY DEF Visit
<1>2. before \in Seq(1..(i - 1)) /\ m \in Nat /\ \A p \in 1..m : before[p] \in 1..(i - 1)
  <2>1. before \in Seq(1..(i - 1))
    BY DEF VisitInv
  <2> QED
    BY <2>1, LenProperties, ElementOfSeq
<1>3. before \in Seq(1..i) /\ DOMAIN before = 1..m
  <2>1. \A p \in 1..m : before[p] \in 1..i
    BY <1>2
  <2>2. before \in [1..m -> 1..i]
    BY <1>2, <2>1
  <2> QED
    BY <1>2, <2>2
<1>4. CASE ~goes
  <2>1. i - 1 > 0
    BY <1>4
  <2>2. VisitInv(rows, before, i)
    <3> HIDE DEF goes
    <3> QED
      BY <1>3, <2>1 DEF VisitInv
  <2> QED
    BY <1>1, <1>4, <2>2
<1>5. CASE goes
  <2>1. /\ s \in Seq(1..i) /\ Len(s) = m + 1 /\ s[m + 1] = i
        /\ \A p \in 1..m : s[p] = before[p]
    <3>1. i \in 1..i
      OBVIOUS
    <3> QED
      BY <1>3, <3>1, AppendProperties
  <2>2. i = 1 => m = 0
    BY <1>2
  <2>3. s[1] = 1
    <3>1. CASE m = 0
      <4>1. i = 1
        <5>1. i > 1 => i - 1 > 0
          OBVIOUS
        <5> QED
          BY <3>1, <5>1 DEF VisitInv
      <4> QED
        BY <2>1, <3>1, <4>1
    <3>2. CASE m # 0
      <4>1. 1 \in 1..m /\ i - 1 > 0
        BY <1>2, <2>2, <3>2
      <4> QED
        BY <2>1, <4>1 DEF VisitInv
    <3> QED
      BY <3>1, <3>2
  <2>4. ASSUME NEW p \in 1..Len(s), NEW q \in 1..Len(s), p < q PROVE s[p] < s[q]
    <3>1. p \in 1..m
      BY <1>2, <2>1, <2>4
    <3>2. CASE q = m + 1
      BY <1>2, <2>1, <3>1, <3>2
    <3>3. CASE q # m + 1
      <4>1. q \in 1..m
        BY <1>2, <2>1, <3>3
      <4>2. before[p] < before[q]
        BY <2>4, <3>1, <4>1 DEF VisitInv
      <4> QED
        BY <2>1, <3>1, <4>1, <4>2
    <3> QED
      BY <3>2, <3>3
  <2>5. ASSUME NEW q \in 2..Len(s) PROVE \E p \in 1..Len(s) : s[p] = Enclosing(rows, s[q])
    <3>1. CASE q = m + 1
      <4>1. i # 1
        BY <2>1, <2>2, <3>1
      <4>2. PICK k \in 1..m : i \in Followed(d, rows, before[k])
        BY <1>3, <1>5, <4>1
      <4>3. Enclosing(rows, i) = before[k]
        BY <4>2, FollowedInside
      <4>4. k \in 1..Len(s) /\ s[k] = before[k]
        BY <1>2, <2>1
      <4> QED
        BY <2>1, <3>1, <4>3, <4>4
    <3>2. CASE q # m + 1
      <4>1. q \in 2..m /\ q \in 1..m
        BY <1>2, <2>1, <3>2
      <4>2. PICK p \in 1..m : before[p] = Enclosing(rows, before[q])
        BY <4>1 DEF VisitInv
      <4>3. p \in 1..Len(s) /\ s[p] = before[p] /\ s[q] = before[q]
        BY <1>2, <2>1, <4>1
      <4> QED
        BY <4>2, <4>3
    <3> QED
      BY <3>1, <3>2
  <2>6. Len(s) > 0
    BY <1>2, <2>1
  <2>7. VisitInv(rows, s, i)
    <3> HIDE DEF s, goes
    <3> QED
      BY <2>1, <2>3, <2>4, <2>5, <2>6 DEF VisitInv
  <2> QED
    BY <1>1, <1>5, <2>7
<1> QED
  BY <1>4, <1>5

LEMMA Visits ==
    ASSUME NEW d, NEW rows, NEW n \in Nat, n = Len(rows)
    PROVE  /\ Visited(d, rows)[0] = <<>>
           /\ \A i \in 1..n : Visited(d, rows)[i] = Visit(d, rows, Visited(d, rows)[i - 1], i)
<1> DEFINE S == Seq(Nat)
           empty == <<>>
           step == [i \in 1..n |-> [before \in S |-> Visit(d, rows, before, i)]]
<1>1. ASSUME NEW i \in 1..n, NEW before \in S PROVE Visit(d, rows, before, i) \in S
  BY AppendProperties DEF Visit
<1>2. step \in [1..n -> [S -> S]]
  <2> HIDE DEF S
  <2> QED
    BY <1>1
<1>3. empty \in S
  OBVIOUS
<1>4. PICK f : Follows(f, n, S, empty, step)
  <2> HIDE DEF step, S, empty
  <2> QED
    BY <1>2, <1>3, Recursion
<1>5. \A i \in 1..n : f[i] = Visit(d, rows, f[i - 1], i)
  <2> TAKE i \in 1..n
  <2> HIDE DEF S
  <2>1. f[i - 1] \in S
    BY <1>4 DEF Follows
  <2> QED
    BY <1>4, <2>1 DEF Follows
<1>6. f = [i \in 0..n |-> IF i = 0 THEN <<>> ELSE Visit(d, rows, f[i - 1], i)]
  BY <1>4, <1>5 DEF Follows
<1> DEFINE all == CHOOSE g : g =
                    [i \in 0..n |-> IF i = 0 THEN <<>> ELSE Visit(d, rows, g[i - 1], i)]
<1>7. all = [i \in 0..n |-> IF i = 0 THEN <<>> ELSE Visit(d, rows, all[i - 1], i)]
  BY <1>6
<1>8. Visited(d, rows) = all
  BY DEF Visited
<1> HIDE DEF all
<1>9. all[0] = <<>>
  BY <1>7
<1>10. ASSUME NEW i \in 1..n PROVE all[i] = Visit(d, rows, all[i - 1], i)
  <2>1. i \in 0..n /\ i # 0
    OBVIOUS
  <2> QED
    BY <1>7, <2>1
<1> QED
  BY <1>8, <1>9, <1>10

LEMMA VisitedKept ==
    ASSUME NEW d, NEW rows, NEW n \in Nat, n = Len(rows)
    PROVE  \A i \in 0..n : VisitInv(rows, Visited(d, rows)[i], i)
<1> DEFINE s == Visited(d, rows)
           H == {i \in 0..n : VisitInv(rows, s[i], i)}
<1>1. s[0] = <<>> /\ \A i \in 1..n : s[i] = Visit(d, rows, s[i - 1], i)
  BY Visits
<1> HIDE DEF s
<1>2. 0 \in H
  <2>1. VisitInv(rows, <<>>, 0)
    BY DEF VisitInv
  <2> QED
    BY <1>1, <2>1
<1>3. ASSUME NEW i \in 1..n, i - 1 \in H PROVE i \in H
  <2>1. VisitInv(rows, s[i - 1], i - 1) /\ i \in Nat \ {0} /\ i \in 0..n
    BY <1>3
  <2>2. VisitInv(rows, Visit(d, rows, s[i - 1], i), i)
    BY <2>1, VisitKeeps
  <2> QED
    BY <1>1, <2>1, <2>2
<1>4. \A i \in 0..n : i \in H
  <2> HIDE DEF H
  <2>1. \A i \in 1..n : i - 1 \in H => i \in H
    BY <1>3
  <2> QED
    BY <1>2, <2>1, InductionUpTo, Zenon
<1> QED
  BY <1>4 DEF s

(* PostgreSQL's parser visits the rows of the first plan.                  *)
First(rows, i) == {j \in 1..i : \A k \in 2..j : rows[k].depth > rows[1].depth}

LEMMA FirstIs ==
    ASSUME NEW rows, NEW n \in Nat, Deep(rows, n), NEW i \in 1..n
    PROVE  i \in First(rows, i) <=> i = 1 \/ Enclosing(rows, i) \in First(rows, i - 1)
<1> DEFINE e == Enclosing(rows, i)
<1>1. /\ e \in 0..(i - 1) /\ (e # 0 => rows[e].depth < rows[i].depth)
      /\ \A j \in 1..(i - 1) : rows[j].depth < rows[i].depth => j <= e
  BY EnclosingIs
<1> HIDE DEF e
<1>2. \A j \in 1..i : rows[j].depth \in Nat
  BY DEF Deep
<1>3. CASE i = 1
  BY <1>3 DEF First
<1>4. ASSUME i # 1, i \in First(rows, i) PROVE e \in First(rows, i - 1)
  <2>1. rows[1].depth < rows[i].depth
    <3>1. i \in 2..i
      BY <1>4
    <3>2. rows[i].depth > rows[1].depth
      BY <1>4, <3>1 DEF First
    <3> QED
      BY <1>2, <3>2
  <2>2. 1 <= e
    <3>1. 1 \in 1..(i - 1)
      BY <1>4
    <3> QED
      BY <1>1, <2>1, <3>1
  <2>3. e \in 1..(i - 1) /\ 2..e \subseteq 2..i
    BY <1>1, <2>2
  <2> QED
    BY <1>4, <2>3 DEF First
<1>5. ASSUME i # 1, e \in First(rows, i - 1) PROVE i \in First(rows, i)
  <2>1. e \in 1..(i - 1) /\ \A k \in 2..e : rows[k].depth > rows[1].depth
    BY <1>5 DEF First
  <2>2. rows[e].depth >= rows[1].depth /\ rows[e].depth < rows[i].depth
    <3>1. CASE e = 1
      BY <1>1, <1>2, <3>1
    <3>2. CASE e # 1
      <4>1. e \in 2..e /\ e \in 1..i /\ 1 \in 1..i
        BY <2>1, <3>2
      <4>2. rows[e].depth > rows[1].depth
        BY <2>1, <4>1
      <4> QED
        BY <1>1, <1>2, <2>1, <4>1, <4>2
    <3> QED
      BY <3>1, <3>2
  <2>3. rows[1].depth \in Nat /\ rows[e].depth \in Nat /\ rows[i].depth \in Nat
    BY <1>2, <2>1
  <2>4. ASSUME NEW k \in 2..i PROVE rows[k].depth > rows[1].depth
    <3>1. CASE k \in 2..e
      BY <2>1, <3>1
    <3>2. CASE k = i
      BY <2>2, <2>3, <3>2
    <3>3. CASE k \notin 2..e /\ k # i
      <4>1. k \in 1..(i - 1) /\ ~(k <= e) /\ k \in 1..i
        BY <2>1, <3>3
      <4>2. ~(rows[k].depth < rows[i].depth) /\ rows[k].depth \in Nat
        BY <1>1, <1>2, <4>1
      <4> QED
        BY <2>2, <2>3, <4>2
    <3> QED
      BY <3>1, <3>2, <3>3
  <2> QED
    BY <2>4 DEF First
<1> QED
  BY <1>3, <1>4, <1>5 DEF e

LEMMA FirstPlanVisited ==
    ASSUME NEW rows, NEW n \in Nat, n = Len(rows), DOMAIN rows = 1..n, Deep(rows, n)
    PROVE  LET s == Visited("postgresql", rows)[n]
           IN  {s[k] : k \in DOMAIN s} = First(rows, n)
<1> DEFINE s == Visited("postgresql", rows)
           Shown(t) == {t[k] : k \in DOMAIN t}
           H == {i \in 0..n : Shown(s[i]) = First(rows, i)}
<1>1. s[0] = <<>> /\ \A i \in 1..n : s[i] = Visit("postgresql", rows, s[i - 1], i)
  BY Visits
<1>2. \A i \in 0..n : VisitInv(rows, s[i], i)
  BY VisitedKept
<1> HIDE DEF s
<1>3. 0 \in H
  BY <1>1 DEF First
<1>4. ASSUME NEW i \in 1..n, i - 1 \in H PROVE i \in H
  <2> DEFINE before == s[i - 1]
             goes == i = 1 \/ \E k \in DOMAIN before : i \in Followed("postgresql", rows, before[k])
  <2>1. Shown(before) = First(rows, i - 1)
    BY <1>4
  <2>2. s[i] = IF goes THEN Append(before, i) ELSE before
    BY <1>1 DEF Visit
  <2>3. before \in Seq(1..(i - 1))
    BY <1>2, <1>4 DEF VisitInv
  <2> HIDE DEF before
  <2>4. \A k : i \in Followed("postgresql", rows, before[k]) <=> Enclosing(rows, i) = before[k]
    BY DEF Followed, Inside
  <2>5. goes <=> i = 1 \/ Enclosing(rows, i) \in Shown(before)
    BY <2>4
  <2>6. goes <=> i \in First(rows, i)
    BY <2>1, <2>5, FirstIs
  <2>7. First(rows, i) \ {i} = First(rows, i - 1)
    BY DEF First
  <2>8. Shown(Append(before, i)) = Shown(before) \union {i}
    <3> DEFINE m == Len(before)
               t == Append(before, i)
    <3>1. m \in Nat /\ DOMAIN before = 1..m /\ before \in Seq(Nat)
      <4>1. m \in Nat /\ DOMAIN before = 1..m /\ \A k \in 1..m : before[k] \in 1..(i - 1)
        BY <2>3, LenProperties, ElementOfSeq
      <4>2. before \in [1..m -> Nat]
        BY <2>3, <4>1
      <4> QED
        BY <4>1, <4>2
    <3>2. t \in Seq(Nat) /\ Len(t) = m + 1 /\ t[m + 1] = i /\ \A k \in 1..m : t[k] = before[k]
      BY <3>1, AppendProperties
    <3>3. DOMAIN t = 1..(m + 1)
      BY <3>2, LenProperties
    <3>4. 1..(m + 1) = (1..m) \union {m + 1}
      BY <3>1
    <3> HIDE DEF t, m
    <3> QED
      BY <3>1, <3>2, <3>3, <3>4 DEF t
  <2>9. CASE goes
    <3>1. Shown(s[i]) = First(rows, i - 1) \union {i}
      BY <2>1, <2>2, <2>8, <2>9
    <3> QED
      BY <2>6, <2>7, <2>9, <3>1
  <2>10. CASE ~goes
    <3>1. Shown(s[i]) = First(rows, i - 1)
      BY <2>1, <2>2, <2>10
    <3> QED
      BY <2>6, <2>7, <2>10, <3>1
  <2> QED
    BY <2>9, <2>10
<1>5. \A i \in 0..n : i \in H
  <2> HIDE DEF H
  <2>1. \A i \in 1..n : i - 1 \in H => i \in H
    BY <1>4
  <2> QED
    BY <1>3, <2>1, InductionUpTo, Zenon
<1>6. n \in 0..n
  OBVIOUS
<1> QED
  BY <1>5, <1>6 DEF s

(* The tree of the rows a JSON parser visited.                             *)
LEMMA JSONTree ==
    ASSUME NEW rows, NEW n \in Nat \ {0}, NEW from, VisitInv(rows, from, n), NEW nodes
    PROVE  LET t == ParseJSON(nodes, rows, from)
           IN  /\ Len(from) \in Nat \ {0} /\ DOMAIN from = 1..Len(from)
               /\ \A k \in 1..Len(from) :
                     /\ from[k] \in 1..n
                     /\ t.parent[k] \in 0..(k - 1)
                     /\ t.parent[k] = 0 => Enclosing(rows, from[k]) = 0
                     /\ t.parent[k] # 0 => from[t.parent[k]] = Enclosing(rows, from[k])
               /\ TreeOf(t.node, t.parent, t.root, Len(from), t.parent)
<1> DEFINE m == Len(from)
           around(k) == {l \in DOMAIN from : from[l] = Enclosing(rows, from[k])}
           node == [k \in DOMAIN from |-> nodes[from[k]]]
           parent == [k \in DOMAIN from |->
                          IF around(k) = {} THEN 0 ELSE CHOOSE l \in around(k) : TRUE]
           t == ParseJSON(nodes, rows, from)
<1>1. t.node = node /\ t.parent = parent /\ t.root = 1
  <2> HIDE DEF node, parent
  <2>1. t = [node |-> node, parent |-> parent, root |-> 1]
    BY DEF ParseJSON, node, parent
  <2> QED
    BY <2>1
<1> HIDE DEF t
<1>2. m \in Nat \ {0} /\ DOMAIN from = 1..m /\ \A k \in 1..m : from[k] \in 1..n
  <2>1. from \in Seq(1..n) /\ m > 0
    BY DEF VisitInv
  <2> QED
    BY <2>1, LenProperties, ElementOfSeq
<1> HIDE DEF m
<1>3. from[1] = 1 /\ \A p, q \in 1..m : p < q => from[p] < from[q]
  BY DEF VisitInv, m
<1>4. ASSUME NEW k \in 1..m
      PROVE  Enclosing(rows, from[k]) \in 0..(from[k] - 1)
  <2>1. from[k] \in Nat \ {0}
    BY <1>2
  <2> QED
    BY <2>1, EnclosingIs
<1>5. parent[1] = 0 /\ Enclosing(rows, from[1]) = 0
  <2>1. 1 \in 1..m
    BY <1>2
  <2>2. Enclosing(rows, from[1]) = 0
    BY <1>3, <1>4, <2>1
  <2>3. around(1) = {}
    BY <1>2, <2>2
  <2> QED
    BY <1>2, <2>1, <2>2, <2>3
<1>6. ASSUME NEW k \in 2..m
      PROVE  parent[k] \in 1..(k - 1) /\ from[parent[k]] = Enclosing(rows, from[k])
  <2>1. k \in 1..m
    BY <1>2
  <2>2. \E p \in 1..m : from[p] = Enclosing(rows, from[k])
    BY DEF VisitInv, m
  <2>3. around(k) # {}
    BY <1>2, <2>2
  <2>4. parent[k] \in around(k)
    <3>1. parent[k] = CHOOSE l \in around(k) : TRUE
      BY <1>2, <2>1, <2>3
    <3> HIDE DEF around, parent
    <3> QED
      BY <2>3, <3>1
  <2> HIDE DEF parent
  <2>5. parent[k] \in 1..m /\ from[parent[k]] = Enclosing(rows, from[k])
    BY <1>2, <2>4
  <2>6. from[parent[k]] < from[k] /\ from[parent[k]] \in Nat /\ from[k] \in Nat
    BY <1>2, <1>4, <2>1, <2>5
  <2>7. ~(k < parent[k]) /\ k # parent[k]
    <3>1. k < parent[k] => from[k] < from[parent[k]]
      BY <1>3, <2>1, <2>5
    <3> QED
      BY <2>6, <3>1
  <2> QED
    BY <2>1, <2>5, <2>7
<1>7. ASSUME NEW k \in 1..m
      PROVE  /\ parent[k] \in 0..(k - 1)
             /\ parent[k] = 0 => k = 1 /\ Enclosing(rows, from[k]) = 0
             /\ parent[k] # 0 => from[parent[k]] = Enclosing(rows, from[k])
  <2> HIDE DEF parent
  <2>1. CASE k = 1
    BY <1>5, <2>1
  <2>2. CASE k # 1
    <3>1. k \in 2..m
      BY <2>2
    <3> QED
      BY <1>6, <3>1
  <2> QED
    BY <2>1, <2>2
<1>8. TreeOf(node, parent, 1, m, parent)
  <2>1. node = [k \in 1..m |-> node[k]]
    BY <1>2
  <2>2. DOMAIN node = 1..m /\ Len(node) = m
    <3> HIDE DEF node
    <3> QED
      BY <1>2, <2>1, Appended
  <2> HIDE DEF node, parent
  <2>3. {k \in 1..m : parent[k] = 0} = {1}
    BY <1>2, <1>5, <1>7
  <2> QED
    BY <1>7, <2>2, <2>3 DEF TreeOf
<1> QED
  BY <1>1, <1>2, <1>7, <1>8 DEF m, t

(* The parent a row of this dialect names.                                 *)
NameOf(d, rows, i) == IF d = "sqlite" THEN Referred(rows)[i] ELSE Enclosing(rows, i)

NamedIn(d, rows) == [i \in DOMAIN rows |-> NameOf(d, rows, i)]

Answer(d, mode, rows) ==
    /\ d \in Dialects
    /\ mode = "EXPLAIN" \/ (mode = "EXPLAIN ANALYZE" /\ AnalyzeSupported(d))
    /\ rows \in Documents[<<d, mode>>]

LEMMA AnswerRows ==
    ASSUME NEW d, NEW mode, NEW rows, Answer(d, mode, rows)
    PROVE  /\ <<d, mode>> \in DOMAIN Documents
           /\ Len(rows) \in Nat \ {0} /\ DOMAIN rows = 1..Len(rows)
           /\ d # "sqlite" => Deep(rows, Len(rows))
           /\ d = "oracle" => Indented(rows, Len(rows))
<1>1. <<d, mode>> \in DOMAIN Documents
  BY SomeDocuments DEF Answer
<1>2. /\ Len(rows) \in Nat \ {0} /\ DOMAIN rows = 1..Len(rows)
      /\ <<d, mode>>[1] # "sqlite" => \A i \in DOMAIN rows : rows[i].depth \in Nat
      /\ <<d, mode>>[1] = "oracle" =>
             /\ rows[1].depth = 0
             /\ \A i \in 2..Len(rows) : rows[i].depth \in 1..(rows[i - 1].depth + 1)
  BY <1>1, SomeDocuments DEF Answer
<1>3. <<d, mode>>[1] = d
  OBVIOUS
<1> QED
  BY <1>1, <1>2, <1>3 DEF Deep, Indented

InJSON(d, mode) == d = "postgresql" \/ (d = "mysql" /\ mode = "EXPLAIN")

TreeOfRows(t, d, rows) ==
    TreeOf(t.node, t.parent, t.root, Len(rows), NamedIn(d, rows))

LEMMA RowsOfTree ==
    ASSUME NEW d, NEW mode, NEW rows, Answer(d, mode, rows)
    PROVE  ~InJSON(d, mode) => TreeOfRows(ParseTree(d, mode, rows), d, rows)
<1> DEFINE n == Len(rows)
           named == NamedIn(d, rows)
<1>1. /\ n \in Nat \ {0} /\ DOMAIN rows = 1..n /\ (d # "sqlite" => Deep(rows, n))
      /\ d = "oracle" => Indented(rows, n)
  BY AnswerRows
<1> HIDE DEF n
<1>2. named = [i \in 1..n |-> named[i]]
  BY <1>1 DEF NamedIn
<1>3. d # "sqlite" => named = Nested(rows)
  BY DEF NamedIn, NameOf, Nested
<1>4. ASSUME NEW nodes, nodes = [i \in DOMAIN rows |-> nodes[i]], NEW common
      PROVE  TreeOfRows(Rooted(nodes, named, common), d, rows)
  <2>1. nodes = [i \in 1..n |-> nodes[i]]
    BY <1>1, <1>4
  <2>2. LET t == Rooted(nodes, named, common)
        IN  TreeOf(t.node, t.parent, t.root, n, named)
    <3> HIDE DEF named
    <3> QED
      BY <1>1, <1>2, <2>1, RootedKeeps
  <2> QED
    BY <2>2 DEF TreeOfRows, n
<1>7. CASE d = "mysql" /\ mode = "EXPLAIN ANALYZE"
  <2>1. ParseTree(d, mode, rows) =
            Rooted(PlainNodes(rows), Stacked(rows, IteratorStack(rows)), "APPEND")
    BY <1>7 DEF ParseTree
  <2>2. \A i \in 1..n : StackInv(rows, IteratorStack(rows)[i], i)
    BY <1>1, <1>7, IteratorStacksKept DEF n
  <2>3. Stacked(rows, IteratorStack(rows)) = named
    BY <1>1, <1>7, <2>2, TopIsEnclosed DEF Stacked, NamedIn, NameOf
  <2>4. PlainNodes(rows) = [i \in DOMAIN rows |-> PlainNodes(rows)[i]]
    BY DEF PlainNodes
  <2> HIDE DEF named
  <2> QED
    BY <1>4, <2>1, <2>3, <2>4
<1>8. CASE d = "sqlserver"
  <2> DEFINE nodes == [i \in DOMAIN rows |-> SQLServerNode(rows, i)]
  <2>1. ParseTree(d, mode, rows) = Rooted(nodes, named, "RESULT")
    BY <1>3, <1>8 DEF ParseTree
  <2>2. nodes = [i \in DOMAIN rows |-> nodes[i]]
    OBVIOUS
  <2> HIDE DEF named, nodes
  <2> QED
    BY <1>4, <2>1, <2>2
<1>9. CASE d = "sqlite"
  <2>1. ParseTree(d, mode, rows) = Rooted(PlainNodes(rows), Referred(rows), "RESULT")
    BY <1>9 DEF ParseTree
  <2>2. Referred(rows) = named
    BY <1>9 DEF NamedIn, NameOf, Referred
  <2>3. PlainNodes(rows) = [i \in DOMAIN rows |-> PlainNodes(rows)[i]]
    BY DEF PlainNodes
  <2> HIDE DEF named
  <2> QED
    BY <1>4, <2>1, <2>2, <2>3
<1>10. CASE d = "oracle"
  <2> DEFINE parents == Stacked(rows, OracleStack(rows))
             tops == {i \in DOMAIN rows : parents[i] = 0}
             nodes == [i \in DOMAIN rows |-> OracleNode(rows[i])]
  <2>1. ParseTree(d, mode, rows) =
            [node |-> nodes, parent |-> parents,
             root |-> CHOOSE i \in tops : \A j \in tops : j <= i]
    BY <1>10 DEF ParseTree, ParseOracle
  <2>2. \A i \in 1..n : OracleInv(rows, OracleStack(rows)[i], i)
    BY <1>1, <1>10, OracleStacksKept DEF n
  <2>3. parents = named
    BY <1>1, <1>10, <2>2, TopIsEnclosed DEF Stacked, NamedIn, NameOf, OracleInv
  <2>4. tops = {1}
    <3>1. 1 \in 1..n
      BY <1>1
    <3>2. parents[1] = 0
      <4>1. OracleInv(rows, OracleStack(rows)[1], 1)
        BY <2>2, <3>1
      <4>2. Len(OracleStack(rows)[1]) = 1
        <5> DEFINE s == OracleStack(rows)[1]
        <5>1. rows[1].depth = 0
          BY <1>1, <1>10 DEF Indented
        <5>2. Len(s) = rows[1].depth + 1
          BY <4>1 DEF OracleInv
        <5> HIDE DEF s
        <5> QED
          BY <5>1, <5>2 DEF s
      <4> QED
        BY <1>1, <3>1, <4>2 DEF Stacked
    <3>3. ASSUME NEW i \in 1..n, i # 1 PROVE parents[i] # 0
      <4> DEFINE s == OracleStack(rows)[i]
      <4>1. OracleInv(rows, s, i) /\ i \in 2..n /\ i > 0
        BY <2>2, <3>3
      <4>2. rows[i].depth >= 1 /\ rows[i].depth \in Nat
        <5>1. rows[i].depth \in 1..(rows[i - 1].depth + 1)
          BY <1>10, <1>1, <4>1 DEF Indented
        <5>2. rows[i].depth \in Nat
          BY <1>10, <1>1 DEF Deep
        <5> QED
          BY <5>1, <5>2
      <4> HIDE DEF s
      <4>3. Len(s) = rows[i].depth + 1 /\ s \in Seq(1..i)
        BY <4>1 DEF OracleInv, StackInv
      <4>4. Len(s) # 1 /\ Len(s) - 1 \in 1..Len(s)
        BY <4>2, <4>3
      <4>5. s[Len(s) - 1] \in 1..i
        BY <4>3, <4>4, ElementOfSeq
      <4>6. parents[i] = s[Len(s) - 1]
        BY <1>1, <4>4 DEF Stacked, s
      <4> HIDE DEF parents
      <4> QED
        BY <4>5, <4>6
    <3> HIDE DEF parents
    <3> QED
      BY <1>1, <3>1, <3>2, <3>3
  <2>5. (CHOOSE i \in tops : \A j \in tops : j <= i) = 1
    <3> HIDE DEF tops
    <3> QED
      BY <2>4
  <2>6. DOMAIN nodes = DOMAIN rows
    OBVIOUS
  <2>a. nodes = [i \in 1..n |-> nodes[i]]
    BY <1>1
  <2> HIDE DEF named, nodes, parents
  <2>b. Len(nodes) = n
    BY <1>1, <2>a, Appended
  <2>7. TreeOf(nodes, named, 1, n, named)
    BY <1>1, <2>3, <2>4, <2>6, <2>b DEF TreeOf
  <2> HIDE DEF tops
  <2>8. /\ ParseTree(d, mode, rows).node = nodes /\ ParseTree(d, mode, rows).parent = named
        /\ ParseTree(d, mode, rows).root = 1
    BY <2>1, <2>3, <2>5
  <2> QED
    BY <2>7, <2>8 DEF TreeOfRows, n, named
<1> QED
  BY <1>7, <1>8, <1>9, <1>10 DEF Answer, AnalyzeSupported, Dialects, InJSON

LEMMA FromJSON ==
    ASSUME NEW d, NEW mode, NEW rows, Answer(d, mode, rows), InJSON(d, mode)
    PROVE  LET from == From(d, mode, rows)
           IN  /\ VisitInv(rows, from, Len(rows))
               /\ DOMAIN from = 1..Len(from) /\ \A k \in 1..Len(from) : from[k] \in 1..Len(rows)
<1> DEFINE from == From(d, mode, rows)
           n == Len(rows)
<1>1. n \in Nat /\ n \in 0..n
  BY AnswerRows
<1>2. from = Visited(d, rows)[n]
  BY DEF From, InJSON
<1>3. VisitInv(rows, from, n)
  BY <1>1, <1>2, VisitedKept
<1> HIDE DEF from
<1>4. from \in Seq(1..n)
  BY <1>3 DEF VisitInv
<1>5. DOMAIN from = 1..Len(from) /\ \A k \in 1..Len(from) : from[k] \in 1..n
  BY <1>4, LenProperties, ElementOfSeq
<1> QED
  BY <1>3, <1>5 DEF from

LEMMA RowsOfJSON ==
    ASSUME NEW d, NEW mode, NEW rows, Answer(d, mode, rows), InJSON(d, mode)
    PROVE  LET t == ParseTree(d, mode, rows)
               from == From(d, mode, rows)
           IN  /\ Len(from) \in Nat
               /\ \A k \in 1..Len(from) :
                     /\ t.parent[k] \in 0..(k - 1)
                     /\ t.parent[k] = 0 => Enclosing(rows, from[k]) = 0
                     /\ t.parent[k] # 0 => from[t.parent[k]] = Enclosing(rows, from[k])
               /\ TreeOf(t.node, t.parent, t.root, Len(from), t.parent)
<1> DEFINE from == From(d, mode, rows)
<1>1. Len(rows) \in Nat \ {0} /\ VisitInv(rows, from, Len(rows))
  BY AnswerRows, FromJSON
<1>2. \E nodes : ParseTree(d, mode, rows) = ParseJSON(nodes, rows, from)
  BY DEF ParseTree, InJSON
<1> HIDE DEF from
<1>3. PICK nodes : ParseTree(d, mode, rows) = ParseJSON(nodes, rows, from)
  BY <1>2
<1> DEFINE t == ParseJSON(nodes, rows, from)
<1>4. /\ Len(from) \in Nat
      /\ \A k \in 1..Len(from) :
            /\ t.parent[k] \in 0..(k - 1)
            /\ t.parent[k] = 0 => Enclosing(rows, from[k]) = 0
            /\ t.parent[k] # 0 => from[t.parent[k]] = Enclosing(rows, from[k])
      /\ TreeOf(t.node, t.parent, t.root, Len(from), t.parent)
  BY <1>1, JSONTree
<1> HIDE DEF t
<1>5. ParseTree(d, mode, rows) = t
  BY <1>3 DEF t
<1> QED
  BY <1>4, <1>5 DEF from

(* A row names one before it.                                              *)
LEMMA NamedBefore ==
    ASSUME NEW d, NEW mode, NEW rows, Answer(d, mode, rows), NEW i \in 1..Len(rows)
    PROVE  NamedIn(d, rows)[i] \in 0..(i - 1)
<1>1. Len(rows) \in Nat /\ DOMAIN rows = 1..Len(rows)
  BY AnswerRows
<1>2. CASE d = "sqlite"
  <2> DEFINE named == {j \in DOMAIN rows : rows[j].id = rows[i].parent}
  <2>1. NamedIn(d, rows)[i] = IF named = {} THEN 0 ELSE CHOOSE j \in named : TRUE
    BY <1>1, <1>2 DEF NamedIn, NameOf, Referred
  <2>2. \A j \in DOMAIN rows : rows[j].id = rows[i].parent => j < i
    <3>1. /\ <<d, mode>> \in DOMAIN Documents /\ rows \in Documents[<<d, mode>>]
          /\ <<d, mode>>[1] = "sqlite"
      BY <1>2, AnswerRows DEF Answer
    <3>2. \A k, j \in DOMAIN rows : rows[j].id = rows[k].parent => j < k
      BY <3>1, SomeDocuments
    <3> QED
      BY <1>1, <3>2
  <2>3. \A j \in named : j \in 0..(i - 1)
    BY <1>1, <2>2
  <2>4. CASE named = {}
    BY <1>1, <2>1, <2>4
  <2>5. CASE named # {}
    <3>1. (CHOOSE j \in named : TRUE) \in named
      BY <2>5
    <3> HIDE DEF named
    <3> QED
      BY <2>1, <2>3, <2>5, <3>1
  <2> QED
    BY <2>4, <2>5
<1>3. CASE d # "sqlite"
  <2>1. NamedIn(d, rows)[i] = Enclosing(rows, i) /\ i \in Nat \ {0}
    BY <1>1, <1>3 DEF NamedIn, NameOf
  <2> QED
    BY <2>1, EnclosingIs
<1> QED
  BY <1>2, <1>3

(* What Node makes.                                                        *)
IsNode(x) == x = Node(x.op, x.object, x.index, x.cost)

Noded(node) == \A i \in DOMAIN node : IsNode(node[i])

LEMMA NodeIs ==
    \A op, object, index, cost : IsNode(Node(op, object, index, cost))
  BY DEF IsNode, Node

LEMMA RootedNoded ==
    ASSUME NEW n \in Nat, NEW nodes, nodes = [i \in 1..n |-> nodes[i]], Noded(nodes),
           NEW parents, NEW common
    PROVE  Noded(Rooted(nodes, parents, common).node)
<1> DEFINE top == Node(common, "", "", 0)
           all == Append(nodes, top)
<1>1. /\ DOMAIN all = 1..(n + 1) /\ \A i \in 1..n : all[i] = nodes[i]
      /\ all[n + 1] = Node(common, "", "", 0)
  <2> HIDE DEF top
  <2>1. /\ DOMAIN all = 1..(n + 1) /\ \A i \in 1..n : all[i] = nodes[i]
        /\ all[n + 1] = top
    BY Appended
  <2> QED
    BY <2>1 DEF top
<1>2. DOMAIN nodes = 1..n /\ \A i \in 1..(n + 1) : i = n + 1 \/ i \in 1..n
  OBVIOUS
<1> HIDE DEF all
<1>3. Noded(all)
  <2> SUFFICES ASSUME NEW i \in 1..(n + 1) PROVE IsNode(all[i])
    BY <1>1 DEF Noded
  <2>1. CASE i = n + 1
    BY <1>1, <2>1, NodeIs
  <2>2. CASE i \in 1..n
    BY <1>1, <1>2, <2>2 DEF Noded
  <2> QED
    BY <1>2, <2>1, <2>2
<1>4. Rooted(nodes, parents, common).node = nodes \/ Rooted(nodes, parents, common).node = all
  BY DEF Rooted, all
<1> QED
  BY <1>3, <1>4

LEMMA ParsedNoded ==
    ASSUME NEW d, NEW mode, NEW rows, Answer(d, mode, rows)
    PROVE  Noded(ParseTree(d, mode, rows).node)
<1> DEFINE n == Len(rows)
<1>1. n \in Nat /\ DOMAIN rows = 1..n
  BY AnswerRows
<1> HIDE DEF n
<1>2. ASSUME NEW nodes, nodes = [i \in DOMAIN rows |-> nodes[i]],
             \A i \in DOMAIN rows : IsNode(nodes[i]), NEW parents, NEW common
      PROVE  Noded(nodes) /\ Noded(Rooted(nodes, parents, common).node)
  <2>1. nodes = [i \in 1..n |-> nodes[i]] /\ Noded(nodes)
    BY <1>1, <1>2 DEF Noded
  <2> QED
    BY <1>1, <2>1, RootedNoded
<1>3. ASSUME NEW parents, NEW common PROVE Noded(Rooted(PlainNodes(rows), parents, common).node)
  <2> DEFINE nodes == PlainNodes(rows)
  <2>1. nodes = [i \in DOMAIN rows |-> nodes[i]] /\ \A i \in DOMAIN rows : IsNode(nodes[i])
    BY NodeIs DEF PlainNodes, PlainNode
  <2> HIDE DEF nodes
  <2>2. Noded(Rooted(nodes, parents, common).node)
    BY <1>2, <2>1
  <2> QED
    BY <2>2 DEF nodes
<1>4. ASSUME NEW nodes, \A i \in DOMAIN rows : IsNode(nodes[i]), InJSON(d, mode)
      PROVE  Noded(ParseJSON(nodes, rows, From(d, mode, rows)).node)
  <2> DEFINE from == From(d, mode, rows)
  <2>1. DOMAIN from = 1..Len(from) /\ \A k \in 1..Len(from) : from[k] \in 1..n
    BY <1>4, FromJSON DEF n
  <2> HIDE DEF from
  <2>2. ParseJSON(nodes, rows, from).node = [k \in DOMAIN from |-> nodes[from[k]]]
    BY DEF ParseJSON
  <2> QED
    BY <1>1, <1>4, <2>1, <2>2 DEF Noded, from
<1>5. CASE InJSON(d, mode)
  <2>1. CASE d = "postgresql"
    <3>1. \A i \in DOMAIN rows : IsNode(PlainNodes(rows)[i])
      BY NodeIs DEF PlainNodes, PlainNode
    <3>2. ParseTree(d, mode, rows) = ParseJSON(PlainNodes(rows), rows, From(d, mode, rows))
      BY <2>1 DEF ParseTree
    <3> QED
      BY <1>4, <1>5, <3>1, <3>2
  <2>2. CASE d = "mysql" /\ mode = "EXPLAIN"
    <3> DEFINE nodes == [i \in DOMAIN rows |-> MySQLNode(rows[i])]
    <3>1. \A i \in DOMAIN rows : IsNode(nodes[i])
      BY NodeIs DEF MySQLNode
    <3>2. ParseTree(d, mode, rows) = ParseJSON(nodes, rows, From(d, mode, rows))
      BY <2>2 DEF ParseTree
    <3> HIDE DEF nodes
    <3> QED
      BY <1>4, <1>5, <3>1, <3>2
  <2> QED
    BY <1>5, <2>1, <2>2 DEF InJSON
<1>6. CASE d = "mysql" /\ mode = "EXPLAIN ANALYZE"
  BY <1>3, <1>6 DEF ParseTree
<1>7. CASE d = "oracle"
  <2> DEFINE nodes == [i \in DOMAIN rows |-> OracleNode(rows[i])]
  <2>1. nodes = [i \in DOMAIN rows |-> nodes[i]] /\ \A i \in DOMAIN rows : IsNode(nodes[i])
    BY NodeIs DEF OracleNode
  <2>2. ParseTree(d, mode, rows).node = nodes
    BY <1>7 DEF ParseTree, ParseOracle
  <2> HIDE DEF nodes
  <2> QED
    BY <1>2, <2>1, <2>2
<1>8. CASE d = "sqlserver"
  <2> DEFINE nodes == [i \in DOMAIN rows |-> SQLServerNode(rows, i)]
  <2>1. nodes = [i \in DOMAIN rows |-> nodes[i]] /\ \A i \in DOMAIN rows : IsNode(nodes[i])
    <3> SUFFICES ASSUME NEW i \in DOMAIN rows PROVE IsNode(SQLServerNode(rows, i))
      OBVIOUS
    <3>1. \E op, object, index, cost : SQLServerNode(rows, i) = Node(op, object, index, cost)
      BY Zenon DEF SQLServerNode
    <3> QED
      BY <3>1, NodeIs
  <2>2. ParseTree(d, mode, rows) = Rooted(nodes, Nested(rows), "RESULT")
    BY <1>8 DEF ParseTree
  <2> HIDE DEF nodes
  <2> QED
    BY <1>2, <2>1, <2>2
<1>9. CASE d = "sqlite"
  BY <1>3, <1>9 DEF ParseTree
<1> QED
  BY <1>5, <1>6, <1>7, <1>8, <1>9 DEF Answer, AnalyzeSupported, Dialects, InJSON

(* A tree: the parent of a node comes before it, unless it is the root.    *)
Tree(t) ==
    /\ Len(t.node) \in Nat /\ DOMAIN t.node = 1..Len(t.node) /\ Noded(t.node)
    /\ t.root \in DOMAIN t.node /\ t.parent[t.root] = 0
    /\ \A i \in DOMAIN t.node \ {t.root} :
          /\ t.parent[i] \in DOMAIN t.node
          /\ t.parent[i] = t.root \/ t.parent[i] < i

LEMMA RowsMakeTree ==
    ASSUME NEW t, NEW n \in Nat, NEW named, TreeOf(t.node, t.parent, t.root, n, named),
           \A i \in 1..n : named[i] \in 0..(i - 1), Noded(t.node)
    PROVE  Tree(t)
<1>1. /\ Len(t.node) \in Nat /\ DOMAIN t.node = 1..Len(t.node)
      /\ \A i \in DOMAIN t.node : i \in 1..n \/ i = t.root
  BY DEF TreeOf
<1>2. t.root \in DOMAIN t.node /\ t.parent[t.root] = 0
  <2>1. t.root \in {i \in DOMAIN t.node : t.parent[i] = 0}
    BY DEF TreeOf
  <2> QED
    BY <2>1
<1>3. ASSUME NEW i \in DOMAIN t.node \ {t.root}
      PROVE  t.parent[i] \in DOMAIN t.node /\ (t.parent[i] = t.root \/ t.parent[i] < i)
  <2>1. i \in 1..n /\ t.parent[i] # 0
    <3>1. i \notin {j \in DOMAIN t.node : t.parent[j] = 0}
      BY DEF TreeOf
    <3> QED
      BY <1>1, <3>1
  <2>2. t.parent[i] = named[i] \/ t.parent[i] = t.root
    BY <2>1 DEF TreeOf
  <2>3. CASE t.parent[i] = named[i]
    <3>1. named[i] \in 0..(i - 1) /\ named[i] # 0
      BY <2>1, <2>3
    <3>2. named[i] \in 1..Len(t.node) /\ named[i] < i
      BY <1>1, <3>1
    <3> QED
      BY <1>1, <2>3, <3>2
  <2>4. CASE t.parent[i] = t.root
    BY <1>2, <2>4
  <2> QED
    BY <2>2, <2>3, <2>4
<1> QED
  BY <1>1, <1>2, <1>3 DEF Tree

(* What RowsKept says of a plan of this dialect.                           *)
ShowsIn(p, d) ==
    LET shown == {p.from[k] : k \in DOMAIN p.from}
    IN  CASE d = "postgresql" ->
                shown = {i \in DOMAIN p.raw :
                            \A j \in 2..i : p.raw[j].depth > p.raw[1].depth}
          [] d = "mysql" /\ p.mode = "EXPLAIN" -> shown \subseteq DOMAIN p.raw
          [] OTHER -> shown = DOMAIN p.raw

Above(p, d) ==
    \A k \in DOMAIN p.from :
        \/ /\ p.parent[k] \in DOMAIN p.from
           /\ p.from[p.parent[k]] = NameOf(d, p.raw, p.from[k])
        \/ NameOf(d, p.raw, p.from[k]) = 0 /\ p.parent[k] \in {0, p.root}

(* A plan has the rows it was made of.                                     *)
Grown(p) ==
    /\ Tree(p)
    /\ ShowsIn(p, dialect) /\ Above(p, dialect)
    /\ {k \in DOMAIN p.node : p.parent[k] = 0} = {p.root}

(* So has one that is saved, or compared with the tree of a baseline.      *)
RowsInv(j) ==
    /\ j.at = "tx" \/ (j.at = "explain" /\ j.dir.kind = "analyze") => AnalyzeSupported(dialect)
    /\ j.plan = NoPlan \/ Grown(j.plan)
    /\ j.at \in {"save", "load"} => Grown(j.plan)
    /\ j.base # Absent => Grown(j.plan) /\ Tree(j.base.plan)
    /\ j.picked \in Names \union Seconds \union {None}

(* A baseline that can be read has a tree.                                 *)
FilesGrown == \A f \in Files : Decoded(f) => Tree(files[f].plan)

LEMMA ParentCounts ==
    ASSUME NEW m \in Nat, NEW k \in 1..m, NEW i \in 0..(k - 1), i # 0
    PROVE  i \in 1..m
  OBVIOUS

LEMMA GrownAnswer ==
    ASSUME dialect \in Dialects, NEW mode,
           mode = "EXPLAIN" \/ (mode = "EXPLAIN ANALYZE" /\ AnalyzeSupported(dialect)),
           NEW plan \in Answers(mode)
    PROVE  Grown(plan)
<1>1. <<dialect, mode>> \in DOMAIN Documents
  BY SomeDocuments
<1>2. PICK rows \in Documents[<<dialect, mode>>] : plan = Parse(dialect, mode, rows)
  <2>1. /\ <<dialect, mode>>[1] = dialect /\ <<dialect, mode>>[2] = mode
    OBVIOUS
  <2>2. Answers(mode) = {Parse(dialect, mode, rows) : rows \in Documents[<<dialect, mode>>]}
    BY <1>1, <2>1 DEF Answers, Parsed
  <2> QED
    BY <2>2
<1>3. Answer(dialect, mode, rows)
  BY DEF Answer
<1>4. DOMAIN rows = 1..Len(rows)
  BY <1>3, AnswerRows
<1> DEFINE t == ParseTree(dialect, mode, rows)
           from == From(dialect, mode, rows)
<1>5. /\ plan.node = t.node /\ plan.parent = t.parent /\ plan.root = t.root
      /\ plan.mode = mode /\ plan.raw = rows /\ plan.from = from
  <2> HIDE DEF t, from
  <2>1. plan = [node |-> t.node, parent |-> t.parent, root |-> t.root, mode |-> mode,
                raw |-> rows, from |-> from]
    BY <1>2 DEF Parse, t, from
  <2> QED
    BY <2>1
<1>6. Noded(t.node)
  BY <1>3, ParsedNoded
<1>7. Len(rows) \in Nat /\ (dialect # "sqlite" => Deep(rows, Len(rows)))
  BY <1>3, AnswerRows
<1>8. CASE InJSON(dialect, mode)
  <2>1. /\ Len(from) \in Nat
        /\ \A k \in 1..Len(from) :
              /\ t.parent[k] \in 0..(k - 1)
              /\ t.parent[k] = 0 => Enclosing(rows, from[k]) = 0
              /\ t.parent[k] # 0 => from[t.parent[k]] = Enclosing(rows, from[k])
        /\ TreeOf(t.node, t.parent, t.root, Len(from), t.parent)
    BY <1>3, <1>8, RowsOfJSON
  <2>2. DOMAIN from = 1..Len(from) /\ \A k \in 1..Len(from) : from[k] \in 1..Len(rows)
    BY <1>3, <1>8, FromJSON
  <2>3. dialect = "postgresql" =>
            {from[k] : k \in DOMAIN from} =
                {i \in DOMAIN rows : \A j \in 2..i : rows[j].depth > rows[1].depth}
    <3> DEFINE s == Visited("postgresql", rows)[Len(rows)]
    <3>1. dialect = "postgresql" => from = s
      BY DEF From
    <3>2. dialect = "postgresql" => {s[k] : k \in DOMAIN s} = First(rows, Len(rows))
      BY <1>4, <1>7, FirstPlanVisited
    <3> HIDE DEF from, s
    <3>3. dialect = "postgresql" => {from[k] : k \in DOMAIN from} = First(rows, Len(rows))
      BY <3>1, <3>2
    <3> QED
      BY <1>4, <3>3 DEF First
  <2> HIDE DEF t, from
  <2>4. Tree(plan)
    <3>1. Tree(t)
      BY <1>6, <2>1, RowsMakeTree
    <3> QED
      BY <1>5, <3>1 DEF Tree
  <2>5. ShowsIn(plan, dialect)
    <3>1. {from[k] : k \in DOMAIN from} \subseteq DOMAIN rows
      BY <1>4, <2>2
    <3> QED
      BY <1>5, <1>8, <2>3, <3>1 DEF ShowsIn, InJSON
  <2>6. Above(plan, dialect)
    <3> SUFFICES ASSUME NEW k \in 1..Len(from)
                 PROVE  \/ /\ t.parent[k] \in 1..Len(from)
                           /\ from[t.parent[k]] = Enclosing(rows, from[k])
                        \/ Enclosing(rows, from[k]) = 0 /\ t.parent[k] \in {0, t.root}
      BY <1>5, <1>8, <2>2 DEF Above, NameOf, InJSON
    <3>1. t.parent[k] \in 0..(k - 1)
      BY <2>1
    <3>2. t.parent[k] # 0 => t.parent[k] \in 1..Len(from)
      BY <2>1, <3>1, ParentCounts
    <3>3. CASE t.parent[k] = 0
      BY <2>1, <3>3
    <3>4. CASE t.parent[k] # 0
      BY <2>1, <3>2, <3>4
    <3> QED
      BY <3>3, <3>4
  <2>7. {k \in DOMAIN plan.node : plan.parent[k] = 0} = {plan.root}
    BY <1>5, <2>1 DEF TreeOf
  <2> QED
    BY <2>4, <2>5, <2>6, <2>7 DEF Grown
<1>9. CASE ~InJSON(dialect, mode)
  <2>1. TreeOf(t.node, t.parent, t.root, Len(rows), NamedIn(dialect, rows))
    BY <1>3, <1>9, RowsOfTree DEF TreeOfRows
  <2>2. \A i \in 1..Len(rows) : NamedIn(dialect, rows)[i] \in 0..(i - 1)
    BY <1>3, NamedBefore
  <2>3. from = [i \in 1..Len(rows) |-> i]
    BY <1>4, <1>9 DEF From, InJSON
  <2> HIDE DEF t, from
  <2>4. Tree(plan)
    <3>1. Tree(t)
      BY <1>6, <1>7, <2>1, <2>2, RowsMakeTree
    <3> QED
      BY <1>5, <3>1 DEF Tree
  <2>5. DOMAIN from = 1..Len(rows) /\ \A k \in 1..Len(rows) : from[k] = k
    BY <2>3
  <2>6. ShowsIn(plan, dialect)
    <3> DEFINE D == 1..Len(rows)
    <3>0. DOMAIN from = D /\ DOMAIN rows = D /\ \A k \in D : from[k] = k
      BY <1>4, <2>5
    <3> HIDE DEF D
    <3>1. {from[k] : k \in DOMAIN from} = DOMAIN rows
      BY <3>0
    <3> QED
      BY <1>5, <1>9, <3>1 DEF ShowsIn, InJSON
  <2>7. Above(plan, dialect)
    <3> SUFFICES ASSUME NEW k \in 1..Len(rows)
                 PROVE  \/ /\ t.parent[k] \in 1..Len(rows)
                           /\ from[t.parent[k]] = NameOf(dialect, rows, k)
                        \/ NameOf(dialect, rows, k) = 0 /\ t.parent[k] \in {0, t.root}
      BY <1>5, <2>5 DEF Above
    <3>1. NamedIn(dialect, rows)[k] = NameOf(dialect, rows, k)
      BY <1>4 DEF NamedIn
    <3>2. \/ t.parent[k] = NamedIn(dialect, rows)[k] /\ t.parent[k] # 0
          \/ NamedIn(dialect, rows)[k] = 0 /\ t.parent[k] \in {0, t.root}
      BY <2>1 DEF TreeOf
    <3>3. NamedIn(dialect, rows)[k] \in 0..(k - 1)
      BY <2>2
    <3>4. NameOf(dialect, rows, k) # 0 => NameOf(dialect, rows, k) \in 1..Len(rows)
      BY <1>7, <3>1, <3>3, ParentCounts
    <3>5. NameOf(dialect, rows, k) # 0 => from[NameOf(dialect, rows, k)] = NameOf(dialect, rows, k)
      BY <2>5, <3>4
    <3> QED
      BY <3>1, <3>2, <3>4, <3>5
  <2>8. {k \in DOMAIN plan.node : plan.parent[k] = 0} = {plan.root}
    BY <1>5, <2>1 DEF TreeOf
  <2> QED
    BY <2>4, <2>6, <2>7, <2>8 DEF Grown
<1> QED
  BY <1>8, <1>9

LEMMA PlainAnswer ==
    ASSUME dialect \in Dialects
    PROVE  \A plan \in Answers("EXPLAIN") : Grown(plan)
<1>1. ASSUME NEW mode, mode = "EXPLAIN", NEW plan \in Answers(mode) PROVE Grown(plan)
  <2>1. mode = "EXPLAIN" \/ (mode = "EXPLAIN ANALYZE" /\ AnalyzeSupported(dialect))
    BY <1>1
  <2> QED
    BY <2>1, GrownAnswer
<1> QED
  BY <1>1

LEMMA RowsStep ==
    ASSUME DOMAIN job = Goroutines, \A h \in Goroutines : RowsInv(job[h]), dialect' = dialect,
           NEW g, NEW j, job' = [job EXCEPT ![g] = j], RowsInv(j)
    PROVE  \A h \in Goroutines : RowsInv(job[h])'
<1>1. \A i : RowsInv(i) => RowsInv(i)'
  BY DEF RowsInv, Grown
<1>2. \A h \in Goroutines : job'[h] = j \/ job'[h] = job[h]
  OBVIOUS
<1> QED
  BY <1>1, <1>2

LEMMA IdleGrown ==
    ASSUME NEW d
    PROVE  RowsInv([IdleJob EXCEPT !.dir = d])
<1> DEFINE j == [IdleJob EXCEPT !.dir = d]
<1>1. j.at = "answered" /\ j.plan = NoPlan /\ j.base = Absent /\ j.picked = None
  BY DEF IdleJob
<1> HIDE DEF j
<1> QED
  BY <1>1 DEF RowsInv, j

LEMMA WithPlanGrown ==
    ASSUME NEW i, RowsInv(i), DOMAIN i = Fields, NEW plan, Grown(plan)
    PROVE  RowsInv(WithPlan(i, plan))
<1> DEFINE at == CASE i.dir.kind = "save" -> "save"
                   [] i.dir.kind = "diff" -> "load"
                   [] OTHER -> "answered"
<1>1. at \notin {"tx", "explain"}
  OBVIOUS
<1> HIDE DEF at
<1> DEFINE j == [i EXCEPT !.plan = plan, !.at = at]
<1>2. WithPlan(i, plan) = j
  BY DEF WithPlan, at
<1>3. j.plan = plan /\ j.at = at /\ j.base = i.base /\ j.picked = i.picked
  BY DEF Fields
<1> HIDE DEF j
<1> QED
  BY <1>1, <1>2, <1>3 DEF RowsInv

(* A step of a goroutine.                                                  *)
LEMMA RowsNext ==
    ASSUME PlansInv, NewestInv, FilesGrown, \A h \in Goroutines : RowsInv(job[h]),
           NEW g \in Goroutines,
           \/ Submit(g) \/ Run(g) \/ Explain(g) \/ OracleExplain(g)
           \/ AnalyzeBegins(g) \/ AnalyzeEnds(g)
           \/ ShowplanOn(g) \/ ShowplanRead(g) \/ ShowplanOff(g)
           \/ SaveBegins(g) \/ SaveEnds(g) \/ Latest(g) \/ Load(g)
    PROVE  \A h \in Goroutines : RowsInv(job[h])'
<1>0. /\ DOMAIN job = Goroutines /\ DOMAIN job[g] = Fields /\ RowsInv(job[g])
      /\ dialect' = dialect /\ dialect \in Dialects
  <2>1. dialect' = dialect
    BY DEF Submit, Run, Explain, OracleExplain, AnalyzeBegins, AnalyzeEnds, ShowplanOn,
           ShowplanRead, ShowplanOff, SaveBegins, SaveEnds, Latest, Load, LoadBaseline
  <2> QED
    BY <2>1 DEF PlansInv, JobInv
<1>1. ASSUME NEW j, job' = [job EXCEPT ![g] = j], RowsInv(j)
      PROVE  \A h \in Goroutines : RowsInv(job[h])'
  BY <1>0, <1>1, RowsStep
<1>2. ASSUME Fails(g) PROVE \A h \in Goroutines : RowsInv(job[h])'
  <2>1. job' = [job EXCEPT ![g] = Ended(job[g])] /\ RowsInv(Ended(job[g]))
    BY <1>2, IdleGrown DEF Fails, Ended
  <2> QED
    BY <1>1, <2>1
<1>3. ASSUME NEW mode, mode = "EXPLAIN" \/ (mode = "EXPLAIN ANALYZE" /\ AnalyzeSupported(dialect)),
             NEW plan \in Answers(mode), job' = [job EXCEPT ![g] = WithPlan(job[g], plan)]
      PROVE  \A h \in Goroutines : RowsInv(job[h])'
  <2>1. Grown(plan)
    BY <1>0, <1>3, GrownAnswer
  <2>2. RowsInv(WithPlan(job[g], plan))
    BY <1>0, <2>1, WithPlanGrown
  <2> QED
    BY <1>1, <1>3, <2>2
<1>a. ASSUME NEW plan \in Answers("EXPLAIN")
      PROVE  /\ Grown(plan)
             /\ job' = [job EXCEPT ![g] = WithPlan(job[g], plan)]
                    => \A h \in Goroutines : RowsInv(job[h])'
  <2>2. Grown(plan)
    BY <1>0, PlainAnswer
  <2>3. RowsInv(WithPlan(job[g], plan))
    BY <1>0, <2>2, WithPlanGrown
  <2> QED
    BY <1>1, <2>2, <2>3
<1>b. ASSUME AnalyzeSupported(dialect), NEW plan \in Answers("EXPLAIN ANALYZE"),
             job' = [job EXCEPT ![g] = WithPlan(job[g], plan)]
      PROVE  \A h \in Goroutines : RowsInv(job[h])'
  <2> DEFINE mode == "EXPLAIN ANALYZE"
  <2>1. mode = "EXPLAIN ANALYZE" /\ plan \in Answers(mode)
    OBVIOUS
  <2> HIDE DEF mode
  <2> QED
    BY <1>3, <1>b, <2>1
<1>4. CASE Submit(g)
  <2>1. PICK d \in Directives, t \in Statements[dialect] :
          \/ job' = [job EXCEPT ![g] = [IdleJob EXCEPT !.dir = d]]
          \/ /\ d.kind = "analyze" => Guard(dialect, t, TRUE) # "BLOCK"
             /\ job' = [job EXCEPT ![g] =
                    [IdleJob EXCEPT !.dir = d, !.text = t,
                        !.at = IF d.kind = "run" THEN "run" ELSE "explain",
                        !.floor = IF d.kind = "diff" THEN NewestFor(d) ELSE 0]]
    BY <1>4 DEF Submit
  <2>2. CASE job' = [job EXCEPT ![g] = [IdleJob EXCEPT !.dir = d]]
    BY <1>1, <2>2, IdleGrown
  <2>3. ASSUME NEW at, at \in {"run", "explain"}, NEW floor,
               d.kind = "analyze" => Guard(dialect, t, TRUE) # "BLOCK",
               job' = [job EXCEPT ![g] =
                    [IdleJob EXCEPT !.dir = d, !.text = t, !.at = at, !.floor = floor]]
        PROVE  \A h \in Goroutines : RowsInv(job[h])'
    <3> DEFINE j == [IdleJob EXCEPT !.dir = d, !.text = t, !.at = at, !.floor = floor]
    <3>1. j.at = at /\ j.dir = d /\ j.plan = NoPlan /\ j.base = Absent
          /\ j.picked = None
      BY DEF IdleJob
    <3>2. job' = [job EXCEPT ![g] = j]
      BY <2>3
    <3> HIDE DEF j
    <3>3. RowsInv(j)
      BY <2>3, <3>1 DEF RowsInv, Guard
    <3> QED
      BY <1>1, <3>2, <3>3
  <2>4. CASE /\ d.kind = "analyze" => Guard(dialect, t, TRUE) # "BLOCK"
             /\ job' = [job EXCEPT ![g] =
                    [IdleJob EXCEPT !.dir = d, !.text = t,
                        !.at = IF d.kind = "run" THEN "run" ELSE "explain",
                        !.floor = IF d.kind = "diff" THEN NewestFor(d) ELSE 0]]
    <3> DEFINE at == IF d.kind = "run" THEN "run" ELSE "explain"
               floor == IF d.kind = "diff" THEN NewestFor(d) ELSE 0
    <3>1. at \in {"run", "explain"}
      OBVIOUS
    <3>2. job' = [job EXCEPT ![g] =
                    [IdleJob EXCEPT !.dir = d, !.text = t, !.at = at, !.floor = floor]]
      BY <2>4
    <3> HIDE DEF at, floor
    <3> QED
      BY <2>3, <2>4, <3>1, <3>2
  <2> QED
    BY <2>1, <2>2, <2>4
<1>5. CASE Run(g)
  <2>1. ASSUME NEW c, NEW ran,
               job' = [job EXCEPT ![g].at = "answered", ![g].conn = c, ![g].ran = ran]
        PROVE  \A h \in Goroutines : RowsInv(job[h])'
    <3> DEFINE j == [job[g] EXCEPT !.at = "answered", !.conn = c, !.ran = ran]
    <3>1. /\ j.at = "answered" /\ j.plan = job[g].plan /\ j.base = job[g].base
          /\ j.picked = job[g].picked
      BY <1>0 DEF Fields
    <3>2. job' = [job EXCEPT ![g] = j]
      BY <1>0, <2>1
    <3> HIDE DEF j
    <3>3. RowsInv(j)
      BY <1>0, <3>1 DEF RowsInv
    <3> QED
      BY <1>1, <3>2, <3>3
  <2> QED
    BY <1>2, <1>5, <2>1 DEF Run
<1>6. CASE Explain(g) \/ OracleExplain(g)
  BY <1>2, <1>a, <1>6 DEF Explain, OracleExplain
<1>7. CASE AnalyzeBegins(g)
  <2>1. CASE job' = [job EXCEPT ![g].at = "tx"]
    <3>0. AnalyzeSupported(dialect)
      BY <1>0, <1>7 DEF AnalyzeBegins, At, Mode, RowsInv
    <3> DEFINE j == [job[g] EXCEPT !.at = "tx"]
    <3>1. /\ j.at = "tx" /\ j.plan = job[g].plan /\ j.base = job[g].base
          /\ j.picked = job[g].picked
      BY <1>0 DEF Fields
    <3>2. job' = [job EXCEPT ![g] = j]
      BY <1>0, <2>1
    <3> HIDE DEF j
    <3>3. RowsInv(j)
      BY <1>0, <3>0, <3>1 DEF RowsInv
    <3> QED
      BY <1>1, <3>2, <3>3
  <2> QED
    BY <1>2, <1>7, <2>1 DEF AnalyzeBegins
<1>8. CASE AnalyzeEnds(g)
  <2>1. AnalyzeSupported(dialect)
    BY <1>0, <1>8 DEF AnalyzeEnds, At, RowsInv
  <2> QED
    BY <1>2, <1>b, <1>8, <2>1 DEF AnalyzeEnds
<1>9. CASE ShowplanOn(g)
  <2>1. ASSUME NEW c, job' = [job EXCEPT ![g].at = "pinned", ![g].conn = c]
        PROVE  \A h \in Goroutines : RowsInv(job[h])'
    <3> DEFINE j == [job[g] EXCEPT !.at = "pinned", !.conn = c]
    <3>1. /\ j.at = "pinned" /\ j.plan = job[g].plan /\ j.base = job[g].base
          /\ j.picked = job[g].picked
      BY <1>0 DEF Fields
    <3>2. job' = [job EXCEPT ![g] = j]
      BY <1>0, <2>1
    <3> HIDE DEF j
    <3>3. RowsInv(j)
      BY <1>0, <3>1 DEF RowsInv
    <3> QED
      BY <1>1, <3>2, <3>3
  <2> QED
    BY <1>2, <1>9, <2>1 DEF ShowplanOn
<1>10. CASE ShowplanRead(g)
  <2>1. ASSUME NEW plan, plan = job[g].plan \/ Grown(plan),
               \/ job' = [job EXCEPT ![g].at = "off"] /\ plan = job[g].plan
               \/ job' = [job EXCEPT ![g].at = "off", ![g].plan = plan]
        PROVE  \A h \in Goroutines : RowsInv(job[h])'
    <3>1. PICK j : /\ job' = [job EXCEPT ![g] = j] /\ j.at = "off" /\ j.plan = plan
                 /\ j.base = job[g].base /\ j.picked = job[g].picked
      <4>1. CASE job' = [job EXCEPT ![g].at = "off"] /\ plan = job[g].plan
        <5> DEFINE j == [job[g] EXCEPT !.at = "off"]
        <5>1. /\ j.at = "off" /\ j.plan = plan /\ j.base = job[g].base
              /\ j.picked = job[g].picked
          BY <1>0, <4>1 DEF Fields
        <5>2. job' = [job EXCEPT ![g] = j]
          BY <1>0, <4>1
        <5> HIDE DEF j
        <5> QED
          BY <5>1, <5>2
      <4>2. CASE job' = [job EXCEPT ![g].at = "off", ![g].plan = plan]
        <5> DEFINE j == [job[g] EXCEPT !.at = "off", !.plan = plan]
        <5>1. /\ j.at = "off" /\ j.plan = plan /\ j.base = job[g].base
              /\ j.picked = job[g].picked
          BY <1>0 DEF Fields
        <5>2. job' = [job EXCEPT ![g] = j]
          BY <1>0, <4>2
        <5> HIDE DEF j
        <5> QED
          BY <5>1, <5>2
      <4> QED
        BY <2>1, <4>1, <4>2
    <3>2. RowsInv(j)
      BY <1>0, <2>1, <3>1 DEF RowsInv
    <3> QED
      BY <1>1, <3>1, <3>2
  <2> QED
    BY <1>10, <1>a, <2>1 DEF ShowplanRead
<1>11. CASE ShowplanOff(g)
  <2>1. \/ job' = [job EXCEPT ![g] = Ended(job[g])]
        \/ job[g].plan # NoPlan /\ job' = [job EXCEPT ![g] = WithPlan(job[g], job[g].plan)]
    BY <1>11 DEF ShowplanOff
  <2>2. ASSUME job[g].plan # NoPlan PROVE RowsInv(WithPlan(job[g], job[g].plan))
    <3>1. Grown(job[g].plan)
      BY <1>0, <2>2 DEF RowsInv
    <3> QED
      BY <1>0, <3>1, WithPlanGrown
  <2> QED
    BY <1>1, <1>2, <2>1, <2>2 DEF Fails
<1>12. ASSUME NEW b, job' = [job EXCEPT ![g].at = "write", ![g].base = b],
              Grown(job[g].plan), b.plan = job[g].plan
       PROVE  \A h \in Goroutines : RowsInv(job[h])'
  <2> DEFINE j == [job[g] EXCEPT !.at = "write", !.base = b]
  <2>1. j.at = "write" /\ j.plan = job[g].plan /\ j.base = b
        /\ j.picked = job[g].picked
    BY <1>0 DEF Fields
  <2>2. job' = [job EXCEPT ![g] = j]
    BY <1>0, <1>12
  <2> HIDE DEF j
  <2>3. RowsInv(j)
    BY <1>0, <1>12, <2>1 DEF RowsInv, Grown
  <2> QED
    BY <1>1, <2>2, <2>3
<1>13. CASE SaveBegins(g)
  <2>1. Grown(job[g].plan)
    BY <1>0, <1>13 DEF SaveBegins, At, RowsInv
  <2>2. ASSUME NEW name, NEW time,
               job' = [job EXCEPT ![g].at = "write",
                                  ![g].base = Baseline(name, time, job[g].plan)]
        PROVE  \A h \in Goroutines : RowsInv(job[h])'
    <3> DEFINE b == Baseline(name, time, job[g].plan)
    <3>1. b.plan = job[g].plan
      BY DEF Baseline
    <3>2. job' = [job EXCEPT ![g].at = "write", ![g].base = b]
      BY <2>2
    <3> HIDE DEF b
    <3> QED
      BY <1>12, <2>1, <3>1, <3>2
  <2> QED
    BY <1>2, <1>13, <2>2 DEF SaveBegins
<1>14. CASE SaveEnds(g)
  BY <1>2, <1>14 DEF SaveEnds, Fails
<1>15. CASE Latest(g)
  <2>1. ASSUME NEW b \in Names \union Seconds, job' = [job EXCEPT ![g].picked = b]
        PROVE  \A h \in Goroutines : RowsInv(job[h])'
    <3> DEFINE j == [job[g] EXCEPT !.picked = b]
    <3>1. j.at = "load" /\ j.plan = job[g].plan /\ j.base = job[g].base
          /\ j.picked = b /\ job[g].at = "load"
      BY <1>0, <1>15 DEF Fields, Latest, At
    <3>2. job' = [job EXCEPT ![g] = j]
      BY <1>0, <2>1
    <3> HIDE DEF j
    <3>3. RowsInv(j)
      BY <1>0, <3>1 DEF RowsInv
    <3> QED
      BY <1>1, <3>2, <3>3
  <2>2. ASSUME Listed # {} PROVE Newest(Listed).name \in Names \union Seconds
    <3>1. Newest(Listed) \in Listed
      BY <2>2, NewestListed DEF NewestInv
    <3> QED
      BY <3>1 DEF NewestInv, FilesInv, IsBaseline, Listed
  <2> QED
    BY <1>2, <1>15, <2>1, <2>2 DEF Latest
<1>16. CASE Load(g)
  <2>1. ASSUME NEW b, Tree(b.plan), job' = [job EXCEPT ![g].at = "answered", ![g].base = b]
        PROVE  \A h \in Goroutines : RowsInv(job[h])'
    <3> DEFINE j == [job[g] EXCEPT !.at = "answered", !.base = b]
    <3>1. j.at = "answered" /\ j.plan = job[g].plan /\ j.base = b
          /\ j.picked = job[g].picked /\ job[g].at = "load"
      BY <1>0, <1>16 DEF Fields, Load, At
    <3>2. job' = [job EXCEPT ![g] = j]
      BY <1>0, <2>1
    <3> HIDE DEF j
    <3>3. RowsInv(j)
      BY <1>0, <2>1, <3>1 DEF RowsInv
    <3> QED
      BY <1>1, <3>2, <3>3
  <2>2. ASSUME NEW name \in Names \union Seconds, LoadBaseline(g, name)
        PROVE  \A h \in Goroutines : RowsInv(job[h])'
    <3>0. Sanitize[name] \in Files
      BY DEF Files
    <3>1. CASE Decoded(Sanitize[name])
      <4>1. Tree(files[Sanitize[name]].plan)
        BY <3>0, <3>1 DEF FilesGrown
      <4> QED
        BY <1>2, <2>1, <2>2, <3>1, <4>1 DEF LoadBaseline
    <3> QED
      BY <1>2, <2>2, <3>1 DEF LoadBaseline
  <2>3. job[g].dir.name \in Names \union {None}
    BY DEF NewestInv, DiffInv
  <2>4. job[g].picked \in Names \union Seconds \union {None}
    BY <1>0 DEF RowsInv
  <2> QED
    BY <1>16, <2>2, <2>3, <2>4 DEF Load
<1> QED
  BY <1>4, <1>5, <1>6, <1>7, <1>8, <1>9, <1>10, <1>11, <1>13, <1>14, <1>15, <1>16

(* The files' baselines are trees too.                                     *)
LEMMA FilesStay ==
    ASSUME PlansInv, NewestInv, FilesGrown, \A h \in Goroutines : RowsInv(job[h]),
           NEW g \in Goroutines,
           \/ Submit(g) \/ Run(g) \/ Explain(g) \/ OracleExplain(g)
           \/ AnalyzeBegins(g) \/ AnalyzeEnds(g)
           \/ ShowplanOn(g) \/ ShowplanRead(g) \/ ShowplanOff(g)
           \/ SaveBegins(g) \/ SaveEnds(g) \/ Latest(g) \/ Load(g)
    PROVE  FilesGrown'
<1>1. DOMAIN files = Files
  BY DEF NewestInv, FilesInv
<1>2. CASE UNCHANGED files
  BY <1>2 DEF FilesGrown, Decoded
<1>3. ASSUME NEW h, NEW b, files' = [files EXCEPT ![h] = b],
             b.held # "baseline" \/ Tree(b.plan)
      PROVE  FilesGrown'
  <2> SUFFICES ASSUME NEW f \in Files, Decoded(f)' PROVE Tree(files'[f].plan)
    BY DEF FilesGrown
  <2>1. CASE files'[f] = b
    BY <1>3, <2>1 DEF Decoded
  <2>2. CASE files'[f] = files[f]
    BY <2>2 DEF FilesGrown, Decoded
  <2> QED
    BY <1>1, <1>3, <2>1, <2>2
<1>4. Empty.held # "baseline" /\ Garbled.held # "baseline"
  BY DEF Empty, Garbled
<1>5. CASE SaveBegins(g)
  BY <1>2, <1>3, <1>4, <1>5 DEF SaveBegins, Truncate, baselineVars
<1>6. CASE SaveEnds(g)
  <2>1. Tree(job[g].base.plan)
    <3>1. job[g].base.held = "baseline"
      BY <1>6 DEF SaveEnds, At, NewestInv, DiffInv, IsBaseline
    <3>2. job[g].base # Absent
      BY <3>1 DEF Absent
    <3> QED
      BY <3>2 DEF RowsInv
  <2> QED
    BY <1>2, <1>3, <1>4, <1>6, <2>1 DEF SaveEnds, Write, baselineVars
<1> QED
  BY <1>2, <1>5, <1>6 DEF Submit, Run, Explain, OracleExplain, AnalyzeBegins, AnalyzeEnds,
        ShowplanOn, ShowplanRead, ShowplanOff, Latest, Load, LoadBaseline, baselineVars

RowsAndFiles == (\A h \in Goroutines : RowsInv(job[h])) /\ FilesGrown

LEMMA RowsHold == Spec => []RowsAndFiles
<1>1. Init => RowsAndFiles
  <2> SUFFICES ASSUME Init PROVE RowsAndFiles
    OBVIOUS
  <2>1. RowsInv(IdleJob)
    <3> DEFINE j == IdleJob
    <3>1. j.at = "answered" /\ j.plan = NoPlan /\ j.base = Absent /\ j.picked = None
      BY DEF IdleJob
    <3> HIDE DEF j
    <3> QED
      BY <3>1 DEF RowsInv, j
  <2>2. FilesGrown
    BY DEF Init, BaselinesInit, FilesGrown, Decoded, Absent
  <2> QED
    BY <2>1, <2>2 DEF Init, RowsAndFiles
<1>2. PlansInv /\ NewestInv /\ RowsAndFiles /\ [Next]_vars => RowsAndFiles'
  <2> SUFFICES ASSUME PlansInv, NewestInv, RowsAndFiles, [Next]_vars PROVE RowsAndFiles'
    OBVIOUS
  <2>1. CASE UNCHANGED vars
    <3>1. job' = job /\ dialect' = dialect /\ files' = files
      BY <2>1 DEF vars, baselineVars
    <3> QED
      BY <3>1 DEF RowsAndFiles, RowsInv, Grown, FilesGrown, Decoded
  <2>2. CASE Next
    <3>1. PICK g \in Goroutines :
            \/ Submit(g) \/ Run(g) \/ Explain(g) \/ OracleExplain(g)
            \/ AnalyzeBegins(g) \/ AnalyzeEnds(g)
            \/ ShowplanOn(g) \/ ShowplanRead(g) \/ ShowplanOff(g)
            \/ SaveBegins(g) \/ SaveEnds(g) \/ Latest(g) \/ Load(g)
      BY <2>2 DEF Next
    <3>2. FilesGrown /\ \A h \in Goroutines : RowsInv(job[h])
      BY DEF RowsAndFiles
    <3>3. (\A h \in Goroutines : RowsInv(job[h]))'
      BY <3>1, <3>2, RowsNext
    <3>4. FilesGrown'
      BY <3>1, <3>2, FilesStay
    <3> QED
      BY <3>3, <3>4 DEF RowsAndFiles
  <2> QED
    BY <2>1, <2>2
<1> QED
  BY <1>1, <1>2, PlansHolds, NewestHolds, PTL DEF Spec

(* Whatever database answers with whatever plan, its parser puts a node    *)
(* below that of the row around its own, or the row that one names, and    *)
(* one root above all.  It loses no row, but PostgreSQL's those after the  *)
(* first plan, and MySQL's of JSON what is below an element it does not    *)
(* know, with all of it.                                                   *)
THEOREM RowsArePlaced == Spec => []RowsKept
<1>1. RowsAndFiles => RowsKept
  <2> SUFFICES ASSUME NEW g \in Goroutines, RowsInv(job[g]), job[g].plan # NoPlan
               PROVE  LET t == New(g)
                      IN  /\ Shows(t)
                          /\ \A k \in DOMAIN t.from :
                                \/ /\ t.parent[k] \in DOMAIN t.from
                                   /\ t.from[t.parent[k]] = Named(t.raw, t.from[k])
                                \/ /\ Named(t.raw, t.from[k]) = 0
                                   /\ t.parent[k] \in {0, t.root}
                          /\ {k \in DOMAIN t.node : t.parent[k] = 0} = {t.root}
    BY DEF RowsAndFiles, RowsKept
  <2> DEFINE t == New(g)
  <2>1. Grown(t)
    BY DEF RowsInv, New
  <2> HIDE DEF t
  <2>2. \A k : NameOf(dialect, t.raw, k) = Named(t.raw, k)
    BY DEF NameOf, Named
  <2>3. Shows(t)
    BY <2>1 DEF Grown, ShowsIn, Shows
  <2> QED
    BY <2>1, <2>2, <2>3 DEF Grown, Above, t
<1> QED
  BY <1>1, RowsHold, PTL
-----------------------------------------------------------------------------
(* Every new child of K has an old child of O or none, none twice.         *)
Matchings(K, O) ==
    {m \in [K -> O \union {0}] :
        \A j, k \in K : m[j] = m[k] /\ m[j] # 0 => j = k}

LEMMA MatchKeeps ==
    ASSUME NEW K, NEW O, O \subseteq Nat \ {0}, NEW fits, fits \subseteq O \X K,
           NEW m \in Matchings(K, O), NEW k
    PROVE  Match(m, fits, k) \in Matchings(K, O)
<1> DEFINE spare == {f[1] : f \in {f \in fits : f[2] = k}} \ {m[j] : j \in DOMAIN m}
           o == CHOOSE o \in spare : \A p \in spare : o <= p
           next == [m EXCEPT ![k] = o]
<1>1. CASE k \in DOMAIN m /\ m[k] = 0 /\ spare # {}
  <2>1. DOMAIN m = K /\ k \in K
    BY <1>1 DEF Matchings
  <2>2. spare \subseteq O
    OBVIOUS
  <2>3. o \in spare
    <3> HIDE DEF spare
    <3>1. \E i \in spare : \A p \in spare : i <= p
      BY <1>1, <2>2, Least
    <3> QED
      BY <3>1
  <2>4. o \in O /\ \A j \in K : m[j] # o
    BY <2>1, <2>2, <2>3
  <2> HIDE DEF o
  <2>5. next \in [K -> O \union {0}] /\ next[k] = o /\ \A j \in K \ {k} : next[j] = m[j]
    BY <2>1, <2>4 DEF Matchings
  <2>6. Match(m, fits, k) = next
    BY <1>1 DEF Match, o
  <2> HIDE DEF next
  <2>7. ASSUME NEW i \in K, NEW j \in K, next[i] = next[j], next[i] # 0 PROVE i = j
    <3>1. CASE i = k
      BY <2>4, <2>5, <2>7, <3>1
    <3>2. CASE j = k
      BY <2>4, <2>5, <2>7, <3>2
    <3>3. CASE i # k /\ j # k
      BY <2>5, <2>7, <3>3 DEF Matchings
    <3> QED
      BY <3>1, <3>2, <3>3
  <2> QED
    BY <2>5, <2>6, <2>7 DEF Matchings
<1>2. CASE ~(k \in DOMAIN m /\ m[k] = 0 /\ spare # {})
  BY <1>2 DEF Match
<1> QED
  BY <1>1, <1>2

(* A pass over children with numbers up to n.                              *)
Passing(after, last, m, fits) ==
    /\ last \in Nat /\ last = GreatestOf(DOMAIN m)
    /\ after[0] = m /\ \A i \in 1..last : after[i] = Match(after[i - 1], fits, i)
    /\ Pass(m, fits) = after[last]

LEMMA PassIs ==
    ASSUME NEW n \in Nat, NEW K, K \subseteq 1..n, NEW O, O \subseteq Nat \ {0},
           NEW fits, fits \subseteq O \X K, NEW m \in Matchings(K, O)
    PROVE  \E after, last : Passing(after, last, m, fits)
<1> DEFINE last == GreatestOf(DOMAIN m)
           S == Matchings(K, O)
           step == [i \in 1..last |-> [a \in S |-> Match(a, fits, i)]]
           after == CHOOSE g : g =
                        [i \in 0..last |-> IF i = 0 THEN m ELSE Match(g[i - 1], fits, i)]
<1>1. last \in Nat
  <2>1. DOMAIN m = K
    BY DEF Matchings
  <2>2. K \subseteq Nat /\ \A k \in K : k <= n
    OBVIOUS
  <2>3. /\ K = {} => GreatestOf(K) = 0
        /\ K # {} => GreatestOf(K) \in K
    BY <2>2, GreatestIs
  <2>4. GreatestOf(K) \in Nat
    <3>1. CASE K = {}
      BY <2>3, <3>1
    <3>2. CASE K # {}
      <4>1. GreatestOf(K) \in K
        BY <2>3, <3>2
      <4> QED
        BY <2>2, <4>1
    <3> QED
      BY <3>1, <3>2
  <2> QED
    BY <2>1, <2>4
<1>2. Pass(m, fits) = after[last]
  BY DEF Pass
<1> HIDE DEF last
<1>3. \A i \in 1..last : \A a \in S : Match(a, fits, i) \in S
  BY MatchKeeps
<1>4. PICK f : Follows(f, last, S, m, step)
  <2> HIDE DEF S
  <2>1. step \in [1..last -> [S -> S]]
    BY <1>3
  <2>2. m \in S
    BY DEF S
  <2> HIDE DEF step
  <2> QED
    BY <1>1, <2>1, <2>2, Recursion
<1>5. \A i \in 1..last : f[i] = Match(f[i - 1], fits, i)
  <2> TAKE i \in 1..last
  <2> HIDE DEF S
  <2>1. f[i - 1] \in S
    BY <1>1, <1>4 DEF Follows
  <2> QED
    BY <1>4, <2>1 DEF Follows
<1>6. f = [i \in 0..last |-> IF i = 0 THEN m ELSE Match(f[i - 1], fits, i)]
  <2> HIDE DEF S, step
  <2> QED
    BY <1>4, <1>5 DEF Follows
<1>7. after = [i \in 0..last |-> IF i = 0 THEN m ELSE Match(after[i - 1], fits, i)]
  BY <1>6
<1> HIDE DEF after
<1>8. /\ after[0] = m /\ \A i \in 1..last : after[i] = Match(after[i - 1], fits, i)
      /\ last = GreatestOf(DOMAIN m)
  <2>1. 0 \in 0..last /\ \A i \in 1..last : i \in 0..last /\ i # 0
    BY <1>1
  <2> QED
    BY <1>7, <2>1 DEF last
<1> QED
  BY <1>1, <1>2, <1>8 DEF Passing

LEMMA PassKeeps ==
    ASSUME NEW n \in Nat, NEW K, K \subseteq 1..n, NEW O, O \subseteq Nat \ {0},
           NEW fits, fits \subseteq O \X K, NEW m \in Matchings(K, O)
    PROVE  Pass(m, fits) \in Matchings(K, O)
<1>1. PICK after, last : Passing(after, last, m, fits)
  BY PassIs
<1>2. /\ last \in Nat /\ after[0] = m /\ Pass(m, fits) = after[last]
      /\ \A i \in 1..last : after[i] = Match(after[i - 1], fits, i)
  BY <1>1 DEF Passing
<1> DEFINE S == Matchings(K, O)
           H == {i \in 0..last : after[i] \in S}
<1>3. \A i \in 1..last : \A a \in S : Match(a, fits, i) \in S
  BY MatchKeeps
<1>4. 0 \in H
  BY <1>2
<1>5. ASSUME NEW i \in 1..last, i - 1 \in H PROVE i \in H
  <2>1. after[i] = Match(after[i - 1], fits, i) /\ i \in 0..last
    BY <1>2
  <2> HIDE DEF S
  <2> QED
    BY <1>3, <1>5, <2>1
<1>6. \A i \in 0..last : i \in H
  <2> HIDE DEF H
  <2>1. \A i \in 1..last : i - 1 \in H => i \in H
    BY <1>5
  <2> QED
    BY <1>2, <1>4, <2>1, InductionUpTo, Zenon
<1>7. last \in H
  BY <1>2, <1>6
<1> QED
  BY <1>2, <1>7

(* The nodes of A are on this side of the pairs once each.                 *)
Covers(P, side, A) ==
    /\ \A p \in P : p[side] \in A \union {0}
    /\ \A i \in A : \E p \in P : p[side] = i
    /\ \A p, q \in P : p[side] # 0 /\ p[side] = q[side] => p = q

(* Every pair has a node.                                                  *)
Couples(A, B) == ((A \union {0}) \X (B \union {0})) \ {<<0, 0>>}

Aligned(P, A, B) == P \subseteq Couples(A, B) /\ Covers(P, 1, A) /\ Covers(P, 2, B)

LEMMA MatchedOnce ==
    ASSUME NEW A, A \subseteq Nat \ {0}, NEW B, B \subseteq Nat \ {0},
           NEW m \in Matchings(B, A)
    PROVE  Aligned({<<m[k], k>> : k \in DOMAIN m}
                       \union ((A \ {m[k] : k \in DOMAIN m}) \X {0}), A, B)
<1> DEFINE kept == {<<m[k], k>> : k \in DOMAIN m}
           gone == (A \ {m[k] : k \in DOMAIN m}) \X {0}
           P == kept \union gone
<1>1. /\ DOMAIN m = B /\ \A k \in B : m[k] \in A \union {0}
      /\ \A j, k \in B : m[j] = m[k] /\ m[j] # 0 => j = k
      /\ 0 \notin A /\ 0 \notin B
  BY DEF Matchings
<1>2. ASSUME NEW p \in P
      PROVE  \/ p[2] \in B /\ p = <<m[p[2]], p[2]>> /\ p[1] = m[p[2]]
             \/ p[2] = 0 /\ p[1] \in A /\ p = <<p[1], 0>> /\ \A k \in B : m[k] # p[1]
  BY <1>1
<1>3. P \subseteq Couples(A, B)
  <2> SUFFICES ASSUME NEW p \in P PROVE p \in Couples(A, B)
    OBVIOUS
  <2>1. CASE p[2] \in B /\ p = <<m[p[2]], p[2]>>
    <3>1. m[p[2]] \in A \union {0} /\ p[2] # 0
      BY <1>1, <2>1
    <3> QED
      BY <2>1, <3>1 DEF Couples
  <2>2. CASE p[2] = 0 /\ p[1] \in A /\ p = <<p[1], 0>>
    BY <1>1, <2>2 DEF Couples
  <2> QED
    BY <1>2, <2>1, <2>2
<1>4. \A i \in A : \E p \in P : p[1] = i
  <2> TAKE i \in A
  <2>1. CASE \E k \in B : m[k] = i
    <3>1. PICK k \in B : m[k] = i
      BY <2>1
    <3>2. <<m[k], k>> \in P
      BY <1>1
    <3> HIDE DEF P
    <3> QED
      BY <3>1, <3>2
  <2>2. CASE \A k \in B : m[k] # i
    <3>1. <<i, 0>> \in P
      BY <1>1, <2>2
    <3> HIDE DEF P
    <3> QED
      BY <3>1
  <2> QED
    BY <2>1, <2>2
<1>5. \A i \in B : \E p \in P : p[2] = i
  <2> TAKE i \in B
  <2>1. <<m[i], i>> \in P
    BY <1>1
  <2> HIDE DEF P
  <2> QED
    BY <2>1
<1> HIDE DEF P
<1>6. Covers(P, 1, A)
  <2>1. \A p \in P : p[1] \in A \union {0}
    BY <1>1, <1>2
  <2>2. ASSUME NEW p \in P, NEW q \in P, p[1] # 0, p[1] = q[1] PROVE p = q
    BY <1>1, <1>2, <2>2
  <2> QED
    BY <1>4, <2>1, <2>2 DEF Covers
<1>7. Covers(P, 2, B)
  <2>1. \A p \in P : p[2] \in B \union {0}
    BY <1>2
  <2>2. ASSUME NEW p \in P, NEW q \in P, p[2] # 0, p[2] = q[2] PROVE p = q
    BY <1>2, <2>2
  <2> QED
    BY <1>5, <2>1, <2>2 DEF Covers
<1> QED
  BY <1>3, <1>6, <1>7 DEF Aligned, P

(* The nodes below this one, none below none.                              *)
Under(t, i) == IF i = 0 THEN {} ELSE Kids(t, i)

Nodes(t) == DOMAIN t.node

(* The children of two nodes are all paired, each once.                    *)
LEMMA ChildrenOnce ==
    ASSUME NEW old, Tree(old), NEW new, Tree(new), NEW o, NEW n
    PROVE  Aligned(PairChildren(old, new, o, n), Kids(old, o), Kids(new, n))
<1> DEFINE A == Kids(old, o)
           B == Kids(new, n)
<1>1. /\ A \subseteq 1..Len(old.node) /\ Len(old.node) \in Nat
      /\ B \subseteq 1..Len(new.node) /\ Len(new.node) \in Nat
  BY DEF Tree, Kids
<1>2. /\ SameSignature(old, new, o, n) \subseteq A \X B
      /\ SameOp(old, new, o, n) \subseteq A \X B
  BY DEF SameSignature, SameOp
<1> DEFINE m0 == NoPartner(B)
           m1 == Pass(m0, SameSignature(old, new, o, n))
           m2 == Pass(m1, SameOp(old, new, o, n))
           m3 == Pass(m2, A \X B)
<1>3. PairChildren(old, new, o, n) =
          {<<m3[k], k>> : k \in DOMAIN m3}
              \union ((A \ {m3[k] : k \in DOMAIN m3}) \X {0})
  BY DEF PairChildren
<1>4. m0 \in Matchings(B, A)
  BY DEF NoPartner, Matchings
<1> HIDE DEF A, B, m0
<1>5. A \subseteq Nat \ {0} /\ B \subseteq Nat \ {0}
  BY <1>1
<1>6. m1 \in Matchings(B, A)
  BY <1>1, <1>2, <1>4, <1>5, PassKeeps
<1> HIDE DEF m1
<1>7. m2 \in Matchings(B, A)
  BY <1>1, <1>2, <1>5, <1>6, PassKeeps
<1> HIDE DEF m2
<1>8. m3 \in Matchings(B, A)
  <2>1. A \X B \subseteq A \X B
    OBVIOUS
  <2> QED
    BY <1>1, <1>5, <1>7, <2>1, PassKeeps
<1> HIDE DEF m3
<1>9. Aligned({<<m3[k], k>> : k \in DOMAIN m3}
                  \union ((A \ {m3[k] : k \in DOMAIN m3}) \X {0}), A, B)
  BY <1>5, <1>8, MatchedOnce
<1> QED
  BY <1>3, <1>9 DEF A, B

(* The nodes below a pair are all paired, each once.                       *)
LEMMA BelowOnce ==
    ASSUME NEW old, Tree(old), NEW new, Tree(new),
           NEW p \in Couples(Nodes(old), Nodes(new))
    PROVE  Aligned(Below(old, new, p), Under(old, p[1]), Under(new, p[2]))
<1>1. /\ p[1] \in Nodes(old) \union {0} /\ p[2] \in Nodes(new) \union {0}
      /\ ~(p[1] = 0 /\ p[2] = 0)
  BY DEF Couples
<1>2. ASSUME NEW t, Tree(t), NEW i PROVE 0 \notin Kids(t, i)
  BY <1>2 DEF Tree, Kids
<1>3. CASE p[1] = 0
  <2> DEFINE B == Kids(new, p[2])
             P == {0} \X B
  <2>1. Below(old, new, p) = P /\ Under(old, p[1]) = {} /\ Under(new, p[2]) = B
    BY <1>1, <1>3 DEF Below, Under
  <2>2. 0 \notin B
    BY <1>2
  <2> HIDE DEF B
  <2>3. \A q \in P : q = <<0, q[2]>> /\ q[1] = 0 /\ q[2] \in B
    OBVIOUS
  <2>4. \A i \in B : <<0, i>> \in P /\ <<0, i>>[2] = i
    OBVIOUS
  <2>5. P \subseteq Couples({}, B)
    BY <2>2 DEF Couples
  <2> HIDE DEF P
  <2>6. Aligned(P, {}, B)
    <3>1. Covers(P, 1, {})
      BY <2>3 DEF Covers
    <3>2. Covers(P, 2, B)
      <4>1. \A q \in P : q[2] \in B \union {0}
        BY <2>3
      <4>2. \A i \in B : \E q \in P : q[2] = i
        BY <2>4
      <4>3. ASSUME NEW x \in P, NEW y \in P, x[2] = y[2] PROVE x = y
        <5>1. x = <<0, x[2]>> /\ y = <<0, y[2]>>
          BY <2>3
        <5> QED
          BY <4>3, <5>1
      <4> QED
        BY <4>1, <4>2, <4>3 DEF Covers
    <3> QED
      BY <2>5, <3>1, <3>2 DEF Aligned
  <2> QED
    BY <2>1, <2>6
<1>4. CASE p[1] # 0 /\ p[2] = 0
  <2> DEFINE A == Kids(old, p[1])
             P == A \X {0}
  <2>1. Below(old, new, p) = P /\ Under(old, p[1]) = A /\ Under(new, p[2]) = {}
    BY <1>1, <1>4 DEF Below, Under
  <2>2. 0 \notin A
    BY <1>2
  <2> HIDE DEF A
  <2>3. \A q \in P : q = <<q[1], 0>> /\ q[2] = 0 /\ q[1] \in A
    OBVIOUS
  <2>4. \A i \in A : <<i, 0>> \in P /\ <<i, 0>>[1] = i
    OBVIOUS
  <2>5. P \subseteq Couples(A, {})
    BY <2>2 DEF Couples
  <2> HIDE DEF P
  <2>6. Aligned(P, A, {})
    <3>1. Covers(P, 1, A)
      <4>1. \A q \in P : q[1] \in A \union {0}
        BY <2>3
      <4>2. \A i \in A : \E q \in P : q[1] = i
        BY <2>4
      <4>3. ASSUME NEW x \in P, NEW y \in P, x[1] = y[1] PROVE x = y
        <5>1. x = <<x[1], 0>> /\ y = <<y[1], 0>>
          BY <2>3
        <5> QED
          BY <4>3, <5>1
      <4> QED
        BY <4>1, <4>2, <4>3 DEF Covers
    <3>2. Covers(P, 2, {})
      BY <2>3 DEF Covers
    <3> QED
      BY <2>5, <3>1, <3>2 DEF Aligned
  <2> QED
    BY <2>1, <2>6
<1>5. CASE p[1] # 0 /\ p[2] # 0
  <2>1. /\ Below(old, new, p) = PairChildren(old, new, p[1], p[2])
        /\ Under(old, p[1]) = Kids(old, p[1]) /\ Under(new, p[2]) = Kids(new, p[2])
    BY <1>5 DEF Below, Under
  <2> QED
    BY <2>1, ChildrenOnce
<1> QED
  BY <1>3, <1>4, <1>5

(* Levels of pairs, from r on, each made of the pairs below those of the   *)
(* last.                                                                   *)
Levels(L, B, size, V, r) ==
    /\ size \in Nat /\ L[0] = {r}
    /\ \A k \in 0..size : L[k] \subseteq V
    /\ \A k \in 1..size : L[k] = UNION {B[p] : p \in L[k - 1]}

(* They have the tree t on this side: what is below a pair covers the      *)
(* nodes below its node.                                                   *)
Covering(B, size, V, r, side, t) ==
    /\ Tree(t) /\ Len(t.node) <= size /\ r[side] = t.root
    /\ \A p \in V : Covers(B[p], side, Under(t, p[side]))

LEMMA LevelUp ==
    ASSUME NEW L, NEW B, NEW size, NEW V, NEW r, Levels(L, B, size, V, r),
           NEW t, NEW side, Covering(B, size, V, r, side, t),
           NEW k \in 1..size, NEW q \in L[k], q[side] # 0
    PROVE  \E p \in L[k - 1] : /\ q \in B[p] /\ p[side] # 0 /\ p[side] = t.parent[q[side]]
                               /\ q[side] \in DOMAIN t.node \ {t.root}
<1>0. size \in Nat /\ L[0] = {r} /\ Tree(t) /\ Len(t.node) <= size /\ r[side] = t.root
  BY DEF Levels, Covering
<1> USE <1>0
<1>1. PICK p \in L[k - 1] : q \in B[p]
  BY DEF Levels
<1>2. p \in V
  <2>1. k - 1 \in 0..size
    OBVIOUS
  <2> QED
    BY <1>1, <2>1 DEF Levels
<1>3. q[side] \in Under(t, p[side])
  BY <1>1, <1>2 DEF Covering, Covers
<1>4. p[side] # 0 /\ q[side] \in DOMAIN t.node /\ t.parent[q[side]] = p[side]
  BY <1>3 DEF Under, Kids
<1> QED
  BY <1>1, <1>4 DEF Tree

(* Every node is in a level.                                               *)
LEMMA LevelsComplete ==
    ASSUME NEW L, NEW B, NEW size, NEW V, NEW r, Levels(L, B, size, V, r),
           NEW t, NEW side, Covering(B, size, V, r, side, t),
           NEW i \in DOMAIN t.node
    PROVE  \E k \in 0..size : \E p \in L[k] : p[side] = i
<1>0. size \in Nat /\ L[0] = {r} /\ Tree(t) /\ Len(t.node) <= size /\ r[side] = t.root
  BY DEF Levels, Covering
<1> USE <1>0
<1> DEFINE In(j) == \E k \in 0..j : \E p \in L[k] : p[side] = j
           bad == {j \in DOMAIN t.node : ~In(j)}
<1>1. DOMAIN t.node = 1..Len(t.node) /\ Len(t.node) \in Nat
  BY DEF Tree
<1>2. t.root \in DOMAIN t.node /\ In(t.root)
  <2>1. t.root \in DOMAIN t.node
    BY DEF Tree
  <2>2. 0 \in 0..t.root
    BY <1>1, <2>1
  <2> QED
    BY <2>1, <2>2
<1>3. ASSUME NEW j \in bad, \A l \in bad : j <= l PROVE FALSE
  <2>1. j \in 1..Len(t.node) /\ j # t.root
    BY <1>1, <1>2
  <2> DEFINE up == t.parent[j]
  <2>2. up \in DOMAIN t.node /\ (up = t.root \/ up < j)
    BY <1>1, <2>1 DEF Tree
  <2> HIDE DEF up
  <2>3. PICK k \in 0..(j - 1) : \E p \in L[k] : p[side] = up
    <3>1. CASE up = t.root
      <4>1. 0 \in 0..(j - 1)
        BY <2>1
      <4> QED
        BY <3>1, <4>1
    <3>2. CASE up # t.root
      <4>1. up < j /\ up \notin bad
        BY <1>1, <1>3, <2>1, <2>2, <3>2
      <4>2. PICK k \in 0..up : \E p \in L[k] : p[side] = up
        BY <2>2, <4>1
      <4>3. k \in 0..(j - 1)
        BY <1>1, <2>1, <2>2, <4>1
      <4> QED
        BY <4>2, <4>3
    <3> QED
      BY <3>1, <3>2
  <2>a. PICK p \in L[k] : p[side] = up
    BY <2>3
  <2>4. j <= size /\ k + 1 \in 1..size /\ k \in 0..size /\ (k + 1) - 1 = k /\ k + 1 \in 0..j
    BY <1>1, <2>1, <2>3
  <2>5. p \in V
    BY <2>a, <2>4 DEF Levels
  <2>6. j \in Under(t, p[side])
    <3>1. up # 0
      BY <1>1, <2>2
    <3> QED
      BY <1>1, <2>1, <2>a, <3>1 DEF Under, Kids, up
  <2>7. PICK q \in B[p] : q[side] = j
    BY <2>5, <2>6 DEF Covering, Covers
  <2>8. L[k + 1] = UNION {B[a] : a \in L[k]}
    BY <2>4 DEF Levels
  <2>9. q \in L[k + 1]
    BY <2>a, <2>7, <2>8
  <2>10. In(j)
    BY <2>4, <2>7, <2>9
  <2> QED
    BY <2>10
<1>4. bad = {}
  <2>1. bad \subseteq Nat
    BY <1>1
  <2> HIDE DEF bad
  <2> QED
    BY <1>3, <2>1, Least
<1>5. PICK k \in 0..i : \E p \in L[k] : p[side] = i
  BY <1>4
<1>6. k \in 0..size
  BY <1>1, <1>5
<1> QED
  BY <1>5, <1>6

(* No node is in two pairs.                                                *)
LEMMA LevelsUnique ==
    ASSUME NEW L, NEW B, NEW size, NEW V, NEW r, Levels(L, B, size, V, r),
           NEW t, NEW side, Covering(B, size, V, r, side, t),
           NEW k \in 0..size, NEW p \in L[k], NEW l \in 0..size, NEW q \in L[l],
           p[side] # 0, p[side] = q[side]
    PROVE  p = q
<1>0. size \in Nat /\ L[0] = {r} /\ Tree(t) /\ Len(t.node) <= size /\ r[side] = t.root
  BY DEF Levels, Covering
<1> USE <1>0
<1> DEFINE Once(j) == \A a, b \in 0..size : \A x \in L[a] : \A y \in L[b] :
                          x[side] = j /\ y[side] = j => x = y
           bad == {j \in DOMAIN t.node : ~Once(j)}
<1>1. DOMAIN t.node = 1..Len(t.node) /\ Len(t.node) \in Nat /\ t.root \in DOMAIN t.node
  BY DEF Tree
<1>2. ASSUME NEW a \in 0..size, NEW x \in L[a], x[side] # 0
      PROVE  \/ x = r /\ x[side] = t.root
             \/ /\ a \in 1..size /\ x[side] \in DOMAIN t.node \ {t.root}
                /\ \E u \in L[a - 1] :
                     x \in B[u] /\ u[side] # 0 /\ u[side] = t.parent[x[side]]
  <2>1. CASE a = 0
    BY <2>1
  <2>2. CASE a # 0
    <3>1. a \in 1..size
      BY <2>2
    <3>2. \E u \in L[a - 1] : /\ x \in B[u] /\ u[side] # 0 /\ u[side] = t.parent[x[side]]
                              /\ x[side] \in DOMAIN t.node \ {t.root}
      BY <1>2, <3>1, LevelUp
    <3> QED
      BY <3>1, <3>2
  <2> QED
    BY <2>1, <2>2
<1>3. Once(t.root)
  <2> SUFFICES ASSUME NEW a \in 0..size, NEW x \in L[a], x[side] = t.root PROVE x = r
    OBVIOUS
  <2>1. x[side] # 0
    BY <1>1
  <2> QED
    BY <1>2, <2>1
<1>4. ASSUME NEW j \in bad, \A i \in bad : j <= i PROVE FALSE
  <2>1. j # t.root /\ j \in DOMAIN t.node /\ j # 0
    BY <1>1, <1>3
  <2> DEFINE up == t.parent[j]
  <2>2. up \in DOMAIN t.node /\ (up = t.root \/ up < j)
    BY <2>1 DEF Tree
  <2> HIDE DEF up
  <2>3. Once(up)
    <3>1. CASE up = t.root
      BY <1>3, <3>1
    <3>2. CASE up # t.root
      <4>1. up < j /\ ~(j <= up)
        BY <1>1, <2>1, <2>2, <3>2
      <4>2. up \notin bad
        <5> HIDE DEF bad
        <5> QED
          BY <1>4, <4>1
      <4> QED
        BY <2>2, <4>2
    <3> QED
      BY <3>1, <3>2
  <2>4. ASSUME NEW a \in 0..size, NEW b \in 0..size, NEW x \in L[a], NEW y \in L[b],
               x[side] = j, y[side] = j
        PROVE  x = y
    <3>0. ASSUME NEW c \in 0..size, NEW z \in L[c], z[side] = j
          PROVE  \E u \in L[c - 1] : z \in B[u] /\ u[side] = up
      <4>1. z[side] # 0 /\ z[side] # t.root
        BY <2>1, <3>0
      <4>2. \E u \in L[c - 1] : z \in B[u] /\ u[side] = t.parent[z[side]]
        BY <1>2, <4>1
      <4> QED
        BY <3>0, <4>2 DEF up
    <3>1. PICK u \in L[a - 1] : x \in B[u] /\ u[side] = up
      BY <2>4, <3>0
    <3>2. PICK v \in L[b - 1] : y \in B[v] /\ v[side] = up
      BY <2>4, <3>0
    <3>3. a - 1 \in 0..size /\ b - 1 \in 0..size
      <4>1. a \in 1..size /\ b \in 1..size
        BY <1>2, <2>1, <2>4
      <4> QED
        BY <4>1
    <3>4. u = v
      BY <2>3, <3>1, <3>2, <3>3
    <3>5. u \in V
      BY <3>3 DEF Levels
    <3>6. Covers(B[u], side, Under(t, u[side]))
      BY <3>5 DEF Covering
    <3> QED
      BY <2>1, <2>4, <3>1, <3>2, <3>4, <3>6 DEF Covers
  <2>5. Once(j)
    BY <2>4
  <2> QED
    BY <2>5
<1>5. bad = {}
  <2>1. bad \subseteq Nat
    BY <1>1
  <2> HIDE DEF bad
  <2> QED
    BY <1>4, <2>1, Least
<1>6. p[side] \in DOMAIN t.node
  BY <1>1, <1>2
<1>7. Once(p[side])
  BY <1>5, <1>6
<1> HIDE DEF bad
<1> QED
  BY <1>7

(* Every node of t is on this side of one pair.                            *)
OnceIn(pairs, side, t) ==
    \A i \in DOMAIN t.node : \E x \in pairs : {p \in pairs : p[side] = i} = {x}

LEMMA OneOfEach ==
    ASSUME NEW L, NEW B, NEW size, NEW V, NEW r, Levels(L, B, size, V, r),
           NEW t, NEW side, Covering(B, size, V, r, side, t),
           NEW pairs, pairs = UNION {L[k] : k \in 0..size}
    PROVE  OnceIn(pairs, side, t)
<1> SUFFICES ASSUME NEW i \in DOMAIN t.node
             PROVE  \E x \in pairs : {p \in pairs : p[side] = i} = {x}
  BY DEF OnceIn
<1>2. PICK k \in 0..size : \E p \in L[k] : p[side] = i
  BY LevelsComplete
<1>3. PICK x \in L[k] : x[side] = i
  BY <1>2
<1>4. i # 0
  BY DEF Covering, Tree
<1>5. ASSUME NEW q \in pairs, q[side] = i PROVE q = x
  <2>1. PICK l \in 0..size : q \in L[l]
    OBVIOUS
  <2> QED
    BY <1>3, <1>4, <1>5, <2>1, LevelsUnique
<1>6. {q \in pairs : q[side] = i} = {x}
  BY <1>3, <1>5
<1> QED
  BY <1>3, <1>6

(* The levels of an alignment, of pairs in V.                              *)
LevelsOf(level, size, V, old, new) ==
    /\ Alignment(old, new) = UNION {level[k] : k \in 0..size}
    /\ level[0] = {<<old.root, new.root>>}
    /\ \A k \in 0..size : level[k] \subseteq V
    /\ \A k \in 1..size : level[k] = UNION {Below(old, new, p) : p \in level[k - 1]}

LEMMA AlignmentLevels ==
    ASSUME NEW old, NEW new, Len(old.node) + Len(new.node) \in Nat,
           NEW V, <<old.root, new.root>> \in V, \A p \in V : Below(old, new, p) \subseteq V
    PROVE  \E level : LevelsOf(level, Len(old.node) + Len(new.node), V, old, new)
<1> DEFINE size == Len(old.node) + Len(new.node)
           r == <<old.root, new.root>>
           first == {r}
           Lower(P) == UNION {Below(old, new, p) : p \in P}
           S == SUBSET V
           step == [k \in 1..size |-> [P \in S |-> Lower(P)]]
           level == CHOOSE g : g = [k \in 0..size |-> IF k = 0 THEN first ELSE Lower(g[k - 1])]
<1>0. size \in Nat
  OBVIOUS
<1>1. Alignment(old, new) = UNION {level[k] : k \in 0..size}
  BY DEF Alignment
<1> HIDE DEF size
<1> USE <1>0
<1>2. r \in V
  OBVIOUS
<1>3. \A P \in S : Lower(P) \in S
  OBVIOUS
<1> HIDE DEF Lower, r
<1>4. PICK f : Follows(f, size, S, first, step)
  <2>1. step \in [1..size -> [S -> S]]
    BY <1>3
  <2>2. first \in S
    BY <1>2
  <2> HIDE DEF step, S, first
  <2> QED
    BY <2>1, <2>2, Recursion
<1>5. \A k \in 1..size : f[k] = Lower(f[k - 1])
  <2> TAKE k \in 1..size
  <2> HIDE DEF S
  <2>1. f[k - 1] \in S
    BY <1>4 DEF Follows
  <2> QED
    BY <1>4, <2>1 DEF Follows
<1>6. f = [k \in 0..size |-> IF k = 0 THEN first ELSE Lower(f[k - 1])]
  <2> HIDE DEF S, step, first
  <2> QED
    BY <1>4, <1>5 DEF Follows
<1>7. level = [k \in 0..size |-> IF k = 0 THEN first ELSE Lower(level[k - 1])]
  BY <1>6
<1> HIDE DEF level
<1>8. level[0] = {r} /\ \A k \in 1..size : level[k] = Lower(level[k - 1])
  <2>1. 0 \in 0..size /\ \A k \in 1..size : k \in 0..size /\ k # 0
    OBVIOUS
  <2> QED
    BY <1>7, <2>1
<1>9. \A k \in 0..size : level[k] \in S
  <2> DEFINE H == {k \in 0..size : level[k] \in S}
  <2>1. 0 \in H
    BY <1>2, <1>8
  <2>2. ASSUME NEW k \in 1..size, k - 1 \in H PROVE k \in H
    <3> HIDE DEF S
    <3>1. k \in 0..size
      OBVIOUS
    <3> QED
      BY <1>3, <1>8, <2>2, <3>1
  <2>3. \A k \in 0..size : k \in H
    <3> HIDE DEF H
    <3>1. \A k \in 1..size : k - 1 \in H => k \in H
      BY <2>2
    <3> QED
      BY <2>1, <3>1, InductionUpTo, Zenon
  <2> QED
    BY <2>3
<1> QED
  BY <1>1, <1>8, <1>9 DEF LevelsOf, Lower, r, size

(* Every node of both trees is in one pair, and nodes are compared only    *)
(* below nodes that are.                                                   *)
LEMMA AlignmentOnce ==
    ASSUME NEW old, Tree(old), NEW new, Tree(new)
    PROVE  LET pairs == Alignment(old, new)
           IN  /\ pairs \subseteq Couples(Nodes(old), Nodes(new))
               /\ <<old.root, new.root>> \in pairs
               /\ OnceIn(pairs, 1, old) /\ OnceIn(pairs, 2, new)
               /\ \A p \in pairs :
                     p[1] # 0 /\ p[2] # 0 /\ p # <<old.root, new.root>> =>
                         <<old.parent[p[1]], new.parent[p[2]]>> \in pairs
<1> DEFINE V == Couples(Nodes(old), Nodes(new))
           B == [p \in V |-> Below(old, new, p)]
           size == Len(old.node) + Len(new.node)
           r == <<old.root, new.root>>
           pairs == Alignment(old, new)
<1>1. size \in Nat /\ Len(old.node) <= size /\ Len(new.node) <= size
  <2>1. Len(old.node) \in Nat /\ Len(new.node) \in Nat
    BY DEF Tree
  <2>2. \A a, b \in Nat : a + b \in Nat /\ a <= a + b /\ b <= a + b
    OBVIOUS
  <2> QED
    BY <2>1, <2>2
<1> HIDE DEF size
<1>2. ASSUME NEW p \in V
      PROVE  Below(old, new, p) \subseteq V /\ Aligned(B[p], Under(old, p[1]), Under(new, p[2]))
  <2>1. Aligned(Below(old, new, p), Under(old, p[1]), Under(new, p[2]))
    BY <1>2, BelowOnce
  <2>2. Under(old, p[1]) \subseteq Nodes(old) /\ Under(new, p[2]) \subseteq Nodes(new)
    BY DEF Under, Kids, Nodes
  <2>3. Couples(Under(old, p[1]), Under(new, p[2])) \subseteq V
    BY <2>2 DEF Couples
  <2>4. Below(old, new, p) \subseteq V
    BY <2>1, <2>3 DEF Aligned
  <2> QED
    BY <2>1, <2>4
<1>3. r \in V /\ r[1] = old.root /\ r[2] = new.root
  BY DEF Tree, Couples, Nodes
<1>4. PICK level : LevelsOf(level, size, V, old, new)
  <2>1. r \in V /\ \A p \in V : Below(old, new, p) \subseteq V
    BY <1>2, <1>3
  <2> HIDE DEF V
  <2> QED
    BY <1>1, <2>1, AlignmentLevels DEF size
<1> HIDE DEF V, pairs
<1>5. /\ pairs = UNION {level[k] : k \in 0..size} /\ level[0] = {r}
      /\ \A k \in 0..size : level[k] \subseteq V
      /\ \A k \in 1..size : level[k] = UNION {Below(old, new, p) : p \in level[k - 1]}
  BY <1>4 DEF LevelsOf, pairs
<1>6. ASSUME NEW k \in 1..size PROVE level[k] = UNION {B[p] : p \in level[k - 1]}
  <2>1. k - 1 \in 0..size
    BY <1>1
  <2>2. level[k - 1] \subseteq V
    BY <1>5, <2>1
  <2>3. \A p \in level[k - 1] : B[p] = Below(old, new, p)
    BY <2>2
  <2> HIDE DEF B
  <2>4. UNION {Below(old, new, p) : p \in level[k - 1]} = UNION {B[p] : p \in level[k - 1]}
    BY <2>3
  <2> QED
    BY <1>5, <2>4
<1>7. Levels(level, B, size, V, r)
  <2> HIDE DEF B
  <2> QED
    BY <1>1, <1>5, <1>6 DEF Levels
<1>8. Covering(B, size, V, r, 1, old) /\ Covering(B, size, V, r, 2, new)
  <2> HIDE DEF B
  <2> QED
    BY <1>1, <1>2, <1>3 DEF Covering, Aligned
<1> HIDE DEF B
<1>9. OnceIn(pairs, 1, old) /\ OnceIn(pairs, 2, new)
  <2>1. pairs = UNION {level[k] : k \in 0..size}
    BY <1>5
  <2> QED
    BY <1>7, <1>8, <2>1, OneOfEach
<1>10. ASSUME NEW p \in pairs, p[1] # 0, p[2] # 0, p # r
       PROVE  <<old.parent[p[1]], new.parent[p[2]]>> \in pairs
  <2>1. PICK k \in 0..size : p \in level[k]
    BY <1>5, <1>10
  <2>2. k \in 1..size
    BY <1>5, <1>10, <2>1
  <2>3. PICK u \in level[k - 1] : p \in B[u]
    BY <1>6, <2>1, <2>2
  <2>4. k - 1 \in 0..size
    BY <1>1, <2>2
  <2>5. u \in V /\ u \in pairs
    BY <1>5, <2>4
  <2>6. Covers(B[u], 1, Under(old, u[1])) /\ Covers(B[u], 2, Under(new, u[2]))
    BY <1>2, <2>5 DEF Aligned
  <2>7. p[1] \in Under(old, u[1]) /\ p[2] \in Under(new, u[2])
    BY <1>10, <2>3, <2>6 DEF Covers
  <2>8. old.parent[p[1]] = u[1] /\ new.parent[p[2]] = u[2]
    BY <2>7 DEF Under, Kids
  <2>9. u = <<u[1], u[2]>>
    BY <2>5 DEF V, Couples
  <2> QED
    BY <2>5, <2>8, <2>9
<1>11. pairs \subseteq V /\ r \in pairs
  <2>1. 0 \in 0..size
    BY <1>1
  <2> QED
    BY <1>5, <2>1
<1> QED
  BY <1>9, <1>10, <1>11 DEF r, V, pairs

(* A diff accounts for every node of both plans exactly once, whatever the *)
(* plans are, and compares nodes only below nodes it compares.             *)
THEOREM DiffsAlignOnce == Spec => []AlignedOnce
<1>1. RowsAndFiles => AlignedOnce
  <2> SUFFICES ASSUME RowsAndFiles PROVE AlignedOnce
    OBVIOUS
  <2>1. ASSUME NEW g \in Compared PROVE Tree(Old(g)) /\ Tree(New(g))
    <3>1. RowsInv(job[g]) /\ job[g].base # Absent
      BY DEF Compared, RowsAndFiles
    <3> QED
      BY <3>1 DEF RowsInv, Grown, Old, New
  <2>2. ASSUME NEW old, Tree(old), NEW new, Tree(new)
        PROVE  LET pairs == Alignment(old, new)
                   Once(t, side) ==
                       \A i \in DOMAIN t.node :
                           Cardinality({p \in pairs : p[side] = i}) = 1
               IN  /\ Once(old, 1) /\ Once(new, 2)
                   /\ \A p \in pairs :
                         p[1] # 0 /\ p[2] # 0 /\ p # <<old.root, new.root>> =>
                             <<old.parent[p[1]], new.parent[p[2]]>> \in pairs
    <3>1. ASSUME NEW t, NEW side, OnceIn(Alignment(old, new), side, t), NEW i \in DOMAIN t.node
          PROVE  Cardinality({p \in Alignment(old, new) : p[side] = i}) = 1
      BY <3>1, FS_Singleton DEF OnceIn
    <3>2. /\ OnceIn(Alignment(old, new), 1, old) /\ OnceIn(Alignment(old, new), 2, new)
          /\ \A p \in Alignment(old, new) :
                p[1] # 0 /\ p[2] # 0 /\ p # <<old.root, new.root>> =>
                    <<old.parent[p[1]], new.parent[p[2]]>> \in Alignment(old, new)
      BY <2>2, AlignmentOnce
    <3>3. /\ \A i \in DOMAIN old.node : Cardinality({p \in Alignment(old, new) : p[1] = i}) = 1
          /\ \A i \in DOMAIN new.node : Cardinality({p \in Alignment(old, new) : p[2] = i}) = 1
      BY <3>1, <3>2
    <3> QED
      BY <3>2, <3>3
  <2> QED
    BY <2>1, <2>2 DEF AlignedOnce
<1> QED
  BY <1>1, RowsHold, PTL
-----------------------------------------------------------------------------
(* This old child fits this new child, and no other does.                  *)
OnlyFit(fits, k, o) == {f[1] : f \in {f \in fits : f[2] = k}} = {o}

(* A new child takes it if its siblings did not.                           *)
LEMMA MatchTakes ==
    ASSUME NEW K, NEW m, DOMAIN m = K, NEW fits, NEW k \in K, m[k] = 0, NEW o \in Nat,
           OnlyFit(fits, k, o), \A j \in K : m[j] # o
    PROVE  Match(m, fits, k) = [m EXCEPT ![k] = o]
<1> DEFINE spare == {f[1] : f \in {f \in fits : f[2] = k}} \ {m[j] : j \in DOMAIN m}
           least == CHOOSE i \in spare : \A p \in spare : i <= p
<1>1. o \notin {m[j] : j \in DOMAIN m}
  OBVIOUS
<1>2. spare = {o}
  BY <1>1 DEF OnlyFit
<1>3. Match(m, fits, k) = [m EXCEPT ![k] = least]
  <2>1. spare # {}
    BY <1>2
  <2> HIDE DEF spare
  <2>2. Match(m, fits, k) = IF k \in DOMAIN m /\ m[k] = 0 /\ spare # {}
                            THEN [m EXCEPT ![k] = least] ELSE m
    BY DEF Match, spare
  <2> QED
    BY <2>1, <2>2
<1>4. least = o
  <2>1. least \in spare
    <3>1. o \in spare /\ \A p \in spare : o <= p
      BY <1>2
    <3> QED
      BY <3>1
  <2> HIDE DEF least, spare
  <2> QED
    BY <1>2, <2>1
<1> HIDE DEF least
<1> QED
  BY <1>3, <1>4

Apart(m, K) == \A j, k \in K : m[j] = m[k] => j = k

(* If one old child fits each new child and no two the same, a pass finds  *)
(* them.                                                                   *)
Fitting(fits, back, K) == \A k \in K : OnlyFit(fits, k, back[k])

LEMMA PassFinds ==
    ASSUME NEW n \in Nat, NEW K, K \subseteq 1..n, NEW O, O \subseteq Nat \ {0},
           NEW fits, fits \subseteq O \X K, NEW back \in [K -> O],
           Apart(back, K), Fitting(fits, back, K)
    PROVE  Pass(NoPartner(K), fits) = back
<1> DEFINE m == NoPartner(K)
<1>1. m \in Matchings(K, O) /\ DOMAIN m = K /\ \A k \in K : m[k] = 0
  BY DEF NoPartner, Matchings
<1> HIDE DEF m
<1>2. PICK after, last : Passing(after, last, m, fits)
  BY <1>1, PassIs
<1>3. /\ last \in Nat /\ last = GreatestOf(K) /\ after[0] = m /\ Pass(m, fits) = after[last]
      /\ \A i \in 1..last : after[i] = Match(after[i - 1], fits, i)
  BY <1>1, <1>2 DEF Passing
<1>4. \A k \in K : k <= last /\ k \in Nat /\ k # 0
  <2>1. K \subseteq Nat /\ \A k \in K : k <= n
    OBVIOUS
  <2>2. K # {} => \A k \in K : k <= GreatestOf(K)
    BY <2>1, GreatestIs
  <2> QED
    BY <1>3, <2>1, <2>2
<1>5. \A k \in K : back[k] \in O /\ back[k] # 0
  OBVIOUS
<1> DEFINE Upto(i) == [k \in K |-> IF k <= i THEN back[k] ELSE 0]
           H == {i \in 0..last : after[i] = Upto(i)}
<1>6. 0 \in H
  <2>1. \A k \in K : ~(k <= 0)
    BY <1>4
  <2>2. m = [k \in K |-> 0]
    BY DEF m, NoPartner
  <2>3. Upto(0) = [k \in K |-> 0]
    BY <2>1
  <2> HIDE DEF Upto
  <2>4. after[0] = Upto(0)
    BY <1>3, <2>2, <2>3
  <2>5. 0 \in 0..last
    BY <1>3
  <2> QED
    BY <2>4, <2>5
<1>7. ASSUME NEW i \in 1..last, i - 1 \in H PROVE i \in H
  <2> DEFINE before == Upto(i - 1)
             next == Upto(i)
  <2>1. after[i] = Match(before, fits, i) /\ i \in 0..last
    BY <1>3, <1>7
  <2>2. DOMAIN before = K /\ \A k \in K : before[k] = IF k <= i - 1 THEN back[k] ELSE 0
    OBVIOUS
  <2>3. next = [k \in K |-> IF k <= i THEN back[k] ELSE 0]
    OBVIOUS
  <2>4. before = [k \in K |-> before[k]]
    OBVIOUS
  <2>5. \A k \in K : k # i => (k <= i <=> k <= i - 1)
    BY <1>3, <1>4
  <2> HIDE DEF before, next
  <2>6. CASE i \in K
    <3>1. before[i] = 0
      BY <1>3, <2>2, <2>6
    <3>2. \A j \in K : before[j] # back[i]
      <4> TAKE j \in K
      <4>1. CASE j <= i - 1
        <5>1. j # i
          BY <1>3, <4>1
        <5> QED
          BY <2>2, <2>6, <4>1, <5>1 DEF Apart
      <4>2. CASE ~(j <= i - 1)
        BY <1>5, <2>2, <2>6, <4>2
      <4> QED
        BY <4>1, <4>2
    <3>3. Match(before, fits, i) = [before EXCEPT ![i] = back[i]]
      <4>1. OnlyFit(fits, i, back[i])
        BY <2>6 DEF Fitting
      <4>2. back[i] \in Nat
        BY <1>5, <2>6
      <4> QED
        BY ONLY <2>2, <2>6, <3>1, <3>2, <4>1, <4>2, MatchTakes
    <3>4. [before EXCEPT ![i] = back[i]] = next
      <4>1. \A k \in K : (IF k = i THEN back[i] ELSE before[k]) = IF k <= i THEN back[k] ELSE 0
        BY <1>3, <2>2, <2>5, <2>6
      <4>2. [before EXCEPT ![i] = back[i]] = [k \in K |-> IF k = i THEN back[i] ELSE before[k]]
        BY <2>2, <2>4
      <4> QED
        BY <2>3, <4>1, <4>2
    <3>5. after[i] = next
      BY <2>1, <3>3, <3>4
    <3> QED
      BY <2>1, <3>5 DEF next
  <2>7. CASE i \notin K
    <3>1. Match(before, fits, i) = before
      BY <2>2, <2>7 DEF Match
    <3>2. \A k \in K : before[k] = IF k <= i THEN back[k] ELSE 0
      BY <2>2, <2>5, <2>7
    <3>3. before = next
      BY <2>3, <2>4, <3>2
    <3>4. after[i] = next
      BY <2>1, <3>1, <3>3
    <3> QED
      BY <2>1, <3>4 DEF next
  <2> QED
    BY <2>6, <2>7
<1>8. \A i \in 0..last : i \in H
  <2> HIDE DEF H
  <2>1. \A i \in 1..last : i - 1 \in H => i \in H
    BY <1>7
  <2> QED
    BY <1>3, <1>6, <2>1, InductionUpTo, Zenon
<1>9. after[last] = Upto(last)
  BY <1>3, <1>8
<1>10. Upto(last) = back
  <2>1. \A k \in K : (IF k <= last THEN back[k] ELSE 0) = back[k]
    BY <1>4
  <2>2. back = [k \in K |-> back[k]]
    OBVIOUS
  <2> QED
    BY <2>1, <2>2
<1> QED
  BY <1>3, <1>9, <1>10 DEF m

(* When no new child is left without a partner, a pass does nothing.       *)
LEMMA PassRests ==
    ASSUME NEW n \in Nat, NEW K, K \subseteq 1..n, NEW O, O \subseteq Nat \ {0},
           NEW fits, fits \subseteq O \X K, NEW m \in [K -> O], Apart(m, K)
    PROVE  Pass(m, fits) = m
<1>1. m \in Matchings(K, O) /\ DOMAIN m = K /\ \A k \in K : m[k] # 0
  BY DEF Matchings, Apart
<1>2. PICK after, last : Passing(after, last, m, fits)
  BY <1>1, PassIs
<1>3. /\ last \in Nat /\ after[0] = m /\ Pass(m, fits) = after[last]
      /\ \A i \in 1..last : after[i] = Match(after[i - 1], fits, i)
  BY <1>2 DEF Passing
<1> DEFINE H == {i \in 0..last : after[i] = m}
<1>4. 0 \in H
  BY <1>3
<1>5. \A k : Match(m, fits, k) = m
  BY <1>1 DEF Match
<1>6. ASSUME NEW i \in 1..last, i - 1 \in H PROVE i \in H
  <2>1. after[i - 1] = m /\ i \in 0..last
    BY <1>6
  <2>2. after[i] = m
    BY <1>3, <1>5, <2>1
  <2> QED
    BY <2>1, <2>2
<1>7. \A i \in 0..last : i \in H
  <2> HIDE DEF H
  <2>1. \A i \in 1..last : i - 1 \in H => i \in H
    BY <1>6
  <2> QED
    BY <1>3, <1>4, <2>1, InductionUpTo, Zenon
<1> QED
  BY <1>3, <1>7

(* The nodes of a tree that is reordered as to says.                       *)
Carries(to, s, t) ==
    /\ to \in [DOMAIN s.node -> DOMAIN t.node]
    /\ \A i, j \in DOMAIN s.node : to[i] = to[j] => i = j
    /\ \A k \in DOMAIN t.node : \E i \in DOMAIN s.node : to[i] = k
    /\ \A i \in DOMAIN s.node : t.node[to[i]] = s.node[i]
    /\ \A i, j \in DOMAIN s.node : s.parent[j] = i <=> t.parent[to[j]] = to[i]

LEMMA ReorderedIs ==
    ASSUME NEW s, NEW t
    PROVE  Reordered(s, t) <=> \E to : Carries(to, s, t)
<1>1. ASSUME NEW to
      PROVE  to \in Bijection(DOMAIN s.node, DOMAIN t.node) <=>
                 /\ to \in [DOMAIN s.node -> DOMAIN t.node]
                 /\ \A i, j \in DOMAIN s.node : to[i] = to[j] => i = j
                 /\ \A k \in DOMAIN t.node : \E i \in DOMAIN s.node : to[i] = k
  BY DEF Bijection, Injection, Surjection, IsInjective
<1>2. ASSUME Reordered(s, t) PROVE \E to : Carries(to, s, t)
  <2>1. PICK to \in Bijection(DOMAIN s.node, DOMAIN t.node) :
          /\ \A i \in DOMAIN to : t.node[to[i]] = s.node[i]
          /\ \A i, j \in DOMAIN to : s.parent[j] = i <=> t.parent[to[j]] = to[i]
    BY <1>2 DEF Reordered
  <2>2. DOMAIN to = DOMAIN s.node
    BY <1>1
  <2>3. Carries(to, s, t)
    BY <1>1, <2>1, <2>2 DEF Carries
  <2> QED
    BY <2>3
<1>3. ASSUME NEW to, Carries(to, s, t) PROVE Reordered(s, t)
  <2>1. to \in Bijection(DOMAIN s.node, DOMAIN t.node) /\ DOMAIN to = DOMAIN s.node
    BY <1>1, <1>3 DEF Carries
  <2> QED
    BY <1>3, <2>1 DEF Reordered, Carries
<1> QED
  BY <1>2, <1>3

(* If siblings can be told apart, the children of a node and of the node   *)
(* it is carried to are paired as they are carried.                        *)
Pairing(to, s) == {<<i, to[i]>> : i \in DOMAIN s.node}

LEMMA ChildrenFound ==
    ASSUME NEW old, Tree(old), NEW new, Tree(new), NEW to, Carries(to, old, new),
           TellsApart(new), NEW i \in DOMAIN old.node
    PROVE  PairChildren(old, new, i, to[i]) \subseteq Pairing(to, old)
<1> DEFINE A == Kids(old, i)
           B == Kids(new, to[i])
           back == [k \in B |-> CHOOSE j \in A : to[j] = k]
           first == SameSignature(old, new, i, to[i])
           second == SameOp(old, new, i, to[i])
<1>1. /\ to[i] \in DOMAIN new.node /\ Len(new.node) \in Nat
      /\ A \subseteq DOMAIN old.node /\ A \subseteq Nat \ {0}
      /\ B \subseteq DOMAIN new.node /\ B \subseteq 1..Len(new.node)
      /\ first \subseteq A \X B /\ second \subseteq A \X B
  BY DEF Tree, Kids, Carries, SameSignature, SameOp
<1>2. \A j \in A : to[j] \in B
  BY DEF Kids, Carries
<1>3. \A k \in B : \E j \in A : to[j] = k
  <2> TAKE k \in B
  <2>1. k \in DOMAIN new.node /\ new.parent[k] = to[i]
    BY DEF Kids
  <2>2. PICK j \in DOMAIN old.node : to[j] = k
    BY <2>1 DEF Carries
  <2>3. old.parent[j] = i
    BY <2>1, <2>2 DEF Carries
  <2> QED
    BY <2>2, <2>3 DEF Kids
<1>4. \A k \in B : back[k] \in A /\ to[back[k]] = k
  BY <1>3
<1> HIDE DEF A, B
<1>5. back \in [B -> A] /\ \A j, k \in B : back[j] = back[k] => j = k
  <2>1. back = [k \in B |-> back[k]]
    OBVIOUS
  <2> HIDE DEF back
  <2> QED
    BY <1>4, <2>1
<1>6. \A j \in A : back[to[j]] = j
  <2> HIDE DEF back
  <2> QED
    BY <1>1, <1>2, <1>4 DEF Carries
<1> HIDE DEF back
<1>7. ASSUME NEW j \in A, NEW k \in B
      PROVE  Signature(old.node[j]) = Signature(new.node[k]) <=> j = back[k]
  <2>1. /\ Signature(old.node[j]) = Signature(new.node[to[j]])
        /\ to[j] \in DOMAIN new.node /\ k \in DOMAIN new.node
    BY <1>1 DEF Carries
  <2>2. new.parent[to[j]] = to[i] /\ new.parent[k] = to[i]
    BY <1>2 DEF B, Kids
  <2>3. Signature(new.node[to[j]]) = Signature(new.node[k]) <=> to[j] = k
    BY <2>1, <2>2 DEF TellsApart
  <2>4. to[j] = k <=> j = back[k]
    BY <1>4, <1>6
  <2> QED
    BY <2>1, <2>3, <2>4
<1>8. Fitting(first, back, B)
  <2> SUFFICES ASSUME NEW k \in B PROVE {f[1] : f \in {f \in first : f[2] = k}} = {back[k]}
    BY DEF Fitting, OnlyFit
  <2>1. first = {f \in A \X B : Signature(old.node[f[1]]) = Signature(new.node[f[2]])}
    BY DEF SameSignature, A, B
  <2>2. ASSUME NEW f \in first, f[2] = k PROVE f[1] = back[k]
    BY <1>7, <2>1, <2>2
  <2>3. <<back[k], k>> \in first
    BY <1>4, <1>7, <2>1
  <2> HIDE DEF first
  <2> QED
    BY <2>2, <2>3
<1> HIDE DEF first, second
<1>9. Pass(NoPartner(B), first) = back
  <2>1. Apart(back, B)
    BY <1>5 DEF Apart
  <2> QED
    BY <1>1, <1>5, <1>8, <2>1, PassFinds
<1>10. ASSUME NEW fits, fits \subseteq A \X B PROVE Pass(back, fits) = back
  <2> DEFINE n == Len(new.node)
  <2>1. n \in Nat /\ B \subseteq 1..n /\ A \subseteq Nat \ {0}
    BY <1>1
  <2> HIDE DEF n
  <2>2. Apart(back, B)
    BY <1>5 DEF Apart
  <2>3. back \in [B -> A]
    BY <1>5
  <2> QED
    BY <1>10, <2>1, <2>2, <2>3, PassRests
<1>11. Pass(back, second) = back /\ Pass(back, A \X B) = back
  BY <1>1, <1>10
<1>12. PairChildren(old, new, i, to[i]) =
          {<<back[k], k>> : k \in B} \union ((A \ {back[k] : k \in B}) \X {0})
  <2>1. DOMAIN back = B
    BY <1>5
  <2>2. PairChildren(old, new, i, to[i]) =
          {<<back[k], k>> : k \in DOMAIN back} \union ((A \ {back[k] : k \in DOMAIN back}) \X {0})
    BY <1>9, <1>11 DEF PairChildren, A, B, first, second
  <2> QED
    BY <2>1, <2>2
<1>13. A \ {back[k] : k \in B} = {}
  <2>1. \A j \in A : \E k \in B : j = back[k]
    BY <1>2, <1>6
  <2> QED
    BY <2>1
<1>14. \A k \in B : <<back[k], k>> \in Pairing(to, old)
  <2> TAKE k \in B
  <2>1. back[k] \in DOMAIN old.node /\ to[back[k]] = k
    BY <1>1, <1>4
  <2> QED
    BY <2>1 DEF Pairing
<1> QED
  BY <1>12, <1>13, <1>14

(* Reordered trees with siblings that can be told apart do not differ.     *)
LEMMA ReorderedIsQuiet ==
    ASSUME NEW old, Tree(old), NEW new, Tree(new), Reordered(old, new), TellsApart(new)
    PROVE  Diff(old, new) = {}
<1>1. PICK to : Carries(to, old, new)
  BY ReorderedIs
<1> DEFINE V == Pairing(to, old)
<1>2. /\ Len(old.node) + Len(new.node) \in Nat
      /\ old.root \in DOMAIN old.node /\ 0 \notin DOMAIN old.node /\ 0 \notin DOMAIN new.node
      /\ old.parent[old.root] = 0
      /\ \A k \in DOMAIN new.node : k = new.root \/ new.parent[k] \in DOMAIN new.node
  <2>1. Len(old.node) \in Nat /\ Len(new.node) \in Nat
    BY DEF Tree
  <2>2. \A a, b \in Nat : a + b \in Nat
    OBVIOUS
  <2>3. 0 \notin DOMAIN old.node /\ 0 \notin DOMAIN new.node
    BY <2>1 DEF Tree
  <2>4. old.root \in DOMAIN old.node /\ old.parent[old.root] = 0
    BY DEF Tree
  <2>5. \A k \in DOMAIN new.node : k = new.root \/ new.parent[k] \in DOMAIN new.node
    BY DEF Tree
  <2> QED
    BY <2>1, <2>2, <2>3, <2>4, <2>5
<1>3. <<old.root, new.root>> \in V
  <2>1. to[old.root] \in DOMAIN new.node
    BY <1>1, <1>2 DEF Carries
  <2>2. new.parent[to[old.root]] \notin DOMAIN new.node
    <3>1. \A i \in DOMAIN old.node : new.parent[to[old.root]] # to[i]
      BY <1>1, <1>2 DEF Carries
    <3> QED
      BY <1>1, <3>1 DEF Carries
  <2>3. to[old.root] = new.root
    BY <1>2, <2>1, <2>2
  <2> QED
    BY <1>2, <2>3 DEF Pairing
<1>4. ASSUME NEW p \in V
      PROVE  Below(old, new, p) \subseteq V /\ Tags(old, new, p) = {}
  <2>1. PICK i \in DOMAIN old.node : p = <<i, to[i]>>
    BY DEF Pairing
  <2>2. p[1] = i /\ p[2] = to[i] /\ p[1] # 0 /\ p[2] # 0 /\ old.node[p[1]] = new.node[p[2]]
    BY <1>1, <1>2, <2>1 DEF Carries
  <2>3. Below(old, new, p) = PairChildren(old, new, i, to[i])
    BY <2>2 DEF Below
  <2>4. Tags(old, new, p) = {}
    BY <2>2 DEF Tags, Compare
  <2> QED
    BY <1>1, <2>3, <2>4, ChildrenFound
<1>5. Alignment(old, new) \subseteq V
  <2> DEFINE size == Len(old.node) + Len(new.node)
  <2> HIDE DEF V
  <2>1. PICK level : LevelsOf(level, size, V, old, new)
    BY <1>2, <1>3, <1>4, AlignmentLevels
  <2>2. Alignment(old, new) = UNION {level[k] : k \in 0..size} /\ \A k \in 0..size : level[k] \subseteq V
    BY <2>1 DEF LevelsOf
  <2> QED
    BY <2>2
<1> HIDE DEF V
<1>6. {q \in Alignment(old, new) : Tags(old, new, q) # {}} = {}
  BY <1>4, <1>5
<1> QED
  BY <1>6 DEF Diff

LEMMA WithoutObject ==
    ASSUME NEW x, IsNode(x)
    PROVE  [x EXCEPT !.object = ""] = Node(x.op, "", x.index, x.cost)
<1> DEFINE Made(op, object, index, cost) ==
               [op |-> op, object |-> object, index |-> index, cost |-> cost]
<1>1. ASSUME NEW op, NEW object, NEW index, NEW cost, NEW none
      PROVE  [Made(op, object, index, cost) EXCEPT !.object = none] = Made(op, none, index, cost)
  OBVIOUS
<1>2. x = Made(x.op, x.object, x.index, x.cost)
  BY DEF IsNode, Node
<1>3. Made(x.op, "", x.index, x.cost) = Node(x.op, "", x.index, x.cost)
  BY DEF Node
<1> HIDE DEF Made
<1> DEFINE op == x.op
           object == x.object
           index == x.index
           cost == x.cost
           none == ""
<1>4. x = Made(op, object, index, cost)
  BY <1>2
<1>5. [Made(op, object, index, cost) EXCEPT !.object = none] = Made(op, none, index, cost)
  <2> HIDE DEF op, object, index, cost, none
  <2> QED
    BY <1>1
<1>6. [x EXCEPT !.object = none] = Made(op, none, index, cost)
  <2> HIDE DEF op, object, index, cost, none
  <2> QED
    BY <1>4, <1>5
<1> QED
  BY <1>3, <1>6

(* Trees that do not differ are reordered, but for the objects.            *)
LEMMA QuietIsReordered ==
    ASSUME NEW old, Tree(old), NEW new, Tree(new), Diff(old, new) = {}
    PROVE  Reordered(WithoutObjects(old), WithoutObjects(new))
<1> DEFINE pairs == Alignment(old, new)
           A == DOMAIN old.node
           B == DOMAIN new.node
           to == [i \in A |-> (CHOOSE p \in pairs : p[1] = i)[2]]
<1>1. /\ pairs \subseteq Couples(A, B)
      /\ <<old.root, new.root>> \in pairs
      /\ OnceIn(pairs, 1, old) /\ OnceIn(pairs, 2, new)
      /\ \A p \in pairs :
            p[1] # 0 /\ p[2] # 0 /\ p # <<old.root, new.root>> =>
                <<old.parent[p[1]], new.parent[p[2]]>> \in pairs
  BY AlignmentOnce DEF Nodes
<1>2. \A p \in pairs : Tags(old, new, p) = {}
  <2> HIDE DEF pairs
  <2>1. \A p \in pairs : Tags(old, new, p) # {} =>
            [pair |-> p, tags |-> Tags(old, new, p)] \in Diff(old, new)
    BY DEF Diff, pairs
  <2> QED
    BY <2>1
<1> HIDE DEF pairs
<1>3. ASSUME NEW p \in pairs
      PROVE  /\ p[1] \in A /\ p[2] \in B /\ p[1] # 0 /\ p[2] # 0 /\ p = <<p[1], p[2]>>
             /\ Compare(old.node[p[1]], new.node[p[2]]) = {}
  <2>1. p[1] # 0 /\ p[2] # 0
    BY <1>2 DEF Tags
  <2> QED
    BY <1>1, <1>2, <2>1 DEF Tags, Couples
<1>4. /\ \A i \in A : \E p \in pairs : p[1] = i
      /\ \A k \in B : \E p \in pairs : p[2] = k
      /\ \A p, q \in pairs : p[1] = q[1] => p = q
      /\ \A p, q \in pairs : p[2] = q[2] => p = q
  <2>1. \A i \in A : \E x \in pairs : {p \in pairs : p[1] = i} = {x}
    BY <1>1 DEF OnceIn
  <2>2. \A i \in B : \E x \in pairs : {p \in pairs : p[2] = i} = {x}
    BY <1>1 DEF OnceIn
  <2>3. ASSUME NEW p \in pairs, NEW q \in pairs, p[1] = q[1] PROVE p = q
    <3>1. PICK x \in pairs : {y \in pairs : y[1] = p[1]} = {x}
      BY <1>3, <2>1
    <3> QED
      BY <2>3, <3>1
  <2>4. ASSUME NEW p \in pairs, NEW q \in pairs, p[2] = q[2] PROVE p = q
    <3>1. PICK x \in pairs : {y \in pairs : y[2] = p[2]} = {x}
      BY <1>3, <2>2
    <3> QED
      BY <2>4, <3>1
  <2>5. \A i \in A : \E p \in pairs : p[1] = i
    BY <2>1
  <2>6. \A k \in B : \E p \in pairs : p[2] = k
    BY <2>2
  <2> QED
    BY <2>3, <2>4, <2>5, <2>6
<1>5. \A p \in pairs : to[p[1]] = p[2]
  <2> TAKE p \in pairs
  <2>1. (CHOOSE q \in pairs : q[1] = p[1]) = p
    BY <1>4
  <2> QED
    BY <1>3, <2>1
<1>6. \A i \in A : to[i] \in B /\ <<i, to[i]>> \in pairs
  <2> TAKE i \in A
  <2>1. PICK p \in pairs : p[1] = i
    BY <1>4
  <2>2. to[i] = p[2] /\ p = <<i, p[2]>>
    BY <1>3, <1>5, <2>1
  <2> QED
    BY <1>3, <2>2
<1>7. to \in [A -> B]
  <2>1. to = [i \in A |-> to[i]]
    OBVIOUS
  <2> HIDE DEF to
  <2> QED
    BY <1>6, <2>1
<1> HIDE DEF to, A, B
<1>8. \A i, j \in A : to[i] = to[j] => i = j
  <2> SUFFICES ASSUME NEW i \in A, NEW j \in A, to[i] = to[j] PROVE i = j
    OBVIOUS
  <2>1. <<i, to[i]>> \in pairs /\ <<j, to[j]>> \in pairs
    BY <1>6
  <2>2. <<i, to[i]>> = <<j, to[j]>>
    BY <1>4, <2>1
  <2> QED
    BY <2>2
<1>9. \A k \in B : \E i \in A : to[i] = k
  <2> TAKE k \in B
  <2>1. PICK p \in pairs : p[2] = k
    BY <1>4
  <2> QED
    BY <1>3, <1>5, <2>1
<1>10. ASSUME NEW i \in A
       PROVE  [new.node[to[i]] EXCEPT !.object = ""] = [old.node[i] EXCEPT !.object = ""]
  <2> DEFINE x == old.node[i]
             y == new.node[to[i]]
  <2>1. IsNode(x) /\ IsNode(y)
    BY <1>6 DEF Tree, Noded, A, B
  <2>2. Compare(x, y) = {}
    <3>1. <<i, to[i]>> \in pairs /\ <<i, to[i]>>[1] = i /\ <<i, to[i]>>[2] = to[i]
      BY <1>6
    <3> QED
      BY <1>3, <3>1
  <2> HIDE DEF x, y
  <2>3. x.op = y.op /\ x.index = y.index /\ x.cost = y.cost
    BY <2>2 DEF Compare
  <2>4. [x EXCEPT !.object = ""] = Node(x.op, "", x.index, x.cost)
    BY <2>1, WithoutObject
  <2>5. [y EXCEPT !.object = ""] = Node(y.op, "", y.index, y.cost)
    BY <2>1, WithoutObject
  <2> QED
    BY <2>3, <2>4, <2>5 DEF x, y
<1>11. ASSUME NEW j \in A
       PROVE  \/ j = old.root /\ to[j] = new.root
              \/ j # old.root /\ old.parent[j] \in A /\ new.parent[to[j]] = to[old.parent[j]]
  <2> DEFINE p == <<j, to[j]>>
             r == <<old.root, new.root>>
  <2>1. p \in pairs /\ r \in pairs /\ p[1] = j /\ p[2] = to[j] /\ r[1] = old.root /\ r[2] = new.root
    BY <1>1, <1>6
  <2> HIDE DEF p, r
  <2>2. CASE p = r
    BY <2>1, <2>2
  <2>3. CASE p # r
    <3> DEFINE up == <<old.parent[j], new.parent[to[j]]>>
    <3>1. up \in pairs /\ up[1] = old.parent[j] /\ up[2] = new.parent[to[j]]
      BY <1>1, <1>3, <2>1, <2>3 DEF r
    <3> HIDE DEF up
    <3>2. j # old.root
      BY <1>4, <2>1, <2>3
    <3> QED
      BY <1>3, <1>5, <3>1, <3>2
  <2> QED
    BY <2>2, <2>3
<1>12. ASSUME NEW i \in A, NEW j \in A PROVE old.parent[j] = i <=> new.parent[to[j]] = to[i]
  <2>1. CASE j = old.root /\ to[j] = new.root
    <3>1. old.parent[j] = 0 /\ new.parent[to[j]] = 0 /\ i # 0 /\ to[i] # 0
      <4>1. old.parent[old.root] = 0 /\ new.parent[new.root] = 0
        BY DEF Tree
      <4>2. 0 \notin A /\ 0 \notin B
        BY DEF Tree, A, B
      <4> QED
        BY <1>6, <2>1, <4>1, <4>2
    <3> QED
      BY <3>1
  <2>2. CASE old.parent[j] \in A /\ new.parent[to[j]] = to[old.parent[j]]
    BY <1>8, <2>2
  <2> QED
    BY <1>11, <2>1, <2>2
<1> DEFINE s == WithoutObjects(old)
           t == WithoutObjects(new)
<1>13. /\ DOMAIN s.node = A /\ DOMAIN t.node = B
       /\ \A i \in A : s.node[i] = [old.node[i] EXCEPT !.object = ""]
       /\ \A i \in B : t.node[i] = [new.node[i] EXCEPT !.object = ""]
       /\ s.parent = old.parent /\ t.parent = new.parent
  BY DEF WithoutObjects, A, B
<1> HIDE DEF s, t
<1>14. Carries(to, s, t)
  <2>1. ASSUME NEW i \in A PROVE t.node[to[i]] = s.node[i]
    <3>1. to[i] \in B
      BY <1>6
    <3>2. /\ s.node[i] = [old.node[i] EXCEPT !.object = ""]
          /\ t.node[to[i]] = [new.node[to[i]] EXCEPT !.object = ""]
      BY <1>13, <3>1
    <3> QED
      BY <1>10, <3>2, Zenon
  <2>2. ASSUME NEW i \in A, NEW j \in A
        PROVE  s.parent[j] = i <=> t.parent[to[j]] = to[i]
    <3>1. s.parent = old.parent /\ t.parent = new.parent
      BY <1>13
    <3> QED
      BY <1>12, <3>1
  <2>3. DOMAIN s.node = A /\ DOMAIN t.node = B
    BY <1>13
  <2> QED
    BY <1>7, <1>8, <1>9, <2>1, <2>2, <2>3, Zenon DEF Carries
<1> QED
  BY <1>14, ReorderedIs DEF s, t

(* Whatever two plans are compared: if one is the other with its children  *)
(* in another order, and the siblings can be told apart, the diff reports  *)
(* nothing; and if it reports nothing, they are the same but for order and *)
(* objects.                                                                *)
THEOREM ReorderingsAreQuiet == Spec => []ReorderingIsQuiet
<1>1. RowsAndFiles => ReorderingIsQuiet
  <2> SUFFICES ASSUME RowsAndFiles, NEW g \in Compared
               PROVE  /\ TellsApart(New(g)) /\ Reordered(Old(g), New(g)) => Diff(Old(g), New(g)) = {}
                      /\ Diff(Old(g), New(g)) = {} =>
                            Reordered(WithoutObjects(Old(g)), WithoutObjects(New(g)))
    BY Zenon DEF ReorderingIsQuiet
  <2>1. Tree(Old(g)) /\ Tree(New(g))
    <3>1. RowsInv(job[g]) /\ job[g].base # Absent
      BY DEF Compared, RowsAndFiles
    <3> QED
      BY <3>1 DEF RowsInv, Grown, Old, New
  <2> QED
    BY <2>1, ReorderedIsQuiet, QuietIsReordered
<1> QED
  BY <1>1, RowsHold, PTL
=============================================================================
