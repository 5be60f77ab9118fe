----------------------------- MODULE StoreProofs -----------------------------
(***************************************************************************)
(* Proofs about what dblab keeps outside its process and starts again      *)
(* from: the saved profiles and the keyring under every way into a session *)
(* (Startup), and the query history file (HistoryFile), for any number of  *)
(* profiles, jobs, saves and launches and whatever the flags are.          *)
(***************************************************************************)
EXTENDS Startup, HistoryFile, FiniteSetTheorems, TLAPS

(* Maps of profiles, and files that hold one.                              *)
IsMap(f) ==
    /\ DOMAIN f \subseteq Names /\ IsFiniteSet(DOMAIN f)
    /\ \A n \in DOMAIN f : WellFormed(f[n])

IsFile(f) ==
    /\ f.kind \in {"absent", "empty", "garbled", "map"}
    /\ IsMap(f.profiles)
    /\ f.kind # "map" => f.profiles = NoProfiles

LEMMA NothingGiven == WellFormed(NoOptions)
BY DEF WellFormed, NoOptions, NoURL

(* The file has all but the passwords.                                     *)
LEMMA MarshalledOptions ==
    ASSUME NEW o, WellFormed(o)
    PROVE  /\ WellFormed(Marshalled(o))
           /\ Marshalled(o).user = o.user /\ Marshalled(o).sshUser = o.sshUser
BY DEF Marshalled, WellFormed, NoOptions

LEMMA EmptyMap == IsMap(NoProfiles) /\ DOMAIN NoProfiles = {}
BY FS_EmptySet DEF NoProfiles, IsMap

LEMMA MapAdd ==
    ASSUME NEW f, IsMap(f), NEW n \in Names, NEW o, WellFormed(o)
    PROVE  IsMap([m \in DOMAIN f \union {n} |-> IF m = n THEN o ELSE f[m]])
<1>1. IsFiniteSet(DOMAIN f \union {n})
  BY FS_AddElement DEF IsMap
<1> QED
  BY <1>1 DEF IsMap

LEMMA MapRemove ==
    ASSUME NEW f, IsMap(f), NEW n
    PROVE  IsMap([m \in DOMAIN f \ {n} |-> f[m]])
<1>1. IsFiniteSet(DOMAIN f \ {n})
  BY FS_RemoveElement DEF IsMap
<1> QED
  BY <1>1 DEF IsMap

LEMMA Files ==
    /\ \A kind \in {"absent", "empty", "garbled"} : IsFile(File(kind))
    /\ \A f : IsMap(f) => IsFile(Holding(f))
BY EmptyMap DEF IsFile, File, Holding
-----------------------------------------------------------------------------
(* The types of the profiles and of the jobs over them.                    *)
IsJob(r) ==
    /\ DOMAIN r = DOMAIN Idle
    /\ r.at # "idle" => r.name \in Names
    /\ r.index \in Nat /\ WellFormed(r.opts) /\ IsMap(r.copy)

JobsOK ==
    /\ DOMAIN job = Jobs
    /\ \A j \in Jobs : IsJob(job[j])

FilesOK == IsFile(json) /\ IsFile(tmp)

LEMMA IdleJob == IsJob(Idle)
BY NothingGiven, EmptyMap DEF IsJob, Idle

(* A job that goes on is a job.                                            *)
LEMMA GoesOn ==
    ASSUME JobsOK, NEW j \in Jobs, job[j].at # "idle",
           NEW at, job' = [job EXCEPT ![j].at = at]
    PROVE  JobsOK'
BY DEF JobsOK, IsJob, Idle

LEMMA WrittenFile ==
    ASSUME JobsOK, NEW j \in Jobs, NEW old, IsFile(old), NEW new \in Written(j, old)
    PROVE  IsFile(new)
BY Files DEF Written, JobsOK, IsJob

LEMMA JobStepTypes ==
    ASSUME JobsOK, FilesOK, NEW j \in Jobs, JobStep(j)
    PROVE  JobsOK' /\ FilesOK'
<1>1. CASE SaveCreate(j)
  <2>1. JobsOK'
    BY <1>1, GoesOn DEF SaveCreate, At, Goto
  <2> QED
    BY <1>1, <2>1, Files DEF SaveCreate, FilesOK
<1>2. CASE SaveSecret(j) \/ SaveSSH(j) \/ DeleteSecret(j)
  BY <1>2, GoesOn DEF SaveSecret, SaveSSH, DeleteSecret, At, Goto, FilesOK
<1>3. CASE SaveRead(j)
  <2> DEFINE n == job[j].name
             o == Marshalled(job[j].opts)
             more == [m \in DOMAIN json.profiles \union {n} |->
                        IF m = n THEN o ELSE json.profiles[m]]
  <2>1. IsMap(more)
    BY <1>3, MapAdd, MarshalledOptions DEF SaveRead, At, JobsOK, IsJob, FilesOK, IsFile
  <2>2. job[j].at = "read" /\ job' = [job EXCEPT ![j].at = "open", ![j].copy = more]
    BY <1>3 DEF SaveRead, At
  <2>3. JobsOK'
    <3> HIDE DEF more
    <3> QED
      BY <2>1, <2>2 DEF JobsOK, IsJob, Idle
  <2> QED
    BY <1>3, <2>3 DEF SaveRead, FilesOK
<1>4. CASE DeleteRead(j)
  <2>1. CASE Goto(j, "done")
    BY <1>4, <2>1, GoesOn DEF DeleteRead, At, Goto, FilesOK
  <2>2. CASE /\ job[j].name \in DOMAIN json.profiles
             /\ job' = [job EXCEPT ![j].at = "secret", ![j].copy = json.profiles,
                                   ![j].opts = json.profiles[job[j].name]]
    <3>1. IsMap(json.profiles) /\ WellFormed(json.profiles[job[j].name])
      BY <2>2 DEF FilesOK, IsFile, IsMap
    <3>2. JobsOK'
      BY <1>4, <2>2, <3>1 DEF DeleteRead, At, JobsOK, IsJob, Idle
    <3> QED
      BY <1>4, <3>2 DEF DeleteRead, FilesOK
  <2> QED
    BY <1>4, <2>1, <2>2 DEF DeleteRead
<1>5. CASE DeleteSSH(j)
  <2> DEFINE less == [n \in DOMAIN job[j].copy \ {job[j].name} |-> job[j].copy[n]]
  <2>1. IsMap(less)
    BY MapRemove DEF JobsOK, IsJob
  <2>2. job[j].at = "ssh" /\ job' = [job EXCEPT ![j].at = "open", ![j].copy = less]
    BY <1>5 DEF DeleteSSH, At
  <2>3. JobsOK'
    <3> HIDE DEF less
    <3> QED
      BY <2>1, <2>2 DEF JobsOK, IsJob, Idle
  <2> QED
    BY <1>5, <2>3 DEF DeleteSSH, FilesOK
<1>6. CASE OpenTmp(j)
  <2>1. JobsOK'
    BY <1>6 DEF OpenTmp, JobsOK, IsJob, Idle
  <2> QED
    BY <1>6, <2>1, Files DEF OpenTmp, FilesOK
<1>7. CASE WriteTmp(j)
  <2>1. JobsOK'
    BY <1>7, GoesOn DEF WriteTmp, Goto
  <2>2. /\ tmp' = tmp \/ tmp' \in Written(j, tmp)
        /\ json' = json \/ json' \in Written(j, json)
    BY <1>7 DEF WriteTmp
  <2> QED
    BY <2>1, <2>2, WrittenFile DEF FilesOK
<1>8. CASE Rename(j)
  <2>1. JobsOK'
    BY <1>8 DEF Rename, JobsOK, IsJob, Idle
  <2> QED
    BY <1>8, <2>1, Files DEF Rename, FilesOK
<1>9. CASE Fail(j)
  BY <1>9, GoesOn DEF Fail, Active, Goto, FilesOK
<1> QED
  BY <1>1, <1>2, <1>3, <1>4, <1>5, <1>6, <1>7, <1>8, <1>9 DEF JobStep
-----------------------------------------------------------------------------
(* What a job's step leaves of the others, and of itself.                  *)
LEMMA OthersStay ==
    ASSUME JobsOK, NEW j \in Jobs, JobStep(j)
    PROVE  /\ job[j].at # "idle" /\ job'[j].at # "idle"
           /\ job'[j].op = job[j].op /\ job'[j].name = job[j].name
           /\ \A k \in Jobs \ {j} :
                 /\ job'[k].at = job[k].at /\ job'[k].op = job[k].op
                 /\ job'[k].name = job[k].name /\ job'[k].opts = job[k].opts
                 /\ job'[k].copy = job[k].copy
           /\ overlapped' = overlapped
<1> USE DEF JobsOK, IsJob, Idle, At, Goto
<1>1. CASE SaveCreate(j) \/ SaveSecret(j) \/ SaveSSH(j) \/ SaveRead(j)
  BY <1>1 DEF SaveCreate, SaveSecret, SaveSSH, SaveRead
<1>2. CASE DeleteRead(j)
  BY <1>2 DEF DeleteRead
<1>6. CASE DeleteSecret(j)
  BY <1>6 DEF DeleteSecret
<1>7. CASE DeleteSSH(j)
  BY <1>7 DEF DeleteSSH
<1>3. CASE OpenTmp(j) \/ WriteTmp(j)
  BY <1>3 DEF OpenTmp, WriteTmp
<1>4. CASE Rename(j)
  <2>1. /\ job[j].at = "rename" /\ overlapped' = overlapped
        /\ job' = [k \in Jobs |-> [job[k] EXCEPT
                     !.fd = Moved(job[k].fd), !.at = IF k = j THEN "done" ELSE @]]
    BY <1>4 DEF Rename
  <2>2. ASSUME NEW k \in Jobs
        PROVE  /\ job'[k].at = IF k = j THEN "done" ELSE job[k].at
               /\ job'[k].op = job[k].op /\ job'[k].name = job[k].name
               /\ job'[k].opts = job[k].opts /\ job'[k].copy = job[k].copy
    BY <2>1
  <2> QED
    BY <2>1, <2>2
<1>5. CASE Fail(j)
  BY <1>5 DEF Fail, Active
<1> QED
  BY <1>1, <1>2, <1>3, <1>4, <1>5, <1>6, <1>7 DEF JobStep

(* What a step of dblab is for the profiles: nothing, a step of a job, its *)
(* start, its answer, or the end of all.                                   *)
restOfProfiles == <<json, tmp, ring, loose, lost, overlapped, given, saved>>

SaveStarts == \E j \in Jobs :
    /\ SaveProfile(j, saveAs, opts) /\ saveAs \in Names
    /\ \A k \in Jobs : job[k].at = "idle"

DeleteStarts == \E j \in Jobs, n \in Names, i \in Nat : DeleteProfile(j, n, i)

Answers == \E j \in Jobs :
    /\ job[j].at = "done" /\ job' = [job EXCEPT ![j] = Idle]
    /\ UNCHANGED restOfProfiles

Ends == \E j \in Jobs :
    /\ job[j].at \in {"done", "failed"}
    /\ \A k \in Jobs \ {j} : job[k].at = "idle"
    /\ job' = [k \in Jobs |-> Idle]
    /\ UNCHANGED restOfProfiles

(* The shell, the screen and the menu.                                     *)
MenuOK ==
    /\ DOMAIN fetch = Fetches
    /\ \A f \in Fetches :
          DOMAIN fetch[f] = DOMAIN NoFetch /\ IsMap(fetch[f].profiles)
    /\ IsMap(profiles) /\ index \in Nat
    /\ items \in Seq(DOMAIN profiles)

ScreenOK ==
    /\ screen \in {"shell", "form", "saving", "app", "menu", "panic"}
    /\ state # "off" <=> screen = "menu"
    /\ WellFormed(opts)
    /\ screen = "saving" => saveAs \in Names
    /\ screen \in {"shell", "form"} => \A j \in Jobs : job[j].at = "idle"
    /\ screen = "saving" =>
          \A j, k \in Jobs : job[j].at # "idle" /\ job[k].at # "idle" => j = k

ShellInv == JobsOK /\ FilesOK /\ MenuOK /\ ScreenOK

LEMMA ProfileSteps ==
    ASSUME ShellInv, [Next]_vars
    PROVE  \/ \E j \in Jobs : JobStep(j) /\ screen' = screen
           \/ SaveStarts \/ DeleteStarts \/ Answers \/ Ends \/ StopJobs
           \/ UNCHANGED profileVars
<1> USE DEF ShellInv, ScreenOK
<1>1. CASE LaunchFlags \/ LaunchForm \/ FormKey \/ FormRun \/ LaunchMenu
  BY <1>1 DEF LaunchFlags, LaunchForm, FormKey, FormRun, LaunchMenu
<1>2. CASE SaveBegins
  BY <1>2 DEF SaveBegins, SaveStarts
<1>3. CASE SaveEnds
  <2>1. PICK j \in Jobs : job[j].at = "done" \/ job[j].at = "failed"
    BY <1>3 DEF SaveEnds
  <2> QED
    BY <1>3, <2>1 DEF SaveEnds, Ends, restOfProfiles
<1>4. CASE JobRuns
  BY <1>4 DEF JobRuns, shellVars
<1>5. CASE MenuRuns
  <2>1. CASE \E f \in Fetches : FetchReads(f) \/ ProfilesLoaded(f)
    BY <2>1 DEF FetchReads, ProfilesLoaded
  <2>2. ASSUME NEW j \in Jobs, ItemDeleted(j)
        PROVE  Answers
    BY <2>2 DEF ItemDeleted, Answers, restOfProfiles
  <2>3. ASSUME NEW j \in Jobs, CtrlD(j)
        PROVE  DeleteStarts
    <3>1. PICK name \in selected : DeleteProfile(j, name, index)
      BY <2>3 DEF CtrlD
    <3>2. name \in Names
      BY <3>1 DEF selected, MenuOK, IsMap
    <3> QED
      BY <3>1, <3>2 DEF DeleteStarts, MenuOK
  <2>4. CASE Cursor
    BY <2>4 DEF Cursor
  <2> QED
    BY <1>5, <2>1, <2>2, <2>3, <2>4 DEF MenuRuns
<1>6. CASE MenuEnter \/ MenuQuit \/ MenuFails \/ Exit
  BY <1>6 DEF MenuEnter, MenuQuit, MenuFails, Exit, CloseMenu
<1>7. CASE UNCHANGED vars
  BY <1>7 DEF vars
<1> QED
  BY <1>1, <1>2, <1>3, <1>4, <1>5, <1>6, <1>7 DEF Next

(* The types, whatever the step.                                           *)
LEMMA ProfileTypes ==
    ASSUME ShellInv, [Next]_vars
    PROVE  JobsOK' /\ FilesOK'
<1> USE DEF ShellInv
<1>1. ASSUME NEW j \in Jobs, JobStep(j)
      PROVE  JobsOK' /\ FilesOK'
  BY <1>1, JobStepTypes
<1>2. ASSUME NEW j \in Jobs, NEW op, NEW n \in Names, NEW o, WellFormed(o),
             NEW i \in Nat, Start(j, op, n, o, i)
      PROVE  JobsOK' /\ FilesOK'
  <2> DEFINE new == [Idle EXCEPT !.op = op, !.name = n, !.opts = o, !.index = i,
                                 !.at = IF op = "save" THEN "create" ELSE "read"]
  <2>1. IsJob(new)
    BY EmptyMap, <1>2 DEF IsJob, Idle
  <2>2. job' = [job EXCEPT ![j] = new]
    BY <1>2 DEF Start
  <2> HIDE DEF new
  <2> QED
    BY <1>2, <2>1, <2>2 DEF JobsOK, FilesOK, Start
<1>3. CASE SaveStarts
  BY <1>3, <1>2 DEF SaveStarts, SaveProfile, ScreenOK
<1>4. CASE DeleteStarts
  BY <1>4, <1>2, NothingGiven DEF DeleteStarts, DeleteProfile
<1>5. CASE Answers \/ Ends \/ StopJobs
  <2>1. FilesOK'
    BY <1>5 DEF Answers, Ends, StopJobs, restOfProfiles, FilesOK
  <2>2. JobsOK'
    BY <1>5, IdleJob DEF Answers, Ends, StopJobs, JobsOK
  <2> QED
    BY <2>1, <2>2
<1>6. CASE UNCHANGED profileVars
  BY <1>6 DEF profileVars, JobsOK, FilesOK
<1> QED
  BY <1>1, <1>3, <1>4, <1>5, <1>6, ProfileSteps
-----------------------------------------------------------------------------
(* Where a launch ends up.                                                 *)
LEMMA Connected ==
    ASSUME NEW o, WellFormed(o), NEW name \in Names \union {""}, NEW from,
           Connect(o, name, from)
    PROVE  /\ WellFormed(opts')
           /\ \/ screen' = "shell"
              \/ /\ screen' \in {"app", "saving", "panic"}
                 /\ screen' = "saving" => saveAs' \in Names /\ name # ""
                 /\ opts' = o /\ picked' = from
                 /\ screen' \in {"app", "saving"} =>
                       /\ conn' = BuildConnectionFromOpts(o)
                       /\ dialers' = SSHTunnel(o)
<1>1. CASE ToShell
  BY <1>1, NothingGiven DEF ToShell
<1>2. CASE ~ToShell
  BY <1>2 DEF Connect
<1> QED
  BY <1>1, <1>2

LEMMA FormWellFormed == WellFormed(FormOptions)
<1>1. DOMAIN FormOptions = DOMAIN NoOptions
  BY DEF FormOptions, NoOptions
<1>2. FormOptions.url = IF driver = "sqlite"
                        THEN [NoURL EXCEPT !.scheme = "file", !.valid = TRUE]
                        ELSE NoURL
  BY DEF FormOptions, NoOptions
<1>3. [NoURL EXCEPT !.scheme = "file", !.valid = TRUE].scheme = "file" /\ ~NoURL.valid
  BY DEF NoURL
<1> QED
  BY <1>1, <1>2, <1>3 DEF WellFormed

(* The options the menu ends with are those of the profile, with passwords *)
(* of the keyring.                                                         *)
LEMMA RecoveredOptions ==
    ASSUME MenuOK, NEW name \in DOMAIN profiles, NEW o \in Recovered(name)
    PROVE  /\ WellFormed(o)
           /\ DBSecret(name, o) = DBSecret(name, profiles[name])
           /\ \E e \in ring : e.key = DBSecret(name, o) /\ e.secret = o.pass
<1> DEFINE p == profiles[name]
<1>1. WellFormed(p)
  BY DEF MenuOK, IsMap
<1>2. PICK pass \in KeyringGet(DBSecret(name, p)) :
          \E second : o = [p EXCEPT !.pass = pass, !.sshPass = second]
  BY DEF Recovered
<1>3. o.pass = pass /\ o.user = p.user /\ WellFormed(o)
  BY <1>1, <1>2 DEF WellFormed, NoOptions
<1>4. \E e \in ring : e.key = DBSecret(name, p) /\ e.secret = pass
  BY DEF KeyringGet
<1> QED
  BY <1>3, <1>4 DEF DBSecret

LEMMA Selected ==
    ASSUME MenuOK, NEW name \in selected
    PROVE  name \in DOMAIN profiles /\ name \in Names
BY DEF selected, MenuOK, IsMap

LEMMA MenuClosed ==
    ASSUME MenuOK, CloseMenu
    PROVE  MenuOK' /\ state' = "off"
<1>1. /\ items' = <<>> /\ index' = 0 /\ profiles' = NoProfiles /\ state' = "off"
      /\ fetch' = [f \in Fetches |-> NoFetch]
  BY DEF CloseMenu
<1>2. DOMAIN fetch' = Fetches /\ \A f \in Fetches : fetch'[f] = NoFetch
  BY <1>1
<1>3. NoFetch.profiles = NoProfiles
  BY DEF NoFetch
<1>4. items' \in Seq(DOMAIN profiles')
  BY <1>1
<1> QED
  BY <1>1, <1>2, <1>3, <1>4, EmptyMap DEF MenuOK

LEMMA MenuTypes ==
    ASSUME ShellInv, [Next]_vars
    PROVE  MenuOK'
<1> USE DEF ShellInv
<1>1. CASE \/ LaunchFlags \/ LaunchForm \/ FormKey \/ FormRun \/ SaveBegins
           \/ SaveEnds \/ JobRuns \/ Exit \/ UNCHANGED vars
  <2>1. UNCHANGED menuVars
    BY <1>1 DEF LaunchFlags, LaunchForm, FormKey, FormRun, SaveBegins, SaveEnds,
                JobRuns, Exit, vars
  <2> QED
    BY <2>1 DEF menuVars, MenuOK
<1>2. CASE LaunchMenu
  <2>1. PICK f \in Fetches : fetch' = [fetch EXCEPT ![f].at = "asked"]
    BY <1>2 DEF LaunchMenu, OpenMenu
  <2>2. items' = <<>> /\ index' = 0 /\ profiles' = NoProfiles
    BY <1>2 DEF LaunchMenu, OpenMenu
  <2> QED
    BY <2>1, <2>2, EmptyMap DEF MenuOK, NoFetch
<1>3. CASE MenuRuns
  <2>1. ASSUME NEW f \in Fetches, FetchReads(f)
        PROVE  MenuOK'
    <3>1. IsMap(json.profiles)
      BY DEF FilesOK, IsFile
    <3> QED
      BY <2>1, <3>1 DEF FetchReads, ReadProfiles, MenuOK, NoFetch
  <2>2. ASSUME NEW f \in Fetches, ProfilesLoaded(f)
        PROVE  MenuOK'
    <3>1. IsMap(profiles') /\ IsFiniteSet(DOMAIN profiles')
      BY <2>2 DEF ProfilesLoaded, MenuOK, IsMap
    <3>2. items' \in [1..Cardinality(DOMAIN profiles') -> DOMAIN profiles']
      BY <2>2 DEF ProfilesLoaded, SetToSeqs
    <3>3. items' \in Seq(DOMAIN profiles')
      BY <3>1, <3>2, FS_CardinalityType
    <3> QED
      BY <2>2, <3>1, <3>3, EmptyMap DEF ProfilesLoaded, MenuOK, NoFetch
  <2>3. ASSUME NEW j \in Jobs, ItemDeleted(j)
        PROVE  MenuOK'
    <3>1. job[j].index \in Nat
      BY DEF JobsOK, IsJob
    <3>2. items' \in Seq(DOMAIN profiles)
      <4>1. items \in Seq(DOMAIN profiles)
        BY DEF MenuOK
      <4>2. ASSUME job[j].index < Len(items)
            PROVE  RemoveAt(items, job[j].index + 1) \in Seq(DOMAIN profiles)
        BY <3>1, <4>1, <4>2 DEF RemoveAt
      <4> QED
        BY <2>3, <4>1, <4>2 DEF ItemDeleted
    <3>3. PICK f \in Fetches : fetch' = [fetch EXCEPT ![f].at = "asked"]
      BY <2>3 DEF ItemDeleted
    <3> QED
      BY <2>3, <3>2, <3>3 DEF ItemDeleted, MenuOK, NoFetch
  <2>4. CASE Cursor
    BY <2>4 DEF Cursor, MenuOK
  <2>5. ASSUME NEW j \in Jobs, CtrlD(j)
        PROVE  MenuOK'
    BY <2>5 DEF CtrlD, MenuOK
  <2> QED
    BY <1>3, <2>1, <2>2, <2>3, <2>4, <2>5 DEF MenuRuns
<1>4. CASE MenuEnter \/ MenuQuit \/ MenuFails
  BY <1>4, MenuClosed DEF MenuEnter, MenuQuit, MenuFails
<1> QED
  BY <1>1, <1>2, <1>3, <1>4 DEF Next

LEMMA ScreenTypes ==
    ASSUME ShellInv, [Next]_vars
    PROVE  ScreenOK'
<1> USE DEF ShellInv
<1>13. ASSUME StopJobs
       PROVE  \A j \in Jobs : job'[j].at = "idle"
  BY <1>13 DEF StopJobs, Idle
<1>1. CASE LaunchFlags
  <2>1. PICK o \in Flags \ {NoOptions}, name \in Names \union {""} : Connect(o, name, "")
    BY <1>1 DEF LaunchFlags
  <2>2. WellFormed(o)
    BY StartupAssumption
  <2> QED
    BY <1>1, <2>1, <2>2, Connected DEF LaunchFlags, ScreenOK, menuVars, profileVars
<1>2. CASE LaunchForm \/ FormKey
  BY <1>2 DEF LaunchForm, FormKey, ScreenOK, menuVars, profileVars, shellVars
<1>3. CASE FormRun
  <2>1. CASE ToShell
    BY <1>3, <2>1, NothingGiven DEF FormRun, ToShell, ScreenOK, menuVars, profileVars
  <2>2. ASSUME NEW name \in Names \union {""}, Connect(FormOptions, name, "")
        PROVE  ScreenOK'
    BY <1>3, <2>2, FormWellFormed, Connected DEF FormRun, ScreenOK, menuVars, profileVars
  <2> QED
    BY <1>3, <2>1, <2>2 DEF FormRun
<1>4. CASE SaveBegins
  <2>1. PICK j \in Jobs : SaveProfile(j, saveAs, opts)
    BY <1>4 DEF SaveBegins
  <2>2. \A k \in Jobs \ {j} : job'[k].at = "idle"
    BY <1>4, <2>1 DEF SaveBegins, SaveProfile, Start, JobsOK
  <2> QED
    BY <1>4, <2>2 DEF SaveBegins, ScreenOK, menuVars, shellVars
<1>5. CASE SaveEnds
  <2>1. \A j \in Jobs : job'[j].at = "idle"
    BY <1>5 DEF SaveEnds, Idle
  <2> QED
    BY <1>5, <2>1, NothingGiven DEF SaveEnds, ToShell, ScreenOK, menuVars
<1>6. CASE JobRuns
  <2>1. PICK j \in Jobs : JobStep(j)
    BY <1>6 DEF JobRuns
  <2> QED
    BY <1>6, <2>1, OthersStay DEF JobRuns, ScreenOK, menuVars, shellVars
<1>7. CASE LaunchMenu
  BY <1>7 DEF LaunchMenu, OpenMenu, ScreenOK, profileVars
<1>8. CASE MenuRuns
  <2>1. state' # "off"
    BY <1>8 DEF MenuRuns, FetchReads, ProfilesLoaded, ItemDeleted, CtrlD, Cursor, ScreenOK
  <2> QED
    BY <1>8, <2>1 DEF MenuRuns, ScreenOK, shellVars
<1>9. CASE MenuEnter
  <2>1. PICK name \in selected :
            ToShell \/ \E o \in Recovered(name) : Connect(o, "", name)
    BY <1>9 DEF MenuEnter
  <2>2. CloseMenu
    BY <1>9 DEF MenuEnter
  <2>3. CASE ToShell
    <3>1. StopJobs
      BY <1>9, <2>3 DEF MenuEnter, ToShell
    <3> QED
      BY <2>2, <2>3, <3>1, <1>13, MenuClosed, NothingGiven DEF ToShell, ScreenOK
  <2>4. ASSUME NEW o \in Recovered(name), Connect(o, "", name)
        PROVE  ScreenOK'
    <3>1. WellFormed(o)
      BY Selected, RecoveredOptions
    <3>2. screen' = "shell" => \A j \in Jobs : job'[j].at = "idle"
      BY <1>9, <1>13 DEF MenuEnter
    <3> QED
      BY <2>2, <2>4, <3>1, <3>2, MenuClosed, Connected DEF ScreenOK
  <2> QED
    BY <2>1, <2>3, <2>4
<1>10. CASE MenuQuit \/ MenuFails
  BY <1>10, <1>13, MenuClosed, NothingGiven DEF MenuQuit, MenuFails, ToShell, ScreenOK
<1>11. CASE Exit
  <2>1. \A j \in Jobs : job'[j].at = "idle"
    BY <1>11, <1>13 DEF Exit
  <2> QED
    BY <1>11, <2>1, NothingGiven DEF Exit, ToShell, ScreenOK, menuVars
<1>12. CASE UNCHANGED vars
  BY <1>12 DEF vars, ScreenOK, menuVars, profileVars
<1> QED
  BY <1>1, <1>2, <1>3, <1>4, <1>5, <1>6, <1>7, <1>8, <1>9, <1>10, <1>11, <1>12 DEF Next

LEMMA ShellStep ==
    ASSUME ShellInv, [Next]_vars
    PROVE  ShellInv'
BY ProfileTypes, MenuTypes, ScreenTypes DEF ShellInv
-----------------------------------------------------------------------------
(* The form.                                                               *)
SSLInputs == {"sslCert", "sslKey", "sslPassword", "sslRootcert", "traceFile",
              "sslVerify", "wallet", "trustServerCertificate"}

FormOK ==
    /\ steps \in 0..4 /\ driver \in Range(FormDrivers)
    /\ steps \in {0, 2} /\ ~quit => cursor \in 0..(Len(choices) - 1)
    /\ steps \in {1, 3} => cursor \in -1..(Len(shown) - 1) \union {0}
    /\ steps \in {1, 3} /\ cursor = -1 => shown = <<>>

(* The first input of each list has the focus before it is shown, but for  *)
(* Oracle's.                                                               *)
Lit == focused \intersect Range(shown)

FocusOK ==
    /\ steps = 0 =>
          focused = {"host", "filePath", "sslCert", "trustServerCertificate"}
    /\ steps <= 2 =>
          focused \intersect SSLInputs = {"sslCert", "trustServerCertificate"}
    /\ steps = 1 => Lit = {shown[cursor + 1]}
    /\ steps = 3 /\ shown # <<>> =>
          \/ Lit = {shown[cursor + 1]}
          \/ Lit = {} /\ driver = "oracle" /\ cursor = 0

LEMMA Drivers ==
    /\ Range(FormDrivers) = {"postgres", "mysql", "sqlite", "oracle", "sqlserver"}
    /\ Len(FormDrivers) = 5
    /\ \A i \in 0..4 : FormDrivers[i + 1] \in Range(FormDrivers)
BY DEF Range, FormDrivers

LEMMA StdLists ==
    ASSUME NEW d \in Range(FormDrivers)
    PROVE  LET s == StdInputs(d)
           IN  /\ Len(s) \in Nat \ {0} /\ DOMAIN s = 1..Len(s)
               /\ Range(s) \intersect SSLInputs = {}
               /\ {"host", "filePath", "sslCert", "trustServerCertificate"}
                      \intersect Range(s) = {s[1]}
<1> DEFINE s == StdInputs(d)
<1>1. CASE d = "sqlite"
  <2>1. s = <<"filePath", "limit">>
    BY <1>1 DEF StdInputs
  <2>2. Range(s) = {"filePath", "limit"}
    BY <2>1 DEF Range
  <2> QED
    BY <2>1, <2>2 DEF SSLInputs
<1>2. CASE d = "mysql"
  <2>1. s = <<"host", "port", "user", "password", "database", "limit">>
    BY <1>2 DEF StdInputs
  <2>2. Range(s) = {"host", "port", "user", "password", "database", "limit"}
    BY <2>1 DEF Range
  <2> QED
    BY <2>1, <2>2 DEF SSLInputs
<1>3. CASE d \notin {"sqlite", "mysql"}
  <2>1. s = <<"host", "port", "user", "password", "schema", "database", "limit">>
    BY <1>3 DEF StdInputs
  <2>2. Range(s) = {"host", "port", "user", "password", "schema", "database", "limit"}
    BY <2>1 DEF Range
  <2> QED
    BY <2>1, <2>2 DEF SSLInputs
<1> QED
  BY <1>1, <1>2, <1>3

LEMMA SSLLists ==
    ASSUME NEW d \in Range(FormDrivers)
    PROVE  LET s == SSLConnInputs(d)
           IN  /\ Len(s) \in Nat /\ DOMAIN s = 1..Len(s)
               /\ s # <<>> => Len(s) > 0
               /\ Range(s) \subseteq SSLInputs
               /\ s # <<>> =>
                     \/ {"sslCert", "trustServerCertificate"} \intersect Range(s) = {s[1]}
                     \/ /\ d = "oracle"
                        /\ {"sslCert", "trustServerCertificate"} \intersect Range(s) = {}
<1> DEFINE s == SSLConnInputs(d)
<1>1. CASE d = "postgres"
  <2>1. s = <<"sslCert", "sslKey", "sslPassword", "sslRootcert">>
    BY <1>1 DEF SSLConnInputs
  <2>2. Range(s) = {"sslCert", "sslKey", "sslPassword", "sslRootcert"}
    BY <2>1 DEF Range
  <2> QED
    BY <2>1, <2>2 DEF SSLInputs
<1>2. CASE d = "oracle"
  <2>1. s = <<"traceFile", "sslVerify", "wallet">>
    BY <1>2 DEF SSLConnInputs
  <2>2. Range(s) = {"traceFile", "sslVerify", "wallet"}
    BY <2>1 DEF Range
  <2> QED
    BY <1>2, <2>1, <2>2 DEF SSLInputs
<1>3. CASE d = "sqlserver"
  <2>1. s = <<"trustServerCertificate">>
    BY <1>3 DEF SSLConnInputs
  <2>2. Range(s) = {"trustServerCertificate"}
    BY <2>1 DEF Range
  <2> QED
    BY <2>1, <2>2 DEF SSLInputs
<1>4. CASE d \notin {"postgres", "oracle", "sqlserver"}
  <2>1. s = <<>>
    BY <1>4 DEF SSLConnInputs
  <2>2. Range(s) = {}
    BY <2>1 DEF Range
  <2> QED
    BY <2>1, <2>2
<1> QED
  BY <1>1, <1>2, <1>3, <1>4

LEMMA ModeLists ==
    ASSUME NEW d \in Range(FormDrivers)
    PROVE  Len(SSLModes(d)) \in Nat /\ (d # "sqlite" => Len(SSLModes(d)) > 0)
BY Drivers DEF SSLModes

LEMMA RefocusLights ==
    ASSUME NEW to \in Nat, Len(shown) \in Nat, DOMAIN shown = 1..Len(shown), to < Len(shown)
    PROVE  /\ Refocus(to) \intersect Range(shown) = {shown[to + 1]}
           /\ \A other : other \intersect Range(shown) = {} =>
                 Refocus(to) \intersect other = focused \intersect other
<1>1. {to + 1} \intersect DOMAIN shown = {to + 1}
  OBVIOUS
<1>2. Refocus(to) = (focused \ Range(shown)) \union {shown[to + 1]}
  BY <1>1 DEF Refocus
<1>3. shown[to + 1] \in Range(shown)
  BY <1>1 DEF Range
<1> QED
  BY <1>2, <1>3
(* The list of the step, and its length.                                   *)
LEMMA ShownList ==
    ASSUME FormOK
    PROVE  /\ Len(shown) \in Nat /\ DOMAIN shown = 1..Len(shown)
           /\ shown # <<>> => Len(shown) > 0
           /\ steps = 1 => shown = StdInputs(driver) /\ Len(shown) > 0
           /\ steps = 3 => shown = SSLConnInputs(driver)
<1>1. CASE steps = 1
  BY <1>1, StdLists DEF shown, FormOK
<1>2. CASE steps = 3
  BY <1>2, SSLLists DEF shown, FormOK
<1>3. CASE steps \notin {1, 3}
  BY <1>3 DEF shown
<1> QED
  BY <1>1, <1>2, <1>3

FormInv == FormOK /\ FocusOK

LEMMA FirstFocus ==
    {"host", "filePath", "sslCert", "trustServerCertificate"} \intersect SSLInputs
        = {"sslCert", "trustServerCertificate"}
BY DEF SSLInputs

LEMMA FormStart ==
    ASSUME FormInit
    PROVE  FormInv
<1>1. steps = 0 /\ cursor = 0 /\ driver = "postgres"
  BY DEF FormInit
<1>2. choices = FormDrivers
  BY <1>1 DEF choices
<1>3. cursor \in 0..(Len(choices) - 1) /\ driver \in Range(FormDrivers)
  BY <1>1, <1>2, Drivers
<1>5. FormOK
  BY <1>1, <1>3 DEF FormOK
<1>4. focused = {"host", "filePath", "sslCert", "trustServerCertificate"}
  BY DEF FormInit
<1>6. FocusOK
  BY <1>1, <1>4, FirstFocus DEF FocusOK
<1> QED
  BY <1>5, <1>6 DEF FormInv

LEMMA FormStarts ==
    ASSUME FormAfresh
    PROVE  FormInv'
<1>1. steps' = 0 /\ cursor' = 0 /\ driver' = "postgres"
  BY DEF FormAfresh
<1>2. choices' = FormDrivers
  BY <1>1 DEF choices
<1>3. cursor' \in 0..(Len(choices') - 1) /\ driver' \in Range(FormDrivers)
  BY <1>1, <1>2, Drivers
<1>5. FormOK'
  BY <1>1, <1>3 DEF FormOK
<1>4. focused' = {"host", "filePath", "sslCert", "trustServerCertificate"}
  BY DEF FormAfresh
<1>6. FocusOK'
  BY <1>1, <1>4, FirstFocus DEF FocusOK
<1> QED
  BY <1>5, <1>6 DEF FormInv

LEMMA FormStays ==
    ASSUME FormInv, UNCHANGED formVars
    PROVE  FormInv'
BY DEF FormInv, FormOK, FocusOK, formVars, choices, shown, Lit

LEMMA FormStep ==
    ASSUME FormInv, FormNext
    PROVE  FormInv'
<1> USE DEF FormInv
<1>0. ~quit
  BY DEF FormNext
<1>1. CASE MenuMove
  <2>1. /\ steps \in {0, 2} /\ UNCHANGED <<steps, driver, focused, quit>>
        /\ \/ cursor > 0 /\ cursor' = cursor - 1
           \/ cursor + 1 < Len(choices) /\ cursor' = cursor + 1
    BY <1>1 DEF MenuMove
  <2>2. choices' = choices
    BY <2>1 DEF choices, shown
  <2>3. cursor \in 0..(Len(choices) - 1) /\ Len(choices) \in Nat
    BY <2>1, <1>0, Drivers, ModeLists DEF FormOK, choices
  <2>4. cursor' \in 0..(Len(choices) - 1)
    BY <2>1, <2>3
  <2> QED
    BY <2>1, <2>2, <2>4 DEF FormOK, FocusOK
<1>2. CASE ChooseDriver
  <2>1. /\ steps = 0 /\ steps' = 1 /\ cursor' = 0 /\ focused' = focused
        /\ driver' = FormDrivers[cursor + 1]
    BY <1>2 DEF ChooseDriver
  <2>2. driver' \in Range(FormDrivers)
    <3>1. choices = FormDrivers
      BY <2>1 DEF choices
    <3>2. cursor \in 0..4
      BY <2>1, <3>1, <1>0, Drivers DEF FormOK
    <3> QED
      BY <2>1, <3>2, Drivers
  <2>3. FormOK'
    BY <2>1, <2>2 DEF FormOK
  <2>4. shown' = StdInputs(driver')
    BY <2>1 DEF shown
  <2>5. focused' \intersect Range(shown') = {shown'[1]}
    BY <2>1, <2>2, <2>4, StdLists DEF FocusOK
  <2>6. FocusOK'
    BY <2>1, <2>5 DEF FocusOK, Lit
  <2> QED
    BY <2>3, <2>6
<1>3. CASE StdSubmit
  <2>1. /\ steps = 1 /\ steps' = 2 /\ cursor' = 0 /\ quit' = (driver = "sqlite")
        /\ UNCHANGED <<driver, focused>>
    BY <1>3 DEF StdSubmit
  <2>2. ~quit' => Len(choices') \in Nat /\ Len(choices') > 0
    <3>1. choices' = SSLModes(driver)
      BY <2>1 DEF choices
    <3> QED
      BY <2>1, <3>1, ModeLists DEF FormOK
  <2> QED
    BY <2>1, <2>2 DEF FormOK, FocusOK
<1>4. CASE ChooseSSLMode
  <2>1. CASE steps' = steps
    BY <1>4, <2>1 DEF ChooseSSLMode, FormOK, FocusOK
  <2>2. CASE steps' # steps
    <3>1. /\ steps = 2 /\ steps' = 3 /\ cursor' = 0 /\ UNCHANGED <<driver, focused>>
      BY <1>4, <2>2 DEF ChooseSSLMode
    <3>2. shown' = SSLConnInputs(driver)
      BY <3>1 DEF shown
    <3>3. FormOK'
      BY <3>1 DEF FormOK
    <3>4. /\ Range(shown') \subseteq SSLInputs
          /\ shown' # <<>> =>
                \/ {"sslCert", "trustServerCertificate"} \intersect Range(shown') = {shown'[1]}
                \/ /\ driver = "oracle"
                   /\ {"sslCert", "trustServerCertificate"} \intersect Range(shown') = {}
      BY <3>2, SSLLists DEF FormOK
    <3>5. focused \intersect Range(shown')
              = {"sslCert", "trustServerCertificate"} \intersect Range(shown')
      BY <3>1, <3>4 DEF FocusOK
    <3>6. FocusOK'
      BY <3>1, <3>4, <3>5 DEF FocusOK, Lit
    <3> QED
      BY <3>3, <3>6
  <2> QED
    BY <2>1, <2>2
<1>5. CASE SSLSubmit
  BY <1>5 DEF SSLSubmit, FormOK, FocusOK
<1>6. CASE InputMove
  <2>1. PICK by \in {1, -1} :
            cursor' = IF cursor + by > Len(shown) - 1 THEN 0
                      ELSE IF cursor + by < 0 THEN Len(shown) - 1 ELSE cursor + by
    BY <1>6 DEF InputMove
  <2>2. /\ steps \in {1, 3} /\ focused' = Refocus(cursor')
        /\ UNCHANGED <<steps, driver>>
    BY <1>6 DEF InputMove
  <2>3. shown' = shown
    BY <2>2 DEF shown
  <2>4. /\ cursor' \in -1..(Len(shown) - 1) \union {0}
        /\ cursor' = -1 => Len(shown) = 0
        /\ Len(shown) > 0 => cursor' \in 0..(Len(shown) - 1)
    BY <2>1, <2>2, ShownList DEF FormOK
  <2>5. FormOK'
    BY <2>2, <2>3, <2>4, ShownList DEF FormOK
  <2>6. CASE shown = <<>>
    <3>1. steps = 3
      BY <2>2, <2>6, ShownList
    <3> QED
      BY <2>2, <2>3, <2>5, <2>6, <3>1 DEF FocusOK
  <2>7. CASE shown # <<>>
    <3>1. Lit' = {shown'[cursor' + 1]}
      <4>1. cursor' \in Nat /\ cursor' < Len(shown)
        BY <2>4, <2>7, ShownList
      <4>2. Refocus(cursor') \intersect Range(shown) = {shown[cursor' + 1]}
        BY <4>1, ShownList, RefocusLights
      <4> QED
        BY <2>2, <2>3, <4>2 DEF Lit
    <3>2. steps = 1 => SSLInputs \intersect Range(shown) = {}
      BY ShownList, StdLists DEF FormOK
    <3>3. steps = 1 => focused' \intersect SSLInputs = focused \intersect SSLInputs
      BY <2>2, <2>4, <2>7, <3>2, ShownList, RefocusLights
    <3> QED
      BY <2>2, <2>5, <3>1, <3>3 DEF FocusOK
  <2> QED
    BY <2>5, <2>6, <2>7
<1>7. CASE Type \/ Leave
  BY <1>7 DEF Type, Leave, FormOK, FocusOK, choices, shown, Lit
<1> QED
  BY <1>1, <1>2, <1>3, <1>4, <1>5, <1>6, <1>7 DEF FormNext

LEMMA FormHolds ==
    ASSUME FormInv, [Next]_vars
    PROVE  FormInv'
<1>1. CASE LaunchForm \/ FormRun
  BY <1>1, FormStarts DEF LaunchForm, FormRun
<1>2. CASE FormKey
  BY <1>2, FormStep DEF FormKey
<1>3. CASE ~(LaunchForm \/ FormRun \/ FormKey)
  <2>1. UNCHANGED formVars
    BY <1>3 DEF Next, LaunchFlags, SaveBegins, SaveEnds, JobRuns, LaunchMenu, MenuRuns,
                MenuEnter, MenuQuit, MenuFails, Exit, vars
  <2> QED
    BY <2>1, FormStays
<1> QED
  BY <1>1, <1>2, <1>3
-----------------------------------------------------------------------------
(* What holds when nothing was launched yet, and the types.                *)
LEMMA PriorProfilesFiled ==
    ASSUME NEW prior \in Prior
    PROVE  IsMap([n \in DOMAIN prior |-> Marshalled(prior[n])])
BY ProfilesAssumption, MarshalledOptions DEF IsMap

LEMMA ShellInit == Init => ShellInv
<1> SUFFICES ASSUME Init PROVE ShellInv
  OBVIOUS
<1>1. JobsOK
  BY IdleJob DEF Init, ProfilesInit, JobsOK
<1>2. FilesOK
  <2>1. PICK prior \in Prior :
            json = IF DOMAIN prior = {} THEN File("absent")
                   ELSE Holding([n \in DOMAIN prior |-> Marshalled(prior[n])])
    BY DEF Init, ProfilesInit
  <2>2. tmp = File("absent")
    BY DEF Init, ProfilesInit
  <2> QED
    BY <2>1, <2>2, PriorProfilesFiled, Files DEF FilesOK
<1>3. MenuOK
  <2>1. /\ items = <<>> /\ index = 0 /\ profiles = NoProfiles
        /\ fetch = [f \in Fetches |-> NoFetch]
    BY DEF Init, MenuInit
  <2>2. NoFetch.profiles = NoProfiles
    BY DEF NoFetch
  <2>3. \A f \in Fetches : fetch[f] = NoFetch
    BY <2>1
  <2>4. items \in Seq(DOMAIN profiles)
    BY <2>1
  <2> QED
    BY <2>1, <2>2, <2>3, <2>4, EmptyMap DEF MenuOK
<1>4. ScreenOK
  <2>1. screen = "shell" /\ state = "off" /\ opts = NoOptions
    BY DEF Init, MenuInit
  <2>2. job = [j \in Jobs |-> Idle] /\ Idle.at = "idle"
    BY DEF Init, ProfilesInit, Idle
  <2> QED
    BY <2>1, <2>2, NothingGiven DEF ScreenOK
<1> QED
  BY <1>1, <1>2, <1>3, <1>4 DEF ShellInv

(* Every index the form takes is one of the list it takes it from (an      *)
(* index past the end panics, form.go), the two files are such as the jobs *)
(* write, and jobs are under way only where a screen waits for them.       *)
THEOREM StartupTypeCorrect == Spec => []TypeOK
<1>1. Init => ShellInv /\ FormInv
  BY ShellInit, FormStart DEF Init
<1>2. ShellInv /\ FormInv /\ [Next]_vars => (ShellInv /\ FormInv)'
  BY ShellStep, FormHolds
<1>3. ShellInv /\ FormInv => TypeOK
  BY DEF ShellInv, JobsOK, FilesOK, IsFile, IsMap, ScreenOK, FormInv, FormOK, TypeOK
<1> QED
  BY <1>1, <1>2, <1>3, PTL DEF Spec

(* What is typed goes to the input under the cursor and to no other (the   *)
(* Focus and Blur of form.go), whatever driver was chosen and however the  *)
(* cursor came there, but for Oracle's SSL inputs before the first move.   *)
THEOREM TypingReachesCursor == Spec => []TypingGoesToCursor
<1>1. Init => FormInv
  BY FormStart DEF Init
<1>2. FormInv /\ [Next]_vars => FormInv'
  BY FormHolds
<1>3. FormInv => TypingGoesToCursor
  <2> SUFFICES ASSUME FormInv, shown # <<>>, ~quit
               PROVE  LET lit == focused \intersect Range(shown)
                      IN  \/ lit = {shown[cursor + 1]}
                          \/ lit = {} /\ steps = 3 /\ driver = "oracle" /\ cursor = 0
    BY DEF TypingGoesToCursor
  <2>1. steps \in {1, 3}
    BY DEF shown
  <2> QED
    BY <2>1 DEF FormInv, FocusOK, Lit
<1> QED
  BY <1>1, <1>2, <1>3, PTL DEF Spec
-----------------------------------------------------------------------------
(* What the driver was opened with is what the options of the launch ask   *)
(* for.                                                                    *)
TunnelInv ==
    screen \in {"app", "saving"} =>
        conn = BuildConnectionFromOpts(opts) /\ dialers = SSHTunnel(opts)

LEMMA TunnelStep ==
    ASSUME ShellInv, TunnelInv, [Next]_vars
    PROVE  TunnelInv'
<1> USE DEF TunnelInv
<1>1. ASSUME NEW o, WellFormed(o), NEW name \in Names \union {""}, NEW from,
             Connect(o, name, from)
      PROVE  TunnelInv'
  <2>1. \/ screen' = "shell" \/ screen' = "panic"
        \/ /\ opts' = o /\ conn' = BuildConnectionFromOpts(o)
           /\ dialers' = SSHTunnel(o)
    BY <1>1, Connected
  <2> QED
    BY <2>1
<1>2. CASE LaunchFlags
  BY <1>1, <1>2, StartupAssumption DEF LaunchFlags
<1>3. CASE FormRun
  BY <1>1, <1>3, FormWellFormed DEF FormRun, ToShell
<1>4. CASE MenuEnter
  <2>1. PICK name \in selected :
            ToShell \/ \E o \in Recovered(name) : Connect(o, "", name)
    BY <1>4 DEF MenuEnter
  <2>2. ASSUME NEW o \in Recovered(name) PROVE WellFormed(o)
    BY <2>2, Selected, RecoveredOptions DEF ShellInv
  <2>3. CASE ToShell
    BY <2>3 DEF ToShell
  <2> QED
    BY <1>1, <2>1, <2>2, <2>3
<1>5. CASE LaunchForm \/ LaunchMenu
  BY <1>5 DEF LaunchForm, LaunchMenu
<1>6. CASE FormKey \/ SaveBegins \/ JobRuns \/ MenuRuns \/ UNCHANGED vars
  BY <1>6 DEF FormKey, SaveBegins, JobRuns, MenuRuns, shellVars, vars
<1>7. CASE SaveEnds
  BY <1>7 DEF SaveEnds, ToShell
<1>8. CASE MenuQuit \/ MenuFails \/ Exit
  BY <1>8 DEF MenuQuit, MenuFails, Exit, ToShell
<1> QED
  BY <1>2, <1>3, <1>4, <1>5, <1>6, <1>7, <1>8 DEF Next

LEMMA Concatenated ==
    ASSUME NEW S, NEW s \in Seq(S), NEW t \in Seq(S), NEW a,
           a \in Range(s) \/ a \in Range(t)
    PROVE  a \in Range(s \o t)
<1>1. Len(s) \in Nat /\ Len(t) \in Nat /\ DOMAIN s = 1..Len(s) /\ DOMAIN t = 1..Len(t)
  OBVIOUS
<1>2. /\ DOMAIN (s \o t) = 1..(Len(s) + Len(t))
      /\ \A i \in 1..Len(s) : (s \o t)[i] = s[i]
      /\ \A i \in 1..Len(t) : (s \o t)[Len(s) + i] = t[i]
  BY <1>1
<1>3. CASE a \in Range(s)
  <2>1. PICK i \in 1..Len(s) : a = s[i]
    BY <1>1, <1>3 DEF Range
  <2> QED
    BY <1>1, <1>2, <2>1 DEF Range
<1>4. CASE a \in Range(t)
  <2>1. PICK i \in 1..Len(t) : a = t[i]
    BY <1>1, <1>4 DEF Range
  <2>2. Len(s) + i \in DOMAIN (s \o t)
    BY <1>1, <1>2, <2>1
  <2> QED
    BY <1>2, <2>1, <2>2 DEF Range
<1> QED
  BY <1>3, <1>4

LEMMA OneDialer ==
    /\ Range(<<"postgres+ssh">>) = {"postgres+ssh"}
    /\ Range(<<"mysql+tcp">>) = {"mysql+tcp"}
    /\ {<<"postgres+ssh">>, <<"mysql+tcp">>, <<>>} \subseteq Seq({"postgres+ssh", "mysql+tcp"})
BY DEF Range

(* What SSHTunnel registers, when there is a tunnel.                       *)
LEMMA Registered ==
    ASSUME NEW o, o.sshHost # ""
    PROVE  /\ o.driver = "postgres" => "postgres+ssh" \in Range(SSHTunnel(o))
           /\ o.driver = "mysql" => "mysql+tcp" \in Range(SSHTunnel(o))
           /\ {"postgres", "postgresql"} \intersect o.url.names # {} =>
                 "postgres+ssh" \in Range(SSHTunnel(o))
           /\ o.url.names = {"mysql"} => "mysql+tcp" \in Range(SSHTunnel(o))
<1> DEFINE s == RegisteredForDriver(o)
           t == RegisteredForURL(o)
<1>1. SSHTunnel(o) = s \o t
  BY DEF SSHTunnel
<1>2. /\ s \in {<<"postgres+ssh">>, <<"mysql+tcp">>, <<>>}
      /\ o.driver = "postgres" => s = <<"postgres+ssh">>
      /\ o.driver = "mysql" => s = <<"mysql+tcp">>
  BY DEF RegisteredForDriver
<1>3. /\ t \in {<<"postgres+ssh">>, <<"mysql+tcp">>, <<>>}
      /\ {"postgres", "postgresql"} \intersect o.url.names # {} => t = <<"postgres+ssh">>
      /\ o.url.names = {"mysql"} => t = <<"mysql+tcp">>
  BY DEF RegisteredForURL
<1>4. s \in Seq({"postgres+ssh", "mysql+tcp"}) /\ t \in Seq({"postgres+ssh", "mysql+tcp"})
  BY <1>2, <1>3, OneDialer
<1> HIDE DEF s, t
<1> QED
  BY <1>1, <1>2, <1>3, <1>4, OneDialer, Concatenated

(* Which driver is opened, and when it is one of the tunnel.              *)
LEMMA OpenedDriver ==
    /\ \A r : r = Refused => r.driver = ""
    /\ \A r, d, u, p, n, s : r = Opened(d, u, p, n, s) => r.driver = d
<1>1. Refused.driver = ""
  BY DEF Refused
<1>2. \A d, u, p, n, s : Opened(d, u, p, n, s).driver = d
  BY DEF Opened
<1>3. ASSUME NEW r, NEW d, NEW u, NEW p, NEW n, NEW s, r = Opened(d, u, p, n, s)
      PROVE  r.driver = d
  <2>1. Opened(d, u, p, n, s).driver = d
    BY <1>2
  <2> QED
    BY <1>3, <2>1
<1> QED
  BY <1>1, <1>3

LEMMA URLDriver ==
    ASSUME NEW o
    PROVE  \/ FromURL(o).driver \notin {"postgres+ssh", "mysql"}
           \/ /\ FromURL(o).driver = "postgres+ssh"
              /\ o.url.valid /\ o.url.scheme \in {"postgres", "postgresql"}
              /\ o.sshHost # ""
           \/ FromURL(o).driver = "mysql" /\ o.url.valid /\ o.url.scheme = "mysql"
<1> DEFINE r == FromURL(o)
<1>1. CASE o.url.scheme \in {"postgres", "postgresql"}
  <2>1. r = FromPostgresURL(o)
    BY <1>1 DEF FromURL
  <2>2. \/ r = Refused
        \/ /\ o.url.valid /\ o.sshHost # ""
           /\ \E u, p, n, s : r = Opened("postgres+ssh", u, p, n, s)
        \/ \E u, p, n, s : r = Opened("postgres", u, p, n, s)
    BY <2>1 DEF FromPostgresURL
  <2> HIDE DEF r
  <2>3. \/ r.driver \in {"", "postgres"}
        \/ r.driver = "postgres+ssh" /\ o.url.valid /\ o.sshHost # ""
    BY <2>2, OpenedDriver
  <2> QED
    BY <1>1, <2>3 DEF r
<1>2. CASE o.url.scheme = "file"
  <2>1. \E u, p, n, s : r = Opened("sqlite", u, p, n, s)
    BY <1>2 DEF FromURL
  <2> HIDE DEF r
  <2>2. r.driver = "sqlite"
    BY <2>1, OpenedDriver
  <2> QED
    BY <2>2 DEF r
<1>3. CASE o.url.scheme \in {"mysql", "oracle", "sqlserver"} /\ o.url.valid
  <2>1. \E n, s : r = Opened(o.url.scheme, o.url.user, o.url.pass, n, s)
    BY <1>3 DEF FromURL
  <2> HIDE DEF r
  <2>2. r.driver = o.url.scheme
    BY <2>1, OpenedDriver
  <2> QED
    BY <1>3, <2>2 DEF r
<1>4. CASE /\ o.url.scheme \notin {"postgres", "postgresql", "file"}
           /\ ~(o.url.scheme \in {"mysql", "oracle", "sqlserver"} /\ o.url.valid)
  <2>1. r = Refused
    BY <1>4 DEF FromURL
  <2>2. r.driver = ""
    BY <2>1, OpenedDriver
  <2> QED
    BY <2>2
<1> QED
  BY <1>1, <1>2, <1>3, <1>4

LEMMA FieldsDriver ==
    ASSUME NEW o
    PROVE  \/ FromFields(o).driver \notin {"postgres+ssh", "mysql"}
           \/ FromFields(o).driver = "postgres+ssh" /\ o.driver = "postgres" /\ o.sshHost # ""
           \/ FromFields(o).driver = "mysql" /\ o.driver = "mysql"
<1> DEFINE user == IF o.user = "" THEN SystemUser ELSE o.user
           r == FromFields(o)
<1>1. CASE o.driver = "postgres"
  <2>1. r = FromPostgresFields(o, user)
    BY <1>1 DEF FromFields
  <2>2. \/ o.sshHost # "" /\ \E u, p, n, s : r = Opened("postgres+ssh", u, p, n, s)
        \/ \E u, p, n, s : r = Opened("postgres", u, p, n, s)
    BY <2>1 DEF FromPostgresFields
  <2> HIDE DEF r
  <2>3. \/ r.driver = "postgres"
        \/ r.driver = "postgres+ssh" /\ o.sshHost # ""
    BY <2>2, OpenedDriver
  <2> QED
    BY <1>1, <2>3 DEF r
<1>2. CASE o.driver = "mysql"
  <2>1. r = FromMySQLFields(o, user)
    BY <1>2 DEF FromFields
  <2>2. r = Refused \/ \E u, p, n, s : r = Opened("mysql", u, p, n, s)
    BY <2>1 DEF FromMySQLFields
  <2> HIDE DEF r
  <2>3. r.driver \in {"", "mysql"}
    BY <2>2, OpenedDriver
  <2> QED
    BY <1>2, <2>3 DEF r
<1>3. CASE o.driver \notin {"postgres", "mysql"}
  <2>1. \/ r = Refused
        \/ \E u, p, n, s : r = Opened("sqlserver", u, p, n, s)
        \/ \E u, p, n, s : r = Opened("sqlite", u, p, n, s)
        \/ \E u, p, n, s : r = Opened("oracle", u, p, n, s)
    BY <1>3 DEF FromFields, FromSQLServerFields
  <2> HIDE DEF r
  <2>2. r.driver \in {"", "sqlserver", "sqlite", "oracle"}
    BY <2>1, OpenedDriver
  <2> QED
    BY <2>2 DEF r
<1> QED
  BY <1>1, <1>2, <1>3

(* The dialers that SSHTunnel registers are those the connection needs.    *)
LEMMA RightDialer ==
    ASSUME NEW o, WellFormed(o), "mysql" \in o.url.names => o.url.names = {"mysql"}
    PROVE  LET c == BuildConnectionFromOpts(o)
               d == SSHTunnel(o)
           IN  /\ c.driver = "postgres+ssh" => "postgres+ssh" \in Range(d)
               /\ c.driver = "mysql" /\ c.net = "mysql+tcp" /\ o.sshHost # "" =>
                     "mysql+tcp" \in Range(d)
<1>1. CASE o.url # NoURL
  <2>1. BuildConnectionFromOpts(o) = FromURL(o)
    BY <1>1 DEF BuildConnectionFromOpts
  <2> QED
    BY <2>1, URLDriver, Registered DEF WellFormed
<1>2. CASE o.url = NoURL
  <2>1. BuildConnectionFromOpts(o) = FromFields(o)
    BY <1>2 DEF BuildConnectionFromOpts
  <2> QED
    BY <2>1, FieldsDriver, Registered
<1> QED
  BY <1>1, <1>2

(* A connection through the SSH tunnel finds its dialer registered         *)
(* (sshdb.go), whether the options come from flags, the form or a profile. *)
THEOREM TunnelFindsDialer == Spec => []TunnelReady
<1>1. Init => ShellInv /\ TunnelInv
  BY ShellInit DEF Init, TunnelInv
<1>2. ShellInv /\ TunnelInv /\ [Next]_vars => (ShellInv /\ TunnelInv)'
  BY ShellStep, TunnelStep
<1>3. ShellInv /\ TunnelInv => TunnelReady
  BY RightDialer DEF ShellInv, ScreenOK, TunnelInv, TunnelReady
<1> QED
  BY <1>1, <1>2, <1>3, PTL DEF Spec
-----------------------------------------------------------------------------
(* What the keyring has was given with the save of some profile, as the    *)
(* password of its user or of its tunnel.                                  *)
Filed(e) == \E g \in given : e \in Entries(g.name, g.opts)

GivenSave(r) == r.op = "save" => [name |-> r.name, opts |-> r.opts] \in given

RingInv ==
    /\ \A e \in ring : Filed(e)
    /\ \A j \in Jobs : GivenSave(job[j])

Belongs(n, o) ==
    \E g \in given :
        \/ /\ g.name = n
           /\ g.opts.user = o.user /\ g.opts.pass = o.pass
        \/ /\ SSHService[g.name] = n
           /\ g.opts.sshUser = o.user /\ g.opts.sshPass = o.pass

(* A session that was picked from the menu has its password from there.    *)
PickedInv == picked # "" =>
    /\ screen \in {"app", "panic"}
    /\ screen = "app" => Belongs(picked, opts)

LEMMA KeySet ==
    ASSUME NEW key, NEW secret, KeyringSet(key, secret)
    PROVE  /\ Kept(ring') = Kept(ring) \union {key}
           /\ \A e \in ring' : e \in ring \/ e = [key |-> key, secret |-> secret]
<1> DEFINE new == [key |-> key, secret |-> secret]
<1>1. new.key = key
  OBVIOUS
<1>2. ring' = {e \in ring : e.key # key} \union {new}
  BY DEF KeyringSet
<1> HIDE DEF new
<1>3. Kept(ring') = Kept(ring) \union {key}
  BY <1>1, <1>2 DEF Kept
<1> QED
  BY <1>2, <1>3 DEF new

LEMMA KeyDeleted ==
    ASSUME NEW key, KeyringDelete(key)
    PROVE  Kept(ring') = Kept(ring) \ {key} /\ ring' \subseteq ring
BY DEF KeyringDelete, Kept

(* The service and the user of an entry tell what it was given as.         *)
LEMMA FiledFor ==
    ASSUME NEW e, Filed(e), NEW n, NEW o,
           e.key = DBSecret(n, o), e.secret = o.pass
    PROVE  Belongs(n, o)
<1>1. PICK g \in given : e \in Entries(g.name, g.opts)
  BY DEF Filed
<1>2. CASE e = [key |-> DBSecret(g.name, g.opts), secret |-> g.opts.pass]
  <2>1. DBSecret(g.name, g.opts) = DBSecret(n, o) /\ g.opts.pass = o.pass
    BY <1>2
  <2>2. g.name = n /\ g.opts.user = o.user
    BY <2>1 DEF DBSecret
  <2> QED
    BY <2>1, <2>2 DEF Belongs
<1>3. CASE e = [key |-> SSHSecret(g.name, g.opts), secret |-> g.opts.sshPass]
  <2>1. SSHSecret(g.name, g.opts) = DBSecret(n, o) /\ g.opts.sshPass = o.pass
    BY <1>3
  <2>2. SSHService[g.name] = n /\ g.opts.sshUser = o.user
    BY <2>1 DEF DBSecret, SSHSecret
  <2> QED
    BY <2>1, <2>2 DEF Belongs
<1> QED
  BY <1>1, <1>2, <1>3 DEF Entries

LEMMA RingInit == Init => RingInv
<1> SUFFICES ASSUME Init
             PROVE  RingInv
  OBVIOUS
<1>1. PICK prior \in Prior :
          /\ ring \in Rings(UNION {Entries(n, prior[n]) : n \in DOMAIN prior})
          /\ given = {[name |-> n, opts |-> prior[n]] : n \in DOMAIN prior}
  BY DEF Init, ProfilesInit
<1>2. ASSUME NEW e \in ring
      PROVE  Filed(e)
  <2>1. PICK n \in DOMAIN prior : e \in Entries(n, prior[n])
    BY <1>1 DEF Rings
  <2> DEFINE g == [name |-> n, opts |-> prior[n]]
  <2>2. g \in given /\ g.name = n /\ g.opts = prior[n]
    BY <1>1
  <2> QED
    BY <2>1, <2>2 DEF Filed
<1>3. \A j \in Jobs : job[j].op = ""
  <2>1. job = [j \in Jobs |-> Idle] /\ Idle.op = ""
    BY DEF Init, ProfilesInit, Idle
  <2> QED
    BY <2>1
<1> QED
  BY <1>2, <1>3 DEF RingInv, GivenSave

(* The options of a save are those it began with.                          *)
LEMMA OptionsStay ==
    ASSUME JobsOK, NEW j \in Jobs, JobStep(j), job[j].op = "save"
    PROVE  job'[j].opts = job[j].opts
<1> USE DEF JobsOK, IsJob, Idle, At, Goto
<1>1. CASE SaveCreate(j) \/ SaveSecret(j) \/ SaveSSH(j) \/ SaveRead(j)
  BY <1>1 DEF SaveCreate, SaveSecret, SaveSSH, SaveRead
<1>2. CASE OpenTmp(j) \/ WriteTmp(j) \/ Fail(j)
  BY <1>2 DEF OpenTmp, WriteTmp, Fail
<1>3. CASE Rename(j)
  BY <1>3 DEF Rename
<1> QED
  BY <1>1, <1>2, <1>3 DEF JobStep, DeleteRead, DeleteSecret, DeleteSSH

(* Nothing that was given is forgotten.                                    *)
LEMMA RingStep ==
    ASSUME ShellInv, RingInv, [Next]_vars
    PROVE  RingInv' /\ given \subseteq given'
<1> USE DEF RingInv
<1>1. ASSUME NEW j \in Jobs, JobStep(j)
      PROVE  RingInv' /\ given' = given
  <2> DEFINE n == job[j].name
             o == job[j].opts
  <2>1. given' = given
    BY <1>1 DEF JobStep, SaveCreate, SaveSecret, SaveSSH, SaveRead, DeleteRead,
                DeleteSecret, DeleteSSH, OpenTmp, WriteTmp, Rename, Fail
  <2>2. ASSUME NEW e, Filed(e)
        PROVE  Filed(e)'
    BY <2>1, <2>2 DEF Filed, Entries, DBSecret, SSHSecret
  <2>3. ASSUME NEW k \in Jobs
        PROVE  GivenSave(job[k])'
    <3>1. \/ job'[k].op # "save"
          \/ /\ job'[k].op = job[k].op /\ job'[k].name = job[k].name
             /\ job'[k].opts = job[k].opts
      BY <1>1, OthersStay, OptionsStay DEF ShellInv
    <3> QED
      BY <2>1, <3>1 DEF GivenSave
  <2>4. ASSUME job[j].op = "save", NEW e \in Entries(n, o)
        PROVE  Filed(e)
    <3>1. [name |-> n, opts |-> o] \in given
      BY <2>4 DEF GivenSave
    <3> QED
      BY <2>4, <3>1 DEF Filed
  <2>5. \A e \in ring' : Filed(e)
    <3>1. CASE SaveSecret(j)
      <4>1. KeyringSet(DBSecret(n, o), o.pass) /\ job[j].op = "save"
        BY <3>1 DEF SaveSecret, At
      <4>2. [key |-> DBSecret(n, o), secret |-> o.pass] \in Entries(n, o)
        BY DEF Entries
      <4> QED
        BY <2>4, <4>1, <4>2, KeySet
    <3>2. CASE SaveSSH(j)
      <4>1. /\ job[j].op = "save"
            /\ \/ ring' = ring
               \/ o.sshPass # "" /\ o.sshUser # "" /\ KeyringSet(SSHSecret(n, o), o.sshPass)
        BY <3>2 DEF SaveSSH, At
      <4>2. o.sshPass # "" /\ o.sshUser # "" =>
                [key |-> SSHSecret(n, o), secret |-> o.sshPass] \in Entries(n, o)
        BY DEF Entries
      <4>3. CASE ring' = ring
        BY <4>3
      <4>4. CASE ring' # ring
        <5> DEFINE new == [key |-> SSHSecret(n, o), secret |-> o.sshPass]
        <5>1. KeyringSet(SSHSecret(n, o), o.sshPass) /\ new \in Entries(n, o)
          BY <4>1, <4>2, <4>4
        <5>2. \A e \in ring' : e \in ring \/ e = new
          BY <5>1, KeySet
        <5>3. Filed(new)
          BY <2>4, <4>1, <5>1
        <5> QED
          BY <5>2, <5>3
      <4> QED
        BY <4>3, <4>4
    <3>3. CASE DeleteSecret(j) \/ DeleteSSH(j)
      BY <3>3, KeyDeleted DEF DeleteSecret, DeleteSSH
    <3>4. CASE ~(SaveSecret(j) \/ SaveSSH(j) \/ DeleteSecret(j) \/ DeleteSSH(j))
      BY <1>1, <3>4 DEF JobStep, SaveCreate, SaveRead, DeleteRead, OpenTmp, WriteTmp,
                        Rename, Fail
    <3> QED
      BY <3>1, <3>2, <3>3, <3>4
  <2> HIDE DEF n, o
  <2>6. \A e \in ring' : Filed(e)'
    BY <2>2, <2>5
  <2> QED
    BY <2>1, <2>3, <2>6
<1>2. ASSUME ring' = ring, given \subseteq given',
             \A j \in Jobs : GivenSave(job[j])'
      PROVE  RingInv' /\ given \subseteq given'
  <2>1. ASSUME NEW e, Filed(e)
        PROVE  Filed(e)'
    BY <1>2, <2>1 DEF Filed, Entries, DBSecret, SSHSecret
  <2> QED
    BY <1>2, <2>1
<1>3. CASE SaveStarts
  <2>1. PICK j \in Jobs : SaveProfile(j, saveAs, opts)
    BY <1>3 DEF SaveStarts
  <2>2. ring' = ring /\ given' = given \union {[name |-> saveAs, opts |-> opts]}
    BY <2>1 DEF SaveProfile, Start
  <2>3. /\ job'[j].name = saveAs /\ job'[j].opts = opts
        /\ \A k \in Jobs \ {j} : job'[k] = job[k]
    BY <2>1 DEF SaveProfile, Start, Idle, ShellInv, JobsOK
  <2> QED
    BY <1>2, <2>2, <2>3 DEF GivenSave
<1>4. CASE DeleteStarts
  <2>1. PICK j \in Jobs, n \in Names, i \in Nat : DeleteProfile(j, n, i)
    BY <1>4 DEF DeleteStarts
  <2>2. ring' = ring /\ given' = given
    BY <2>1 DEF DeleteProfile, Start
  <2>3. job'[j].op = "delete" /\ \A k \in Jobs \ {j} : job'[k] = job[k]
    BY <2>1 DEF DeleteProfile, Start, Idle, ShellInv, JobsOK
  <2> QED
    BY <1>2, <2>2, <2>3 DEF GivenSave
<1>5. CASE Answers \/ Ends \/ StopJobs \/ UNCHANGED profileVars
  <2>1. ring' = ring /\ given' = given
    BY <1>5 DEF Answers, Ends, StopJobs, profileVars, restOfProfiles
  <2>2. Idle.op = ""
    BY DEF Idle
  <2>3. \A j \in Jobs : job'[j] = job[j] \/ job'[j] = Idle
    BY <1>5 DEF Answers, Ends, StopJobs, profileVars, ShellInv, JobsOK
  <2>4. \A j \in Jobs : GivenSave(job[j])'
    BY <2>1, <2>2, <2>3 DEF GivenSave
  <2> QED
    BY <1>2, <2>1, <2>4
<1> QED
  BY <1>1, <1>3, <1>4, <1>5, ProfileSteps

LEMMA PickedStep ==
    ASSUME ShellInv, RingInv, PickedInv, [Next]_vars
    PROVE  PickedInv'
<1> USE DEF PickedInv
<1>0. given \subseteq given'
  BY RingStep
<1>1. CASE LaunchFlags \/ FormRun
  <2>1. picked' = ""
    BY <1>1 DEF LaunchFlags, FormRun, Connect, ToShell
  <2> QED
    BY <2>1
<1>2. CASE MenuEnter
  <2>1. PICK name \in selected : ToShell \/ \E o \in Recovered(name) : Connect(o, "", name)
    BY <1>2 DEF MenuEnter
  <2>2. given' = given
    BY <1>2 DEF MenuEnter, StopJobs, profileVars
  <2>3. CASE ToShell
    BY <2>3 DEF ToShell
  <2>4. ASSUME NEW o \in Recovered(name), Connect(o, "", name), ~ToShell
        PROVE  PickedInv'
    <3>1. /\ opts' = o /\ picked' = name /\ screen' \in {"app", "panic"}
      BY <2>4 DEF Connect
    <3>2. PICK e \in ring : e.key = DBSecret(name, o) /\ e.secret = o.pass
      BY Selected, RecoveredOptions DEF ShellInv
    <3>3. Belongs(name, o)
      BY <3>2, FiledFor DEF RingInv
    <3> QED
      BY <2>2, <3>1, <3>3 DEF Belongs
  <2> QED
    BY <2>1, <2>3, <2>4
<1>3. CASE LaunchForm \/ LaunchMenu
  BY <1>3 DEF LaunchForm, LaunchMenu
<1>4. CASE FormKey \/ SaveBegins \/ JobRuns \/ MenuRuns \/ UNCHANGED vars
  BY <1>0, <1>4 DEF FormKey, SaveBegins, JobRuns, MenuRuns, shellVars, vars, Belongs
<1>5. CASE SaveEnds
  BY <1>5 DEF SaveEnds, ToShell
<1>6. CASE MenuQuit \/ MenuFails \/ Exit
  BY <1>6 DEF MenuQuit, MenuFails, Exit, ToShell
<1> QED
  BY <1>1, <1>2, <1>3, <1>4, <1>5, <1>6 DEF Next

(* dblab connect logs in with a password that was given for this profile   *)
(* and this user (profiles.go), or as the SSH password of the profile      *)
(* whose SSH service has this profile's name, for this user; however saves *)
(* and deletes raced before.                                               *)
THEOREM PickedPasswordBelongs == Spec => []PasswordBelongs
<1>1. Init => ShellInv /\ RingInv /\ PickedInv
  BY ShellInit, RingInit DEF Init, PickedInv
<1>2. ShellInv /\ RingInv /\ PickedInv /\ [Next]_vars => (ShellInv /\ RingInv /\ PickedInv)'
  BY ShellStep, RingStep, PickedStep
<1>3. PickedInv => PasswordBelongs
  BY DEF PickedInv, Belongs, PasswordBelongs
<1> QED
  BY <1>1, <1>2, <1>3, PTL DEF Spec
-----------------------------------------------------------------------------
(* Profiles and keyring, as long as no two jobs are under way at once.     *)
Serial == \A j, k \in Jobs : Active(j) /\ Active(k) => j = k

With(p, n, o) == [m \in DOMAIN p \union {n} |-> IF m = n THEN o ELSE p[m]]
Without(p, n) == [m \in DOMAIN p \ {n} |-> p[m]]

(* What a save has done so far, a delete, and either to the .tmp.          *)
SaveInv(j) ==
    LET n == job[j].name
        o == job[j].opts
    IN  /\ job[j].at \in {"ssh", "read", "open", "write", "rename"} =>
                DBSecret(n, o) \in Kept(ring)
        /\ job[j].at \in {"open", "write", "rename"} =>
                job[j].copy = With(json.profiles, n, Marshalled(o))

DeleteInv(j) ==
    LET n == job[j].name
        o == job[j].opts
        p == json.profiles
    IN  /\ job[j].at \in {"secret", "ssh", "open", "write", "rename"} =>
                n \in DOMAIN p /\ o = p[n]
        /\ job[j].at \in {"secret", "ssh"} => job[j].copy = p
        /\ job[j].at = "ssh" => DBSecret(n, o) \notin Kept(ring)
        /\ job[j].at \in {"open", "write", "rename"} =>
                /\ Secrets(n, o) \intersect Kept(ring) = {}
                /\ job[j].copy = Without(p, n)

TmpInv(j) ==
    /\ job[j].at = "write" => job[j].fd = "tmp" /\ tmp.kind = "empty"
    /\ job[j].at = "rename" => tmp.profiles = job[j].copy

JobInv(j) ==
    Active(j) =>
        /\ TmpInv(j)
        /\ \/ job[j].op = "save" /\ SaveInv(j)
           \/ job[j].op = "delete" /\ DeleteInv(j)

(* The profiles in the file have their password.                           *)
Listed ==
    \A n \in DOMAIN json.profiles :
        \/ DBSecret(n, json.profiles[n]) \in Kept(ring) \union lost
        \/ \E j \in Jobs : DBSecret(n, json.profiles[n]) \in CutIf(j)

(* What is kept is a secret of a profile in the file or of a save under    *)
(* way.                                                                    *)
IsOf(key, p) == \E n \in DOMAIN p : key \in Secrets(n, p[n])

Left ==
    \A key \in Kept(ring) \ loose :
        IsOf(key, json.profiles) \/ \E j \in Jobs : key \in LooseIf(j)

(* The file has the user and the SSH user of what was saved last.          *)
SavedInv ==
    /\ DOMAIN saved = Names
    /\ \A n \in DOMAIN json.profiles :
          /\ saved[n].user = json.profiles[n].user
          /\ saved[n].sshUser = json.profiles[n].sshUser

Consistent == Serial /\ (\A j \in Jobs : JobInv(j)) /\ Listed /\ Left /\ SavedInv

StoreInv == overlapped \/ Consistent
-----------------------------------------------------------------------------
(* User and SSH user tell which secrets a profile has.                     *)
LEMMA SameSecrets ==
    ASSUME NEW n, NEW o, NEW q, o.user = q.user, o.sshUser = q.sshUser
    PROVE  DBSecret(n, o) = DBSecret(n, q) /\ Secrets(n, o) = Secrets(n, q)
BY DEF Secrets, DBSecret, SSHSecret

(* The other jobs have nothing under way.                                  *)
LEMMA OthersQuiet ==
    ASSUME JobsOK, Consistent, NEW j \in Jobs, Active(j), JobStep(j)
    PROVE  /\ Serial'
           /\ \A k \in Jobs \ {j} :
                 /\ ~Active(k) /\ ~Active(k)' /\ JobInv(k)'
                 /\ CutIf(k) = {} /\ CutIf(k)' = {} /\ LooseIf(k) = {} /\ LooseIf(k)' = {}
<1>1. \A k \in Jobs \ {j} : ~Active(k)
  BY DEF Consistent, Serial
<1>2. \A k \in Jobs \ {j} : job'[k].at = job[k].at
  BY OthersStay
<1>3. \A k \in Jobs \ {j} : ~Active(k)'
  BY <1>1, <1>2 DEF Active
<1>4. Serial'
  BY <1>3 DEF Serial
<1>5. \A k \in Jobs \ {j} : JobInv(k)'
  BY <1>3 DEF JobInv
<1>6. \A k \in Jobs \ {j} : CutIf(k) = {} /\ CutIf(k)' = {} /\ LooseIf(k) = {} /\ LooseIf(k)' = {}
  BY <1>1, <1>3 DEF CutIf, LooseIf, Active
<1> QED
  BY <1>1, <1>3, <1>4, <1>5, <1>6

LEMMA OneStep ==
    ASSUME NEW j \in Jobs, JobStep(j)
    PROVE  Active(j)
BY DEF JobStep, SaveCreate, SaveSecret, SaveSSH, SaveRead, DeleteRead, DeleteSecret,
       DeleteSSH, OpenTmp, WriteTmp, Rename, Fail, At, Active

(* A step of a save that leaves the file's profiles: more secrets kept.    *)
LEMMA SaveFills ==
    ASSUME JobsOK, Consistent, NEW j \in Jobs, JobStep(j), job[j].op = "save",
           Active(j)', LooseIf(j)' = LooseIf(j),
           json'.profiles = json.profiles, loose' = loose, saved' = saved,
           Kept(ring) \subseteq Kept(ring'), lost \ lost' \subseteq Kept(ring'),
           Kept(ring') \ Kept(ring) \subseteq Secrets(job[j].name, job[j].opts)
    PROVE  Listed' /\ Left' /\ SavedInv'
<1>0. Active(j)
  BY OneStep
<1>1. SavedInv'
  BY DEF Consistent, SavedInv
<1>2. CutIf(j) = {}
  BY DEF CutIf
<1>3. \A k \in Jobs : CutIf(k) = {}
  BY <1>0, <1>2, OthersQuiet
<1>4. Listed'
  <2>1. \A n \in DOMAIN json.profiles : DBSecret(n, json.profiles[n]) \in Kept(ring) \union lost
    BY <1>3 DEF Consistent, Listed
  <2>2. \A n \in DOMAIN json'.profiles : DBSecret(n, json'.profiles[n]) \in Kept(ring') \union lost'
    BY <2>1
  <2> QED
    BY <2>2 DEF Listed
<1>5. Left'
  <2> SUFFICES ASSUME NEW key \in Kept(ring') \ loose'
               PROVE  IsOf(key, json.profiles) \/ key \in LooseIf(j)'
    BY DEF Left
  <2>1. LooseIf(j) = Secrets(job[j].name, job[j].opts)
    BY <1>0 DEF LooseIf
  <2>2. CASE key \in Kept(ring)
    <3>1. IsOf(key, json.profiles) \/ \E k \in Jobs : key \in LooseIf(k)
      BY <2>2 DEF Consistent, Left
    <3>2. \A k \in Jobs : key \in LooseIf(k) => k = j
      BY <1>0, OthersQuiet
    <3> QED
      BY <3>1, <3>2
  <2>3. CASE key \notin Kept(ring)
    BY <2>1, <2>3
  <2> QED
    BY <2>2, <2>3
<1> QED
  BY <1>1, <1>4, <1>5

(* A step of a delete that leaves the file's profiles: secrets go, that of *)
(* a listed profile only when the job is to answer for it or it is lost.   *)
LEMMA DeleteDrains ==
    ASSUME JobsOK, Consistent, NEW j \in Jobs, JobStep(j), job[j].op = "delete",
           CutIf(j) \subseteq CutIf(j)',
           json'.profiles = json.profiles, loose' = loose, saved' = saved,
           Kept(ring') \subseteq Kept(ring), lost \subseteq lost',
           (Kept(ring) \ Kept(ring')) \intersect Claimed \subseteq CutIf(j)' \union lost'
    PROVE  Listed' /\ Left' /\ SavedInv'
<1>0. Active(j)
  BY OneStep
<1>1. SavedInv'
  BY DEF Consistent, SavedInv
<1>2. Listed'
  <2> SUFFICES ASSUME NEW n \in DOMAIN json.profiles
               PROVE  \/ DBSecret(n, json.profiles[n]) \in Kept(ring') \union lost'
                      \/ DBSecret(n, json.profiles[n]) \in CutIf(j)'
    BY DEF Listed
  <2> DEFINE key == DBSecret(n, json.profiles[n])
  <2>1. key \in Claimed
    BY DEF Claimed
  <2>2. key \in Kept(ring) \union lost \/ \E k \in Jobs : key \in CutIf(k)
    BY DEF Consistent, Listed
  <2>3. \A k \in Jobs : key \in CutIf(k) => k = j
    BY <1>0, OthersQuiet
  <2> HIDE DEF key
  <2> QED
    BY <2>1, <2>2, <2>3 DEF key
<1>3. Left'
  <2> SUFFICES ASSUME NEW key \in Kept(ring') \ loose'
               PROVE  IsOf(key, json.profiles)
    BY DEF Left
  <2>1. IsOf(key, json.profiles) \/ \E k \in Jobs : key \in LooseIf(k)
    BY DEF Consistent, Left
  <2>2. LooseIf(j) = {}
    BY DEF LooseIf
  <2>3. \A k \in Jobs : LooseIf(k) = {}
    BY <1>0, <2>2, OthersQuiet
  <2> QED
    BY <2>1, <2>3
<1> QED
  BY <1>1, <1>2, <1>3

(* A job that stops leaves to loose and lost what it did not finish.        *)
LEMMA StopKeeps ==
    ASSUME Consistent, NEW js \in SUBSET Jobs, ring' = ring, json' = json, saved' = saved,
           loose' = loose \union UNION {LooseIf(j) : j \in js},
           lost' = lost \union UNION {CutIf(j) : j \in js},
           \A j \in Jobs \ js : CutIf(j)' = CutIf(j) /\ LooseIf(j)' = LooseIf(j)
    PROVE  Listed' /\ Left' /\ SavedInv'
<1>1. SavedInv'
  BY DEF Consistent, SavedInv
<1>2. Listed'
  <2> SUFFICES ASSUME NEW n \in DOMAIN json.profiles
               PROVE  \/ DBSecret(n, json.profiles[n]) \in Kept(ring) \union lost'
                      \/ \E k \in Jobs : DBSecret(n, json.profiles[n]) \in CutIf(k)'
    BY DEF Listed
  <2> DEFINE key == DBSecret(n, json.profiles[n])
  <2>1. key \in Kept(ring) \union lost \/ \E k \in Jobs : key \in CutIf(k)
    BY DEF Consistent, Listed
  <2> HIDE DEF key
  <2> QED
    BY <2>1 DEF key
<1>3. Left'
  <2> SUFFICES ASSUME NEW key \in Kept(ring) \ loose'
               PROVE  IsOf(key, json.profiles) \/ \E k \in Jobs : key \in LooseIf(k)'
    BY DEF Left
  <2>1. IsOf(key, json.profiles) \/ \E k \in Jobs : key \in LooseIf(k)
    BY DEF Consistent, Left
  <2> QED
    BY <2>1
<1> QED
  BY <1>1, <1>2, <1>3
-----------------------------------------------------------------------------
(* The steps of a save, and of a delete, up to the .tmp.                   *)
LEMMA GoesTo ==
    ASSUME JobsOK, NEW j \in Jobs, NEW at, Goto(j, at)
    PROVE  /\ job'[j].at = at /\ job'[j].op = job[j].op /\ job'[j].name = job[j].name
           /\ job'[j].opts = job[j].opts /\ job'[j].copy = job[j].copy
           /\ job'[j].fd = job[j].fd
BY DEF Goto, JobsOK, IsJob, Idle

LEMMA SaveStep ==
    ASSUME JobsOK, FilesOK, Consistent, NEW j \in Jobs, job[j].op = "save",
           SaveCreate(j) \/ SaveSecret(j) \/ SaveSSH(j) \/ SaveRead(j)
    PROVE  Consistent'
<1> DEFINE n == job[j].name
           o == job[j].opts
<1>0. JobStep(j) /\ Active(j)
  BY OneStep DEF JobStep
<1>1. JobInv(j) /\ SaveInv(j)
  BY <1>0 DEF Consistent, JobInv
<1>2. Serial' /\ \A k \in Jobs \ {j} : JobInv(k)'
  BY <1>0, OthersQuiet
<1>3. SUFFICES JobInv(j)' /\ Listed' /\ Left' /\ SavedInv'
  BY <1>2 DEF Consistent
<1>4. LooseIf(j) = Secrets(n, o)
  BY <1>0 DEF LooseIf
<1>5. CASE SaveCreate(j)
  <2>1. /\ job'[j].at = "secret" /\ job'[j].op = "save" /\ job'[j].name = n
        /\ job'[j].opts = o
    BY <1>5, GoesTo DEF SaveCreate
  <2>2. Active(j)' /\ JobInv(j)'
    BY <2>1 DEF Active, JobInv, TmpInv, SaveInv
  <2>3. LooseIf(j)' = LooseIf(j)
    BY <1>4, <2>1, <2>2 DEF LooseIf
  <2>4. json'.profiles = json.profiles
    BY <1>5 DEF SaveCreate, File, FilesOK, IsFile
  <2>5. ring' = ring /\ lost' = lost /\ loose' = loose /\ saved' = saved
    BY <1>5 DEF SaveCreate
  <2>6. Kept(ring') = Kept(ring)
    BY <2>5
  <2> QED
    BY <1>0, <2>2, <2>3, <2>4, <2>5, <2>6, SaveFills
<1>6. CASE SaveSecret(j)
  <2>1. /\ job'[j].at = "ssh" /\ job'[j].op = "save" /\ job'[j].name = n
        /\ job'[j].opts = o
    BY <1>6, GoesTo DEF SaveSecret
  <2>2. Kept(ring') = Kept(ring) \union {DBSecret(n, o)}
    BY <1>6, KeySet DEF SaveSecret
  <2>3. Active(j)' /\ JobInv(j)'
    BY <2>1, <2>2 DEF Active, JobInv, TmpInv, SaveInv
  <2>4. LooseIf(j)' = LooseIf(j)
    BY <1>4, <2>1, <2>3 DEF LooseIf
  <2>5. /\ json' = json /\ loose' = loose /\ saved' = saved
        /\ lost' = lost \ {DBSecret(n, o)}
    BY <1>6 DEF SaveSecret
  <2>6. DBSecret(n, o) \in Secrets(n, o)
    BY DEF Secrets
  <2>7. /\ Kept(ring') \ Kept(ring) \subseteq Secrets(n, o)
        /\ Kept(ring) \subseteq Kept(ring') /\ lost \ lost' \subseteq Kept(ring')
    BY <2>2, <2>5, <2>6
  <2> HIDE DEF n, o
  <2>8. Listed' /\ Left' /\ SavedInv'
    BY <1>0, <2>2, <2>3, <2>4, <2>5, <2>7, SaveFills DEF n, o
  <2> QED
    BY <2>3, <2>8
<1>7. CASE SaveSSH(j)
  <2>1. /\ job'[j].at = "read" /\ job'[j].op = "save" /\ job'[j].name = n
        /\ job'[j].opts = o
    BY <1>7, GoesTo DEF SaveSSH
  <2>2. \/ Kept(ring') = Kept(ring)
        \/ Kept(ring') = Kept(ring) \union {SSHSecret(n, o)} /\ o.sshUser # ""
    BY <1>7, KeySet DEF SaveSSH
  <2>3. job[j].at = "ssh"
    BY <1>7 DEF SaveSSH, At
  <2>4. Active(j)' /\ JobInv(j)'
    BY <1>1, <2>1, <2>2, <2>3 DEF Active, JobInv, TmpInv, SaveInv
  <2>5. LooseIf(j)' = LooseIf(j)
    BY <1>4, <2>1, <2>4 DEF LooseIf
  <2>6. json' = json /\ lost' = lost /\ loose' = loose /\ saved' = saved
    BY <1>7 DEF SaveSSH
  <2>7. o.sshUser # "" => SSHSecret(n, o) \in Secrets(n, o)
    BY DEF Secrets
  <2>8. Kept(ring') \ Kept(ring) \subseteq Secrets(n, o)
    BY <2>2, <2>7
  <2> HIDE DEF n, o
  <2>9. Listed' /\ Left' /\ SavedInv'
    BY <1>0, <2>2, <2>4, <2>5, <2>6, <2>8, SaveFills DEF n, o
  <2> QED
    BY <2>4, <2>9
<1>8. CASE SaveRead(j)
  <2> DEFINE more == With(json.profiles, n, Marshalled(o))
  <2>1. /\ job' = [job EXCEPT ![j].at = "open", ![j].copy = more]
        /\ job[j].at = "read"
    BY <1>8 DEF SaveRead, With, At
  <2>2. /\ job'[j].at = "open" /\ job'[j].op = "save" /\ job'[j].name = n
        /\ job'[j].opts = o /\ job'[j].copy = more
    <3> HIDE DEF more
    <3> QED
      BY <2>1 DEF JobsOK, IsJob, Idle
  <2>3. json' = json /\ ring' = ring /\ lost' = lost /\ loose' = loose /\ saved' = saved
    BY <1>8 DEF SaveRead
  <2>4. Kept(ring') = Kept(ring)
    BY <2>3
  <2>5. Active(j)' /\ JobInv(j)'
    BY <1>1, <2>1, <2>2, <2>3, <2>4 DEF Active, JobInv, TmpInv, SaveInv
  <2>6. LooseIf(j)' = LooseIf(j)
    BY <1>4, <2>2, <2>5 DEF LooseIf
  <2> QED
    BY <1>0, <2>3, <2>4, <2>5, <2>6, SaveFills
<1> QED
  BY <1>5, <1>6, <1>7, <1>8

LEMMA DeleteStep ==
    ASSUME JobsOK, FilesOK, Consistent, NEW j \in Jobs, job[j].op = "delete",
           DeleteRead(j) \/ DeleteSecret(j) \/ DeleteSSH(j)
    PROVE  Consistent'
<1> DEFINE n == job[j].name
           o == job[j].opts
<1>0. JobStep(j) /\ Active(j)
  BY OneStep DEF JobStep
<1>1. JobInv(j) /\ DeleteInv(j)
  BY <1>0 DEF Consistent, JobInv
<1>2. Serial' /\ \A k \in Jobs \ {j} : JobInv(k)'
  BY <1>0, OthersQuiet
<1>3. SUFFICES JobInv(j)' /\ Listed' /\ Left' /\ SavedInv'
  BY <1>2 DEF Consistent
<1>4. CASE DeleteRead(j)
  <2>1. /\ job[j].at = "read"
        /\ json' = json /\ ring' = ring /\ lost' = lost /\ loose' = loose /\ saved' = saved
    BY <1>4 DEF DeleteRead, At
  <2>2. CutIf(j) = {} /\ Kept(ring') = Kept(ring)
    BY <2>1 DEF CutIf
  <2>3. JobInv(j)'
    <3>1. CASE Goto(j, "done")
      BY <3>1, GoesTo DEF JobInv, Active
    <3>2. CASE /\ n \in DOMAIN json.profiles
               /\ job' = [job EXCEPT ![j].at = "secret", ![j].copy = json.profiles,
                                     ![j].opts = json.profiles[n]]
      <4>1. /\ job'[j].at = "secret" /\ job'[j].op = "delete" /\ job'[j].name = n
            /\ job'[j].opts = json.profiles[n] /\ job'[j].copy = json.profiles
        BY <3>2 DEF JobsOK, IsJob, Idle
      <4> QED
        BY <2>1, <3>2, <4>1 DEF JobInv, TmpInv, DeleteInv
    <3> QED
      BY <1>4, <3>1, <3>2 DEF DeleteRead
  <2> QED
    BY <1>0, <2>1, <2>2, <2>3, DeleteDrains
<1>5. CASE DeleteSecret(j)
  <2>1. /\ job[j].at = "secret"
        /\ json' = json /\ lost' = lost /\ loose' = loose /\ saved' = saved
    BY <1>5 DEF DeleteSecret, At
  <2>2. /\ job'[j].at = "ssh" /\ job'[j].op = "delete" /\ job'[j].name = n
        /\ job'[j].opts = o /\ job'[j].copy = job[j].copy
    BY <1>5, GoesTo DEF DeleteSecret
  <2>3. Kept(ring') = Kept(ring) \ {DBSecret(n, o)}
    BY <1>5, KeyDeleted DEF DeleteSecret
  <2>4. JobInv(j)'
    BY <1>1, <2>1, <2>2, <2>3 DEF JobInv, TmpInv, DeleteInv
  <2>5. CutIf(j) = {} /\ CutIf(j)' = {DBSecret(n, o)}
    BY <2>1, <2>2 DEF CutIf
  <2> QED
    BY <1>0, <2>1, <2>3, <2>4, <2>5, DeleteDrains
<1>6. CASE DeleteSSH(j)
  <2> DEFINE less == Without(job[j].copy, n)
  <2>1. /\ job[j].at = "ssh" /\ job' = [job EXCEPT ![j].at = "open", ![j].copy = less]
        /\ json' = json /\ loose' = loose /\ saved' = saved
    BY <1>6 DEF DeleteSSH, At, Without
  <2>2. /\ job'[j].at = "open" /\ job'[j].op = "delete" /\ job'[j].name = n
        /\ job'[j].opts = o /\ job'[j].copy = less
    <3> HIDE DEF less
    <3> QED
      BY <2>1 DEF JobsOK, IsJob, Idle
  <2> DEFINE ssh == Secrets(n, o) \ {DBSecret(n, o)}
  <2>3. Kept(ring') = Kept(ring) \ ssh /\ lost' = lost \union (ssh \intersect Claimed)
    <3>1. /\ ring' = {e \in ring : e.key \notin ssh}
          /\ lost' = lost \union (ssh \intersect Claimed)
      BY <1>6 DEF DeleteSSH
    <3> HIDE DEF ssh
    <3> QED
      BY <3>1 DEF Kept
  <2>4. DBSecret(n, o) \notin Kept(ring) /\ less = Without(json.profiles, n)
    BY <1>1, <2>1 DEF DeleteInv
  <2>5. Secrets(n, o) \intersect Kept(ring') = {}
    BY <2>3, <2>4
  <2>6. JobInv(j)'
    <3> HIDE DEF less
    <3> QED
      BY <1>1, <2>1, <2>2, <2>4, <2>5 DEF JobInv, TmpInv, DeleteInv
  <2>7. CutIf(j)' = CutIf(j)
    BY <2>1, <2>2 DEF CutIf
  <2>8. /\ (Kept(ring) \ Kept(ring')) \intersect Claimed \subseteq lost'
        /\ lost \subseteq lost'
    BY <2>3
  <2>9. Kept(ring') \subseteq Kept(ring)
    BY <2>3
  <2>10. Listed' /\ Left' /\ SavedInv'
    BY <1>0, <2>1, <2>7, <2>8, <2>9, DeleteDrains
  <2> QED
    BY <2>6, <2>10
<1> QED
  BY <1>4, <1>5, <1>6
-----------------------------------------------------------------------------
(* The steps of either job: the .tmp, and the rename.                      *)
LEMMA TmpStep ==
    ASSUME JobsOK, FilesOK, Consistent, NEW j \in Jobs, OpenTmp(j) \/ WriteTmp(j)
    PROVE  Consistent'
<1> DEFINE n == job[j].name
           o == job[j].opts
<1>0. JobStep(j) /\ Active(j)
  BY OneStep DEF JobStep
<1>1. JobInv(j) /\ TmpInv(j)
  BY <1>0 DEF Consistent, JobInv
<1>2. Serial' /\ \A k \in Jobs \ {j} : JobInv(k)'
  BY <1>0, OthersQuiet
<1>3. /\ job'[j].op = job[j].op /\ job'[j].name = n /\ job'[j].opts = o
      /\ job'[j].copy = job[j].copy
      /\ \/ job[j].at = "open" /\ job'[j].at = "write"
         \/ job[j].at = "write" /\ job'[j].at = "rename"
  <2>1. CASE OpenTmp(j)
    BY <2>1 DEF OpenTmp, JobsOK, IsJob, Idle
  <2>2. CASE WriteTmp(j)
    BY <2>2, GoesTo DEF WriteTmp
  <2> QED
    BY <2>1, <2>2
<1>4. /\ json' = json /\ ring' = ring /\ lost' = lost /\ loose' = loose /\ saved' = saved
      /\ TmpInv(j)'
  <2>1. CASE OpenTmp(j)
    <3>1. job'[j].at = "write" /\ job'[j].fd = "tmp" /\ tmp' = File("empty")
      BY <2>1 DEF OpenTmp, JobsOK, IsJob, Idle
    <3> QED
      BY <2>1, <3>1 DEF OpenTmp, TmpInv, File
  <2>2. CASE WriteTmp(j)
    <3>1. job[j].at = "write" /\ job[j].fd = "tmp" /\ tmp.kind = "empty"
      BY <1>1, <2>2 DEF WriteTmp, TmpInv
    <3>2. tmp' = Holding(job[j].copy) /\ json' = json
      BY <2>2, <3>1 DEF WriteTmp, Written
    <3>3. TmpInv(j)'
      BY <1>3, <3>1, <3>2 DEF TmpInv, Holding
    <3> QED
      BY <2>2, <3>2, <3>3 DEF WriteTmp
  <2> QED
    BY <2>1, <2>2
<1>5. Kept(ring') = Kept(ring)
  BY <1>4
<1>6. Active(j)'
  BY <1>3 DEF Active
<1>7. CASE job[j].op = "save" /\ SaveInv(j)
  <2>1. SaveInv(j)'
    BY <1>3, <1>4, <1>5, <1>7 DEF SaveInv
  <2>2. JobInv(j)'
    BY <1>3, <1>4, <1>7, <2>1 DEF JobInv
  <2>3. LooseIf(j)' = LooseIf(j)
    BY <1>0, <1>3, <1>6, <1>7 DEF LooseIf
  <2>4. Listed' /\ Left' /\ SavedInv'
    BY <1>0, <1>4, <1>5, <1>6, <1>7, <2>3, SaveFills
  <2> QED
    BY <1>2, <2>2, <2>4 DEF Consistent
<1>8. CASE job[j].op = "delete" /\ DeleteInv(j)
  <2>1. DeleteInv(j)'
    BY <1>3, <1>4, <1>5, <1>8 DEF DeleteInv
  <2>2. JobInv(j)'
    BY <1>3, <1>4, <1>8, <2>1 DEF JobInv
  <2>3. CutIf(j)' = CutIf(j)
    BY <1>3, <1>8 DEF CutIf
  <2>4. Listed' /\ Left' /\ SavedInv'
    BY <1>0, <1>4, <1>5, <1>8, <2>3, DeleteDrains
  <2> QED
    BY <1>2, <2>2, <2>4 DEF Consistent
<1> QED
  BY <1>0, <1>1, <1>7, <1>8 DEF JobInv

(* A save that comes to its end: the file has what the keyring has.        *)
LEMMA RenameSaved ==
    ASSUME JobsOK, FilesOK, Consistent, NEW j \in Jobs, job[j].op = "save", Rename(j)
    PROVE  Listed' /\ Left' /\ SavedInv'
<1> DEFINE n == job[j].name
           o == job[j].opts
           p == json.profiles
           q == json'.profiles
<1>0. JobStep(j) /\ Active(j) /\ job[j].at = "rename"
  BY OneStep DEF JobStep, Rename
<1>1. SaveInv(j) /\ TmpInv(j)
  BY <1>0 DEF Consistent, JobInv
<1>2. DBSecret(n, o) \in Kept(ring) /\ q = With(p, n, Marshalled(o))
  BY <1>0, <1>1 DEF SaveInv, TmpInv, Rename
<1>3. /\ DOMAIN q = DOMAIN p \union {n} /\ q[n] = Marshalled(o)
      /\ \A m \in DOMAIN p \ {n} : q[m] = p[m]
  BY <1>2 DEF With
<1>4. WellFormed(o) /\ n \in Names
  BY <1>0 DEF JobsOK, IsJob
<1>5. q[n].user = o.user /\ q[n].sshUser = o.sshUser
  BY <1>3, <1>4, MarshalledOptions
<1>6. DBSecret(n, q[n]) = DBSecret(n, o) /\ Secrets(n, q[n]) = Secrets(n, o)
  BY <1>5, SameSecrets
<1>7. /\ ring' = ring /\ lost' = lost /\ Kept(ring') = Kept(ring)
      /\ saved' = [saved EXCEPT ![n] = o]
      /\ loose' = loose \union (Secrets(n, saved[n]) \ Secrets(n, o))
  BY DEF Rename
<1>8. \A k \in Jobs : CutIf(k) = {} /\ (LooseIf(k) # {} => k = j)
  <2>1. CutIf(j) = {}
    BY DEF CutIf
  <2> QED
    BY <1>0, <2>1, OthersQuiet
<1> HIDE DEF n, o, p, q
<1>9. Listed'
  <2>1. ASSUME NEW m \in DOMAIN q
        PROVE  DBSecret(m, q[m]) \in Kept(ring) \union lost
    <3>1. CASE m = n
      BY <1>2, <1>6, <3>1
    <3>2. CASE m # n
      <4>1. m \in DOMAIN p /\ q[m] = p[m]
        BY <1>3, <3>2
      <4> QED
        BY <1>8, <4>1 DEF Consistent, Listed, p
    <3> QED
      BY <3>1, <3>2
  <2> QED
    BY <1>7, <2>1 DEF Listed, q
<1>10. Left'
  <2>1. ASSUME NEW key \in Kept(ring) \ loose'
        PROVE  IsOf(key, q)
    <3>1. CASE key \in Secrets(n, o)
      BY <1>3, <1>6, <3>1 DEF IsOf
    <3>2. ASSUME NEW m \in DOMAIN p, key \in Secrets(m, p[m])
          PROVE  IsOf(key, q)
      <4>1. CASE m = n
        <5>1. saved[n].user = p[n].user /\ saved[n].sshUser = p[n].sshUser
          BY <4>1 DEF Consistent, SavedInv, p
        <5>2. Secrets(n, p[n]) = Secrets(n, saved[n])
          BY <5>1, SameSecrets
        <5> QED
          BY <1>7, <2>1, <3>1, <3>2, <4>1, <5>2
      <4>2. CASE m # n
        BY <1>3, <3>2, <4>2 DEF IsOf
      <4> QED
        BY <4>1, <4>2
    <3>3. IsOf(key, p) \/ key \in Secrets(n, o)
      <4>1. key \in Kept(ring) \ loose
        BY <1>7, <2>1
      <4>2. IsOf(key, p) \/ \E k \in Jobs : key \in LooseIf(k)
        BY <4>1 DEF Consistent, Left, p
      <4>3. LooseIf(j) = Secrets(n, o)
        BY <1>0 DEF LooseIf, n, o
      <4> QED
        BY <1>8, <4>2, <4>3 DEF n
    <3> QED
      BY <3>1, <3>2, <3>3 DEF IsOf
  <2> QED
    BY <1>7, <2>1 DEF Left, q
<1>11. SavedInv'
  <2>1. DOMAIN saved' = Names /\ saved'[n] = o
    BY <1>4, <1>7 DEF Consistent, SavedInv
  <2>2. ASSUME NEW m \in DOMAIN q
        PROVE  saved'[m].user = q[m].user /\ saved'[m].sshUser = q[m].sshUser
    <3>1. CASE m = n
      BY <1>5, <2>1, <3>1
    <3>2. CASE m # n
      <4>1. m \in DOMAIN p /\ q[m] = p[m]
        BY <1>3, <3>2
      <4>2. saved'[m] = saved[m]
        BY <1>7, <3>2, <4>1 DEF Consistent, SavedInv, FilesOK, IsFile, IsMap, p
      <4> QED
        BY <4>1, <4>2 DEF Consistent, SavedInv, p
    <3> QED
      BY <3>1, <3>2
  <2> QED
    BY <2>1, <2>2 DEF SavedInv, q
<1> QED
  BY <1>9, <1>10, <1>11

(* A delete that comes to its end: neither has the profile any more.       *)
LEMMA RenameDeleted ==
    ASSUME JobsOK, FilesOK, Consistent, NEW j \in Jobs, job[j].op = "delete", Rename(j)
    PROVE  Listed' /\ Left' /\ SavedInv'
<1> DEFINE n == job[j].name
           o == job[j].opts
           p == json.profiles
           q == json'.profiles
<1>0. JobStep(j) /\ Active(j) /\ job[j].at = "rename"
  BY OneStep DEF JobStep, Rename
<1>1. DeleteInv(j) /\ TmpInv(j)
  BY <1>0 DEF Consistent, JobInv
<1>2. /\ Secrets(n, o) \intersect Kept(ring) = {} /\ q = Without(p, n)
      /\ n \in DOMAIN p /\ o = p[n]
  BY <1>0, <1>1 DEF DeleteInv, TmpInv, Rename
<1>3. DOMAIN q = DOMAIN p \ {n} /\ \A m \in DOMAIN p \ {n} : q[m] = p[m]
  BY <1>2 DEF Without
<1>4. CutIf(j) = {DBSecret(n, o)} /\ LooseIf(j) = {}
  BY <1>0 DEF CutIf, LooseIf
<1>5. /\ ring' = ring /\ lost' = lost /\ Kept(ring') = Kept(ring)
      /\ saved' = [saved EXCEPT ![n] = NoOptions] /\ loose' = loose
  BY DEF Rename
<1>6. \A k \in Jobs : (CutIf(k) # {} => k = j) /\ LooseIf(k) = {}
  BY <1>0, <1>4, OthersQuiet
<1> HIDE DEF n, o, p, q
<1>7. Listed'
  <2>1. ASSUME NEW m \in DOMAIN q
        PROVE  DBSecret(m, q[m]) \in Kept(ring) \union lost
    <3>1. m \in DOMAIN p /\ q[m] = p[m] /\ m # n
      BY <1>3
    <3>2. \/ DBSecret(m, p[m]) \in Kept(ring) \union lost
          \/ \E k \in Jobs : DBSecret(m, p[m]) \in CutIf(k)
      BY <3>1 DEF Consistent, Listed, p
    <3>3. DBSecret(m, p[m]) # DBSecret(n, o)
      BY <3>1 DEF DBSecret
    <3> QED
      BY <1>4, <1>6, <3>1, <3>2, <3>3
  <2> QED
    BY <1>5, <2>1 DEF Listed, q
<1>8. Left'
  <2>1. ASSUME NEW key \in Kept(ring) \ loose
        PROVE  IsOf(key, q)
    <3>1. IsOf(key, p)
      BY <1>6 DEF Consistent, Left, p
    <3>2. PICK m \in DOMAIN p : key \in Secrets(m, p[m])
      BY <3>1 DEF IsOf
    <3>3. m # n
      BY <1>2, <3>2
    <3> QED
      BY <1>3, <3>2, <3>3 DEF IsOf
  <2> QED
    BY <1>5, <2>1 DEF Left, q
<1>9. SavedInv'
  <2>1. \A m \in DOMAIN q : m \in Names /\ m # n /\ q[m] = p[m] /\ m \in DOMAIN p
    BY <1>3 DEF FilesOK, IsFile, IsMap, p
  <2>2. DOMAIN saved' = Names /\ \A m \in DOMAIN q : saved'[m] = saved[m]
    BY <1>5, <2>1 DEF Consistent, SavedInv
  <2> QED
    BY <2>1, <2>2 DEF Consistent, SavedInv, p, q
<1> QED
  BY <1>7, <1>8, <1>9

(* The end of a job, well or not.                                          *)
LEMMA EndStep ==
    ASSUME JobsOK, FilesOK, Consistent, NEW j \in Jobs, Rename(j) \/ Fail(j)
    PROVE  Consistent'
<1>0. JobStep(j) /\ Active(j)
  BY OneStep DEF JobStep
<1>1. Serial' /\ \A k \in Jobs \ {j} : JobInv(k)'
  BY <1>0, OthersQuiet
<1>2. JobInv(j)'
  <2>1. job'[j].at \in {"done", "failed"}
    <3>1. CASE Rename(j)
      BY <3>1 DEF Rename, JobsOK, IsJob, Idle
    <3>2. CASE Fail(j)
      BY <3>2, GoesTo DEF Fail
    <3> QED
      BY <3>1, <3>2
  <2> QED
    BY <2>1 DEF JobInv, Active
<1>3. Listed' /\ Left' /\ SavedInv'
  <2>1. CASE Rename(j)
    <3>1. job[j].op \in {"save", "delete"}
      BY <1>0 DEF Consistent, JobInv
    <3> QED
      BY <2>1, <3>1, RenameSaved, RenameDeleted
  <2>2. CASE Fail(j)
    <3>1. /\ ring' = ring /\ json' = json /\ saved' = saved
          /\ loose' = loose \union UNION {LooseIf(k) : k \in {j}}
          /\ lost' = lost \union UNION {CutIf(k) : k \in {j}}
      BY <2>2 DEF Fail
    <3>2. \A k \in Jobs \ {j} : CutIf(k)' = CutIf(k) /\ LooseIf(k)' = LooseIf(k)
      BY <1>0, OthersQuiet
    <3>3. {j} \in SUBSET Jobs
      OBVIOUS
    <3> QED
      BY <3>1, <3>2, <3>3, StopKeeps
  <2> QED
    BY <2>1, <2>2
<1> QED
  BY <1>1, <1>2, <1>3 DEF Consistent

(* A job starts while no other is under way.                               *)
LEMMA StartKeeps ==
    ASSUME JobsOK, Consistent, NEW j \in Jobs, NEW op \in {"save", "delete"}, NEW n, NEW o,
           NEW i, Start(j, op, n, o, i), ~overlapped'
    PROVE  Consistent'
<1>1. /\ job'[j].at = IF op = "save" THEN "create" ELSE "read"
      /\ job'[j].op = op
  BY DEF Start, JobsOK, Idle
<1>2. \A k \in Jobs \ {j} : job'[k] = job[k] /\ ~Active(k)
  BY DEF Start, JobsOK
<1>3. Serial' /\ \A k \in Jobs : JobInv(k)'
  BY <1>1, <1>2 DEF Serial, Active, JobInv, TmpInv, SaveInv, DeleteInv
<1>4. \A k \in Jobs : LooseIf(k) = {} /\ CutIf(k) = {}
  BY <1>2 DEF Start, LooseIf, CutIf, Active
<1>5. /\ json' = json /\ ring' = ring /\ loose' = loose /\ lost' = lost /\ saved' = saved
  BY DEF Start
<1>6. Listed' /\ Left' /\ SavedInv'
  BY <1>4, <1>5 DEF Consistent, Listed, Left, SavedInv
<1> QED
  BY <1>3, <1>6 DEF Consistent

(* Whatever dblab does next, profiles and keyring stay consistent.         *)
LEMMA StoreStep ==
    ASSUME ShellInv, StoreInv, [Next]_vars
    PROVE  StoreInv'
<1> USE DEF ShellInv
<1>1. ASSUME Consistent, NEW j \in Jobs, JobStep(j)
      PROVE  Consistent'
  <2>1. job[j].op \in {"save", "delete"}
    BY <1>1, OneStep DEF Consistent, JobInv
  <2>2. \/ job[j].op = "save" /\ (SaveCreate(j) \/ SaveSecret(j) \/ SaveSSH(j) \/ SaveRead(j))
        \/ job[j].op = "delete" /\ (DeleteRead(j) \/ DeleteSecret(j) \/ DeleteSSH(j))
        \/ OpenTmp(j) \/ WriteTmp(j) \/ Rename(j) \/ Fail(j)
    BY <1>1 DEF JobStep, SaveCreate, SaveSecret, SaveSSH, SaveRead, DeleteRead,
                DeleteSecret, DeleteSSH, At
  <2> QED
    BY <1>1, <2>2, SaveStep, DeleteStep, TmpStep, EndStep
<1>2. ASSUME Consistent, ~overlapped', SaveStarts \/ DeleteStarts
      PROVE  Consistent'
  BY <1>2, StartKeeps DEF SaveStarts, DeleteStarts, SaveProfile, DeleteProfile
<1>3. ASSUME Consistent, Answers \/ Ends
      PROVE  Consistent'
  <2>1. UNCHANGED restOfProfiles
    BY <1>3 DEF Answers, Ends
  <2>2. \A k \in Jobs : \/ job'[k] = job[k]
                        \/ job'[k] = Idle /\ job[k].at \in {"idle", "done", "failed"}
    BY <1>3 DEF Answers, Ends, JobsOK
  <2>3. \A k \in Jobs : /\ Active(k)' => job'[k] = job[k] /\ Active(k)
                        /\ job'[k] = job[k] \/ (LooseIf(k) = {} /\ CutIf(k) = {})
    <3>1. ASSUME NEW k \in Jobs, job'[k] = Idle, job[k].at \in {"idle", "done", "failed"}
          PROVE  ~Active(k)' /\ LooseIf(k) = {} /\ CutIf(k) = {}
      <4>0. Idle.at = "idle"
        BY DEF Idle
      <4>1. job'[k].at = "idle"
        BY <3>1, <4>0
      <4> QED
        BY <3>1, <4>1 DEF Active, LooseIf, CutIf
    <3>2. \A k \in Jobs : job'[k] = job[k] => (Active(k)' <=> Active(k))
      BY DEF Active
    <3> QED
      BY <2>2, <3>1, <3>2
  <2>4. \A k \in Jobs : job'[k] = job[k] => LooseIf(k)' = LooseIf(k) /\ CutIf(k)' = CutIf(k)
    BY DEF LooseIf, CutIf, Active
  <2>5. Serial'
    BY <1>3, <2>3 DEF Consistent, Serial
  <2>6. \A k \in Jobs : JobInv(k)'
    <3>1. ASSUME NEW k \in Jobs, Active(k)'
          PROVE  JobInv(k)'
      <4>1. JobInv(k) /\ job'[k] = job[k]
        BY <1>3, <2>3, <3>1 DEF Consistent
      <4> QED
        BY <2>1, <4>1 DEF restOfProfiles, JobInv, TmpInv, SaveInv, DeleteInv, Active
    <3> QED
      BY <3>1 DEF JobInv
  <2>7. Listed'
    BY <1>3, <2>1, <2>3, <2>4 DEF Consistent, Listed, restOfProfiles
  <2>8. Left'
    BY <1>3, <2>1, <2>3, <2>4 DEF Consistent, Left, restOfProfiles
  <2>9. SavedInv'
    BY <1>3, <2>1 DEF Consistent, SavedInv, restOfProfiles
  <2> QED
    BY <2>5, <2>6, <2>7, <2>8, <2>9 DEF Consistent
<1>4. ASSUME Consistent, StopJobs
      PROVE  Consistent'
  <2>1. \A k \in Jobs : job'[k].at = "idle"
    BY <1>4 DEF StopJobs, Idle
  <2>2. Serial' /\ \A k \in Jobs : JobInv(k)'
    BY <2>1 DEF Serial, JobInv, Active
  <2>3. Listed' /\ Left' /\ SavedInv'
    <3>1. /\ ring' = ring /\ json' = json /\ saved' = saved
          /\ loose' = loose \union UNION {LooseIf(k) : k \in Jobs}
          /\ lost' = lost \union UNION {CutIf(k) : k \in Jobs}
      BY <1>4 DEF StopJobs
    <3> QED
      BY <1>4, <3>1, StopKeeps
  <2> QED
    BY <2>2, <2>3 DEF Consistent
<1>5. ASSUME Consistent, UNCHANGED profileVars
      PROVE  Consistent'
  BY <1>5 DEF profileVars, Consistent, Serial, Active, JobInv, TmpInv, SaveInv, DeleteInv,
              Listed, Left, SavedInv, LooseIf, CutIf
<1>6. overlapped => overlapped'
  <2>1. \A j \in Jobs : JobStep(j) => overlapped' = overlapped
    BY OthersStay
  <2> QED
    BY <2>1, ProfileSteps DEF SaveStarts, DeleteStarts, Answers, Ends, StopJobs, profileVars,
                              restOfProfiles, SaveProfile, DeleteProfile, Start
<1>7. CASE overlapped
  BY <1>6, <1>7 DEF StoreInv
<1>8. CASE Consistent /\ ~overlapped'
  BY <1>1, <1>2, <1>3, <1>4, <1>5, <1>8, ProfileSteps DEF StoreInv
<1> QED
  BY <1>7, <1>8 DEF StoreInv

(* What was saved before is consistent.                                    *)
LEMMA StoreInit == Init => StoreInv
<1> SUFFICES ASSUME Init PROVE Consistent
  BY DEF StoreInv
<1>1. PICK prior \in Prior :
          /\ json = IF DOMAIN prior = {} THEN File("absent")
                    ELSE Holding([n \in DOMAIN prior |-> Marshalled(prior[n])])
          /\ ring \in Rings(UNION {Entries(n, prior[n]) : n \in DOMAIN prior})
          /\ saved = [n \in Names |-> IF n \in DOMAIN prior THEN prior[n] ELSE NoOptions]
  BY DEF Init, ProfilesInit
<1> DEFINE p == json.profiles
<1>2. /\ DOMAIN p = DOMAIN prior /\ DOMAIN prior \subseteq Names
      /\ \A n \in DOMAIN prior : p[n] = Marshalled(prior[n])
  BY <1>1, EmptyMap, ProfilesAssumption DEF File, Holding
<1>3. \A n \in DOMAIN prior : p[n].user = prior[n].user /\ p[n].sshUser = prior[n].sshUser
  BY <1>2, MarshalledOptions, ProfilesAssumption
<1>4. \A n \in DOMAIN prior : /\ DBSecret(n, p[n]) = DBSecret(n, prior[n])
                              /\ Secrets(n, p[n]) = Secrets(n, prior[n])
  BY <1>3, SameSecrets
<1>5. \A k \in Jobs : job[k].at = "idle"
  <2>1. job = [k \in Jobs |-> Idle] /\ Idle.at = "idle"
    BY DEF Init, ProfilesInit, Idle
  <2> QED
    BY <2>1
<1>6. Serial /\ \A k \in Jobs : JobInv(k)
  BY <1>5 DEF Serial, JobInv, Active
<1>7. ASSUME NEW key \in Kept(ring)
      PROVE  \E n \in DOMAIN prior : key \in Secrets(n, prior[n])
  <2>1. PICK n \in DOMAIN prior, e \in ring : key = e.key /\ e \in Entries(n, prior[n])
    <3>1. PICK e \in ring : key = e.key
      BY DEF Kept
    <3>2. \E n \in DOMAIN prior : e \in Entries(n, prior[n])
      BY <1>1 DEF Rings
    <3> QED
      BY <3>1, <3>2
  <2>2. CASE e = [key |-> DBSecret(n, prior[n]), secret |-> prior[n].pass]
    BY <2>1, <2>2 DEF Secrets
  <2>3. CASE /\ e = [key |-> SSHSecret(n, prior[n]), secret |-> prior[n].sshPass]
             /\ prior[n].sshUser # ""
    BY <2>1, <2>3 DEF Secrets
  <2> QED
    BY <2>1, <2>2, <2>3 DEF Entries
<1>8. ASSUME NEW n \in DOMAIN prior
      PROVE  DBSecret(n, prior[n]) \in Kept(ring)
  <2> DEFINE e == [key |-> DBSecret(n, prior[n]), secret |-> prior[n].pass]
  <2>1. e \in Entries(n, prior[n])
    BY DEF Entries
  <2> DEFINE all == UNION {Entries(m, prior[m]) : m \in DOMAIN prior}
  <2>2. e \in all /\ e.key = DBSecret(n, prior[n])
    BY <2>1
  <2>3. Kept(ring) = Kept(all)
    BY <1>1 DEF Rings
  <2> HIDE DEF e, all
  <2> QED
    BY <2>2, <2>3 DEF Kept
<1>9. Listed
  BY <1>2, <1>4, <1>8 DEF Listed
<1>10. Left
  <2> SUFFICES ASSUME NEW key \in Kept(ring)
               PROVE  IsOf(key, p)
    BY DEF Left
  <2>1. PICK n \in DOMAIN prior : key \in Secrets(n, prior[n])
    BY <1>7
  <2> QED
    BY <1>2, <1>4, <2>1 DEF IsOf
<1>11. SavedInv
  BY <1>1, <1>2, <1>3 DEF SavedInv
<1> QED
  BY <1>6, <1>9, <1>10, <1>11 DEF Consistent

LEMMA StoreHolds == Spec => [](ShellInv /\ StoreInv)
<1>1. Init => ShellInv /\ StoreInv
  BY ShellInit, StoreInit
<1>2. ShellInv /\ StoreInv /\ [Next]_vars => (ShellInv /\ StoreInv)'
  BY ShellStep, StoreStep
<1> QED
  BY <1>1, <1>2, PTL DEF Spec

(* A profile that is listed has its password in the keyring (profiles.go), *)
(* whatever was saved, deleted, failed or stopped, unless a delete was cut *)
(* short after the keyring, two ran at once, or what was deleted is the    *)
(* profile whose SSH service and user are the name and the user of this.   *)
THEOREM ListedCanBeUsed == Spec => []ListedHasSecret
<1>1. StoreInv => ListedHasSecret
  <2>1. ASSUME NEW j \in Jobs, NEW key \in CutIf(j) PROVE CutIf(j) = {key}
    BY <2>1 DEF CutIf
  <2> QED
    BY <2>1 DEF StoreInv, Consistent, Listed, ListedHasSecret
<1> QED
  BY <1>1, StoreHolds, PTL

(* The keyring keeps no password of a profile that is gone (DeleteProfile, *)
(* profiles.go), but for those of saves cut short or saved over.           *)
THEOREM NoSecretStays == Spec => []NoSecretLeftBehind
<1>1. StoreInv => NoSecretLeftBehind
  <2>1. ASSUME NEW j \in Jobs, NEW key \in LooseIf(j)
        PROVE  Active(j) /\ key \in Secrets(job[j].name, job[j].opts)
    BY <2>1 DEF LooseIf
  <2> QED
    BY <2>1 DEF StoreInv, Consistent, Left, IsOf, NoSecretLeftBehind
<1> QED
  BY <1>1, StoreHolds, PTL
-----------------------------------------------------------------------------
(* The query history file.  The steps of a save but for those that fail.   *)
Saving(s) == Read(s) \/ Truncate(s) \/ EncodeTypes(s) \/ Encode(s)

LEMMA HistoryCases ==
    [HistoryNext]_historyVars <=> \/ \E s \in Saves : Saving(s) \/ SaveFails(s)
                    \/ Stop \/ AllEnded \/ UNCHANGED historyVars
BY DEF HistoryNext, Saving
-----------------------------------------------------------------------------
(* Steps and parts.                                                        *)
StepsOK ==
    /\ parts \subseteq {"types", "value"}
    /\ step \in [Saves -> Steps]

(* Whoever truncated the file is still to write what it lacks: a part that *)
(* is missing after the first truncation is one that a save has before it. *)
WillBeWritten ==
    NoFault =>
        /\ (\E s \in Saves : step[s] \in {"types", "value", "saved"}) =>
              \/ "types" \in parts
              \/ \E s \in Saves : step[s] = "types"
        /\ (\E s \in Saves : step[s] \in {"types", "value", "saved"}) =>
              \/ "value" \in parts
              \/ \E s \in Saves : step[s] \in {"types", "value"}

(* A save in finished has come to its end.                                 *)
FinishedSaved == finished # <<>> => \E s \in Saves : step[s] = "saved"

ReadableInv == StepsOK /\ WillBeWritten /\ FinishedSaved

LEMMA ReadableInit == HistoryInit => ReadableInv
BY DEF HistoryInit, ReadableInv, StepsOK, WillBeWritten, FinishedSaved, Steps

LEMMA ReadableStep ==
    ASSUME ReadableInv, [HistoryNext]_historyVars
    PROVE  ReadableInv'
<1> USE DEF ReadableInv, StepsOK, WillBeWritten, FinishedSaved, NoFault, Steps, Writing, Turn
<1>1. ASSUME NEW s \in Saves, Read(s)
      PROVE  ReadableInv'
  BY <1>1 DEF Read
<1>2. ASSUME NEW s \in Saves, Truncate(s)
      PROVE  ReadableInv'
  BY <1>2 DEF Truncate
<1>3. ASSUME NEW s \in Saves, EncodeTypes(s)
      PROVE  ReadableInv'
  BY <1>3 DEF EncodeTypes
<1>4. ASSUME NEW s \in Saves, Encode(s)
      PROVE  ReadableInv'
  BY <1>4 DEF Encode
<1>5. ASSUME NEW s \in Saves, SaveFails(s)
      PROVE  ReadableInv'
  <2>1. ~NoFault'
    BY <1>5 DEF SaveFails
  <2>2. StepsOK' /\ FinishedSaved'
    BY <1>5 DEF SaveFails, MayTear
  <2> QED
    BY <2>1, <2>2
<1>6. CASE Stop
  <2>1. ~NoFault'
    BY <1>6 DEF Stop
  <2>2. StepsOK' /\ FinishedSaved'
    BY <1>6 DEF Stop, MayTear
  <2> QED
    BY <2>1, <2>2
<1>7. CASE AllEnded \/ UNCHANGED historyVars
  BY <1>7 DEF AllEnded, historyVars
<1> QED
  BY <1>1, <1>2, <1>3, <1>4, <1>5, <1>6, <1>7, HistoryCases DEF Saving

(* However saves race, the last one to write leaves a file that can be     *)
(* decoded (hitstory.go:83-111).                                           *)
THEOREM AlwaysReadable == HistorySpec => []StaysReadable
<1>1. ReadableInv => StaysReadable
  BY DEF ReadableInv, StepsOK, WillBeWritten, FinishedSaved, StaysReadable, Quiet,
         NoFault, Writing, readable
<1> QED
  BY <1>1, ReadableInit, ReadableStep, PTL DEF HistorySpec
-----------------------------------------------------------------------------
(* One save at a time, which works on all that was saved before it; the    *)
(* file lacks it only from its truncation to its end.                      *)
OneAtATime ==
    NoFault /\ alone = Saves =>
        /\ \A s, t \in Saves : Writing(s) /\ Writing(t) => s = t
        /\ \A s \in Saves : Writing(s) => copy[s] = Append(finished, s)
        /\ (\A s \in Saves : step[s] \notin {"types", "value"}) => file = finished

SerialInv ==
    /\ ReadableInv
    /\ alone \subseteq Saves
    /\ DOMAIN copy = Saves
    /\ OneAtATime

LEMMA SerialStep ==
    ASSUME SerialInv, [HistoryNext]_historyVars
    PROVE  SerialInv'
<1>1. ReadableInv'
  BY ReadableStep DEF SerialInv
<1> USE DEF SerialInv, OneAtATime, ReadableInv, StepsOK, NoFault, Steps, Writing, Turn
<1>2. ASSUME NEW s \in Saves, Read(s)
      PROVE  SerialInv'
  <2>1. alone' \subseteq Saves /\ DOMAIN copy' = Saves
    BY <1>2 DEF Read
  <2>2. ASSUME NoFault', alone' = Saves
        PROVE  NoFault /\ alone = Saves /\ \A t \in Saves : ~Writing(t)
    BY <1>2, <2>2 DEF Read
  <2>3. ASSUME NoFault', alone' = Saves
        PROVE  ReadHistory = finished
    <3>1. Quiet /\ file = finished
      BY <2>2, <2>3 DEF Quiet
    <3>2. finished # <<>> => readable
      BY <2>2, <2>3 DEF WillBeWritten, FinishedSaved, readable
    <3> QED
      BY <3>1, <3>2 DEF ReadHistory
  <2>4. ASSUME NoFault', alone' = Saves
        PROVE  copy'[s] = Append(finished, s)
    BY <1>2, <2>3, <2>4 DEF Read, Appended
  <2>5. OneAtATime'
    BY <1>2, <2>2, <2>4 DEF Read
  <2> QED
    BY <1>1, <2>1, <2>5
<1>3. ASSUME NEW s \in Saves, Truncate(s)
      PROVE  SerialInv'
  BY <1>1, <1>3 DEF Truncate
<1>4. ASSUME NEW s \in Saves, EncodeTypes(s)
      PROVE  SerialInv'
  BY <1>1, <1>4 DEF EncodeTypes
<1>5. ASSUME NEW s \in Saves, Encode(s)
      PROVE  SerialInv'
  BY <1>1, <1>5 DEF Encode
<1>6. ASSUME NEW s \in Saves, SaveFails(s)
      PROVE  SerialInv'
  BY <1>1, <1>6 DEF SaveFails
<1>7. CASE Stop
  BY <1>1, <1>7 DEF Stop
<1>8. CASE AllEnded \/ UNCHANGED historyVars
  BY <1>1, <1>8 DEF AllEnded, historyVars
<1> QED
  BY <1>2, <1>3, <1>4, <1>5, <1>6, <1>7, <1>8, HistoryCases DEF Saving

(* Saves that never overlap, in sessions that let them finish, are all in  *)
(* the file, in order: "automatically saves every executed query"          *)
(* (README.md:624).                                                        *)
THEOREM SerialSavesKept == HistorySpec => []SerialKept
<1>1. HistoryInit => SerialInv
  BY ReadableInit DEF HistoryInit, SerialInv, OneAtATime, Writing
<1>2. SerialInv => SerialKept
  BY DEF SerialInv, OneAtATime, SerialKept, Quiet, Writing
<1> QED
  BY <1>1, <1>2, SerialStep, PTL DEF HistorySpec
-----------------------------------------------------------------------------
(* A history of saves that have been issued.                               *)
Issued(history) == \A i \in DOMAIN history : step[history[i]] # "idle"

LEMMA AppendNew ==
    ASSUME NEW history \in Histories, NEW s \in Saves,
           \A i \in DOMAIN history : history[i] # s
    PROVE  Append(history, s) \in Histories
<1> DEFINE longer == Append(history, s)
<1>1. history \in Seq(Saves) /\ IsInjective(history)
  BY DEF Histories
<1>2. /\ longer \in Seq(Saves)
      /\ DOMAIN longer = 1..(Len(history) + 1)
      /\ DOMAIN history = 1..Len(history)
      /\ \A i \in 1..Len(history) : longer[i] = history[i]
      /\ longer[Len(history) + 1] = s
  BY <1>1
<1>3. \A a, b \in DOMAIN longer : longer[a] = longer[b] => a = b
  BY <1>1, <1>2 DEF IsInjective
<1> QED
  BY <1>2, <1>3 DEF Histories, IsInjective

HistoryTypeInv ==
    /\ HistoryTypeOK
    /\ Issued(file)
    /\ \A s \in Saves : Issued(copy[s])
    /\ \A i \in DOMAIN finished : step[finished[i]] = "saved"
    /\ DOMAIN copy = Saves

LEMMA Members ==
    ASSUME NEW history \in Histories, NEW i \in DOMAIN history
    PROVE  history[i] \in Saves
BY DEF Histories

LEMMA EmptyHistory == <<>> \in Histories
BY DEF Histories, IsInjective

(* No save is ever idle again.                                             *)
LEMMA StillIssued ==
    ASSUME NEW history \in Histories, Issued(history),
           \A s \in Saves : step[s] # "idle" => step'[s] # "idle"
    PROVE  \A i \in DOMAIN history : step'[history[i]] # "idle"
BY Members DEF Issued

LEMMA HistoryTypeStep ==
    ASSUME HistoryTypeInv, [HistoryNext]_historyVars
    PROVE  HistoryTypeInv'
<1> USE DEF HistoryTypeInv, HistoryTypeOK, Steps, Writing, Turn
<1>1. ASSUME NEW s \in Saves, Read(s)
      PROVE  HistoryTypeInv'
  <2> DEFINE history == ReadHistory
  <2>1. history \in Histories /\ Issued(history)
    BY EmptyHistory DEF ReadHistory, Issued
  <2>2. \A i \in DOMAIN history : history[i] # s
    BY <1>1, <2>1 DEF Read, Issued
  <2>3. Append(history, s) \in Histories
    BY <2>1, <2>2, AppendNew
  <2>4. copy' = [copy EXCEPT ![s] = Append(history, s)]
    BY <1>1 DEF Read, Appended
  <2>5. \A t \in Saves : step[t] # "idle" => step'[t] # "idle"
    BY <1>1 DEF Read
  <2>6. \A i \in DOMAIN Append(history, s) : step'[Append(history, s)[i]] # "idle"
    <3>1. step'[s] # "idle"
      BY <1>1 DEF Read
    <3>2. \A i \in DOMAIN history : step'[history[i]] # "idle"
      BY <2>1, <2>5, StillIssued
    <3>3. history \in Seq(Saves)
      BY <2>1 DEF Histories
    <3>4. \A i \in DOMAIN Append(history, s) :
              \/ Append(history, s)[i] = s
              \/ i \in DOMAIN history /\ Append(history, s)[i] = history[i]
      BY <3>3
    <3> QED
      BY <3>1, <3>2, <3>4
  <2>7. Issued(file)' /\ \A t \in Saves : Issued(copy[t])'
    <3>1. Issued(file)'
      BY <1>1, <2>5, StillIssued DEF Read, Issued
    <3>2. ASSUME NEW t \in Saves
          PROVE  Issued(copy[t])'
      <4>1. CASE t = s
        BY <2>4, <2>6, <4>1 DEF Issued
      <4>2. CASE t # s
        <5>1. copy'[t] = copy[t]
          BY <2>4, <4>2
        <5>2. \A i \in DOMAIN copy[t] : step'[copy[t][i]] # "idle"
          BY <2>5, StillIssued
        <5> QED
          BY <5>1, <5>2 DEF Issued
      <4> QED
        BY <4>1, <4>2
    <3> QED
      BY <3>1, <3>2
  <2>8. \A i \in DOMAIN finished' : step'[finished'[i]] = "saved"
    BY <1>1, Members DEF Read
  <2>9. HistoryTypeOK'
    BY <1>1, <2>3, <2>4 DEF Read
  <2> QED
    BY <2>4, <2>7, <2>8, <2>9
<1>2. ASSUME NEW s \in Saves, Encode(s)
      PROVE  HistoryTypeInv'
  <2>1. \A i \in DOMAIN finished : finished[i] # s
    BY <1>2 DEF Encode
  <2>2. finished' = Append(finished, s) /\ finished' \in Histories
    BY <1>2, <2>1, AppendNew DEF Encode
  <2>3. \A t \in Saves : step[t] # "idle" => step'[t] # "idle"
    BY <1>2 DEF Encode
  <2>4. Issued(file)' /\ \A t \in Saves : Issued(copy[t])'
    BY <1>2, <2>3, StillIssued DEF Encode, Issued
  <2>5. \A i \in DOMAIN finished' : step'[finished'[i]] = "saved"
    <3>1. finished \in Seq(Saves)
      BY DEF Histories
    <3>2. \A i \in DOMAIN finished' :
              finished'[i] = s \/ (i \in DOMAIN finished /\ finished'[i] = finished[i])
      BY <2>2, <3>1
    <3>3. step' = [step EXCEPT ![s] = "saved"]
      BY <1>2 DEF Encode
    <3> QED
      BY <3>2, <3>3, Members
  <2>6. HistoryTypeOK'
    BY <1>2, <2>2 DEF Encode
  <2> QED
    BY <1>2, <2>4, <2>5, <2>6 DEF Encode
<1>3. ASSUME NEW s \in Saves, Truncate(s) \/ EncodeTypes(s) \/ SaveFails(s)
      PROVE  HistoryTypeInv'
  <2>1. /\ UNCHANGED <<copy, alone, finished>>
        /\ file' = file \/ file' = <<>>
        /\ parts' \subseteq {"types", "value"}
    BY <1>3 DEF Truncate, EncodeTypes, SaveFails, MayTear
  <2>2. /\ step' \in [Saves -> Steps]
        /\ \A t \in Saves : step[t] # "idle" => step'[t] # "idle"
        /\ \A t \in Saves : step[t] = "saved" => step'[t] = "saved"
    BY <1>3 DEF Truncate, EncodeTypes, SaveFails
  <2>3. Issued(file)' /\ \A t \in Saves : Issued(copy[t])'
    BY <2>1, <2>2, StillIssued DEF Issued
  <2>4. \A i \in DOMAIN finished' : step'[finished'[i]] = "saved"
    BY <2>1, <2>2, Members
  <2> QED
    BY <2>1, <2>2, <2>3, <2>4, EmptyHistory
<1>4. CASE Stop
  <2>1. /\ UNCHANGED <<copy, alone, finished>>
        /\ file' = file \/ file' = <<>>
        /\ parts' \subseteq {"types", "value"}
    BY <1>4 DEF Stop, MayTear
  <2>2. /\ step' \in [Saves -> Steps]
        /\ \A t \in Saves : step[t] # "idle" => step'[t] # "idle"
        /\ \A t \in Saves : step[t] = "saved" => step'[t] = "saved"
    BY <1>4 DEF Stop
  <2>3. Issued(file)' /\ \A t \in Saves : Issued(copy[t])'
    BY <2>1, <2>2, StillIssued DEF Issued
  <2>4. \A i \in DOMAIN finished' : step'[finished'[i]] = "saved"
    BY <2>1, <2>2, Members
  <2> QED
    BY <2>1, <2>2, <2>3, <2>4, EmptyHistory
<1>5. CASE AllEnded \/ UNCHANGED historyVars
  <2>1. UNCHANGED <<parts, file, step, copy, alone, finished>>
    BY <1>5 DEF AllEnded, historyVars
  <2>2. Issued(file)' /\ \A t \in Saves : Issued(copy[t])'
    BY <2>1 DEF Issued
  <2> QED
    BY <2>1, <2>2
<1> QED
  BY <1>1, <1>2, <1>3, <1>4, <1>5, HistoryCases DEF Saving

(* Types; no save is twice in the file, in a copy of it, or among those    *)
(* that have ended.                                                        *)
THEOREM HistoryTypeCorrect == HistorySpec => []HistoryTypeOK
<1>1. HistoryInit => HistoryTypeInv
  BY EmptyHistory DEF HistoryInit, HistoryTypeInv, HistoryTypeOK, Steps, Issued
<1>2. HistoryTypeInv => HistoryTypeOK
  BY DEF HistoryTypeInv
<1> QED
  BY <1>1, <1>2, HistoryTypeStep, PTL DEF HistorySpec
-----------------------------------------------------------------------------
(* A copy about to be written is a history in order and the new save.      *)
OrderInv ==
    /\ HistoryTypeInv
    /\ InOrder(file)
    /\ \A s \in Saves : Writing(s) =>
          \E h \in Histories : copy[s] = Append(h, s) /\ InOrder(h)

LEMMA NothingOrdered == InOrder(<<>>)
BY DEF InOrder

(* What is in order stays in order when another save ends.                 *)
LEMMA StaysInOrder ==
    ASSUME finished \in Seq(Saves), NEW s \in Saves,
           finished' = finished \/ finished' = Append(finished, s),
           NEW h, InOrder(h)
    PROVE  InOrder(h)'
<1>1. \A i \in DOMAIN finished : i \in DOMAIN finished' /\ finished'[i] = finished[i]
  OBVIOUS
<1>2. ASSUME NEW x, Contains(finished, x)
      PROVE  Contains(finished, x)'
  <2>1. DOMAIN finished = 1..Len(finished) /\ DOMAIN finished' = 1..Len(finished')
    OBVIOUS
  <2> QED
    BY <1>1, <1>2, <2>1 DEF Contains
<1>3. ASSUME NEW x, NEW y, EndedBefore(x, y)
      PROVE  EndedBefore(x, y)'
  BY <1>1, <1>3 DEF EndedBefore
<1> QED
  BY <1>2, <1>3 DEF InOrder

(* A save that ends is the newest of all.                                  *)
LEMMA NewestLast ==
    ASSUME finished \in Seq(Saves), NEW s \in Saves, finished' = Append(finished, s),
           NEW h \in Seq(Saves), InOrder(h)
    PROVE  InOrder(Append(h, s))'
<1> DEFINE g == Append(h, s)
           last == Len(finished) + 1
<1>1. /\ Len(h) \in Nat /\ DOMAIN h = 1..Len(h) /\ DOMAIN g = 1..(Len(h) + 1)
      /\ \A i \in 1..Len(h) : g[i] = h[i]
      /\ g[Len(h) + 1] = s
  OBVIOUS
<1>2. /\ Len(finished) \in Nat /\ DOMAIN finished = 1..Len(finished)
      /\ DOMAIN finished' = 1..last /\ Len(finished') = last
      /\ \A i \in 1..Len(finished) : finished'[i] = finished[i]
      /\ finished'[last] = s
  OBVIOUS
<1>3. InOrder(h)'
  BY StaysInOrder
<1>4. ASSUME NEW i \in DOMAIN g
      PROVE  Contains(finished', g[i])
  <2>1. CASE i \in DOMAIN h
    BY <1>1, <1>3, <2>1 DEF InOrder
  <2>2. CASE i = Len(h) + 1
    BY <1>1, <1>2, <2>2 DEF Contains
  <2> QED
    BY <1>1, <2>1, <2>2
<1>5. ASSUME NEW i \in DOMAIN g, NEW j \in DOMAIN g, i < j
      PROVE  EndedBefore(g[i], g[j])'
  <2>1. i \in 1..Len(h)
    BY <1>1, <1>5
  <2>2. CASE j \in DOMAIN h
    BY <1>1, <1>3, <1>5, <2>1, <2>2 DEF InOrder
  <2>3. CASE j = Len(h) + 1
    <3>1. PICK a \in 1..Len(finished) : finished[a] = h[i]
      BY <1>1, <2>1 DEF InOrder, Contains
    <3>2. a < last /\ a \in DOMAIN finished' /\ last \in DOMAIN finished'
      BY <1>2, <3>1
    <3>3. finished'[a] = g[i] /\ finished'[last] = g[j]
      BY <1>1, <1>2, <2>1, <2>3, <3>1
    <3> HIDE DEF g, last
    <3> QED
      BY <3>2, <3>3 DEF EndedBefore
  <2> QED
    BY <1>1, <2>2, <2>3
<1> HIDE DEF g
<1>6. InOrder(g)'
  BY <1>4, <1>5 DEF InOrder
<1> QED
  BY <1>6 DEF g

LEMMA OrderStep ==
    ASSUME OrderInv, [HistoryNext]_historyVars
    PROVE  OrderInv'
<1>0. HistoryTypeInv'
  BY HistoryTypeStep DEF OrderInv
<1>1. finished \in Seq(Saves) /\ file \in Histories
  BY DEF OrderInv, HistoryTypeInv, HistoryTypeOK, Histories
<1>2. ASSUME NEW s \in Saves, Read(s)
      PROVE  OrderInv'
  <2>1. /\ ReadHistory \in Histories /\ InOrder(ReadHistory)
        /\ copy' = [copy EXCEPT ![s] = Append(ReadHistory, s)]
        /\ finished' = finished /\ file' = file
    BY <1>1, <1>2, EmptyHistory, NothingOrdered DEF Read, Appended, ReadHistory, OrderInv
  <2>2. \A t \in Saves \ {s} : copy'[t] = copy[t] /\ (Writing(t)' => Writing(t))
    BY <1>2 DEF Read, OrderInv, HistoryTypeInv, HistoryTypeOK, Writing
  <2>3. copy'[s] = Append(ReadHistory, s)
    BY <2>1 DEF OrderInv, HistoryTypeInv
  <2>4. \A h : InOrder(h)' <=> InOrder(h)
    BY <2>1 DEF InOrder, EndedBefore
  <2>5. ASSUME NEW t \in Saves, Writing(t)'
        PROVE  \E h \in Histories : copy'[t] = Append(h, t) /\ InOrder(h)
    <3>1. CASE t = s
      BY <2>1, <2>3, <3>1
    <3>2. CASE t # s
      BY <2>2, <2>5, <3>2 DEF OrderInv
    <3> QED
      BY <3>1, <3>2
  <2> QED
    BY <1>0, <2>1, <2>4, <2>5 DEF OrderInv
<1>3. ASSUME NEW s \in Saves, Encode(s)
      PROVE  OrderInv'
  <2>1. /\ finished' = Append(finished, s) /\ file' = copy[s] /\ copy' = copy
        /\ Writing(s)
    BY <1>3 DEF Encode, Turn, Writing
  <2>2. PICK h \in Histories : copy[s] = Append(h, s) /\ InOrder(h)
    BY <2>1 DEF OrderInv
  <2>3. InOrder(file)'
    <3>1. InOrder(Append(h, s))'
      BY <1>1, <2>1, <2>2, NewestLast DEF Histories
    <3> QED
      BY <2>1, <2>2, <3>1
  <2>4. ASSUME NEW t \in Saves, Writing(t)'
        PROVE  \E g \in Histories : copy'[t] = Append(g, t) /\ InOrder(g)'
    <3>1. Writing(t)
      BY <1>3, <2>4 DEF Encode, Turn, Writing, OrderInv, HistoryTypeInv, HistoryTypeOK
    <3>2. PICK g \in Histories : copy[t] = Append(g, t) /\ InOrder(g)
      BY <3>1 DEF OrderInv
    <3>3. InOrder(g)'
      BY <1>1, <2>1, <3>2, StaysInOrder
    <3> QED
      BY <2>1, <3>2, <3>3
  <2> QED
    BY <1>0, <2>3, <2>4 DEF OrderInv
<1>4. ASSUME /\ finished' = finished /\ copy' = copy
             /\ file' = file \/ file' = <<>>
             /\ \A t \in Saves : Writing(t)' => Writing(t)
      PROVE  OrderInv'
  <2>1. \A h : InOrder(h)' <=> InOrder(h)
    BY <1>4 DEF InOrder, EndedBefore
  <2>2. InOrder(file')
    BY <1>4, NothingOrdered DEF OrderInv
  <2>3. InOrder(file)'
    BY <1>4, <2>2 DEF InOrder, EndedBefore
  <2> QED
    BY <1>0, <1>4, <2>1, <2>3 DEF OrderInv
<1>5. ASSUME NEW s \in Saves, Truncate(s) \/ EncodeTypes(s) \/ SaveFails(s)
      PROVE  OrderInv'
  <2>1. /\ \E to \in {"types", "value", "failed"} : step' = [step EXCEPT ![s] = to]
        /\ Writing(s)
    BY <1>5 DEF Truncate, EncodeTypes, SaveFails, Turn, Writing
  <2>2. \A t \in Saves : Writing(t)' => Writing(t)
    BY <2>1 DEF Writing, OrderInv, HistoryTypeInv, HistoryTypeOK
  <2> QED
    BY <1>4, <1>5, <2>2 DEF Truncate, EncodeTypes, SaveFails, MayTear
<1>6. CASE Stop
  <2>1. \A t \in Saves : Writing(t)' => Writing(t)
    BY <1>6 DEF Stop, Writing
  <2> QED
    BY <1>4, <1>6, <2>1 DEF Stop, MayTear
<1>7. CASE AllEnded \/ UNCHANGED historyVars
  BY <1>4, <1>7 DEF AllEnded, historyVars, Writing
<1> QED
  BY <1>2, <1>3, <1>5, <1>6, <1>7, HistoryCases DEF Saving

(* The file keeps its entries in the order their saves ended, without      *)
(* duplicates, whatever is lost to races, errors and crashes               *)
(* (hitstory.go:30-60; the view reverses it, README.md:624).               *)
THEOREM EntriesInOrder == HistorySpec => []OldestFirst
<1>1. HistoryInit => OrderInv
  BY EmptyHistory, NothingOrdered
     DEF HistoryInit, HistoryTypeInv, HistoryTypeOK, Steps, Issued, OrderInv, Writing
<1>2. OrderInv => OldestFirst
  BY DEF OrderInv, HistoryTypeInv, HistoryTypeOK, Histories, OldestFirst
<1> QED
  BY <1>1, <1>2, OrderStep, PTL DEF HistorySpec
=============================================================================
