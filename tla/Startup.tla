------------------------------ MODULE Startup -------------------------------
(***************************************************************************)
(* Every way into a session (cmd/root.go, cmd/connect.go, pkg/app New):    *)
(* dblab with flags, dblab with none, which shows the form, either of them *)
(* with --save-as, and dblab connect.  One dblab runs at a time; what is   *)
(* left between two of them is the file of profiles and the keyring.       *)
(***************************************************************************)
EXTENDS Form, ConnectMenu

CONSTANTS
    Flags,          \* the options the flags may give; NoOptions for none
    MaxLaunches     \* bound: dblab commands started

ASSUME StartupAssumption == \A o \in Flags : WellFormed(o)

VARIABLES
    screen,     \* "shell", "form", "saving", "menu", "app", "panic"
    opts,       \* the options of this launch
    saveAs,     \* --save-as: a profile name or ""
    picked,     \* the profile the menu ended with, or ""
    conn,       \* what the driver was opened with
    dialers,    \* the tunnel dialers registered, in order
    launches

vars == <<formVars, profileVars, menuVars,
          screen, opts, saveAs, picked, conn, dialers, launches>>

shellVars == <<screen, opts, saveAs, picked, conn, dialers, launches>>

Init ==
    /\ FormInit /\ ProfilesInit /\ MenuInit
    /\ screen = "shell" /\ opts = NoOptions /\ saveAs = "" /\ picked = ""
    /\ conn = Refused /\ dialers = <<>> /\ launches = 0

(* The process ends, well or with an error.                                *)
ToShell ==
    /\ screen' = "shell" /\ opts' = NoOptions /\ saveAs' = "" /\ picked' = ""
    /\ conn' = Refused /\ dialers' = <<>>

FormAfresh ==
    /\ steps' = 0 /\ cursor' = 0 /\ quit' = FALSE
    /\ driver' = "postgres" /\ sslMode' = "disable"
    /\ focused' = {"host", "filePath", "sslCert", "trustServerCertificate"}
    /\ text' = [i \in Inputs |-> ""]
-----------------------------------------------------------------------------
(* ValidateOpts and app.New: the tunnel, the connection string, and the    *)
(* first queries, which the server may refuse.                             *)
Connect(o, name, from) ==
    \/ ToShell
    \/ /\ ValidateOpts(o)
       /\ opts' = o /\ saveAs' = name /\ picked' = from
       /\ dialers' = SSHTunnel(o)
       /\ \/ Panics(SSHTunnel(o)) /\ conn' = Refused /\ screen' = "panic"
          \/ /\ ~Panics(SSHTunnel(o))
             /\ conn' = BuildConnectionFromOpts(o) /\ conn'.ok
             /\ screen' = IF name = "" THEN "app" ELSE "saving"

LaunchFlags ==
    /\ screen = "shell" /\ launches < MaxLaunches
    /\ \E o \in Flags \ {NoOptions}, name \in Names \union {""} :
          Connect(o, name, "")
    /\ launches' = launches + 1
    /\ UNCHANGED <<formVars, profileVars, menuVars>>

(* IsEmpty: without flags the form asks (--save-as is none of those it     *)
(* looks at, and is chosen when it is first looked at).                    *)
LaunchForm ==
    /\ screen = "shell" /\ launches < MaxLaunches
    /\ NoOptions \in Flags
    /\ screen' = "form" /\ launches' = launches + 1
    /\ FormAfresh
    /\ UNCHANGED <<profileVars, menuVars, opts, saveAs, picked, conn, dialers>>

FormKey ==
    /\ screen = "form" /\ FormNext
    /\ UNCHANGED <<profileVars, menuVars, shellVars>>

FormRun ==
    /\ screen = "form" /\ quit
    /\ \/ ~LimitOK /\ ToShell
       \/ LimitOK /\ \E name \in Names \union {""} :
                        Connect(FormOptions, name, "")
    /\ FormAfresh
    /\ UNCHANGED <<profileVars, menuVars, launches>>
-----------------------------------------------------------------------------
(* SaveProfile runs before the session starts; its error ends dblab.       *)
SaveBegins ==
    /\ screen = "saving"
    /\ \A j \in Jobs : job[j].at = "idle"
    /\ \E j \in Jobs : SaveProfile(j, saveAs, opts)
    /\ UNCHANGED <<formVars, menuVars, shellVars>>

SaveEnds ==
    /\ screen = "saving"
    /\ \E j \in Jobs :
          \/ job[j].at = "done" /\ screen' = "app"
             /\ UNCHANGED <<opts, saveAs, picked, conn, dialers>>
          \/ job[j].at = "failed" /\ ToShell
    /\ job' = [j \in Jobs |-> Idle]
    /\ UNCHANGED <<json, tmp, ring, loose, lost, overlapped, given, saved>>
    /\ UNCHANGED <<formVars, menuVars, launches>>

JobRuns ==
    /\ screen \in {"saving", "menu", "app", "panic"}
    /\ \E j \in Jobs : JobStep(j)
    /\ UNCHANGED <<formVars, menuVars, shellVars>>
-----------------------------------------------------------------------------
LaunchMenu ==
    /\ screen = "shell" /\ launches < MaxLaunches
    /\ screen' = "menu" /\ launches' = launches + 1
    /\ OpenMenu
    /\ UNCHANGED <<formVars, profileVars, opts, saveAs, picked, conn, dialers>>

MenuRuns ==
    /\ screen = "menu"
    /\ \/ \E f \in Fetches : FetchReads(f) \/ ProfilesLoaded(f)
       \/ \E j \in Jobs : ItemDeleted(j) \/ CtrlD(j)
       \/ Cursor
    /\ UNCHANGED <<formVars, shellVars>>

(* enter: without the password dblab connect goes on with empty options,   *)
(* which ValidateOpts refuses.  A delete under way goes on beside the      *)
(* session, and ends with the process.                                     *)
MenuEnter ==
    /\ screen = "menu" /\ state = "form"
    /\ \E name \in selected :
          \/ Recovered(name) = {} /\ ToShell
          \/ \E o \in Recovered(name) : Connect(o, "", name)
    /\ CloseMenu
    /\ IF screen' = "shell" THEN StopJobs ELSE UNCHANGED profileVars
    /\ UNCHANGED <<formVars, launches>>

(* ctrl+c, or an error of a command: no profile is selected.               *)
MenuQuit ==
    /\ screen = "menu"
    /\ ToShell /\ CloseMenu /\ StopJobs
    /\ UNCHANGED <<formVars, launches>>

MenuFails ==
    /\ screen = "menu" /\ ErrMsg
    /\ ToShell /\ CloseMenu /\ StopJobs
    /\ UNCHANGED <<formVars, launches>>

(* The session ends, the process is killed, or it panicked.                *)
Exit ==
    /\ screen \in {"app", "saving", "panic"}
    /\ ToShell /\ StopJobs
    /\ UNCHANGED <<formVars, menuVars, launches>>

Next ==
    \/ LaunchFlags \/ LaunchForm \/ FormKey \/ FormRun
    \/ SaveBegins \/ SaveEnds \/ JobRuns
    \/ LaunchMenu \/ MenuRuns \/ MenuEnter \/ MenuQuit \/ MenuFails
    \/ Exit

Spec == Init /\ [][Next]_vars
-----------------------------------------------------------------------------
(* Every index the form takes is one of the list it takes it from (an      *)
(* index past the end panics), the jobs and the screens go together.       *)
TypeOK ==
    /\ steps \in 0..4 /\ driver \in Range(FormDrivers)
    /\ steps \in {0, 2} /\ ~quit => cursor \in 0..(Len(choices) - 1)
    /\ steps \in {1, 3} => cursor \in -1..(Len(shown) - 1) \union {0}
    /\ steps \in {1, 3} /\ cursor = -1 => shown = <<>>
    /\ screen \in {"shell", "form", "saving", "app", "menu", "panic"}
    /\ json.kind \in {"absent", "empty", "garbled", "map"}
    /\ tmp.kind \in {"absent", "empty", "garbled", "map"}
    /\ DOMAIN json.profiles \subseteq Names
    /\ state # "off" <=> screen = "menu"
    /\ (\E j \in Jobs : job[j].at # "idle") => screen \notin {"shell", "form"}

(* What is typed goes to the input under the cursor and to no other, at    *)
(* every step and for every driver.  Oracle's SSL inputs are the exception *)
(* of the code: until the first move none of them has the focus.           *)
TypingGoesToCursor ==
    screen = "form" /\ ~quit /\ shown # <<>> =>
        LET lit == focused \intersect Range(shown)
        IN  \/ lit = {shown[cursor + 1]}
            \/ lit = {} /\ steps = 3 /\ driver = "oracle" /\ cursor = 0

(* A profile that is listed can be used and deleted: its password is in    *)
(* the keyring, whatever was saved, deleted, failed or stopped before,     *)
(* unless a delete of it was cut short after the keyring, two deletes ran  *)
(* at once, or a profile was deleted whose name with "-ssh" behind it is   *)
(* this one's, and whose SSH user is the user of this one.                 *)
ListedHasSecret ==
    overlapped \/
    \A n \in DOMAIN json.profiles :
        LET key == DBSecret(n, json.profiles[n])
        IN  \/ key \in Kept(ring) \union lost
            \/ \E j \in Jobs : CutIf(j) = {key}

(* The keyring keeps no password but those of listed profiles and of jobs  *)
(* under way, except those of a save that did not get to the file and of a *)
(* profile saved over with another user.                                   *)
NoSecretLeftBehind ==
    overlapped \/
    \A key \in Kept(ring) \ loose :
        \/ \E n \in DOMAIN json.profiles :
               key \in Secrets(n, json.profiles[n])
        \/ \E j \in Jobs :
               Active(j) /\ key \in Secrets(job[j].name, job[j].opts)

(* dblab connect logs in with a password that was given for this profile   *)
(* and this user, never with the one of another user, or of another        *)
(* profile, but for the one whose name with "-ssh" behind it is this name: *)
(* what was given as its SSH password for this user may be what is sent.   *)
PasswordBelongs ==
    screen = "app" /\ picked # "" =>
        \E g \in given :
            \/ /\ g.name = picked
               /\ g.opts.user = opts.user /\ g.opts.pass = opts.pass
            \/ /\ SSHService[g.name] = picked
               /\ g.opts.sshUser = opts.user /\ g.opts.sshPass = opts.pass

(* A connection that goes through the SSH tunnel finds its dialer          *)
(* registered, as long as the text of the URL names one database only.     *)
TunnelReady ==
    screen \in {"app", "saving"}
        /\ ("mysql" \in opts.url.names => opts.url.names = {"mysql"}) =>
        /\ conn.driver = "postgres+ssh" => "postgres+ssh" \in Range(dialers)
        /\ conn.driver = "mysql" /\ conn.net = "mysql+tcp"
                /\ opts.sshHost # "" => "mysql+tcp" \in Range(dialers)
=============================================================================
