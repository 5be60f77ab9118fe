------------------------------ MODULE Profiles ------------------------------
(***************************************************************************)
(* The saved profiles (internal/profiles): the file dblab.json, its .tmp   *)
(* beside it and the keyring of the system, under SaveProfile of           *)
(* dblab --save-as and DeleteProfile of the menu of dblab connect.  Each   *)
(* is a job of several system calls; a call may fail, the program may stop *)
(* between two of them, and nothing keeps two jobs apart.                  *)
(*                                                                         *)
(* A job, by the step it takes next:                                       *)
(*   "create", "secret", "ssh", "read", "open", "write", "rename" of a     *)
(*   save; "read", "secret", "ssh", "open", "write", "rename" of a delete; *)
(*   "done" or "failed": it answers the menu; "idle".                      *)
(* os.WriteFile opens the .tmp truncated, and writes to whatever the file  *)
(* it opened has become: fd is "tmp", "json" once somebody renamed it, and *)
(* "lost" when it was itself renamed over.                                 *)
(***************************************************************************)
EXTENDS Connection

CONSTANTS
    Names,      \* profile names
    Jobs,       \* the SaveProfile and DeleteProfile calls under way
    Prior,      \* the profiles dblab may find when it starts, as saved
    SSHService  \* SSHService[n]: the text of n with "-ssh" behind it

(* Nothing keeps n + "-ssh" from being the name of another profile.        *)
ASSUME ServicesAssumption ==
    \A n \in Names :
        /\ SSHService[n] # n
        /\ \A m \in Names : SSHService[m] = SSHService[n] => m = n

(* What was saved before: finitely many profiles, each with its options.   *)
ASSUME ProfilesAssumption ==
    \A prior \in Prior :
        /\ DOMAIN prior \subseteq Names /\ IsFiniteSet(DOMAIN prior)
        /\ \A n \in DOMAIN prior : WellFormed(prior[n])

VARIABLES
    json,       \* dblab.json: a file
    tmp,        \* dblab.json.tmp: a file
    ring,       \* the keyring: records of service, user and secret
    job,        \* job[j]: see above
    loose,      \* history: secrets of saves cut short or saved over
    lost,       \* history: secrets of listed profiles that a delete removed:
                \*   it was cut short, or another profile's SSH service
    overlapped, \* history: two jobs were under way at once
    given,      \* history: the names and options of every save
    saved       \* history: saved[n]: the options n was last saved with

profileVars ==
    <<json, tmp, ring, job, loose, lost, overlapped, given, saved>>

(* A file: absent, empty, the JSON of a map of profiles, or not JSON.      *)
NoProfiles == [n \in {} |-> NoOptions]
File(kind) == [kind |-> kind, profiles |-> NoProfiles]
Holding(profiles) == [kind |-> "map", profiles |-> profiles]

(* json:"-" keeps these three out of the file.                             *)
Marshalled(o) == [o EXCEPT !.pass = "", !.sshPass = "", !.sslPassword = ""]

Idle == [at |-> "idle", op |-> "", name |-> "", opts |-> NoOptions,
         copy |-> NoProfiles, fd |-> "", index |-> 0]

Active(j) == job[j].at \notin {"idle", "done", "failed"}

(* The keyring knows a service, a text, and a user: the password of a      *)
(* profile is filed under its name, and the one of its tunnel under a text *)
(* that may be the name of another profile.                                *)
DBSecret(n, o) == [service |-> n, user |-> o.user]
SSHSecret(n, o) == [service |-> SSHService[n], user |-> o.sshUser]
Secrets(n, o) ==
    {DBSecret(n, o)} \union (IF o.sshUser # "" THEN {SSHSecret(n, o)} ELSE {})
Kept(r) == {e.key : e \in r}
Claimed == {DBSecret(n, json.profiles[n]) : n \in DOMAIN json.profiles}

KeyringSet(key, secret) ==
    ring' = {e \in ring : e.key # key} \union {[key |-> key, secret |-> secret]}
KeyringDelete(key) == ring' = {e \in ring : e.key # key}
KeyringGet(key) ==
    IF key \in Kept(ring) THEN {e.secret : e \in {e \in ring : e.key = key}}
    ELSE {}

(* The secrets a save leaves in the keyring.                               *)
Entries(n, o) ==
    {[key |-> DBSecret(n, o), secret |-> o.pass]} \union
    (IF o.sshPass # "" /\ o.sshUser # ""
     THEN {[key |-> SSHSecret(n, o), secret |-> o.sshPass]} ELSE {})

(* Of several entries for one service and user the last one is left.       *)
Rings(all) ==
    {r \in SUBSET all : Kept(r) = Kept(all)
        /\ \A e, f \in r : e.key = f.key => e = f}

ProfilesInit ==
    \E prior \in Prior :
        /\ json = IF DOMAIN prior = {} THEN File("absent")
                  ELSE Holding([n \in DOMAIN prior |-> Marshalled(prior[n])])
        /\ ring \in Rings(UNION {Entries(n, prior[n]) : n \in DOMAIN prior})
        /\ saved = [n \in Names |-> IF n \in DOMAIN prior THEN prior[n]
                                    ELSE NoOptions]
        /\ given = {[name |-> n, opts |-> prior[n]] : n \in DOMAIN prior}
        /\ tmp = File("absent")
        /\ job = [j \in Jobs |-> Idle]
        /\ loose = {} /\ lost = {} /\ overlapped = FALSE
-----------------------------------------------------------------------------
(* ReadProfiles: the profiles, or an error.  A file that is not JSON is no *)
(* error, and has no profiles.                                             *)
Readable == json.kind \in {"map", "garbled"}
ReadProfiles == json.profiles

Start(j, op, name, opts, index) ==
    /\ job[j].at = "idle"
    /\ job' = [job EXCEPT ![j] =
          [Idle EXCEPT !.op = op, !.name = name, !.opts = opts, !.index = index,
                       !.at = IF op = "save" THEN "create" ELSE "read"]]
    /\ overlapped' = (overlapped \/ \E k \in Jobs \ {j} : Active(k))
    /\ UNCHANGED <<json, tmp, ring, loose, lost, saved>>

SaveProfile(j, name, opts) ==
    /\ Start(j, "save", name, opts, 0)
    /\ given' = given \union {[name |-> name, opts |-> opts]}

DeleteProfile(j, name, index) ==
    /\ Start(j, "delete", name, NoOptions, index)
    /\ given' = given

At(j, op, step) == job[j].op = op /\ job[j].at = step
Goto(j, step) == job' = [job EXCEPT ![j].at = step]

(* O_CREATE and O_EXCL: an existing file is left as it is.                 *)
SaveCreate(j) ==
    /\ At(j, "save", "create")
    /\ json' = IF json.kind = "absent" THEN File("empty") ELSE json
    /\ Goto(j, "secret")
    /\ UNCHANGED <<tmp, ring, loose, lost, overlapped, given, saved>>

(* Mutant of SaveSecret: filed under the name and no user.                 *)
SaveSecretUnderName(j) ==
    /\ At(j, "save", "secret")
    /\ KeyringSet(DBSecret(job[j].name, NoOptions), job[j].opts.pass)
    /\ lost' = lost \ {DBSecret(job[j].name, job[j].opts)}
    /\ Goto(j, "ssh")
    /\ UNCHANGED <<json, tmp, loose, overlapped, given, saved>>

SaveSecret(j) ==
    LET key == DBSecret(job[j].name, job[j].opts)
    IN  /\ At(j, "save", "secret")
        /\ KeyringSet(key, job[j].opts.pass)
        /\ lost' = lost \ {key}
        /\ Goto(j, "ssh")
        /\ UNCHANGED <<json, tmp, loose, overlapped, given, saved>>

SaveSSH(j) ==
    LET o == job[j].opts
    IN  /\ At(j, "save", "ssh")
        /\ IF o.sshPass # "" /\ o.sshUser # ""
           THEN KeyringSet(SSHSecret(job[j].name, o), o.sshPass)
           ELSE ring' = ring
        /\ Goto(j, "read")
        /\ UNCHANGED <<json, tmp, loose, lost, overlapped, given, saved>>

(* addProfileToConfig reads the file and adds the profile to its map.      *)
SaveRead(j) ==
    LET n == job[j].name
    IN  /\ At(j, "save", "read")
        /\ json.kind # "garbled"
        /\ job' = [job EXCEPT ![j].at = "open",
             ![j].copy = [m \in DOMAIN json.profiles \union {n} |->
                            IF m = n THEN Marshalled(job[j].opts)
                            ELSE json.profiles[m]]]
        /\ UNCHANGED <<json, tmp, ring, loose, lost, overlapped, given, saved>>

(* A delete that finds no map has nothing to do.                           *)
DeleteRead(j) ==
    /\ At(j, "delete", "read")
    /\ \/ json.kind = "empty" /\ Goto(j, "done")
       \/ /\ json.kind = "map" /\ job[j].name \in DOMAIN json.profiles
          /\ job' = [job EXCEPT ![j].at = "secret", ![j].copy = json.profiles,
                                ![j].opts = json.profiles[job[j].name]]
    /\ UNCHANGED <<json, tmp, ring, loose, lost, overlapped, given, saved>>

DeleteSecret(j) ==
    LET key == DBSecret(job[j].name, job[j].opts)
    IN  /\ At(j, "delete", "secret")
        /\ key \in Kept(ring)
        /\ KeyringDelete(key)
        /\ Goto(j, "ssh")
        /\ UNCHANGED <<json, tmp, loose, lost, overlapped, given, saved>>

(* Mutant of DeleteSSH: the SSH password is left where it is.              *)
DeleteSSHNever(j) ==
    /\ At(j, "delete", "ssh")
    /\ job' = [job EXCEPT ![j].at = "open",
         ![j].copy = [n \in DOMAIN job[j].copy \ {job[j].name} |->
                        job[j].copy[n]]]
    /\ UNCHANGED <<json, tmp, ring, loose, lost, overlapped, given, saved>>

(* An SSH password that is not found is no error; one that is found may be *)
(* the password of a listed profile.  The profile leaves the map.          *)
DeleteSSH(j) ==
    LET ssh == Secrets(job[j].name, job[j].opts)
                   \ {DBSecret(job[j].name, job[j].opts)}
    IN  /\ At(j, "delete", "ssh")
        /\ ring' = {e \in ring : e.key \notin ssh}
        /\ lost' = lost \union (ssh \intersect Claimed)
        /\ job' = [job EXCEPT ![j].at = "open",
             ![j].copy = [n \in DOMAIN job[j].copy \ {job[j].name} |->
                            job[j].copy[n]]]
        /\ UNCHANGED <<json, tmp, loose, overlapped, given, saved>>
-----------------------------------------------------------------------------
(* os.WriteFile(tempFile) of either job, and the rename.                   *)
OpenTmp(j) ==
    /\ job[j].at = "open"
    /\ tmp' = File("empty")
    /\ job' = [job EXCEPT ![j].at = "write", ![j].fd = "tmp"]
    /\ UNCHANGED <<json, ring, loose, lost, overlapped, given, saved>>

(* Over the text of another job, what is longer shows behind the shorter.  *)
Written(j, file) ==
    {Holding(job[j].copy)} \union
    (IF file.kind = "empty" THEN {} ELSE {File("garbled")})

WriteTmp(j) ==
    /\ job[j].at = "write"
    /\ tmp' \in IF job[j].fd = "tmp" THEN Written(j, tmp) ELSE {tmp}
    /\ json' \in IF job[j].fd = "json" THEN Written(j, json) ELSE {json}
    /\ Goto(j, "rename")
    /\ UNCHANGED <<ring, loose, lost, overlapped, given, saved>>

(* What the others opened moves along with the name.                       *)
Moved(fd) == CASE fd = "tmp" -> "json" [] fd = "json" -> "lost" [] OTHER -> fd

Rename(j) ==
    LET n == job[j].name
        old == Secrets(n, saved[n]) \ Secrets(n, job[j].opts)
    IN  /\ job[j].at = "rename"
        /\ tmp.kind # "absent"
        /\ json' = tmp /\ tmp' = File("absent")
        /\ job' = [k \in Jobs |-> [job[k] EXCEPT
                     !.fd = Moved(job[k].fd), !.at = IF k = j THEN "done" ELSE @]]
        /\ saved' = [saved EXCEPT ![n] = IF job[j].op = "save"
                                         THEN job[j].opts ELSE NoOptions]
        /\ loose' = loose \union (IF job[j].op = "save" THEN old ELSE {})
        /\ UNCHANGED <<ring, lost, overlapped, given>>
-----------------------------------------------------------------------------
(* What a job that stops here leaves undone.                               *)
LooseIf(j) ==
    IF job[j].op = "save" /\ Active(j)
    THEN Secrets(job[j].name, job[j].opts) ELSE {}
CutIf(j) ==
    IF job[j].op = "delete" /\ job[j].at \in {"ssh", "open", "write", "rename"}
    THEN {DBSecret(job[j].name, job[j].opts)} ELSE {}

(* A system call or the keyring reports an error, among them those that    *)
(* the steps above exclude: no file, not JSON, no such profile, secret or  *)
(* .tmp.                                                                   *)
Fail(j) ==
    /\ Active(j)
    /\ Goto(j, "failed")
    /\ loose' = loose \union LooseIf(j)
    /\ lost' = lost \union CutIf(j)
    /\ UNCHANGED <<json, tmp, ring, overlapped, given, saved>>

(* The program ends, and its jobs where they stand.                        *)
StopJobs ==
    /\ job' = [j \in Jobs |-> Idle]
    /\ loose' = loose \union UNION {LooseIf(j) : j \in Jobs}
    /\ lost' = lost \union UNION {CutIf(j) : j \in Jobs}
    /\ UNCHANGED <<json, tmp, ring, overlapped, given, saved>>

JobStep(j) ==
    \/ SaveCreate(j) \/ SaveSecret(j) \/ SaveSSH(j) \/ SaveRead(j)
    \/ DeleteRead(j) \/ DeleteSecret(j) \/ DeleteSSH(j)
    \/ OpenTmp(j) \/ WriteTmp(j) \/ Rename(j) \/ Fail(j)
=============================================================================
