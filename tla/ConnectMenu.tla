---------------------------- MODULE ConnectMenu -----------------------------
(***************************************************************************)
(* The menu of dblab connect (pkg/bubbletui/connect.go).  Keys and the     *)
(* messages of its commands are handled one at a time; the commands, which *)
(* read the profiles or delete one, run beside it and answer in any order. *)
(*                                                                         *)
(* list.Model is bubbles' (outside the repository): the cursor may be left *)
(* past the last item when items go, and then nothing is selected.         *)
(***************************************************************************)
EXTENDS Profiles, Sequences, SequencesExt

CONSTANT Fetches    \* the fetchProfilesCmd calls under way

VARIABLES
    state,      \* "off", "loading", "form"
    items,      \* the names in the list
    index,      \* the cursor of the list, from 0
    profiles,   \* ConnectModel.profiles
    fetch       \* fetch[f]: "idle", "asked", "loaded" or "failed", and what

menuVars == <<state, items, index, profiles, fetch>>

NoFetch == [at |-> "idle", profiles |-> NoProfiles]

MenuInit ==
    /\ state = "off" /\ items = <<>> /\ index = 0
    /\ profiles = NoProfiles
    /\ fetch = [f \in Fetches |-> NoFetch]

selected == IF index < Len(items) THEN {items[index + 1]} ELSE {}
-----------------------------------------------------------------------------
(* Run and Init of a menu that was off.                                    *)
OpenMenu ==
    /\ state' = "loading" /\ items' = <<>> /\ index' = 0
    /\ profiles' = NoProfiles
    /\ \E f \in Fetches : fetch' = [fetch EXCEPT ![f].at = "asked"]

(* The command's own goroutine reads the file.                             *)
FetchReads(f) ==
    /\ fetch[f].at = "asked"
    /\ fetch' = [fetch EXCEPT ![f] =
         [at |-> IF Readable THEN "loaded" ELSE "failed",
          profiles |-> ReadProfiles]]
    /\ UNCHANGED <<state, items, index, profiles>>
    /\ UNCHANGED profileVars

(* profilesLoadedMsg: the items come in the order of a Go map, any order.  *)
ProfilesLoaded(f) ==
    /\ fetch[f].at = "loaded"
    /\ profiles' = fetch[f].profiles
    /\ items' \in SetToSeqs(DOMAIN fetch[f].profiles)
    /\ state' = "form"
    /\ fetch' = [fetch EXCEPT ![f] = NoFetch]
    /\ UNCHANGED index
    /\ UNCHANGED profileVars

(* itemDeletedMsg: the item at the index that was selected leaves, and the *)
(* profiles are read again.                                                *)
ItemDeleted(j) ==
    /\ job[j].op = "delete" /\ job[j].at = "done"
    /\ items' = IF job[j].index < Len(items)
                THEN RemoveAt(items, job[j].index + 1) ELSE items
    /\ state' = "form"
    /\ \E f \in Fetches :
          fetch[f].at = "idle" /\ fetch' = [fetch EXCEPT ![f].at = "asked"]
    /\ job' = [job EXCEPT ![j] = Idle]
    /\ UNCHANGED <<index, profiles>>
    /\ UNCHANGED <<json, tmp, ring, loose, lost, overlapped, given, saved>>

Cursor ==
    /\ state = "form"
    /\ \/ index > 0 /\ index' = index - 1
       \/ index + 1 < Len(items) /\ index' = index + 1
    /\ UNCHANGED <<state, items, profiles, fetch>>
    /\ UNCHANGED profileVars

CtrlD(j) ==
    /\ state = "form"
    /\ \E name \in selected : DeleteProfile(j, name, index)
    /\ state' = "loading"
    /\ UNCHANGED <<items, index, profiles, fetch>>

(* The program of the menu ends.  The process may go on, and in it the     *)
(* commands the program started; nobody takes their answers any more.      *)
CloseMenu ==
    /\ state' = "off" /\ items' = <<>> /\ index' = 0
    /\ profiles' = NoProfiles
    /\ fetch' = [f \in Fetches |-> NoFetch]

(* errMsg of either command ends the menu; the error is not looked at.     *)
ErrMsg ==
    \/ \E f \in Fetches : fetch[f].at = "failed"
    \/ \E j \in Jobs : job[j].op = "delete" /\ job[j].at = "failed"

(* Mutant of Recovered: the password of another user of the profile.       *)
AnySecret(name) ==
    {[profiles[name] EXCEPT !.pass = e.secret] :
        e \in {e \in ring : e.key.service = name}}

(* What Run makes of the selected profile: its options with the passwords  *)
(* of the keyring, or none.                                                *)
Recovered(name) ==
    LET o == profiles[name]
        ssh == IF o.sshUser = "" THEN {} ELSE KeyringGet(SSHSecret(name, o))
    IN  {[o EXCEPT !.pass = pass,
                   !.sshPass = IF ssh = {} THEN "" ELSE CHOOSE s \in ssh : TRUE] :
            pass \in KeyringGet(DBSecret(name, o))}
=============================================================================
