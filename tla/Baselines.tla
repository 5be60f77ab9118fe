----------------------------- MODULE Baselines ------------------------------
(***************************************************************************)
(* The baselines of one query (pkg/plan/baseline.go): a directory with a   *)
(* file per name, as far as names differ after sanitizeBaselineName.       *)
(***************************************************************************)
EXTENDS Naturals, FiniteSets

CONSTANTS
    Names,      \* names a user gives
    Seconds,    \* names made of the time of a save: 1..n, in order
    Sanitize    \* the file of every name

Files == {Sanitize[n] : n \in Names \union Seconds}

VARIABLES
    files,      \* what each file holds
    created,    \* the time of the last save, in saves
    now         \* the second the clock shows

baselineVars == <<files, created, now>>

(* A file that does not exist, one that was truncated, one with the parts  *)
(* of two writers; else a baseline.                                        *)
Absent  == [held |-> "absent"]
Empty   == [held |-> "empty"]
Garbled == [held |-> "garbled"]
Baseline(name, time, plan) ==
    [held |-> "baseline", name |-> name, created |-> time, plan |-> plan]

Decoded(f) == files[f].held = "baseline"

BaselinesInit ==
    /\ files = [f \in Files |-> Absent] /\ created = 0
    /\ now \in Seconds /\ \A s \in Seconds : now <= s

(* os.WriteFile truncates the file and then writes it.  What another one   *)
(* has written in between stays where it is longer.                        *)
Truncate(b) ==
    /\ files' = [files EXCEPT ![Sanitize[b.name]] = Empty]
    /\ created' = b.created

Write(b) ==
    LET f == Sanitize[b.name]
    IN  /\ \/ files' = [files EXCEPT ![f] = b]
           \/ files[f] # Empty /\ files' = [files EXCEPT ![f] = Garbled]
        /\ UNCHANGED <<created, now>>

(* A list skips what it cannot decode.                                     *)
Listed == {files[f] : f \in {f \in Files : Decoded(f)}}

(* Mutant of Newest: the list is sorted the other way.                     *)
Oldest(list) == CHOOSE b \in list : \A c \in list : c.created >= b.created

(* The newest baseline comes first.                                        *)
Newest(list) == CHOOSE b \in list : \A c \in list : c.created <= b.created
=============================================================================
