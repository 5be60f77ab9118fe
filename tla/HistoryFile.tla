---------------------------- MODULE HistoryFile -----------------------------
(***************************************************************************)
(* The query history file (internal/history/hitstory.go), written by one   *)
(* saveQueriesCmd per batch that was shown (pkg/bubbletui/resultset.go).   *)
(* A save reads the whole file, appends its queries, and writes the whole  *)
(* file again, truncating it first; nothing keeps two saves apart, whether *)
(* of one dblab or of two.                                                 *)
(*                                                                         *)
(* The queries of one batch are one entry, named after their save.  The    *)
(* steps of a save, by the step it takes next:                             *)
(*   "idle" not issued, "truncate", "types", "value", then "saved";        *)
(*   "failed": an error, which nobody handles; "killed": dblab stopped     *)
(*                                                                         *)
(* encoding/gob is outside the repository: an encoder writes the types,    *)
(* the same bytes in every save, and then the value, which starts with its *)
(* length.  Two encoders that write the same file write each part at the   *)
(* same place, and what a longer value leaves behind is not decoded.       *)
(***************************************************************************)
EXTENDS Naturals, Sequences, FiniteSets, SequencesExt

CONSTANTS
    Saves,      \* the saves of all sessions
    Faults      \* whether dblab may stop, or a system call fail, during one

ASSUME HistoryAssumption == Faults \in BOOLEAN

VARIABLES
    parts,      \* what the file has: "types", "value", or both
    file,       \* the entries of the value, when the file has one
    step,       \* step[s]: see above
    copy,       \* copy[s]: the history save s is about to write
    alone,      \* the saves that no other save has overlapped so far
    finished    \* the saves that ended well, in that order

historyVars == <<parts, file, step, copy, alone, finished>>

Steps == {"idle", "truncate", "types", "value", "saved", "failed", "killed"}
Writing(s) == step[s] \in {"truncate", "types", "value"}

readable == parts = {"types", "value"}

HistoryInit ==
    /\ parts = {}
    /\ file = <<>>
    /\ step = [s \in Saves |-> "idle"]
    /\ copy = [s \in Saves |-> <<>>]
    /\ alone = Saves
    /\ finished = <<>>
-----------------------------------------------------------------------------
(* ReadHistory; SaveHistory takes an error for an empty history.           *)
ReadHistory == IF readable THEN file ELSE <<>>

(* Mutant of Appended: the newest query first.                             *)
Prepended(history, s) == <<s>> \o history

(* Mutant of Appended: the newest query twice.                             *)
AppendedTwice(history, s) == history \o <<s, s>>

Appended(history, s) == Append(history, s)

(* SaveHistory up to its call of saveHistory.                              *)
Read(s) ==
    /\ step[s] = "idle"
    /\ copy' = [copy EXCEPT ![s] = Appended(ReadHistory, s)]
    /\ step' = [step EXCEPT ![s] = "truncate"]
    /\ LET others == {t \in Saves : Writing(t)}
       IN alone' = IF others = {} THEN alone ELSE alone \ ({s} \cup others)
    /\ UNCHANGED <<parts, file, finished>>

Turn(s, from, to) ==
    /\ step[s] = from
    /\ step' = [step EXCEPT ![s] = to]

(* os.OpenFile with O_TRUNC                                                *)
Truncate(s) ==
    /\ Turn(s, "truncate", "types")
    /\ parts' = {}
    /\ file' = <<>>
    /\ UNCHANGED <<copy, alone, finished>>

EncodeTypes(s) ==
    /\ Turn(s, "types", "value")
    /\ parts' = parts \cup {"types"}
    /\ UNCHANGED <<file, copy, alone, finished>>

(* Mutant of Encode: only the new queries are encoded.                     *)
EncodeNewOnly(s) ==
    /\ Turn(s, "value", "saved")
    /\ parts' = parts \cup {"value"}
    /\ file' = <<s>>
    /\ finished' = Append(finished, s)
    /\ UNCHANGED <<copy, alone>>

(* Mutant of Encode: the buffer is not flushed.                            *)
EncodeUnflushed(s) ==
    /\ Turn(s, "value", "saved")
    /\ finished' = Append(finished, s)
    /\ UNCHANGED <<parts, file, copy, alone>>

(* The rest of encoder.Encode.                                             *)
Encode(s) ==
    /\ Turn(s, "value", "saved")
    /\ parts' = parts \cup {"value"}
    /\ file' = copy[s]
    /\ finished' = Append(finished, s)
    /\ UNCHANGED <<copy, alone>>

(* A value cut short replaces the one the file had, if any of it was       *)
(* written.                                                                *)
MayTear(cut) ==
    \/ UNCHANGED <<parts, file>>
    \/ cut /\ parts' = parts \ {"value"} /\ file' = <<>>

(* A system call fails: saveQueriesCmd returns an errMsg.                  *)
SaveFails(s) ==
    /\ Faults
    /\ Writing(s)
    /\ step' = [step EXCEPT ![s] = "failed"]
    /\ MayTear(step[s] = "value")
    /\ UNCHANGED <<copy, alone, finished>>

(* dblab quits or dies over the saves that run, and is started again.      *)
Stop ==
    /\ Faults
    /\ \E s \in Saves : Writing(s)
    /\ step' = [s \in Saves |-> IF Writing(s) THEN "killed" ELSE step[s]]
    /\ MayTear(\E s \in Saves : step[s] = "value")
    /\ UNCHANGED <<copy, alone, finished>>
-----------------------------------------------------------------------------
AllEnded ==
    /\ \A s \in Saves : step[s] # "idle" /\ ~Writing(s)
    /\ UNCHANGED historyVars

HistoryNext ==
    \/ \E s \in Saves : 
        Read(s) \/ Truncate(s) \/ EncodeTypes(s) \/ Encode(s) \/ SaveFails(s)
    \/ Stop
    \/ AllEnded

HistorySpec == HistoryInit /\ [][HistoryNext]_historyVars
-----------------------------------------------------------------------------
(* Properties.                                                             *)

(* Nothing is ever in a history twice.                                     *)
Histories == {history \in Seq(Saves) : IsInjective(history)}

HistoryTypeOK ==
    /\ parts \subseteq {"types", "value"}
    /\ file \in Histories
    /\ step \in [Saves -> Steps]
    /\ \A s \in Saves : copy[s] \in Histories
    /\ alone \subseteq Saves
    /\ finished \in Histories

Quiet == \A s \in Saves : ~Writing(s)
NoFault == \A s \in Saves : step[s] \notin {"failed", "killed"}

(* However saves race, the last one to write leaves a file that can be     *)
(* decoded: a race alone never makes the next save start from an empty     *)
(* history (hitstory.go:83-86) once the race is over.                      *)
StaysReadable == Quiet /\ NoFault /\ finished # <<>> => readable

(* Saves that never overlap, in sessions that let them finish, are all in  *)
(* the file: "automatically saves every executed query" (README.md:624).   *)
SerialKept ==
    Quiet /\ NoFault /\ alone = Saves => file = finished

(* The view lists "past queries sorted newest-first" (README.md:624): the  *)
(* file keeps its entries in the order their saves ended, without          *)
(* duplicates, even when races, errors or crashes lose some of them.       *)
EndedBefore(s, t) ==
    \E a, b \in DOMAIN finished : a < b /\ finished[a] = s /\ finished[b] = t

InOrder(history) ==
    /\ \A i \in DOMAIN history : Contains(finished, history[i])
    /\ \A i, j \in DOMAIN history : i < j => EndedBefore(history[i], history[j])

OldestFirst == IsInjective(file) /\ InOrder(file)

(* What README.md:624 says of a save that overlapped with no other: it is  *)
(* in the file, whatever races come later and without any fault.           *)
LoneSaveKept ==
    Quiet => \A s \in alone : step[s] = "saved" => Contains(file, s)
=============================================================================
