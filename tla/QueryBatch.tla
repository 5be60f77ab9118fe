----------------------------- MODULE QueryBatch -----------------------------
(***************************************************************************)
(* What the TUI relies on when it runs a batch of statements (the contract *)
(* between runConcurrentlyCmd in pkg/bubbletui/bubbletui.go and its        *)
(* caller): every statement of the batch is answered exactly once, answers *)
(* may come in any order and may be cut short by one cancellation, and the *)
(* batch returns one answer per statement, in the order of the batch.      *)
(*                                                                         *)
(* AsyncQuery.tla is the detailed specification that implements this one.  *)
(***************************************************************************)
EXTENDS Naturals

CONSTANT N          \* number of statements of the batch

Index == 1..N                       \* QueryIndex + 1
Outcome == {"ok", "error", "cancelled"}
Pending == "pending"

VARIABLES
    answer,     \* answer[i]: what statement i returned, or Pending
    killed,     \* the context of the batch has been cancelled
    report      \* <<>> until the batch returns, then its answers in order

vars == <<answer, killed, report>>

Init ==
    /\ answer = [i \in Index |-> Pending]
    /\ killed = FALSE
    /\ report = <<>>

(* The database answers statement i.  A statement is reported as cancelled *)
(* only in a batch that was.                                               *)
Answer(i) ==
    /\ answer[i] = Pending
    /\ \E o \in Outcome :
        /\ o = "cancelled" => killed
        /\ answer' = [answer EXCEPT ![i] = o]
    /\ UNCHANGED <<killed, report>>

Kill ==
    /\ ~killed
    /\ killed' = TRUE
    /\ UNCHANGED <<answer, report>>

Return ==
    /\ \A i \in Index : answer[i] # Pending
    /\ report = <<>>
    /\ report' = answer
    /\ UNCHANGED <<answer, killed>>

Next == Kill \/ Return \/ \E i \in Index : Answer(i)

Spec == Init /\ [][Next]_vars
=============================================================================
