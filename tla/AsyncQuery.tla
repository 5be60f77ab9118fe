----------------------------- MODULE AsyncQuery -----------------------------
(***************************************************************************)
(* Client.AsyncQuery (pkg/client/client.go) and the command that drains it *)
(* (Model.runConcurrentlyCmd, pkg/bubbletui/bubbletui.go): one goroutine   *)
(* per statement, a semaphore channel that caps how many of them use the   *)
(* database, a result channel with one slot per statement, a goroutine     *)
(* that closes that channel when the wait group reaches zero, and one      *)
(* context that ctrl+c may cancel at any moment.                           *)
(*                                                                         *)
(* A goroutine's pc names the statement it executes next:                  *)
(*   "unborn"  its iteration of the loop has not come yet                  *)
(*   "select"  the select of lines 253-259                                 *)
(*   "start"   it holds a token and calls the database                     *)
(*   "busy"    the driver runs the statement (or scans its rows)           *)
(*   "send"    result is filled in and is sent next                        *)
(*   "close"   the deferred rows.Close()                                   *)
(*   "release" the deferred receive from the semaphore                     *)
(*   "finish"  the deferred wg.Done()                                      *)
(*   "done"                                                                *)
(***************************************************************************)
EXTENDS Naturals, Sequences, FiniteSets

CONSTANTS
    N,                \* len(queries)
    MaxConcurrency,   \* capacity of the semaphore (4 in the TUI)
    Kind              \* Kind[i]: which branch statement i takes

Index == 1..N
Kinds == {"plan", "read", "exec"}

ASSUME BatchAssumption ==
    /\ N \in Nat \ {0}
    /\ MaxConcurrency \in Nat \ {0}
    /\ Kind \in [Index -> Kinds]

VARIABLES
    pc,         \* of the goroutine of each statement
    result,     \* result.Error of each goroutine, once it is known
    conn,       \* conn[i]: goroutine i holds a connection of the pool
    tokens,     \* number of elements in the semaphore channel
    wg,         \* counter of the wait group
    ctx,        \* "live" or "cancelled"
    chan,       \* content of resultChan: the indexes of the results sent
    closed,     \* resultChan has been closed
    closer,     \* the goroutine that closes it: "unborn", "waiting", "done"
    collected,  \* finalResults of the collector
    report      \* queriesResult of the querySuccessMsg; <<>> before it

vars == <<pc, result, conn, tokens, wg, ctx, chan, closed, closer,
          collected, report>>
goroutines == <<pc, result, conn, tokens, wg>>
channel == <<chan, closed, closer>>
collector == <<collected, report>>

Outcome == {"ok", "error", "cancelled"}
Unset == "unset"
PC == {"unborn", "select", "start", "busy", "send", "close", "release",
       "finish", "done"}

Init ==
    /\ pc = [i \in Index |-> "unborn"]
    /\ result = [i \in Index |-> Unset]
    /\ conn = [i \in Index |-> FALSE]
    /\ tokens = 0
    /\ wg = 0
    /\ ctx = "live"
    /\ chan = <<>>
    /\ closed = FALSE
    /\ closer = "unborn"
    /\ collected = <<>>
    /\ report = <<>>
-----------------------------------------------------------------------------
(* The loop of AsyncQuery, run by the collector before it has a channel.   *)

(* Mutant of Spawn: wg.Add(len(queries)) in every iteration.               *)
SpawnAddsAll(i) ==
    /\ pc[i] = "unborn"
    /\ \A j \in Index : j < i => pc[j] # "unborn"
    /\ wg' = wg + N
    /\ pc' = [pc EXCEPT ![i] = "select"]
    /\ UNCHANGED <<result, conn, tokens, ctx, channel, collector>>

Spawn(i) ==
    /\ pc[i] = "unborn"
    /\ \A j \in Index : j < i => pc[j] # "unborn"
    /\ wg' = wg + 1
    /\ pc' = [pc EXCEPT ![i] = "select"]
    /\ UNCHANGED <<result, conn, tokens, ctx, channel, collector>>

SpawnCloser ==
    /\ closer = "unborn"
    /\ \A i \in Index : pc[i] # "unborn"
    /\ closer' = "waiting"
    /\ UNCHANGED <<goroutines, ctx, chan, closed, collector>>
-----------------------------------------------------------------------------
(* The goroutine of statement i.                                           *)

(* Mutant of AcquireToken: no semaphore.                                   *)
AcquireUnbounded(i) ==
    /\ pc[i] = "select"
    /\ pc' = [pc EXCEPT ![i] = "start"]
    /\ UNCHANGED <<result, conn, tokens, wg, ctx, channel, collector>>

AcquireToken(i) ==
    /\ pc[i] = "select"
    /\ tokens < MaxConcurrency
    /\ tokens' = tokens + 1
    /\ pc' = [pc EXCEPT ![i] = "start"]
    /\ UNCHANGED <<result, conn, wg, ctx, channel, collector>>

(* resultChan <- result                                                    *)
SendResult(i) ==
    /\ ~closed                  \* sending on a closed channel panics
    /\ Len(chan) < N            \* the buffer blocks when it is full
    /\ chan' = Append(chan, i)

(* Mutant of GiveUp: the early return forgets to send a result.            *)
GiveUpSilently(i) ==
    /\ pc[i] = "select"
    /\ ctx = "cancelled"
    /\ pc' = [pc EXCEPT ![i] = "finish"]
    /\ UNCHANGED <<result, conn, tokens, wg, ctx, channel, collector>>

(* The other case of the select, as likely as AcquireToken when both are   *)
(* ready: the goroutine returns without a token.                           *)
GiveUp(i) ==
    /\ pc[i] = "select"
    /\ ctx = "cancelled"
    /\ result' = [result EXCEPT ![i] = "cancelled"]
    /\ SendResult(i)
    /\ pc' = [pc EXCEPT ![i] = "finish"]
    /\ UNCHANGED <<conn, tokens, wg, ctx, closed, closer, collector>>

(* runPlan, QueryxContext or ExecContext takes a connection.               *)
Start(i) ==
    /\ pc[i] = "start"
    /\ conn' = [conn EXCEPT ![i] = TRUE]
    /\ pc' = [pc EXCEPT ![i] = "busy"]
    /\ UNCHANGED <<result, tokens, wg, ctx, channel, collector>>

(* The driver is done with statement i.  Only the read path keeps its      *)
(* connection, in rows, and only when QueryxContext succeeded; a later     *)
(* error (columns, scan, JSON column check) still leaves the rows open.    *)
Answered(i, o, rowsOpen) ==
    /\ pc[i] = "busy"
    /\ o = "cancelled" => ctx = "cancelled"
    /\ rowsOpen => Kind[i] = "read"
    /\ (Kind[i] = "read" /\ ~rowsOpen) => o # "ok"
    /\ result' = [result EXCEPT ![i] = o]
    /\ conn' = [conn EXCEPT ![i] = rowsOpen]
    /\ pc' = [pc EXCEPT ![i] = "send"]
    /\ UNCHANGED <<tokens, wg, ctx, channel, collector>>

Answer(i) == \E o \in Outcome, rowsOpen \in BOOLEAN : Answered(i, o, rowsOpen)

(* database/sql gives the connection of rows back on its own when they are *)
(* drained or when their context is cancelled.                             *)
RowsDrained(i) ==
    /\ pc[i] \in {"send", "close"}
    /\ conn[i]
    /\ conn' = [conn EXCEPT ![i] = FALSE]
    /\ UNCHANGED <<pc, result, tokens, wg, ctx, channel, collector>>

Send(i) ==
    /\ pc[i] = "send"
    /\ SendResult(i)
    /\ pc' = [pc EXCEPT ![i] = "close"]
    /\ UNCHANGED <<result, conn, tokens, wg, ctx, closed, closer, collector>>

(* Mutant of CloseRows: no defer rows.Close().                             *)
LeakRows(i) ==
    /\ pc[i] = "close"
    /\ pc' = [pc EXCEPT ![i] = "release"]
    /\ UNCHANGED <<result, conn, tokens, wg, ctx, channel, collector>>

(* The deferred calls, in the order Go runs them: last deferred first.     *)
(* CloseRows has rows to close on the read path only.                      *)
CloseRows(i) ==
    /\ pc[i] = "close"
    /\ conn' = [conn EXCEPT ![i] = FALSE]
    /\ pc' = [pc EXCEPT ![i] = "release"]
    /\ UNCHANGED <<result, tokens, wg, ctx, channel, collector>>

(* Mutant of ReleaseToken: an early return that keeps its token.           *)
KeepToken(i) ==
    /\ pc[i] = "release"
    /\ pc' = [pc EXCEPT ![i] = "finish"]
    /\ UNCHANGED <<result, conn, tokens, wg, ctx, channel, collector>>

ReleaseToken(i) ==
    /\ pc[i] = "release"
    /\ tokens > 0
    /\ tokens' = tokens - 1
    /\ pc' = [pc EXCEPT ![i] = "finish"]
    /\ UNCHANGED <<result, conn, wg, ctx, channel, collector>>

(* Mutant of Done: a path without wg.Done().                               *)
NeverDone(i) ==
    /\ pc[i] = "finish"
    /\ pc' = [pc EXCEPT ![i] = "done"]
    /\ UNCHANGED <<result, conn, tokens, wg, ctx, channel, collector>>

Done(i) ==
    /\ pc[i] = "finish"
    /\ wg' = wg - 1
    /\ pc' = [pc EXCEPT ![i] = "done"]
    /\ UNCHANGED <<result, conn, tokens, ctx, channel, collector>>
-----------------------------------------------------------------------------
(* The closer, the collector and the user.                                 *)

(* Mutant of CloseChannel: close without wg.Wait().                        *)
CloseAtOnce ==
    /\ closer = "waiting"
    /\ closed' = TRUE
    /\ closer' = "done"
    /\ UNCHANGED <<goroutines, ctx, chan, collector>>

CloseChannel ==
    /\ closer = "waiting"
    /\ wg = 0
    /\ closed' = TRUE
    /\ closer' = "done"
    /\ UNCHANGED <<goroutines, ctx, chan, collector>>

(* AsyncQuery has returned the channel once the closer exists.             *)
Receive ==
    /\ closer # "unborn"
    /\ report = <<>>
    /\ chan # <<>>
    /\ collected' = Append(collected, Head(chan))
    /\ chan' = Tail(chan)
    /\ UNCHANGED <<goroutines, ctx, closed, closer, report>>

(* slices.SortFunc on QueryIndex, for results of distinct statements: the  *)
(* k-th of them is the one with k - 1 smaller ones.                        *)
Elements(s) == {s[k] : k \in DOMAIN s}

(* Mutant of SortedByIndex: results in the order of their arrival.         *)
Unsorted(s) == s

SortedByIndex(s) ==
    [k \in 1..Len(s) |->
        CHOOSE i \in Elements(s) :
            Cardinality({j \in Elements(s) : j < i}) = k - 1]

Return ==
    /\ closed
    /\ chan = <<>>
    /\ report = <<>>
    /\ report' = [k \in 1..Len(collected) |-> result[SortedByIndex(collected)[k]]]
    /\ UNCHANGED <<goroutines, ctx, channel, collected>>

Cancel ==
    /\ ctx = "live"
    /\ ctx' = "cancelled"
    /\ UNCHANGED <<goroutines, channel, collector>>
-----------------------------------------------------------------------------
Goroutine(i) ==
    \/ AcquireToken(i) \/ GiveUp(i) \/ Start(i) \/ Answer(i)
    \/ RowsDrained(i) \/ Send(i) \/ CloseRows(i) \/ ReleaseToken(i) \/ Done(i)

Terminated == report # <<>> /\ UNCHANGED vars

Next ==
    \/ \E i \in Index : Spawn(i) \/ Goroutine(i)
    \/ SpawnCloser \/ CloseChannel \/ Receive \/ Return
    \/ Cancel
    \/ Terminated

Spec == Init /\ [][Next]_vars

(* The Go scheduler runs every goroutine that can run.  Nothing makes a    *)
(* database answer: the driver is only relied on to return once the        *)
(* context it was given is cancelled (comment on lines 274-275).           *)
Fairness ==
    /\ \A i \in Index :
        /\ WF_vars(Spawn(i))
        /\ WF_vars(AcquireToken(i) \/ GiveUp(i))
        /\ WF_vars(Start(i))
        /\ WF_vars(ctx = "cancelled" /\ Answer(i))
        /\ WF_vars(Send(i))
        /\ WF_vars(CloseRows(i))
        /\ WF_vars(ReleaseToken(i))
        /\ WF_vars(Done(i))
    /\ WF_vars(SpawnCloser)
    /\ WF_vars(CloseChannel)
    /\ WF_vars(Receive)
    /\ WF_vars(Return)

FairSpec == Spec /\ Fairness
-----------------------------------------------------------------------------
(* Properties.                                                             *)

TypeOK ==
    /\ pc \in [Index -> PC]
    /\ result \in [Index -> Outcome \cup {Unset}]
    /\ conn \in [Index -> BOOLEAN]
    /\ tokens \in 0..MaxConcurrency
    /\ wg \in 0..N
    /\ ctx \in {"live", "cancelled"}
    /\ chan \in Seq(Index)
    /\ closed \in BOOLEAN
    /\ closer \in {"unborn", "waiting", "done"}
    /\ collected \in Seq(Index)
    /\ report \in Seq(Outcome)

HasSent(i) == pc[i] \in {"close", "release", "finish", "done"}

(* A goroutine about to send always can: the buffer has a slot for it and  *)
(* nobody has closed the channel, so AsyncQuery neither blocks for ever    *)
(* nor panics with "send on closed channel" (lines 233, 257, 429-432).     *)
CanSend ==
    \A i \in Index :
        pc[i] \in {"select", "start", "busy", "send"} => ~closed /\ Len(chan) < N

(* "To cap the maximum number of concurrent database connections" (line    *)
(* 231): however goroutines, row sets and cancellation interleave, a batch *)
(* holds at most MaxConcurrency connections of the pool at once, rows that *)
(* are still open after their result was sent included.                    *)
ConnectionsCapped == Cardinality({i \in Index : conn[i]}) <= MaxConcurrency

(* Once the batch has been reported nothing of it is left behind: no       *)
(* goroutine runs, no connection is checked out and no token is taken, so  *)
(* the next batch starts from a clean client.                              *)
NothingLeftBehind ==
    report # <<>> =>
        /\ \A i \in Index : pc[i] = "done" /\ ~conn[i]
        /\ tokens = 0 /\ wg = 0

(* The k-th tab of the result set shows what the k-th statement returned,  *)
(* whatever the order the goroutines finished in.                          *)
ReportInOrder == report # <<>> => report = result

(* The detailed specification implements the contract of the batch.        *)
answers == [i \in Index |-> IF HasSent(i) THEN result[i] ELSE "pending"]

Batch == INSTANCE QueryBatch WITH
    answer <- answers,
    killed <- (ctx = "cancelled")

Implements == Batch!Spec

(* A cancelled batch returns, though the database answers no statement on  *)
(* its own: this is what ctrl+c promises the user.                         *)
CancelReturns == (ctx = "cancelled") ~> (report # <<>>)
-----------------------------------------------------------------------------
(* The inductive invariant that the proofs of AsyncQueryProofs.tla rest on: *)
(* the two counters count what they stand for, a result is in the channel  *)
(* or collected exactly when its goroutine has sent it, and the channel is *)
(* closed only over goroutines that are done.                              *)
Holders == {i \in Index : pc[i] \in {"start", "busy", "send", "close", "release"}}
Alive == {i \in Index : pc[i] \notin {"unborn", "done"}}
Sent == {i \in Index : HasSent(i)}

TokensInv == tokens = Cardinality(Holders)
WaitGroupInv == wg = Cardinality(Alive)
ConnInv == \A i \in Index : conn[i] => pc[i] \in {"busy", "send", "close"}
ResultInv == \A i \in Index : pc[i] = "send" \/ HasSent(i) => result[i] \in Outcome
CancelledInv == \A i \in Index : result[i] = "cancelled" => ctx = "cancelled"
ChannelInv ==
    /\ Len(chan) + Len(collected) = Cardinality(Sent)
    /\ Elements(chan) \cup Elements(collected) = Sent
CloseInv ==
    /\ closer # "unborn" => \A i \in Index : pc[i] # "unborn"
    /\ closed <=> closer = "done"
    /\ closed => \A i \in Index : pc[i] = "done"
ReportInv == report # <<>> => closed /\ chan = <<>> /\ report = result

IInv ==
    /\ TypeOK
    /\ TokensInv
    /\ WaitGroupInv
    /\ ConnInv
    /\ ResultInv
    /\ CancelledInv
    /\ ChannelInv
    /\ CloseInv
    /\ ReportInv
=============================================================================
