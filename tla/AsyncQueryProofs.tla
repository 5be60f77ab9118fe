-------------------------- MODULE AsyncQueryProofs --------------------------
(***************************************************************************)
(* Proofs about AsyncQuery for every number of statements and every        *)
(* concurrency limit: its inductive invariant, the safety properties it    *)
(* implies, and that it implements QueryBatch.                             *)
(***************************************************************************)
EXTENDS AsyncQuery, FiniteSetTheorems, TLAPS

(* Sets of statements are finite and have at most N elements.              *)
LEMMA IndexSets ==
    ASSUME NEW S \in SUBSET Index
    PROVE  /\ IsFiniteSet(S)
           /\ Cardinality(S) \in 0..N
           /\ S # Index => Cardinality(S) < N
           /\ Cardinality(Index) = N
<1>1. IsFiniteSet(Index) /\ Cardinality(Index) = N
  BY FS_Interval, BatchAssumption DEF Index
<1>2. IsFiniteSet(S) /\ Cardinality(S) <= N
  BY <1>1, FS_Subset
<1>3. S # Index => Cardinality(S) # N
  BY <1>1, FS_Subset
<1>4. Cardinality(S) \in Nat
  BY <1>2, FS_CardinalityType
<1> QED
  BY <1>1, <1>2, <1>3, <1>4, BatchAssumption

(* Adding a statement to such a set or removing one moves its cardinality  *)
(* by one.                                                                 *)
LEMMA OneMore ==
    ASSUME NEW S \in SUBSET Index, NEW i \in Index, i \notin S
    PROVE  Cardinality(S \cup {i}) = Cardinality(S) + 1
BY IndexSets, FS_AddElement

LEMMA OneLess ==
    ASSUME NEW S \in SUBSET Index, NEW i \in S
    PROVE  /\ Cardinality(S \ {i}) = Cardinality(S) - 1
           /\ Cardinality(S) > 0
<1>1. Cardinality(S \ {i}) = Cardinality(S) - 1
  BY IndexSets, FS_RemoveElement
<1>2. Cardinality(S) # 0
  BY IndexSets, FS_EmptySet
<1> QED
  BY <1>1, <1>2, IndexSets

(* The elements of a sequence grow by the appended one, and taking the     *)
(* head away and keeping it elsewhere loses none.                          *)
LEMMA AppendElements ==
    ASSUME NEW S, NEW s \in Seq(S), NEW e \in S
    PROVE  Elements(Append(s, e)) = Elements(s) \cup {e}
<1>1. ASSUME NEW x \in Elements(Append(s, e)) PROVE x \in Elements(s) \cup {e}
  <2>1. PICK k \in 1..(Len(s) + 1) : x = Append(s, e)[k]
    BY <1>1 DEF Elements
  <2> QED
    BY <2>1 DEF Elements
<1>2. ASSUME NEW x \in Elements(s) PROVE x \in Elements(Append(s, e))
  <2>1. PICK k \in 1..Len(s) : x = s[k]
    BY <1>2 DEF Elements
  <2>2. k \in DOMAIN Append(s, e) /\ Append(s, e)[k] = x
    BY <2>1
  <2> QED
    BY <2>2 DEF Elements
<1>3. e \in Elements(Append(s, e))
  <2>1. Len(s) + 1 \in DOMAIN Append(s, e) /\ Append(s, e)[Len(s) + 1] = e
    OBVIOUS
  <2> QED
    BY <2>1 DEF Elements
<1> QED
  BY <1>1, <1>2, <1>3

LEMMA HeadTailElements ==
    ASSUME NEW S, NEW s \in Seq(S), s # <<>>
    PROVE  Elements(s) = {Head(s)} \cup Elements(Tail(s))
<1>1. ASSUME NEW x \in Elements(s) PROVE x \in {Head(s)} \cup Elements(Tail(s))
  <2>1. PICK k \in 1..Len(s) : x = s[k]
    BY <1>1 DEF Elements
  <2>2. CASE k = 1
    BY <2>1, <2>2
  <2>3. CASE k > 1
    <3>1. k - 1 \in DOMAIN Tail(s) /\ Tail(s)[k - 1] = x
      BY <2>1, <2>3
    <3> QED
      BY <3>1 DEF Elements
  <2> QED
    BY <2>2, <2>3
<1>2. ASSUME NEW x \in Elements(Tail(s)) PROVE x \in Elements(s)
  <2>1. PICK k \in 1..Len(Tail(s)) : x = Tail(s)[k]
    BY <1>2 DEF Elements
  <2>2. k + 1 \in DOMAIN s /\ s[k + 1] = x
    BY <2>1
  <2> QED
    BY <2>2 DEF Elements
<1>3. Head(s) \in Elements(s)
  <2>1. 1 \in DOMAIN s /\ s[1] = Head(s)
    OBVIOUS
  <2> QED
    BY <2>1 DEF Elements
<1> QED
  BY <1>1, <1>2, <1>3
-----------------------------------------------------------------------------
(* The inductive invariant.                                                *)

LEMMA InitIInv == Init => IInv
<1> SUFFICES ASSUME Init PROVE IInv
  OBVIOUS
<1> USE DEF Init
<1>1. TypeOK
  <2>1. chan \in Seq(Index) /\ collected \in Seq(Index) /\ report \in Seq(Outcome)
    OBVIOUS
  <2>2. tokens \in 0..MaxConcurrency /\ wg \in 0..N
    BY BatchAssumption
  <2>3. /\ pc \in [Index -> PC]
        /\ result \in [Index -> Outcome \cup {Unset}]
        /\ conn \in [Index -> BOOLEAN]
    BY DEF PC
  <2> QED
    BY <2>1, <2>2, <2>3, Zenon DEF TypeOK
<1>2. Holders = {} /\ Alive = {} /\ Sent = {}
  BY DEF Holders, Alive, Sent, HasSent
<1>3. TokensInv /\ WaitGroupInv
  BY <1>2, FS_EmptySet DEF TokensInv, WaitGroupInv
<1>4. ChannelInv
  BY <1>2, FS_EmptySet DEF ChannelInv, Elements
<1>5. ConnInv /\ ResultInv /\ CancelledInv /\ CloseInv /\ ReportInv
  BY DEF ConnInv, ResultInv, CancelledInv, CloseInv, ReportInv, HasSent, Unset
<1> QED
  BY <1>1, <1>3, <1>4, <1>5 DEF IInv

(* The steps of the loop and of the goroutines before their result is sent *)
(* move one statement in or out of Holders and Alive and leave Sent alone. *)
LEMMA SpawnIInv ==
    ASSUME IInv, NEW i \in Index, Spawn(i)
    PROVE  IInv'
<1> USE DEF IInv, Spawn, channel, collector
<1>1. Holders' = Holders /\ Alive' = Alive \cup {i} /\ Sent' = Sent /\ i \notin Alive
  BY DEF TypeOK, Holders, Alive, Sent, HasSent
<1>2. Cardinality(Alive') = Cardinality(Alive) + 1 /\ Cardinality(Alive') \in 0..N
  BY <1>1, OneMore, IndexSets DEF Alive
<1>3. TypeOK'
  BY <1>2 DEF TypeOK, PC, WaitGroupInv
<1>4. TokensInv' /\ WaitGroupInv' /\ ChannelInv'
  BY <1>1, <1>2 DEF TokensInv, WaitGroupInv, ChannelInv
<1>5. ConnInv' /\ ResultInv' /\ CancelledInv'
  BY DEF TypeOK, ConnInv, ResultInv, CancelledInv, HasSent
<1>6. CloseInv' /\ ReportInv'
  BY DEF TypeOK, CloseInv, ReportInv
<1> QED
  BY <1>3, <1>4, <1>5, <1>6

LEMMA AcquireTokenIInv ==
    ASSUME IInv, NEW i \in Index, AcquireToken(i)
    PROVE  IInv'
<1> USE DEF IInv, AcquireToken, channel, collector
<1>1. Holders' = Holders \cup {i} /\ i \notin Holders /\ Alive' = Alive /\ Sent' = Sent
  BY DEF TypeOK, Holders, Alive, Sent, HasSent
<1>2. Cardinality(Holders') = Cardinality(Holders) + 1
  BY <1>1, OneMore DEF Holders
<1>3. TypeOK'
  BY BatchAssumption DEF TypeOK, PC
<1>4. TokensInv' /\ WaitGroupInv' /\ ChannelInv'
  BY <1>1, <1>2 DEF TokensInv, WaitGroupInv, ChannelInv
<1>5. ConnInv' /\ ResultInv' /\ CancelledInv'
  BY DEF TypeOK, ConnInv, ResultInv, CancelledInv, HasSent
<1>6. CloseInv' /\ ReportInv'
  BY DEF TypeOK, CloseInv, ReportInv
<1> QED
  BY <1>3, <1>4, <1>5, <1>6

LEMMA StartIInv ==
    ASSUME IInv, NEW i \in Index, Start(i)
    PROVE  IInv'
<1> USE DEF IInv, Start, channel, collector
<1>1. Holders' = Holders /\ Alive' = Alive /\ Sent' = Sent
  BY DEF TypeOK, Holders, Alive, Sent, HasSent
<1>2. TypeOK'
  BY DEF TypeOK, PC
<1>3. TokensInv' /\ WaitGroupInv' /\ ChannelInv'
  BY <1>1 DEF TokensInv, WaitGroupInv, ChannelInv
<1>4. ConnInv' /\ ResultInv' /\ CancelledInv'
  BY DEF TypeOK, ConnInv, ResultInv, CancelledInv, HasSent
<1>5. CloseInv' /\ ReportInv'
  BY DEF TypeOK, CloseInv, ReportInv
<1> QED
  BY <1>2, <1>3, <1>4, <1>5

LEMMA AnswerIInv ==
    ASSUME IInv, NEW i \in Index, Answer(i)
    PROVE  IInv'
<1>0. PICK o \in Outcome, rowsOpen \in BOOLEAN : Answered(i, o, rowsOpen)
  BY DEF Answer
<1> USE <1>0 DEF IInv, Answered, channel, collector
<1>1. Holders' = Holders /\ Alive' = Alive /\ Sent' = Sent
  BY DEF TypeOK, Holders, Alive, Sent, HasSent
<1>2. TypeOK'
  BY DEF TypeOK, PC
<1>3. TokensInv' /\ WaitGroupInv' /\ ChannelInv'
  BY <1>1 DEF TokensInv, WaitGroupInv, ChannelInv
<1>4. ConnInv' /\ ResultInv' /\ CancelledInv'
  BY DEF TypeOK, ConnInv, ResultInv, CancelledInv, HasSent
<1>5. CloseInv' /\ ReportInv'
  BY DEF TypeOK, CloseInv, ReportInv
<1> QED
  BY <1>2, <1>3, <1>4, <1>5

LEMMA RowsDrainedIInv ==
    ASSUME IInv, NEW i \in Index, RowsDrained(i)
    PROVE  IInv'
<1> USE DEF IInv, RowsDrained, channel, collector
<1>1. Holders' = Holders /\ Alive' = Alive /\ Sent' = Sent
  BY DEF Holders, Alive, Sent, HasSent
<1>2. TypeOK' /\ ConnInv'
  BY DEF TypeOK, ConnInv
<1>3. TokensInv' /\ WaitGroupInv' /\ ChannelInv'
  BY <1>1 DEF TokensInv, WaitGroupInv, ChannelInv
<1>4. ResultInv' /\ CancelledInv' /\ CloseInv' /\ ReportInv'
  BY DEF ResultInv, CancelledInv, HasSent, CloseInv, ReportInv
<1> QED
  BY <1>2, <1>3, <1>4

(* Both sends add one statement to Sent and to the channel.                *)
LEMMA SendResultChannel ==
    ASSUME IInv, NEW i \in Index, SendResult(i), i \notin Sent,
           Sent' = Sent \cup {i}, UNCHANGED collected
    PROVE  ChannelInv' /\ chan' \in Seq(Index)
<1>1. Cardinality(Sent') = Cardinality(Sent) + 1
  BY OneMore DEF Sent
<1>2. chan \in Seq(Index) /\ chan' = Append(chan, i) /\ collected \in Seq(Index)
  BY DEF IInv, TypeOK, SendResult
<1>3. Elements(chan') = Elements(chan) \cup {i}
  BY <1>2, AppendElements
<1>4. Len(chan') = Len(chan) + 1
  BY <1>2
<1>5. Len(chan') + Len(collected') = Cardinality(Sent')
  BY <1>1, <1>2, <1>4 DEF IInv, ChannelInv
<1>6. Elements(chan') \cup Elements(collected') = Sent'
  BY <1>3 DEF IInv, ChannelInv, Elements
<1> QED
  BY <1>2, <1>5, <1>6 DEF ChannelInv

LEMMA GiveUpIInv ==
    ASSUME IInv, NEW i \in Index, GiveUp(i)
    PROVE  IInv'
<1> USE DEF IInv, GiveUp, collector
<1>1. Holders' = Holders /\ Alive' = Alive /\ Sent' = Sent \cup {i} /\ i \notin Sent
  BY DEF TypeOK, Holders, Alive, Sent, HasSent
<1>2. ChannelInv' /\ chan' \in Seq(Index)
  BY <1>1, SendResultChannel
<1>3. TypeOK'
  BY <1>2 DEF TypeOK, PC, Outcome
<1>4. TokensInv' /\ WaitGroupInv'
  BY <1>1 DEF TokensInv, WaitGroupInv
<1>5. ConnInv' /\ ResultInv' /\ CancelledInv'
  BY DEF TypeOK, ConnInv, ResultInv, CancelledInv, HasSent, Outcome
<1>6. CloseInv' /\ ReportInv'
  BY DEF TypeOK, CloseInv, ReportInv, SendResult
<1> QED
  BY <1>2, <1>3, <1>4, <1>5, <1>6

LEMMA SendIInv ==
    ASSUME IInv, NEW i \in Index, Send(i)
    PROVE  IInv'
<1> USE DEF IInv, Send, collector
<1>1. Holders' = Holders /\ Alive' = Alive /\ Sent' = Sent \cup {i} /\ i \notin Sent
  BY DEF TypeOK, Holders, Alive, Sent, HasSent
<1>2. ChannelInv' /\ chan' \in Seq(Index)
  BY <1>1, SendResultChannel
<1>3. TypeOK'
  BY <1>2 DEF TypeOK, PC
<1>4. TokensInv' /\ WaitGroupInv'
  BY <1>1 DEF TokensInv, WaitGroupInv
<1>5. ConnInv' /\ ResultInv' /\ CancelledInv'
  BY DEF TypeOK, ConnInv, ResultInv, CancelledInv, HasSent
<1>6. CloseInv' /\ ReportInv'
  BY DEF TypeOK, CloseInv, ReportInv, SendResult
<1> QED
  BY <1>2, <1>3, <1>4, <1>5, <1>6

LEMMA CloseRowsIInv ==
    ASSUME IInv, NEW i \in Index, CloseRows(i)
    PROVE  IInv'
<1> USE DEF IInv, CloseRows, channel, collector
<1>1. Holders' = Holders /\ Alive' = Alive /\ Sent' = Sent
  BY DEF TypeOK, Holders, Alive, Sent, HasSent
<1>2. TypeOK'
  BY DEF TypeOK, PC
<1>3. TokensInv' /\ WaitGroupInv' /\ ChannelInv'
  BY <1>1 DEF TokensInv, WaitGroupInv, ChannelInv
<1>4. ConnInv' /\ ResultInv' /\ CancelledInv'
  BY DEF TypeOK, ConnInv, ResultInv, CancelledInv, HasSent
<1>5. CloseInv' /\ ReportInv'
  BY DEF TypeOK, CloseInv, ReportInv
<1> QED
  BY <1>2, <1>3, <1>4, <1>5

LEMMA ReleaseTokenIInv ==
    ASSUME IInv, NEW i \in Index, ReleaseToken(i)
    PROVE  IInv'
<1> USE DEF IInv, ReleaseToken, channel, collector
<1>1. Holders' = Holders \ {i} /\ i \in Holders /\ Alive' = Alive /\ Sent' = Sent
  BY DEF TypeOK, Holders, Alive, Sent, HasSent
<1>2. Cardinality(Holders') = Cardinality(Holders) - 1
  BY <1>1, OneLess DEF Holders
<1>3. TypeOK'
  BY BatchAssumption DEF TypeOK, PC
<1>4. TokensInv' /\ WaitGroupInv' /\ ChannelInv'
  BY <1>1, <1>2 DEF TokensInv, WaitGroupInv, ChannelInv
<1>5. ConnInv' /\ ResultInv' /\ CancelledInv'
  BY DEF TypeOK, ConnInv, ResultInv, CancelledInv, HasSent
<1>6. CloseInv' /\ ReportInv'
  BY DEF TypeOK, CloseInv, ReportInv
<1> QED
  BY <1>3, <1>4, <1>5, <1>6

LEMMA DoneIInv ==
    ASSUME IInv, NEW i \in Index, Done(i)
    PROVE  IInv'
<1> USE DEF IInv, Done, channel, collector
<1>1. Holders' = Holders /\ Alive' = Alive \ {i} /\ i \in Alive /\ Sent' = Sent
  BY DEF TypeOK, Holders, Alive, Sent, HasSent
<1>2. Cardinality(Alive') = Cardinality(Alive) - 1 /\ Cardinality(Alive) \in 1..N
  <2>1. Alive \in SUBSET Index
    BY DEF Alive
  <2>2. Cardinality(Alive) \in 0..N /\ Cardinality(Alive) > 0
    BY <1>1, <2>1, OneLess, IndexSets
  <2> QED
    BY <1>1, <2>1, <2>2, OneLess, BatchAssumption
<1>3. TypeOK'
  BY <1>2, BatchAssumption DEF TypeOK, PC, WaitGroupInv
<1>4. TokensInv' /\ WaitGroupInv' /\ ChannelInv'
  BY <1>1, <1>2 DEF TokensInv, WaitGroupInv, ChannelInv
<1>5. ConnInv' /\ ResultInv' /\ CancelledInv'
  BY DEF TypeOK, ConnInv, ResultInv, CancelledInv, HasSent
<1>6. CloseInv' /\ ReportInv'
  BY DEF TypeOK, CloseInv, ReportInv
<1> QED
  BY <1>3, <1>4, <1>5, <1>6

(* The closer, the collector and the user.                                 *)
LEMMA SpawnCloserIInv == IInv /\ SpawnCloser => IInv'
<1> SUFFICES ASSUME IInv, SpawnCloser PROVE IInv'
  OBVIOUS
<1> USE DEF IInv, SpawnCloser, goroutines, collector
<1>1. Holders' = Holders /\ Alive' = Alive /\ Sent' = Sent
  BY DEF Holders, Alive, Sent, HasSent
<1>2. TypeOK' /\ CloseInv'
  BY DEF TypeOK, CloseInv
<1>3. TokensInv' /\ WaitGroupInv' /\ ChannelInv'
  BY <1>1 DEF TokensInv, WaitGroupInv, ChannelInv
<1>4. ConnInv' /\ ResultInv' /\ CancelledInv' /\ ReportInv'
  BY DEF ConnInv, ResultInv, CancelledInv, HasSent, ReportInv
<1> QED
  BY <1>2, <1>3, <1>4

LEMMA CloseChannelIInv == IInv /\ CloseChannel => IInv'
<1> SUFFICES ASSUME IInv, CloseChannel PROVE IInv'
  OBVIOUS
<1> USE DEF IInv, CloseChannel, goroutines, collector
<1>1. Holders' = Holders /\ Alive' = Alive /\ Sent' = Sent
  BY DEF Holders, Alive, Sent, HasSent
<1>2. Alive = {}
  <2>1. Alive \in SUBSET Index /\ Cardinality(Alive) = 0
    BY DEF Alive, WaitGroupInv
  <2> QED
    BY <2>1, IndexSets, FS_EmptySet
<1>3. \A i \in Index : pc[i] = "done"
  BY <1>2 DEF Alive, CloseInv
<1>4. TypeOK' /\ CloseInv'
  BY <1>3 DEF TypeOK, CloseInv
<1>5. TokensInv' /\ WaitGroupInv' /\ ChannelInv'
  BY <1>1 DEF TokensInv, WaitGroupInv, ChannelInv
<1>6. ConnInv' /\ ResultInv' /\ CancelledInv' /\ ReportInv'
  BY DEF ConnInv, ResultInv, CancelledInv, HasSent, ReportInv
<1> QED
  BY <1>4, <1>5, <1>6

LEMMA ReceiveIInv == IInv /\ Receive => IInv'
<1> SUFFICES ASSUME IInv, Receive PROVE IInv'
  OBVIOUS
<1> USE DEF IInv, Receive, goroutines
<1>1. Holders' = Holders /\ Alive' = Alive /\ Sent' = Sent
  BY DEF Holders, Alive, Sent, HasSent
<1>2. chan \in Seq(Index) /\ chan # <<>> /\ collected \in Seq(Index)
  BY DEF TypeOK
<1>3. /\ Head(chan) \in Index
      /\ Tail(chan) \in Seq(Index)
      /\ Len(Tail(chan)) = Len(chan) - 1
      /\ Append(collected, Head(chan)) \in Seq(Index)
      /\ Len(Append(collected, Head(chan))) = Len(collected) + 1
  BY <1>2
<1>4. TypeOK'
  BY <1>3 DEF TypeOK
<1>5. ChannelInv'
  <2>1. Elements(chan) = {Head(chan)} \cup Elements(chan')
    BY <1>2, HeadTailElements
  <2>2. Elements(collected') = Elements(collected) \cup {Head(chan)}
    BY <1>2, <1>3, AppendElements
  <2>3. Elements(chan') \cup Elements(collected') = Sent'
    BY <1>1, <2>1, <2>2 DEF ChannelInv
  <2>4. Len(chan') + Len(collected') = Cardinality(Sent')
    BY <1>1, <1>2, <1>3 DEF ChannelInv
  <2> QED
    BY <2>3, <2>4 DEF ChannelInv
<1>6. TokensInv' /\ WaitGroupInv'
  BY <1>1 DEF TokensInv, WaitGroupInv
<1>7. ConnInv' /\ ResultInv' /\ CancelledInv' /\ CloseInv' /\ ReportInv'
  BY DEF ConnInv, ResultInv, CancelledInv, HasSent, CloseInv, ReportInv
<1> QED
  BY <1>4, <1>5, <1>6, <1>7

(* When the collector returns every statement is in collected, and sorting *)
(* the numbers 1..N by rank puts k in place k.                             *)
LEMMA SortedCollected ==
    ASSUME IInv, closed, chan = <<>>
    PROVE  /\ Len(collected) = N
           /\ \A k \in Index : SortedByIndex(collected)[k] = k
<1>1. Sent = Index
  BY DEF IInv, CloseInv, Sent, HasSent
<1>2. Len(collected) = N /\ Elements(collected) = Index
  <2>1. Elements(chan) = {} /\ Len(chan) = 0
    BY DEF Elements
  <2>2. Cardinality(Index) = N
    BY IndexSets
  <2>3. Len(collected) \in Nat
    BY DEF IInv, TypeOK
  <2>4. /\ Len(chan) + Len(collected) = Cardinality(Sent)
        /\ Elements(chan) \cup Elements(collected) = Sent
    BY DEF IInv, ChannelInv
  <2>5. Len(collected) = N
    BY <1>1, <2>1, <2>2, <2>3, <2>4
  <2>6. Elements(collected) = Index
    BY <1>1, <2>1, <2>4
  <2> QED
    BY <2>5, <2>6
<1>3. ASSUME NEW i \in Index PROVE Cardinality({j \in Index : j < i}) = i - 1
  <2>1. {j \in Index : j < i} = 1..(i - 1)
    BY BatchAssumption DEF Index
  <2>2. i \in Nat /\ i >= 1 /\ i - 1 \in Int /\ 1 \in Int
    BY BatchAssumption DEF Index
  <2>3. Cardinality(1..(i - 1)) = i - 1
    BY <2>2, FS_Interval
  <2> QED
    BY <2>1, <2>3, Zenon
<1>4. ASSUME NEW k \in Index PROVE SortedByIndex(collected)[k] = k
  <2>1. SortedByIndex(collected)[k] =
          CHOOSE i \in Index : Cardinality({j \in Index : j < i}) = k - 1
    BY <1>2 DEF SortedByIndex, Index
  <2>2. \A i \in Index : Cardinality({j \in Index : j < i}) = k - 1 <=> i = k
    BY <1>3, BatchAssumption DEF Index
  <2> QED
    BY <2>1, <2>2
<1> QED
  BY <1>2, <1>4

LEMMA ReturnReports == IInv /\ Return => report' = result /\ result \in [Index -> Outcome]
<1> SUFFICES ASSUME IInv, Return PROVE report' = result /\ result \in [Index -> Outcome]
  OBVIOUS
<1>1. result \in [Index -> Outcome]
  BY DEF IInv, Return, CloseInv, ResultInv, HasSent, TypeOK
<1>2. report' = [k \in Index |-> result[k]]
  BY SortedCollected DEF Return, Index
<1> QED
  BY <1>1, <1>2

LEMMA ReturnIInv == IInv /\ Return => IInv'
<1> SUFFICES ASSUME IInv, Return PROVE IInv'
  OBVIOUS
<1> USE DEF IInv, Return, goroutines, channel
<1>1. Holders' = Holders /\ Alive' = Alive /\ Sent' = Sent
  BY DEF Holders, Alive, Sent, HasSent
<1>2. report' = result /\ report' \in Seq(Outcome)
  <2>1. report' = result /\ result \in [1..N -> Outcome] /\ N \in Nat
    BY ReturnReports, BatchAssumption DEF Index
  <2> QED
    BY <2>1
<1>3. TypeOK' /\ ReportInv'
  BY <1>2 DEF TypeOK, ReportInv
<1>4. TokensInv' /\ WaitGroupInv' /\ ChannelInv'
  BY <1>1 DEF TokensInv, WaitGroupInv, ChannelInv
<1>5. ConnInv' /\ ResultInv' /\ CancelledInv' /\ CloseInv'
  BY DEF ConnInv, ResultInv, CancelledInv, HasSent, CloseInv
<1> QED
  BY <1>3, <1>4, <1>5

LEMMA CancelIInv == IInv /\ Cancel => IInv'
<1> SUFFICES ASSUME IInv, Cancel PROVE IInv'
  OBVIOUS
<1> USE DEF IInv, Cancel, goroutines, channel, collector
<1>1. Holders' = Holders /\ Alive' = Alive /\ Sent' = Sent
  BY DEF Holders, Alive, Sent, HasSent
<1>2. TypeOK'
  BY DEF TypeOK
<1>3. TokensInv' /\ WaitGroupInv' /\ ChannelInv'
  BY <1>1 DEF TokensInv, WaitGroupInv, ChannelInv
<1>4. ConnInv' /\ ResultInv' /\ CancelledInv' /\ CloseInv' /\ ReportInv'
  BY DEF ConnInv, ResultInv, CancelledInv, HasSent, CloseInv, ReportInv
<1> QED
  BY <1>2, <1>3, <1>4

LEMMA StutterIInv == IInv /\ UNCHANGED vars => IInv'
<1> SUFFICES ASSUME IInv, UNCHANGED vars PROVE IInv'
  OBVIOUS
<1> USE DEF IInv, vars
<1>1. Holders' = Holders /\ Alive' = Alive /\ Sent' = Sent
  BY DEF Holders, Alive, Sent, HasSent
<1>2. TypeOK'
  BY DEF TypeOK
<1>3. TokensInv' /\ WaitGroupInv' /\ ChannelInv'
  BY <1>1 DEF TokensInv, WaitGroupInv, ChannelInv
<1>4. ConnInv' /\ ResultInv' /\ CancelledInv' /\ CloseInv' /\ ReportInv'
  BY DEF ConnInv, ResultInv, CancelledInv, HasSent, CloseInv, ReportInv
<1> QED
  BY <1>2, <1>3, <1>4

LEMMA NextIInv == IInv /\ [Next]_vars => IInv'
<1> SUFFICES ASSUME IInv, [Next]_vars PROVE IInv'
  OBVIOUS
<1>1. ASSUME NEW i \in Index, Spawn(i) PROVE IInv'
  BY <1>1, SpawnIInv
<1>2. ASSUME NEW i \in Index, Goroutine(i) PROVE IInv'
  BY <1>2, AcquireTokenIInv, GiveUpIInv, StartIInv, AnswerIInv, RowsDrainedIInv,
     SendIInv, CloseRowsIInv, ReleaseTokenIInv, DoneIInv DEF Goroutine
<1> QED
  BY <1>1, <1>2, SpawnCloserIInv, CloseChannelIInv, ReceiveIInv, ReturnIInv,
     CancelIInv, StutterIInv DEF Next, Terminated

(* Every reachable state of AsyncQuery satisfies the inductive invariant:  *)
(* the semaphore and the wait group count the goroutines they stand for    *)
(* and the channel holds each result exactly once.                         *)
THEOREM Inductive == Spec => []IInv
BY InitIInv, NextIInv, PTL DEF Spec
-----------------------------------------------------------------------------
(* What the invariant implies.                                             *)

(* The variables keep their types, in particular the semaphore never holds *)
(* more than MaxConcurrency tokens and the wait group never goes negative, *)
(* which would panic.                                                      *)
THEOREM TypeCorrect == Spec => []TypeOK
BY Inductive, PTL DEF IInv

(* No send of AsyncQuery ever blocks on a full buffer or meets a closed    *)
(* channel, for any number of statements and any concurrency limit.        *)
THEOREM SendsNeverBlock == Spec => []CanSend
<1>1. IInv => CanSend
  <2> SUFFICES ASSUME IInv, NEW i \in Index, pc[i] \in {"select", "start", "busy", "send"}
               PROVE  ~closed /\ Len(chan) < N
    BY DEF CanSend
  <2>1. ~closed
    BY DEF IInv, CloseInv
  <2>2. Sent \in SUBSET Index /\ Sent # Index
    BY DEF Sent, HasSent
  <2>3. Cardinality(Sent) < N /\ Cardinality(Sent) \in 0..N
    BY <2>2, IndexSets
  <2>4. Len(chan) \in Nat /\ Len(collected) \in Nat
    BY DEF IInv, TypeOK
  <2> QED
    BY <2>1, <2>3, <2>4, BatchAssumption DEF IInv, ChannelInv
<1> QED
  BY <1>1, Inductive, PTL

(* A batch never holds more than MaxConcurrency connections of the pool,   *)
(* the bound the comment on AsyncQuery promises.                           *)
THEOREM ConnectionBound == Spec => []ConnectionsCapped
<1>1. IInv => ConnectionsCapped
  <2> SUFFICES ASSUME IInv PROVE ConnectionsCapped
    OBVIOUS
  <2>1. Holders \in SUBSET Index /\ {i \in Index : conn[i]} \in SUBSET Holders
    BY DEF IInv, ConnInv, Holders
  <2>2. Cardinality({i \in Index : conn[i]}) <= Cardinality(Holders)
    BY <2>1, IndexSets, FS_Subset
  <2>3. Cardinality(Holders) <= MaxConcurrency
    BY BatchAssumption DEF IInv, TokensInv, TypeOK
  <2>4. Cardinality({i \in Index : conn[i]}) \in 0..N /\ Cardinality(Holders) \in 0..N
    BY <2>1, IndexSets
  <2> QED
    BY <2>2, <2>3, <2>4, BatchAssumption DEF ConnectionsCapped
<1> QED
  BY <1>1, Inductive, PTL

(* A reported batch has released every goroutine, connection and token.    *)
THEOREM CleanAfterReport == Spec => []NothingLeftBehind
<1>1. IInv => NothingLeftBehind
  <2> SUFFICES ASSUME IInv, report # <<>>
               PROVE  /\ \A i \in Index : pc[i] = "done" /\ ~conn[i]
                      /\ tokens = 0 /\ wg = 0
    BY DEF NothingLeftBehind
  <2>1. \A i \in Index : pc[i] = "done"
    BY DEF IInv, ReportInv, CloseInv
  <2>2. \A i \in Index : ~conn[i]
    BY <2>1 DEF IInv, ConnInv, TypeOK
  <2>3. Holders = {} /\ Alive = {}
    BY <2>1 DEF Holders, Alive
  <2> QED
    BY <2>1, <2>2, <2>3, FS_EmptySet DEF IInv, TokensInv, WaitGroupInv
<1> QED
  BY <1>1, Inductive, PTL

(* The report lists the outcome of the k-th statement in place k, in       *)
(* whatever order the goroutines answered.                                 *)
THEOREM ReportOrdered == Spec => []ReportInOrder
<1>1. IInv => ReportInOrder
  BY DEF IInv, ReportInv, ReportInOrder
<1> QED
  BY <1>1, Inductive, PTL
-----------------------------------------------------------------------------
(* Refinement.                                                             *)

(* The steps that the contract does not see: they change neither what has  *)
(* been sent, nor the context, nor the report.                             *)
Unseen == UNCHANGED <<answers, ctx, report>>

LEMMA SilentStep ==
    ASSUME IInv, NEW i \in Index,
           \/ Spawn(i) \/ AcquireToken(i) \/ Start(i) \/ Answer(i) \/ RowsDrained(i)
           \/ CloseRows(i) \/ ReleaseToken(i) \/ Done(i)
    PROVE  Unseen
<1>1. UNCHANGED <<ctx, report>>
  BY DEF Spawn, AcquireToken, Start, Answer, Answered, RowsDrained, CloseRows,
         ReleaseToken, Done, collector
<1>2. CASE Answer(i)
  <2>1. PICK o \in Outcome, rowsOpen \in BOOLEAN : Answered(i, o, rowsOpen)
    BY <1>2 DEF Answer
  <2>2. \A j \in Index : /\ HasSent(j)' = HasSent(j)
                         /\ HasSent(j) => result'[j] = result[j]
    BY <2>1 DEF Answered, HasSent, IInv, TypeOK
  <2> QED
    BY <1>1, <2>2 DEF Unseen, answers
<1>3. CASE ~Answer(i)
  <2>1. \A j \in Index : HasSent(j)' = HasSent(j) /\ result'[j] = result[j]
    BY <1>3 DEF Spawn, AcquireToken, Start, RowsDrained, CloseRows, ReleaseToken,
                Done, HasSent, IInv, TypeOK
  <2> QED
    BY <1>1, <2>1 DEF Unseen, answers
<1> QED
  BY <1>2, <1>3

(* A send is the step that answers its statement.                          *)
LEMMA SendAnswers ==
    ASSUME IInv, NEW i \in Index, GiveUp(i) \/ Send(i)
    PROVE  Batch!Answer(i)
<1>1. answers[i] = "pending"
  BY DEF answers, GiveUp, Send, HasSent
<1>2. result'[i] \in Outcome /\ (result'[i] = "cancelled" => ctx = "cancelled")
  BY DEF GiveUp, Send, IInv, ResultInv, CancelledInv, TypeOK, Outcome
<1>3. answers' = [answers EXCEPT ![i] = result'[i]]
  <2>1. \A j \in Index : HasSent(j)' = (HasSent(j) \/ j = i)
    BY DEF GiveUp, Send, HasSent, IInv, TypeOK
  <2>2. \A j \in Index : j # i => result'[j] = result[j]
    BY DEF GiveUp, Send, IInv, TypeOK
  <2> QED
    BY <2>1, <2>2 DEF answers
<1>4. UNCHANGED <<ctx, report>>
  BY DEF GiveUp, Send, collector
<1> QED
  BY <1>1, <1>2, <1>3, <1>4
     DEF Batch!Answer, Batch!Pending, Batch!Outcome, Outcome, answers

LEMMA ReturnReturns == IInv /\ Return => Batch!Return
<1> SUFFICES ASSUME IInv, Return PROVE Batch!Return
  OBVIOUS
<1>1. \A i \in Index : HasSent(i)
  BY DEF IInv, Return, CloseInv, HasSent
<1>2. report' = result /\ result \in [Index -> Outcome]
  BY ReturnReports
<1>3. answers = result
  BY <1>1, <1>2 DEF answers
<1>4. \A i \in Index : answers[i] # "pending"
  BY <1>2, <1>3 DEF Outcome
<1>5. UNCHANGED <<answers, ctx>> /\ report = <<>>
  BY DEF Return, goroutines, answers, HasSent
<1> QED
  BY <1>2, <1>3, <1>4, <1>5
     DEF Batch!Return, Batch!Pending, Batch!Index, Index, answers

(* AsyncQuery with its collector keeps the contract of the batch: every    *)
(* statement is answered once, as cancelled only after a cancellation, and *)
(* the one report lists all answers in order.                              *)
THEOREM Refinement == Spec => Implements
<1>1. Init => Batch!Init
  BY DEF Init, Batch!Init, Batch!Index, Batch!Pending, Index, HasSent, answers
<1>2. IInv /\ [Next]_vars => [Batch!Next]_(Batch!vars)
  <2> SUFFICES ASSUME IInv, [Next]_vars PROVE [Batch!Next]_(Batch!vars)
    OBVIOUS
  <2>1. Unseen => UNCHANGED Batch!vars
    BY DEF Unseen, answers, Batch!vars
  <2>2. ASSUME NEW i \in Index, Spawn(i) \/ Goroutine(i)
        PROVE  [Batch!Next]_(Batch!vars)
    <3>1. CASE GiveUp(i) \/ Send(i)
      BY <3>1, SendAnswers DEF Batch!Next, Batch!Index, Index
    <3>2. CASE ~(GiveUp(i) \/ Send(i))
      BY <2>1, <2>2, <3>2, SilentStep DEF Goroutine
    <3> QED
      BY <3>1, <3>2
  <2>3. CASE Return
    BY <2>3, ReturnReturns DEF Batch!Next
  <2>4. CASE Cancel
    <3>1. ctx = "live" /\ ctx' = "cancelled" /\ UNCHANGED <<answers, report>>
      BY <2>4 DEF Cancel, answers, HasSent, goroutines, collector
    <3> QED
      BY <3>1 DEF Batch!Next, Batch!Kill, answers
  <2>5. CASE SpawnCloser \/ CloseChannel \/ Receive \/ UNCHANGED vars
    <3>1. Unseen
      BY <2>5 DEF Unseen, answers, HasSent, SpawnCloser, CloseChannel, Receive, vars,
                  goroutines, collector
    <3> QED
      BY <2>1, <3>1
  <2> QED
    BY <2>2, <2>3, <2>4, <2>5 DEF Next, Terminated
<1> QED
  BY <1>1, <1>2, Inductive, PTL DEF Spec, Implements, Batch!Spec
=============================================================================
