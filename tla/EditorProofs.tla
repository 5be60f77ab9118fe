---------------------------- MODULE EditorProofs ----------------------------
(***************************************************************************)
(* Proofs about Editor for texts of any length, any queries and any number *)
(* of picks: the cursor stays in the text through every key and message,   *)
(* no line is lost but the one in the register or one that was erased, no  *)
(* operator waits while the user types, a query picked from the history    *)
(* stands alone, and a line is run as its statements are run in the text.  *)
(***************************************************************************)
EXTENDS Editor, SequenceTheorems, FiniteSetTheorems, WellFoundedInduction, TLAPS

Line == Seq(Tokens)

(* A text and a cursor in it.                                              *)
Placed(lines, r, c) ==
    /\ lines \in Seq(Line)
    /\ r \in 1..Len(lines)
    /\ c \in 0..Len(lines[r])

ModeInv ==
    /\ mode \in {"normal", "insert"}
    /\ pending \in {"", "d", "y"}
    /\ NoOperatorWhileTyping

EditorInv ==
    /\ ModeInv
    /\ Placed(text, row, col)
    /\ register \in Line
    /\ focus \in {"editor", "table", "aside"}
    /\ picks \in Seq(Queries)
-----------------------------------------------------------------------------
(* The mode and the operator.                                              *)

LEMMA ModeStep ==
    ASSUME ModeInv, [Next]_vars
    PROVE  ModeInv'
<1> USE DEF ModeInv, NoOperatorWhileTyping, Normal, Insert
<1>1. ASSUME NEW op \in {"d", "y"}, Operator(op)
      PROVE  ModeInv'
  BY <1>1 DEF Operator
<1>2. CASE OperatorOff \/ DeleteLine \/ YankLine
  BY <1>2 DEF OperatorOff, DeleteLine, YankLine
<1>3. CASE PasteAfter \/ DeleteChar \/ Reset \/ TypeBackspace
  BY <1>3 DEF PasteAfter, DeleteChar, Reset, TypeBackspace, Still
<1>4. ASSUME NEW to \in Motions, Move(to)
      PROVE  ModeInv'
  BY <1>4 DEF Move, Still
<1>5. CASE ToInsert \/ ToNormal
  BY <1>5 DEF ToInsert, ToNormal
<1>6. ASSUME NEW token \in {Word, Semicolon, LineEnd}, Type(token)
      PROVE  ModeInv'
  BY <1>6 DEF Type, Still
<1>7. ASSUME NEW panel \in {"table", "aside"}, Leave(panel)
      PROVE  ModeInv'
  BY <1>7 DEF Leave
<1>8. CASE NavigateUp \/ Back \/ InsertPicked
  BY <1>8 DEF NavigateUp, Back, InsertPicked
<1>9. ASSUME NEW q \in Queries, Pick(q)
      PROVE  ModeInv'
  BY <1>9 DEF Pick
<1>10. CASE UNCHANGED vars
  BY <1>10 DEF vars
<1> QED
  BY <1>1, <1>2, <1>3, <1>4, <1>5, <1>6, <1>7, <1>8, <1>9, <1>10 DEF Next

(* No operator waits while the user types, wherever the focus and the      *)
(* history took him in between (editor.go:146-208).                        *)
THEOREM TypingIsPlain == Spec => []NoOperatorWhileTyping
<1>1. Init => ModeInv
  BY DEF Init, ModeInv, NoOperatorWhileTyping
<1>2. ModeInv => NoOperatorWhileTyping
  BY DEF ModeInv
<1> QED
  BY <1>1, <1>2, ModeStep, PTL DEF Spec
-----------------------------------------------------------------------------
(* Lines.                                                                  *)

LEMMA Cut ==
    ASSUME NEW S, NEW seq \in Seq(S), NEW a \in Nat \ {0}, NEW b \in 0..Len(seq)
    PROVE  /\ SubSeq(seq, a, b) \in Seq(S)
           /\ Len(SubSeq(seq, a, b)) = IF a <= b THEN b - a + 1 ELSE 0
<1>1. \A i \in a..b : seq[i] \in S
  BY ElementOfSeq
<1> QED
  BY <1>1, SubSeqProperties

LEMMA Singleton ==
    ASSUME NEW S, NEW e \in S
    PROVE  <<e>> \in Seq(S) /\ Len(<<e>>) = 1 /\ <<e>>[1] = e
OBVIOUS

LEMMA Spliced ==
    ASSUME NEW S, NEW front \in Seq(S), NEW back \in Seq(S), NEW e \in S
    PROVE  /\ front \o <<e>> \o back \in Seq(S)
           /\ Len(front \o <<e>> \o back) = Len(front) + 1 + Len(back)
           /\ (front \o <<e>> \o back)[Len(front) + 1] = e
<1>1. <<e>> \in Seq(S) /\ Len(<<e>>) = 1 /\ <<e>>[1] = e
  BY Singleton
<1>2. Len(front) \in Nat /\ Len(back) \in Nat
  BY LenProperties
<1>3. /\ front \o <<e>> \in Seq(S)
      /\ Len(front \o <<e>>) = Len(front) + 1
      /\ (front \o <<e>>)[Len(front) + 1] = e
  BY <1>1, <1>2, ConcatProperties
<1> DEFINE head == front \o <<e>>
<1>4. /\ head \in Seq(S)
      /\ Len(head) = Len(front) + 1
      /\ head[Len(front) + 1] = e
  BY <1>3
<1>5. /\ head \o back \in Seq(S)
      /\ Len(head \o back) = Len(front) + 1 + Len(back)
      /\ (head \o back)[Len(front) + 1] = e
  <2> HIDE DEF head
  <2>1. /\ head \o back \in Seq(S)
        /\ Len(head \o back) = Len(head) + Len(back)
        /\ \A i \in 1..(Len(head) + Len(back)) :
                (head \o back)[i] = IF i <= Len(head) THEN head[i] ELSE back[i - Len(head)]
    BY <1>4, ConcatProperties
  <2> QED
    BY <1>2, <1>4, <2>1
<1> QED
  BY <1>5

(* Two lines between those in front and those at the back.                 *)
LEMMA SplicedTwo ==
    ASSUME NEW S, NEW front \in Seq(S), NEW back \in Seq(S), NEW d \in S, NEW e \in S
    PROVE  /\ front \o <<d>> \o <<e>> \o back \in Seq(S)
           /\ Len(front \o <<d>> \o <<e>> \o back) = Len(front) + 2 + Len(back)
           /\ (front \o <<d>> \o <<e>> \o back)[Len(front) + 2] = e
<1>1. Len(front) \in Nat /\ Len(back) \in Nat
  BY LenProperties
<1> DEFINE head == front \o <<d>>
<1>2. head \in Seq(S) /\ Len(head) = Len(front) + 1
  BY <1>1, Singleton, ConcatProperties
<1>3. /\ head \o <<e>> \o back \in Seq(S)
      /\ Len(head \o <<e>> \o back) = Len(head) + 1 + Len(back)
      /\ (head \o <<e>> \o back)[Len(head) + 1] = e
  <2> HIDE DEF head
  <2>1. head \in Seq(S)
    BY <1>2
  <2> QED
    BY ONLY <2>1, Spliced, back \in Seq(S), e \in S
<1>4. Len(head) + 1 = Len(front) + 2 /\ Len(head) + 1 + Len(back) = Len(front) + 2 + Len(back)
  <2> HIDE DEF head
  <2> QED
    BY <1>1, <1>2
<1> QED
  BY <1>3, <1>4

(* The lines above row r and those below it.                               *)
LEMMA Around ==
    ASSUME NEW lines \in Seq(Line), NEW r \in 1..Len(lines), NEW k \in Nat \ {0}
    PROVE  /\ SubSeq(lines, 1, r - 1) \in Seq(Line)
           /\ Len(SubSeq(lines, 1, r - 1)) = r - 1
           /\ SubSeq(lines, k, Len(lines)) \in Seq(Line)
           /\ Len(SubSeq(lines, k, Len(lines))) = IF k <= Len(lines) THEN Len(lines) - k + 1 ELSE 0
BY Cut

(* What is before and after a column of a line.                            *)
LEMMA Halves ==
    ASSUME NEW line \in Line, NEW c \in 0..Len(line)
    PROVE  /\ Before(line, c) \in Line /\ Len(Before(line, c)) = c
           /\ After(line, c) \in Line
BY Cut DEF Before, After, Line

LEMMA Longer ==
    ASSUME NEW line \in Line, NEW other \in Line
    PROVE  /\ line \o other \in Line
           /\ Len(line \o other) = Len(line) + Len(other)
BY ConcatProperties DEF Line

LEMMA StillIn ==
    ASSUME NEW line \in Line, NEW other \in Line, NEW c \in 0..Len(line)
    PROVE  c \in 0..Len(line \o other)
<1>1. Len(line) \in Nat /\ Len(other) \in Nat
  BY LenProperties DEF Line
<1>2. Len(line \o other) = Len(line) + Len(other)
  BY Longer
<1> DEFINE total == Len(line \o other)
<1>3. total = Len(line) + Len(other)
  BY <1>2
<1> HIDE DEF total
<1>4. c \in 0..total
  BY <1>1, <1>3
<1> QED
  BY <1>4 DEF total

LEMMA EmptyLine == <<>> \in Line /\ Len(<<>>) = 0
BY EmptySeq DEF Line
-----------------------------------------------------------------------------
(* The textarea.                                                           *)

LEMMA PutPlaced ==
    ASSUME NEW lines, NEW r, NEW c, Placed(lines, r, c), Put(lines, r, c)
    PROVE  Placed(text, row, col)'
BY DEF Put, Placed

(* SetValue with one line more, or the text it was.                        *)
LEMMA SetValuePlaced ==
    ASSUME NEW lines \in Seq(Line), lines # <<>>, SetValue(lines)
    PROVE  Placed(text, row, col)'
<1>1. Len(lines) \in Nat \ {0}
  BY EmptySeq
<1>2. Last(lines) \in Line /\ Last(lines) = lines[Len(lines)]
  BY <1>1, ElementOfSeq DEF Last
<1>3. Len(Last(lines)) \in Nat
  BY <1>2 DEF Line
<1>4. Placed(lines, Len(lines), Len(Last(lines)))
  BY <1>1, <1>2, <1>3 DEF Placed
<1> QED
  BY <1>4, PutPlaced DEF SetValue

LEMMA PutSpliced ==
    ASSUME NEW above \in Seq(Line), NEW below \in Seq(Line), NEW line \in Line,
           NEW r, r = Len(above) + 1, NEW c \in 0..Len(line),
           Put(above \o <<line>> \o below, r, c)
    PROVE  Placed(text, row, col)'
<1> DEFINE all == above \o <<line>> \o below
<1>1. all \in Seq(Line) /\ Len(all) = Len(above) + 1 + Len(below) /\ all[r] = line
  <2>1. /\ above \o <<line>> \o below \in Seq(Line)
        /\ Len(above \o <<line>> \o below) = Len(above) + 1 + Len(below)
        /\ (above \o <<line>> \o below)[Len(above) + 1] = line
    BY Spliced
  <2> QED
    BY <2>1
<1>2. Len(above) \in Nat /\ Len(below) \in Nat
  BY LenProperties
<1>3. Placed(all, r, c)
  <2> HIDE DEF all
  <2> QED
    BY <1>1, <1>2 DEF Placed
<1> QED
  BY <1>3, PutPlaced

LEMMA PutSplicedTwo ==
    ASSUME NEW above \in Seq(Line), NEW below \in Seq(Line), NEW line \in Line,
           NEW other \in Line, NEW r, r = Len(above) + 2, NEW c \in 0..Len(other),
           Put(above \o <<line>> \o <<other>> \o below, r, c)
    PROVE  Placed(text, row, col)'
<1> DEFINE all == above \o <<line>> \o <<other>> \o below
<1>1. all \in Seq(Line) /\ Len(all) = Len(above) + 2 + Len(below) /\ all[r] = other
  <2>1. /\ above \o <<line>> \o <<other>> \o below \in Seq(Line)
        /\ Len(above \o <<line>> \o <<other>> \o below) = Len(above) + 2 + Len(below)
        /\ (above \o <<line>> \o <<other>> \o below)[Len(above) + 2] = other
    BY SplicedTwo
  <2> QED
    BY <2>1
<1>2. Len(above) \in Nat /\ Len(below) \in Nat
  BY LenProperties
<1>3. Placed(all, r, c)
  <2> HIDE DEF all
  <2> QED
    BY <1>1, <1>2 DEF Placed
<1> QED
  BY <1>3, PutPlaced

(* The text around the cursor.                                             *)
LEMMA Here ==
    ASSUME Placed(text, row, col)
    PROVE  /\ row \in Nat \ {0} /\ Len(text) \in Nat /\ row <= Len(text)
           /\ text[row] \in Line /\ Len(text[row]) \in Nat
           /\ Lines(1, row - 1) \in Seq(Line)
           /\ Len(Lines(1, row - 1)) = row - 1
           /\ \A k \in Nat \ {0} : Lines(k, Len(text)) \in Seq(Line)
<1>1. text \in Seq(Line) /\ row \in 1..Len(text)
  BY DEF Placed
<1>2. Len(text) \in Nat
  BY <1>1, LenProperties
<1>3. text[row] \in Line
  BY <1>1, ElementOfSeq
<1>4. Len(text[row]) \in Nat
  BY <1>3 DEF Line
<1>5. /\ Lines(1, row - 1) \in Seq(Line)
      /\ Len(Lines(1, row - 1)) = row - 1
      /\ \A k \in Nat \ {0} : Lines(k, Len(text)) \in Seq(Line)
  BY <1>1, <1>2, Around DEF Lines
<1> QED
  BY <1>1, <1>2, <1>3, <1>4, <1>5

LEMMA OneLinePut ==
    ASSUME NEW c, NEW line, InsertLines(c, <<line>>)
    PROVE  LET first == Before(text[row], c) \o line
           IN  Put(Lines(1, row - 1) \o <<>> \o << first \o After(text[row], c) >>
                       \o Lines(row + 1, Len(text)),
                   row + 1 - 1, Len(first))
<1> DEFINE first == Before(text[row], c) \o line
<1>1. Front(<<first>>) = <<>>
  BY DEF Front
<1> QED
  BY <1>1 DEF InsertLines

LEMMA OneInserted ==
    ASSUME Placed(text, row, col), NEW c \in 0..Len(text[row]), NEW line \in Line,
           InsertLines(c, <<line>>)
    PROVE  Placed(text, row, col)'
<1> DEFINE first == Before(text[row], c) \o line
           whole == first \o After(text[row], c)
           above == Lines(1, row - 1)
           below == Lines(row + 1, Len(text))
<1>1. Put(above \o <<>> \o <<whole>> \o below, row + 1 - 1, Len(first))
  BY OneLinePut
<1>2. first \in Line /\ whole \in Line /\ Len(first) \in 0..Len(whole)
  <2>1. Before(text[row], c) \in Line /\ After(text[row], c) \in Line
    BY Here, Halves
  <2>2. first \in Line
    BY <2>1, Longer
  <2>3. whole \in Line /\ Len(whole) = Len(first) + Len(After(text[row], c))
    <3> HIDE DEF first
    <3> QED
      BY <2>1, <2>2, Longer
  <2>4. Len(first) \in Nat /\ Len(After(text[row], c)) \in Nat
    <3> HIDE DEF first
    <3> QED
      BY <2>1, <2>2, LenProperties DEF Line
  <2> QED
    <3> HIDE DEF first, whole
    <3> QED
      BY <2>2, <2>3, <2>4
<1>3. /\ above \in Seq(Line) /\ below \in Seq(Line)
      /\ Len(above) + 1 = row /\ row + 1 - 1 = row
      /\ above \o <<>> = above
  BY Here, ConcatEmptySeq
<1>4. Put(above \o <<whole>> \o below, row, Len(first))
  <2> HIDE DEF above, below, whole, first
  <2> QED
    BY <1>1, <1>3
<1> QED
  <2> HIDE DEF above, below, whole, first
  <2> QED
    BY <1>2, <1>3, <1>4, PutSpliced

LEMMA SecondOfTwo ==
    ASSUME NEW d, NEW e
    PROVE  SubSeq(<<d, e>>, 2, 2) = <<e>>
<1> DEFINE cut == SubSeq(<<d, e>>, 2, 2)
<1>1. cut \in Seq({d, e}) /\ Len(cut) = 1 /\ cut[1] = e
  <2>1. \A i \in 2..2 : <<d, e>>[i] \in {d, e}
    OBVIOUS
  <2> QED
    BY <2>1, SubSeqProperties
<1>2. <<e>> \in Seq({d, e}) /\ Len(<<e>>) = 1 /\ <<e>>[1] = e
  OBVIOUS
<1> HIDE DEF cut
<1>3. cut = <<e>>
  BY <1>1, <1>2, SeqEqual
<1> QED
  BY <1>3 DEF cut

LEMMA FrontOfTwo ==
    ASSUME NEW d, NEW e
    PROVE  Front(<<d>> \o <<e>>) = <<d>>
<1> DEFINE both == <<d>> \o <<e>>
           cut == SubSeq(both, 1, 1)
<1>1. both \in Seq({d, e}) /\ Len(both) = 2 /\ both[1] = d
  <2>1. <<d>> \in Seq({d, e}) /\ <<e>> \in Seq({d, e}) /\ Len(<<d>>) = 1 /\ Len(<<e>>) = 1
    OBVIOUS
  <2>2. \A i \in 1..2 : both[i] = IF i <= 1 THEN <<d>>[i] ELSE <<e>>[i - 1]
    BY <2>1, ConcatProperties
  <2> QED
    BY <2>1, <2>2, ConcatProperties
<1>2. cut \in Seq({d, e}) /\ Len(cut) = 1 /\ cut[1] = d
  <2> HIDE DEF both
  <2>1. \A i \in 1..1 : both[i] \in {d, e}
    BY <1>1
  <2> QED
    BY <1>1, <2>1, SubSeqProperties
<1>3. <<d>> \in Seq({d, e}) /\ Len(<<d>>) = 1 /\ <<d>>[1] = d
  OBVIOUS
<1>4. cut = <<d>>
  <2> HIDE DEF cut
  <2> QED
    BY <1>2, <1>3, SeqEqual
<1> QED
  <2> HIDE DEF both
  <2>1. Front(both) = SubSeq(both, 1, 1)
    BY <1>1 DEF Front
  <2> QED
    BY <1>4, <2>1 DEF both

LEMMA TwoInserted ==
    ASSUME Placed(text, row, col), NEW c \in 0..Len(text[row]), NEW line \in Line,
           InsertLines(c, << <<>>, line >>)
    PROVE  Placed(text, row, col)'
<1> DEFINE first == Before(text[row], c) \o <<>>
           whole == line \o After(text[row], c)
           above == Lines(1, row - 1)
           below == Lines(row + 1, Len(text))
<1>1. Put(above \o <<first>> \o <<whole>> \o below, row + 2 - 1, Len(line))
  <2> DEFINE lines == << <<>>, line >>
  <2>1. SubSeq(lines, 2, Len(lines)) = <<line>>
    BY SecondOfTwo
  <2>2. Front(<<first>> \o <<line>>) = <<first>>
    <3> HIDE DEF first
    <3> QED
      BY FrontOfTwo
  <2>3. Len(lines) = 2 /\ Head(lines) = <<>> /\ Last(lines) = line
    BY DEF Last
  <2>4. InsertLines(c, lines)
    OBVIOUS
  <2>5. Put(above \o Front(<<Before(text[row], c) \o Head(lines)>> \o SubSeq(lines, 2, Len(lines)))
                \o << Last(lines) \o After(text[row], c) >> \o below,
            row + Len(lines) - 1, Len(Last(lines)))
    <3>1. Len(lines) # 1
      BY <2>3
    <3> QED
      <4> HIDE DEF lines
      <4> QED
        BY <2>4, <3>1 DEF InsertLines
  <2> QED
    <3> HIDE DEF lines, above, below
    <3> QED
      BY <2>1, <2>2, <2>3, <2>5
<1>2. first \in Line /\ whole \in Line /\ Len(line) \in 0..Len(whole)
  <2>1. Before(text[row], c) \in Line /\ After(text[row], c) \in Line
    BY Here, Halves
  <2>2. first \in Line
    BY <2>1, Longer, EmptyLine
  <2>3. whole \in Line /\ Len(whole) = Len(line) + Len(After(text[row], c))
    BY <2>1, Longer
  <2>4. Len(line) \in Nat /\ Len(After(text[row], c)) \in Nat
    BY <2>1, LenProperties DEF Line
  <2> QED
    <3> HIDE DEF first, whole
    <3> QED
      BY <2>2, <2>3, <2>4
<1>3. /\ above \in Seq(Line) /\ below \in Seq(Line)
      /\ Len(above) + 2 = row + 2 - 1
  BY Here
<1> QED
  <2> HIDE DEF above, below, whole, first
  <2> QED
    BY <1>1, <1>2, <1>3, PutSplicedTwo

LEMMA LineReplaced ==
    ASSUME Placed(text, row, col), NEW line \in Line, NEW c \in 0..Len(line),
           Put(Replaced(line), row, c)
    PROVE  Placed(text, row, col)'
<1>1. /\ Replaced(line) \in Seq(Line)
      /\ Len(Replaced(line)) = Len(text)
      /\ Replaced(line)[row] = line
  BY ExceptSeq DEF Placed, Replaced
<1>2. Placed(Replaced(line), row, c)
  BY <1>1 DEF Placed
<1> QED
  BY <1>2, PutPlaced

LEMMA LinesJoined ==
    ASSUME Placed(text, row, col), NEW r \in 1..(Len(text) - 1), NEW c \in 0..Len(text[r]),
           Put(Joins(r), r, c)
    PROVE  Placed(text, row, col)'
<1> DEFINE whole == text[r] \o text[r + 1]
           above == Lines(1, r - 1)
           below == Lines(r + 2, Len(text))
<1>1. text \in Seq(Line) /\ Len(text) \in Nat
  BY LenProperties DEF Placed
<1>2. text[r] \in Line /\ text[r + 1] \in Line
  BY <1>1, ElementOfSeq
<1>3. /\ above \in Seq(Line) /\ below \in Seq(Line)
      /\ Len(above) = r - 1
  BY <1>1, Around DEF Lines
<1>4. whole \in Line /\ c \in 0..Len(whole)
  <2>1. text[r] \o text[r + 1] \in Line
    BY <1>2, Longer
  <2>2. c \in 0..Len(text[r] \o text[r + 1])
    BY <1>2, StillIn
  <2> QED
    BY <2>1, <2>2
<1>5. Put(above \o <<whole>> \o below, r, c)
  BY DEF Joins
<1>6. r = Len(above) + 1
  <2> HIDE DEF above
  <2> QED
    BY <1>3
<1> QED
  <2> HIDE DEF above, below, whole
  <2> QED
    BY <1>3, <1>4, <1>5, <1>6, PutSpliced

(* Without the tokens from column c to column d.                           *)
LEMMA Shortened ==
    ASSUME NEW line \in Line, NEW c \in 0..Len(line), NEW d \in Nat
    PROVE  /\ Before(line, c) \o After(line, d) \in Line
           /\ c \in 0..Len(Before(line, c) \o After(line, d))
<1>1. Before(line, c) \in Line /\ Len(Before(line, c)) = c
  BY Halves
<1>2. After(line, d) \in Line
  <2>1. Len(line) \in Nat
    BY LenProperties DEF Line
  <2> QED
    BY <2>1, Cut DEF After, Line
<1>3. Len(After(line, d)) \in Nat
  BY <1>2, LenProperties DEF Line
<1>4. /\ Before(line, c) \o After(line, d) \in Line
      /\ Len(Before(line, c) \o After(line, d)) = c + Len(After(line, d))
  BY <1>1, <1>2, Longer
<1> QED
  BY <1>3, <1>4

LEMMA ForwardDeleted ==
    ASSUME Placed(text, row, col), DeleteForward
    PROVE  Placed(text, row, col)'
<1> DEFINE short == Before(text[row], col) \o After(text[row], col + 1)
<1>1. text[row] \in Line /\ col \in 0..Len(text[row]) /\ col + 1 \in Nat
  BY Here DEF Placed
<1>2. short \in Line /\ col \in 0..Len(short)
  BY <1>1, Shortened
<1>3. CASE Put(Replaced(short), row, col)
  <2> HIDE DEF short
  <2> QED
    BY <1>2, <1>3, LineReplaced
<1>4. CASE /\ row < Len(text)
           /\ Put(Lines(1, row - 1) \o << Replaced(short)[row] \o text[row + 1] >>
                    \o Lines(row + 2, Len(text)), row, col)
  <2> DEFINE whole == short \o text[row + 1]
  <2>1. Replaced(short)[row] = short
    <3> HIDE DEF short
    <3> QED
      BY <1>2, ExceptSeq DEF Placed, Replaced
  <2>2. text[row + 1] \in Line
    BY <1>4, Here, ElementOfSeq DEF Placed
  <2>3. whole \in Line /\ col \in 0..Len(whole)
    <3> HIDE DEF short
    <3>1. Len(short \o text[row + 1]) = Len(short) + Len(text[row + 1])
      BY <1>2, <2>2, Longer
    <3>2. Len(short) \in Nat /\ Len(text[row + 1]) \in Nat
      BY <1>2, <2>2, LenProperties DEF Line
    <3>3. short \o text[row + 1] \in Line
      BY <1>2, <2>2, Longer
    <3> QED
      BY <1>2, <3>1, <3>2, <3>3
  <2>4. Put(Lines(1, row - 1) \o <<whole>> \o Lines(row + 2, Len(text)), row, col)
    <3> HIDE DEF short
    <3> QED
      BY <1>4, <2>1
  <2>5. row = Len(Lines(1, row - 1)) + 1
    BY Here
  <2>6. Lines(1, row - 1) \in Seq(Line) /\ Lines(row + 2, Len(text)) \in Seq(Line)
    BY Here
  <2> QED
    <3> HIDE DEF whole
    <3> QED
      BY <2>3, <2>4, <2>5, <2>6, PutSpliced
<1>5. CASE UNCHANGED <<text, cursor>>
  BY <1>5 DEF Placed, cursor
<1> QED
  <2> HIDE DEF short
  <2> QED
    BY <1>3, <1>4, <1>5 DEF DeleteForward, short

LEMMA Backspaced ==
    ASSUME Placed(text, row, col), Backspace
    PROVE  Placed(text, row, col)'
<1>1. text[row] \in Line /\ col \in 0..Len(text[row]) /\ Len(text[row]) \in Nat
  BY Here DEF Placed
<1>2. ASSUME col > 0, Put(Replaced(Before(text[row], col - 1) \o After(text[row], col)), row, col - 1)
      PROVE  Placed(text, row, col)'
  <2>1. col - 1 \in 0..Len(text[row]) /\ col \in Nat
    BY <1>1, <1>2
  <2>2. /\ Before(text[row], col - 1) \o After(text[row], col) \in Line
        /\ col - 1 \in 0..Len(Before(text[row], col - 1) \o After(text[row], col))
    BY <1>1, <2>1, Shortened
  <2> QED
    BY <1>2, <2>2, LineReplaced
<1>3. ASSUME row > 1, Put(Joins(row - 1), row - 1, Len(text[row - 1]))
      PROVE  Placed(text, row, col)'
  <2>1. row - 1 \in 1..(Len(text) - 1)
    BY <1>3, Here
  <2>2. text[row - 1] \in Line
    BY <2>1, ElementOfSeq, Here DEF Placed
  <2>3. Len(text[row - 1]) \in 0..Len(text[row - 1])
    BY <2>2, LenProperties DEF Line
  <2> QED
    BY <1>3, <2>1, <2>3, LinesJoined
<1> QED
  BY <1>2, <1>3 DEF Backspace

LEMMA CutAfterCursor ==
    ASSUME Placed(text, row, col), DeleteAfterCursor
    PROVE  Placed(text, row, col)'
<1>1. text[row] \in Line /\ col \in 0..Len(text[row]) /\ Len(text[row]) \in Nat
  BY Here DEF Placed
<1>2. ASSUME row < Len(text), Put(Joins(row), row, col)
      PROVE  Placed(text, row, col)'
  <2>1. row \in 1..(Len(text) - 1)
    BY <1>2, Here
  <2> QED
    BY <1>1, <1>2, <2>1, LinesJoined
<1>3. ASSUME Put(Replaced(Before(text[row], col)), row, col)
      PROVE  Placed(text, row, col)'
  BY <1>1, <1>3, Halves, LineReplaced
<1> QED
  BY <1>2, <1>3 DEF DeleteAfterCursor
-----------------------------------------------------------------------------
(* The keys.                                                               *)

LEMMA MinOfTwo ==
    ASSUME NEW a \in Nat, NEW b \in Nat
    PROVE  Min({a, b}) = IF a <= b THEN a ELSE b
<1> DEFINE least == IF a <= b THEN a ELSE b
<1>1. least \in {a, b} /\ \A y \in {a, b} : least =< y
  OBVIOUS
<1>2. \A x \in {a, b} : (\A y \in {a, b} : x =< y) => x = least
  OBVIOUS
<1> HIDE DEF least
<1>3. Min({a, b}) = least
  BY <1>1, <1>2 DEF Min
<1> QED
  BY <1>3 DEF least

LEMMA WithinPlaced ==
    ASSUME NEW lines \in Seq(Line), NEW r \in 1..Len(lines), NEW c \in Nat
    PROVE  Min({c, Len(lines[r])}) \in 0..Len(lines[r])
<1>1. Len(lines[r]) \in Nat
  BY ElementOfSeq, LenProperties DEF Line
<1>2. Min({c, Len(lines[r])}) = IF c <= Len(lines[r]) THEN c ELSE Len(lines[r])
  BY <1>1, MinOfTwo
<1> QED
  BY <1>1, <1>2

LEMMA MotionPlaced ==
    ASSUME Placed(text, row, col), NEW to \in Motions
    PROVE  Placed(text, to[1], to[2])
<1>1. text \in Seq(Line) /\ Len(text) \in Nat /\ row \in 1..Len(text)
  BY Here DEF Placed
<1>2. \A r \in 1..Len(text) : Len(text[r]) \in Nat
  BY <1>1, ElementOfSeq, LenProperties DEF Line
<1>3. col \in 0..Len(text[row]) /\ col \in Nat
  BY <1>1, <1>2 DEF Placed
<1>4. \A r \in 1..Len(text) : Placed(text, Within(r, col)[1], Within(r, col)[2])
  BY <1>1, <1>3, WithinPlaced DEF Placed, Within
<1>5. \A r \in 1..Len(text) : \A c \in 0..Len(text[r]) : Placed(text, r, c)
  BY <1>1 DEF Placed
<1>6. CASE to = Left
  <2>1. CASE col > 0
    <3>1. to = <<row, col - 1>> /\ col - 1 \in 0..Len(text[row])
      BY <1>2, <1>1, <1>3, <1>6, <2>1 DEF Left
    <3> QED
      BY <1>1, <1>5, <3>1
  <2>2. CASE ~(col > 0) /\ row > 1
    <3>1. /\ to = <<row - 1, Len(text[row - 1])>>
          /\ row - 1 \in 1..Len(text)
      BY <1>1, <1>6, <2>2 DEF Left
    <3>2. Len(text[row - 1]) \in 0..Len(text[row - 1])
      BY <1>2, <3>1
    <3> QED
      BY <1>5, <3>1, <3>2
  <2>3. CASE ~(col > 0) /\ ~(row > 1)
    BY <1>6, <2>3 DEF Left, cursor
  <2> QED
    BY <2>1, <2>2, <2>3
<1>7. CASE to = Right
  <2>1. CASE col < Len(text[row])
    <3>1. to = <<row, col + 1>> /\ col + 1 \in 0..Len(text[row])
      BY <1>2, <1>1, <1>3, <1>7, <2>1 DEF Right
    <3> QED
      BY <1>1, <1>5, <3>1
  <2>2. CASE ~(col < Len(text[row])) /\ row < Len(text)
    <3>1. to = <<row + 1, 0>> /\ row + 1 \in 1..Len(text)
      BY <1>1, <1>7, <2>2 DEF Right
    <3>2. 0 \in 0..Len(text[row + 1])
      BY <1>2, <3>1
    <3> QED
      BY <1>5, <3>1, <3>2
  <2>3. CASE ~(col < Len(text[row])) /\ ~(row < Len(text))
    BY <1>7, <2>3 DEF Right, cursor
  <2> QED
    BY <2>1, <2>2, <2>3
<1>8. CASE to = Up
  <2>1. CASE row > 1
    <3>1. to = Within(row - 1, col) /\ row - 1 \in 1..Len(text)
      BY <1>1, <1>8, <2>1 DEF Up
    <3> QED
      BY <1>4, <3>1
  <2>2. CASE ~(row > 1)
    BY <1>8, <2>2 DEF Up, cursor
  <2> QED
    BY <2>1, <2>2
<1>9. CASE to = Down
  <2>1. CASE row < Len(text)
    <3>1. to = Within(row + 1, col) /\ row + 1 \in 1..Len(text)
      BY <1>1, <1>9, <2>1 DEF Down
    <3> QED
      BY <1>4, <3>1
  <2>2. CASE ~(row < Len(text))
    BY <1>9, <2>2 DEF Down, cursor
  <2> QED
    BY <2>1, <2>2
<1>10. CASE to = <<row, 0>> \/ to = <<row, Len(text[row])>>
  <2>1. 0 \in 0..Len(text[row]) /\ Len(text[row]) \in 0..Len(text[row])
    BY <1>1, <1>2
  <2> QED
    BY <1>1, <1>5, <1>10, <2>1
<1>11. CASE to = Within(1, col) \/ to = Within(Len(text), col)
  <2>1. 1 \in 1..Len(text) /\ Len(text) \in 1..Len(text)
    BY <1>1
  <2> QED
    BY <1>4, <1>11, <2>1
<1> QED
  BY <1>6, <1>7, <1>8, <1>9, <1>10, <1>11 DEF Motions

LEMMA Cleared ==
    ASSUME Put(<< <<>> >>, 1, 0)
    PROVE  Placed(text, row, col)'
<1>1. << <<>> >> \in Seq(Line)
  BY EmptyLine, Singleton
<1>2. Placed(<< <<>> >>, 1, 0)
  BY <1>1, EmptyLine DEF Placed
<1> QED
  BY <1>2, PutPlaced

LEMMA LineDeleted ==
    ASSUME Placed(text, row, col), DeleteLine
    PROVE  Placed(text, row, col)' /\ register' \in Line
<1> DEFINE rest == Lines(1, row - 1) \o Lines(row + 1, Len(text))
<1>1. rest \in Seq(Line)
  <2>1. Lines(1, row - 1) \in Seq(Line) /\ Lines(row + 1, Len(text)) \in Seq(Line)
    BY Here
  <2> QED
    BY <2>1, ConcatProperties
<1>2. register' \in Line
  BY Here DEF DeleteLine
<1>3. CASE rest = <<>>
  <2>1. Put(<< <<>> >>, 1, 0)
    BY <1>3 DEF DeleteLine
  <2> QED
    BY <1>2, <2>1, Cleared
<1>4. CASE rest # <<>>
  <2>1. Put(rest, Min({row, Len(rest)}), 0)
    BY <1>4 DEF DeleteLine
  <2> HIDE DEF rest
  <2>2. Len(rest) \in Nat \ {0}
    BY <1>1, <1>4, EmptySeq
  <2>3. Min({row, Len(rest)}) \in 1..Len(rest)
    <3>1. row \in Nat \ {0}
      BY Here
    <3>2. Min({row, Len(rest)}) = IF row <= Len(rest) THEN row ELSE Len(rest)
      BY <2>2, <3>1, MinOfTwo
    <3> QED
      BY <2>2, <3>1, <3>2
  <2>4. \A r \in 1..Len(rest) : 0 \in 0..Len(rest[r])
    BY <1>1, ElementOfSeq, LenProperties DEF Line
  <2>5. Placed(rest, Min({row, Len(rest)}), 0)
    BY <1>1, <2>3, <2>4 DEF Placed
  <2> QED
    BY <1>2, <2>1, <2>5, PutPlaced
<1> QED
  BY <1>2, <1>3, <1>4

LEMMA Pasted ==
    ASSUME Placed(text, row, col), register \in Line, PasteAfter
    PROVE  Placed(text, row, col)'
<1> DEFINE above == Lines(1, row)
           below == Lines(row + 1, Len(text))
           all == above \o <<register>> \o below
<1>1. above \in Seq(Line) /\ below \in Seq(Line)
  <2>1. text \in Seq(Line) /\ row \in 0..Len(text) /\ row + 1 \in Nat \ {0}
    BY Here DEF Placed
  <2>2. above \in Seq(Line)
    BY <2>1, Cut DEF Lines
  <2>3. below \in Seq(Line)
    BY <2>1, Here
  <2> QED
    BY <2>2, <2>3
<1>2. all \in Seq(Line) /\ Len(all) = Len(above) + 1 + Len(below)
  <2> HIDE DEF above, below
  <2> QED
    BY <1>1, Spliced
<1>3. SetValue(all)
  BY DEF PasteAfter
<1>4. Len(above) \in Nat /\ Len(below) \in Nat
  BY <1>1, LenProperties
<1>5. all # <<>>
  <2> HIDE DEF all, above, below
  <2> QED
    BY <1>2, <1>4, EmptySeq
<1> QED
  <2> HIDE DEF all
  <2> QED
    BY <1>2, <1>3, <1>5, SetValuePlaced

LEMMA Typed ==
    ASSUME Placed(text, row, col), NEW token \in {Word, Semicolon, LineEnd}, Type(token)
    PROVE  Placed(text, row, col)'
<1>1. col \in 0..Len(text[row])
  BY DEF Placed
<1>2. CASE token = LineEnd
  BY <1>1, <1>2, EmptyLine, TwoInserted DEF Type
<1>3. CASE token # LineEnd
  <2>1. <<token>> \in Line
    BY <1>3, Singleton DEF Line, Tokens
  <2> QED
    BY <1>1, <1>3, <2>1, OneInserted DEF Type
<1> QED
  BY <1>2, <1>3

LEMMA PickedInserted ==
    ASSUME Placed(text, row, col), picks \in Seq(Queries), InsertPicked
    PROVE  Placed(text, row, col)' /\ picks' \in Seq(Queries)
<1> DEFINE line == <<Head(picks), Semicolon>>
<1>1. Head(picks) \in Queries /\ Tail(picks) \in Seq(Queries)
  BY DEF InsertPicked
<1>2. line \in Line
  BY <1>1 DEF Line, Tokens
<1>3. Len(text[row]) \in 0..Len(text[row])
  BY Here
<1>4. \/ InsertLines(Len(text[row]), <<line>>)
      \/ InsertLines(Len(text[row]), << <<>>, line >>)
  BY DEF InsertPicked
<1>5. Placed(text, row, col)'
  <2> HIDE DEF line
  <2> QED
    BY <1>2, <1>3, <1>4, OneInserted, TwoInserted
<1> QED
  BY <1>1, <1>5 DEF InsertPicked

LEMMA EditorStep ==
    ASSUME EditorInv, [Next]_vars
    PROVE  EditorInv'
<1> DEFINE Rest == /\ register \in Line
                   /\ focus \in {"editor", "table", "aside"}
                   /\ picks \in Seq(Queries)
<1> SUFFICES Placed(text, row, col)' /\ Rest'
  BY ModeStep DEF EditorInv
<1>0. Placed(text, row, col) /\ Rest
  BY DEF EditorInv
<1>1. ASSUME UNCHANGED <<text, cursor>>
      PROVE  Placed(text, row, col)'
  BY <1>0, <1>1 DEF Placed, cursor
<1>2. ASSUME UNCHANGED <<register, focus, picks>>
      PROVE  Rest'
  BY <1>0, <1>2
<1> HIDE DEF Rest
<1>3. ASSUME NEW op \in {"d", "y"}, Operator(op)
      PROVE  Placed(text, row, col)' /\ Rest'
  BY <1>1, <1>2, <1>3 DEF Operator
<1>4. CASE OperatorOff \/ ToInsert
  BY <1>1, <1>2, <1>4 DEF OperatorOff, ToInsert
<1>5. CASE DeleteLine
  BY <1>0, <1>5, LineDeleted DEF DeleteLine, Rest
<1>6. CASE YankLine
  <2>1. register' \in Line
    BY <1>0, <1>6, Here DEF YankLine
  <2> QED
    BY <1>0, <1>1, <1>6, <2>1 DEF YankLine, Rest
<1>7. CASE PasteAfter
  <2>1. register \in Line
    BY <1>0 DEF Rest
  <2> QED
    BY <1>0, <1>2, <1>7, <2>1, Pasted DEF PasteAfter, Still
<1>8. CASE DeleteChar
  BY <1>0, <1>2, <1>8, ForwardDeleted DEF DeleteChar, Still
<1>9. CASE Reset
  BY <1>2, <1>9, Cleared DEF Reset, Still
<1>10. ASSUME NEW to \in Motions, Move(to)
       PROVE  Placed(text, row, col)' /\ Rest'
  <2>1. Placed(text, to[1], to[2])
    BY <1>0, MotionPlaced
  <2>2. text' = text /\ row' = to[1] /\ col' = to[2]
    BY <1>10 DEF Move
  <2> QED
    BY <1>2, <1>10, <2>1, <2>2 DEF Move, Still, Placed
<1>11. CASE ToNormal
  <2>1. Left \in Motions
    BY DEF Motions
  <2>2. Placed(text, Left[1], Left[2])
    BY <1>0, <2>1, MotionPlaced
  <2>3. text' = text /\ row' = Left[1] /\ col' = Left[2]
    BY <1>11 DEF ToNormal
  <2> QED
    BY <1>2, <1>11, <2>2, <2>3 DEF ToNormal, Placed
<1>12. ASSUME NEW token \in {Word, Semicolon, LineEnd}, Type(token)
       PROVE  Placed(text, row, col)' /\ Rest'
  BY <1>0, <1>2, <1>12, Typed DEF Type, Still
<1>13. CASE TypeBackspace
  BY <1>0, <1>2, <1>13, Backspaced DEF TypeBackspace, Still
<1>14. ASSUME NEW panel \in {"table", "aside"}, Leave(panel)
       PROVE  Placed(text, row, col)' /\ Rest'
  BY <1>0, <1>1, <1>14 DEF Leave, Rest
<1>15. CASE NavigateUp
  <2>1. Placed(text, row, col)'
    BY <1>0, <1>1, <1>15, CutAfterCursor DEF NavigateUp
  <2> QED
    BY <1>0, <1>15, <2>1 DEF NavigateUp, Rest
<1>16. CASE Back
  BY <1>0, <1>1, <1>16 DEF Back, Rest
<1>17. ASSUME NEW q \in Queries, Pick(q)
       PROVE  Placed(text, row, col)' /\ Rest'
  <2>1. Append(picks, q) \in Seq(Queries)
    BY <1>0 DEF Rest
  <2> QED
    BY <1>0, <1>1, <1>17, <2>1 DEF Pick, Rest
<1>18. CASE InsertPicked
  <2>1. picks \in Seq(Queries)
    BY <1>0 DEF Rest
  <2> QED
    BY <1>0, <1>18, <2>1, PickedInserted DEF InsertPicked, Rest
<1>19. CASE UNCHANGED vars
  BY <1>1, <1>2, <1>19 DEF vars
<1> QED
  BY <1>3, <1>4, <1>5, <1>6, <1>7, <1>8, <1>9, <1>10, <1>11, <1>12, <1>13, <1>14, <1>15,
     <1>16, <1>17, <1>18, <1>19 DEF Next

LEMMA PlacedIsTyped ==
    ASSUME EditorInv
    PROVE  TypeOK
<1>1. text \in Seq(Line) /\ row \in 1..Len(text) /\ col \in 0..Len(text[row])
  BY DEF EditorInv, Placed
<1>2. text # <<>>
  BY <1>1, EmptySeq
<1>3. \A r \in 1..Len(text) : Range(text[r]) \subseteq Tokens
  BY <1>1, ElementOfSeq, RangeOfSeq DEF Line
<1>4. Range(register) \subseteq Tokens /\ Range(picks) \subseteq Queries
  BY RangeOfSeq DEF EditorInv, Line
<1> QED
  BY <1>1, <1>2, <1>3, <1>4 DEF EditorInv, ModeInv, TypeOK

LEMMA InitEditor == Init => EditorInv
<1>1. ASSUME Init
      PROVE  Placed(text, row, col)
  <2>1. << <<>> >> \in Seq(Line)
    BY EmptyLine, Singleton
  <2>2. Placed(<< <<>> >>, 1, 0)
    BY <2>1, EmptyLine DEF Placed
  <2> QED
    BY <1>1, <2>2 DEF Init
<1>2. <<>> \in Seq(Queries)
  BY EmptySeq
<1> QED
  BY <1>1, <1>2, EmptyLine DEF Init, EditorInv, ModeInv, NoOperatorWhileTyping

(* The cursor is in the text and the text has a line, whatever is deleted, *)
(* pasted, typed or picked (editor.go:100-323).                            *)
THEOREM TypeCorrect == Spec => []TypeOK
BY InitEditor, EditorStep, PlacedIsTyped, PTL DEF Spec
-----------------------------------------------------------------------------
(* Where a line is in a text.                                              *)
Places(line, lines) == {i \in DOMAIN lines : lines[i] = line}

LEMMA PlacesFinite ==
    ASSUME NEW line, NEW lines \in Seq(Line)
    PROVE  /\ Places(line, lines) \subseteq 1..Len(lines)
           /\ IsFiniteSet(Places(line, lines))
           /\ Copies(line, lines) = Cardinality(Places(line, lines))
           /\ Copies(line, lines) \in Nat
<1>1. Places(line, lines) \subseteq 1..Len(lines) /\ Len(lines) \in Nat
  BY DEF Places
<1>2. IsFiniteSet(1..Len(lines))
  BY <1>1, FS_Interval
<1>3. IsFiniteSet(Places(line, lines))
  BY <1>1, <1>2, FS_Subset
<1>4. Copies(line, lines) = Cardinality(Places(line, lines))
  BY DEF Copies, Places
<1> QED
  BY <1>1, <1>3, <1>4, FS_CardinalityType

(* A text has as many copies of a line as one whose lines it has, each at  *)
(* a place of its own.                                                     *)
LEMMA AsManyCopies ==
    ASSUME NEW line, NEW old \in Seq(Line), NEW new \in Seq(Line), NEW without,
           NEW f, DOMAIN f = DOMAIN old,
           \A i \in DOMAIN old \ without : f[i] \in DOMAIN new /\ new[f[i]] = old[i],
           \A i, j \in DOMAIN old \ without : f[i] = f[j] => i = j
    PROVE  Cardinality(Places(line, old) \ without) <= Copies(line, new)
<1> DEFINE S == Places(line, old) \ without
           T == Places(line, new)
           g == [i \in S |-> f[i]]
<1>1. g \in Injection(S, T)
  BY DEF Injection, IsInjective, Places
<1>2. IsFiniteSet(T) /\ Copies(line, new) = Cardinality(T)
  BY PlacesFinite
<1> HIDE DEF S, T, g
<1>3. Cardinality(S) <= Cardinality(T)
  BY <1>1, <1>2, FS_Injection
<1> QED
  BY <1>2, <1>3 DEF S

(* The line with number r is the only one that goes.                       *)
LEMMA AllButOne ==
    ASSUME NEW line, NEW old \in Seq(Line), NEW new \in Seq(Line), NEW r \in DOMAIN old,
           NEW f, DOMAIN f = DOMAIN old,
           \A i \in DOMAIN old \ {r} : f[i] \in DOMAIN new /\ new[f[i]] = old[i],
           \A i, j \in DOMAIN old \ {r} : f[i] = f[j] => i = j
    PROVE  Copies(line, old) <= Copies(line, new) + IF old[r] = line THEN 1 ELSE 0
<1>1. Cardinality(Places(line, old) \ {r}) <= Copies(line, new)
  BY AsManyCopies
<1>2. /\ IsFiniteSet(Places(line, old)) /\ Copies(line, old) = Cardinality(Places(line, old))
      /\ Copies(line, old) \in Nat /\ Copies(line, new) \in Nat
  BY PlacesFinite
<1>3. CASE old[r] = line
  <2>1. r \in Places(line, old)
    BY <1>3 DEF Places
  <2>2. Cardinality(Places(line, old) \ {r}) = Cardinality(Places(line, old)) - 1
    BY <1>2, <2>1, FS_RemoveElement
  <2> QED
    BY <1>1, <1>2, <1>3, <2>2
<1>4. CASE old[r] # line
  <2>1. Places(line, old) \ {r} = Places(line, old)
    BY <1>4 DEF Places
  <2>2. Copies(line, old) <= Copies(line, new)
    BY <1>1, <1>2, <2>1
  <2> QED
    BY <1>2, <1>4, <2>2
<1> QED
  BY <1>3, <1>4

(* One line more, with number r.                                           *)
LEMMA OneMore ==
    ASSUME NEW line, NEW old \in Seq(Line), NEW new \in Seq(Line), NEW r \in Nat,
           Len(new) = Len(old) + 1,
           \A i \in 1..Len(old) : new[IF i < r THEN i ELSE i + 1] = old[i]
    PROVE  Copies(line, old) <= Copies(line, new)
<1> DEFINE f == [i \in DOMAIN old |-> IF i < r THEN i ELSE i + 1]
<1>1. /\ DOMAIN f = DOMAIN old
      /\ \A i \in DOMAIN old \ {} : f[i] \in DOMAIN new /\ new[f[i]] = old[i]
      /\ \A i, j \in DOMAIN old \ {} : f[i] = f[j] => i = j
  OBVIOUS
<1> HIDE DEF f
<1>2. Cardinality(Places(line, old) \ {}) <= Copies(line, new)
  BY <1>1, AsManyCopies
<1>3. Places(line, old) \ {} = Places(line, old)
  OBVIOUS
<1> QED
  BY <1>2, <1>3, PlacesFinite
-----------------------------------------------------------------------------
LEMMA Concatenated ==
    ASSUME NEW front \in Seq(Line), NEW back \in Seq(Line)
    PROVE  /\ front \o back \in Seq(Line) /\ Len(front \o back) = Len(front) + Len(back)
           /\ \A i \in 1..Len(front) : (front \o back)[i] = front[i]
           /\ \A i \in 1..Len(back) : (front \o back)[Len(front) + i] = back[i]
<1>1. Len(front) \in Nat /\ Len(back) \in Nat
  BY LenProperties
<1> QED
  BY <1>1, ConcatProperties

(* The lines above a row and those from another one on.                    *)
LEMMA Parted ==
    ASSUME NEW lines \in Seq(Line), NEW r \in 0..Len(lines), NEW k \in 0..Len(lines)
    PROVE  /\ SubSeq(lines, 1, r) \in Seq(Line) /\ Len(SubSeq(lines, 1, r)) = r
           /\ \A i \in 1..r : SubSeq(lines, 1, r)[i] = lines[i]
           /\ SubSeq(lines, k + 1, Len(lines)) \in Seq(Line)
           /\ Len(SubSeq(lines, k + 1, Len(lines))) = Len(lines) - k
           /\ \A i \in 1..(Len(lines) - k) : SubSeq(lines, k + 1, Len(lines))[i] = lines[k + i]
<1>1. Len(lines) \in Nat /\ \A i \in 1..Len(lines) : lines[i] \in Line
  BY LenProperties, ElementOfSeq
<1>2. \A i \in 1..r : lines[i] \in Line
  BY <1>1
<1>3. \A i \in (k + 1)..Len(lines) : lines[i] \in Line
  BY <1>1
<1> DEFINE cut == SubSeq(lines, k + 1, Len(lines))
<1>4. /\ cut \in Seq(Line)
      /\ Len(cut) = IF k + 1 <= Len(lines) THEN Len(lines) - (k + 1) + 1 ELSE 0
      /\ \A i \in 1..(Len(lines) - (k + 1) + 1) : cut[i] = lines[k + 1 + i - 1]
  BY <1>1, <1>3, SubSeqProperties
<1> HIDE DEF cut
<1>5. /\ Len(cut) = Len(lines) - k
      /\ \A i \in 1..(Len(lines) - k) : k + 1 + i - 1 = k + i
      /\ Len(lines) - (k + 1) + 1 = Len(lines) - k
  BY <1>1, <1>4
<1>6. \A i \in 1..(Len(lines) - k) : cut[i] = lines[k + i]
  BY <1>4, <1>5
<1>7. /\ SubSeq(lines, 1, r) \in Seq(Line) /\ Len(SubSeq(lines, 1, r)) = r
      /\ \A i \in 1..r : SubSeq(lines, 1, r)[i] = lines[i]
  BY <1>1, <1>2, SubSeqProperties
<1> QED
  BY <1>4, <1>5, <1>6, <1>7 DEF cut

LEMMA DeleteLineKeeps ==
    ASSUME Placed(text, row, col), DeleteLine, NEW line, line # <<>>
    PROVE  Copies(line, text) <= Copies(line, text') + IF register' = line THEN 1 ELSE 0
<1>1. text \in Seq(Line) /\ row \in 1..Len(text) /\ Len(text) \in Nat
  BY LenProperties DEF Placed
<1> DEFINE above == SubSeq(text, 1, row - 1)
           below == SubSeq(text, row + 1, Len(text))
           rest == above \o below
           f == [i \in DOMAIN text |-> IF i < row THEN i ELSE i - 1]
<1>2. /\ above \in Seq(Line) /\ Len(above) = row - 1
      /\ \A i \in 1..(row - 1) : above[i] = text[i]
      /\ below \in Seq(Line) /\ Len(below) = Len(text) - row
      /\ \A i \in 1..(Len(text) - row) : below[i] = text[row + i]
  <2>1. row - 1 \in 0..Len(text) /\ row \in 0..Len(text)
    BY <1>1
  <2> QED
    BY <1>1, <2>1, Parted
<1>3. /\ rest \in Seq(Line) /\ Len(rest) = Len(text) - 1
      /\ \A i \in 1..(row - 1) : rest[i] = text[i]
      /\ \A i \in (row + 1)..Len(text) : rest[i - 1] = text[i]
  <2> HIDE DEF above, below
  <2>1. /\ above \o below \in Seq(Line) /\ Len(above \o below) = Len(above) + Len(below)
        /\ \A i \in 1..Len(above) : (above \o below)[i] = above[i]
        /\ \A i \in 1..Len(below) : (above \o below)[Len(above) + i] = below[i]
    BY <1>2, Concatenated
  <2>2. /\ rest \in Seq(Line) /\ Len(rest) = Len(text) - 1
        /\ \A i \in 1..(row - 1) : rest[i] = text[i]
    BY <1>1, <1>2, <2>1
  <2>3. ASSUME NEW i \in (row + 1)..Len(text)
        PROVE  rest[i - 1] = text[i]
    <3>1. i - row \in 1..(Len(text) - row) /\ Len(above) + (i - row) = i - 1
      BY <1>1, <1>2
    <3>2. below[i - row] = text[row + (i - row)] /\ row + (i - row) = i
      BY <1>1, <1>2, <3>1
    <3> QED
      BY <1>2, <2>1, <3>1, <3>2
  <2> QED
    BY <2>2, <2>3
<1>4. register' = text[row] /\ text' = IF rest = <<>> THEN << <<>> >> ELSE rest
  BY DEF DeleteLine, Put, Lines
<1> HIDE DEF above, below, rest
<1>5. CASE rest # <<>>
  <2>1. /\ DOMAIN f = DOMAIN text
        /\ \A i \in DOMAIN text \ {row} : f[i] \in DOMAIN rest /\ rest[f[i]] = text[i]
        /\ \A i, j \in DOMAIN text \ {row} : f[i] = f[j] => i = j
    <3>1. DOMAIN text = 1..Len(text) /\ DOMAIN rest = 1..(Len(text) - 1) /\ DOMAIN f = DOMAIN text
      BY <1>1, <1>3
    <3>2. \A i \in 1..(row - 1) : i \in 1..Len(text) /\ i \in 1..(Len(text) - 1) /\ f[i] = i
      BY <1>1, <3>1
    <3>3. \A i \in (row + 1)..Len(text) :
              i \in 1..Len(text) /\ i - 1 \in 1..(Len(text) - 1) /\ f[i] = i - 1
      BY <1>1, <3>1
    <3>4. \A i \in DOMAIN text \ {row} : i \in 1..(row - 1) \/ i \in (row + 1)..Len(text)
      BY <1>1, <3>1
    <3> HIDE DEF f
    <3>5. ASSUME NEW i \in DOMAIN text \ {row}, NEW j \in DOMAIN text \ {row}, f[i] = f[j]
          PROVE  i = j
      <4>1. \/ i \in 1..(row - 1) /\ f[i] = i
            \/ i \in (row + 1)..Len(text) /\ f[i] = i - 1
        BY <3>2, <3>3, <3>4
      <4>2. \/ j \in 1..(row - 1) /\ f[j] = j
            \/ j \in (row + 1)..Len(text) /\ f[j] = j - 1
        BY <3>2, <3>3, <3>4
      <4> QED
        BY <1>1, <3>5, <4>1, <4>2
    <3>6. ASSUME NEW i \in DOMAIN text \ {row} PROVE f[i] \in DOMAIN rest /\ rest[f[i]] = text[i]
      <4>1. CASE i \in 1..(row - 1)
        BY <1>3, <3>1, <3>2, <4>1
      <4>2. CASE i \in (row + 1)..Len(text)
        BY <1>3, <3>1, <3>3, <4>2
      <4> QED
        BY <3>4, <4>1, <4>2
    <3> QED
      BY <3>1, <3>5, <3>6
  <2> HIDE DEF f
  <2>3. rest \in Seq(Line) /\ register' = text[row] /\ text' = rest
    BY <1>3, <1>4, <1>5
  <2>2. row \in DOMAIN text
    BY <1>1
  <2> QED
    BY <1>1, <2>1, <2>2, <2>3, AllButOne
<1>6. CASE rest = <<>>
  <2>1. Len(text) = 1 /\ row = 1
    <3>1. Len(rest) = 0
      BY <1>6, EmptySeq
    <3>2. Len(text) - 1 = 0
      BY <1>3, <3>1
    <3> QED
      BY <1>1, <3>2
  <2>2. << <<>> >> \in Seq(Line)
    BY EmptyLine, Singleton
  <2>3. \A i \in DOMAIN text \ {row} : FALSE
    BY <1>1, <2>1
  <2> DEFINE new == << <<>> >>
             h == [i \in DOMAIN text |-> i]
  <2>4. /\ \A i \in DOMAIN text \ {row} : h[i] \in DOMAIN new /\ new[h[i]] = text[i]
        /\ \A i, j \in DOMAIN text \ {row} : h[i] = h[j] => i = j
        /\ DOMAIN h = DOMAIN text
    BY <2>3
  <2>5. row \in DOMAIN text
    BY <1>1
  <2> HIDE DEF new, h
  <2>6. new \in Seq(Line) /\ text' = new
    BY <1>4, <1>6, <2>2 DEF new
  <2> QED
    BY <1>1, <1>4, <2>4, <2>5, <2>6, AllButOne
<1> QED
  BY <1>5, <1>6

(* A text with a line more below the row.                                  *)
LEMMA InsertedBelow ==
    ASSUME NEW lines \in Seq(Line), NEW r \in 0..Len(lines), NEW new \in Line, NEW line
    PROVE  LET all == SubSeq(lines, 1, r) \o <<new>> \o SubSeq(lines, r + 1, Len(lines))
           IN  all \in Seq(Line) /\ Copies(line, lines) <= Copies(line, all)
<1> DEFINE above == SubSeq(lines, 1, r)
           below == SubSeq(lines, r + 1, Len(lines))
           head == above \o <<new>>
           all == head \o below
<1>1. Len(lines) \in Nat
  BY LenProperties
<1>2. /\ above \in Seq(Line) /\ Len(above) = r
      /\ \A i \in 1..r : above[i] = lines[i]
      /\ below \in Seq(Line) /\ Len(below) = Len(lines) - r
      /\ \A i \in 1..(Len(lines) - r) : below[i] = lines[r + i]
  BY Parted
<1>3. <<new>> \in Seq(Line) /\ Len(<<new>>) = 1
  BY Singleton
<1>4. /\ head \in Seq(Line) /\ Len(head) = r + 1
      /\ \A i \in 1..r : head[i] = lines[i]
  <2> HIDE DEF above
  <2>1. /\ above \o <<new>> \in Seq(Line) /\ Len(above \o <<new>>) = Len(above) + Len(<<new>>)
        /\ \A i \in 1..Len(above) : (above \o <<new>>)[i] = above[i]
    BY <1>2, <1>3, Concatenated
  <2> QED
    BY <1>2, <1>3, <2>1
<1>5. /\ all \in Seq(Line) /\ Len(all) = Len(lines) + 1
      /\ \A i \in 1..Len(lines) : all[IF i < r + 1 THEN i ELSE i + 1] = lines[i]
  <2> HIDE DEF head, below
  <2>1. /\ head \o below \in Seq(Line) /\ Len(head \o below) = Len(head) + Len(below)
        /\ \A i \in 1..Len(head) : (head \o below)[i] = head[i]
        /\ \A i \in 1..Len(below) : (head \o below)[Len(head) + i] = below[i]
    BY <1>2, <1>4, Concatenated
  <2>2. all \in Seq(Line) /\ Len(all) = Len(lines) + 1
    BY <1>1, <1>2, <1>4, <2>1
  <2>3. ASSUME NEW i \in 1..Len(lines)
        PROVE  all[IF i < r + 1 THEN i ELSE i + 1] = lines[i]
    <3>1. CASE i < r + 1
      BY <1>1, <1>4, <2>1, <3>1
    <3>2. CASE ~(i < r + 1)
      <4>1. i - r \in 1..(Len(lines) - r) /\ Len(head) + (i - r) = i + 1
        BY <1>1, <1>4, <3>2
      <4>2. below[i - r] = lines[r + (i - r)] /\ r + (i - r) = i
        BY <1>1, <1>2, <4>1
      <4> QED
        BY <1>2, <2>1, <3>2, <4>1, <4>2
    <3> QED
      BY <3>1, <3>2
  <2> QED
    BY <2>2, <2>3
<1> HIDE DEF all
<1>6. r + 1 \in Nat
  BY <1>1
<1>7. Copies(line, lines) <= Copies(line, all)
  BY <1>5, <1>6, OneMore
<1> QED
  BY <1>5, <1>7 DEF all

LEMMA PasteKeeps ==
    ASSUME Placed(text, row, col), register \in Line, PasteAfter, NEW line
    PROVE  Copies(line, text) <= Copies(line, text')
<1>1. text \in Seq(Line) /\ row \in 0..Len(text)
  BY DEF Placed
<1>2. text' = SubSeq(text, 1, row) \o <<register>> \o SubSeq(text, row + 1, Len(text))
  BY DEF PasteAfter, SetValue, Put, Lines
<1> QED
  BY <1>1, <1>2, InsertedBelow

(* A query is inserted below the row, whose line stays as it is.           *)
LEMMA PickedBelow ==
    ASSUME Placed(text, row, col), picks \in Seq(Queries), InsertPicked, text # << <<>> >>
    PROVE  /\ Head(picks) \in Queries
           /\ <<Head(picks), Semicolon>> \in Line
           /\ text' = SubSeq(text, 1, row) \o << <<Head(picks), Semicolon>> >>
                         \o SubSeq(text, row + 1, Len(text))
<1> DEFINE new == <<Head(picks), Semicolon>>
           end == Len(text[row])
           lines == << <<>>, new >>
           whole == Before(text[row], end) \o <<>>
           last == new \o After(text[row], end)
           above == Lines(1, row - 1)
           below == Lines(row + 1, Len(text))
<1>1. text \in Seq(Line) /\ row \in 1..Len(text) /\ Len(text) \in Nat
  BY LenProperties DEF Placed
<1>2. text[row] \in Line /\ end \in Nat
  BY Here
<1>3. InsertLines(end, lines)
  BY DEF InsertPicked
<1>4. text' = above \o <<whole>> \o <<last>> \o below
  <2>1. SubSeq(lines, 2, Len(lines)) = <<new>>
    BY SecondOfTwo
  <2>2. Front(<<whole>> \o <<new>>) = <<whole>>
    <3> HIDE DEF whole, new
    <3> QED
      BY FrontOfTwo
  <2>3. Len(lines) = 2 /\ Head(lines) = <<>> /\ Last(lines) = new
    BY DEF Last
  <2>4. text' = above \o Front(<<Before(text[row], end) \o Head(lines)>>
                                 \o SubSeq(lines, 2, Len(lines)))
                      \o << Last(lines) \o After(text[row], end) >> \o below
    <3>1. Len(lines) # 1
      BY <2>3
    <3> QED
      <4> HIDE DEF lines, new, end
      <4> QED
        BY <1>3, <3>1 DEF InsertLines, Put
  <2> QED
    <3> HIDE DEF lines, above, below
    <3> QED
      BY <2>1, <2>2, <2>3, <2>4
<1>5. whole = text[row]
  <2>1. \A i \in 1..end : text[row][i] \in Tokens
    BY <1>2, ElementOfSeq DEF Line
  <2> DEFINE cut == SubSeq(text[row], 1, end)
  <2>2. cut \in Seq(Tokens) /\ Len(cut) = end /\ \A i \in 1..end : cut[i] = text[row][i]
    BY <1>2, <2>1, SubSeqProperties
  <2>3. text[row] \in Seq(Tokens)
    BY <1>2 DEF Line
  <2>4. cut = text[row]
    <3> HIDE DEF cut
    <3> QED
      BY <2>2, <2>3, SeqEqual
  <2>5. text[row] \o <<>> = text[row]
    BY <2>3, ConcatEmptySeq
  <2> QED
    BY <2>4, <2>5 DEF Before
<1>6. Head(picks) \in Queries /\ new \in Line /\ last = new
  <2>1. Head(picks) \in Queries
    BY DEF InsertPicked
  <2>2. new \in Line
    BY <2>1 DEF Line, Tokens
  <2>3. After(text[row], end) = <<>>
    <3>1. SubSeq(text[row], end + 1, end) = <<>>
      <4>1. end + 1 \in Int /\ end \in Int /\ end < end + 1
        BY <1>2
      <4> HIDE DEF end
      <4> QED
        BY <4>1, SubSeqEmpty
    <3> QED
      BY <3>1 DEF After
  <2>4. new \o <<>> = new
    <3> HIDE DEF new
    <3> QED
      BY <2>2, ConcatEmptySeq DEF Line
  <2> QED
    BY <2>1, <2>2, <2>3, <2>4
<1>7. above \o <<text[row]>> = SubSeq(text, 1, row)
  <2> DEFINE upto == SubSeq(text, 1, row)
  <2>1. /\ upto \in Seq(Line) /\ Len(upto) = row
        /\ \A i \in 1..row : upto[i] = text[i]
    BY <1>1, Parted
  <2>2. /\ above \in Seq(Line) /\ Len(above) = row - 1
        /\ \A i \in 1..(row - 1) : above[i] = text[i]
    <3>1. row - 1 \in 0..Len(text)
      BY <1>1
    <3> QED
      BY <1>1, <3>1, Parted DEF Lines
  <2> DEFINE one == <<text[row]>>
  <2>3. one \in Seq(Line) /\ Len(one) = 1 /\ one[1] = text[row]
    BY <1>2, Singleton
  <2> HIDE DEF upto, above, one
  <2>4. /\ above \o one \in Seq(Line) /\ Len(above \o one) = Len(above) + Len(one)
        /\ \A i \in 1..Len(above) : (above \o one)[i] = above[i]
        /\ \A i \in 1..Len(one) : (above \o one)[Len(above) + i] = one[i]
    BY <2>2, <2>3, Concatenated
  <2>5. Len(above \o one) = row /\ \A i \in 1..row : (above \o one)[i] = upto[i]
    <3>1. Len(above \o one) = row
      BY <1>1, <2>2, <2>3, <2>4
    <3>2. \A i \in 1..(row - 1) : (above \o one)[i] = upto[i]
      <4>1. \A i \in 1..(row - 1) : i \in 1..Len(above) /\ i \in 1..row
        BY <1>1, <2>2
      <4>2. \A i \in 1..(row - 1) : (above \o one)[i] = text[i]
        BY <2>2, <2>4, <4>1
      <4> QED
        BY <2>1, <4>1, <4>2
    <3>3. (above \o one)[row] = upto[row]
      BY <1>1, <2>1, <2>2, <2>3, <2>4
    <3> QED
      BY <1>1, <3>1, <3>2, <3>3
  <2>6. above \o one = upto
    BY <2>1, <2>4, <2>5, SeqEqual
  <2> QED
    BY <2>6 DEF one, upto
<1>8. text' = SubSeq(text, 1, row) \o <<new>> \o SubSeq(text, row + 1, Len(text))
  <2> HIDE DEF above, whole, last, new
  <2> QED
    BY <1>4, <1>5, <1>6, <1>7 DEF Lines
<1> QED
  BY <1>6, <1>8

LEMMA PickKeeps ==
    ASSUME Placed(text, row, col), picks \in Seq(Queries), InsertPicked,
           text # << <<>> >>, NEW line
    PROVE  Copies(line, text) <= Copies(line, text')
<1>1. text \in Seq(Line) /\ row \in 0..Len(text)
  BY DEF Placed
<1> QED
  BY <1>1, PickedBelow, InsertedBelow

(* Operators, pastes, picks, motions and changes of focus lose no line but *)
(* the one in the register, in a text of any length (editor.go:100-323);   *)
(* so a dd can be undone by p, and nothing else has to be.                 *)
THEOREM NoLineLost == Spec => LinesKept
<1> DEFINE Kept(line) ==
        Copies(line, text) <= Copies(line, text') + IF register' = line THEN 1 ELSE 0
<1>1. ASSUME EditorInv, [Next]_vars, ~(Erases \/ CutByKey),
             NEW line \in Range(text) \ {<<>>}
      PROVE  Kept(line)
  <2>1. Placed(text, row, col) /\ register \in Line /\ picks \in Seq(Queries)
    BY <1>1 DEF EditorInv
  <2>2. text \in Seq(Line) /\ text' \in Seq(Line)
    BY <1>1, EditorStep DEF EditorInv, Placed
  <2>3. Copies(line, text) \in Nat /\ Copies(line, text') \in Nat
    BY <2>2, PlacesFinite
  <2>4. CASE text' = text
    BY <2>3, <2>4
  <2>5. ASSUME Copies(line, text) <= Copies(line, text') PROVE Kept(line)
    BY <2>3, <2>5
  <2>6. CASE DeleteLine
    BY <1>1, <2>1, <2>6, DeleteLineKeeps
  <2>7. CASE PasteAfter
    BY <2>1, <2>5, <2>7, PasteKeeps
  <2>8. CASE InsertPicked
    <3>1. text # << <<>> >>
      <4>1. Range(<< <<>> >>) \subseteq {<<>>}
        BY DEF Range
      <4> QED
        BY <1>1, <4>1
    <3> QED
      BY <2>1, <2>5, <2>8, <3>1, PickKeeps
  <2>9. CASE NavigateUp
    BY <1>1, <2>4, <2>9 DEF NavigateUp, CutByKey
  <2>10. CASE ~(DeleteLine \/ PasteAfter \/ InsertPicked \/ NavigateUp)
    <3>1. text' = text
      BY <1>1, <2>10 DEF Next, Operator, OperatorOff, YankLine, Move, ToInsert, ToNormal, Leave,
         Back, Pick, Erases, CutByKey, vars
    <3> QED
      BY <2>4, <3>1
  <2> QED
    BY <2>6, <2>7, <2>8, <2>9, <2>10
<1>2. EditorInv /\ [Next]_vars =>
        [(Erases \/ CutByKey) \/
            \A line \in Range(text) \ {<<>>} : Kept(line)]_vars
  BY <1>1
<1> QED
  BY <1>2, EditorStep, InitEditor, PTL DEF Spec, LinesKept
-----------------------------------------------------------------------------
(* Every set of numbers has a least one, a bounded one a greatest one.     *)
LEMMA Least ==
    ASSUME NEW T, T \subseteq Nat, T # {}
    PROVE  \E n \in T : \A m \in T : n <= m
<1>1. PICK R : IsWellFoundedOn(R, Nat) /\ \A x, y \in Nat : <<x, y>> \in R <=> x < y
  <2>1. \A x, y \in Nat : <<x, y>> \in OpToRel(<, Nat) <=> x < y
    BY DEF OpToRel
  <2> QED
    BY <2>1, NatLessThanWellFounded
<1>2. IsWellFoundedOn(R, Nat)
  BY <1>1
<1>3. \E n \in T : \A y \in T : ~ (<<y, n>> \in R)
  BY ONLY <1>2, WFMin, T \subseteq Nat, T # {}, Zenon
<1>4. PICK n \in T : \A y \in T : ~(y < n)
  BY <1>1, <1>3
<1>5. \A y \in T : n <= y
  BY <1>4
<1> QED
  BY <1>5

LEMMA Greatest ==
    ASSUME NEW T, T \subseteq Nat, T # {}, NEW top \in Nat, \A t \in T : t <= top
    PROVE  \E n \in T : \A m \in T : m <= n
<1> DEFINE U == {top - t : t \in T}
<1>1. U \subseteq Nat /\ U # {}
  <2>1. \A t \in T : top - t \in Nat
    OBVIOUS
  <2>2. \E t : t \in T
    OBVIOUS
  <2> QED
    BY <2>1, <2>2
<1>2. PICK u \in U : \A v \in U : u <= v
  <2> HIDE DEF U
  <2> QED
    BY <1>1, Least
<1>3. PICK n \in T : u = top - n
  OBVIOUS
<1>4. ASSUME NEW m \in T PROVE m <= n
  <2>1. top - m \in U
    OBVIOUS
  <2>2. u <= top - m
    BY <1>2, <2>1
  <2> QED
    BY <1>3, <2>2
<1> QED
  BY <1>4

(* Induction up to n.                                                      *)
LEMMA InductionUpTo ==
    ASSUME NEW n \in Nat, NEW H, 0 \in H, \A i \in 1..n : i - 1 \in H => i \in H
    PROVE  \A i \in 0..n : i \in H
<1> DEFINE T == (0..n) \ H
<1> SUFFICES ASSUME T # {} PROVE FALSE
  OBVIOUS
<1>1. T \subseteq Nat
  OBVIOUS
<1>2. PICK i \in T : \A m \in T : i <= m
  <2> HIDE DEF T
  <2> QED
    BY <1>1, Least
<1>3. i \in 1..n
  BY <1>2
<1>4. i - 1 \notin T /\ i - 1 \in 0..n
  BY <1>2, <1>3
<1>5. i \in H
  BY <1>3, <1>4
<1> QED
  BY <1>2, <1>5

(* What is defined step by step exists.                                    *)
Follows(f, n, S, base, step) ==
    f \in [0..n -> S] /\ f[0] = base /\ \A i \in 1..n : f[i] = step[i][f[i - 1]]

LEMMA Recursion ==
    ASSUME NEW n \in Nat, NEW S, NEW base \in S, NEW step \in [1..n -> [S -> S]]
    PROVE  \E f : Follows(f, n, S, base, step)
<1> DEFINE Good(k, f) == f[0] = base /\ \A i \in 1..k : f[i] = step[i][f[i - 1]]
           H == {k \in 0..n : \E f \in [0..k -> S] : Good(k, f)}
<1>1. 0 \in H
  <2> DEFINE f == [i \in 0..0 |-> base]
  <2>1. f \in [0..0 -> S] /\ Good(0, f)
    OBVIOUS
  <2> HIDE DEF f, Good
  <2> QED
    BY <2>1
<1>2. ASSUME NEW k \in 1..n, k - 1 \in H PROVE k \in H
  <2>1. PICK f \in [0..(k - 1) -> S] : Good(k - 1, f)
    BY <1>2
  <2> DEFINE e == step[k][f[k - 1]]
             h == [i \in 0..k |-> IF i = k THEN e ELSE f[i]]
  <2>2. e \in S
    <3>1. f[k - 1] \in S /\ step[k] \in [S -> S]
      OBVIOUS
    <3> QED
      BY <3>1
  <2>3. h \in [0..k -> S]
    <3> HIDE DEF e
    <3>1. ASSUME NEW i \in 0..k PROVE (IF i = k THEN e ELSE f[i]) \in S
      BY <2>2
    <3> QED
      BY <3>1
  <2>4. h[k] = e /\ \A i \in 0..(k - 1) : h[i] = f[i]
    <3> HIDE DEF e
    <3> QED
      OBVIOUS
  <2>5. h[0] = base
    <3> HIDE DEF h
    <3> QED
      BY <2>1, <2>4
  <2>6. ASSUME NEW i \in 1..k PROVE h[i] = step[i][h[i - 1]]
    <3> HIDE DEF h
    <3>1. h[i - 1] = f[i - 1]
      BY <2>4
    <3>2. CASE i = k
      BY <2>4, <3>1, <3>2
    <3>3. CASE i # k
      <4>1. i \in 1..(k - 1) /\ h[i] = f[i]
        BY <2>4, <3>3
      <4> QED
        BY <2>1, <3>1, <4>1
    <3> QED
      BY <3>2, <3>3
  <2>7. Good(k, h)
    <3> HIDE DEF h
    <3> QED
      BY <2>5, <2>6
  <2> HIDE DEF h, Good
  <2> QED
    BY <2>3, <2>7
<1>3. n \in H
  <2> HIDE DEF H
  <2>1. \A i \in 1..n : i - 1 \in H => i \in H
    BY <1>2
  <2>2. \A i \in 0..n : i \in H
    BY <1>1, <2>1, InductionUpTo, Zenon
  <2> QED
    BY <2>2
<1> QED
  BY <1>3 DEF Follows

-----------------------------------------------------------------------------
(* The statements of a text.                                               *)

Stream == Seq(Tokens \cup {LineEnd})

LEMMA EndsOfSet ==
    ASSUME NEW T, T \subseteq Nat, T # {}, NEW top \in Nat, \A t \in T : t <= top
    PROVE  /\ Min(T) \in T /\ \A t \in T : Min(T) <= t
           /\ Max(T) \in T /\ \A t \in T : t <= Max(T)
<1>1. \E x \in T : \A y \in T : x =< y
  BY Least
<1>2. \E x \in T : \A y \in T : x >= y
  <2>1. PICK x \in T : \A y \in T : y <= x
    BY Greatest
  <2> QED
    BY <2>1
<1>3. Min(T) \in T /\ \A t \in T : Min(T) =< t
  BY <1>1 DEF Min
<1>4. Max(T) \in T /\ \A t \in T : Max(T) >= t
  BY <1>2 DEF Max
<1> DEFINE high == Max(T)
<1>5. \A t \in T : t <= high
  <2>1. high \in T /\ \A t \in T : high >= t
    BY <1>4
  <2> HIDE DEF high
  <2> QED
    BY <2>1
<1> QED
  BY <1>3, <1>4, <1>5

LEMMA MinIs ==
    ASSUME NEW T, T \subseteq Nat, NEW x \in T, \A t \in T : x <= t
    PROVE  Min(T) = x
<1>1. \A y \in T : (\A t \in T : y =< t) => y = x
  OBVIOUS
<1> QED
  BY <1>1 DEF Min

LEMMA MaxIs ==
    ASSUME NEW T, T \subseteq Nat, NEW x \in T, \A t \in T : t <= x
    PROVE  Max(T) = x
<1>1. \A y \in T : (\A t \in T : y >= t) => y = x
  OBVIOUS
<1>2. \A t \in T : x >= t
  OBVIOUS
<1> QED
  BY <1>1, <1>2 DEF Max

LEMMA SolidIn ==
    ASSUME NEW tokens \in Stream, NEW i \in 1..(Len(tokens) + 1), Solid(tokens, i) # {}
    PROVE  Statement(tokens, i) \in Stream
<1> DEFINE T == Solid(tokens, i)
           low == Min(T)
           high == Max(T)
<1>1. Len(tokens) \in Nat
  BY LenProperties DEF Stream
<1>2. T \subseteq 1..Len(tokens)
  BY <1>1 DEF Solid
<1>3. T # {} /\ T \subseteq Nat /\ \A t \in T : t <= Len(tokens)
  BY <1>1, <1>2
<1> HIDE DEF T
<1>4. low \in T /\ high \in T
  BY <1>1, <1>3, EndsOfSet
<1>5. Statement(tokens, i) = SubSeq(tokens, low, high)
  BY DEF Statement, T
<1> HIDE DEF low, high
<1>6. \A k \in low..high : tokens[k] \in Tokens \cup {LineEnd}
  <2>1. \A k \in low..high : k \in 1..Len(tokens)
    BY <1>1, <1>2, <1>4
  <2> QED
    BY <2>1, ElementOfSeq DEF Stream
<1>7. low \in Int /\ high \in Int
  BY <1>2, <1>4
<1>8. SubSeq(tokens, low, high) \in Stream
  BY <1>6, <1>7, SubSeqProperties DEF Stream
<1> QED
  BY <1>5, <1>8

(* What is gathered when the token at i is reached.                        *)
Gather(tokens, before, i) ==
    IF Ends(tokens, i) THEN Append(before, Statement(tokens, i)) ELSE before

Gathers(upto, tokens) ==
    /\ upto \in [0..(Len(tokens) + 1) -> Seq(Stream)]
    /\ upto[0] = <<>>
    /\ \A i \in 1..(Len(tokens) + 1) : upto[i] = Gather(tokens, upto[i - 1], i)

LEMMA Gathered ==
    ASSUME NEW tokens \in Stream
    PROVE  \E upto : Gathers(upto, tokens) /\ Statements(tokens) = upto[Len(tokens) + 1]
<1> DEFINE n == Len(tokens) + 1
           S == Seq(Stream)
           empty == <<>>
           step == [i \in 1..n |-> [before \in S |-> Gather(tokens, before, i)]]
<1>1. n \in Nat
  BY LenProperties DEF Stream
<1>2. ASSUME NEW i \in 1..n, NEW before \in S PROVE Gather(tokens, before, i) \in S
  <2>1. CASE Ends(tokens, i)
    <3>1. Statement(tokens, i) \in Stream
      BY <2>1, SolidIn DEF Ends
    <3>2. Append(before, Statement(tokens, i)) \in Seq(Stream)
      BY <3>1, AppendProperties
    <3> QED
      BY <2>1, <3>2 DEF Gather
  <2> QED
    BY <2>1 DEF Gather
<1>3. step \in [1..n -> [S -> S]]
  <2> HIDE DEF S, n
  <2> QED
    BY <1>2
<1>4. empty \in S
  BY EmptySeq
<1>5. PICK f : Follows(f, n, S, empty, step)
  <2> HIDE DEF step, S, empty, n
  <2> QED
    BY <1>1, <1>3, <1>4, Recursion
<1>6. \A i \in 1..n : f[i] = Gather(tokens, f[i - 1], i)
  <2> TAKE i \in 1..n
  <2> HIDE DEF S, n
  <2>1. f[i - 1] \in S
    BY <1>1, <1>5 DEF Follows
  <2> QED
    BY <1>5, <2>1 DEF Follows
<1>7. f \in [0..n -> S] /\ f[0] = <<>>
  BY <1>5 DEF Follows
<1> HIDE DEF step, S, empty, n
<1>8. f = [i \in 0..n |-> IF i = 0 THEN <<>>
                          ELSE IF Ends(tokens, i) THEN Append(f[i - 1], Statement(tokens, i))
                          ELSE f[i - 1]]
  <2>1. \A i \in 0..n : i # 0 => i \in 1..n
    BY <1>1
  <2> QED
    BY <1>6, <1>7, <2>1 DEF Gather
<1> DEFINE g == CHOOSE h : h =
        [i \in 0..n |-> IF i = 0 THEN <<>>
                        ELSE IF Ends(tokens, i) THEN Append(h[i - 1], Statement(tokens, i))
                        ELSE h[i - 1]]
<1>9. g = [i \in 0..n |-> IF i = 0 THEN <<>>
                          ELSE IF Ends(tokens, i) THEN Append(g[i - 1], Statement(tokens, i))
                          ELSE g[i - 1]]
  BY <1>8
<1>10. Statements(tokens) = g[n]
  BY DEF Statements, n
<1> HIDE DEF g
<1>11. g[0] = <<>> /\ \A i \in 1..n : g[i] = Gather(tokens, g[i - 1], i)
  <2>1. 0 \in 0..n /\ \A i \in 1..n : i \in 0..n /\ i # 0
    BY <1>1
  <2> QED
    BY <1>9, <2>1 DEF Gather
<1>12. \A i \in 0..n : g[i] \in S
  <2> DEFINE H == {i \in 0..n : g[i] \in S}
  <2>1. 0 \in H
    BY <1>1, <1>4, <1>11 DEF empty
  <2>2. \A i \in 1..n : i - 1 \in H => i \in H
    BY <1>1, <1>2, <1>11
  <2> HIDE DEF H
  <2>3. \A i \in 0..n : i \in H
    BY <1>1, <2>1, <2>2, InductionUpTo, Zenon
  <2> QED
    BY <2>3 DEF H
<1>13. g \in [0..n -> S]
  <2>1. g = [i \in 0..n |-> g[i]]
    BY <1>9
  <2> QED
    BY <1>12, <2>1
<1>14. Gathers(g, tokens)
  BY <1>11, <1>13 DEF Gathers, n, S
<1> QED
  BY <1>10, <1>14 DEF n

LEMMA Streams ==
    ASSUME NEW a \in Stream, NEW b \in Stream
    PROVE  /\ Len(a) \in Nat /\ Len(b) \in Nat
           /\ a \o b \in Stream /\ Len(a \o b) = Len(a) + Len(b)
           /\ \A k \in 1..Len(a) : (a \o b)[k] = a[k]
           /\ \A k \in 1..Len(b) : (a \o b)[Len(a) + k] = b[k]
<1>1. Len(a) \in Nat /\ Len(b) \in Nat
  BY LenProperties DEF Stream
<1>2. /\ a \o b \in Stream /\ Len(a \o b) = Len(a) + Len(b)
      /\ \A i \in 1..(Len(a) + Len(b)) :
            (a \o b)[i] = IF i <= Len(a) THEN a[i] ELSE b[i - Len(a)]
  BY ConcatProperties DEF Stream
<1> QED
  BY <1>1, <1>2

(* What ends in the first of two texts is not touched by the second.       *)
LEMMA FirstPart ==
    ASSUME NEW a \in Stream, NEW b \in Stream, NEW i \in 1..Len(a)
    PROVE  /\ Ends(a \o b, i) <=> Ends(a, i)
           /\ Ends(a, i) => Statement(a \o b, i) = Statement(a, i)
<1> DEFINE c == a \o b
           T == Solid(a, i)
<1>1. /\ Len(a) \in Nat /\ Len(b) \in Nat /\ Len(c) = Len(a) + Len(b)
      /\ \A k \in 1..Len(a) : c[k] = a[k]
  BY Streams
<1> HIDE DEF c
<1>2. Solid(c, i) = T
  <2>1. ASSUME NEW k \in 1..(i - 1)
        PROVE  /\ c[k] = a[k]
               /\ \A m \in k..(i - 1) : c[m] = a[m]
    <3>1. k \in 1..Len(a) /\ \A m \in k..(i - 1) : m \in 1..Len(a)
      BY <1>1
    <3> QED
      BY <1>1, <3>1
  <2> QED
    BY <2>1 DEF Solid
<1>3. Ends(c, i) <=> Ends(a, i)
  <2>1. c[i] = a[i] /\ i # Len(c) + 1 /\ i # Len(a) + 1
    BY <1>1
  <2> QED
    BY <1>2, <2>1 DEF Ends
<1>4. ASSUME Ends(a, i) PROVE Statement(c, i) = Statement(a, i)
  <2> DEFINE low == Min(T)
             high == Max(T)
  <2>1. T # {} /\ T \subseteq Nat /\ T \subseteq 1..Len(a) /\ \A t \in T : t <= Len(a)
    BY <1>1, <1>4 DEF Solid, Ends
  <2>2. low \in 1..Len(a) /\ high \in 1..Len(a)
    <3> HIDE DEF T
    <3> QED
      BY <1>1, <2>1, EndsOfSet
  <2>3. Statement(c, i) = SubSeq(c, low, high) /\ Statement(a, i) = SubSeq(a, low, high)
    BY <1>2 DEF Statement
  <2> HIDE DEF low, high
  <2>4. SubSeq(a \o b, low, high) = SubSeq(a, low, high)
    BY <2>2, SubSeqOfConcat1 DEF Stream
  <2> QED
    BY <2>3, <2>4 DEF c
<1> QED
  BY <1>3, <1>4 DEF c

(* Nor is the second of two texts by the first, if that is closed.         *)
LEMMA SecondPart ==
    ASSUME NEW a \in Stream, NEW b \in Stream, Closed(a), NEW j \in 1..(Len(b) + 1)
    PROVE  /\ Solid(a \o b, Len(a) + j) = {Len(a) + k : k \in Solid(b, j)}
           /\ Ends(a \o b, Len(a) + j) <=> Ends(b, j)
           /\ Ends(b, j) => Statement(a \o b, Len(a) + j) = Statement(b, j)
<1> DEFINE c == a \o b
           n == Len(a)
           i == n + j
           top == n + 1
           T == Solid(b, j)
           U == Solid(c, i)
<1>1. /\ n \in Nat /\ Len(b) \in Nat /\ Len(c) = n + Len(b)
      /\ \A k \in 1..n : c[k] = a[k]
      /\ \A k \in 1..Len(b) : c[n + k] = b[k]
  BY Streams
<1>0. Solid(a, top) = {} /\ top = n + 1
  BY DEF Closed
<1>i. i = n + j
  OBVIOUS
<1> HIDE DEF c, n, i, top
<1>2. ASSUME NEW k \in T PROVE n + k \in U
  <2>1. k \in 1..(j - 1) /\ b[k] # LineEnd /\ \A m \in k..(j - 1) : b[m] # Semicolon
    BY DEF Solid
  <2>2. k \in 1..Len(b) /\ n + k \in 1..(i - 1)
    BY <1>1, <1>i, <2>1
  <2>3. c[n + k] # LineEnd
    BY <1>1, <1>i, <2>1, <2>2
  <2>4. ASSUME NEW m \in (n + k)..(i - 1) PROVE c[m] # Semicolon
    <3>1. m - n \in k..(j - 1) /\ m - n \in 1..Len(b) /\ n + (m - n) = m
      BY <1>1, <1>i, <2>1, <2>2
    <3>2. c[n + (m - n)] = b[m - n]
      BY <1>1, <1>i, <3>1
    <3> QED
      BY <2>1, <3>1, <3>2
  <2> QED
    BY <2>2, <2>3, <2>4 DEF Solid
<1>3. ASSUME NEW u \in U PROVE u - n \in T /\ u = n + (u - n)
  <2>1. u \in 1..(i - 1) /\ c[u] # LineEnd /\ \A m \in u..(i - 1) : c[m] # Semicolon
    BY DEF Solid
  <2>2. u > n
    <3> SUFFICES ASSUME u <= n PROVE FALSE
      BY <1>1, <1>i, <2>1
    <3>1. u \in 1..n /\ u \in 1..(top - 1)
      BY <1>0, <1>1, <1>i, <2>1
    <3>2. a[u] # LineEnd
      BY <1>1, <1>i, <2>1, <3>1
    <3>3. ASSUME NEW m \in u..(top - 1) PROVE a[m] # Semicolon
      <4>1. m \in 1..n /\ m \in u..(i - 1)
        BY <1>0, <1>1, <1>i, <2>1
      <4> QED
        BY <1>1, <1>i, <2>1, <4>1
    <3>4. u \in Solid(a, top)
      BY <3>1, <3>2, <3>3 DEF Solid
    <3> QED
      BY <1>0, <3>4
  <2>3. u - n \in 1..(j - 1) /\ u - n \in 1..Len(b) /\ u = n + (u - n)
    BY <1>1, <1>i, <2>1, <2>2
  <2>4. b[u - n] # LineEnd
    <3>1. c[n + (u - n)] = b[u - n]
      BY <1>1, <1>i, <2>3
    <3> QED
      BY <2>1, <2>3, <3>1
  <2>5. ASSUME NEW m \in (u - n)..(j - 1) PROVE b[m] # Semicolon
    <3>1. m \in 1..Len(b) /\ n + m \in u..(i - 1)
      BY <1>1, <1>i, <2>1, <2>3
    <3>2. c[n + m] = b[m]
      BY <1>1, <1>i, <3>1
    <3> QED
      BY <2>1, <3>1, <3>2
  <2> QED
    BY <2>3, <2>4, <2>5 DEF Solid
<1>4. T \subseteq 1..Len(b) /\ T \subseteq Nat /\ \A t \in T : t <= Len(b)
  BY <1>1 DEF Solid
<1> HIDE DEF T, U
<1>5. U = {n + k : k \in T}
  BY <1>2, <1>3
<1>6. Ends(c, i) <=> Ends(b, j)
  <2>1. U = {} <=> T = {}
    BY <1>5
  <2>2. i = Len(c) + 1 <=> j = Len(b) + 1
    BY <1>1, <1>i
  <2>3. j # Len(b) + 1 => c[i] = b[j]
    BY <1>1, <1>i
  <2> QED
    BY <2>1, <2>2, <2>3 DEF Ends, T, U
<1>7. ASSUME Ends(b, j) PROVE Statement(c, i) = Statement(b, j)
  <2> DEFINE low == Min(T)
             high == Max(T)
  <2>0. T # {}
    BY <1>7 DEF Ends, T
  <2>1. /\ low \in T /\ \A t \in T : low <= t
        /\ high \in T /\ \A t \in T : t <= high
    BY <1>1, <1>4, <2>0, EndsOfSet
  <2>2. Statement(b, j) = SubSeq(b, low, high)
    BY DEF Statement, T
  <2> HIDE DEF low, high
  <2>3. U \subseteq Nat /\ n + low \in U /\ n + high \in U
    BY <1>1, <1>4, <1>5, <2>1
  <2>4. \A u \in U : n + low <= u /\ u <= n + high
    BY <1>1, <1>4, <1>5, <2>1
  <2>5. Min(U) = n + low
    BY <2>3, <2>4, MinIs
  <2>6. Max(U) = n + high
    BY <2>3, <2>4, MaxIs
  <2>7. Statement(c, i) = SubSeq(c, n + low, n + high)
    BY <2>5, <2>6 DEF Statement, U
  <2>8. low \in 1..Len(b) /\ high \in 1..Len(b)
    BY <1>4, <2>1
  <2>9. /\ n + low \in (n + 1)..(n + Len(b)) /\ n + high \in (n + 1)..(n + Len(b))
        /\ n + low - n = low /\ n + high - n = high
    BY <1>1, <2>8
  <2> DEFINE from == n + low
             to == n + high
  <2>10. from - n = low /\ to - n = high
    BY <1>1, <2>8
  <2>11. from \in (n + 1)..(n + Len(b)) /\ to \in (n + 1)..(n + Len(b))
    BY <2>9
  <2> HIDE DEF from, to
  <2>12. SubSeq(a \o b, from, to) = SubSeq(b, from - n, to - n)
    BY <2>11, SubSeqOfConcat2 DEF Stream, n
  <2>13. SubSeq(c, from, to) = SubSeq(b, low, high)
    BY <2>10, <2>12 DEF c
  <2> QED
    BY <2>2, <2>7, <2>13 DEF from, to
<1> QED
  BY <1>5, <1>6, <1>7 DEF c, n, i, T, U

(* Named, for the provers look into \o.                                     *)
Then(x, y) == x \o y

(* So the statements of two texts, of which the first is closed, are those *)
(* of the one and then those of the other.                                 *)
LEMMA StatementsOfTwo ==
    ASSUME NEW a \in Stream, NEW b \in Stream, Closed(a)
    PROVE  /\ Statements(a \o b) = Statements(a) \o Statements(b)
           /\ Statements(a) \in Seq(Stream) /\ Statements(b) \in Seq(Stream)
<1> DEFINE c == a \o b
           n == Len(a)
<1>1. n \in Nat /\ Len(b) \in Nat /\ c \in Stream /\ Len(c) = n + Len(b)
  BY Streams
<1>2. PICK f : Gathers(f, a) /\ Statements(a) = f[n + 1]
  BY Gathered
<1>3. PICK g : Gathers(g, b) /\ Statements(b) = g[Len(b) + 1]
  BY Gathered
<1>4. PICK h : Gathers(h, c) /\ Statements(c) = h[Len(c) + 1]
  <2> HIDE DEF c
  <2> QED
    BY <1>1, Gathered
<1> HIDE DEF n, c
<1>5. /\ f \in [0..(n + 1) -> Seq(Stream)] /\ f[0] = <<>>
      /\ \A i \in 1..(n + 1) : f[i] = Gather(a, f[i - 1], i)
  BY <1>2 DEF Gathers, n
<1>6. /\ g \in [0..(Len(b) + 1) -> Seq(Stream)] /\ g[0] = <<>>
      /\ \A i \in 1..(Len(b) + 1) : g[i] = Gather(b, g[i - 1], i)
  BY <1>3 DEF Gathers
<1>7. h[0] = <<>> /\ \A i \in 1..(Len(c) + 1) : h[i] = Gather(c, h[i - 1], i)
  BY <1>4 DEF Gathers
<1>8. \A i \in 0..n : h[i] = f[i]
  <2> DEFINE H == {i \in 0..n : h[i] = f[i]}
  <2>1. 0 \in H
    BY <1>1, <1>5, <1>7
  <2>2. ASSUME NEW i \in 1..n, i - 1 \in H PROVE i \in H
    <3>1. i \in 1..(n + 1) /\ i \in 1..(Len(c) + 1) /\ i \in 0..n
      BY <1>1
    <3>2. h[i - 1] = f[i - 1]
      BY <2>2
    <3>3. (Ends(c, i) <=> Ends(a, i)) /\ (Ends(a, i) => Statement(c, i) = Statement(a, i))
      BY <2>2, FirstPart DEF c, n
    <3>4. Gather(c, h[i - 1], i) = Gather(a, f[i - 1], i)
      BY <3>2, <3>3 DEF Gather
    <3> QED
      BY <1>5, <1>7, <3>1, <3>4
  <2> HIDE DEF H
  <2>3. \A i \in 1..n : i - 1 \in H => i \in H
    BY <2>2
  <2>4. \A i \in 0..n : i \in H
    BY <1>1, <2>1, <2>3, InductionUpTo, Zenon
  <2> QED
    BY <2>4 DEF H
<1>9. f[n + 1] = f[n] /\ f[n] \in Seq(Stream)
  <2>1. ~Ends(a, n + 1)
    BY DEF Ends, Closed, n
  <2>2. n + 1 \in 1..(n + 1) /\ n + 1 - 1 = n /\ n \in 0..(n + 1)
    BY <1>1
  <2> QED
    BY <1>5, <2>1, <2>2 DEF Gather
<1> DEFINE last == Len(b) + 1
           J == {j \in 0..last : h[n + j] = Then(f[n], g[j])}
<1>10. 0 \in J
  <2>1. h[n + 0] = f[n]
    BY <1>1, <1>8
  <2>2. Then(f[n], <<>>) = f[n]
    BY <1>9, ConcatEmptySeq DEF Then
  <2> QED
    BY <1>1, <1>6, <2>1, <2>2
<1>11. ASSUME NEW j \in 1..last, j - 1 \in J PROVE j \in J
  <2>1. h[n + (j - 1)] = Then(f[n], g[j - 1]) /\ j \in 0..last
    BY <1>1, <1>11
  <2>2. n + j \in 1..(Len(c) + 1) /\ n + j - 1 = n + (j - 1) /\ j - 1 \in 0..last
    BY <1>1
  <2>3. h[n + j] = Gather(c, Then(f[n], g[j - 1]), n + j)
    <3> DEFINE i == n + j
    <3>0. i = n + j
      OBVIOUS
    <3> HIDE DEF i
    <3>1. i \in 1..(Len(c) + 1) /\ i - 1 = n + (j - 1)
      BY <1>1, <3>0
    <3>2. h[i] = Gather(c, h[i - 1], i)
      BY <1>7, <3>1
    <3>3. h[i] = Gather(c, Then(f[n], g[j - 1]), i)
      BY <2>1, <3>1, <3>2
    <3> QED
      BY <3>3 DEF i
  <2>4. g[j] = Gather(b, g[j - 1], j) /\ g[j - 1] \in Seq(Stream)
    BY <1>6, <2>2
  <2>5. /\ Ends(c, n + j) <=> Ends(b, j)
        /\ Ends(b, j) => Statement(c, n + j) = Statement(b, j)
    BY SecondPart DEF c, n
  <2>6. CASE Ends(b, j)
    <3> DEFINE s == Statement(b, j)
               before == g[j - 1]
               both == Then(f[n], before)
    <3>1. s \in Stream
      BY <2>6, SolidIn DEF Ends
    <3>2. <<s>> \in Seq(Stream) /\ before \in Seq(Stream)
      BY <2>4, <3>1, Singleton
    <3>3. both \in Seq(Stream)
      BY <1>9, <3>2, ConcatProperties DEF Then
    <3>4. h[n + j] = Append(both, s) /\ g[j] = Append(before, s)
      BY <2>3, <2>4, <2>5, <2>6 DEF Gather
    <3> HIDE DEF s, before
    <3>5. Append(before, s) = before \o <<s>>
      BY <3>1, <3>2, AppendIsConcat
    <3>6. Append(both, s) = both \o <<s>>
      <4> HIDE DEF both
      <4> QED
        BY <3>1, <3>3, AppendIsConcat
    <3> DEFINE e == <<s>>
               m == f[n]
    <3>7. m \in Seq(Stream) /\ e \in Seq(Stream) /\ both = m \o before
      BY <1>9, <3>2 DEF Then
    <3> HIDE DEF e, m, both
    <3>8. (m \o before) \o e = m \o (before \o e)
      BY <3>2, <3>7, ConcatAssociative
    <3>9. both \o e = Then(m, before \o e)
      BY <3>7, <3>8, Zenon DEF Then
    <3>10. h[n + j] = Then(m, g[j])
      BY <3>4, <3>5, <3>6, <3>9, Zenon DEF e
    <3> QED
      BY <2>1, <3>10 DEF m
  <2>7. CASE ~Ends(b, j)
    BY <2>1, <2>3, <2>4, <2>5, <2>7 DEF Gather
  <2> QED
    BY <2>6, <2>7
<1>12. h[n + last] = Then(f[n], g[last])
  <2> HIDE DEF J
  <2>0. last \in Nat
    BY <1>1
  <2> HIDE DEF last
  <2>1. \A j \in 1..last : j - 1 \in J => j \in J
    BY <1>11
  <2>2. \A j \in 0..last : j \in J
    BY <2>0, <1>10, <2>1, InductionUpTo, Zenon
  <2> QED
    BY <2>0, <2>2 DEF J
<1>13. n + last = Len(c) + 1 /\ last \in 0..(Len(b) + 1)
  BY <1>1
<1>14. Statements(c) = Statements(a) \o Statements(b)
  <2>1. h[Len(c) + 1] = Then(f[n + 1], g[Len(b) + 1])
    BY <1>9, <1>12, <1>13
  <2> QED
    BY <1>2, <1>3, <1>4, <2>1, Zenon DEF n, Then
<1>15. Statements(a) \in Seq(Stream) /\ Statements(b) \in Seq(Stream)
  BY <1>2, <1>3, <1>6, <1>9, <1>13 DEF n
<1> QED
  BY <1>14, <1>15 DEF c

LEMMA ThenIs ==
    ASSUME NEW x \in Stream, NEW y \in Stream, NEW z \in Stream
    PROVE  /\ Then(x, y) \in Stream
           /\ Then(Then(x, y), z) = Then(x, Then(y, z))
           /\ Then(x, <<>>) = x /\ Then(<<>>, x) = x
<1>1. Then(x, y) \in Stream
  BY ConcatProperties DEF Stream, Then
<1>2. (x \o y) \o z = x \o (y \o z)
  BY ConcatAssociative DEF Stream
<1>3. x \o <<>> = x /\ <<>> \o x = x
  BY ConcatEmptySeq DEF Stream
<1> QED
  BY <1>1, <1>2, <1>3, Zenon DEF Then

LEMMA ClosedTwo ==
    ASSUME NEW a \in Stream, NEW b \in Stream, Closed(a), Closed(b)
    PROVE  Closed(a \o b)
<1> DEFINE j == Len(b) + 1
<1>1. Len(a) \in Nat /\ Len(b) \in Nat /\ Len(a \o b) = Len(a) + Len(b)
  BY Streams
<1>2. j \in 1..(Len(b) + 1) /\ Solid(b, j) = {}
  BY <1>1 DEF Closed
<1>3. Len(a) + j = Len(a \o b) + 1
  BY <1>1
<1> HIDE DEF j
<1>4. Solid(a \o b, Len(a) + j) = {Len(a) + k : k \in Solid(b, j)}
  BY <1>2, SecondPart
<1>5. Solid(a \o b, Len(a) + j) = {}
  BY <1>2, <1>4
<1> QED
  BY <1>3, <1>5 DEF Closed

LEMMA Literals == Semicolon # LineEnd /\ \A q \in Queries : q # Semicolon /\ q # LineEnd
BY EditorAssumption DEF Semicolon, LineEnd

LEMMA NoTokens == <<>> \in Stream /\ Closed(<<>>) /\ Statements(<<>>) = <<>>
<1> DEFINE t == <<>>
<1>1. t \in Stream /\ Len(t) = 0
  BY EmptySeq DEF Stream
<1> HIDE DEF t
<1>2. Solid(t, 1) = {}
  BY DEF Solid
<1>3. PICK f : Gathers(f, t) /\ Statements(t) = f[Len(t) + 1]
  BY <1>1, Gathered
<1>4. f[0] = <<>> /\ f[1] = Gather(t, f[0], 1)
  BY <1>1, <1>3 DEF Gathers
<1>5. ~Ends(t, 1)
  BY <1>2 DEF Ends
<1>6. Statements(t) = <<>> /\ Closed(t)
  BY <1>1, <1>2, <1>3, <1>4, <1>5 DEF Gather, Closed
<1> QED
  BY <1>1, <1>6 DEF t

LEMMA OneLineEnd ==
    /\ <<LineEnd>> \in Stream /\ Closed(<<LineEnd>>) /\ Statements(<<LineEnd>>) = <<>>
<1> DEFINE t == <<LineEnd>>
<1>1. t \in Stream /\ Len(t) = 1 /\ t[1] = LineEnd
  BY DEF Stream
<1> HIDE DEF t
<1>2. Solid(t, 1) = {}
  BY DEF Solid
<1>3. Solid(t, 2) = {}
  BY <1>1 DEF Solid
<1>4. PICK f : Gathers(f, t) /\ Statements(t) = f[Len(t) + 1]
  BY <1>1, Gathered
<1>5. f[0] = <<>> /\ f[1] = Gather(t, f[0], 1) /\ f[2] = Gather(t, f[1], 2)
  BY <1>1, <1>4 DEF Gathers
<1>6. ~Ends(t, 1) /\ ~Ends(t, 2)
  BY <1>2, <1>3 DEF Ends
<1>7. Statements(t) = <<>> /\ Closed(t)
  BY <1>1, <1>3, <1>4, <1>5, <1>6 DEF Gather, Closed
<1> QED
  BY <1>1, <1>7 DEF t

(* The line that is inserted for a query picked from the history.          *)
LEMMA PickedLine ==
    ASSUME NEW q \in Queries
    PROVE  /\ <<q, Semicolon>> \in Line /\ <<q, Semicolon>> \in Stream
           /\ Closed(<<q, Semicolon>>) /\ Statements(<<q, Semicolon>>) = << <<q>> >>
<1> DEFINE t == <<q, Semicolon>>
<1>1. t \in Line /\ t \in Stream /\ Len(t) = 2 /\ t[1] = q /\ t[2] = Semicolon
  BY DEF Stream, Line, Tokens
<1>2. q # Semicolon /\ q # LineEnd
  BY Literals
<1>3. SubSeq(t, 1, 1) = <<q>>
  <2> DEFINE S == Tokens \cup {LineEnd}
  <2>1. q \in S
    BY DEF Tokens
  <2>2. SubSeq(t, 1, 1) \in Seq(S) /\ Len(SubSeq(t, 1, 1)) = 1 /\ SubSeq(t, 1, 1)[1] = q
    <3> HIDE DEF t, S
    <3>1. \A i \in 1..1 : t[i] \in S
      BY <1>1, <2>1
    <3> QED
      BY <1>1, <3>1, SubSeqProperties
  <2>3. <<q>> \in Seq(S) /\ Len(<<q>>) = 1 /\ <<q>>[1] = q
    BY <2>1, Singleton
  <2> DEFINE x == SubSeq(t, 1, 1)
             y == <<q>>
  <2>4. x \in Seq(S) /\ y \in Seq(S) /\ Len(x) = 1 /\ Len(y) = 1 /\ x[1] = y[1]
    BY <2>2, <2>3
  <2> HIDE DEF x, y, S, t
  <2>5. x = y
    BY <2>4, SeqEqual
  <2> QED
    BY <2>5 DEF x, y
<1> HIDE DEF t
<1>4. Solid(t, 1) = {}
  BY DEF Solid
<1>5. Solid(t, 2) = {1}
  <2>1. 1 \in Solid(t, 2)
    <3>1. \A m \in 1..(2 - 1) : t[m] # Semicolon
      BY <1>1, <1>2
    <3> QED
      BY <1>1, <1>2, <3>1 DEF Solid
  <2>2. Solid(t, 2) \subseteq 1..(2 - 1)
    BY DEF Solid
  <2> QED
    BY <2>1, <2>2
<1>6. Solid(t, 3) = {}
  <2> SUFFICES ASSUME NEW k \in Solid(t, 3) PROVE FALSE
    OBVIOUS
  <2>1. k \in 1..(3 - 1) /\ \A m \in k..(3 - 1) : t[m] # Semicolon
    BY DEF Solid
  <2>2. 2 \in k..(3 - 1)
    BY <2>1
  <2> QED
    BY <1>1, <2>1, <2>2
<1>7. PICK f : Gathers(f, t) /\ Statements(t) = f[Len(t) + 1]
  BY <1>1, Gathered
<1>8. /\ f[0] = <<>> /\ f[1] = Gather(t, f[0], 1) /\ f[2] = Gather(t, f[1], 2)
      /\ f[3] = Gather(t, f[2], 3)
  BY <1>1, <1>7 DEF Gathers
<1>9. ~Ends(t, 1) /\ Ends(t, 2) /\ ~Ends(t, 3)
  BY <1>1, <1>4, <1>5, <1>6 DEF Ends
<1>10. Statement(t, 2) = <<q>>
  <2>1. Min({1}) = 1 /\ Max({1}) = 1
    BY MinIs, MaxIs
  <2> QED
    BY <1>3, <1>5, <2>1 DEF Statement
<1>11. f[1] = <<>> /\ f[2] = Append(<<>>, <<q>>) /\ f[3] = f[2]
  BY <1>8, <1>9, <1>10 DEF Gather
<1>12. Append(<<>>, <<q>>) = << <<q>> >>
  OBVIOUS
<1>13. Statements(t) = << <<q>> >> /\ Closed(t)
  BY <1>1, <1>6, <1>7, <1>11, <1>12 DEF Closed
<1> QED
  BY <1>1, <1>13 DEF t
-----------------------------------------------------------------------------
(* The lines of a text, joined.                                            *)

JoinLine(lines, before, r) ==
    IF r <= 1 THEN lines[r] ELSE before \o <<LineEnd>> \o lines[r]

Joining(joined, lines) ==
    /\ joined \in [0..Len(lines) -> Stream]
    /\ joined[0] = <<>>
    /\ \A r \in 1..Len(lines) : joined[r] = JoinLine(lines, joined[r - 1], r)

LEMMA LineInStream ==
    ASSUME NEW line \in Line
    PROVE  line \in Stream
BY SeqMonotonic DEF Line, Stream

LEMMA JoinedLines ==
    ASSUME NEW lines \in Seq(Line)
    PROVE  \E joined : Joining(joined, lines) /\ Joined(lines) = joined[Len(lines)]
<1> DEFINE n == Len(lines)
           S == Stream
           empty == <<>>
           step == [r \in 1..n |-> [before \in S |-> JoinLine(lines, before, r)]]
<1>1. n \in Nat
  BY LenProperties
<1>2. ASSUME NEW r \in 1..n, NEW before \in S PROVE JoinLine(lines, before, r) \in S
  <2>1. lines[r] \in Stream
    BY ElementOfSeq, LineInStream
  <2>2. Then(Then(before, <<LineEnd>>), lines[r]) \in Stream
    BY <2>1, ThenIs, OneLineEnd
  <2> QED
    BY <2>1, <2>2, Zenon DEF JoinLine, Then
<1>3. step \in [1..n -> [S -> S]]
  <2> HIDE DEF S, n
  <2> QED
    BY <1>2
<1>4. empty \in S
  BY NoTokens
<1>5. PICK f : Follows(f, n, S, empty, step)
  <2> HIDE DEF step, S, empty, n
  <2> QED
    BY <1>1, <1>3, <1>4, Recursion
<1>6. \A r \in 1..n : f[r] = JoinLine(lines, f[r - 1], r)
  <2> TAKE r \in 1..n
  <2> HIDE DEF S, n
  <2>1. f[r - 1] \in S
    BY <1>1, <1>5 DEF Follows
  <2> QED
    BY <1>5, <2>1 DEF Follows
<1>7. f \in [0..n -> S] /\ f[0] = <<>>
  BY <1>5 DEF Follows
<1> HIDE DEF step, S, empty, n
<1>8. f = [r \in 0..n |-> IF r <= 1 THEN IF r = 0 THEN <<>> ELSE lines[r]
                          ELSE f[r - 1] \o <<LineEnd>> \o lines[r]]
  <2>1. \A r \in 0..n : r # 0 => r \in 1..n
    BY <1>1
  <2>2. ASSUME NEW r \in 0..n
        PROVE  f[r] = IF r <= 1 THEN IF r = 0 THEN <<>> ELSE lines[r]
                      ELSE f[r - 1] \o <<LineEnd>> \o lines[r]
    <3>1. CASE r = 0
      BY <1>7, <3>1
    <3>2. CASE r # 0
      <4>1. f[r] = IF r <= 1 THEN lines[r] ELSE f[r - 1] \o <<LineEnd>> \o lines[r]
        BY <1>6, <2>1, <3>2, Zenon DEF JoinLine
      <4> QED
        BY <3>2, <4>1
    <3> QED
      BY <3>1, <3>2
  <2> QED
    BY <1>7, <2>2
<1> DEFINE g == CHOOSE h : h =
        [r \in 0..n |-> IF r <= 1 THEN IF r = 0 THEN <<>> ELSE lines[r]
                        ELSE h[r - 1] \o <<LineEnd>> \o lines[r]]
<1>9. g = [r \in 0..n |-> IF r <= 1 THEN IF r = 0 THEN <<>> ELSE lines[r]
                          ELSE g[r - 1] \o <<LineEnd>> \o lines[r]]
  BY <1>8
<1>10. Joined(lines) = g[n]
  BY DEF Joined, n
<1> HIDE DEF g
<1>11. g[0] = <<>> /\ \A r \in 1..n : g[r] = JoinLine(lines, g[r - 1], r)
  <2>1. 0 \in 0..n /\ 0 <= 1 /\ \A r \in 1..n : r \in 0..n /\ r # 0
    BY <1>1
  <2>2. g[0] = <<>>
    BY <1>9, <2>1
  <2>3. ASSUME NEW r \in 1..n PROVE g[r] = JoinLine(lines, g[r - 1], r)
    <3>1. g[r] = IF r <= 1 THEN IF r = 0 THEN <<>> ELSE lines[r]
                 ELSE g[r - 1] \o <<LineEnd>> \o lines[r]
      BY <1>9, <2>1
    <3>2. g[r] = IF r <= 1 THEN lines[r] ELSE g[r - 1] \o <<LineEnd>> \o lines[r]
      BY <2>1, <3>1
    <3> QED
      BY <3>2, Zenon DEF JoinLine
  <2> QED
    BY <2>2, <2>3
<1>12. \A r \in 0..n : g[r] \in S
  <2> DEFINE H == {r \in 0..n : g[r] \in S}
  <2>1. 0 \in H
    BY <1>1, <1>4, <1>11 DEF empty
  <2>2. \A r \in 1..n : r - 1 \in H => r \in H
    BY <1>1, <1>2, <1>11
  <2> HIDE DEF H
  <2>3. \A r \in 0..n : r \in H
    BY <1>1, <2>1, <2>2, InductionUpTo, Zenon
  <2> QED
    BY <2>3 DEF H
<1>13. g \in [0..n -> S]
  <2>1. g = [r \in 0..n |-> g[r]]
    BY <1>9
  <2> QED
    BY <1>12, <2>1
<1>14. Joining(g, lines)
  BY <1>11, <1>13 DEF Joining, n, S
<1> QED
  BY <1>10, <1>14 DEF n

LEMMA JoinedShort ==
    /\ Joined(<<>>) = <<>>
    /\ \A line \in Line : <<line>> \in Seq(Line) /\ Joined(<<line>>) = line
<1>1. Joined(<<>>) = <<>>
  <2> DEFINE t == <<>>
  <2>1. t \in Seq(Line) /\ Len(t) = 0
    BY EmptySeq
  <2> HIDE DEF t
  <2>2. PICK j : Joining(j, t) /\ Joined(t) = j[Len(t)]
    BY <2>1, JoinedLines
  <2>3. Joined(t) = <<>>
    BY <2>1, <2>2 DEF Joining
  <2> QED
    BY <2>3 DEF t
<1>2. ASSUME NEW line \in Line
      PROVE  <<line>> \in Seq(Line) /\ Joined(<<line>>) = line
  <2> DEFINE t == <<line>>
  <2>1. t \in Seq(Line) /\ Len(t) = 1 /\ t[1] = line
    BY Singleton
  <2> HIDE DEF t
  <2>2. PICK j : Joining(j, t) /\ Joined(t) = j[Len(t)]
    BY <2>1, JoinedLines
  <2>3. Joined(t) = JoinLine(t, j[0], 1)
    BY <2>1, <2>2 DEF Joining
  <2>4. Joined(t) = line
    BY <2>1, <2>3 DEF JoinLine
  <2> QED
    BY <2>1, <2>4 DEF t
<1> QED
  BY <1>1, <1>2

LEMMA JoinedIsStream ==
    ASSUME NEW lines \in Seq(Line)
    PROVE  Joined(lines) \in Stream
<1>1. PICK j : Joining(j, lines) /\ Joined(lines) = j[Len(lines)]
  BY JoinedLines
<1>2. Len(lines) \in Nat
  BY LenProperties
<1>3. Len(lines) \in 0..Len(lines)
  BY <1>2
<1> QED
  BY <1>1, <1>3 DEF Joining

LEMMA JoinLineThen ==
    ASSUME NEW lines, NEW before, NEW r, ~(r <= 1)
    PROVE  JoinLine(lines, before, r) = Then(Then(before, <<LineEnd>>), lines[r])
BY Zenon DEF JoinLine, Then

LEMMA JoinedTwo ==
    ASSUME NEW above \in Seq(Line), NEW below \in Seq(Line), above # <<>>, below # <<>>
    PROVE  Joined(above \o below) = Then(Joined(above), Then(<<LineEnd>>, Joined(below)))
<1> DEFINE all == above \o below
           n == Len(above)
           last == Len(below)
           break == <<LineEnd>>
<1>1. /\ all \in Seq(Line) /\ Len(all) = n + last
      /\ \A i \in 1..n : all[i] = above[i]
      /\ \A i \in 1..last : all[n + i] = below[i]
      /\ n \in Nat \ {0} /\ last \in Nat \ {0}
  BY Concatenated, EmptySeq
<1>2. PICK f : Joining(f, above) /\ Joined(above) = f[n]
  BY JoinedLines
<1>3. PICK g : Joining(g, below) /\ Joined(below) = g[last]
  BY JoinedLines
<1>4. PICK h : Joining(h, all) /\ Joined(all) = h[Len(all)]
  <2> HIDE DEF all
  <2> QED
    BY <1>1, JoinedLines
<1>b. break \in Stream
  BY OneLineEnd
<1> HIDE DEF n, last, all, break
<1>5. /\ f \in [0..n -> Stream] /\ f[0] = <<>>
      /\ \A r \in 1..n : f[r] = JoinLine(above, f[r - 1], r)
  BY <1>2 DEF Joining, n
<1>6. /\ g \in [0..last -> Stream] /\ g[0] = <<>>
      /\ \A r \in 1..last : g[r] = JoinLine(below, g[r - 1], r)
  BY <1>3 DEF Joining, last
<1>7. h[0] = <<>> /\ \A r \in 1..(n + last) : h[r] = JoinLine(all, h[r - 1], r)
  BY <1>1, <1>4 DEF Joining
<1>8. \A r \in 0..n : h[r] = f[r]
  <2> DEFINE H == {r \in 0..n : h[r] = f[r]}
  <2>1. 0 \in H
    BY <1>1, <1>5, <1>7
  <2>2. ASSUME NEW r \in 1..n, r - 1 \in H PROVE r \in H
    <3>1. r \in 1..(n + last) /\ r \in 0..n /\ h[r - 1] = f[r - 1] /\ all[r] = above[r]
      BY <1>1, <2>2
    <3>2. JoinLine(all, h[r - 1], r) = JoinLine(above, f[r - 1], r)
      <4> DEFINE before == f[r - 1]
      <4> HIDE DEF before
      <4>1. h[r - 1] = before /\ all[r] = above[r]
        BY <3>1 DEF before
      <4>2. JoinLine(all, before, r) = JoinLine(above, before, r)
        BY <4>1, Zenon DEF JoinLine
      <4> QED
        BY <4>1, <4>2 DEF before
    <3> QED
      BY <1>5, <1>7, <3>1, <3>2
  <2> HIDE DEF H
  <2>3. \A r \in 1..n : r - 1 \in H => r \in H
    BY <2>2
  <2>4. \A r \in 0..n : r \in H
    BY <1>1, <2>1, <2>3, InductionUpTo, Zenon
  <2> QED
    BY <2>4 DEF H
<1> DEFINE x == Then(f[n], break)
           J == {j \in 0..last : j = 0 \/ h[n + j] = Then(x, g[j])}
<1>9. f[n] \in Stream /\ x \in Stream
  <2>1. n \in 0..n
    BY <1>1
  <2>2. f[n] \in Stream
    BY <1>5, <2>1
  <2> QED
    BY <2>2, <1>b, ThenIs
<1>10. 0 \in J
  BY <1>1
<1>11. ASSUME NEW j \in 1..last, j - 1 \in J PROVE j \in J
  <2> DEFINE r == n + j
  <2>0. r = n + j
    OBVIOUS
  <2> HIDE DEF r
  <2>1. /\ r \in 1..(n + last) /\ r - 1 = n + (j - 1) /\ ~(r <= 1)
        /\ j \in 0..last /\ j - 1 \in 0..last
    BY <1>1, <2>0
  <2>2. below[j] \in Stream /\ all[r] = below[j]
    <3>1. j \in 1..Len(below)
      BY DEF last
    <3> QED
      BY <1>1, <2>0, <3>1, ElementOfSeq, LineInStream
  <2>3. h[r] = Then(Then(h[r - 1], break), below[j])
    BY <1>7, <2>1, <2>2, JoinLineThen DEF break
  <2>4. CASE j = 1
    <3>1. h[r - 1] = f[n]
      BY <1>1, <1>8, <2>1, <2>4
    <3>2. g[j] = below[j]
      BY <1>6, <2>4 DEF JoinLine
    <3> QED
      BY <2>0, <2>1, <2>3, <3>1, <3>2
  <2>5. CASE j # 1
    <3> DEFINE before == g[j - 1]
    <3>1. before \in Stream
      BY <1>6, <2>1
    <3>2. g[j] = JoinLine(below, before, j) /\ ~(j <= 1)
      BY <1>6, <2>5
    <3>3. h[r - 1] = Then(x, before)
      BY <1>1, <1>11, <2>1, <2>5
    <3> HIDE DEF before, x
    <3>4. g[j] = Then(Then(before, break), below[j])
      BY <3>2, JoinLineThen DEF break
    <3>5. Then(Then(x, before), break) = Then(x, Then(before, break))
      BY <1>b, <1>9, <3>1, ThenIs
    <3> DEFINE y == Then(before, break)
               z == below[j]
    <3>6. y \in Stream /\ z \in Stream
      BY <1>b, <2>2, <3>1, ThenIs
    <3> HIDE DEF y, z
    <3>7. Then(Then(x, y), z) = Then(x, Then(y, z))
      BY <1>9, <3>6, ThenIs
    <3>8. h[r] = Then(x, g[j])
      BY <2>3, <3>3, <3>4, <3>5, <3>7 DEF y, z
    <3> QED
      BY <2>0, <2>1, <3>8
  <2> QED
    BY <2>4, <2>5
<1>12. h[n + last] = Then(x, g[last])
  <2> HIDE DEF J
  <2>1. \A j \in 1..last : j - 1 \in J => j \in J
    BY <1>11
  <2>0. last \in Nat
    BY <1>1
  <2>2. \A j \in 0..last : j \in J
    BY <2>0, <1>10, <2>1, InductionUpTo, Zenon
  <2> QED
    BY <1>1, <2>2 DEF J
<1>13. Joined(below) \in Stream
  BY JoinedIsStream
<1>14. Joined(all) = Then(x, Joined(below))
  BY <1>1, <1>3, <1>4, <1>12
<1>15. Joined(all) = Then(f[n], Then(break, Joined(below)))
  <2> DEFINE m == f[n]
             rest == Joined(below)
  <2>1. m \in Stream /\ rest \in Stream /\ Joined(all) = Then(Then(m, break), rest)
    BY <1>9, <1>13, <1>14
  <2> HIDE DEF m, rest
  <2>2. Joined(all) = Then(m, Then(break, rest))
    BY <1>b, <2>1, ThenIs
  <2> QED
    BY <2>2 DEF m, rest
<1> QED
  BY <1>2, <1>15 DEF all, break

(* A line end before them changes no statements.                           *)
LEMMA AfterLineEnd ==
    ASSUME NEW tokens \in Stream
    PROVE  /\ Then(<<LineEnd>>, tokens) \in Stream
           /\ Statements(Then(<<LineEnd>>, tokens)) = Statements(tokens)
<1>1. Then(<<LineEnd>>, tokens) \in Stream
  BY ThenIs, OneLineEnd
<1>2. /\ Statements(<<LineEnd>> \o tokens) = Statements(<<LineEnd>>) \o Statements(tokens)
      /\ Statements(tokens) \in Seq(Stream)
  BY OneLineEnd, StatementsOfTwo
<1>3. <<>> \o Statements(tokens) = Statements(tokens)
  BY <1>2, ConcatEmptySeq
<1>4. Statements(<<LineEnd>> \o tokens) = Statements(tokens)
  BY <1>2, <1>3, OneLineEnd, Zenon
<1> QED
  BY <1>1, <1>4, Zenon DEF Then

(* The statements of a text that ends one above its last lines.            *)
LEMMA StatementsJoined ==
    ASSUME NEW above \in Seq(Line), NEW below \in Seq(Line), above # <<>>, below # <<>>,
           Closed(Joined(above))
    PROVE  Statements(Joined(above \o below)) =
               Then(Statements(Joined(above)), Statements(Joined(below)))
<1> DEFINE a == Joined(above)
           b == Then(<<LineEnd>>, Joined(below))
<1>1. a \in Stream /\ Joined(below) \in Stream
  BY JoinedIsStream
<1>2. b \in Stream /\ Statements(b) = Statements(Joined(below))
  BY <1>1, AfterLineEnd
<1>3. Joined(above \o below) = Then(a, b)
  BY JoinedTwo
<1> HIDE DEF a, b
<1>4. Statements(a \o b) = Statements(a) \o Statements(b)
  BY <1>1, <1>2, StatementsOfTwo DEF a
<1>5. Statements(Then(a, b)) = Then(Statements(a), Statements(b))
  BY <1>4, Zenon DEF Then
<1> QED
  BY <1>2, <1>3, <1>5 DEF a

(* The one sequence and then the other.                                    *)
BothIn(both, S, x, y) ==
    /\ Len(x) \in Nat /\ Len(y) \in Nat
    /\ both \in Seq(S) /\ Len(both) = Len(x) + Len(y)
    /\ \A i \in 1..Len(x) : both[i] = x[i]
    /\ \A i \in 1..Len(y) : both[Len(x) + i] = y[i]

LEMMA ThenIsSeq ==
    ASSUME NEW S, NEW x \in Seq(S), NEW y \in Seq(S)
    PROVE  /\ Then(x, y) \in Seq(S) /\ BothIn(Then(x, y), S, x, y)
           /\ Then(x, <<>>) = x /\ Then(<<>>, x) = x
<1>1. Len(x) \in Nat /\ Len(y) \in Nat
  BY LenProperties
<1>2. /\ Then(x, y) \in Seq(S) /\ Len(Then(x, y)) = Len(x) + Len(y)
      /\ \A i \in 1..(Len(x) + Len(y)) :
            Then(x, y)[i] = IF i <= Len(x) THEN x[i] ELSE y[i - Len(x)]
  <2>1. /\ x \o y \in Seq(S) /\ Len(x \o y) = Len(x) + Len(y)
        /\ \A i \in 1..(Len(x) + Len(y)) :
              (x \o y)[i] = IF i <= Len(x) THEN x[i] ELSE y[i - Len(x)]
    BY ConcatProperties
  <2> QED
    BY <2>1, Zenon DEF Then
<1>3. Then(x, <<>>) = x /\ Then(<<>>, x) = x
  BY ConcatEmptySeq DEF Then
<1>4. \A i \in 1..Len(x) : Then(x, y)[i] = x[i]
  <2>1. \A i \in 1..Len(x) : i \in 1..(Len(x) + Len(y)) /\ i <= Len(x)
    BY <1>1
  <2> QED
    BY <1>2, <2>1
<1>5. \A i \in 1..Len(y) : Then(x, y)[Len(x) + i] = y[i]
  <2> TAKE i \in 1..Len(y)
  <2> DEFINE k == Len(x) + i
  <2>1. k \in 1..(Len(x) + Len(y)) /\ ~(k <= Len(x)) /\ k - Len(x) = i
    BY <1>1
  <2> HIDE DEF k
  <2>2. Then(x, y)[k] = y[i]
    BY <1>2, <2>1
  <2> QED
    BY <2>2 DEF k
<1> QED
  BY <1>1, <1>2, <1>3, <1>4, <1>5 DEF BothIn

(* No more than MaxQueries of them.                                        *)
Capped(s) == SubSeq(s, 1, Min({Len(s), MaxQueries}))

LEMMA CappedIs ==
    ASSUME NEW S, NEW s \in Seq(S)
    PROVE  /\ Len(s) \in Nat /\ Capped(s) \in Seq(S)
           /\ Len(Capped(s)) = IF Len(s) <= MaxQueries THEN Len(s) ELSE MaxQueries
           /\ \A i \in 1..Len(Capped(s)) : Capped(s)[i] = s[i]
<1> DEFINE n == Min({Len(s), MaxQueries})
<1>1. Len(s) \in Nat /\ MaxQueries \in Nat
  BY LenProperties, EditorAssumption
<1>2. n = IF Len(s) <= MaxQueries THEN Len(s) ELSE MaxQueries
  BY <1>1, MinOfTwo
<1>3. Capped(s) = SubSeq(s, 1, n)
  BY DEF Capped
<1> HIDE DEF n
<1>4. n \in Nat /\ n <= Len(s)
  BY <1>1, <1>2
<1>5. \A i \in 1..n : s[i] \in S
  <2>1. \A i \in 1..n : i \in 1..Len(s)
    BY <1>1, <1>4
  <2> QED
    BY <2>1, ElementOfSeq
<1>6. /\ SubSeq(s, 1, n) \in Seq(S)
      /\ Len(SubSeq(s, 1, n)) = IF 1 <= n THEN n - 1 + 1 ELSE 0
      /\ \A i \in 1..(n - 1 + 1) : SubSeq(s, 1, n)[i] = s[1 + i - 1]
  BY <1>4, <1>5, SubSeqProperties
<1> DEFINE cut == SubSeq(s, 1, n)
<1>7. cut \in Seq(S) /\ \A i \in 1..(n - 1 + 1) : cut[i] = s[1 + i - 1]
  BY <1>6
<1>8. Len(cut) = n
  BY <1>4, <1>6
<1> HIDE DEF cut
<1>9. \A i \in 1..n : cut[i] = s[i]
  <2>1. \A i \in 1..n : i \in 1..(n - 1 + 1) /\ 1 + i - 1 = i
    BY <1>4
  <2> QED
    BY <1>7, <2>1
<1> QED
  BY <1>1, <1>2, <1>3, <1>7, <1>8, <1>9 DEF cut

(* What is cut off a part is cut off the whole.                            *)
LEMMA CappedThen ==
    ASSUME NEW S, NEW x \in Seq(S), NEW y \in Seq(S), NEW z \in Seq(S), Capped(x) = Capped(y)
    PROVE  Capped(Then(x, z)) = Capped(Then(y, Capped(z)))
<1> DEFINE max == MaxQueries
           w == Capped(z)
           u == Then(x, z)
           v == Then(y, w)
<1>1. /\ Len(x) \in Nat /\ Len(y) \in Nat /\ Len(z) \in Nat /\ max \in Nat /\ w \in Seq(S)
      /\ Len(w) = IF Len(z) <= max THEN Len(z) ELSE max
      /\ \A i \in 1..Len(w) : w[i] = z[i]
  BY CappedIs, EditorAssumption
<1> HIDE DEF w
<1>2. /\ u \in Seq(S) /\ Len(u) = Len(x) + Len(z)
      /\ \A i \in 1..Len(x) : u[i] = x[i]
      /\ \A i \in 1..Len(z) : u[Len(x) + i] = z[i]
  <2>1. BothIn(u, S, x, z)
    BY ThenIsSeq
  <2> HIDE DEF u
  <2> QED
    BY <2>1 DEF BothIn
<1>3. /\ v \in Seq(S) /\ Len(v) = Len(y) + Len(w) /\ Len(w) \in Nat
      /\ \A i \in 1..Len(y) : v[i] = y[i]
      /\ \A i \in 1..Len(w) : v[Len(y) + i] = w[i]
  <2>1. BothIn(v, S, y, w)
    BY <1>1, ThenIsSeq
  <2> HIDE DEF v
  <2> QED
    BY <2>1 DEF BothIn
<1> HIDE DEF u, v
<1>4. /\ Capped(u) \in Seq(S)
      /\ Len(Capped(u)) = IF Len(u) <= max THEN Len(u) ELSE max
      /\ \A i \in 1..Len(Capped(u)) : Capped(u)[i] = u[i]
  BY <1>2, CappedIs
<1>5. /\ Capped(v) \in Seq(S)
      /\ Len(Capped(v)) = IF Len(v) <= max THEN Len(v) ELSE max
      /\ \A i \in 1..Len(Capped(v)) : Capped(v)[i] = v[i]
  BY <1>3, CappedIs
<1>6. /\ Len(Capped(x)) = IF Len(x) <= max THEN Len(x) ELSE max
      /\ \A i \in 1..Len(Capped(x)) : Capped(x)[i] = x[i]
  BY CappedIs
<1>7. /\ Len(Capped(y)) = IF Len(y) <= max THEN Len(y) ELSE max
      /\ \A i \in 1..Len(Capped(y)) : Capped(y)[i] = y[i]
  BY CappedIs
<1> HIDE DEF max
<1>8. (Len(x) <= max /\ Len(y) = Len(x)) \/ (Len(x) >= max /\ Len(y) >= max)
  BY <1>1, <1>6, <1>7
<1>9. \A i \in 1..Len(x) : i <= max => x[i] = y[i]
  <2>1. \A i \in 1..Len(x) : i <= max => i \in 1..Len(Capped(x))
    BY <1>1, <1>6
  <2> QED
    BY <1>6, <1>7, <2>1
<1>10. Len(Capped(u)) = Len(Capped(v))
  <2> DEFINE p == Len(u)
             q == Len(v)
  <2>1. p = Len(x) + Len(z) /\ q = Len(y) + Len(w)
    BY <1>2, <1>3
  <2>2. /\ Len(Capped(u)) = IF p <= max THEN p ELSE max
        /\ Len(Capped(v)) = IF q <= max THEN q ELSE max
    BY <1>4, <1>5
  <2> HIDE DEF p, q
  <2>3. (IF p <= max THEN p ELSE max) = (IF q <= max THEN q ELSE max)
    BY <1>1, <1>3, <1>8, <2>1
  <2> QED
    BY <2>2, <2>3
<1>11. ASSUME NEW i \in 1..Len(Capped(u)) PROVE Capped(u)[i] = Capped(v)[i]
  <2>1. i <= max /\ i <= Len(u) /\ i <= Len(v) /\ i \in Nat \ {0}
    <3> DEFINE a == Len(Capped(u))
               p == Len(u)
               q == Len(v)
    <3>1. a = (IF p <= max THEN p ELSE max) /\ a = (IF q <= max THEN q ELSE max)
      BY <1>4, <1>5, <1>10
    <3>2. max \in Nat /\ p \in Nat /\ q \in Nat
      BY <1>1, <1>2, <1>3
    <3> HIDE DEF a, p, q
    <3>3. i \in 1..a
      BY DEF a
    <3> QED
      BY <3>1, <3>2, <3>3 DEF p, q
  <2>2. Capped(u)[i] = u[i] /\ Capped(v)[i] = v[i]
    BY <1>4, <1>5, <1>10
  <2>3. CASE i <= Len(x)
    <3>1. i \in 1..Len(x) /\ i \in 1..Len(y)
      BY <1>1, <1>8, <2>1, <2>3
    <3> QED
      BY <1>2, <1>3, <1>9, <2>1, <2>2, <3>1
  <2>4. CASE ~(i <= Len(x))
    <3>1. Len(y) = Len(x)
      BY <1>1, <1>8, <2>1, <2>4
    <3> DEFINE k == i - Len(x)
    <3>2. k \in 1..Len(z) /\ k \in 1..Len(w) /\ i = Len(x) + k /\ i = Len(y) + k
      BY <1>1, <1>2, <1>3, <2>1, <2>4, <3>1
    <3> HIDE DEF k
    <3>3. u[Len(x) + k] = z[k] /\ v[Len(y) + k] = w[k] /\ w[k] = z[k]
      BY <1>1, <1>2, <1>3, <3>2
    <3> QED
      BY <2>2, <3>2, <3>3
  <2> QED
    BY <2>3, <2>4
<1>12. Capped(u) = Capped(v)
  BY <1>4, <1>5, <1>10, <1>11, SeqEqual
<1> QED
  BY <1>12 DEF u, v, w

(* What FlattenSeq puts together, line by line.                            *)
Flattens(f, S, seqs) ==
    /\ f \in [1..Len(seqs) -> Seq(S)]
    /\ f[1] = seqs[1]
    /\ \A r \in 2..Len(seqs) : f[r] = Then(f[r - 1], seqs[r])

LEMMA Flattened ==
    ASSUME NEW S, NEW seqs \in Seq(Seq(S)), seqs # <<>>
    PROVE  \E f : Flattens(f, S, seqs) /\ FlattenSeq(seqs) = f[Len(seqs)]
<1> DEFINE n == Len(seqs)
           V == Seq(S)
           empty == <<>>
           Put1(before, r) == IF r = 1 THEN seqs[r] ELSE Then(before, seqs[r])
           step == [r \in 1..n |-> [before \in V |-> Put1(before, r)]]
<1>1. n \in Nat \ {0}
  BY EmptySeq
<1>2. ASSUME NEW r \in 1..n, NEW before \in V PROVE Put1(before, r) \in V
  <2>1. seqs[r] \in V
    BY ElementOfSeq
  <2>2. Then(before, seqs[r]) \in V
    BY <2>1, ThenIsSeq
  <2> QED
    BY <2>1, <2>2
<1>3. step \in [1..n -> [V -> V]]
  <2> HIDE DEF V, n, Put1
  <2> QED
    BY <1>2
<1>4. empty \in V
  BY EmptySeq
<1>5. PICK h : Follows(h, n, V, empty, step)
  <2> HIDE DEF step, V, empty, n
  <2> QED
    BY <1>1, <1>3, <1>4, Recursion
<1>6. \A r \in 1..n : h[r] = Put1(h[r - 1], r)
  <2> TAKE r \in 1..n
  <2> HIDE DEF V, n, Put1
  <2>1. h[r - 1] \in V
    BY <1>1, <1>5 DEF Follows
  <2> QED
    BY <1>5, <2>1 DEF Follows
<1>7. h \in [0..n -> V]
  BY <1>5 DEF Follows
<1> HIDE DEF step, V, empty, n
<1> DEFINE f == [r \in 1..n |-> h[r]]
<1>8. f \in [1..n -> V] /\ \A r \in 1..n : f[r] = h[r]
  <2>1. \A r \in 1..n : h[r] \in V
    BY <1>1, <1>7
  <2> QED
    BY <2>1
<1> HIDE DEF f
<1>9. \A r \in 1..n : f[r] = IF r = 1 THEN seqs[r] ELSE Then(f[r - 1], seqs[r])
  <2> TAKE r \in 1..n
  <2>1. CASE r = 1
    BY <1>6, <1>8, <2>1
  <2>2. CASE r # 1
    <3>1. r - 1 \in 1..n /\ f[r - 1] = h[r - 1]
      BY <1>1, <1>8, <2>2
    <3> QED
      BY <1>6, <1>8, <2>2, <3>1
  <2> QED
    BY <2>1, <2>2
<1>10. f = [r \in 1..n |-> IF r = 1 THEN seqs[r] ELSE f[r - 1] \o seqs[r]]
  <2>1. f = [r \in 1..n |-> f[r]]
    BY <1>8
  <2>2. \A r \in 1..n : f[r] = IF r = 1 THEN seqs[r] ELSE f[r - 1] \o seqs[r]
    BY <1>9, Zenon DEF Then
  <2> QED
    BY <2>1, <2>2, Zenon
<1> DEFINE g == CHOOSE j : j = [r \in 1..n |-> IF r = 1 THEN seqs[r] ELSE j[r - 1] \o seqs[r]]
<1>11. g = [r \in 1..n |-> IF r = 1 THEN seqs[r] ELSE g[r - 1] \o seqs[r]]
  BY <1>10
<1>12. FlattenSeq(seqs) = g[n]
  BY <1>1 DEF FlattenSeq, n
<1> HIDE DEF g
<1>13. \A r \in 1..n : g[r] = IF r = 1 THEN seqs[r] ELSE Then(g[r - 1], seqs[r])
  <2> TAKE r \in 1..n
  <2>1. g[r] = IF r = 1 THEN seqs[r] ELSE g[r - 1] \o seqs[r]
    BY <1>11
  <2> QED
    BY <2>1, Zenon DEF Then
<1>14. \A r \in 0..n : r = 0 \/ g[r] = f[r]
  <2> DEFINE H == {r \in 0..n : r = 0 \/ g[r] = f[r]}
  <2>1. 0 \in H
    BY <1>1
  <2>2. \A r \in 1..n : r - 1 \in H => r \in H
    BY <1>1, <1>9, <1>13
  <2> HIDE DEF H
  <2>0. n \in Nat
    BY <1>1
  <2>3. \A r \in 0..n : r \in H
    BY <2>0, <2>1, <2>2, InductionUpTo, Zenon
  <2> QED
    BY <2>3 DEF H
<1>15. g[n] = f[n]
  BY <1>1, <1>14
<1>16. Flattens(f, S, seqs)
  <2>1. f[1] = seqs[1]
    BY <1>1, <1>9
  <2>2. \A r \in 2..n : f[r] = Then(f[r - 1], seqs[r])
    BY <1>1, <1>9
  <2> QED
    BY <1>8, <2>1, <2>2 DEF Flattens, n, V
<1> QED
  BY <1>12, <1>15, <1>16 DEF n

-----------------------------------------------------------------------------
(* Picking.                                                                *)

(* The text into which a query is inserted when there is nothing in it.    *)
LEMMA PickedAlone ==
    ASSUME Placed(text, row, col), picks \in Seq(Queries), InsertPicked, text = << <<>> >>
    PROVE  row = 1 /\ Head(picks) \in Queries /\ text' = << <<Head(picks), Semicolon>> >>
<1> DEFINE new == <<Head(picks), Semicolon>>
           none == << <<>> >>
<1>1. row = 1 /\ text[row] = <<>> /\ Len(text[row]) = 0 /\ Len(text) = 1
  <2>1. Len(none) = 1 /\ none[1] = <<>>
    OBVIOUS
  <2> HIDE DEF none
  <2>2. text = none /\ row \in 1..Len(text)
    BY DEF Placed, none
  <2>3. row = 1
    BY <2>1, <2>2
  <2> QED
    BY <2>1, <2>2, <2>3, EmptyLine
<1>2. Head(picks) \in Queries
  BY DEF InsertPicked
<1>3. new \in Line /\ <<new>> \in Seq(Line)
  BY <1>2, PickedLine, Singleton
<1> DEFINE first == Before(text[row], 0) \o new
           whole == first \o After(text[row], 0)
           above == Lines(1, row - 1)
           below == Lines(row + 1, Len(text))
<1>4. InsertLines(0, <<new>>)
  BY <1>1 DEF InsertPicked
<1>5. text' = above \o <<>> \o <<whole>> \o below
  BY <1>4, OneLinePut DEF Put
<1>6. above = <<>> /\ below = <<>>
  <2>1. SubSeq(text, 1, 0) = <<>> /\ SubSeq(text, 2, 1) = <<>>
    BY SubSeqEmpty
  <2> QED
    BY <1>1, <2>1 DEF Lines
<1>7. whole = new
  <2>1. SubSeq(<<>>, 1, 0) = <<>>
    BY SubSeqEmpty
  <2>2. Before(text[row], 0) = <<>> /\ After(text[row], 0) = <<>>
    BY <1>1, <2>1 DEF Before, After
  <2>3. <<>> \o new = new /\ new \o <<>> = new
    <3> HIDE DEF new
    <3> QED
      BY <1>3, ConcatEmptySeq DEF Line
  <2> QED
    <3> HIDE DEF new
    <3> QED
      BY <2>2, <2>3
<1>8. <<>> \o <<>> \o <<new>> \o <<>> = <<new>>
  <2> DEFINE one == <<new>>
  <2>1. one \in Seq(Line) /\ <<>> \in Seq(Line)
    BY <1>3, EmptySeq
  <2> HIDE DEF one
  <2>2. <<>> \o <<>> = <<>> /\ <<>> \o one = one /\ one \o <<>> = one
    BY <2>1, ConcatEmptySeq
  <2> QED
    BY <2>2, Zenon DEF one
<1> HIDE DEF above, below, whole, new
<1>9. text' = <<new>>
  BY <1>5, <1>6, <1>7, <1>8, Zenon
<1> QED
  BY <1>1, <1>2, <1>9 DEF new

LEMMA PickedText ==
    ASSUME NEW above \in Seq(Line), above # <<>>, NEW below \in Seq(Line), NEW q \in Queries,
           Closed(Joined(above))
    PROVE  Statements(Joined(above \o << <<q, Semicolon>> >> \o below)) =
               Then(Then(Statements(Joined(above)), << <<q>> >>), Statements(Joined(below)))
<1> DEFINE new == <<q, Semicolon>>
           one == <<new>>
           head == above \o one
           a == Joined(above)
           both == Then(Statements(a), << <<q>> >>)
<1>1. /\ new \in Line /\ new \in Stream /\ Closed(new) /\ Statements(new) = << <<q>> >>
      /\ one \in Seq(Line) /\ one # <<>> /\ Joined(one) = new
  <2>1. new \in Line /\ new \in Stream /\ Closed(new) /\ Statements(new) = << <<q>> >>
    BY PickedLine
  <2>2. one \in Seq(Line) /\ Joined(one) = new
    <3> HIDE DEF new
    <3> QED
      BY <2>1, JoinedShort
  <2>3. one # <<>>
    OBVIOUS
  <2> QED
    BY <2>1, <2>2, <2>3
<1>2. a \in Stream /\ Closed(a)
  BY JoinedIsStream
<1> HIDE DEF new, one
<1>3. Statements(Joined(head)) = both
  BY <1>1, StatementsJoined
<1>4. head \in Seq(Line) /\ head # <<>>
  <2>1. head \in Seq(Line)
    BY <1>1, ConcatProperties
  <2>2. head = <<>> <=> above = <<>> /\ one = <<>>
    BY <1>1, ConcatEqualIffEmpty
  <2> QED
    BY <2>1, <2>2
<1>5. Joined(head) = Then(a, Then(<<LineEnd>>, new))
  BY <1>1, JoinedTwo
<1>6. Closed(Joined(head))
  <2> HIDE DEF a
  <2>1. Closed(<<LineEnd>> \o new) /\ <<LineEnd>> \o new \in Stream
    BY <1>1, OneLineEnd, ClosedTwo, Streams
  <2>2. Closed(Then(<<LineEnd>>, new)) /\ Then(<<LineEnd>>, new) \in Stream
    BY <2>1, Zenon DEF Then
  <2> DEFINE b == Then(<<LineEnd>>, new)
  <2> HIDE DEF b
  <2>3. Closed(a \o b)
    BY <1>2, <2>2, ClosedTwo DEF b
  <2>4. Closed(Then(a, b))
    BY <2>3, Zenon DEF Then
  <2> QED
    BY <1>5, <2>4 DEF b
<1>7. Joined(below) \in Stream
  BY JoinedIsStream
<1>8. CASE below = <<>>
  <2>1. head \o below = head
    <3> HIDE DEF head
    <3> QED
      BY <1>4, <1>8, ConcatEmptySeq
  <2>2. Statements(Joined(below)) = <<>>
    BY <1>8, JoinedShort, NoTokens
  <2>3. both \in Seq(Stream)
    <3>1. Statements(Joined(head)) \in Seq(Stream)
      <4> DEFINE h == Joined(head)
      <4>1. h \in Stream /\ Closed(h)
        BY <1>4, <1>6, JoinedIsStream
      <4> HIDE DEF h
      <4>2. Statements(h) \in Seq(Stream)
        BY <4>1, StatementsOfTwo
      <4> QED
        BY <4>2 DEF h
    <3> QED
      BY <1>3, <3>1
  <2>4. Then(both, <<>>) = both
    <3> HIDE DEF both
    <3> QED
      BY <2>3, ThenIsSeq
  <2> HIDE DEF both, head
  <2>5. Statements(Joined(head \o below)) = Then(both, Statements(Joined(below)))
    BY <1>3, <2>1, <2>2, <2>4
  <2> QED
    BY <2>5 DEF both, head, one, new, a
<1>9. CASE below # <<>>
  <2> HIDE DEF both, head
  <2>1. Statements(Joined(head \o below)) = Then(both, Statements(Joined(below)))
    BY <1>3, <1>4, <1>6, <1>9, StatementsJoined
  <2> QED
    BY <2>1 DEF both, head, one, new, a
<1> QED
  BY <1>8, <1>9

LEMMA PickIsAlone ==
    ASSUME Placed(text, row, col), picks \in Seq(Queries), InsertPicked, Closed(Upto(row))
    PROVE  Statements(Joined(text')) =
               Statements(Upto(row)) \o << <<Head(picks)>> >>
                   \o Statements(Joined(Lines(row + 1, Len(text))))
<1> DEFINE q == Head(picks)
           above == SubSeq(text, 1, row)
           below == SubSeq(text, row + 1, Len(text))
<1>1. Upto(row) = Joined(above) /\ Lines(row + 1, Len(text)) = below
  BY DEF Upto, Lines
<1>2. CASE text # << <<>> >>
  <2>1. /\ q \in Queries
        /\ text' = above \o << <<q, Semicolon>> >> \o below
    BY <1>2, PickedBelow
  <2>2. above \in Seq(Line) /\ above # <<>> /\ below \in Seq(Line)
    <3>1. text \in Seq(Line) /\ row \in 0..Len(text) /\ row # 0
      BY DEF Placed
    <3>2. above \in Seq(Line) /\ below \in Seq(Line) /\ Len(above) = row
      BY <3>1, Parted
    <3> HIDE DEF above
    <3>3. above # <<>>
      BY <3>1, <3>2, EmptySeq
    <3> QED
      BY <3>2, <3>3
  <2> HIDE DEF q, above, below
  <2>3. Statements(Joined(text')) =
            Then(Then(Statements(Joined(above)), << <<q>> >>), Statements(Joined(below)))
    BY <1>1, <2>1, <2>2, PickedText
  <2> QED
    BY <1>1, <2>3, Zenon DEF Then, q
<1>3. CASE text = << <<>> >>
  <2>1. row = 1 /\ q \in Queries /\ text' = << <<q, Semicolon>> >>
    BY <1>3, PickedAlone
  <2>2. Joined(text') = <<q, Semicolon>> /\ Statements(Joined(text')) = << <<q>> >>
    <3> DEFINE new == <<q, Semicolon>>
    <3>1. new \in Line /\ Statements(new) = << <<q>> >>
      BY <2>1, PickedLine
    <3> HIDE DEF new
    <3>2. Joined(<<new>>) = new
      BY <3>1, JoinedShort
    <3> QED
      BY <2>1, <3>1, <3>2 DEF new
  <2>3. Statements(Joined(above)) = <<>>
    <3> DEFINE t == << <<>> >>
    <3>1. t \in Seq(Line) /\ Len(t) = 1 /\ Joined(t) = <<>>
      BY JoinedShort, EmptyLine
    <3> HIDE DEF t
    <3>2. SubSeq(t, 1, Len(t)) = t
      BY <3>1, SubSeqFull
    <3> QED
      BY <1>3, <2>1, <3>1, <3>2, NoTokens DEF t
  <2>4. Statements(Joined(below)) = <<>>
    <3>1. Len(text) = 1
      BY <1>3
    <3>2. SubSeq(text, 2, 1) = <<>>
      BY SubSeqEmpty
    <3>3. below = <<>>
      BY <2>1, <3>1, <3>2
    <3> HIDE DEF below
    <3> QED
      BY <3>3, JoinedShort, NoTokens
  <2>5. <<>> \o << <<q>> >> \o <<>> = << <<q>> >>
    <3> DEFINE one == << <<q>> >>
    <3>1. one \in Seq({<<q>>})
      OBVIOUS
    <3> HIDE DEF one
    <3>2. <<>> \o one = one /\ one \o <<>> = one
      BY <3>1, ConcatEmptySeq
    <3> QED
      BY <3>2, Zenon DEF one
  <2> HIDE DEF q, above, below
  <2> QED
    BY <1>1, <2>2, <2>3, <2>4, <2>5, Zenon DEF q
<1> QED
  BY <1>2, <1>3

(* A query picked from the history is a statement of its own between those *)
(* of the editor, which are neither torn nor lost, in a text of any length *)
(* and wherever the cursor is, if its line ends a statement                *)
(* (editor.go:102-108).                                                    *)
THEOREM PicksStandAlone == Spec => PickStandsAlone
<1>1. ASSUME EditorInv, [Next]_vars
      PROVE  [(InsertPicked /\ Closed(Upto(row))) =>
                Statements(Joined(text')) =
                    Statements(Upto(row)) \o << <<Head(picks)>> >>
                        \o Statements(Joined(Lines(row + 1, Len(text))))]_vars
  BY <1>1, PickIsAlone, Zenon DEF EditorInv
<1> QED
  BY <1>1, EditorStep, InitEditor, PTL DEF Spec, PickStandsAlone
-----------------------------------------------------------------------------
(* Running a line.                                                         *)

LEMMA StatementsAre ==
    ASSUME NEW tokens \in Stream
    PROVE  Statements(tokens) \in Seq(Stream)
<1>1. Len(tokens) \in Nat
  BY LenProperties DEF Stream
<1>2. PICK f : Gathers(f, tokens) /\ Statements(tokens) = f[Len(tokens) + 1]
  BY Gathered
<1>3. Len(tokens) + 1 \in 0..(Len(tokens) + 1)
  BY <1>1
<1> QED
  BY <1>2, <1>3 DEF Gathers

LEMMA PreparedIs ==
    ASSUME NEW tokens
    PROVE  Prepared(tokens) = Capped(Statements(tokens))
BY DEF Prepared, Capped

(* The statements down to a line are those above it, and its own.          *)
LEMMA OneLineMore ==
    ASSUME text \in Seq(Line), NEW r \in 2..Len(text), Closed(Upto(r - 1))
    PROVE  Statements(Upto(r)) = Then(Statements(Upto(r - 1)), Statements(text[r]))
<1> DEFINE above == SubSeq(text, 1, r - 1)
           line == text[r]
           below == <<line>>
<1>1. Len(text) \in Nat
  BY LenProperties
<1>2. above \in Seq(Line) /\ above # <<>>
  <2>1. r - 1 \in 0..Len(text) /\ r - 1 # 0
    BY <1>1
  <2> DEFINE n == r - 1
  <2> HIDE DEF n
  <2>2. SubSeq(text, 1, n) \in Seq(Line) /\ Len(SubSeq(text, 1, n)) = n
    BY <2>1, Parted DEF n
  <2>3. above \in Seq(Line) /\ Len(above) # 0
    BY <2>1, <2>2 DEF n
  <2> HIDE DEF above
  <2> QED
    BY <2>3, EmptySeq
<1>3. line \in Line
  <2>1. r \in 1..Len(text)
    BY <1>1
  <2> QED
    BY <2>1, ElementOfSeq
<1>4. SubSeq(text, 1, r) = above \o below
  <2>1. 1 \in 1..Len(text) /\ r \in 1..Len(text)
    BY <1>1
  <2> QED
    BY <2>1, SubSeqRecursiveSecond
<1>5. below \in Seq(Line) /\ below # <<>> /\ Joined(below) = line
  <2>1. below # <<>>
    OBVIOUS
  <2> HIDE DEF line
  <2> QED
    BY <1>3, <2>1, JoinedShort
<1> HIDE DEF above, below
<1>6. Closed(Joined(above)) /\ Upto(r - 1) = Joined(above) /\ Upto(r) = Joined(above \o below)
  BY <1>4 DEF Upto, Lines, above
<1>7. Statements(Joined(above \o below)) =
          Then(Statements(Joined(above)), Statements(Joined(below)))
  BY <1>2, <1>5, <1>6, StatementsJoined
<1> QED
  BY <1>5, <1>6, <1>7

LEMMA LineByLine ==
    ASSUME text \in Seq(Line), text # <<>>, \A r \in 1..Len(text) : Closed(Upto(r))
    PROVE  AllQueries = Capped(FlattenSeq([r \in 1..Len(text) |-> SingleQuery(r)]))
<1> DEFINE n == Len(text)
           seqs == [r \in 1..n |-> SingleQuery(r)]
<1>1. n \in Nat \ {0}
  BY EmptySeq
<1>2. ASSUME NEW r \in 1..n
      PROVE  /\ Statements(text[r]) \in Seq(Stream)
             /\ SingleQuery(r) = Capped(Statements(text[r]))
             /\ SingleQuery(r) \in Seq(Stream)
  <2> DEFINE s == Statements(text[r])
  <2>1. text[r] \in Stream
    BY ElementOfSeq, LineInStream
  <2>2. s \in Seq(Stream)
    BY <2>1, StatementsAre
  <2>3. SingleQuery(r) = Capped(s)
    BY PreparedIs DEF SingleQuery
  <2> HIDE DEF s
  <2>4. Capped(s) \in Seq(Stream)
    BY <2>2, CappedIs
  <2> QED
    BY <2>2, <2>3, <2>4 DEF s
<1>3. ASSUME NEW r \in 1..n PROVE Statements(Upto(r)) \in Seq(Stream)
  <2>1. SubSeq(text, 1, r) \in Seq(Line)
    <3>1. r \in 0..Len(text)
      BY <1>1
    <3> QED
      BY <3>1, Parted
  <2>2. Upto(r) \in Stream
    BY <2>1, JoinedIsStream DEF Upto, Lines
  <2> QED
    BY <2>2, StatementsAre
<1> HIDE DEF n
<1>4. /\ seqs \in Seq(Seq(Stream)) /\ Len(seqs) = n /\ seqs # <<>>
      /\ \A r \in 1..n : seqs[r] = SingleQuery(r)
  <2>1. seqs \in [1..n -> Seq(Stream)]
    BY <1>2
  <2>2. \A r \in 1..n : seqs[r] = SingleQuery(r)
    OBVIOUS
  <2> HIDE DEF seqs
  <2>3. seqs \in Seq(Seq(Stream)) /\ Len(seqs) = n
    BY <1>1, <2>1
  <2> QED
    BY <1>1, <2>2, <2>3, EmptySeq
<1> HIDE DEF seqs
<1>5. PICK f : Flattens(f, Stream, seqs) /\ FlattenSeq(seqs) = f[Len(seqs)]
  BY <1>4, Flattened
<1>6. /\ f \in [1..n -> Seq(Stream)] /\ f[1] = seqs[1]
      /\ \A r \in 2..n : f[r] = Then(f[r - 1], seqs[r])
  BY <1>4, <1>5 DEF Flattens
<1> DEFINE H == {r \in 0..n : r = 0 \/ Capped(Statements(Upto(r))) = Capped(f[r])}
<1>7. 0 \in H
  BY <1>1
<1>8. ASSUME NEW r \in 1..n, r - 1 \in H PROVE r \in H
  <2> DEFINE s == Statements(text[r])
             t == Statements(Upto(r))
  <2>0. r \in 0..n /\ s \in Seq(Stream) /\ t \in Seq(Stream) /\ seqs[r] = Capped(s)
    BY <1>1, <1>2, <1>3, <1>4
  <2>1. CASE r = 1
    <3>1. t = s
      <4>1. SubSeq(text, 1, 1) = <<text[1]>> /\ text[1] \in Line
        <5>1. 1 \in 1..Len(text) /\ text[1] \in Line
          BY <1>1, ElementOfSeq DEF n
        <5>2. SubSeq(text, 1, 1) = <<text[1]>> \o SubSeq(text, 2, 1)
          BY <5>1, SubSeqRecursiveFirst
        <5>3. SubSeq(text, 2, 1) = <<>>
          BY SubSeqEmpty
        <5>4. <<text[1]>> \o <<>> = <<text[1]>>
          BY <5>1, Singleton, ConcatEmptySeq
        <5> QED
          BY <5>1, <5>2, <5>3, <5>4, Zenon
      <4>2. Joined(<<text[1]>>) = text[1]
        BY <4>1, JoinedShort
      <4> QED
        BY <2>1, <4>1, <4>2 DEF Upto, Lines
    <3> HIDE DEF s, t
    <3> DEFINE none == <<>>
    <3>2. none \in Seq(Stream) /\ \A z \in Seq(Stream) : Then(none, z) = z
      BY EmptySeq, ThenIsSeq
    <3>3. Capped(s) \in Seq(Stream)
      BY <2>0, CappedIs
    <3> HIDE DEF none
    <3>4. Capped(Then(none, s)) = Capped(Then(none, Capped(s)))
      BY <2>0, <3>2, CappedThen
    <3>5. Capped(s) = Capped(Capped(s))
      BY <2>0, <3>2, <3>3, <3>4
    <3>6. f[r] = Capped(s)
      BY <1>6, <2>0, <2>1
    <3> QED
      BY <2>0, <3>1, <3>5, <3>6 DEF t
  <2>2. CASE r # 1
    <3> DEFINE x == Statements(Upto(r - 1))
               y == f[r - 1]
    <3>1. r - 1 \in 1..n /\ r \in 2..n
      BY <1>1, <2>2
    <3>2. x \in Seq(Stream) /\ y \in Seq(Stream) /\ Capped(x) = Capped(y)
      <4>1. r - 1 # 0
        BY <1>1, <3>1
      <4>2. Capped(x) = Capped(y)
        BY <1>8, <4>1
      <4>3. x \in Seq(Stream)
        BY <1>3, <3>1
      <4>4. y \in Seq(Stream)
        BY <1>6, <3>1
      <4> QED
        BY <4>2, <4>3, <4>4
    <3>3. t = Then(x, s)
      <4>1. r \in 2..Len(text) /\ Closed(Upto(r - 1))
        BY <3>1 DEF n
      <4> QED
        BY <4>1, OneLineMore
    <3>4. f[r] = Then(y, Capped(s))
      BY <1>6, <2>0, <3>1
    <3> HIDE DEF x, y, s, t
    <3>5. Capped(Then(x, s)) = Capped(Then(y, Capped(s)))
      BY <2>0, <3>2, CappedThen
    <3>6. Capped(t) = Capped(f[r])
      BY <3>3, <3>4, <3>5
    <3> QED
      BY <2>0, <3>6 DEF t
  <2> QED
    BY <2>1, <2>2
<1>9. Capped(Statements(Upto(n))) = Capped(f[n])
  <2> HIDE DEF H
  <2>1. \A r \in 1..n : r - 1 \in H => r \in H
    BY <1>8
  <2>0. n \in Nat
    BY <1>1
  <2>2. \A r \in 0..n : r \in H
    BY <2>0, <1>7, <2>1, InductionUpTo, Zenon
  <2> QED
    BY <1>1, <2>2 DEF H
<1>10. Upto(n) = Joined(text)
  BY SubSeqFull DEF Upto, Lines, n
<1>11. AllQueries = Capped(Statements(Upto(n)))
  BY <1>10, PreparedIs DEF AllQueries
<1> QED
  BY <1>4, <1>5, <1>9, <1>11 DEF seqs, n

(* ctrl+r runs the statements of the cursor's line and no other: line by   *)
(* line those are, in their order, what ctrl+e would run, up to MaxQueries *)
(* of them, in a text of any length whose lines end their statements       *)
(* (editor.go:109-141, bubbletui.go:629-646, README.md:63).                *)
THEOREM LinesRunAlone == Spec => []SingleRunsItsLine
<1>1. EditorInv => SingleRunsItsLine
  <2> SUFFICES ASSUME EditorInv, \A r \in 1..Len(text) : Closed(Upto(r))
               PROVE  AllQueries =
                          LET all == FlattenSeq([r \in 1..Len(text) |-> SingleQuery(r)])
                          IN  SubSeq(all, 1, Min({Len(all), MaxQueries}))
    BY DEF SingleRunsItsLine
  <2>1. text \in Seq(Line) /\ row \in 1..Len(text)
    BY DEF EditorInv, Placed
  <2>2. text # <<>>
    BY <2>1, EmptySeq
  <2>3. AllQueries = Capped(FlattenSeq([r \in 1..Len(text) |-> SingleQuery(r)]))
    BY <2>1, <2>2, LineByLine
  <2> QED
    BY <2>3 DEF Capped
<1> QED
  BY <1>1, EditorStep, InitEditor, PTL DEF Spec
=============================================================================
