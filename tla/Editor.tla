------------------------------- MODULE Editor -------------------------------
(***************************************************************************)
(* The text of the query editor (pkg/bubbletui/editor.go): its two modes,  *)
(* the operators dd, yy and p with their register, what ctrl+e and ctrl+r  *)
(* run, the queries that come from the history, and the keys that          *)
(* Model.Update (bubbletui.go) passes on after moving the focus.  Which    *)
(* panel is drawn how, and the status bar, are in Focus.tla.               *)
(*                                                                         *)
(* A text is a sequence of lines, a line a sequence of tokens: a word, a   *)
(* semicolon, or a query picked from the history.  The textarea itself is  *)
(* a library; it is modelled as far as the editor drives it.               *)
(***************************************************************************)
EXTENDS Naturals, Sequences, SequencesExt

CONSTANTS
    Queries,        \* queries of the history: statements without semicolon
    MaxQueries,     \* statements that are run at once
    MaxTokens,      \* bound on the text, line ends included
    MaxPicks        \* bound on the queries picked but not yet inserted

Word == "word"
Semicolon == ";"
LineEnd == "line end"

ASSUME EditorAssumption ==
    /\ MaxQueries \in Nat \ {0}
    /\ MaxTokens \in Nat
    /\ MaxPicks \in Nat
    /\ Queries \intersect {Semicolon, LineEnd} = {}

VARIABLES
    text,       \* the lines, at least one
    row, col,   \* the cursor: its line, and how many tokens are before it
    mode,       \* "normal" or "insert"
    pending,    \* pendingCmd: "", "d" or "y"
    register,   \* the line last deleted or yanked
    focus,      \* Model.focus: "editor", "table", or "aside" for the sidebar,
                \* the help and the modals, which pass no key on
    picks       \* querySelectedMsg under way

cursor == <<row, col>>
vars == <<text, cursor, mode, pending, register, focus, picks>>

Init ==
    /\ text = << <<>> >>
    /\ row = 1 /\ col = 0
    /\ mode = "normal"
    /\ pending = ""
    /\ register = <<>>
    /\ focus = "editor"
    /\ picks = <<>>
-----------------------------------------------------------------------------
(* Statements.                                                             *)

Joined(lines) ==
    LET joined[r \in 0..Len(lines)] ==
            IF r <= 1 THEN IF r = 0 THEN <<>> ELSE lines[r]
            ELSE joined[r - 1] \o <<LineEnd>> \o lines[r]
    IN  joined[Len(lines)]

Size(lines) == Len(Joined(lines))

(* What the statement that ends before i is made of, without the white     *)
(* space at either side: since the semicolon before, from the first token  *)
(* that is no line end to the last one.                                    *)
Solid(tokens, i) ==
    {k \in 1..(i - 1) : /\ tokens[k] # LineEnd
                       /\ \A m \in k..(i - 1) : tokens[m] # Semicolon}

(* strings.Split at the semicolons, TrimSpace of each part, and those that *)
(* are not empty: upto[i] are the statements that end before or at i.      *)
Ends(tokens, i) ==
    /\ i = Len(tokens) + 1 \/ tokens[i] = Semicolon
    /\ Solid(tokens, i) # {}

Statement(tokens, i) == SubSeq(tokens, Min(Solid(tokens, i)), Max(Solid(tokens, i)))

Statements(tokens) ==
    LET upto[i \in 0..(Len(tokens) + 1)] ==
            IF i = 0 THEN <<>>
            ELSE IF Ends(tokens, i) THEN Append(upto[i - 1], Statement(tokens, i))
            ELSE upto[i - 1]
    IN  upto[Len(tokens) + 1]

(* prepareQueriesForExecution                                              *)
Prepared(tokens) ==
    LET all == Statements(tokens)
    IN  SubSeq(all, 1, Min({Len(all), MaxQueries}))

(* ctrl+e and ctrl+r.                                                      *)
AllQueries == Prepared(Joined(text))

(* Mutant of SingleQuery: the text up to the cursor's line.                *)
UpToCursor(r) == Prepared(Joined(SubSeq(text, 1, r)))

SingleQuery(r) == Prepared(text[r])
-----------------------------------------------------------------------------
(* The textarea.                                                           *)

Put(lines, r, c) ==
    /\ Size(lines) <= MaxTokens
    /\ text' = lines /\ row' = r /\ col' = c

Before(line, c) == SubSeq(line, 1, c)
After(line, c) == SubSeq(line, c + 1, Len(line))
Lines(from, to) == SubSeq(text, from, to)

(* SetValue leaves the cursor at the end of the text.                      *)
SetValue(lines) == Put(lines, Len(lines), Len(Last(lines)))

(* InsertString at (row, c): lines goes between what is before and after.  *)
InsertLines(c, lines) ==
    LET first == Before(text[row], c) \o Head(lines)
        last == IF Len(lines) = 1 THEN first ELSE Last(lines)
        new == IF Len(lines) = 1 THEN <<first>>
               ELSE <<first>> \o SubSeq(lines, 2, Len(lines))
    IN  Put(Lines(1, row - 1) \o Front(new) \o << last \o After(text[row], c) >>
                \o Lines(row + 1, Len(text)),
            row + Len(lines) - 1, Len(last))

Joins(r) == Lines(1, r - 1) \o << text[r] \o text[r + 1] >> \o Lines(r + 2, Len(text))
Replaced(line) == [text EXCEPT ![row] = line]

(* delete: the token after the cursor.  At the end of a line, the line     *)
(* below is joined; whether that also happens when the last token of the   *)
(* line has just been deleted is up to the library.                        *)
DeleteForward ==
    LET rest == Replaced(Before(text[row], col) \o After(text[row], col + 1))
    IN  \/ col < Len(text[row]) /\ Put(rest, row, col)
        \/ /\ col + 1 >= Len(text[row]) /\ row < Len(text)
           /\ Put(Lines(1, row - 1) \o << rest[row] \o text[row + 1] >>
                     \o Lines(row + 2, Len(text)), row, col)
        \/ col = Len(text[row]) /\ row = Len(text) /\ UNCHANGED <<text, cursor>>

Backspace ==
    \/ /\ col > 0
       /\ Put(Replaced(Before(text[row], col - 1) \o After(text[row], col)), row, col - 1)
    \/ col = 0 /\ row > 1 /\ Put(Joins(row - 1), row - 1, Len(text[row - 1]))

DeleteAfterCursor ==
    IF col = Len(text[row]) /\ row < Len(text)
    THEN Put(Joins(row), row, col)
    ELSE Put(Replaced(Before(text[row], col)), row, col)

(* Where the cursor can be put: sideways it wraps, up and down it stays    *)
(* within the line.                                                        *)
Within(r, c) == <<r, Min({c, Len(text[r])})>>
Left == IF col > 0 THEN <<row, col - 1>>
        ELSE IF row > 1 THEN <<row - 1, Len(text[row - 1])>> ELSE cursor
Right == IF col < Len(text[row]) THEN <<row, col + 1>>
         ELSE IF row < Len(text) THEN <<row + 1, 0>> ELSE cursor
Up == IF row > 1 THEN Within(row - 1, col) ELSE cursor
Down == IF row < Len(text) THEN Within(row + 1, col) ELSE cursor
-----------------------------------------------------------------------------
(* Editor.Update.                                                          *)

Editing == focus = "editor"
Normal == Editing /\ mode = "normal" /\ pending = ""
Insert == Editing /\ mode = "insert"
Still == UNCHANGED <<mode, pending, register, focus, picks>>

(* d or y, the first time; it waits for the next key.                      *)
Operator(op) ==
    /\ Normal
    /\ pending' = op
    /\ UNCHANGED <<text, cursor, mode, register, focus, picks>>

(* The key after d or y, when it is not the same one: nothing else is done. *)
OperatorOff ==
    /\ Editing /\ mode = "normal" /\ pending # ""
    /\ pending' = ""
    /\ UNCHANGED <<text, cursor, mode, register, focus, picks>>

(* Mutant of DeleteLine: the target row is not kept below the line count.  *)
DeleteLineRowKept ==
    /\ Editing /\ mode = "normal" /\ pending = "d"
    /\ register' = text[row]
    /\ LET rest == Lines(1, row - 1) \o Lines(row + 1, Len(text))
       IN  Put(IF rest = <<>> THEN << <<>> >> ELSE rest, row, 0)
    /\ pending' = ""
    /\ UNCHANGED <<mode, focus, picks>>

(* dd: deleteCurrentLine                                                   *)
DeleteLine ==
    /\ Editing /\ mode = "normal" /\ pending = "d"
    /\ register' = text[row]
    /\ LET rest == Lines(1, row - 1) \o Lines(row + 1, Len(text))
       IN  IF rest = <<>> THEN Put(<< <<>> >>, 1, 0)
           ELSE Put(rest, Min({row, Len(rest)}), 0)
    /\ pending' = ""
    /\ UNCHANGED <<mode, focus, picks>>

(* yy: yankCurrentLine                                                     *)
YankLine ==
    /\ Editing /\ mode = "normal" /\ pending = "y"
    /\ register' = text[row]
    /\ pending' = ""
    /\ UNCHANGED <<text, cursor, mode, focus, picks>>

(* Mutant of PasteAfter: append to the lines before the pasted one writes  *)
(* over those after it, which share the array.                             *)
PasteOver ==
    /\ Normal
    /\ register # <<>>
    /\ SetValue(Lines(1, row) \o <<register>> \o Lines(row + 2, Len(text)))
    /\ Still

(* p: pasteAfter                                                           *)
PasteAfter ==
    /\ Normal
    /\ register # <<>>
    /\ SetValue(Lines(1, row) \o <<register>> \o Lines(row + 1, Len(text)))
    /\ Still

(* x                                                                       *)
DeleteChar == Normal /\ DeleteForward /\ Still

(* ctrl+d: the text goes, the register stays.                              *)
Reset == Normal /\ Put(<< <<>> >>, 1, 0) /\ Still

(* h, l, k, j, 0, $, g, G, and the arrow keys of the insert mode.          *)
Move(to) ==
    /\ Normal \/ Insert
    /\ row' = to[1] /\ col' = to[2]
    /\ UNCHANGED text
    /\ Still

Motions == {Left, Right, Up, Down, <<row, 0>>, <<row, Len(text[row])>>,
            Within(1, col), Within(Len(text), col)}

(* Mutant of ToInsert: i goes by the pending operator.                     *)
ToInsertAtOnce ==
    /\ Editing /\ mode = "normal"
    /\ mode' = "insert"
    /\ UNCHANGED <<text, cursor, pending, register, focus, picks>>

ToInsert ==
    /\ Normal
    /\ mode' = "insert"
    /\ UNCHANGED <<text, cursor, pending, register, focus, picks>>

(* esc, which also moves the cursor to the left.                           *)
ToNormal ==
    /\ Insert
    /\ mode' = "normal"
    /\ row' = Left[1] /\ col' = Left[2]
    /\ UNCHANGED <<text, pending, register, focus, picks>>

(* A key of the insert mode that writes, a line end among them.            *)
Type(token) ==
    /\ Insert
    /\ IF token = LineEnd THEN InsertLines(col, << <<>>, <<>> >>)
       ELSE InsertLines(col, << <<token>> >>)
    /\ Still

TypeBackspace == Insert /\ Backspace /\ Still
-----------------------------------------------------------------------------
(* Keys and messages of Model.Update that concern the editor.  A key that  *)
(* moves the focus is passed on to the panel that now has it.              *)

(* ctrl+h, ctrl+j, and from everywhere alt+h and ?, whatever is pending.   *)
Leave(panel) ==
    /\ panel = "table" => focus = "editor"
    /\ focus' = panel
    /\ UNCHANGED <<text, cursor, mode, pending, register, picks>>

(* ctrl+k, from the table or in the editor: Editor.Update gets it as well, *)
(* where it is a key like any other, and one that cuts the line in insert  *)
(* mode.                                                                   *)
NavigateUp ==
    /\ focus \in {"table", "editor"}
    /\ focus' = "editor"
    /\ pending' = ""
    /\ IF mode = "insert" THEN DeleteAfterCursor ELSE UNCHANGED <<text, cursor>>
    /\ UNCHANGED <<mode, register, picks>>

(* ctrl+l from the sidebar, which is not passed on; esc leaves a modal.    *)
Back ==
    /\ focus = "aside"
    /\ focus' = "editor"
    /\ UNCHANGED <<text, cursor, mode, pending, register, picks>>

(* enter in the history: querySelectedMsg is under way.  Until it arrives, *)
(* enter can be pressed again.                                             *)
Pick(q) ==
    /\ focus = "aside"
    /\ Len(picks) < MaxPicks
    /\ picks' = Append(picks, q)
    /\ UNCHANGED <<text, cursor, mode, pending, register, focus>>

(* Mutant of InsertPicked: at the cursor, not at the end of its line.      *)
InsertAtCursor ==
    /\ picks # <<>>
    /\ picks' = Tail(picks)
    /\ focus' = "editor"
    /\ LET line == <<Head(picks), Semicolon>>
       IN  IF text = << <<>> >> THEN InsertLines(col, <<line>>)
           ELSE InsertLines(col, << <<>>, line >>)
    /\ UNCHANGED <<mode, pending, register>>

(* querySelectedMsg: the focus comes back, and the query is inserted below *)
(* the cursor's line.                                                      *)
InsertPicked ==
    /\ picks # <<>>
    /\ picks' = Tail(picks)
    /\ focus' = "editor"
    /\ LET end == Len(text[row])
           line == <<Head(picks), Semicolon>>
       IN  IF text = << <<>> >> THEN InsertLines(end, <<line>>)
           ELSE InsertLines(end, << <<>>, line >>)
    /\ UNCHANGED <<mode, pending, register>>
-----------------------------------------------------------------------------
Next ==
    \/ \E op \in {"d", "y"} : Operator(op)
    \/ OperatorOff \/ DeleteLine \/ YankLine \/ PasteAfter \/ DeleteChar \/ Reset
    \/ \E to \in Motions : Move(to)
    \/ ToInsert \/ ToNormal
    \/ \E token \in {Word, Semicolon, LineEnd} : Type(token)
    \/ TypeBackspace
    \/ \E panel \in {"table", "aside"} : Leave(panel)
    \/ NavigateUp \/ Back
    \/ \E q \in Queries : Pick(q)
    \/ InsertPicked

Spec == Init /\ [][Next]_vars
-----------------------------------------------------------------------------
(* Type invariant: the cursor is in the text, too.                         *)
Tokens == {Word, Semicolon} \cup Queries

TypeOK ==
    /\ text # <<>> /\ \A r \in 1..Len(text) : Range(text[r]) \subseteq Tokens
    /\ row \in 1..Len(text) /\ col \in 0..Len(text[row])
    /\ mode \in {"normal", "insert"} /\ pending \in {"", "d", "y"}
    /\ Range(register) \subseteq Tokens
    /\ focus \in {"editor", "table", "aside"}
    /\ Range(picks) \subseteq Queries

(* No statement is left unfinished at the end of these tokens.             *)
Closed(tokens) == Solid(tokens, Len(tokens) + 1) = {}

Upto(r) == Joined(Lines(1, r))

(* A query picked from the history is a statement of its own between those *)
(* of the editor: wherever the cursor is, in whatever mode, and whatever   *)
(* was typed between enter and the message's arrival, no statement of the  *)
(* text is torn or lost, if the cursor's line ends one.                    *)
PickStandsAlone ==
    [][(InsertPicked /\ Closed(Upto(row))) =>
        Statements(Joined(text')) =
            Statements(Upto(row)) \o << <<Head(picks)>> >>
                \o Statements(Joined(Lines(row + 1, Len(text))))]_vars

(* ctrl+r runs the statements of the cursor's line and no other, and those *)
(* in their order are what ctrl+e would run in one go, up to MaxQueries of *)
(* them, where each line ends its statements (README.md:63).               *)
SingleRunsItsLine ==
    (\A r \in 1..Len(text) : Closed(Upto(r))) =>
        AllQueries = LET all == FlattenSeq([r \in 1..Len(text) |-> SingleQuery(r)])
                     IN  SubSeq(all, 1, Min({Len(all), MaxQueries}))

(* What takes text away on purpose.                                        *)
Erases == DeleteChar \/ Reset \/ TypeBackspace \/ \E t \in {Word, Semicolon, LineEnd} : Type(t)
CutByKey == mode = "insert" /\ NavigateUp

Copies(line, lines) == Cardinality({i \in DOMAIN lines : lines[i] = line})

(* Operators, pastes, picks, motions and changes of focus lose no line but *)
(* the one in the register, where p finds it; only keys that erase do, and *)
(* ctrl+k in insert mode.                                                  *)
LinesKept ==
    [][(Erases \/ CutByKey) \/
        \A line \in Range(text) \ {<<>>} :
            Copies(line, text) <= Copies(line, text') + IF register' = line THEN 1 ELSE 0]_vars

(* An operator never waits while the user types: the next d he writes does *)
(* not delete a line when he is back in normal mode, wherever the focus    *)
(* and the history took him in between.                                    *)
NoOperatorWhileTyping == mode = "insert" => pending = ""
=============================================================================
