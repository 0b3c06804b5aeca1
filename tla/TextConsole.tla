----------------------------- MODULE TextConsole -----------------------------
(***************************************************************************)
(* The console (text-console.cpp) and the streams that print to it         *)
(* (stream.cpp).  Buffer, position and color are protected by a lock; a    *)
(* stream sets its color and prints in two calls.                          *)
(*                                                                         *)
(* The reference is a roll of paper: lines that are never moved, of which  *)
(* the screen shows the last ones.  A string reaches the paper as a whole. *)
(*                                                                         *)
(* A backspace at the left edge of the top line would set y to -1 and     *)
(* write the last cell of the screen; callers are assumed not to do so.    *)
(***************************************************************************)
EXTENDS Integers, Sequences, SequencesExt

CONSTANTS
    Cpus,
    NoCpu,
    Width, Height,
    Colors,     \* one of each stream
    Strings,
    MaxLines    \* bound on the lines of the paper

VARIABLES
    buffer, x, y, color,  \* of TextConsole
    cursor,               \* position in the VGA registers
    lock,
    cpu,                  \* what each CPU does, and what it has left to print
    paper                 \* [lines, row, col, above]

vars == <<buffer, x, y, color, cursor, lock, cpu, paper>>

NewLine   == "newline"
Return    == "return"
Backspace == "backspace"

Cell(ch, c) == [ch |-> ch, color |-> c]
NoChar   == "none"
NoColor  == "black"
Zero     == Cell(NoChar, NoColor)
ZeroLine == [j \in 0 .. Width - 1 |-> Zero]
Size     == Width * Height

Init ==
    /\ buffer = [i \in 0 .. Size - 1 |-> Zero]
    /\ x = 0 /\ y = 0 /\ cursor = 0
    /\ color = "green"
    /\ lock = NoCpu
    /\ cpu = [c \in Cpus |-> [pc |-> "idle", text |-> <<>>]]
    /\ paper = [lines |-> <<ZeroLine>>, row |-> 1, col |-> 0, above |-> FALSE]

-----------------------------------------------------------------------------
(* The paper.                                                              *)

\* The line in which the next character is printed, and the first one shown.
NextLine(p) == IF p.col = Width THEN p.row + 1 ELSE p.row
TopLine(p)  == IF Len(p.lines) > Height THEN Len(p.lines) - Height + 1 ELSE 1

Extend(p) == IF NextLine(p) > Len(p.lines)
             THEN [p EXCEPT !.lines = Append(@, ZeroLine)] ELSE p

OnNewLine(p) == Extend([p EXCEPT !.row = @ + 1, !.col = 0])

OnChar(p, ch, c) ==
    LET q == IF p.col = Width THEN OnNewLine(p) ELSE p
    IN  Extend([q EXCEPT !.lines[q.row][q.col] = Cell(ch, c), !.col = @ + 1])

\* Backspace erases the last character of the line above at the left edge.
LastUsed(line) ==
    LET empty == {j \in 0 .. Width - 1 : line[j].ch = NoChar}
    IN  IF empty = {} THEN Width - 1 ELSE Min(empty)

OnBackspace(p, c) ==
    IF p.col > 0
    THEN [p EXCEPT !.col = @ - 1, !.lines[p.row][p.col - 1] = Cell(NoChar, c)]
    ELSE IF p.row = TopLine(p) THEN [p EXCEPT !.above = TRUE]
    ELSE LET j == LastUsed(p.lines[p.row - 1])
         IN  [p EXCEPT !.row = @ - 1, !.col = j, !.lines[p.row - 1][j] = Cell(NoChar, c)]

OnPaper(p, ch, c) ==
    CASE ch = NewLine   -> OnNewLine(p)
      [] ch = Return    -> [p EXCEPT !.col = 0]
      [] ch = Backspace -> OnBackspace(p, c)
      [] OTHER          -> OnChar(p, ch, c)

\* The place of the cursor gets a color so that the cursor is visible.
Touch(p, c) ==
    LET r == NextLine(p)
        j == p.col % Width
    IN  IF p.lines[r][j].color = NoColor
        THEN [p EXCEPT !.lines[r][j] = Cell(p.lines[r][j].ch, c)] ELSE p

Typed(p, text, c) == Touch(FoldLeft(LAMBDA q, ch : OnPaper(q, ch, c), p, text), c)

-----------------------------------------------------------------------------
(* The console.                                                            *)

\* Its buffer and position, as one value.
Screen == [buffer |-> buffer, x |-> x, y |-> y]

GetBufferIndex(s) ==
    LET pos == s.y * Width + s.x IN IF pos >= Size THEN Size - 1 ELSE pos

ScrollUp(s) ==
    [s EXCEPT !.buffer = [i \in 0 .. Size - 1 |->
                             IF i < Size - Width THEN s.buffer[i + Width] ELSE Zero]]

PrintNewline(s) ==
    IF s.y + 1 >= Height THEN ScrollUp([s EXCEPT !.x = 0, !.y = Height - 1])
    ELSE [s EXCEPT !.x = 0, !.y = @ + 1]

SetCurrent(s, cell) == [s EXCEPT !.buffer[GetBufferIndex(s)] = cell]

PrintBackspace(s) ==
    IF s.x # 0 THEN SetCurrent([s EXCEPT !.x = @ - 1], Cell(NoChar, color))
    ELSE LET line == [j \in 0 .. Width - 1 |-> s.buffer[(s.y - 1) * Width + j]]
         IN  SetCurrent([s EXCEPT !.y = @ - 1, !.x = LastUsed(line)], Cell(NoChar, color))

\* Mutant: the position is not moved with the lines.
ScrollKeepY(s) == IF s.x = Width /\ s.y = Height - 1 THEN ScrollUp(s) ELSE s

\* At the end of the last line the screen scrolls at once.
ScrollAtEnd(s) ==
    IF s.x = Width /\ s.y = Height - 1 THEN [ScrollUp(s) EXCEPT !.y = @ - 1] ELSE s

PrintCharacter(s, ch) ==
    LET t == IF s.x = Width THEN PrintNewline(s) ELSE s
        u == SetCurrent(t, Cell(ch, color))
    IN  ScrollAtEnd([u EXCEPT !.x = @ + 1])

Printed(s, ch) ==
    CASE ch = NewLine   -> PrintNewline(s)
      [] ch = Return    -> [s EXCEPT !.x = 0]
      [] ch = Backspace -> PrintBackspace(s)
      [] OTHER          -> PrintCharacter(s, ch)

Show(s) == buffer' = s.buffer /\ x' = s.x /\ y' = s.y

-----------------------------------------------------------------------------
(* The streams.                                                            *)

\* Puts sets the color, and PrintString takes the lock for the whole string.
SetColor(c, k) ==
    /\ cpu[c].pc = "idle" /\ lock = NoCpu
    /\ color' = k
    /\ \E t \in Strings : cpu' = [cpu EXCEPT ![c] = [pc |-> "puts", text |-> t]]
    /\ UNCHANGED <<buffer, x, y, cursor, lock, paper>>

PrintString(c) ==
    LET p == Typed(paper, cpu[c].text, color) IN
    /\ cpu[c].pc = "puts" /\ lock = NoCpu
    /\ ~p.above /\ Len(p.lines) <= MaxLines
    /\ lock' = c
    /\ paper' = p
    /\ cpu' = [cpu EXCEPT ![c].pc = "print"]
    /\ UNCHANGED <<buffer, x, y, color, cursor>>

PrintNext(c) ==
    /\ cpu[c].pc = "print" /\ cpu[c].text # <<>>
    /\ Show(Printed(Screen, Head(cpu[c].text)))
    /\ cpu' = [cpu EXCEPT ![c].text = Tail(@)]
    /\ UNCHANGED <<color, cursor, lock, paper>>

\* PositionCursor and the end of the lock's scope.
Finish(c) ==
    LET i == GetBufferIndex(Screen) IN
    /\ cpu[c].pc = "print" /\ cpu[c].text = <<>>
    /\ buffer' = IF buffer[i].color = NoColor THEN [buffer EXCEPT ![i] = Cell(NoChar, color)]
                 ELSE buffer
    /\ cursor' = i
    /\ lock' = NoCpu
    /\ cpu' = [cpu EXCEPT ![c].pc = "idle"]
    /\ UNCHANGED <<x, y, color, paper>>

Next ==
    \E c \in Cpus :
        \/ \E k \in Colors : SetColor(c, k)
        \/ PrintString(c) \/ PrintNext(c) \/ Finish(c)

Spec == Init /\ [][Next]_vars

-----------------------------------------------------------------------------
(* Properties.                                                             *)

\* Between strings the screen shows the last lines of the paper, cell by cell, and
\* the cursor is where the next character will be printed, also when the last one has
\* filled the last cell: scrolling, wrapping and erasing neither lose nor duplicate a
\* character, and the strings of several CPUs are never mixed.
ScreenIsWindow ==
    lock = NoCpu =>
        /\ \A i \in 0 .. Height - 1, j \in 0 .. Width - 1 :
              buffer[i * Width + j] =
                  IF TopLine(paper) + i \in DOMAIN paper.lines
                  THEN paper.lines[TopLine(paper) + i][j] ELSE Zero
        /\ cursor = (NextLine(paper) - TopLine(paper)) * Width + (paper.col % Width)

=============================================================================
