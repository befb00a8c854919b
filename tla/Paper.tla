------------------------------- MODULE Paper -------------------------------
(***************************************************************************)
(* What src/briey/console.c promises a program that prints: a roll of      *)
(* lines that only grows, of which the screen shows the end.  Characters   *)
(* land on the last line at a column, which wraps at the right margin.     *)
(* The promise ends where a program moves the cursor left of the margin,   *)
(* or where a report of an unknown character passes the right margin; it   *)
(* is good again once the screen has been cleared.                         *)
(***************************************************************************)
EXTENDS Integers, Sequences

CONSTANTS
    Width,      \* columns
    Blank,      \* an empty cell
    Glyphs,     \* what a program may print
    Reports     \* what the console prints of a character it does not know

VARIABLES
    lines,      \* every line since the screen was cleared
    col,        \* the column, on the last line
    astray      \* the promise no longer holds

pvars == <<lines, col, astray>>

Column    == 0..(Width - 1)
BlankLine == [x \in Column |-> Blank]

PInit == lines = <<BlankLine>> /\ col = 0 /\ ~astray

\* A glyph at the end of the paper, which goes on below a full line.
Printed(paper, c) ==
    LET written == [paper.lines EXCEPT ![Len(paper.lines)][paper.col] = c]
    IN  IF paper.col + 1 < Width THEN [lines |-> written, col |-> paper.col + 1]
        ELSE [lines |-> Append(written, BlankLine), col |-> 0]

\* The paper after the first n of some glyphs.
PrintedAll(glyphs) ==
    LET after[n \in 0..Len(glyphs)] == IF n = 0 THEN [lines |-> lines, col |-> col]
                                       ELSE Printed(after[n - 1], glyphs[n])
    IN  after

Emit(glyphs) == LET after == PrintedAll(glyphs)[Len(glyphs)]
                IN  lines' = after.lines /\ col' = after.col

Type     == \E c \in Glyphs : Emit(<<c>>)
Report   == \E glyphs \in Reports : Emit(glyphs)
LineFeed == lines' = Append(lines, BlankLine) /\ UNCHANGED col
Left     == col' \in Column /\ col' < col /\ UNCHANGED lines
ClearToLineEnd ==
    /\ lines' = [lines EXCEPT ![Len(lines)] = [x \in Column |-> IF x < col THEN @[x] ELSE Blank]]
    /\ UNCHANGED col

Intact == ~astray /\ ~astray' /\ (Type \/ Report \/ LineFeed \/ Left \/ ClearToLineEnd)

\* The two ways to lose the promise, and the way back.
GoAstray == /\ col = 0 \/ \E glyphs \in Reports : col + Len(glyphs) > Width
            /\ astray'
Adrift   == astray /\ astray'
Clear    == lines' = <<BlankLine>> /\ col' = 0 /\ ~astray'

PNext == Intact \/ GoAstray \/ Adrift \/ Clear
Printing == PInit /\ [][PNext]_pvars
=============================================================================
