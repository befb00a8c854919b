------------------------------ MODULE Console ------------------------------
(***************************************************************************)
(* The text console of src/briey/console.c over the text memory of         *)
(* top.v: cursor, wrapping, scrolling and the escape sequences.  One       *)
(* action is one call of a function programs may call through the symbol   *)
(* table; console_puts is a run of console_putc, and nothing else prints   *)
(* meanwhile (the interrupt handler does not).                             *)
(***************************************************************************)
EXTENDS Integers, Sequences

CONSTANTS
    TEXTWIDTH, TEXTHEIGHT,
    TVRAM_STRIDE,   \* cells from one row to the next
    Modulus,        \* of cursorX; 2^32 in the code
    Chars,          \* the characters programs print outside escape sequences
    SequenceChars,  \* and inside
    Control,        \* those below 0x20, the four known ones apart
    Digit,          \* the value of each digit
    MaxDigit,       \* bound on escape_digit
    MaxChars        \* bound on the number of calls, console_clear apart

Known == {"LF", "CR", "BS", "ESC"}
Report(n) == SubSeq(<<"*", "E", "[", "[", "h", "h", "]">>, 8 - n, 7)

ASSUME ScreenSize ==
    /\ TEXTWIDTH \in Nat /\ TEXTHEIGHT \in Nat \ {0}
    /\ TEXTWIDTH >= 7 /\ TVRAM_STRIDE \in Nat /\ TVRAM_STRIDE > TEXTWIDTH
    /\ Modulus \in Nat /\ Modulus > 2 * TEXTWIDTH /\ Modulus > MaxDigit
ASSUME CharSets ==
    /\ Control \cap Known = {} /\ "blank" \notin Chars
    /\ DOMAIN Digit \cap (Known \cup Control) = {}
    /\ \A c \in DOMAIN Digit : Digit[c] \in 0..9

VARIABLES
    tvram,
    cursorX, cursorY,
    escape_seq, escape_digit,
    gone,           \* history: the lines scrolled off the top
    astray,         \* history: the cursor left the screen, or a report did
    calls           \* history: calls so far

screen == <<tvram, cursorX, cursorY, gone, astray>>
vars   == <<screen, escape_seq, escape_digit, calls>>

\* The text memory has one row more than the screen.
Cells == 0..((TEXTHEIGHT + 1) * TVRAM_STRIDE - 1)
Column == 0..(TEXTWIDTH - 1)

\* cursorX as the C code adds it to an address, and as an int.
Signed(x) == IF 2 * x < Modulus THEN x ELSE x - Modulus
CHARV(x, y) == y * TVRAM_STRIDE + Signed(x)
Row(memory, y) == [x \in Column |-> memory[CHARV(x, y)]]

Init ==
    /\ tvram = [a \in Cells |-> "blank"]
    /\ cursorX = 0 /\ cursorY = 0
    /\ escape_seq = "NONE" /\ escape_digit = 0
    /\ gone = <<>> /\ astray = FALSE /\ calls = 0

-----------------------------------------------------------------------------
\* Cursor and memory, as a record: several characters may go out in one call.

Page == [tvram |-> tvram, x |-> cursorX, y |-> cursorY]

\* Mutant: the margin one column late.
OutLate(page, c) ==
    LET x == (page.x + 1) % Modulus
        at == CHARV(page.x, page.y)
        written == IF at \in Cells THEN [page.tvram EXCEPT ![at] = c] ELSE page.tvram
    IN  IF x > TEXTWIDTH THEN [tvram |-> written, x |-> 0, y |-> page.y + 1]
        ELSE [tvram |-> written, x |-> x, y |-> page.y]

\* A glyph at the cursor, which moves on and wraps; a write outside the text
\* memory is somebody else's.
Out(page, c) ==
    LET x == (page.x + 1) % Modulus
        at == CHARV(page.x, page.y)
        written == IF at \in Cells THEN [page.tvram EXCEPT ![at] = c] ELSE page.tvram
    IN  IF x >= TEXTWIDTH THEN [tvram |-> written, x |-> 0, y |-> page.y + 1]
        ELSE [tvram |-> written, x |-> x, y |-> page.y]

\* Mutant: the bottom row keeps its text.
ScrolledKeeps(memory) ==
    [a \in Cells |->
       IF a % TVRAM_STRIDE >= TEXTWIDTH \/ a >= (TEXTHEIGHT - 1) * TVRAM_STRIDE THEN memory[a]
       ELSE memory[a + TVRAM_STRIDE]]

\* console_scroll: rows move up one by one, the last is cleared.
Scrolled(memory) ==
    [a \in Cells |->
       IF a % TVRAM_STRIDE >= TEXTWIDTH \/ a >= TEXTHEIGHT * TVRAM_STRIDE THEN memory[a]
       ELSE IF a >= (TEXTHEIGHT - 1) * TVRAM_STRIDE THEN "blank"
       ELSE memory[a + TVRAM_STRIDE]]

\* The end of console_putc: at the bottom, the screen moves up instead.
Show(page) ==
    /\ cursorX' = page.x
    /\ IF page.y >= TEXTHEIGHT
       THEN /\ tvram' = Scrolled(page.tvram)
            /\ cursorY' = page.y - 1
            /\ gone' = Append(gone, Row(page.tvram, 0))
       ELSE /\ tvram' = page.tvram
            /\ cursorY' = page.y
            /\ UNCHANGED gone

\* The page after the first n glyphs of a report.
OutAll(glyphs) ==
    LET after[n \in 0..Len(glyphs)] == IF n = 0 THEN Page ELSE Out(after[n - 1], glyphs[n])
    IN  after

\* debugout of a report: one that goes on below the bottom row loses its end.
DebugOut(n) ==
    /\ Show(OutAll(Report(n))[n])
    /\ astray' = (astray \/ (cursorY = TEXTHEIGHT - 1 /\ cursorX + n > TEXTWIDTH))

-----------------------------------------------------------------------------
\* console_putc outside an escape sequence, and after ESC O, which it never leaves.

Plain == escape_seq \notin {"ESC", "ESC_BRACKET"}

Put(c) ==
    /\ Plain /\ c \notin Known \cup Control
    /\ Show(Out(Page, c))
    /\ UNCHANGED <<astray, escape_seq, escape_digit>>

LineFeed(c) ==
    /\ Plain /\ c = "LF"
    /\ Show([Page EXCEPT !.y = @ + 1])
    /\ UNCHANGED <<astray, escape_seq, escape_digit>>

Return(c) ==
    /\ Plain /\ c = "CR"
    /\ cursorX' = 0
    /\ UNCHANGED <<tvram, cursorY, gone, astray, escape_seq, escape_digit>>

Backspace(c) ==
    /\ Plain /\ c = "BS"
    /\ cursorX' = IF cursorX > 0 THEN cursorX - 1 ELSE 0
    /\ UNCHANGED <<tvram, cursorY, gone, astray, escape_seq, escape_digit>>

ReportControl(c) ==
    /\ Plain /\ c \in Control
    /\ DebugOut(4)
    /\ UNCHANGED <<escape_seq, escape_digit>>

Escape(c) ==
    /\ Plain /\ c = "ESC"
    /\ escape_seq' = "ESC" /\ escape_digit' = 0
    /\ UNCHANGED screen

-----------------------------------------------------------------------------
\* console_putc inside one.

AfterEscape(c) ==
    /\ escape_seq = "ESC"
    /\ escape_seq' = CASE c = "[" -> "ESC_BRACKET" [] c = "O" -> "ESC_O" [] OTHER -> "NONE"
    /\ UNCHANGED <<screen, escape_digit>>

TakeDigit(c) ==
    /\ escape_seq = "ESC_BRACKET" /\ c \in DOMAIN Digit
    /\ escape_digit * 10 + Digit[c] <= MaxDigit
    /\ escape_digit' = escape_digit * 10 + Digit[c]
    /\ UNCHANGED <<screen, escape_seq>>

\* ESC [ ... A, B, C, H and F do nothing.
NoMove(c) ==
    /\ escape_seq = "ESC_BRACKET" /\ c \in {"A", "B", "C", "H", "F"}
    /\ escape_seq' = "NONE"
    /\ UNCHANGED <<screen, escape_digit>>

\* Without a number the cursor moves one to the left, at the margin too.
MoveLeft(c) ==
    /\ escape_seq = "ESC_BRACKET" /\ c = "D"
    /\ cursorX' = IF escape_digit = 0 THEN (cursorX - 1) % Modulus
                  ELSE IF cursorX > escape_digit THEN cursorX - escape_digit ELSE 0
    /\ astray' = (astray \/ (escape_digit = 0 /\ cursorX = 0))
    /\ escape_seq' = "NONE"
    /\ UNCHANGED <<tvram, cursorY, gone, escape_digit>>

ClearToLineEnd(c) ==
    /\ escape_seq = "ESC_BRACKET" /\ c = "K"
    /\ tvram' = [a \in Cells |->
                   IF a \in CHARV(cursorX, cursorY)..CHARV(TEXTWIDTH - 1, cursorY)
                   THEN "blank" ELSE tvram[a]]
    /\ escape_seq' = "NONE"
    /\ UNCHANGED <<cursorX, cursorY, gone, astray, escape_digit>>

ReportSequence(c) ==
    /\ escape_seq = "ESC_BRACKET"
    /\ c \notin DOMAIN Digit \cup {"A", "B", "C", "D", "H", "F", "K"}
    /\ DebugOut(7)
    /\ escape_seq' = "NONE"
    /\ UNCHANGED escape_digit

console_putc(c) ==
    \/ Put(c) \/ LineFeed(c) \/ Return(c) \/ Backspace(c) \/ ReportControl(c) \/ Escape(c)
    \/ AfterEscape(c) \/ TakeDigit(c) \/ NoMove(c) \/ MoveLeft(c) \/ ClearToLineEnd(c)
    \/ ReportSequence(c)

console_scroll ==
    /\ tvram' = Scrolled(tvram)
    /\ gone' = Append(gone, Row(tvram, 0))
    /\ UNCHANGED <<cursorX, cursorY, astray, escape_seq, escape_digit>>

\* The row below the screen is not cleared.
console_clear ==
    /\ tvram' = [a \in Cells |-> IF a < TEXTHEIGHT * TVRAM_STRIDE THEN "blank" ELSE tvram[a]]
    /\ cursorX' = 0 /\ cursorY' = 0
    /\ gone' = <<>> /\ astray' = FALSE
    /\ UNCHANGED <<escape_seq, escape_digit, calls>>

Counted == calls < MaxChars /\ calls' = calls + 1

Next == \/ Counted /\ \E c \in IF Plain THEN Chars ELSE SequenceChars : console_putc(c)
        \/ Counted /\ console_scroll
        \/ console_clear
Spec == Init /\ [][Next]_vars

-----------------------------------------------------------------------------
\* Properties.

\* The cursor is on the screen after every call, whatever wrapped or scrolled;
\* until ESC [ D at the left margin its column is too.
CursorOnScreen == cursorY \in 0..(TEXTHEIGHT - 1) /\ (~astray => cursorX \in Column)

\* The screen is the end of the roll of paper: what was printed is shown in the
\* order of printing, at the column it was printed at, and each new line is empty.
Paper == INSTANCE Paper
    WITH Width <- TEXTWIDTH, Blank <- "blank", Glyphs <- Chars,
         Reports <- {Report(4), Report(7)},
         lines <- gone \o [y \in 1..(cursorY + 1) |-> Row(tvram, y - 1)],
         col <- cursorX
Implements == Paper!Printing
=============================================================================
