--------------------------- MODULE ConsoleProofs ---------------------------
(***************************************************************************)
(* Proofs about Console, for every size of screen and every set of         *)
(* characters: the cursor stays on the screen, and the screen shows the    *)
(* end of the roll of paper that module Paper promises.                    *)
(***************************************************************************)
EXTENDS Console, SequenceTheorems, TLAPS

\* What a cell of the screen can hold.
Content == Chars \cup {"blank", "*", "E", "[", "h", "]"}

Memory    == [Cells -> Content]
Line      == [Column -> Content]
EmptyLine == [x \in Column |-> "blank"]

\* A page: a text memory and a cursor, below the screen at most by one row.
Pages == [tvram : Memory, x : 0..(Modulus - 1), y : 0..TEXTHEIGHT]

\* The types the argument needs.
Types ==
    /\ tvram \in Memory
    /\ cursorX \in 0..(Modulus - 1) /\ cursorY \in 0..(TEXTHEIGHT - 1)
    /\ escape_digit \in Nat
    /\ gone \in Seq(Line)
    /\ astray \in BOOLEAN

\* The rows below the cursor are empty.
EmptyBelow(memory, y0) == \A y \in (y0 + 1)..(TEXTHEIGHT - 1) : Row(memory, y) = EmptyLine

\* Until the promise is lost the cursor is between the margins, nothing below it.
Intact == ~astray => cursorX \in Column /\ EmptyBelow(tvram, cursorY)

IInv == Types /\ Intact

-----------------------------------------------------------------------------
\* A number below the modulus is its own remainder.
LEMMA SmallMod ==
    ASSUME NEW n \in Nat, NEW a \in Nat, a < n
    PROVE  a % n = a
  OBVIOUS

-----------------------------------------------------------------------------
\* The text memory.

\* A place on the screen, or on the row below it, is a cell of the text memory.
LEMMA Place ==
    ASSUME NEW x \in Column, NEW y \in 0..TEXTHEIGHT
    PROVE  /\ CHARV(x, y) = y * TVRAM_STRIDE + x
           /\ y * TVRAM_STRIDE \in Nat
           /\ CHARV(x, y) \in Cells
<1>1. CHARV(x, y) = y * TVRAM_STRIDE + x
  BY ScreenSize DEF CHARV, Signed, Column
<1>2. y * TVRAM_STRIDE \in Nat
  BY ScreenSize
<1>3. (TEXTHEIGHT + 1) * TVRAM_STRIDE = y * TVRAM_STRIDE + (TEXTHEIGHT + 1 - y) * TVRAM_STRIDE
  BY ScreenSize
<1>4. (TEXTHEIGHT + 1 - y) * TVRAM_STRIDE >= TVRAM_STRIDE
  BY ScreenSize
<1>5. (TEXTHEIGHT + 1) * TVRAM_STRIDE \in Nat
  BY ScreenSize
<1> DEFINE below == y * TVRAM_STRIDE
           size  == (TEXTHEIGHT + 1) * TVRAM_STRIDE
           rest  == (TEXTHEIGHT + 1 - y) * TVRAM_STRIDE
<1>6. below \in Nat /\ size = below + rest /\ rest >= TVRAM_STRIDE /\ size \in Nat /\ rest \in Int
  BY <1>2, <1>3, <1>4, <1>5, ScreenSize
<1>7. x \in Nat /\ x < TVRAM_STRIDE /\ TVRAM_STRIDE \in Nat
  BY ScreenSize DEF Column
<1>8. below + x \in 0..(size - 1)
  <2> HIDE DEF below, size, rest
  <2> QED
    BY <1>6, <1>7
<1> QED
  BY <1>1, <1>2, <1>8 DEF Cells

\* Two places are one cell only if they are one place.
LEMMA PlaceOnce ==
    ASSUME NEW x \in Column, NEW y \in 0..TEXTHEIGHT,
           NEW u \in Column, NEW v \in 0..TEXTHEIGHT,
           CHARV(x, y) = CHARV(u, v)
    PROVE  x = u /\ y = v
<1>1. y * TVRAM_STRIDE + x = v * TVRAM_STRIDE + u
  BY Place
<1>2. x \in 0..(TVRAM_STRIDE - 1) /\ u \in 0..(TVRAM_STRIDE - 1) /\ TVRAM_STRIDE \in Nat \ {0}
  BY ScreenSize DEF Column
<1>3. (y - v) * TVRAM_STRIDE = u - x
  BY <1>1, <1>2
<1>4. CASE y > v
  <2>1. (y - v) * TVRAM_STRIDE >= TVRAM_STRIDE
    BY <1>2, <1>4
  <2> QED
    BY <2>1, <1>2, <1>3
<1>5. CASE y < v
  <2>1. (v - y) * TVRAM_STRIDE >= TVRAM_STRIDE
    BY <1>2, <1>5
  <2>2. (y - v) * TVRAM_STRIDE = -((v - y) * TVRAM_STRIDE)
    BY <1>2
  <2> QED
    BY <2>1, <2>2, <1>2, <1>3
<1>6. CASE y = v
  BY <1>1, <1>2, <1>6
<1> QED
  BY <1>4, <1>5, <1>6

\* A row of a typed memory is a line.
LEMMA RowType ==
    ASSUME NEW memory \in Memory, NEW y \in 0..TEXTHEIGHT
    PROVE  Row(memory, y) \in Line
  BY Place DEF Row, Line, Memory

\* Column x of row y.
LEMMA RowAt ==
    ASSUME NEW memory, NEW y, NEW x \in Column
    PROVE  Row(memory, y)[x] = memory[CHARV(x, y)]
  BY DEF Row

\* Lines that agree in every column are equal.
LEMMA SameLine ==
    ASSUME NEW l \in Line, NEW m \in Line, \A x \in Column : l[x] = m[x]
    PROVE  l = m
  BY DEF Line

\* Places come in the order of their rows.
LEMMA PlaceOrder ==
    ASSUME NEW x \in Column, NEW y \in 0..TEXTHEIGHT, NEW v \in 0..TEXTHEIGHT
    PROVE  v * TVRAM_STRIDE <= CHARV(x, y) <=> v <= y
<1> DEFINE here  == y * TVRAM_STRIDE
           there == v * TVRAM_STRIDE
<1>1. here \in Nat /\ there \in Nat /\ CHARV(x, y) = here + x
  <2>1. 0 \in Column
    BY ScreenSize DEF Column
  <2> QED
    BY <2>1, Place
<1>2. x \in 0..(TVRAM_STRIDE - 1) /\ TVRAM_STRIDE \in Nat \ {0}
  BY ScreenSize DEF Column
<1>3. CASE v <= y
  <2>1. (y - v) * TVRAM_STRIDE \in Nat
    BY <1>2, <1>3
  <2>2. here = there + (y - v) * TVRAM_STRIDE
    BY <1>2
  <2>3. there <= CHARV(x, y)
    <3> HIDE DEF here, there
    <3> QED
      BY <2>1, <2>2, <1>1, <1>2
  <2> QED
    BY <2>3, <1>3
<1>4. CASE ~(v <= y)
  <2>1. (v - y) * TVRAM_STRIDE >= TVRAM_STRIDE
    BY <1>2, <1>4
  <2>2. (v - y) * TVRAM_STRIDE \in Int /\ there = here + (v - y) * TVRAM_STRIDE
    BY <1>2
  <2>3. ~(there <= CHARV(x, y))
    <3> HIDE DEF here, there
    <3> QED
      BY <2>1, <2>2, <1>1, <1>2
  <2> QED
    BY <2>3, <1>4
<1> QED
  BY <1>3, <1>4

\* The remainder of a place by the stride is its column.
LEMMA PlaceColumn ==
    ASSUME NEW x \in Column, NEW y \in 0..TEXTHEIGHT
    PROVE  CHARV(x, y) % TVRAM_STRIDE = x
<1>1. x \in 0..(TVRAM_STRIDE - 1) /\ TVRAM_STRIDE \in Nat \ {0}
  BY ScreenSize DEF Column
<1>2. (y * TVRAM_STRIDE + x) % TVRAM_STRIDE = x
  BY <1>1, SMTT(30)
<1> QED
  BY <1>2, Place

\* Scrolling moves every row of the screen up and clears the last.
LEMMA ScrolledRows ==
    ASSUME NEW memory \in Memory
    PROVE  /\ Scrolled(memory) \in Memory
           /\ \A y \in 0..(TEXTHEIGHT - 1) :
                Row(Scrolled(memory), y) =
                  IF y = TEXTHEIGHT - 1 THEN EmptyLine ELSE Row(memory, y + 1)
<1>1. Scrolled(memory) \in Memory
  <2> SUFFICES ASSUME NEW a \in Cells,
                      a % TVRAM_STRIDE < TEXTWIDTH, a < TEXTHEIGHT * TVRAM_STRIDE
               PROVE  a + TVRAM_STRIDE \in Cells
    <3>1. ASSUME NEW a \in Cells
          PROVE  a % TVRAM_STRIDE \in Nat /\ TEXTHEIGHT * TVRAM_STRIDE \in Nat /\ a \in Nat
      BY ScreenSize DEF Cells
    <3> QED
      BY <3>1, ScreenSize DEF Scrolled, Memory, Content
  <2>1. TEXTHEIGHT * TVRAM_STRIDE \in Nat
    BY ScreenSize
  <2>2. (TEXTHEIGHT + 1) * TVRAM_STRIDE = TEXTHEIGHT * TVRAM_STRIDE + TVRAM_STRIDE
    BY ScreenSize
  <2> QED
    BY <2>1, <2>2, ScreenSize DEF Cells
<1>2. ASSUME NEW y \in 0..(TEXTHEIGHT - 1)
      PROVE  Row(Scrolled(memory), y) =
               IF y = TEXTHEIGHT - 1 THEN EmptyLine ELSE Row(memory, y + 1)
  <2> DEFINE row == IF y = TEXTHEIGHT - 1 THEN EmptyLine ELSE Row(memory, y + 1)
  <2>0. TEXTHEIGHT - 1 \in 0..TEXTHEIGHT /\ TEXTHEIGHT \in 0..TEXTHEIGHT /\ y \in 0..TEXTHEIGHT
        /\ y + 1 \in 0..TEXTHEIGHT
    BY ScreenSize
  <2>1. Row(Scrolled(memory), y) \in Line
    BY <1>1, <2>0, RowType
  <2>2. row \in Line
    BY <2>0, RowType DEF Line, EmptyLine, Content
  <2>3. ASSUME NEW x \in Column
        PROVE  Row(Scrolled(memory), y)[x] = row[x]
    <3> DEFINE a == CHARV(x, y)
    <3>1. a \in Cells /\ a % TVRAM_STRIDE = x /\ ~(x >= TEXTWIDTH)
      BY <2>0, Place, PlaceColumn, ScreenSize DEF Column
    <3>2. ~(a >= TEXTHEIGHT * TVRAM_STRIDE)
      BY <2>0, PlaceOrder, <3>1, ScreenSize DEF Cells
    <3>3. a >= (TEXTHEIGHT - 1) * TVRAM_STRIDE <=> y = TEXTHEIGHT - 1
      <4>1. (TEXTHEIGHT - 1) * TVRAM_STRIDE <= a <=> TEXTHEIGHT - 1 <= y
        BY <2>0, PlaceOrder
      <4>2. (TEXTHEIGHT - 1) * TVRAM_STRIDE \in Int /\ a \in Int
        BY <3>1, ScreenSize DEF Cells
      <4> QED
        BY <4>1, <4>2, <2>0, ScreenSize
    <3>4. a + TVRAM_STRIDE = CHARV(x, y + 1)
      <4>1. (y + 1) * TVRAM_STRIDE = y * TVRAM_STRIDE + TVRAM_STRIDE
        BY ScreenSize
      <4>2. x \in Nat
        BY DEF Column
      <4> QED
        BY <4>1, <4>2, <2>0, Place, ScreenSize
    <3>5. Scrolled(memory)[a] = IF y = TEXTHEIGHT - 1 THEN "blank" ELSE memory[a + TVRAM_STRIDE]
      BY <3>1, <3>2, <3>3 DEF Scrolled
    <3> QED
      BY <3>4, <3>5, RowAt DEF EmptyLine
  <2> HIDE DEF row
  <2>4. Row(Scrolled(memory), y) = row
    BY <2>1, <2>2, <2>3, SameLine
  <2> QED
    BY <2>4 DEF row
<1> QED
  BY <1>1, <1>2

-----------------------------------------------------------------------------
\* One glyph.

\* A glyph changes one cell of the row of the cursor.
LEMMA GlyphRows ==
    ASSUME NEW page \in Pages, NEW c \in Content, page.x \in Column
    PROVE  /\ Out(page, c).tvram \in Memory
           /\ \A y \in 0..TEXTHEIGHT :
                Row(Out(page, c).tvram, y) =
                  IF y = page.y THEN [Row(page.tvram, y) EXCEPT ![page.x] = c]
                  ELSE Row(page.tvram, y)
<1> DEFINE at  == CHARV(page.x, page.y)
           new == [page.tvram EXCEPT ![at] = c]
<1>1. page.y \in 0..TEXTHEIGHT /\ page.tvram \in Memory
  BY DEF Pages
<1>2. at \in Cells
  BY <1>1, Place
<1>3. Out(page, c).tvram = new
  BY <1>2 DEF Out
<1>4. new \in Memory
  BY <1>1 DEF Memory
<1>5. ASSUME NEW y \in 0..TEXTHEIGHT
      PROVE  Row(new, y) = IF y = page.y THEN [Row(page.tvram, y) EXCEPT ![page.x] = c]
                           ELSE Row(page.tvram, y)
  <2>1. Row(page.tvram, y) \in Line /\ Row(new, y) \in Line
    BY <1>1, <1>4, RowType
  <2>2. ASSUME NEW x \in Column
        PROVE  Row(new, y)[x] = IF y = page.y /\ x = page.x THEN c ELSE Row(page.tvram, y)[x]
    <3>1. new[CHARV(x, y)] = IF y = page.y /\ x = page.x THEN c ELSE page.tvram[CHARV(x, y)]
      BY <1>1, <1>2, Place, PlaceOnce DEF Memory
    <3> QED
      BY <3>1 DEF Row
  <2>3. [Row(page.tvram, y) EXCEPT ![page.x] = c] \in Line
    BY <2>1 DEF Line
  <2>4. CASE y = page.y
    <3>1. ASSUME NEW x \in Column
          PROVE  Row(new, y)[x] = [Row(page.tvram, y) EXCEPT ![page.x] = c][x]
      BY <2>1, <2>2, <2>4 DEF Line
    <3> QED
      BY <3>1, <2>1, <2>3, <2>4, SameLine
  <2>5. CASE y # page.y
    <3>1. ASSUME NEW x \in Column
          PROVE  Row(new, y)[x] = Row(page.tvram, y)[x]
      BY <2>2, <2>5
    <3> QED
      BY <3>1, <2>1, <2>5, SameLine
  <2> QED
    BY <2>4, <2>5
<1> QED
  BY <1>3, <1>4, <1>5

\* The lines of paper a page stands for, after those scrolled off: a cursor below
\* the screen is on a line not shown yet.
Shown(page, i)     == IF i > TEXTHEIGHT THEN EmptyLine ELSE Row(page.tvram, i - 1)
Roll(past, page)   == past \o [i \in 1..(page.y + 1) |-> Shown(page, i)]
OnPaper(past, page) == [lines |-> Roll(past, page), col |-> page.x]

\* The roll is a sequence of lines.
LEMMA RollType ==
    ASSUME NEW past \in Seq(Line), NEW page \in Pages
    PROVE  /\ Roll(past, page) \in Seq(Line)
           /\ Len(Roll(past, page)) = Len(past) + page.y + 1
           /\ Len(past) \in Nat /\ page.y \in Nat
           /\ \A i \in 1..(Len(past) + page.y + 1) :
                Roll(past, page)[i] = IF i <= Len(past) THEN past[i]
                                      ELSE Shown(page, i - Len(past))
<1>1. page.y \in 0..TEXTHEIGHT /\ page.y + 1 \in Nat /\ page.tvram \in Memory
  BY ScreenSize DEF Pages
<1> DEFINE shown == [i \in 1..(page.y + 1) |-> Shown(page, i)]
<1>2. \A i \in 1..(page.y + 1) : Shown(page, i) \in Line
  <2> SUFFICES ASSUME NEW i \in 1..(page.y + 1)
               PROVE  Shown(page, i) \in Line
    OBVIOUS
  <2>1. i > TEXTHEIGHT \/ i - 1 \in 0..TEXTHEIGHT
    BY <1>1, ScreenSize
  <2> QED
    BY <2>1, <1>1, RowType DEF Shown, Line, EmptyLine, Content
<1>3. shown \in Seq(Line) /\ Len(shown) = page.y + 1
  BY <1>1, <1>2
<1>4. Len(past) \in Nat
  OBVIOUS
<1>5. /\ past \o shown \in Seq(Line)
      /\ Len(past \o shown) = Len(past) + Len(shown)
      /\ \A i \in 1..(Len(past) + Len(shown)) :
           (past \o shown)[i] = IF i <= Len(past) THEN past[i] ELSE shown[i - Len(past)]
  <2> HIDE DEF shown
  <2> QED
    BY <1>3, ConcatProperties
<1>6. \A i \in 1..(Len(past) + page.y + 1) : i > Len(past) => i - Len(past) \in 1..(page.y + 1)
  BY <1>1, <1>4
<1>7. \A i \in 1..(Len(past) + page.y + 1) :
        (past \o shown)[i] = IF i <= Len(past) THEN past[i] ELSE Shown(page, i - Len(past))
  BY <1>1, <1>3, <1>4, <1>5, <1>6
<1> QED
  BY <1>1, <1>3, <1>4, <1>5, <1>7 DEF Roll

\* One glyph on the screen is one glyph on paper, at the bottom right corner too.
LEMMA GlyphPrinted ==
    ASSUME NEW past \in Seq(Line), NEW page \in Pages, NEW c \in Content,
           page.x \in Column, page.y < TEXTHEIGHT, EmptyBelow(page.tvram, page.y)
    PROVE  /\ Out(page, c) \in Pages /\ Out(page, c).x \in Column
           /\ EmptyBelow(Out(page, c).tvram, Out(page, c).y)
           /\ \/ Out(page, c).y = page.y /\ Out(page, c).x = page.x + 1
              \/ Out(page, c).y = page.y + 1 /\ Out(page, c).x = 0 /\ page.x = TEXTWIDTH - 1
           /\ Paper!Printed(OnPaper(past, page), c) = OnPaper(past, Out(page, c))
<1> DEFINE new == Out(page, c)
           old == Roll(past, page)
           written == [old EXCEPT ![Len(old)][page.x] = c]
<1>1. page.x \in 0..(TEXTWIDTH - 1) /\ page.y \in 0..(TEXTHEIGHT - 1) /\ page.tvram \in Memory
  BY ScreenSize DEF Pages, Column
<1>2. (page.x + 1) % Modulus = page.x + 1
  <2>1. page.x + 1 \in Nat /\ page.x + 1 < Modulus /\ Modulus \in Nat
    BY <1>1, ScreenSize
  <2> QED
    BY <2>1, SmallMod
<1>3. /\ new.tvram \in Memory
      /\ \A y \in 0..TEXTHEIGHT :
           Row(new.tvram, y) = IF y = page.y THEN [Row(page.tvram, y) EXCEPT ![page.x] = c]
                               ELSE Row(page.tvram, y)
  BY GlyphRows
<1>4. IF page.x + 1 >= TEXTWIDTH
      THEN new = [tvram |-> new.tvram, x |-> 0, y |-> page.y + 1]
      ELSE new = [tvram |-> new.tvram, x |-> page.x + 1, y |-> page.y]
  BY <1>2 DEF Out
<1>5. \/ new.y = page.y /\ new.x = page.x + 1 /\ page.x + 1 < TEXTWIDTH
      \/ new.y = page.y + 1 /\ new.x = 0 /\ page.x = TEXTWIDTH - 1
  BY <1>1, <1>4, ScreenSize
<1> HIDE DEF new
<1>6. new \in Pages /\ new.x \in Column
  <2>1. new.x \in Column /\ new.x \in 0..(Modulus - 1) /\ new.y \in 0..TEXTHEIGHT
    BY <1>1, <1>5, ScreenSize DEF Column
  <2>2. new = [tvram |-> new.tvram, x |-> new.x, y |-> new.y]
    BY <1>4
  <2> QED
    BY <2>1, <2>2, <1>3 DEF Pages
<1>7. EmptyBelow(new.tvram, new.y)
  <2> SUFFICES ASSUME NEW y \in (new.y + 1)..(TEXTHEIGHT - 1)
               PROVE  Row(new.tvram, y) = EmptyLine
    BY DEF EmptyBelow
  <2>1. y \in (page.y + 1)..(TEXTHEIGHT - 1) /\ y \in 0..TEXTHEIGHT /\ y # page.y
    BY <1>1, <1>5, ScreenSize
  <2> QED
    BY <2>1, <1>3 DEF EmptyBelow
<1>8. /\ old \in Seq(Line) /\ Len(old) = Len(past) + page.y + 1 /\ Len(past) \in Nat
      /\ \A i \in 1..Len(old) :
           old[i] = IF i <= Len(past) THEN past[i] ELSE Row(page.tvram, i - Len(past) - 1)
  <2>1. /\ old \in Seq(Line) /\ Len(old) = Len(past) + page.y + 1 /\ Len(past) \in Nat
        /\ \A i \in 1..(Len(past) + page.y + 1) :
             old[i] = IF i <= Len(past) THEN past[i] ELSE Shown(page, i - Len(past))
    BY RollType
  <2>2. \A i \in 1..(Len(past) + page.y + 1) : ~(i <= Len(past)) => ~(i - Len(past) > TEXTHEIGHT)
    BY <2>1, <1>1, ScreenSize
  <2> QED
    BY <2>1, <2>2 DEF Shown
<1>18. Len(old) = Len(past) + page.y + 1 /\ Len(past) \in Nat /\ Len(old) \in Nat /\ page.y \in Nat
  BY <1>1, <1>8, ScreenSize
<1>9. old[Len(old)] = Row(page.tvram, page.y)
  BY <1>1, <1>8
<1>10. Row(page.tvram, page.y) \in Line /\ Row(new.tvram, page.y) \in Line
  <2>1. page.y \in 0..TEXTHEIGHT
    BY <1>1, ScreenSize
  <2> QED
    BY <2>1, <1>1, <1>3, RowType
<1>11. written = [old EXCEPT ![Len(old)] = Row(new.tvram, page.y)]
  <2>1. Row(new.tvram, page.y) = [Row(page.tvram, page.y) EXCEPT ![page.x] = c]
    BY <1>1, <1>3, ScreenSize
  <2>2. Row(new.tvram, page.y) = [old[Len(old)] EXCEPT ![page.x] = c]
    BY <2>1, <1>9
  <2> HIDE DEF old
  <2> QED
    BY <2>2
<1>12. /\ written \in Seq(Line) /\ Len(written) = Len(old)
       /\ \A i \in 1..Len(old) : written[i] = IF i = Len(old) THEN Row(new.tvram, page.y) ELSE old[i]
  <2>1. Len(old) \in 1..Len(old)
    BY <1>1, <1>8
  <2> HIDE DEF old, new, written
  <2> QED
    BY <2>1, <1>8, <1>10, <1>11, ExceptSeq
<1>13. \A i \in 1..Len(old) :
         written[i] = IF i <= Len(past) THEN past[i] ELSE Row(new.tvram, i - Len(past) - 1)
  <2> SUFFICES ASSUME NEW i \in 1..Len(old)
               PROVE  written[i] = IF i <= Len(past) THEN past[i]
                                   ELSE Row(new.tvram, i - Len(past) - 1)
    OBVIOUS
  <2>1. CASE i = Len(old)
    <3>1. ~(i <= Len(past)) /\ i - Len(past) - 1 = page.y
      BY <2>1, <1>18
    <3> QED
      BY <2>1, <3>1, <1>12
  <2>2. CASE i # Len(old) /\ i > Len(past)
    <3>1. i - Len(past) - 1 \in 0..TEXTHEIGHT /\ i - Len(past) - 1 # page.y
      BY <2>2, <1>1, <1>8, ScreenSize
    <3> QED
      BY <3>1, <2>2, <1>3, <1>8, <1>12
  <2>3. CASE i <= Len(past)
    BY <2>3, <1>1, <1>8, <1>12
  <2> QED
    BY <2>1, <2>2, <2>3, <1>8
<1>14. /\ Roll(past, new) \in Seq(Line)
       /\ Len(Roll(past, new)) = Len(past) + new.y + 1
       /\ \A i \in 1..(Len(past) + new.y + 1) :
            Roll(past, new)[i] = IF i <= Len(past) THEN past[i] ELSE Shown(new, i - Len(past))
  BY <1>6, RollType
<1>17. Paper!Printed(OnPaper(past, page), c) =
         IF page.x + 1 < TEXTWIDTH THEN [lines |-> written, col |-> page.x + 1]
         ELSE [lines |-> Append(written, Paper!BlankLine), col |-> 0]
  BY DEF Paper!Printed, OnPaper
<1> HIDE DEF old, written
<1>15. ASSUME page.x + 1 < TEXTWIDTH
       PROVE  Paper!Printed(OnPaper(past, page), c) = OnPaper(past, new)
  <2>1. new.y = page.y
    BY <1>5, <1>15, <1>1, ScreenSize
  <2>2. \A i \in 1..Len(old) : ~(i <= Len(past)) => ~(i - Len(past) > TEXTHEIGHT)
    BY <1>1, <1>8, ScreenSize
  <2>3. written = Roll(past, new)
    BY <2>1, <2>2, <1>8, <1>12, <1>13, <1>14, SeqEqual DEF Shown
  <2> QED
    BY <2>3, <1>15, <1>17, <1>1, <1>5, ScreenSize DEF OnPaper
<1>16. ASSUME page.x + 1 >= TEXTWIDTH
       PROVE  Paper!Printed(OnPaper(past, page), c) = OnPaper(past, new)
  <2>1. new.y = page.y + 1 /\ new.x = 0
    BY <1>5, <1>16, <1>1, ScreenSize
  <2>2. EmptyLine \in Line
    BY DEF Line, EmptyLine, Content
  <2>3. /\ Append(written, EmptyLine) \in Seq(Line)
        /\ Len(Append(written, EmptyLine)) = Len(old) + 1
        /\ \A i \in 1..(Len(old) + 1) :
             Append(written, EmptyLine)[i] = IF i = Len(old) + 1 THEN EmptyLine ELSE written[i]
    BY <2>2, <1>8, <1>12
  <2>4. \A i \in 1..(Len(old) + 1) : Append(written, EmptyLine)[i] = Roll(past, new)[i]
    <3> SUFFICES ASSUME NEW i \in 1..(Len(old) + 1)
                 PROVE  Append(written, EmptyLine)[i] = Roll(past, new)[i]
      OBVIOUS
    <3>1. CASE i = Len(old) + 1
      <4>1. i - Len(past) - 1 = page.y + 1 /\ i - Len(past) = page.y + 2 /\ i > Len(past)
            /\ i \in 1..(Len(past) + new.y + 1)
        BY <3>1, <2>1, <1>1, <1>8
      <4>2. Shown(new, page.y + 2) = EmptyLine
        <5>1. CASE page.y + 1 < TEXTHEIGHT
          <6>1. /\ page.y + 1 \in (page.y + 1)..(TEXTHEIGHT - 1)
                /\ page.y + 1 \in 0..TEXTHEIGHT /\ page.y + 1 # page.y
                /\ ~(page.y + 2 > TEXTHEIGHT) /\ page.y + 2 - 1 = page.y + 1
            BY <5>1, <1>1, ScreenSize
          <6>2. Row(page.tvram, page.y + 1) = EmptyLine
            BY <6>1 DEF EmptyBelow
          <6>3. Row(new.tvram, page.y + 1) = EmptyLine
            BY <6>1, <6>2, <1>3
          <6> QED
            BY <6>1, <6>3, <1>1, ScreenSize DEF Shown
        <5>2. CASE ~(page.y + 1 < TEXTHEIGHT)
          BY <5>2, <1>1, ScreenSize DEF Shown
        <5> QED
          BY <5>1, <5>2
      <4>3. Append(written, EmptyLine)[i] = EmptyLine
        BY <3>1, <2>3
      <4>4. ~(i <= Len(past))
        BY <3>1, <1>18
      <4> QED
        BY <4>1, <4>2, <4>3, <4>4, <1>14
    <3>2. CASE i # Len(old) + 1
      <4>0. i \in 1..Len(old)
        BY <3>2, <1>18
      <4>1. i \in 1..(Len(past) + new.y + 1) /\ ~(i - Len(past) > TEXTHEIGHT)
        BY <4>0, <2>1, <1>1, <1>18, ScreenSize
      <4>2. Append(written, EmptyLine)[i] = written[i]
        BY <3>2, <2>3
      <4>3. written[i] = IF i <= Len(past) THEN past[i] ELSE Row(new.tvram, i - Len(past) - 1)
        BY <4>0, <1>13
      <4>4. Roll(past, new)[i] = IF i <= Len(past) THEN past[i]
                                 ELSE Row(new.tvram, i - Len(past) - 1)
        BY <4>1, <1>8, <1>14 DEF Shown
      <4> QED
        BY <4>2, <4>3, <4>4
    <3> QED
      BY <3>1, <3>2
  <2>5. Append(written, EmptyLine) = Roll(past, new)
    <3>1. Len(Append(written, EmptyLine)) = Len(Roll(past, new))
      BY <2>1, <2>3, <1>1, <1>8, <1>14
    <3> QED
      BY <3>1, <2>3, <2>4, <1>14, SeqEqual
  <2>6. Paper!BlankLine = EmptyLine
    BY DEF Paper!BlankLine, Paper!Column, EmptyLine, Column
  <2>7. ~(page.x + 1 < TEXTWIDTH)
    BY <1>16, <1>1, ScreenSize
  <2> QED
    BY <2>1, <2>5, <2>6, <2>7, <1>17 DEF OnPaper
<1> QED
  BY <1>1, <1>5, <1>6, <1>7, <1>15, <1>16, ScreenSize DEF new

\* A glyph at any column, of a cursor gone astray too, keeps the page in bounds.
LEMMA GlyphType ==
    ASSUME NEW page \in Pages, NEW c \in Content, page.y < TEXTHEIGHT \/ page.x + 1 < TEXTWIDTH
    PROVE  /\ Out(page, c) \in Pages
           /\ \/ Out(page, c).y = page.y /\ Out(page, c).x = (page.x + 1) % Modulus
              \/ /\ Out(page, c).y = page.y + 1 /\ Out(page, c).x = 0
                 /\ page.x + 1 >= TEXTWIDTH
<1> DEFINE at  == CHARV(page.x, page.y)
           new == IF at \in Cells THEN [page.tvram EXCEPT ![at] = c] ELSE page.tvram
           x   == (page.x + 1) % Modulus
<1>1. page.x \in 0..(Modulus - 1) /\ page.y \in 0..TEXTHEIGHT /\ page.tvram \in Memory
  BY DEF Pages
<1>2. new \in Memory
  BY <1>1 DEF Memory
<1>3. x \in 0..(Modulus - 1) /\ (x >= TEXTWIDTH => page.x + 1 >= TEXTWIDTH)
  BY <1>1, ScreenSize
<1>4. Out(page, c) = IF x >= TEXTWIDTH THEN [tvram |-> new, x |-> 0, y |-> page.y + 1]
                     ELSE [tvram |-> new, x |-> x, y |-> page.y]
  BY DEF Out
<1> HIDE DEF new, x
<1>5. CASE x >= TEXTWIDTH
  BY <1>1, <1>2, <1>3, <1>4, <1>5, ScreenSize DEF Pages, x
<1>6. CASE ~(x >= TEXTWIDTH)
  BY <1>1, <1>2, <1>3, <1>4, <1>6, ScreenSize DEF Pages, x
<1> QED
  BY <1>5, <1>6

\* Showing a page keeps the types.
LEMMA ShowTypes ==
    ASSUME Types, NEW page \in Pages, Show(page)
    PROVE  /\ tvram' \in Memory /\ gone' \in Seq(Line)
           /\ cursorX' \in 0..(Modulus - 1) /\ cursorY' \in 0..(TEXTHEIGHT - 1)
<1>1. page.y \in 0..TEXTHEIGHT /\ page.tvram \in Memory /\ page.x \in 0..(Modulus - 1)
  BY DEF Pages
<1>2. CASE page.y >= TEXTHEIGHT
  <2>1. Row(page.tvram, 0) \in Line
    BY <1>1, RowType, ScreenSize
  <2>2. Scrolled(page.tvram) \in Memory
    BY <1>1, ScrolledRows
  <2>3. /\ cursorX' = page.x /\ cursorY' = page.y - 1
        /\ tvram' = Scrolled(page.tvram) /\ gone' = Append(gone, Row(page.tvram, 0))
    BY <1>2 DEF Show
  <2>4. cursorY' \in 0..(TEXTHEIGHT - 1)
    BY <2>3, <1>1, <1>2, ScreenSize
  <2> QED
    BY <2>1, <2>2, <2>3, <2>4, <1>1 DEF Types
<1>3. CASE ~(page.y >= TEXTHEIGHT)
  BY <1>1, <1>3, ScreenSize DEF Show, Types
<1> QED
  BY <1>2, <1>3

\* A cursor on the screen is on a row shown.
LEMMA RollOnScreen ==
    ASSUME NEW past, NEW page \in Pages, page.y < TEXTHEIGHT
    PROVE  Roll(past, page) = past \o [y \in 1..(page.y + 1) |-> Row(page.tvram, y - 1)]
<1>1. \A y \in 1..(page.y + 1) : ~(y > TEXTHEIGHT)
  BY ScreenSize DEF Pages
<1> QED
  BY <1>1 DEF Roll, Shown

\* The lines the refinement maps the screen to are the roll of the page.
LEMMA LinesAreRoll ==
    ASSUME Types
    PROVE  /\ gone \o [y \in 1..(cursorY + 1) |-> Row(tvram, y - 1)] = Roll(gone, Page)
           /\ Page \in Pages /\ Page.x = cursorX /\ Page.y = cursorY /\ Page.tvram = tvram
<1>1. Page \in Pages /\ Page.x = cursorX /\ Page.y = cursorY /\ Page.tvram = tvram
  BY ScreenSize DEF Types, Page, Pages
<1>2. Page.y < TEXTHEIGHT
  BY <1>1, ScreenSize DEF Types
<1> QED
  BY <1>1, <1>2, RollOnScreen

\* When the rows scroll the roll stays: the line below the cursor comes up, and the
\* one below the screen comes up empty.
LEMMA ScrollRoll ==
    ASSUME NEW past \in Seq(Line), NEW page \in Pages, page.y >= 1,
           NEW next \in Pages, next.tvram = Scrolled(page.tvram), next.y = page.y - 1
    PROVE  Roll(Append(past, Row(page.tvram, 0)), next) = Roll(past, page)
<1> DEFINE top  == Row(page.tvram, 0)
           then == Append(past, top)
<1>1. page.y \in 1..TEXTHEIGHT /\ page.tvram \in Memory
  BY ScreenSize DEF Pages
<1>2. top \in Line
  BY <1>1, RowType, ScreenSize
<1> HIDE DEF top
<1>3. /\ then \in Seq(Line) /\ Len(past) \in Nat /\ Len(then) = Len(past) + 1
      /\ \A i \in 1..Len(then) : then[i] = IF i <= Len(past) THEN past[i] ELSE top
  BY <1>2
<1> HIDE DEF then
<1>4. /\ Roll(then, next) \in Seq(Line) /\ Len(Roll(then, next)) = Len(then) + next.y + 1
      /\ \A i \in 1..(Len(then) + next.y + 1) :
           Roll(then, next)[i] = IF i <= Len(then) THEN then[i] ELSE Shown(next, i - Len(then))
  BY <1>3, RollType
<1>5. /\ Roll(past, page) \in Seq(Line) /\ Len(Roll(past, page)) = Len(past) + page.y + 1
      /\ \A i \in 1..(Len(past) + page.y + 1) :
           Roll(past, page)[i] = IF i <= Len(past) THEN past[i] ELSE Shown(page, i - Len(past))
  BY RollType
<1>6. Len(then) + next.y + 1 = Len(past) + page.y + 1
  <2>1. page.y \in Int /\ next.y = page.y - 1
    BY <1>1, ScreenSize
  <2>2. Len(past) \in Nat /\ Len(then) = Len(past) + 1
    BY <1>3
  <2> QED
    BY <2>1, <2>2
<1>7. ASSUME NEW i \in 1..(Len(past) + page.y + 1)
      PROVE  Roll(past, page)[i] = Roll(then, next)[i]
  <2>1. CASE i <= Len(past)
    <3>1. i <= Len(then) /\ i \in 1..Len(then) /\ i \in 1..(Len(then) + next.y + 1)
      BY <2>1, <1>3, <1>6
    <3> QED
      BY <3>1, <2>1, <1>3, <1>4, <1>5
  <2>2. CASE i = Len(past) + 1
    <3>1. /\ i <= Len(then) /\ i \in 1..Len(then) /\ i \in 1..(Len(then) + next.y + 1)
          /\ ~(i <= Len(past)) /\ i - Len(past) = 1 /\ ~(1 > TEXTHEIGHT)
      BY <2>2, <1>3, <1>6, ScreenSize
    <3>2. Shown(page, i - Len(past)) = top
      BY <3>1 DEF Shown, top
    <3> QED
      BY <3>1, <3>2, <1>3, <1>4, <1>5
  <2>3. CASE i > Len(past) + 1
    <3> DEFINE y == i - Len(past) - 2
    <3>1. /\ ~(i <= Len(past)) /\ ~(i <= Len(then)) /\ i \in 1..(Len(then) + next.y + 1)
          /\ y \in 0..(TEXTHEIGHT - 1) /\ i - Len(past) = y + 2 /\ i - Len(then) = y + 1
      BY <2>3, <1>1, <1>3, <1>6, ScreenSize
    <3> HIDE DEF y
    <3>2. ~(y + 1 > TEXTHEIGHT) /\ (y + 2 > TEXTHEIGHT <=> y = TEXTHEIGHT - 1)
      BY <3>1, ScreenSize
    <3>3. Shown(next, y + 1) = Row(Scrolled(page.tvram), y)
      BY <3>1, <3>2 DEF Shown
    <3>4. Shown(page, y + 2) = IF y = TEXTHEIGHT - 1 THEN EmptyLine ELSE Row(page.tvram, y + 1)
      BY <3>1, <3>2 DEF Shown
    <3>5. Shown(next, y + 1) = Shown(page, y + 2)
      BY <3>1, <3>3, <3>4, <1>1, ScrolledRows
    <3> QED
      BY <3>1, <3>5, <1>4, <1>5
  <2> QED
    BY <2>1, <2>2, <2>3, <1>3
<1>8. Roll(past, page) = Roll(then, next)
  BY <1>4, <1>5, <1>6, <1>7, SeqEqual
<1> QED
  BY <1>8 DEF then, top

\* A line feed adds an empty line to the roll.
LEMMA FeedRoll ==
    ASSUME NEW past \in Seq(Line), NEW page \in Pages, page.y < TEXTHEIGHT,
           EmptyBelow(page.tvram, page.y),
           NEW next \in Pages, next.tvram = page.tvram, next.y = page.y + 1
    PROVE  Roll(past, next) = Append(Roll(past, page), EmptyLine)
<1>1. page.y \in 0..(TEXTHEIGHT - 1)
  BY ScreenSize DEF Pages
<1>2. EmptyLine \in Line
  BY DEF Line, EmptyLine, Content
<1> DEFINE old  == Roll(past, page)
           more == Append(old, EmptyLine)
<1>3. /\ old \in Seq(Line) /\ Len(old) = Len(past) + page.y + 1 /\ Len(past) \in Nat
      /\ \A i \in 1..(Len(past) + page.y + 1) :
           old[i] = IF i <= Len(past) THEN past[i] ELSE Shown(page, i - Len(past))
  BY RollType
<1> HIDE DEF old
<1>4. /\ more \in Seq(Line) /\ Len(more) = Len(old) + 1
      /\ \A i \in 1..(Len(old) + 1) : more[i] = IF i <= Len(old) THEN old[i] ELSE EmptyLine
  BY <1>2, <1>3
<1>5. /\ Roll(past, next) \in Seq(Line) /\ Len(Roll(past, next)) = Len(past) + next.y + 1
      /\ \A i \in 1..(Len(past) + next.y + 1) :
           Roll(past, next)[i] = IF i <= Len(past) THEN past[i] ELSE Shown(next, i - Len(past))
  BY RollType
<1> HIDE DEF more
<1>6. Len(past) + next.y + 1 = Len(old) + 1
  BY <1>1, <1>3
<1>7. Shown(next, page.y + 2) = EmptyLine
  <2>1. CASE page.y + 1 < TEXTHEIGHT
    <3>1. /\ page.y + 1 \in (page.y + 1)..(TEXTHEIGHT - 1)
          /\ ~(page.y + 2 > TEXTHEIGHT) /\ page.y + 2 - 1 = page.y + 1
      BY <2>1, <1>1, ScreenSize
    <3>2. Row(page.tvram, page.y + 1) = EmptyLine
      BY <3>1 DEF EmptyBelow
    <3> QED
      BY <3>1, <3>2, <1>1, ScreenSize DEF Shown
  <2>2. CASE ~(page.y + 1 < TEXTHEIGHT)
    BY <2>2, <1>1, ScreenSize DEF Shown
  <2> QED
    BY <2>1, <2>2
<1>8. ASSUME NEW i \in 1..(Len(old) + 1)
      PROVE  Roll(past, next)[i] = more[i]
  <2>0. i \in 1..(Len(past) + next.y + 1)
    BY <1>6
  <2>1. CASE i = Len(old) + 1
    <3>1. ~(i <= Len(past)) /\ i - Len(past) = page.y + 2 /\ ~(i <= Len(old))
      BY <2>1, <1>1, <1>3
    <3> QED
      BY <2>0, <3>1, <1>4, <1>5, <1>7
  <2>2. CASE i # Len(old) + 1
    <3>1. i <= Len(old) /\ i \in 1..(Len(past) + page.y + 1)
      BY <2>2, <1>1, <1>3
    <3>2. Shown(next, i - Len(past)) = Shown(page, i - Len(past))
      BY DEF Shown
    <3> QED
      BY <2>0, <3>1, <3>2, <1>3, <1>4, <1>5
  <2> QED
    BY <2>1, <2>2
<1>9. Roll(past, next) = more
  <2>1. Len(Roll(past, next)) = Len(more)
    BY <1>4, <1>5, <1>6
  <2> QED
    BY <2>1, <1>4, <1>5, <1>6, <1>8, SeqEqual
<1> QED
  BY <1>9 DEF more, old

\* What is shown of a page is the end of its roll.
LEMMA ShowRoll ==
    ASSUME Types, NEW page \in Pages, Show(page), EmptyBelow(page.tvram, page.y)
    PROVE  /\ Roll(gone, page)
                = gone' \o [y \in 1..(cursorY' + 1) |-> Row(tvram', y - 1)]
           /\ cursorX' = page.x /\ EmptyBelow(tvram', cursorY')
<1>1. page.y \in 0..TEXTHEIGHT /\ page.tvram \in Memory /\ gone \in Seq(Line)
  BY DEF Pages, Types
<1> DEFINE next == [tvram |-> tvram', x |-> cursorX', y |-> cursorY']
<1>2. next \in Pages /\ next.tvram = tvram' /\ next.y = cursorY' /\ cursorX' = page.x
      /\ cursorY' \in 0..(TEXTHEIGHT - 1)
  BY ShowTypes, ScreenSize DEF Pages, Show
<1> HIDE DEF next
<1>3. gone' \o [y \in 1..(cursorY' + 1) |-> Row(tvram', y - 1)] = Roll(gone', next)
  <2>1. next.y < TEXTHEIGHT
    BY <1>2, ScreenSize
  <2>2. Roll(gone', next) = gone' \o [y \in 1..(next.y + 1) |-> Row(next.tvram, y - 1)]
    BY <2>1, <1>2, RollOnScreen
  <2> QED
    BY <2>2, <1>2
<1>4. ASSUME ~(page.y >= TEXTHEIGHT)
      PROVE  Roll(gone, page) = Roll(gone', next) /\ EmptyBelow(tvram', cursorY')
  <2>1. tvram' = page.tvram /\ cursorY' = page.y /\ gone' = gone
    BY <1>4 DEF Show
  <2> QED
    BY <2>1, <1>2 DEF Roll, Shown
<1>5. ASSUME page.y >= TEXTHEIGHT
      PROVE  Roll(gone, page) = Roll(gone', next) /\ EmptyBelow(tvram', cursorY')
  <2>1. /\ cursorY' = page.y - 1 /\ tvram' = Scrolled(page.tvram)
        /\ gone' = Append(gone, Row(page.tvram, 0))
    BY <1>5 DEF Show
  <2>2. page.y >= 1 /\ cursorY' = TEXTHEIGHT - 1
    BY <2>1, <1>1, <1>5, ScreenSize
  <2>3. Roll(gone, page) = Roll(gone', next)
    BY <2>1, <2>2, <1>1, <1>2, ScrollRoll
  <2> QED
    BY <2>2, <2>3, ScreenSize DEF EmptyBelow
<1> QED
  BY <1>2, <1>3, <1>4, <1>5

-----------------------------------------------------------------------------
\* A report is several glyphs.

\* The page after each glyph, as a recursive function on the first n glyphs.
Following(glyphs, n, f) == f = [k \in 0..n |-> IF k = 0 THEN Page ELSE Out(f[k - 1], glyphs[k])]

\* Such a function for n glyphs gives one for n + 1.
LEMMA FollowingNext ==
    ASSUME NEW glyphs, NEW n \in Nat, \E f : Following(glyphs, n, f)
    PROVE  \E f : Following(glyphs, n + 1, f)
<1>1. PICK f : Following(glyphs, n, f)
  OBVIOUS
<1> DEFINE g == [k \in 0..(n + 1) |-> IF k = n + 1 THEN Out(f[n], glyphs[n + 1]) ELSE f[k]]
<1>2. ASSUME NEW k \in 0..(n + 1)
      PROVE  g[k] = IF k = 0 THEN Page ELSE Out(g[k - 1], glyphs[k])
  <2>1. CASE k = n + 1
    BY <2>1
  <2>2. CASE k # n + 1 /\ k = 0
    <3>1. g[k] = f[0] /\ f[0] = Page
      BY <2>2, <1>1 DEF Following
    <3> QED
      BY <3>1, <2>2
  <2>3. CASE k # n + 1 /\ k # 0
    <3>1. k \in 0..n /\ k - 1 \in 0..(n + 1) /\ k - 1 # n + 1
      BY <2>3
    <3>2. g[k] = f[k] /\ g[k - 1] = f[k - 1]
      BY <3>1, <2>3
    <3>3. f[k] = Out(f[k - 1], glyphs[k])
      BY <3>1, <2>3, <1>1 DEF Following
    <3> QED
      BY <3>2, <3>3, <2>3
  <2> QED
    BY <2>1, <2>2, <2>3
<1>3. g = [k \in 0..(n + 1) |-> g[k]]
  OBVIOUS
<1> HIDE DEF g
<1>4. Following(glyphs, n + 1, g)
  BY <1>2, <1>3 DEF Following
<1> QED
  BY <1>4

\* OutAll goes on from each page to the next.
GoesOn(glyphs) ==
    /\ OutAll(glyphs)[0] = Page
    /\ \A i \in 0..(Len(glyphs) - 1) :
         OutAll(glyphs)[i + 1] = Out(OutAll(glyphs)[i], glyphs[i + 1])

\* It does so for the lengths of reports.
LEMMA OutAllSteps ==
    ASSUME NEW glyphs, Len(glyphs) \in {4, 7}
    PROVE  GoesOn(glyphs)
<1> DEFINE Can(n) == \E f : Following(glyphs, n, f)
<1>1. Can(0)
  <2>1. Following(glyphs, 0, [k \in 0..0 |-> Page])
    BY DEF Following
  <2> QED
    BY <2>1
<1>2. \A n \in Nat : Can(n) => Can(n + 1)
  BY FollowingNext
<1> HIDE DEF Can
<1>3. Can(1) /\ Can(2) /\ Can(3) /\ Can(4)
  <2>1. Can(1)
    BY <1>1, <1>2
  <2>2. Can(2)
    BY <2>1, <1>2
  <2>3. Can(3)
    BY <2>2, <1>2
  <2> QED
    BY <2>1, <2>2, <2>3, <1>2
<1>4. Can(7)
  <2>1. Can(5)
    BY <1>3, <1>2
  <2>2. Can(6)
    BY <2>1, <1>2
  <2> QED
    BY <2>2, <1>2
<1>5. Can(Len(glyphs))
  BY <1>3, <1>4
<1>6. Following(glyphs, Len(glyphs), OutAll(glyphs))
  <2>1. OutAll(glyphs) = CHOOSE f : Following(glyphs, Len(glyphs), f)
    BY DEF OutAll, Following
  <2> QED
    BY <2>1, <1>5 DEF Can
<1>7. \A i \in 0..(Len(glyphs) - 1) : i + 1 \in 0..Len(glyphs) /\ i + 1 # 0 /\ (i + 1) - 1 = i
  OBVIOUS
<1> DEFINE all == OutAll(glyphs)
<1> HIDE DEF all
<1>8. all = [k \in 0..Len(glyphs) |-> IF k = 0 THEN Page ELSE Out(all[k - 1], glyphs[k])]
  BY <1>6 DEF Following, all
<1>9. all[0] = Page /\ \A i \in 0..(Len(glyphs) - 1) : all[i + 1] = Out(all[i], glyphs[i + 1])
  <2>1. 0 \in 0..Len(glyphs)
    OBVIOUS
  <2>2. \A k \in 0..Len(glyphs) : all[k] = IF k = 0 THEN Page ELSE Out(all[k - 1], glyphs[k])
    BY <1>8
  <2> QED
    BY <2>1, <2>2, <1>7
<1> QED
  BY <1>9 DEF all, GoesOn

\* The same of the paper: where it starts, and what is on it after the first n glyphs.
Start == [lines |-> gone \o [y \in 1..(cursorY + 1) |-> Row(tvram, y - 1)], col |-> cursorX]
Prints(glyphs, n, f) ==
    f = [k \in 0..n |-> IF k = 0 THEN Start ELSE Paper!Printed(f[k - 1], glyphs[k])]

\* Such a function for n glyphs gives one for n + 1.
LEMMA PrintsNext ==
    ASSUME NEW glyphs, NEW n \in Nat, \E f : Prints(glyphs, n, f)
    PROVE  \E f : Prints(glyphs, n + 1, f)
<1>1. PICK f : Prints(glyphs, n, f)
  OBVIOUS
<1> DEFINE g == [k \in 0..(n + 1) |->
                  IF k = n + 1 THEN Paper!Printed(f[n], glyphs[n + 1]) ELSE f[k]]
<1>2. ASSUME NEW k \in 0..(n + 1)
      PROVE  g[k] = IF k = 0 THEN Start ELSE Paper!Printed(g[k - 1], glyphs[k])
  <2>1. CASE k = n + 1
    BY <2>1
  <2>2. CASE k # n + 1 /\ k = 0
    <3>1. g[k] = f[0] /\ f[0] = Start
      BY <2>2, <1>1 DEF Prints
    <3> QED
      BY <3>1, <2>2
  <2>3. CASE k # n + 1 /\ k # 0
    <3>1. k \in 0..n /\ k - 1 \in 0..(n + 1) /\ k - 1 # n + 1
      BY <2>3
    <3>2. g[k] = f[k] /\ g[k - 1] = f[k - 1]
      BY <3>1, <2>3
    <3>3. f[k] = Paper!Printed(f[k - 1], glyphs[k])
      BY <3>1, <2>3, <1>1 DEF Prints
    <3> QED
      BY <3>2, <3>3, <2>3
  <2> QED
    BY <2>1, <2>2, <2>3
<1>3. g = [k \in 0..(n + 1) |-> g[k]]
  OBVIOUS
<1> HIDE DEF g
<1>4. Prints(glyphs, n + 1, g)
  BY <1>2, <1>3 DEF Prints
<1> QED
  BY <1>4

\* PrintedAll goes on from each state of the paper to the next.
PrintsOn(glyphs) ==
    /\ Paper!PrintedAll(glyphs)[0] = Start
    /\ \A i \in 0..(Len(glyphs) - 1) :
         Paper!PrintedAll(glyphs)[i + 1] =
           Paper!Printed(Paper!PrintedAll(glyphs)[i], glyphs[i + 1])

\* It does so for one character and for the lengths of reports.
LEMMA PrintedAllSteps ==
    ASSUME NEW glyphs, Len(glyphs) \in {1, 4, 7}
    PROVE  PrintsOn(glyphs)
<1> DEFINE Can(n) == \E f : Prints(glyphs, n, f)
<1>1. Can(0)
  <2>1. Prints(glyphs, 0, [k \in 0..0 |-> Start])
    BY DEF Prints
  <2> QED
    BY <2>1
<1>2. \A n \in Nat : Can(n) => Can(n + 1)
  BY PrintsNext
<1> HIDE DEF Can
<1>3. Can(1) /\ Can(2) /\ Can(3) /\ Can(4)
  <2>1. Can(1)
    BY <1>1, <1>2
  <2>2. Can(2)
    BY <2>1, <1>2
  <2>3. Can(3)
    BY <2>2, <1>2
  <2> QED
    BY <2>1, <2>2, <2>3, <1>2
<1>4. Can(7)
  <2>1. Can(5)
    BY <1>3, <1>2
  <2>2. Can(6)
    BY <2>1, <1>2
  <2> QED
    BY <2>2, <1>2
<1>5. Can(Len(glyphs))
  BY <1>3, <1>4
<1>6. Prints(glyphs, Len(glyphs), Paper!PrintedAll(glyphs))
  <2>1. Paper!PrintedAll(glyphs) = CHOOSE f : Prints(glyphs, Len(glyphs), f)
    BY DEF Paper!PrintedAll, Prints, Start
  <2> QED
    BY <2>1, <1>5 DEF Can
<1>7. \A i \in 0..(Len(glyphs) - 1) : i + 1 \in 0..Len(glyphs) /\ i + 1 # 0 /\ (i + 1) - 1 = i
  OBVIOUS
<1> DEFINE all == Paper!PrintedAll(glyphs)
<1> HIDE DEF all
<1>8. all = [k \in 0..Len(glyphs) |-> IF k = 0 THEN Start ELSE Paper!Printed(all[k - 1], glyphs[k])]
  BY <1>6 DEF Prints, all
<1>9. /\ all[0] = Start
      /\ \A i \in 0..(Len(glyphs) - 1) : all[i + 1] = Paper!Printed(all[i], glyphs[i + 1])
  <2>1. 0 \in 0..Len(glyphs)
    OBVIOUS
  <2>2. \A k \in 0..Len(glyphs) :
          all[k] = IF k = 0 THEN Start ELSE Paper!Printed(all[k - 1], glyphs[k])
    BY <1>8
  <2> QED
    BY <2>1, <2>2, <1>7
<1> QED
  BY <1>9 DEF all, PrintsOn

\* The glyphs of a report fit a cell, and there are as many as asked for.
LEMMA ReportGlyphs ==
    ASSUME NEW n \in {4, 7}
    PROVE  Len(Report(n)) = n /\ \A i \in 1..n : Report(n)[i] \in Content
<1> DEFINE long == <<"*", "E", "[", "[", "h", "h", "]">>
<1>1. \A i \in 1..7 : long[i] \in Content
  BY DEF Content
<1> HIDE DEF long
<1>2. \A i \in (8 - n)..7 : long[i] \in Content
  BY <1>1
<1>3. /\ Len(SubSeq(long, 8 - n, 7)) = n
      /\ \A i \in 1..n : SubSeq(long, 8 - n, 7)[i] = long[(8 - n) + i - 1]
  <2>1. 8 - n \in Int /\ 7 \in Int /\ 8 - n <= 7 /\ 7 - (8 - n) + 1 = n
    OBVIOUS
  <2> QED
    BY <2>1, <1>2, SubSeqProperties
<1>4. \A i \in 1..n : (8 - n) + i - 1 \in (8 - n)..7
  OBVIOUS
<1> QED
  BY <1>2, <1>3, <1>4 DEF Report, long

\* Both sides of a report start where the console is and go on by the same glyph.
LEMMA ReportSteps ==
    ASSUME NEW n \in {4, 7}
    PROVE  /\ OutAll(Report(n))[0] = Page /\ Paper!PrintedAll(Report(n))[0] = Start
           /\ \A i \in 0..(n - 1) :
                /\ Report(n)[i + 1] \in Content
                /\ OutAll(Report(n))[i + 1] = Out(OutAll(Report(n))[i], Report(n)[i + 1])
                /\ Paper!PrintedAll(Report(n))[i + 1] =
                     Paper!Printed(Paper!PrintedAll(Report(n))[i], Report(n)[i + 1])
<1> DEFINE glyphs == Report(n)
<1>1. Len(glyphs) = n /\ \A i \in 1..n : glyphs[i] \in Content
  BY ReportGlyphs
<1> HIDE DEF glyphs
<1>2. /\ OutAll(glyphs)[0] = Page
      /\ \A i \in 0..(n - 1) : OutAll(glyphs)[i + 1] = Out(OutAll(glyphs)[i], glyphs[i + 1])
  <2>1. Len(glyphs) \in {4, 7}
    BY <1>1
  <2>2. GoesOn(glyphs)
    BY <2>1, OutAllSteps
  <2> QED
    BY <2>2, <1>1 DEF GoesOn
<1>3. /\ Paper!PrintedAll(glyphs)[0] = Start
      /\ \A i \in 0..(n - 1) : Paper!PrintedAll(glyphs)[i + 1] =
                                 Paper!Printed(Paper!PrintedAll(glyphs)[i], glyphs[i + 1])
  <2>1. Len(glyphs) \in {1, 4, 7}
    BY <1>1
  <2>2. PrintsOn(glyphs)
    BY <2>1, PrintedAllSteps
  <2> QED
    BY <2>2, <1>1 DEF PrintsOn
<1>4. \A i \in 0..(n - 1) : i + 1 \in 1..n
  OBVIOUS
<1> QED
  BY <1>1, <1>2, <1>3, <1>4 DEF glyphs

\* A report wraps at most once.
LEMMA ReportTypes ==
    ASSUME Types, NEW n \in {4, 7}
    PROVE  OutAll(Report(n))[n] \in Pages
<1> DEFINE page(i) == OutAll(Report(n))[i]
           Good(i) == /\ page(i) \in Pages
                      /\ \/ page(i).y = cursorY
                         \/ page(i).y = cursorY + 1 /\ page(i).x < i
<1>1. Good(0)
  BY ReportSteps, LinesAreRoll
<1>2. ASSUME NEW i \in 0..(n - 1), Good(i)
      PROVE  Good(i + 1)
  <2>1. page(i + 1) = Out(page(i), Report(n)[i + 1])
    BY ReportSteps
  <2>2. Report(n)[i + 1] \in Content
    BY ReportSteps
  <2> DEFINE p == page(i)
             q == Out(p, Report(n)[i + 1])
  <2>3. page(i + 1) = q /\ p = page(i)
    BY <2>1
  <2>8. p \in Pages /\ (p.y = cursorY \/ (p.y = cursorY + 1 /\ p.x < i))
    BY <1>2
  <2> HIDE DEF p
  <2>4. /\ p \in Pages /\ p.x \in Nat /\ p.x < Modulus /\ cursorY \in 0..(TEXTHEIGHT - 1)
        /\ p.y \in Nat /\ (p.y = cursorY \/ (p.y = cursorY + 1 /\ p.x < i))
    BY <2>8, ScreenSize DEF Types, Pages
  <2>5. p.y < TEXTHEIGHT \/ p.x + 1 < TEXTWIDTH
    BY <2>4, ScreenSize
  <2>6. /\ q \in Pages
        /\ \/ q.y = p.y /\ q.x = (p.x + 1) % Modulus
           \/ q.y = p.y + 1 /\ q.x = 0 /\ p.x + 1 >= TEXTWIDTH
    BY <2>2, <2>4, <2>5, GlyphType
  <2> HIDE DEF q
  <2>7. q.y = cursorY \/ (q.y = cursorY + 1 /\ q.x < i + 1)
    <3>1. CASE q.y = p.y /\ q.x = (p.x + 1) % Modulus
      <4>1. p.x < i => (p.x + 1) % Modulus = p.x + 1
        BY <2>4, ScreenSize
      <4> QED
        BY <3>1, <4>1, <2>4
    <3>2. CASE q.y = p.y + 1 /\ q.x = 0 /\ p.x + 1 >= TEXTWIDTH
      BY <3>2, <2>4, ScreenSize
    <3> QED
      BY <3>1, <3>2, <2>6
  <2> QED
    BY <2>3, <2>6, <2>7
<1> HIDE DEF Good
<1>3. Good(1) /\ Good(2) /\ Good(3) /\ Good(4)
  <2>1. Good(1)
    BY <1>1, <1>2
  <2>2. Good(2)
    BY <2>1, <1>2
  <2>3. Good(3)
    BY <2>2, <1>2
  <2> QED
    BY <2>1, <2>2, <2>3, <1>2
<1>4. n = 7 => Good(7)
  <2> SUFFICES ASSUME n = 7
               PROVE  Good(7)
    OBVIOUS
  <2>1. Good(5)
    BY <1>3, <1>2
  <2>2. Good(6)
    BY <2>1, <1>2
  <2> QED
    BY <2>2, <1>2
<1> QED
  BY <1>3, <1>4 DEF Good

\* A report that does not go on below the screen is the same report on paper.
LEMMA ReportPrinted ==
    ASSUME Types, NEW n \in {4, 7}, cursorX \in Column, EmptyBelow(tvram, cursorY),
           cursorY = TEXTHEIGHT - 1 => cursorX + n <= TEXTWIDTH
    PROVE  /\ OutAll(Report(n))[n] \in Pages /\ OutAll(Report(n))[n].x \in Column
           /\ EmptyBelow(OutAll(Report(n))[n].tvram, OutAll(Report(n))[n].y)
           /\ Paper!PrintedAll(Report(n))[n] = OnPaper(gone, OutAll(Report(n))[n])
<1> DEFINE page(i) == OutAll(Report(n))[i]
           At(i) == \/ page(i).y = cursorY /\ page(i).x = cursorX + i
                    \/ page(i).y = cursorY + 1 /\ page(i).x = cursorX + i - TEXTWIDTH
           Good(i) == /\ page(i) \in Pages /\ page(i).x \in Column
                      /\ EmptyBelow(page(i).tvram, page(i).y)
                      /\ Paper!PrintedAll(Report(n))[i] = OnPaper(gone, page(i))
                      /\ At(i)
<1>0. /\ cursorX \in 0..(TEXTWIDTH - 1) /\ cursorY \in 0..(TEXTHEIGHT - 1)
      /\ gone \in Seq(Line)
  BY DEF Types, Column
<1>1. Good(0)
  <2>1. page(0) = Page /\ Paper!PrintedAll(Report(n))[0] = Start
    BY ReportSteps
  <2>2. Start = OnPaper(gone, Page)
    BY LinesAreRoll DEF Start, OnPaper
  <2> QED
    BY <2>1, <2>2, <1>0, LinesAreRoll
<1>2. ASSUME NEW i \in 0..(n - 1), Good(i)
      PROVE  Good(i + 1)
  <2> DEFINE p == page(i)
             c == Report(n)[i + 1]
             q == Out(p, c)
  <2>1. /\ page(i + 1) = q
        /\ Paper!PrintedAll(Report(n))[i + 1] = Paper!Printed(Paper!PrintedAll(Report(n))[i], c)
    BY ReportSteps
  <2>2. c \in Content
    BY ReportSteps
  <2>3. /\ p \in Pages /\ p.x \in Column /\ EmptyBelow(p.tvram, p.y)
        /\ Paper!PrintedAll(Report(n))[i] = OnPaper(gone, p)
        /\ \/ p.y = cursorY /\ p.x = cursorX + i
           \/ p.y = cursorY + 1 /\ p.x = cursorX + i - TEXTWIDTH
    BY <1>2
  <2> HIDE DEF p, c
  <2>4. p.y < TEXTHEIGHT
    <3>1. CASE p.y = cursorY
      BY <3>1, <1>0, ScreenSize
    <3>2. CASE p.y = cursorY + 1 /\ p.x = cursorX + i - TEXTWIDTH
      <4>1. p.x \in Nat /\ TEXTWIDTH \in Nat
        BY <2>3, ScreenSize DEF Column
      <4>2. cursorY # TEXTHEIGHT - 1
        BY <3>2, <4>1, <1>0
      <4> QED
        BY <3>2, <4>2, <1>0, ScreenSize
    <3> QED
      BY <2>3, <3>1, <3>2
  <2>5. /\ q \in Pages /\ q.x \in Column /\ EmptyBelow(q.tvram, q.y)
        /\ \/ q.y = p.y /\ q.x = p.x + 1
           \/ q.y = p.y + 1 /\ q.x = 0 /\ p.x = TEXTWIDTH - 1
        /\ Paper!Printed(OnPaper(gone, p), c) = OnPaper(gone, q)
    BY <2>2, <2>3, <2>4, <1>0, GlyphPrinted
  <2> HIDE DEF q
  <2>6. \/ q.y = cursorY /\ q.x = cursorX + (i + 1)
        \/ q.y = cursorY + 1 /\ q.x = cursorX + (i + 1) - TEXTWIDTH
    <3>1. i \in 0..6 /\ TEXTWIDTH \in Nat /\ TEXTWIDTH >= 7 /\ p.x \in 0..(TEXTWIDTH - 1)
      BY <2>3, ScreenSize DEF Column
    <3>2. CASE q.y = p.y /\ q.x = p.x + 1
      BY <2>3, <3>1, <3>2, <1>0
    <3>3. CASE q.y = p.y + 1 /\ q.x = 0 /\ p.x = TEXTWIDTH - 1
      BY <2>3, <3>1, <3>3, <1>0
    <3> QED
      BY <2>5, <3>2, <3>3
  <2> QED
    BY <2>1, <2>3, <2>5, <2>6 DEF p, c
<1> HIDE DEF Good
<1>3. Good(1) /\ Good(2) /\ Good(3) /\ Good(4)
  <2>1. Good(1)
    BY <1>1, <1>2
  <2>2. Good(2)
    BY <2>1, <1>2
  <2>3. Good(3)
    BY <2>2, <1>2
  <2> QED
    BY <2>1, <2>2, <2>3, <1>2
<1>4. n = 7 => Good(7)
  <2> SUFFICES ASSUME n = 7
               PROVE  Good(7)
    OBVIOUS
  <2>1. Good(5)
    BY <1>3, <1>2
  <2>2. Good(6)
    BY <2>1, <1>2
  <2> QED
    BY <2>2, <1>2
<1> QED
  BY <1>3, <1>4 DEF Good

\* So is a single character, anywhere.
LEMMA CharacterPrinted ==
    ASSUME Types, NEW c \in Content, cursorX \in Column, EmptyBelow(tvram, cursorY)
    PROVE  /\ Out(Page, c) \in Pages /\ Out(Page, c).x \in Column
           /\ EmptyBelow(Out(Page, c).tvram, Out(Page, c).y)
           /\ Paper!PrintedAll(<<c>>)[1] = OnPaper(gone, Out(Page, c))
<1>1. Page \in Pages /\ Page.x = cursorX /\ Page.y = cursorY /\ Page.tvram = tvram
  BY LinesAreRoll
<1>2. Page.y < TEXTHEIGHT /\ gone \in Seq(Line)
  BY <1>1, ScreenSize DEF Types
<1>3. Start = OnPaper(gone, Page)
  BY LinesAreRoll DEF Start, OnPaper
<1>4. /\ Out(Page, c) \in Pages /\ Out(Page, c).x \in Column
      /\ EmptyBelow(Out(Page, c).tvram, Out(Page, c).y)
      /\ Paper!Printed(OnPaper(gone, Page), c) = OnPaper(gone, Out(Page, c))
  BY <1>1, <1>2, GlyphPrinted
<1>5. Paper!PrintedAll(<<c>>)[1] = Paper!Printed(Start, c)
  <2>1. Len(<<c>>) = 1 /\ <<c>>[1] = c
    OBVIOUS
  <2> DEFINE word == <<c>>
  <2> HIDE DEF word
  <2>2. PrintsOn(word)
    BY <2>1, PrintedAllSteps DEF word
  <2>3. Len(word) = 1 /\ word[1] = c
    BY <2>1 DEF word
  <2>4. Paper!PrintedAll(word)[0 + 1] = Paper!Printed(Paper!PrintedAll(word)[0], word[0 + 1])
    BY <2>2, <2>3 DEF PrintsOn
  <2> QED
    BY <2>2, <2>3, <2>4 DEF word, PrintsOn
<1> QED
  BY <1>3, <1>4, <1>5

-----------------------------------------------------------------------------
\* The invariant and the refinement, one action at a time.

\* What each action is to keep: the invariant, and a step of the paper or none.
Kept == IInv' /\ (Paper!PNext \/ UNCHANGED Paper!pvars)

\* The refined lines and column, before and after.
LEMMA PaperState ==
    ASSUME IInv
    PROVE  /\ Paper!BlankLine = EmptyLine /\ Paper!Column = Column
           /\ gone \o [y \in 1..(cursorY + 1) |-> Row(tvram, y - 1)] = Roll(gone, Page)
           /\ gone \in Seq(Line) /\ cursorY \in 0..(TEXTHEIGHT - 1) /\ tvram \in Memory
           /\ Page \in Pages /\ Page.x = cursorX /\ Page.y = cursorY /\ Page.tvram = tvram
           /\ Page.y < TEXTHEIGHT
<1>1. Paper!BlankLine = EmptyLine /\ Paper!Column = Column
  BY DEF Paper!BlankLine, Paper!Column, EmptyLine, Column
<1>2. gone \in Seq(Line) /\ cursorY \in 0..(TEXTHEIGHT - 1) /\ tvram \in Memory
  BY DEF IInv, Types
<1>3. /\ gone \o [y \in 1..(cursorY + 1) |-> Row(tvram, y - 1)] = Roll(gone, Page)
      /\ Page \in Pages /\ Page.x = cursorX /\ Page.y = cursorY /\ Page.tvram = tvram
  BY LinesAreRoll DEF IInv
<1>4. Page.y < TEXTHEIGHT
  BY <1>2, <1>3, ScreenSize
<1> QED
  BY <1>1, <1>2, <1>3, <1>4

\* Once the promise is lost it stays lost, whatever else happens.
LEMMA Lost ==
    ASSUME astray, astray'
    PROVE  Paper!PNext
  BY DEF Paper!PNext, Paper!Adrift

\* Showing what a word puts on paper emits the word.
LEMMA ShowEmits ==
    ASSUME IInv, NEW glyphs, NEW page \in Pages, Show(page), EmptyBelow(page.tvram, page.y),
           Paper!PrintedAll(glyphs)[Len(glyphs)] = OnPaper(gone, page)
    PROVE  Paper!Emit(glyphs)
<1>1. /\ Roll(gone, page) = gone' \o [y \in 1..(cursorY' + 1) |-> Row(tvram', y - 1)]
      /\ cursorX' = page.x
  BY ShowRoll DEF IInv
<1>2. /\ Paper!PrintedAll(glyphs)[Len(glyphs)].lines = Roll(gone, page)
      /\ Paper!PrintedAll(glyphs)[Len(glyphs)].col = page.x
  BY DEF OnPaper
<1> QED
  BY <1>1, <1>2 DEF Paper!Emit

\* A character printed is typed on paper.
LEMMA PutStep ==
    ASSUME IInv, NEW c \in Chars, Put(c)
    PROVE  Kept
<1>1. c \in Content /\ Types
  BY DEF Content, IInv
<1>2. Show(Out(Page, c)) /\ astray' = astray /\ escape_digit' = escape_digit
  BY DEF Put
<1>3. Out(Page, c) \in Pages
  BY <1>1, PaperState, GlyphType
<1>4. Types'
  BY <1>1, <1>2, <1>3, ShowTypes DEF Types
<1>5. CASE astray
  BY <1>2, <1>4, <1>5, Lost DEF Kept, IInv, Intact
<1>6. CASE ~astray
  <2>1. /\ Out(Page, c).x \in Column
        /\ EmptyBelow(Out(Page, c).tvram, Out(Page, c).y)
        /\ Paper!PrintedAll(<<c>>)[1] = OnPaper(gone, Out(Page, c))
    BY <1>1, <1>6, CharacterPrinted DEF IInv, Intact
  <2>2. cursorX' \in Column /\ EmptyBelow(tvram', cursorY')
    BY <1>1, <1>2, <1>3, <2>1, ShowRoll
  <2>3. Paper!Emit(<<c>>)
    <3>1. Len(<<c>>) = 1
      OBVIOUS
    <3> QED
      BY <3>1, <1>2, <1>3, <2>1, ShowEmits
  <2>4. Paper!Intact
    BY <1>2, <1>6, <2>3 DEF Paper!Intact, Paper!Type
  <2> QED
    BY <1>2, <1>4, <2>2, <2>4 DEF Kept, IInv, Intact, Paper!PNext
<1> QED
  BY <1>5, <1>6

\* A report is printed on paper, or is the end of the promise.
LEMMA ReportStep ==
    ASSUME IInv, NEW n \in {4, 7}, DebugOut(n), escape_digit' = escape_digit
    PROVE  Kept
<1> DEFINE page == OutAll(Report(n))[n]
<1>1. Types /\ page \in Pages
  BY ReportTypes DEF IInv
<1>2. Show(page) /\ astray' = (astray \/ (cursorY = TEXTHEIGHT - 1 /\ cursorX + n > TEXTWIDTH))
  BY DEF DebugOut
<1>3. Len(Report(n)) = n /\ Report(n) \in {Report(4), Report(7)}
  BY ReportGlyphs
<1> HIDE DEF page
<1>4. Types'
  BY <1>1, <1>2, ShowTypes DEF Types
<1>5. CASE astray
  BY <1>2, <1>4, <1>5, Lost DEF Kept, IInv, Intact
<1>6. CASE ~astray /\ astray'
  <2>1. Paper!GoAstray
    BY <1>2, <1>3, <1>6 DEF Paper!GoAstray
  <2> QED
    BY <1>4, <1>6, <2>1 DEF Kept, IInv, Intact, Paper!PNext
<1>7. CASE ~astray /\ ~astray'
  <2>1. /\ cursorX \in Column /\ EmptyBelow(tvram, cursorY)
        /\ cursorY = TEXTHEIGHT - 1 => cursorX + n <= TEXTWIDTH
    <3>1. cursorX \in Column /\ EmptyBelow(tvram, cursorY)
      BY <1>7 DEF IInv, Intact
    <3>2. cursorX \in Int /\ TEXTWIDTH \in Int
      BY <3>1, ScreenSize DEF Column
    <3>3. ~(cursorY = TEXTHEIGHT - 1 /\ cursorX + n > TEXTWIDTH)
      BY <1>2, <1>7
    <3> QED
      BY <3>1, <3>2, <3>3
  <2>2. /\ page.x \in Column /\ EmptyBelow(page.tvram, page.y)
        /\ Paper!PrintedAll(Report(n))[n] = OnPaper(gone, page)
    BY <1>1, <2>1, ReportPrinted DEF page
  <2>3. cursorX' \in Column /\ EmptyBelow(tvram', cursorY')
    BY <1>1, <1>2, <2>2, ShowRoll
  <2>4. Paper!Emit(Report(n))
    BY <1>1, <1>2, <1>3, <2>2, ShowEmits
  <2>5. Paper!Intact
    BY <1>3, <1>7, <2>4 DEF Paper!Intact, Paper!Report
  <2> QED
    BY <1>4, <1>7, <2>3, <2>5 DEF Kept, IInv, Intact, Paper!PNext
<1> QED
  BY <1>5, <1>6, <1>7, <1>2 DEF IInv, Types

\* A line feed starts a new line of paper.
LEMMA LineFeedStep ==
    ASSUME IInv, NEW c, LineFeed(c)
    PROVE  Kept
<1> DEFINE page == [Page EXCEPT !.y = @ + 1]
<1>1. Show(page) /\ astray' = astray /\ escape_digit' = escape_digit
  BY DEF LineFeed
<1>2. /\ page \in Pages /\ page.y = Page.y + 1
      /\ page.tvram = Page.tvram /\ page.x = cursorX
  BY PaperState, ScreenSize DEF Pages, Page
<1> HIDE DEF page
<1>3. Types'
  BY <1>1, <1>2, ShowTypes DEF IInv, Types
<1>4. CASE astray
  BY <1>1, <1>3, <1>4, Lost DEF Kept, IInv, Intact
<1>5. CASE ~astray
  <2>1. cursorX \in Column /\ EmptyBelow(Page.tvram, Page.y)
    BY <1>5, PaperState DEF IInv, Intact
  <2>2. EmptyBelow(page.tvram, page.y)
    <3>1. \A y \in (page.y + 1)..(TEXTHEIGHT - 1) : y \in (Page.y + 1)..(TEXTHEIGHT - 1)
      BY <1>2, PaperState, ScreenSize
    <3> QED
      BY <3>1, <2>1, <1>2 DEF EmptyBelow
  <2>3. Roll(gone, page) = Append(Roll(gone, Page), EmptyLine)
    BY <1>2, <2>1, PaperState, FeedRoll
  <2>4. /\ Roll(gone, page) = gone' \o [y \in 1..(cursorY' + 1) |-> Row(tvram', y - 1)]
        /\ cursorX' = cursorX /\ EmptyBelow(tvram', cursorY')
    BY <1>1, <1>2, <2>2, ShowRoll DEF IInv
  <2>5. Paper!LineFeed
    BY <2>3, <2>4, PaperState DEF Paper!LineFeed
  <2> QED
    BY <1>1, <1>3, <1>5, <2>1, <2>4, <2>5 DEF Kept, IInv, Intact, Paper!PNext, Paper!Intact
<1> QED
  BY <1>4, <1>5

\* Moving up all the rows under the cursor starts a new line of paper too.
LEMMA ScrollStep ==
    ASSUME IInv, console_scroll
    PROVE  Kept
<1> DEFINE page == [Page EXCEPT !.y = @ + 1]
           next == [tvram |-> Scrolled(tvram), x |-> cursorX, y |-> cursorY]
<1>1. /\ tvram' = Scrolled(tvram) /\ gone' = Append(gone, Row(tvram, 0))
      /\ cursorX' = cursorX /\ cursorY' = cursorY /\ astray' = astray
      /\ escape_digit' = escape_digit
  BY DEF console_scroll
<1>2. page \in Pages /\ page.y = cursorY + 1 /\ page.tvram = tvram
  BY PaperState, ScreenSize DEF Pages, Page
<1>3. Scrolled(tvram) \in Memory /\ Row(tvram, 0) \in Line
  BY PaperState, ScrolledRows, RowType, ScreenSize
<1>4. Types'
  BY <1>1, <1>3 DEF IInv, Types
<1>5. /\ next \in Pages /\ next.tvram = Scrolled(tvram) /\ next.y = cursorY
      /\ next.y < TEXTHEIGHT
  BY <1>3, ScreenSize DEF IInv, Types, Pages
<1> HIDE DEF page, next
<1>6. CASE astray
  BY <1>1, <1>4, <1>6, Lost DEF Kept, IInv, Intact
<1>7. CASE ~astray
  <2>1. cursorX \in Column /\ EmptyBelow(Page.tvram, Page.y)
    BY <1>7, PaperState DEF IInv, Intact
  <2>2. Roll(gone, page) = Append(Roll(gone, Page), EmptyLine)
    BY <1>2, <2>1, PaperState, FeedRoll
  <2>3. Roll(Append(gone, Row(tvram, 0)), next) = Roll(gone, page)
    <3>1. page.y >= 1 /\ next.y = page.y - 1
      BY <1>2, <1>5, PaperState, ScreenSize
    <3> QED
      BY <3>1, <1>2, <1>5, PaperState, ScrollRoll
  <2>4. Roll(gone', next) = gone' \o [y \in 1..(cursorY' + 1) |-> Row(tvram', y - 1)]
    BY <1>1, <1>5, RollOnScreen
  <2>5. Paper!LineFeed
    BY <1>1, <2>2, <2>3, <2>4, PaperState DEF Paper!LineFeed
  <2>6. EmptyBelow(tvram', cursorY')
    <3> SUFFICES ASSUME NEW y \in (cursorY + 1)..(TEXTHEIGHT - 1)
                 PROVE  Row(Scrolled(tvram), y) = EmptyLine
      BY <1>1 DEF EmptyBelow
    <3>1. y \in 0..(TEXTHEIGHT - 1) /\ (y # TEXTHEIGHT - 1 => y + 1 \in (cursorY + 1)..(TEXTHEIGHT - 1))
      BY PaperState, ScreenSize
    <3>2. y # TEXTHEIGHT - 1 => Row(tvram, y + 1) = EmptyLine
      BY <3>1, <2>1, PaperState DEF EmptyBelow
    <3> QED
      BY <3>1, <3>2, PaperState, ScrolledRows
  <2> QED
    BY <1>1, <1>4, <1>7, <2>1, <2>5, <2>6 DEF Kept, IInv, Intact, Paper!PNext, Paper!Intact
<1> QED
  BY <1>6, <1>7

\* A cursor that moves to the left on its row, or stays, is the column on paper.
LEMMA LeftStep ==
    ASSUME IInv, cursorX' \in 0..(Modulus - 1), UNCHANGED <<tvram, cursorY, gone, astray>>,
           escape_digit' = escape_digit,
           ~astray => cursorX' \in Column /\ (cursorX' < cursorX \/ cursorX' = cursorX)
    PROVE  Kept
<1>1. Types' /\ Intact'
  BY DEF IInv, Types, Intact
<1>2. CASE astray
  BY <1>1, <1>2, Lost DEF Kept, IInv
<1>3. CASE ~astray /\ cursorX' < cursorX
  <2>1. Paper!Left
    BY <1>3, PaperState DEF Paper!Left
  <2> QED
    BY <1>1, <1>3, <2>1 DEF Kept, IInv, Paper!PNext, Paper!Intact
<1>4. CASE cursorX' = cursorX
  BY <1>1, <1>4 DEF Kept, IInv, Paper!pvars
<1> QED
  BY <1>2, <1>3, <1>4

\* So do a carriage return, a backspace and ESC [ D with a number; ESC [ D at the
\* margin ends the promise.
LEMMA CursorSteps ==
    ASSUME IInv, NEW c, Return(c) \/ Backspace(c) \/ MoveLeft(c)
    PROVE  Kept
<1>1. /\ cursorX \in 0..(Modulus - 1) /\ escape_digit \in Nat /\ Modulus \in Nat
      /\ TEXTWIDTH \in Nat /\ TEXTWIDTH >= 7 /\ Modulus > 2 * TEXTWIDTH
      /\ ~astray => cursorX \in 0..(TEXTWIDTH - 1)
  BY ScreenSize DEF IInv, Types, Intact, Column
<1>2. CASE Return(c)
  <2>1. /\ cursorX' = 0 /\ UNCHANGED <<tvram, cursorY, gone, astray>>
        /\ escape_digit' = escape_digit
    BY <1>2 DEF Return
  <2>2. cursorX' \in 0..(Modulus - 1) /\ cursorX' \in Column /\ (cursorX' < cursorX \/ cursorX' = cursorX)
    BY <2>1, <1>1 DEF Column
  <2> QED
    BY <2>1, <2>2, LeftStep
<1>3. CASE Backspace(c)
  <2>1. /\ cursorX' = IF cursorX > 0 THEN cursorX - 1 ELSE 0
        /\ UNCHANGED <<tvram, cursorY, gone, astray>>
        /\ escape_digit' = escape_digit
    BY <1>3 DEF Backspace
  <2>2. /\ cursorX' \in 0..(Modulus - 1) /\ (cursorX' < cursorX \/ cursorX' = cursorX)
        /\ ~astray => cursorX' \in Column
    BY <2>1, <1>1 DEF Column
  <2> QED
    BY <2>1, <2>2, LeftStep
<1>4. CASE MoveLeft(c) /\ escape_digit # 0
  <2>1. /\ cursorX' = IF cursorX > escape_digit THEN cursorX - escape_digit ELSE 0
        /\ UNCHANGED <<tvram, cursorY, gone>> /\ escape_digit' = escape_digit
        /\ astray' = astray
    BY <1>4 DEF MoveLeft, IInv, Types
  <2>2. /\ cursorX' \in 0..(Modulus - 1) /\ (cursorX' < cursorX \/ cursorX' = cursorX)
        /\ ~astray => cursorX' \in Column
    BY <2>1, <1>1, <1>4 DEF Column
  <2> QED
    BY <2>1, <2>2, LeftStep
<1>5. CASE MoveLeft(c) /\ escape_digit = 0
  <2>1. /\ cursorX' = (cursorX - 1) % Modulus
        /\ UNCHANGED <<tvram, cursorY, gone>> /\ escape_digit' = escape_digit
        /\ astray' = (astray \/ cursorX = 0)
    BY <1>5 DEF MoveLeft
  <2>2. cursorX' \in 0..(Modulus - 1) /\ (cursorX # 0 => cursorX' = cursorX - 1)
    BY <2>1, <1>1
  <2>3. CASE cursorX # 0
    <3>1. astray' = astray /\ cursorX' < cursorX /\ (~astray => cursorX' \in Column)
      BY <2>1, <2>2, <2>3, <1>1 DEF IInv, Types, Column
    <3> QED
      BY <2>1, <2>2, <3>1, LeftStep
  <2>4. CASE cursorX = 0
    <3>1. astray' = TRUE
      BY <2>1, <2>4
    <3>2. Types' /\ Intact'
      BY <2>1, <2>2, <3>1 DEF IInv, Types, Intact
    <3>3. Paper!GoAstray
      BY <2>4, <3>1 DEF Paper!GoAstray
    <3> QED
      BY <3>2, <3>3 DEF Kept, IInv, Paper!PNext
  <2> QED
    BY <2>3, <2>4
<1> QED
  BY <1>2, <1>3, <1>4, <1>5

\* Clearing to the end of the line changes the row of the cursor only.
LEMMA ClearedRows ==
    ASSUME IInv, NEW c, ClearToLineEnd(c), cursorX \in Column
    PROVE  \A y \in 0..(TEXTHEIGHT - 1) :
             Row(tvram', y) = IF y = cursorY
                              THEN [x \in Column |-> IF x < cursorX THEN Row(tvram, y)[x] ELSE "blank"]
                              ELSE Row(tvram, y)
<1> SUFFICES ASSUME NEW y \in 0..(TEXTHEIGHT - 1)
             PROVE  Row(tvram', y) = IF y = cursorY
                              THEN [x \in Column |-> IF x < cursorX THEN Row(tvram, y)[x] ELSE "blank"]
                              ELSE Row(tvram, y)
  OBVIOUS
<1>1. cursorY \in 0..TEXTHEIGHT /\ y \in 0..TEXTHEIGHT /\ TEXTWIDTH - 1 \in Column
      /\ cursorX \in 0..(TEXTWIDTH - 1) /\ TEXTHEIGHT \in Nat /\ TEXTWIDTH \in Nat
      /\ TEXTWIDTH < TVRAM_STRIDE /\ TVRAM_STRIDE \in Nat
  BY ScreenSize DEF IInv, Types, Column
<1> DEFINE from == CHARV(cursorX, cursorY)
           to   == CHARV(TEXTWIDTH - 1, cursorY)
<1>2. ASSUME NEW x \in Column
      PROVE  CHARV(x, y) \in from..to <=> y = cursorY /\ x >= cursorX
  <2>0. x \in 0..(TEXTWIDTH - 1)
    BY DEF Column
  <2>1. /\ CHARV(x, y) = y * TVRAM_STRIDE + x /\ y * TVRAM_STRIDE \in Nat
        /\ from = cursorY * TVRAM_STRIDE + cursorX
        /\ to = cursorY * TVRAM_STRIDE + (TEXTWIDTH - 1)
        /\ cursorY * TVRAM_STRIDE \in Nat
    BY <1>1, Place
  <2>2. CASE y = cursorY
    <3> DEFINE row == cursorY * TVRAM_STRIDE
    <3>1. CHARV(x, y) = row + x /\ from = row + cursorX /\ to = row + (TEXTWIDTH - 1) /\ row \in Nat
      BY <2>1, <2>2
    <3> HIDE DEF row, from, to
    <3> QED
      BY <3>1, <2>0, <2>2, <1>1
  <2>3. CASE y < cursorY
    <3> DEFINE high == cursorY * TVRAM_STRIDE
    <3>1. /\ high \in Nat /\ from = high + cursorX /\ CHARV(x, y) \in Nat
          /\ ~(high <= CHARV(x, y))
      <4>1. high <= CHARV(x, y) <=> cursorY <= y
        BY <1>1, PlaceOrder
      <4> QED
        BY <4>1, <2>0, <2>1, <2>3, <1>1
    <3> HIDE DEF high, from, to
    <3> QED
      BY <3>1, <2>3, <1>1
  <2>4. CASE y > cursorY
    <3> DEFINE low == y * TVRAM_STRIDE
    <3>1. /\ low \in Nat /\ CHARV(x, y) = low + x /\ to \in Nat /\ ~(low <= to)
      <4>1. low <= to <=> y <= cursorY
        BY <1>1, PlaceOrder
      <4> QED
        BY <4>1, <2>0, <2>1, <2>4, <1>1
    <3> HIDE DEF low, from, to
    <3> QED
      BY <3>1, <2>0, <2>4, <1>1
  <2> QED
    BY <2>2, <2>3, <2>4, <1>1
<1>3. tvram' = [a \in Cells |-> IF a \in from..to THEN "blank" ELSE tvram[a]]
  BY DEF ClearToLineEnd
<1> HIDE DEF from, to
<1>4. ASSUME NEW x \in Column
      PROVE  Row(tvram', y)[x] = IF y = cursorY /\ x >= cursorX THEN "blank" ELSE Row(tvram, y)[x]
  <2>1. tvram'[CHARV(x, y)] = IF y = cursorY /\ x >= cursorX THEN "blank" ELSE tvram[CHARV(x, y)]
    BY <1>1, <1>2, <1>3, Place
  <2> QED
    BY <2>1 DEF Row
<1>5. \A x \in Column : x >= cursorX <=> ~(x < cursorX)
  BY <1>1 DEF Column
<1>6. CASE y = cursorY
  BY <1>4, <1>5, <1>6 DEF Row
<1>7. CASE y # cursorY
  BY <1>4, <1>7 DEF Row
<1> QED
  BY <1>6, <1>7

\* It is the same on paper.
LEMMA ClearToLineEndStep ==
    ASSUME IInv, NEW c, ClearToLineEnd(c)
    PROVE  Kept
<1>1. /\ UNCHANGED <<cursorX, cursorY, gone, astray, escape_digit>>
      /\ tvram' \in Memory
  <2>1. tvram \in Memory
    BY DEF IInv, Types
  <2> QED
    BY <2>1 DEF ClearToLineEnd, Memory, Content
<1>2. Types'
  BY <1>1 DEF IInv, Types
<1>3. CASE astray
  BY <1>1, <1>2, <1>3, Lost DEF Kept, IInv, Intact
<1>4. CASE ~astray
  <2>1. cursorX \in Column /\ EmptyBelow(tvram, cursorY)
    BY <1>4 DEF IInv, Intact
  <2> DEFINE cut == [x \in Column |-> IF x < cursorX THEN Row(tvram, cursorY)[x] ELSE "blank"]
             old == Roll(gone, Page)
             next == [tvram |-> tvram', x |-> cursorX, y |-> cursorY]
  <2>2. \A y \in 0..(TEXTHEIGHT - 1) : Row(tvram', y) = IF y = cursorY THEN cut ELSE Row(tvram, y)
    BY <2>1, ClearedRows
  <2>3. cut \in Line
    <3>1. Row(tvram, cursorY) \in Line
      BY PaperState, RowType, ScreenSize
    <3> QED
      BY <3>1 DEF Line, Content
  <2> HIDE DEF cut
  <2>4. EmptyBelow(tvram', cursorY')
    <3> SUFFICES ASSUME NEW y \in (cursorY + 1)..(TEXTHEIGHT - 1)
                 PROVE  Row(tvram', y) = EmptyLine
      BY <1>1 DEF EmptyBelow
    <3>1. y \in 0..(TEXTHEIGHT - 1) /\ y # cursorY
      BY PaperState, ScreenSize
    <3> QED
      BY <3>1, <2>1, <2>2 DEF EmptyBelow
  <2>5. next \in Pages /\ next.y = cursorY /\ next.tvram = tvram' /\ next.y < TEXTHEIGHT
    BY <1>1, PaperState, ScreenSize DEF IInv, Types, Pages
  <2> HIDE DEF next
  <2>6. Roll(gone', next) = gone' \o [y \in 1..(cursorY' + 1) |-> Row(tvram', y - 1)]
    BY <1>1, <2>5, RollOnScreen
  <2>7. /\ old \in Seq(Line) /\ Len(old) = Len(gone) + cursorY + 1 /\ Len(gone) \in Nat
        /\ \A i \in 1..(Len(gone) + cursorY + 1) :
             old[i] = IF i <= Len(gone) THEN gone[i] ELSE Shown(Page, i - Len(gone))
    BY PaperState, RollType
  <2>8. /\ Roll(gone, next) \in Seq(Line) /\ Len(Roll(gone, next)) = Len(gone) + cursorY + 1
        /\ \A i \in 1..(Len(gone) + cursorY + 1) :
             Roll(gone, next)[i] = IF i <= Len(gone) THEN gone[i] ELSE Shown(next, i - Len(gone))
    BY <2>5, PaperState, RollType
  <2>9. old[Len(old)] = Row(tvram, cursorY)
    <3>1. /\ Len(old) \in 1..(Len(gone) + cursorY + 1) /\ ~(Len(old) <= Len(gone))
          /\ Len(old) - Len(gone) = cursorY + 1 /\ ~(cursorY + 1 > TEXTHEIGHT)
          /\ (cursorY + 1) - 1 = cursorY
      BY <2>7, PaperState, ScreenSize
    <3> QED
      BY <3>1, <2>7, PaperState DEF Shown
  <2> HIDE DEF old
  <2>10. [old EXCEPT ![Len(old)] = [x \in Column |-> IF x < cursorX THEN @[x] ELSE "blank"]]
           = [old EXCEPT ![Len(old)] = cut]
    BY <2>9 DEF cut
  <2>11. /\ [old EXCEPT ![Len(old)] = cut] \in Seq(Line)
         /\ Len([old EXCEPT ![Len(old)] = cut]) = Len(old)
         /\ \A i \in 1..Len(old) :
              [old EXCEPT ![Len(old)] = cut][i] = IF i = Len(old) THEN cut ELSE old[i]
    <3>1. Len(old) \in 1..Len(old)
      BY <2>7, PaperState
    <3> QED
      BY <3>1, <2>3, <2>7, ExceptSeq
  <2>12. ASSUME NEW i \in 1..Len(old)
         PROVE  [old EXCEPT ![Len(old)] = cut][i] = Roll(gone, next)[i]
    <3>0. i \in 1..(Len(gone) + cursorY + 1)
      BY <2>7
    <3>1. CASE i <= Len(gone)
      <4>1. i # Len(old)
        BY <3>1, <2>7, PaperState
      <4> QED
        BY <3>0, <3>1, <4>1, <2>7, <2>8, <2>11
    <3>2. CASE ~(i <= Len(gone))
      <4> DEFINE y == i - Len(gone) - 1
      <4>1. y \in 0..(TEXTHEIGHT - 1) /\ (y = cursorY <=> i = Len(old)) /\ i - Len(gone) = y + 1
        BY <3>0, <3>2, <2>7, PaperState, ScreenSize
      <4>2. ~(i - Len(gone) > TEXTHEIGHT)
        BY <4>1, ScreenSize
      <4> HIDE DEF y
      <4>3. Roll(gone, next)[i] = Row(tvram', y) /\ old[i] = Row(tvram, y)
        BY <3>0, <3>2, <4>2, <2>5, <2>7, <2>8, PaperState DEF Shown, y
      <4> QED
        BY <4>1, <4>3, <2>2, <2>11
    <3> QED
      BY <3>1, <3>2
  <2>13. [old EXCEPT ![Len(old)] = cut] = Roll(gone, next)
    BY <2>7, <2>8, <2>11, <2>12, SeqEqual
  <2>14. Paper!ClearToLineEnd
    BY <1>1, <2>6, <2>10, <2>13, PaperState DEF Paper!ClearToLineEnd, old
  <2> QED
    BY <1>1, <1>2, <1>4, <2>1, <2>4, <2>14 DEF Kept, IInv, Intact, Paper!PNext, Paper!Intact
<1> QED
  BY <1>3, <1>4

\* A cleared screen is a new roll, whatever was lost before.
LEMMA ClearStep ==
    ASSUME IInv, console_clear
    PROVE  Kept
<1>1. /\ cursorX' = 0 /\ cursorY' = 0 /\ gone' = <<>> /\ astray' = FALSE
      /\ escape_digit' = escape_digit
      /\ tvram' = [a \in Cells |-> IF a < TEXTHEIGHT * TVRAM_STRIDE THEN "blank" ELSE tvram[a]]
  BY DEF console_clear
<1>2. tvram' \in Memory
  BY <1>1 DEF IInv, Types, Memory, Content
<1>3. 0 \in Column /\ 0 \in 0..(Modulus - 1) /\ 0 \in 0..(TEXTHEIGHT - 1)
  BY ScreenSize DEF Column
<1>4. Types'
  BY <1>1, <1>2, <1>3, EmptySeq DEF IInv, Types
<1>5. ASSUME NEW y \in 0..(TEXTHEIGHT - 1)
      PROVE  Row(tvram', y) = EmptyLine
  <2>1. ASSUME NEW x \in Column
        PROVE  tvram'[CHARV(x, y)] = "blank"
    <3>1. y \in 0..TEXTHEIGHT /\ TEXTHEIGHT \in 0..TEXTHEIGHT /\ ~(TEXTHEIGHT <= y)
      BY ScreenSize
    <3>2. CHARV(x, y) \in Cells /\ ~(TEXTHEIGHT * TVRAM_STRIDE <= CHARV(x, y))
      BY <3>1, Place, PlaceOrder
    <3>3. CHARV(x, y) < TEXTHEIGHT * TVRAM_STRIDE
      <4>1. CHARV(x, y) \in Int /\ TEXTHEIGHT * TVRAM_STRIDE \in Int
        BY <3>2, ScreenSize DEF Cells
      <4> QED
        BY <4>1, <3>2
    <3> QED
      BY <3>2, <3>3, <1>1
  <2> QED
    BY <2>1 DEF Row, EmptyLine
<1>6. EmptyBelow(tvram', cursorY')
  <2>1. \A y \in (cursorY' + 1)..(TEXTHEIGHT - 1) : y \in 0..(TEXTHEIGHT - 1)
    BY <1>1, ScreenSize
  <2> QED
    BY <2>1, <1>5 DEF EmptyBelow
<1>7. gone' \o [y \in 1..(cursorY' + 1) |-> Row(tvram', y - 1)] = <<EmptyLine>>
  <2>1. Row(tvram', 0) = EmptyLine
    BY <1>3, <1>5
  <2>2. [y \in 1..(cursorY' + 1) |-> Row(tvram', y - 1)] = [y \in 1..1 |-> EmptyLine]
    BY <1>1, <2>1
  <2>3. [y \in 1..1 |-> EmptyLine] = <<EmptyLine>>
    OBVIOUS
  <2>4. <<EmptyLine>> \in Seq({EmptyLine})
    OBVIOUS
  <2> QED
    BY <1>1, <2>2, <2>3, <2>4, ConcatEmptySeq
<1>8. Paper!Clear
  BY <1>1, <1>7, PaperState DEF Paper!Clear
<1> QED
  BY <1>1, <1>3, <1>4, <1>6, <1>8 DEF Kept, IInv, Intact, Paper!PNext

\* The bytes inside a sequence that print nothing leave the screen alone.
LEMMA QuietStep ==
    ASSUME IInv, UNCHANGED screen, escape_digit' \in Nat
    PROVE  Kept
<1>1. UNCHANGED <<tvram, cursorX, cursorY, gone, astray>>
  BY DEF screen
<1> QED
  BY <1>1 DEF Kept, IInv, Types, Intact, Paper!pvars

\* Every character keeps the invariant and the promise.
LEMMA PutcStep ==
    ASSUME IInv, NEW c, Plain => c \in Chars, console_putc(c)
    PROVE  Kept
<1>0. escape_digit \in Nat
  BY DEF IInv, Types
<1>1. CASE Put(c)
  BY <1>1, PutStep DEF Put
<1>2. CASE LineFeed(c)
  BY <1>2, LineFeedStep
<1>3. CASE Return(c) \/ Backspace(c) \/ MoveLeft(c)
  BY <1>3, CursorSteps
<1>4. CASE ReportControl(c)
  BY <1>4, ReportStep DEF ReportControl
<1>5. CASE ReportSequence(c)
  BY <1>5, ReportStep DEF ReportSequence
<1>6. CASE Escape(c)
  BY <1>6, QuietStep DEF Escape
<1>7. CASE AfterEscape(c)
  BY <1>0, <1>7, QuietStep DEF AfterEscape
<1>8. CASE TakeDigit(c)
  <2>1. Digit[c] \in 0..9 /\ escape_digit' = escape_digit * 10 + Digit[c]
    BY <1>8, CharSets DEF TakeDigit
  <2> QED
    BY <1>0, <1>8, <2>1, QuietStep DEF TakeDigit
<1>9. CASE NoMove(c)
  BY <1>0, <1>9, QuietStep DEF NoMove
<1>10. CASE ClearToLineEnd(c)
  BY <1>10, ClearToLineEndStep
<1> QED
  BY <1>1, <1>2, <1>3, <1>4, <1>5, <1>6, <1>7, <1>8, <1>9, <1>10 DEF console_putc

\* Every step does.
LEMMA NextStep ==
    ASSUME IInv, [Next]_vars
    PROVE  Kept
<1>1. CASE \E c \in IF Plain THEN Chars ELSE SequenceChars : console_putc(c)
  <2>1. PICK c \in IF Plain THEN Chars ELSE SequenceChars : console_putc(c)
    BY <1>1
  <2>2. Plain => c \in Chars
    OBVIOUS
  <2> QED
    BY <2>1, <2>2, PutcStep
<1>2. CASE console_scroll
  BY <1>2, ScrollStep
<1>3. CASE console_clear
  BY <1>3, ClearStep
<1>4. CASE UNCHANGED vars
  BY <1>4, QuietStep DEF vars, IInv, Types
<1> QED
  BY <1>1, <1>2, <1>3, <1>4 DEF Next

\* At power-up the screen is one empty line of paper.
LEMMA InitIInv ==
    ASSUME Init
    PROVE  IInv /\ Paper!PInit
<1>1. /\ cursorX = 0 /\ cursorY = 0 /\ escape_digit = 0 /\ gone = <<>> /\ astray = FALSE
      /\ tvram = [a \in Cells |-> "blank"]
  BY DEF Init
<1>2. 0 \in Column /\ 0 \in 0..(Modulus - 1) /\ 0 \in 0..(TEXTHEIGHT - 1)
  BY ScreenSize DEF Column
<1>3. Types
  BY <1>1, <1>2, EmptySeq DEF Types, Memory, Content
<1>4. \A y \in 0..TEXTHEIGHT : Row(tvram, y) = EmptyLine
  BY <1>1, Place DEF Row, EmptyLine
<1>5. Intact
  <2>1. \A y \in (cursorY + 1)..(TEXTHEIGHT - 1) : y \in 0..TEXTHEIGHT
    BY <1>1, ScreenSize
  <2> QED
    BY <2>1, <1>1, <1>2, <1>4 DEF Intact, EmptyBelow
<1>6. gone \o [y \in 1..(cursorY + 1) |-> Row(tvram, y - 1)] = <<EmptyLine>>
  <2>1. Row(tvram, 0) = EmptyLine
    BY <1>4, ScreenSize
  <2>2. [y \in 1..(cursorY + 1) |-> Row(tvram, y - 1)] = [y \in 1..1 |-> EmptyLine]
    BY <1>1, <2>1
  <2>3. [y \in 1..1 |-> EmptyLine] = <<EmptyLine>>
    OBVIOUS
  <2>4. <<EmptyLine>> \in Seq({EmptyLine})
    OBVIOUS
  <2> QED
    BY <1>1, <2>2, <2>3, <2>4, ConcatEmptySeq
<1>7. IInv
  BY <1>3, <1>5 DEF IInv
<1> QED
  BY <1>1, <1>6, <1>7, PaperState DEF Paper!PInit

-----------------------------------------------------------------------------
\* Theorems.

\* The inductive invariant: typed, and nothing below the cursor until the promise is lost.
THEOREM Inductive == Spec => []IInv
<1>1. Init => IInv
  BY InitIInv
<1>2. IInv /\ [Next]_vars => IInv'
  BY NextStep DEF Kept
<1> QED
  BY <1>1, <1>2, PTL DEF Spec

\* The cursor never leaves the rows of the screen, and its column only by ESC [ D at
\* the margin or a report past the bottom: wrapping, scrolling, reports and sequences
\* of console_putc in any order keep it there, on a screen of any size.
THEOREM CursorStays == Spec => []CursorOnScreen
<1>1. IInv => CursorOnScreen
  BY DEF IInv, Types, Intact, CursorOnScreen
<1> QED
  BY <1>1, Inductive, PTL

\* The screen shows the end of the paper: each call is one operation of Paper, a scroll
\* loses no line and every line that comes up is empty.
THEOREM ShowsThePaper == Spec => Implements
<1>1. Init => Paper!PInit
  BY InitIInv
<1>2. IInv /\ [Next]_vars => [Paper!PNext]_Paper!pvars
  BY NextStep DEF Kept
<1> QED
  BY <1>1, <1>2, Inductive, PTL DEF Spec, Implements, Paper!Printing
=============================================================================
