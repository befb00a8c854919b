---------------------------- MODULE MonitorProofs ----------------------------
(***************************************************************************)
(* Proofs about Monitor.tla, for every size of the line and of records,    *)
(* every translation to capitals, every set of commands and files, and     *)
(* whatever keys arrive or are lost: the terminal shows the line the       *)
(* monitor will act on, the line is written past its end by a line or a    *)
(* record too long only, what the two loaders have in memory is what the   *)
(* HEX file says, and a dump, a fill and a set command do to memory what   *)
(* the line typed says.                                                    *)
(***************************************************************************)
EXTENDS Monitor, SequenceTheorems, FiniteSetTheorems, WellFoundedInduction, TLAPS

Array(f, n) == f = [i \in 1..n |-> f[i]]

\* What getline and the loader count, and the line and its picture as arrays.
Counts ==
    /\ ct \in 0..LINE /\ cursor \in Nat /\ len \in Nat
    /\ Array(line, Room)
    /\ \E n \in Nat : Array(echo, n)

\* Between getlines nothing of the picture matters; while one runs it is the line.
IInv == Counts /\ EchoShowsLine /\ OverrunByLong

-----------------------------------------------------------------------------
\* Arrays.

LEMMA Longer ==
    ASSUME NEW n \in Nat, NEW f, Array(f, n), NEW c
    PROVE  /\ Len(f) = n /\ DOMAIN f = 1..n
           /\ Append(f, c) = [i \in 1..(n + 1) |-> IF i = n + 1 THEN c ELSE f[i]]
<1> DEFINE S == {f[i] : i \in 1..n} \cup {c}
<1>1. f \in [1..n -> S]
  BY DEF Array
<1>2. f \in Seq(S) /\ Len(f) = n /\ DOMAIN f = 1..n
  BY <1>1
<1>3. /\ Append(f, c) \in Seq(S) /\ Len(Append(f, c)) = n + 1 /\ Append(f, c)[n + 1] = c
      /\ \A i \in 1..n : Append(f, c)[i] = f[i]
  BY <1>2
<1>4. Append(f, c) \in [1..(n + 1) -> S]
  BY <1>3, LenProperties
<1> HIDE DEF S
<1>5. Append(f, c) = [i \in 1..(n + 1) |-> Append(f, c)[i]]
  BY <1>4
<1>6. \A i \in 1..(n + 1) : Append(f, c)[i] = IF i = n + 1 THEN c ELSE f[i]
  BY <1>3
<1> QED
  BY <1>2, <1>5, <1>6

\* The line has room for all that getline and f_read put into it.
LEMMA Rooms == LINE \in Nat /\ Room \in Nat /\ LINE <= Room /\ LINE > 1
BY MonitorSizes DEF Room

-----------------------------------------------------------------------------
\* Steps that leave getline's picture alone, and those that begin a line.

LEMMA NewLine ==
    ASSUME Counts, Return, Array(line', Room)
    PROVE  IInv'
<1>1. ct' = 0 /\ cursor' = 0 /\ len' = 0 /\ echo' = <<>> /\ pc' = "getline"
  BY DEF Return
<1>2. Array(echo', 0) /\ Len(echo') = 0 /\ DOMAIN echo' = {}
  BY <1>1 DEF Array
<1> QED
  BY <1>1, <1>2, Rooms DEF IInv, Counts, EchoShowsLine, OverrunByLong

LEMMA NewPrompt ==
    ASSUME IInv, Prompt
    PROVE  IInv'
BY NewLine DEF IInv, Counts, Prompt

\* What EchoShowsLine says, of any line and picture.
Shows(e, l, k, cur) ==
    /\ cur = k /\ Len(e) >= k
    /\ \A i \in DOMAIN e : IF i <= k THEN ToUpper(e[i]) = l[i] ELSE e[i] = " "

\* The step leaves the line alone, or getline.
LEMMA Stays ==
    ASSUME IInv, UNCHANGED <<line, ct, echo, cursor, len>>,
           pc' = pc \/ pc' \notin {"getline", "overrun"}
    PROVE  IInv'
<1>1. Counts'
  BY DEF IInv, Counts, Array
<1>2. EchoShowsLine'
  BY DEF IInv, EchoShowsLine, ToUpper
<1>3. OverrunByLong'
  BY DEF IInv, OverrunByLong
<1> QED
  BY <1>1, <1>2, <1>3 DEF IInv

-----------------------------------------------------------------------------
\* getline.

LEMMA ErasedIs ==
    ASSUME IInv, pc = "getline", NEW n \in 0..ct
    PROVE  /\ Shows(Erased(n), line, ct - n, cursor - n)
           /\ \E m \in Nat : Array(Erased(n), m)
<1>1. PICK m \in Nat : Array(echo, m)
  BY DEF IInv, Counts
<1>2. Len(echo) = m /\ DOMAIN echo = 1..m
  BY <1>1, Longer
<1>3. cursor = ct /\ m >= ct /\ ct \in Nat
  BY <1>2, Rooms DEF IInv, Counts, EchoShowsLine
<1>4. Erased(n) = [i \in 1..m |-> IF i \in (ct - n + 1)..ct THEN " " ELSE echo[i]]
  BY <1>2, <1>3 DEF Erased
<1>5. Array(Erased(n), m)
  BY <1>4 DEF Array
<1>6. Len(Erased(n)) = m /\ DOMAIN Erased(n) = 1..m
  BY <1>5, Longer
<1>7. ASSUME NEW i \in 1..m
      PROVE  IF i <= ct - n THEN ToUpper(Erased(n)[i]) = line[i] ELSE Erased(n)[i] = " "
  <2>1. IF i <= ct THEN ToUpper(echo[i]) = line[i] ELSE echo[i] = " "
    BY <1>2 DEF IInv, EchoShowsLine
  <2>2. Erased(n)[i] = IF i \in (ct - n + 1)..ct THEN " " ELSE echo[i]
    BY <1>4
  <2>3. CASE i <= ct - n
    <3>1. i <= ct /\ i \notin (ct - n + 1)..ct
      BY <1>3, <2>3
    <3> QED
      BY <2>1, <2>2, <2>3, <3>1
  <2>4. CASE ~(i <= ct - n)
    <3>1. i <= ct => i \in (ct - n + 1)..ct
      BY <1>3, <2>4
    <3> QED
      BY <2>1, <2>2, <2>4, <3>1
  <2> QED
    BY <2>3, <2>4
<1>8. cursor - n = ct - n /\ m >= ct - n
  BY <1>3
<1> QED
  BY <1>5, <1>6, <1>7, <1>8 DEF Shows

LEMMA Erases ==
    ASSUME IInv, Backspace \/ Kill
    PROVE  IInv'
<1>1. pc = "getline" /\ ct \in 0..LINE /\ cursor = ct /\ LINE \in Nat
  BY Rooms DEF Backspace, Kill, IInv, Counts, EchoShowsLine
<1>2. UNCHANGED <<pc, line, len>>
  BY DEF Backspace, Kill, locals, fileVars
<1>3. CASE ct = 0 /\ Backspace
  BY <1>2, <1>3, Stays DEF Backspace
<1>4. CASE ~(ct = 0 /\ Backspace)
  <2>1. PICK n \in 0..ct : ct' = ct - n /\ echo' = Erased(n) /\ cursor' = cursor - n
    <3>1. CASE Backspace
      BY <1>1, <1>4, <3>1 DEF Backspace
    <3>2. CASE Kill
      BY <1>1, <3>2 DEF Kill
    <3> QED
      BY <3>1, <3>2
  <2>2. Shows(echo', line', ct', cursor') /\ \E m \in Nat : Array(echo', m)
    BY <1>1, <1>2, <2>1, ErasedIs
  <2>3. Counts'
    BY <1>1, <1>2, <2>1, <2>2 DEF IInv, Counts
  <2>4. EchoShowsLine'
    BY <2>2 DEF Shows, EchoShowsLine
  <2>5. OverrunByLong'
    BY <1>1, <1>2 DEF OverrunByLong
  <2> QED
    BY <2>3, <2>4, <2>5 DEF IInv
<1> QED
  BY <1>3, <1>4

\* The key goes to the same place of both.
LEMMA TypedShows ==
    ASSUME IInv, pc = "getline", ct < LINE, NEW c,
           line' = [line EXCEPT ![ct + 1] = ToUpper(c)], ct' = ct + 1, cursor' = cursor + 1,
           echo' = IF cursor < Len(echo) THEN [echo EXCEPT ![cursor + 1] = c] ELSE Append(echo, c)
    PROVE  Array(line', Room) /\ Shows(echo', line', ct', cursor') /\ \E n \in Nat : Array(echo', n)
<1>1. PICK n \in Nat : Array(echo, n)
  BY DEF IInv, Counts
<1>2. Len(echo) = n /\ DOMAIN echo = 1..n
  BY <1>1, Longer
<1>3. cursor = ct /\ n >= ct /\ ct \in Nat
  BY <1>2, Rooms DEF IInv, Counts, EchoShowsLine
<1>4. Array(line, Room) /\ ct + 1 \in 1..Room
  BY <1>3, Rooms DEF IInv, Counts
<1>5. line' = [i \in 1..Room |-> IF i = ct + 1 THEN ToUpper(c) ELSE line[i]]
  BY <1>4 DEF Array
<1>6. PICK m \in Nat : /\ m >= ct + 1
                       /\ echo' = [i \in 1..m |-> IF i = ct + 1 THEN c ELSE echo[i]]
                       /\ \A i \in 1..m : i # ct + 1 => i \in 1..n
  <2>1. CASE ct < n
    <3>2. ct + 1 \in 1..n /\ cursor < Len(echo)
      BY <1>2, <1>3, <2>1
    <3>1. echo' = [i \in 1..n |-> IF i = ct + 1 THEN c ELSE echo[i]]
      BY <1>1, <1>3, <3>2 DEF Array
    <3>3. n >= ct + 1
      BY <1>3, <2>1
    <3> WITNESS n \in Nat
    <3> QED
      BY <3>1, <3>3
  <2>2. CASE ct = n
    <3>1. echo' = [i \in 1..(n + 1) |-> IF i = n + 1 THEN c ELSE echo[i]]
      BY <1>1, <1>2, <1>3, <2>2, Longer
    <3>2. n + 1 \in Nat /\ n + 1 >= ct + 1 /\ \A i \in 1..(n + 1) : i # ct + 1 => i \in 1..n
      BY <2>2
    <3>3. echo' = [i \in 1..(n + 1) |-> IF i = ct + 1 THEN c ELSE echo[i]]
      BY <2>2, <3>1
    <3> QED
      BY <3>2, <3>3
  <2>3. ct < n \/ ct = n
    BY <1>3
  <2> QED
    BY <2>1, <2>2, <2>3
<1>7. Array(line', Room) /\ Array(echo', m)
  BY <1>5, <1>6 DEF Array
<1>8. Len(echo') = m /\ DOMAIN echo' = 1..m
  BY <1>7, Longer
<1>9. ASSUME NEW i \in 1..m
      PROVE  IF i <= ct + 1 THEN ToUpper(echo'[i]) = line'[i] ELSE echo'[i] = " "
  <2>1. CASE i = ct + 1
    <3>1. echo'[i] = c /\ line'[i] = ToUpper(c)
      BY <1>4, <1>5, <1>6, <2>1
    <3>2. i <= ct + 1
      BY <1>3, <2>1
    <3> QED
      BY <3>1, <3>2
  <2>2. CASE i # ct + 1
    <3>1. i \in 1..n /\ echo'[i] = echo[i]
      BY <1>6, <2>2
    <3>2. IF i <= ct THEN ToUpper(echo[i]) = line[i] ELSE echo[i] = " "
      BY <1>2, <3>1 DEF IInv, EchoShowsLine
    <3>3. i <= ct => line'[i] = line[i]
      BY <1>3, <1>4, <1>5, <2>2
    <3>4. i <= ct <=> i <= ct + 1
      BY <1>3, <2>2
    <3> QED
      BY <3>1, <3>2, <3>3, <3>4
  <2> QED
    BY <2>1, <2>2
<1> QED
  BY <1>3, <1>6, <1>7, <1>8, <1>9 DEF Shows

LEMMA Types ==
    ASSUME IInv, Typed
    PROVE  IInv'
<1>1. pc = "getline" /\ len' = len /\ ct \in 0..LINE /\ LINE \in Nat
  BY Rooms DEF Typed, locals, fileVars, IInv, Counts
<1>2. CASE ct = LINE
  <2>1. pc' = "overrun" /\ UNCHANGED <<line, ct, echo, cursor, len>>
    BY <1>1, <1>2 DEF Typed, editVars
  <2> QED
    BY <1>2, <2>1 DEF IInv, Counts, Array, EchoShowsLine, OverrunByLong
<1>3. CASE ct # LINE
  <2>1. PICK c : /\ line' = [line EXCEPT ![ct + 1] = ToUpper(c)]
                 /\ ct' = ct + 1 /\ cursor' = cursor + 1 /\ pc' = pc
                 /\ echo' = IF cursor < Len(echo) THEN [echo EXCEPT ![cursor + 1] = c]
                                                  ELSE Append(echo, c)
    BY <1>3 DEF Typed
  <2>6. ct < LINE
    BY <1>1, <1>3
  <2>2. Array(line', Room) /\ Shows(echo', line', ct', cursor') /\ \E n \in Nat : Array(echo', n)
    BY <1>1, <2>1, <2>6, TypedShows, ZenonT(20)
  <2>3. Counts'
    BY <1>1, <1>3, <2>1, <2>2 DEF IInv, Counts
  <2>4. EchoShowsLine'
    BY <2>2 DEF Shows, EchoShowsLine
  <2>5. OverrunByLong'
    BY <1>1, <2>1 DEF OverrunByLong
  <2> QED
    BY <2>3, <2>4, <2>5 DEF IInv
<1> QED
  BY <1>2, <1>3

LEMMA Enters ==
    ASSUME IInv, Enter
    PROVE  IInv'
<1>1. pc = "getline" /\ UNCHANGED <<ct, echo, cursor, len>> /\ ct \in 0..LINE /\ LINE <= Room
  BY Rooms DEF Enter, locals, fileVars, IInv, Counts
<1>2. ct = LINE => pc' = "overrun" /\ line' = line
  BY DEF Enter
<1>3. ct # LINE => pc' \in {"reply", "dispatch"} /\ line' = [line EXCEPT ![ct + 1] = NUL]
  BY DEF Enter
<1>4. Counts'
  BY <1>1, <1>2, <1>3 DEF IInv, Counts, Array
<1> QED
  BY <1>1, <1>2, <1>3, <1>4 DEF IInv, EchoShowsLine, OverrunByLong

-----------------------------------------------------------------------------
\* The commands and the loaders.

LEMMA Asks ==
    ASSUME IInv, NEW a, AskAt(a)
    PROVE  IInv'
<1>1. /\ ct' = 0 /\ cursor' = 0 /\ len' = len /\ echo' = <<>> /\ pc' = "getline"
      /\ line' = line
  BY DEF AskAt, fileVars
<1>2. Array(echo', 0) /\ Len(echo') = 0 /\ DOMAIN echo' = {}
  BY <1>1 DEF Array
<1>3. Array(line', Room)
  BY <1>1 DEF IInv, Counts, Array
<1>4. Counts'
  BY <1>1, <1>2, <1>3, Rooms DEF IInv, Counts
<1>5. EchoShowsLine' /\ OverrunByLong'
  BY <1>1, <1>2 DEF EchoShowsLine, OverrunByLong
<1> QED
  BY <1>4, <1>5 DEF IInv

LEMMA ActsOnCommands ==
    ASSUME IInv, Commanding \/ ProgramReturns
    PROVE  IInv'
<1> USE DEF editVars, fileVars, locals, dumpVars
<1>1. CASE Nothing \/ DumpBreak \/ DumpEnd \/ AnswerEnds \/ xfill \/ TpTestEnds \/ ProgramReturns
  BY <1>1, NewPrompt DEF Nothing, DumpBreak, DumpEnd, AnswerEnds, xfill, TpTestEnds, ProgramReturns
<1>2. CASE xdump
  <2>1. Prompt \/ (pc' = "dump" /\ UNCHANGED <<editVars, fileVars>>)
    BY <1>2 DEF xdump
  <2> QED
    BY <2>1, NewPrompt, Stays
<1>3. CASE DumpRow \/ xgo \/ xtptest
  <2>1. (pc' = pc \/ pc' \in {"program", "tptest"}) /\ UNCHANGED <<editVars, fileVars>>
    BY <1>3 DEF DumpRow, xgo, xtptest
  <2> QED
    BY <2>1, Stays
<1>4. CASE xsubst \/ AnswerMoves \/ AnswerStores
  <2>1. Prompt \/ \E a : AskAt(a)
    BY <1>4 DEF xsubst, AnswerMoves, AnswerStores
  <2> QED
    BY <2>1, NewPrompt, Asks
<1> QED
  BY <1>1, <1>2, <1>3, <1>4 DEF Commanding

LEMMA Receives ==
    ASSUME IInv, Receiving
    PROVE  IInv'
<1> USE DEF editVars, fileVars, readKeeps, dumpVars
<1>1. CASE HeaderByte \/ SumByte
  <2>1. pc = "record"
    BY <1>1 DEF HeaderByte, SumByte, ByteComes
  <2>2. Prompt \/ (pc' \in {"record", "colon"} /\ UNCHANGED <<editVars, fileVars>>)
    BY <1>1, <2>1 DEF HeaderByte, SumByte
  <2> QED
    BY <2>2, NewPrompt, Stays
<1>2. CASE xread \/ Colon \/ HalfByte \/ SegmentByte \/ DataByte
  <2>1. (pc' = pc \/ pc' \in {"record", "colon"}) /\ UNCHANGED <<editVars, fileVars>>
    BY <1>2 DEF xread, Colon, HalfByte, SegmentByte, DataByte
  <2> QED
    BY <2>1, Stays
<1> QED
  BY <1>1, <1>2 DEF Receiving

\* f_read puts what comes at the beginning of the line.
LEMMA ReadIn ==
    ASSUME NEW n, NEW rc, f_read(n, rc)
    PROVE  Array(line', Room)
BY DEF f_read, Array

LEMMA Loads ==
    ASSUME IInv, Loading
    PROVE  IInv'
<1> USE DEF editVars, fileVars, dumpVars, readVars, locals
<1>1. CASE xsdread
  <2>1. Prompt \/ (pc' = "file" /\ UNCHANGED <<editVars, len>>)
    BY <1>1 DEF xsdread
  <2> QED
    BY <2>1, NewPrompt, Stays
<1>2. ASSUME Array(line', Room), Return PROVE IInv'
  BY <1>2, NewLine DEF IInv
<1>3. ASSUME Array(line', Room), UNCHANGED <<ct, echo, cursor>>, len' \in Nat,
             pc' \in {"file", "length", "rest"}
      PROVE  IInv'
  BY <1>3 DEF IInv, Counts, EchoShowsLine, OverrunByLong
<1>4. len \in Nat
  BY DEF IInv, Counts
<1>5. CASE GetStart
  <2>1. Array(line', Room)
    BY <1>5, ReadIn DEF GetStart
  <2>2. Return \/ (pc' \in {"file", "length"} /\ UNCHANGED <<ct, echo, cursor, len>>)
    BY <1>5 DEF GetStart, GoOn
  <2> QED
    BY <1>2, <1>3, <1>4, <2>1, <2>2
<1>6. CASE GetLength
  <2>1. Array(line', Room)
    BY <1>6, ReadIn DEF GetLength
  <2>2. Return \/ (pc' = "rest" /\ UNCHANGED <<ct, echo, cursor>> /\ len' \in 1..LEN)
    BY <1>6 DEF GetLength, GoOn
  <2>3. len' \in 1..LEN => len' \in Nat
    BY MonitorSizes
  <2> QED
    BY <1>2, <1>3, <2>1, <2>2, <2>3
<1>7. CASE GetRecord
  <2>1. Array(line', Room)
    BY <1>7, ReadIn DEF GetRecord
  <2>2. PICK rc \in 0..RestOf(len) :
            \/ rc > LINE /\ pc' = "overrun" /\ UNCHANGED <<ct, echo, cursor, len>>
            \/ Return
            \/ pc' = "file" /\ UNCHANGED <<ct, echo, cursor, len>>
    BY <1>7 DEF GetRecord, GoOn
  <2>3. CASE rc > LINE /\ pc' = "overrun" /\ UNCHANGED <<ct, echo, cursor, len>>
    <3>1. 2 * len + 8 > LINE
      BY <1>4, <2>3, Rooms DEF RestOf
    <3> QED
      BY <2>1, <2>3, <3>1 DEF IInv, Counts, EchoShowsLine, OverrunByLong
  <2> QED
    BY <1>2, <1>3, <1>4, <2>1, <2>2, <2>3
<1> QED
  BY <1>1, <1>5, <1>6, <1>7 DEF Loading

-----------------------------------------------------------------------------
\* The theorems.

LEMMA Starts == Init => IInv
<1> SUFFICES ASSUME Init
             PROVE  IInv
  OBVIOUS
<1>1. Array(line, Room) /\ Array(echo, 0) /\ Len(echo) = 0 /\ DOMAIN echo = {}
  BY DEF Init, Array
<1> QED
  BY <1>1, Rooms DEF Init, IInv, Counts, EchoShowsLine, OverrunByLong

LEMMA NextIInv == IInv /\ [Next]_vars => IInv'
<1> SUFFICES ASSUME IInv, [Next]_vars
             PROVE  IInv'
  OBVIOUS
<1>1. CASE UNCHANGED vars \/ Begin \/ Press \/ Ignored
  <2>1. pc' = pc /\ UNCHANGED <<line, ct, echo, cursor, len>>
    BY <1>1 DEF vars, Begin, Press, Ignored, editVars, locals, fileVars
  <2> QED
    BY <2>1, Stays
<1> QED
  BY <1>1, Erases, Types, Enters, ActsOnCommands, Receives, Loads DEF Next, Editing

\* The inductive invariant of the monitor: the counts of getline and of the loader,
\* and the two properties below.
THEOREM Inductive == Spec => []IInv
BY Starts, NextIInv, PTL DEF Spec

\* Whatever was typed, rubbed out and typed again in getline, and with what keys
\* lost, the terminal shows the line that the command or the answer will be read
\* from, and blanks behind it.
THEOREM TerminalShowsLine == Spec => []EchoShowsLine
<1>1. IInv => EchoShowsLine
  BY DEF IInv
<1> QED
  BY <1>1, Inductive, PTL

\* The bytes behind line are written by getline's 81st character or by a record of
\* xsdread too long for it, never by another command or file.
THEOREM OverrunOnlyByLong == Spec => []OverrunByLong
<1>1. IInv => OverrunByLong
  BY DEF IInv
<1> QED
  BY <1>1, Inductive, PTL

-----------------------------------------------------------------------------
\* What the loaders do to a file is defined by recursion along it: numbers and
\* sequences first, by induction.

\* What holds of 0 and of every successor holds of all.
LEMMA Induction ==
    ASSUME NEW S, 0 \in S, \A n \in Nat : n \in S => n + 1 \in S
    PROVE  \A n \in Nat : n \in S
<1> SUFFICES ASSUME Nat \ S # {}
             PROVE  FALSE
  OBVIOUS
<1> DEFINE R == OpToRel(<, Nat)
<1>1. \A a, b \in Nat : a < b => <<a, b>> \in R
  BY DEF OpToRel
<1>2. IsWellFoundedOn(R, Nat)
  BY NatLessThanWellFounded
<1> HIDE DEF R
<1>3. PICK x \in Nat \ S : \A y \in Nat \ S : ~(<<y, x>> \in R)
  BY <1>2, WFMin, Zenon
<1>4. x # 0 /\ x - 1 \in Nat /\ x - 1 < x /\ (x - 1) + 1 = x
  BY <1>3
<1>5. x - 1 \in S
  BY <1>1, <1>3, <1>4
<1> QED
  BY <1>3, <1>4, <1>5

\* A function can be given by its first value and its next ones.
Chain(S, b, g, f) == f \in [Nat -> S] /\ f[0] = b /\ \A n \in Nat : f[n + 1] = g[n][f[n]]

LEMMA Recursion ==
    ASSUME NEW S, NEW b \in S, NEW g \in [Nat -> [S -> S]]
    PROVE  \E f : Chain(S, b, g, f)
<1> DEFINE Good(n, h) == /\ h \in [0..n -> S] /\ h[0] = b
                         /\ \A m \in 0..(n - 1) : h[m + 1] = g[m][h[m]]
           Has == {n \in Nat : \E h : Good(n, h)}
<1>1. \A n \in Nat : n \in Has
  <2>1. 0 \in Has
    <3>1. Good(0, [m \in 0..0 |-> b])
      OBVIOUS
    <3> QED
      BY <3>1
  <2>2. ASSUME NEW n \in Nat, n \in Has
        PROVE  n + 1 \in Has
    <3>1. PICK h : Good(n, h)
      BY <2>2
    <3> DEFINE e == [m \in 0..(n + 1) |-> IF m = n + 1 THEN g[n][h[n]] ELSE h[m]]
    <3>2. h[n] \in S /\ g[n][h[n]] \in S
      BY <3>1
    <3>3. e \in [0..(n + 1) -> S] /\ e[0] = b
      BY <3>1, <3>2
    <3>4. ASSUME NEW m \in 0..n
          PROVE  e[m + 1] = g[m][e[m]]
      <4>1. CASE m = n
        <5>1. e[n + 1] = g[n][h[n]] /\ e[n] = h[n]
          OBVIOUS
        <5> QED
          BY <4>1, <5>1
      <4>2. CASE m # n
        <5>1. m \in 0..(n - 1) /\ m + 1 \in 0..n
          BY <4>2
        <5>2. e[m + 1] = h[m + 1] /\ e[m] = h[m]
          BY <5>1
        <5> QED
          BY <3>1, <5>1, <5>2
      <4> QED
        BY <4>1, <4>2
    <3> HIDE DEF e
    <3>5. Good(n + 1, e)
      BY <3>3, <3>4
    <3> QED
      BY <3>5
  <2> HIDE DEF Has
  <2> QED
    BY <2>1, <2>2, Induction
<1>2. ASSUME NEW n \in Nat, NEW m \in n..(n + 1), NEW h, NEW e, Good(n, h), Good(m, e)
      PROVE  h[n] = e[n]
  <2> DEFINE Same == {k \in Nat : k <= n => h[k] = e[k]}
  <2>1. 0 \in Same
    BY <1>2
  <2>2. ASSUME NEW k \in Nat, k \in Same
        PROVE  k + 1 \in Same
    <3> SUFFICES ASSUME k + 1 <= n
                 PROVE  h[k + 1] = e[k + 1]
      OBVIOUS
    <3>1. h[k] = e[k] /\ k \in 0..(n - 1) /\ k \in 0..(m - 1)
      BY <2>2
    <3> QED
      BY <3>1, <1>2
  <2> HIDE DEF Same
  <2>3. n \in Same
    BY <2>1, <2>2, Induction
  <2> QED
    BY <2>3 DEF Same
<1> DEFINE H == [n \in Nat |-> CHOOSE h : Good(n, h)]
           f == [n \in Nat |-> H[n][n]]
<1>3. \A n \in Nat : Good(n, H[n])
  BY <1>1, Zenon
<1> HIDE DEF H, Has
<1>4. \A n \in Nat : f[n] = H[n][n]
  OBVIOUS
<1>5. f \in [Nat -> S] /\ f[0] = b
  BY <1>3
<1> HIDE DEF f
<1>6. ASSUME NEW n \in Nat
      PROVE  f[n + 1] = g[n][f[n]]
  <2>1. Good(n, H[n]) /\ Good(n + 1, H[n + 1])
    <3> HIDE DEF Good
    <3>1. n + 1 \in Nat
      OBVIOUS
    <3> QED
      BY <1>3, <3>1
  <2>2. H[n][n] = H[n + 1][n]
    <3> HIDE DEF Good
    <3> QED
      BY <1>2, <2>1
  <2>3. H[n + 1][n + 1] = g[n][H[n + 1][n]]
    BY <2>1
  <2> QED
    BY <1>4, <2>2, <2>3
<1> QED
  BY <1>5, <1>6 DEF Chain

\* FlattenSeq puts one piece after the other.
Pieces(T, N, s, h) ==
    /\ h \in [0..N -> Seq(T)] /\ h[0] = <<>> /\ \A i \in 1..N : h[i] = h[i - 1] \o s[i]
    /\ \A n \in 0..N : FlattenSeq([i \in 1..n |-> s[i]]) = h[n]

LEMMA Flattened ==
    ASSUME NEW T, NEW N \in Nat, NEW s \in [1..N -> Seq(T)]
    PROVE  \E h : Pieces(T, N, s, h)
<1> DEFINE S == Seq(T)
           g == [i \in Nat |-> [x \in S |-> IF i < N THEN x \o s[i + 1] ELSE x]]
<1>1. g \in [Nat -> [S -> S]] /\ <<>> \in S
  <2>1. \A i \in Nat, x \in S : (IF i < N THEN x \o s[i + 1] ELSE x) \in S
    <3> SUFFICES ASSUME NEW i \in Nat, NEW x \in S, i < N
                 PROVE  x \o s[i + 1] \in S
      OBVIOUS
    <3>1. s[i + 1] \in S
      OBVIOUS
    <3> QED
      BY <3>1, ConcatProperties
  <2> QED
    BY <2>1
<1>2. \A i \in 1..N, x \in S : g[i - 1][x] = x \o s[i]
  <2> SUFFICES ASSUME NEW i \in 1..N, NEW x \in S
               PROVE  g[i - 1][x] = x \o s[i]
    OBVIOUS
  <2>1. i - 1 \in Nat /\ i - 1 < N /\ (i - 1) + 1 = i
    OBVIOUS
  <2> HIDE DEF S
  <2> QED
    BY <2>1
<1> HIDE DEF g, S
<1>10. PICK r : Chain(S, <<>>, g, r)
  BY <1>1, Recursion
<1>3. r \in [Nat -> S] /\ r[0] = <<>> /\ \A i \in Nat : r[i + 1] = g[i][r[i]]
  BY <1>10 DEF Chain
<1>4. \A i \in 1..N : r[i] = r[i - 1] \o s[i]
  <2> SUFFICES ASSUME NEW i \in 1..N
               PROVE  r[i] = r[i - 1] \o s[i]
    OBVIOUS
  <2>1. i - 1 \in Nat /\ (i - 1) + 1 = i
    OBVIOUS
  <2>2. r[i - 1] \in S
    BY <1>3, <2>1
  <2>3. r[i] = g[i - 1][r[i - 1]]
    BY <1>3, <2>1
  <2> QED
    BY <1>2, <2>2, <2>3
<1> DEFINE h == [i \in 0..N |-> r[i]]
<1>5. \A i \in 0..N : h[i] = r[i]
  OBVIOUS
<1>6. h \in [0..N -> S] /\ h[0] = <<>> /\ \A i \in 1..N : h[i] = h[i - 1] \o s[i]
  <2>1. \A i \in 1..N : h[i] = r[i] /\ h[i - 1] = r[i - 1]
    OBVIOUS
  <2>2. h \in [0..N -> S] /\ h[0] = r[0]
    BY <1>3
  <2> HIDE DEF h
  <2> QED
    BY <1>3, <1>4, <2>1, <2>2
<1> HIDE DEF h
<1>7. ASSUME NEW n \in 0..N
      PROVE  FlattenSeq([i \in 1..n |-> s[i]]) = h[n]
  <2> DEFINE q == [i \in 1..n |-> s[i]]
  <2>1. q \in Seq(Seq(T)) /\ Len(q) = n /\ \A i \in 1..n : q[i] = s[i]
    OBVIOUS
  <2> HIDE DEF q
  <2>2. CASE n = 0
    <3>1. q = <<>>
      BY <2>1, <2>2
    <3> QED
      BY <1>6, <2>2, <3>1 DEF FlattenSeq, q
  <2>3. CASE n # 0
    <3> DEFINE e == [i \in 1..n |-> r[i]]
               Fits(d) == d = [i \in 1..Len(q) |-> IF i = 1 THEN q[i] ELSE d[i - 1] \o q[i]]
               flatten == CHOOSE d : Fits(d)
               Same == {i \in Nat : i \in 1..n => flatten[i] = r[i]}
    <3>1. \A i \in 1..n : r[i] = IF i = 1 THEN q[i] ELSE r[i - 1] \o q[i]
      <4>4. \A i \in 1..n : r[i] = r[i - 1] \o q[i] /\ q[i] = s[i]
        <5>1. \A i \in 1..n : i \in 1..N
          OBVIOUS
        <5> QED
          BY <1>4, <2>1, <5>1
      <4> SUFFICES ASSUME NEW i \in 1..n, i = 1
                   PROVE  r[i] = s[i]
        BY <4>4
      <4>1. <<>> \o s[i] = s[i]
        BY ConcatEmptySeq
      <4>2. r[i - 1] = <<>>
        BY <1>3
      <4>3. r[i] = r[i - 1] \o s[i]
        BY <4>4
      <4> QED
        BY <4>1, <4>2, <4>3
    <3>2. Fits(e)
      BY <2>1, <3>1
    <3> HIDE DEF e
    <3>3. Fits(flatten)
      BY <3>2, Zenon
    <3> HIDE DEF flatten
    <3>4. \A i \in 1..n : flatten[i] = IF i = 1 THEN q[i] ELSE flatten[i - 1] \o q[i]
      BY <2>1, <3>3
    <3>5. 0 \in Same
      OBVIOUS
    <3>6. ASSUME NEW i \in Nat, i \in Same
          PROVE  i + 1 \in Same
      <4> SUFFICES ASSUME i + 1 \in 1..n
                   PROVE  flatten[i + 1] = r[i + 1]
        OBVIOUS
      <4>1. flatten[i + 1] = IF i + 1 = 1 THEN q[i + 1] ELSE flatten[(i + 1) - 1] \o q[i + 1]
        BY <3>4
      <4>2. r[i + 1] = IF i + 1 = 1 THEN q[i + 1] ELSE r[(i + 1) - 1] \o q[i + 1]
        BY <3>1
      <4>3. (i + 1) - 1 = i /\ (i + 1 = 1 \/ flatten[i] = r[i])
        BY <3>6
      <4> QED
        BY <4>1, <4>2, <4>3
    <3> HIDE DEF Same
    <3>7. n \in Same
      <4>1. n \in Nat
        OBVIOUS
      <4> QED
        BY <3>5, <3>6, <4>1, Induction
    <3>8. flatten[n] = h[n]
      BY <1>5, <3>7, <2>3 DEF Same
    <3>9. Len(q) # 0
      BY <2>1, <2>3
    <3>10. FlattenSeq(q) = flatten[Len(q)]
      BY <3>9, Zenon DEF FlattenSeq, flatten
    <3> QED
      BY <2>1, <3>8, <3>10 DEF q
  <2> QED
    BY <2>2, <2>3
<1> QED
  BY <1>6, <1>7 DEF S, Pieces

LEMMA Remainder ==
    ASSUME NEW x \in Int, NEW y \in Int, NEW b \in Nat \ {0}, y \in 0..(b - 1)
    PROVE  (x * b + y) \div b = x /\ (x * b + y) % b = y
OBVIOUS

LEMMA Division ==
    ASSUME NEW a \in Int, NEW b \in Nat \ {0}
    PROVE  \E q \in Int, r \in 0..(b - 1) : a = q * b + r /\ a \div b = q /\ a % b = r
<1>1. PICK q \in Int : q = a \div b
  OBVIOUS
<1>2. a >= b * q /\ a < b * (q + 1)
  BY <1>1
<1>3. q * b \in Int /\ b * q = q * b /\ b * (q + 1) = q * b + b
  OBVIOUS
<1>4. PICK r \in 0..(b - 1) : a = q * b + r
  <2>1. a - q * b \in 0..(b - 1) /\ a = q * b + (a - q * b)
    BY <1>2, <1>3
  <2> QED
    BY <2>1
<1>5. (q * b + r) % b = r
  BY Remainder
<1>6. a % b = r
  BY <1>4, <1>5, Zenon
<1> QED
  BY <1>1, <1>4, <1>6, Zenon

LEMMA SumOfRemainders ==
    ASSUME NEW x \in Int, NEW y \in Int, NEW b \in Nat \ {0}
    PROVE  ((x % b) + y) % b = (x + y) % b
<1>1. PICK q \in Int, r \in 0..(b - 1) : x = q * b + r /\ x % b = r
  BY Division
<1>2. PICK pos \in Int, t \in 0..(b - 1) : r + y = pos * b + t /\ (r + y) % b = t
  BY Division
<1>3. x + y = (q + pos) * b + t
  BY <1>1, <1>2
<1>4. ((q + pos) * b + t) % b = t
  BY Remainder
<1> QED
  BY <1>1, <1>2, <1>3, <1>4

LEMMA Small ==
    ASSUME NEW b \in Nat \ {0}, NEW x \in 0..(b - 1)
    PROVE  x % b = x
OBVIOUS

\* Induction on a range.
LEMMA Climb ==
    ASSUME NEW N \in Nat, NEW S, 0 \in S, \A n \in 0..(N - 1) : n \in S => n + 1 \in S
    PROVE  \A n \in 0..N : n \in S
<1> DEFINE U == {n \in Nat : n <= N => n \in S}
<1>1. 0 \in U
  OBVIOUS
<1>2. ASSUME NEW n \in Nat, n \in U
      PROVE  n + 1 \in U
  BY <1>2
<1> HIDE DEF U
<1>3. \A n \in Nat : n \in U
  BY <1>1, <1>2, Induction
<1> QED
  BY <1>3 DEF U

\* A piece stays where it was put.
Extends(s, t) == Len(s) <= Len(t) /\ \A pos \in 1..Len(s) : t[pos] = s[pos]

LEMMA Placed ==
    ASSUME NEW T, NEW N \in Nat, NEW s \in [1..N -> Seq(T)], NEW h, Pieces(T, N, s, h),
           NEW m \in 0..N, NEW n \in m..N
    PROVE  Extends(h[m], h[n])
<1> DEFINE Kept == {k \in Nat : m + k <= N => /\ Len(h[m]) <= Len(h[m + k])
                                              /\ \A pos \in 1..Len(h[m]) : h[m + k][pos] = h[m][pos]}
<1>1. h \in [0..N -> Seq(T)] /\ \A i \in 1..N : h[i] = h[i - 1] \o s[i]
  BY DEF Pieces
<1>2. Len(h[m]) \in Nat
  BY <1>1
<1>3. 0 \in Kept
  BY <1>2
<1>4. ASSUME NEW k \in Nat, k \in Kept
      PROVE  k + 1 \in Kept
  <2> SUFFICES ASSUME m + (k + 1) <= N
               PROVE  /\ Len(h[m]) <= Len(h[m + (k + 1)])
                      /\ \A pos \in 1..Len(h[m]) : h[m + (k + 1)][pos] = h[m][pos]
    OBVIOUS
  <2>1. m + (k + 1) \in 1..N /\ m + k \in 0..N /\ (m + (k + 1)) - 1 = m + k
    OBVIOUS
  <2>2. h[m + (k + 1)] = h[m + k] \o s[m + (k + 1)]
    BY <1>1, <2>1
  <2>3. h[m + k] \in Seq(T) /\ s[m + (k + 1)] \in Seq(T)
    BY <1>1, <2>1
  <2> DEFINE a == h[m + k]
             b == s[m + (k + 1)]
  <2>4. a \in Seq(T) /\ b \in Seq(T) /\ h[m + (k + 1)] = a \o b
    BY <2>2, <2>3
  <2>5. Len(h[m]) <= Len(a) /\ \A pos \in 1..Len(h[m]) : a[pos] = h[m][pos]
    BY <1>4, <2>1
  <2> HIDE DEF a, b
  <2>6. /\ Len(a \o b) = Len(a) + Len(b) /\ Len(a) \in Nat /\ Len(b) \in Nat
        /\ \A pos \in 1..(Len(a) + Len(b)) : (a \o b)[pos] = IF pos <= Len(a) THEN a[pos] ELSE b[pos - Len(a)]
    BY <2>4, ConcatProperties, LenProperties
  <2>7. \A pos \in 1..Len(h[m]) : (a \o b)[pos] = h[m][pos]
    BY <1>2, <2>5, <2>6
  <2> QED
    BY <1>2, <2>4, <2>5, <2>6, <2>7
<1> HIDE DEF Kept
<1>5. n - m \in Kept
  <2>1. n - m \in Nat
    OBVIOUS
  <2> QED
    BY <1>3, <1>4, <2>1, Induction
<1>6. m + (n - m) = n
  OBVIOUS
<1> QED
  BY <1>2, <1>5, <1>6 DEF Kept, Extends

\* Where each piece lies.
Lies(N, s, h, i) ==
    /\ Len(h[i - 1]) \in Nat /\ Len(s[i]) \in Nat /\ Len(h[i]) = Len(h[i - 1]) + Len(s[i])
    /\ Len(h[i]) <= Len(h[N])
    /\ \A pos \in 1..Len(s[i]) : h[N][Len(h[i - 1]) + pos] = s[i][pos]

LEMMA Put ==
    ASSUME NEW T, NEW N \in Nat, NEW s \in [1..N -> Seq(T)], NEW h, Pieces(T, N, s, h),
           NEW i \in 1..N
    PROVE  Lies(N, s, h, i)
<1>1. i - 1 \in 0..N /\ i \in 0..N /\ N \in i..N
  OBVIOUS
<1> DEFINE a == h[i - 1]
           b == s[i]
<1>2. a \in Seq(T) /\ b \in Seq(T) /\ h[i] = a \o b
  BY <1>1 DEF Pieces
<1> HIDE DEF a, b
<1>3. /\ Len(a \o b) = Len(a) + Len(b) /\ Len(a) \in Nat /\ Len(b) \in Nat
      /\ \A pos \in 1..(Len(a) + Len(b)) : (a \o b)[pos] = IF pos <= Len(a) THEN a[pos] ELSE b[pos - Len(a)]
  BY <1>2, ConcatProperties, LenProperties
<1>4. Len(h[i]) <= Len(h[N]) /\ \A pos \in 1..Len(h[i]) : h[N][pos] = h[i][pos]
  BY <1>1, Placed DEF Extends
<1>5. ASSUME NEW pos \in 1..Len(b)
      PROVE  h[N][Len(a) + pos] = b[pos]
  <2>1. Len(a) + pos \in 1..(Len(a) + Len(b)) /\ ~(Len(a) + pos <= Len(a)) /\ (Len(a) + pos) - Len(a) = pos
    BY <1>3
  <2>2. (a \o b)[Len(a) + pos] = b[pos]
    BY <1>3, <2>1
  <2> QED
    BY <1>2, <1>3, <1>4, <2>1, <2>2
<1> QED
  BY <1>2, <1>3, <1>4, <1>5 DEF a, b, Lies

-----------------------------------------------------------------------------
\* A byte as two digits.

LEMMA Sizes ==
    /\ HEX \in Nat /\ HEX > 1 /\ BYTE \in Nat /\ BYTE >= 2 * HEX /\ WORD \in Nat /\ WORD >= 2 * BYTE
    /\ BYTE = HEX * HEX /\ WORD = BYTE * BYTE
<1>1. HEX \in Nat
  BY Alphabet DEF HEX
<1>2. HEX > 1
  BY MonitorSizes
<1> HIDE DEF HEX
<1>3. BYTE \in Nat /\ BYTE >= 2 * HEX
  BY <1>1, <1>2 DEF BYTE
<1> HIDE DEF BYTE
<1>4. WORD \in Nat /\ WORD >= 2 * BYTE
  BY <1>1, <1>2, <1>3 DEF WORD
<1> QED
  BY <1>1, <1>2, <1>3, <1>4 DEF BYTE, WORD

\* A digit has its value.
LEMMA DigitRead ==
    ASSUME NEW x \in 0..(HEX - 1)
    PROVE  /\ Digit[x + 1] \in ToSet(Digit) /\ inhex(Digit[x + 1]) = x /\ hx1(Digit[x + 1]) = x
           /\ x # None
<1>1. x + 1 \in 1..HEX /\ HEX \in Nat /\ x # None
  BY Sizes DEF None
<1>2. DOMAIN Digit = 1..HEX /\ ToSet(Digit) = {Digit[i] : i \in DOMAIN Digit}
  BY Alphabet DEF HEX, ToSet
<1>3. Digit[x + 1] \in ToSet(Digit)
  BY <1>1, <1>2
<1>4. \A i \in DOMAIN Digit : Digit[i] = Digit[x + 1] => i = x + 1
  BY <1>1, <1>2, Alphabet
<1> DEFINE place == CHOOSE i \in DOMAIN Digit : Digit[i] = Digit[x + 1]
<1>5. place = x + 1
  BY <1>1, <1>2, <1>4
<1>6. inhex(Digit[x + 1]) = x
  <2>1. inhex(Digit[x + 1]) = place - 1
    BY <1>3, Zenon DEF inhex
  <2> HIDE DEF place
  <2> QED
    BY <1>1, <1>5, <2>1
<1> QED
  BY <1>1, <1>3, <1>6 DEF hx1

\* Two figures make a byte.
High(b) == Digit[b \div HEX + 1]
Low(b)  == Digit[(b % HEX) + 1]

LEMMA Halves ==
    ASSUME NEW b \in Byte
    PROVE  /\ b \div HEX \in 0..(HEX - 1) /\ b % HEX \in 0..(HEX - 1)
           /\ High(b) \in ToSet(Digit) /\ Low(b) \in ToSet(Digit)
           /\ hx1(High(b)) = b \div HEX /\ hx1(Low(b)) = b % HEX /\ hxbyte(High(b), Low(b)) = b
           /\ Figures(b, 2) = [i \in 1..2 |-> IF i = 1 THEN High(b) ELSE Low(b)]
<1>1. b \in Nat /\ b < HEX * HEX /\ HEX \in Nat \ {0}
  BY Sizes DEF Byte
<1>2. PICK q \in Int, r \in 0..(HEX - 1) : b = q * HEX + r /\ b \div HEX = q /\ b % HEX = r
  BY <1>1, Division
<1>3. q \in 0..(HEX - 1)
  <2>1. q < HEX
    <3> SUFFICES ASSUME q >= HEX
                 PROVE  FALSE
      BY <1>1
    <3>1. q * HEX >= HEX * HEX
      BY <1>1
    <3> QED
      BY <1>1, <1>2, <3>1
  <2>2. q >= 0
    <3> SUFFICES ASSUME q <= -1
                 PROVE  FALSE
      OBVIOUS
    <3>1. q * HEX <= - HEX
      BY <1>1
    <3> QED
      BY <1>1, <1>2, <3>1
  <2> QED
    BY <1>1, <2>1, <2>2
<1>4. /\ High(b) \in ToSet(Digit) /\ Low(b) \in ToSet(Digit) /\ hx1(High(b)) = q /\ hx1(Low(b)) = r
  BY <1>2, <1>3, DigitRead DEF High, Low
<1>5. hxbyte(High(b), Low(b)) = b
  BY <1>2, <1>4, Zenon DEF hxbyte
<1>6. Figures(b, 2) = [i \in 1..2 |-> IF i = 1 THEN High(b) ELSE Low(b)]
  <2>1. Weight[1] = 1 /\ Weight[2] = HEX
    BY DEF Weight
  <2>2. \A i \in 1..2 : Digit[((b \div Weight[2 - i + 1]) % HEX) + 1]
                        = IF i = 1 THEN High(b) ELSE Low(b)
    <3>1. q % HEX = q /\ b \div 1 = b
      BY <1>1, <1>3
    <3> QED
      BY <1>2, <2>1, <3>1 DEF High, Low
  <2> QED
    BY <2>2 DEF Figures
<1> QED
  BY <1>2, <1>3, <1>4, <1>5, <1>6

-----------------------------------------------------------------------------
\* The sum of a record.

\* SumOf adds one number after the other.
LEMMA Summed ==
    ASSUME NEW s \in Seq(Int)
    PROVE  \E h : /\ h \in [0..Len(s) -> Byte] /\ h[0] = 0 /\ SumOf(s) = h[Len(s)]
                  /\ \A n \in 1..Len(s) : h[n] = (h[n - 1] + s[n]) % BYTE
<1> DEFINE N == Len(s)
           g == [i \in Nat |-> [x \in Byte |-> IF i < N THEN (x + s[i + 1]) % BYTE ELSE x]]
<1>1. N \in Nat /\ BYTE \in Nat \ {0} /\ 0 \in Byte
  BY Sizes DEF Byte
<1>2. g \in [Nat -> [Byte -> Byte]]
  <2>1. ASSUME NEW i \in Nat, NEW x \in Byte
        PROVE  (IF i < N THEN (x + s[i + 1]) % BYTE ELSE x) \in Byte
    <3>1. CASE i < N
      <4>1. s[i + 1] \in Int /\ x \in Int
        BY <1>1, <3>1 DEF Byte
      <4>2. (x + s[i + 1]) % BYTE \in 0..(BYTE - 1)
        BY <1>1, <4>1
      <4> QED
        BY <3>1, <4>2 DEF Byte
    <3> QED
      BY <3>1
  <2> QED
    BY <2>1
<1>3. \A n \in 1..N, x \in Byte : g[n - 1][x] = (x + s[n]) % BYTE
  <2> SUFFICES ASSUME NEW n \in 1..N, NEW x \in Byte
               PROVE  g[n - 1][x] = (x + s[n]) % BYTE
    OBVIOUS
  <2>1. n - 1 \in Nat /\ n - 1 < N /\ (n - 1) + 1 = n
    BY <1>1
  <2> QED
    BY <2>1
<1> HIDE DEF g, N
<1>4. PICK r : Chain(Byte, 0, g, r)
  BY <1>1, <1>2, Recursion
<1>5. r \in [Nat -> Byte] /\ r[0] = 0 /\ \A n \in Nat : r[n + 1] = g[n][r[n]]
  BY <1>4 DEF Chain
<1>6. ASSUME NEW n \in 1..N
      PROVE  r[n] = (r[n - 1] + s[n]) % BYTE
  <2>1. n - 1 \in Nat /\ (n - 1) + 1 = n
    BY <1>1
  <2>2. r[n - 1] \in Byte /\ r[n] = g[n - 1][r[n - 1]]
    BY <1>5, <2>1
  <2> QED
    BY <1>3, <2>2
<1> DEFINE h == [n \in 0..N |-> r[n]]
<1>7. h \in [0..N -> Byte] /\ h[0] = 0 /\ h[N] = r[N] /\ \A n \in 0..N : h[n] = r[n]
  BY <1>1, <1>5
<1>8. \A n \in 1..N : h[n] = (h[n - 1] + s[n]) % BYTE
  <2>1. \A n \in 1..N : n - 1 \in 0..N /\ n \in 0..N
    BY <1>1
  <2> QED
    BY <1>6, <1>7, <2>1
<1> HIDE DEF h
<1> DEFINE Fits(d) == d = [n \in 0..Len(s) |-> IF n = 0 THEN 0 ELSE (d[n - 1] + s[n]) % BYTE]
           sum == CHOOSE d : Fits(d)
           Same == {n \in Nat : n \in 0..N => sum[n] = h[n]}
<1>9. Fits(h)
  <2>1. \A n \in 0..N : h[n] = IF n = 0 THEN 0 ELSE (h[n - 1] + s[n]) % BYTE
    BY <1>1, <1>7, <1>8
  <2>2. h = [n \in 0..N |-> h[n]]
    BY <1>7
  <2> QED
    BY <2>1, <2>2 DEF N
<1>10. Fits(sum)
  BY <1>9, Zenon
<1>11. SumOf(s) = sum[Len(s)]
  BY Zenon DEF SumOf
<1> HIDE DEF sum
<1>12. \A n \in 0..N : sum[n] = IF n = 0 THEN 0 ELSE (sum[n - 1] + s[n]) % BYTE
  BY <1>10 DEF N
<1>13. 0 \in Same
  BY <1>1, <1>7, <1>12
<1>14. ASSUME NEW n \in Nat, n \in Same
       PROVE  n + 1 \in Same
  <2> SUFFICES ASSUME n + 1 \in 0..N
               PROVE  sum[n + 1] = h[n + 1]
    OBVIOUS
  <2>1. n \in 0..N /\ n + 1 \in 1..N /\ n + 1 # 0 /\ (n + 1) - 1 = n
    BY <1>1
  <2>2. sum[n + 1] = (sum[n] + s[n + 1]) % BYTE
    BY <1>12, <2>1
  <2>3. h[n + 1] = (h[n] + s[n + 1]) % BYTE
    BY <1>8, <2>1
  <2> QED
    BY <1>14, <2>1, <2>2, <2>3
<1> HIDE DEF Same
<1>15. N \in Same
  BY <1>1, <1>13, <1>14, Induction
<1>16. SumOf(s) = h[N]
  BY <1>1, <1>11, <1>15 DEF Same, N
<1> QED
  BY <1>7, <1>8, <1>16 DEF N

LEMMA SumGrows ==
    ASSUME NEW s \in Seq(Int), NEW x \in Int
    PROVE  SumOf(s) \in Byte /\ SumOf(Append(s, x)) = (SumOf(s) + x) % BYTE
<1> DEFINE t == Append(s, x)
<1>1. /\ t \in Seq(Int) /\ Len(t) = Len(s) + 1 /\ t[Len(s) + 1] = x /\ Len(s) \in Nat
      /\ \A n \in 1..Len(s) : t[n] = s[n]
  BY AppendProperties
<1> HIDE DEF t
<1>2. PICK h : /\ h \in [0..Len(s) -> Byte] /\ h[0] = 0 /\ SumOf(s) = h[Len(s)]
               /\ \A n \in 1..Len(s) : h[n] = (h[n - 1] + s[n]) % BYTE
  BY Summed
<1>3. PICK e : /\ e \in [0..Len(t) -> Byte] /\ e[0] = 0 /\ SumOf(t) = e[Len(t)]
               /\ \A n \in 1..Len(t) : e[n] = (e[n - 1] + t[n]) % BYTE
  BY <1>1, Summed
<1> DEFINE Same == {n \in Nat : n \in 0..Len(s) => e[n] = h[n]}
<1>4. 0 \in Same
  BY <1>2, <1>3
<1>5. ASSUME NEW n \in Nat, n \in Same
      PROVE  n + 1 \in Same
  <2> SUFFICES ASSUME n + 1 \in 0..Len(s)
               PROVE  e[n + 1] = h[n + 1]
    OBVIOUS
  <2>1. n \in 0..Len(s) /\ n + 1 \in 1..Len(s) /\ n + 1 \in 1..Len(t) /\ (n + 1) - 1 = n
    BY <1>1
  <2>2. e[n + 1] = (e[n] + s[n + 1]) % BYTE
    BY <1>1, <1>3, <2>1
  <2>3. h[n + 1] = (h[n] + s[n + 1]) % BYTE
    BY <1>2, <2>1
  <2> QED
    BY <1>5, <2>1, <2>2, <2>3
<1> HIDE DEF Same
<1>6. Len(s) \in Same
  BY <1>1, <1>4, <1>5, Induction
<1>7. e[Len(s)] = SumOf(s)
  BY <1>1, <1>2, <1>6 DEF Same
<1>8. Len(t) \in 1..Len(t) /\ Len(t) - 1 = Len(s)
  BY <1>1
<1>9. SumOf(t) = (SumOf(s) + x) % BYTE
  BY <1>1, <1>3, <1>7, <1>8
<1>10. SumOf(s) \in Byte
  BY <1>1, <1>2
<1> QED
  BY <1>9, <1>10 DEF t

-----------------------------------------------------------------------------
\* A record as bytes, and as text.

IsRecord(r) == /\ r.type \in Byte /\ r.off \in 0..(WORD - 1) /\ r.data \in Seq(Byte) /\ r.bad \in BOOLEAN
               /\ Len(r.data) \in Byte

\* The bytes of a record, and what they sum up to.
LEMMA RecordBytesAre ==
    ASSUME NEW r, IsRecord(r)
    PROVE  /\ RecordBytes(r) \in Seq(Byte) /\ Len(r.data) \in Nat
           /\ Len(RecordBytes(r)) = 5 + Len(r.data)
           /\ RecordBytes(r)[1] = Len(r.data) /\ RecordBytes(r)[4] = r.type
           /\ hxword(RecordBytes(r)[2], RecordBytes(r)[3]) = r.off
           /\ \A i \in 1..Len(r.data) : RecordBytes(r)[4 + i] = r.data[i]
           /\ SumOf(RecordBytes(r)) = 0 <=> ~r.bad
<1> DEFINE n == Len(r.data)
           a == <<n, r.off \div BYTE, r.off % BYTE, r.type>>
           b == a \o r.data
           x == (IF r.bad THEN 1 ELSE 0) - SumOf(b)
<1>1. /\ r.type \in Byte /\ r.off \in 0..(WORD - 1) /\ r.data \in Seq(Byte) /\ r.bad \in BOOLEAN
      /\ n \in Byte /\ n \in Nat
  BY LenProperties DEF IsRecord
<1>2. BYTE \in Nat \ {0} /\ WORD = BYTE * BYTE /\ BYTE > 1
  BY Sizes
<1>3. PICK q \in Int, m \in 0..(BYTE - 1) :
          r.off = q * BYTE + m /\ r.off \div BYTE = q /\ r.off % BYTE = m
  <2>1. r.off \in Int
    BY <1>1, <1>2
  <2> QED
    BY <1>2, <2>1, Division, Zenon
<1>4. q \in Byte /\ m \in Byte
  <2>1. q < BYTE
    <3> SUFFICES ASSUME q >= BYTE
                 PROVE  FALSE
      BY <1>2
    <3>1. q * BYTE >= BYTE * BYTE
      BY <1>2
    <3> QED
      BY <1>1, <1>2, <1>3, <3>1
  <2>2. q >= 0
    <3> SUFFICES ASSUME q <= -1
                 PROVE  FALSE
      OBVIOUS
    <3>1. q * BYTE <= - BYTE
      BY <1>2
    <3> QED
      BY <1>1, <1>2, <1>3, <3>1
  <2> QED
    BY <1>2, <2>1, <2>2 DEF Byte
<1>5. a = <<n, q, m, r.type>>
  BY <1>3
<1> HIDE DEF n, a
<1>6. a \in Seq(Byte) /\ Len(a) = 4 /\ a[1] = n /\ a[2] = q /\ a[3] = m /\ a[4] = r.type
  BY <1>1, <1>4, <1>5
<1>7. /\ b \in Seq(Byte) /\ Len(b) = 4 + n
      /\ \A i \in 1..(4 + n) : b[i] = IF i <= 4 THEN a[i] ELSE r.data[i - 4]
  <2> DEFINE d == r.data
  <2>1. d \in Seq(Byte) /\ Len(d) = n
    BY <1>1 DEF n
  <2> HIDE DEF d
  <2>2. a \o d \in Seq(Byte) /\ Len(a \o d) = Len(a) + Len(d)
        /\ \A i \in 1..(Len(a) + Len(d)) : (a \o d)[i] = IF i <= Len(a) THEN a[i] ELSE d[i - Len(a)]
    BY <1>6, <2>1, ConcatProperties
  <2> QED
    BY <1>6, <2>1, <2>2 DEF d
<1> HIDE DEF b
<1>8. b \in Seq(Int)
  <2>1. Byte \subseteq Int
    BY DEF Byte
  <2> QED
    BY <1>7, <2>1, SeqMonotonic, Zenon
<1>9. SumOf(b) \in Byte /\ SumOf(b) \in Int /\ x \in Int
  BY <1>8, SumGrows DEF Byte
<1>10. x % BYTE \in Byte /\ x % BYTE \in Int
  BY <1>2, <1>9 DEF Byte
<1>11. RecordBytes(r) = Append(b, x % BYTE)
  BY Zenon DEF RecordBytes, a, b, n
<1>18. x + SumOf(b) = (IF r.bad THEN 1 ELSE 0)
  BY <1>1, <1>9
<1> DEFINE y == x % BYTE
<1>19. y \in Byte /\ y \in Int
  BY <1>10
<1>20. (y + SumOf(b)) % BYTE = (x + SumOf(b)) % BYTE
  <2> HIDE DEF x
  <2> QED
    BY <1>2, <1>9, SumOfRemainders, Zenon
<1>21. RecordBytes(r) = Append(b, y)
  BY <1>11
<1> HIDE DEF x, y
<1>12. /\ RecordBytes(r) \in Seq(Byte) /\ Len(RecordBytes(r)) = 5 + n
       /\ \A i \in 1..(4 + n) : RecordBytes(r)[i] = b[i]
  <2>1. /\ Append(b, y) \in Seq(Byte) /\ Len(Append(b, y)) = Len(b) + 1
        /\ \A i \in 1..Len(b) : Append(b, y)[i] = b[i]
    BY <1>7, <1>19, AppendProperties
  <2> QED
    BY <1>1, <1>7, <1>21, <2>1
<1>13. SumOf(RecordBytes(r)) = (IF r.bad THEN 1 ELSE 0)
  <2>1. SumOf(RecordBytes(r)) = (SumOf(b) + y) % BYTE
    BY <1>8, <1>19, <1>21, SumGrows
  <2>2. y + SumOf(b) = SumOf(b) + y
    BY <1>9, <1>19
  <2>3. (IF r.bad THEN 1 ELSE 0) % BYTE = (IF r.bad THEN 1 ELSE 0)
    BY <1>1, <1>2
  <2> QED
    BY <1>18, <1>20, <2>1, <2>2, <2>3, Zenon
<1>14. hxword(RecordBytes(r)[2], RecordBytes(r)[3]) = r.off
  <2>1. 2 \in 1..(4 + n) /\ 3 \in 1..(4 + n)
    BY <1>1
  <2>2. RecordBytes(r)[2] = b[2] /\ RecordBytes(r)[3] = b[3]
    BY <1>12, <2>1
  <2>3. b[2] = a[2] /\ b[3] = a[3]
    BY <1>7, <2>1
  <2>4. RecordBytes(r)[2] = q /\ RecordBytes(r)[3] = m
    BY <1>6, <2>2, <2>3
  <2> QED
    BY <1>3, <2>4, Zenon DEF hxword
<1>15. RecordBytes(r)[1] = n /\ RecordBytes(r)[4] = r.type
  BY <1>1, <1>6, <1>7, <1>12
<1>16. \A i \in 1..n : RecordBytes(r)[4 + i] = r.data[i]
  <2>1. \A i \in 1..n : 4 + i \in 1..(4 + n) /\ ~(4 + i <= 4) /\ (4 + i) - 4 = i
    BY <1>1
  <2> QED
    BY <1>7, <1>12, <2>1
<1>17. SumOf(RecordBytes(r)) = 0 <=> ~r.bad
  BY <1>1, <1>13
<1> QED
  BY <1>1, <1>12, <1>14, <1>15, <1>16, <1>17 DEF n

\* The text of a record.
Keys == ToSet(Digit) \cup {":", "CR"}

LEMMA RecordTextIs ==
    ASSUME NEW r, IsRecord(r)
    PROVE  /\ RecordText(r) \in Seq(Keys) /\ Len(RecordText(r)) = 2 * (5 + Len(r.data)) + 2
           /\ RecordText(r)[1] = ":"
           /\ RecordText(r)[2 * (5 + Len(r.data)) + 2] = "CR"
           /\ \A i \in 1..(5 + Len(r.data)) : /\ RecordText(r)[2 * i] = High(RecordBytes(r)[i])
                                              /\ RecordText(r)[2 * i + 1] = Low(RecordBytes(r)[i])
<1> DEFINE B == RecordBytes(r)
           N == 5 + Len(r.data)
           s == [i \in 1..N |-> Figures(B[i], 2)]
<1>1. B \in Seq(Byte) /\ Len(B) = N /\ N \in Nat /\ DOMAIN B = 1..N
  BY RecordBytesAre
<1> HIDE DEF B, N
<1>2. ASSUME NEW i \in 1..N
      PROVE  /\ s[i] \in Seq(Keys) /\ Len(s[i]) = 2 /\ s[i][1] = High(B[i]) /\ s[i][2] = Low(B[i])
  <2>1. B[i] \in Byte
    BY <1>1
  <2>2. /\ s[i] = [k \in 1..2 |-> IF k = 1 THEN High(B[i]) ELSE Low(B[i])]
        /\ High(B[i]) \in Keys /\ Low(B[i]) \in Keys
    BY <2>1, Halves DEF Keys
  <2> HIDE DEF s
  <2> QED
    BY <2>2
<1>3. s \in [1..N -> Seq(Keys)]
  BY <1>2
<1> DEFINE F == FlattenSeq([i \in 1..N |-> s[i]])
<1>4. RecordText(r) = <<":">> \o F \o <<"CR">>
  <2>1. RecordText(r) = <<":">> \o FlattenSeq(s) \o <<"CR">>
    BY <1>1, Zenon DEF RecordText, B
  <2>2. s = [i \in 1..N |-> s[i]]
    OBVIOUS
  <2> QED
    BY <2>1, <2>2
<1> HIDE DEF s
<1>5. PICK h : Pieces(Keys, N, s, h)
  BY <1>1, <1>3, Flattened
<1>6. h \in [0..N -> Seq(Keys)] /\ h[0] = <<>>
  BY <1>5 DEF Pieces
<1>7. F = h[N]
  <2>1. N \in 0..N
    BY <1>1
  <2> QED
    BY <1>5, <2>1 DEF Pieces
<1> HIDE DEF F
<1>18. ASSUME NEW i \in 1..N
       PROVE  Lies(N, s, h, i)
  BY <1>1, <1>3, <1>5, Put
<1> DEFINE Even == {n \in Nat : n <= N => Len(h[n]) = 2 * n}
<1>8. 0 \in Even
  BY <1>6
<1>9. ASSUME NEW n \in Nat, n \in Even
      PROVE  n + 1 \in Even
  <2> SUFFICES ASSUME n + 1 <= N
               PROVE  Len(h[n + 1]) = 2 * (n + 1)
    OBVIOUS
  <2>1. n + 1 \in 1..N /\ (n + 1) - 1 = n /\ n <= N
    BY <1>1
  <2>2. Len(h[n + 1]) = Len(h[(n + 1) - 1]) + Len(s[n + 1])
    BY <1>18, <2>1, Zenon DEF Lies
  <2>3. Len(h[n]) = 2 * n /\ Len(s[n + 1]) = 2
    BY <1>2, <1>9, <2>1
  <2> HIDE DEF Even
  <2> QED
    BY <2>1, <2>2, <2>3
<1> HIDE DEF Even
<1>10. ASSUME NEW i \in 0..N
       PROVE  Len(h[i]) = 2 * i
  <2>1. i \in Nat /\ i <= N
    BY <1>1
  <2>2. i \in Even
    BY <1>8, <1>9, <2>1, Induction
  <2> QED
    BY <2>1, <2>2 DEF Even
<1>11. F \in Seq(Keys) /\ Len(F) = 2 * N
  BY <1>1, <1>6, <1>7, <1>10
<1>12. ASSUME NEW i \in 1..N
       PROVE  F[2 * i - 1] = High(B[i]) /\ F[2 * i] = Low(B[i])
  <2>1. \A pos \in 1..2 : F[Len(h[i - 1]) + pos] = s[i][pos]
    <3>1. Len(s[i]) = 2
      BY <1>2
    <3>2. \A pos \in 1..Len(s[i]) : h[N][Len(h[i - 1]) + pos] = s[i][pos]
      BY <1>18 DEF Lies
    <3> QED
      BY <1>7, <3>1, <3>2
  <2>2. Len(h[i - 1]) = 2 * (i - 1)
    BY <1>1, <1>10
  <2>3. 2 * (i - 1) + 1 = 2 * i - 1 /\ 2 * (i - 1) + 2 = 2 * i
    OBVIOUS
  <2> QED
    BY <1>2, <2>1, <2>2, <2>3
<1> DEFINE G == <<":">> \o F
<1>13. <<":">> \in Seq(Keys) /\ <<"CR">> \in Seq(Keys) /\ Len(<<":">>) = 1 /\ Len(<<"CR">>) = 1
       /\ <<":">>[1] = ":" /\ <<"CR">>[1] = "CR"
  BY DEF Keys
<1>14. /\ G \in Seq(Keys) /\ Len(G) = 2 * N + 1
       /\ \A i \in 1..(1 + 2 * N) : G[i] = IF i <= 1 THEN <<":">>[i] ELSE F[i - 1]
  <2> DEFINE Z == <<":">>
  <2>1. Z \in Seq(Keys) /\ Len(Z) = 1
    BY <1>13
  <2> HIDE DEF F, Z
  <2>2. /\ Z \o F \in Seq(Keys) /\ Len(Z \o F) = Len(Z) + Len(F)
        /\ \A i \in 1..(Len(Z) + Len(F)) : (Z \o F)[i] = IF i <= Len(Z) THEN Z[i] ELSE F[i - Len(Z)]
    BY <1>11, <2>1, ConcatProperties
  <2> QED
    BY <1>1, <1>11, <2>1, <2>2 DEF Z
<1> HIDE DEF G
<1>15. /\ RecordText(r) \in Seq(Keys) /\ Len(RecordText(r)) = 2 * N + 2
       /\ \A i \in 1..(2 * N + 2) : RecordText(r)[i] = IF i <= 2 * N + 1 THEN G[i]
                                                       ELSE <<"CR">>[i - (2 * N + 1)]
  <2>1. RecordText(r) = G \o <<"CR">>
    BY <1>4 DEF G
  <2> DEFINE Z == <<"CR">>
  <2>2. Z \in Seq(Keys) /\ Len(Z) = 1
    BY <1>13
  <2> HIDE DEF Z
  <2>3. /\ G \o Z \in Seq(Keys) /\ Len(G \o Z) = Len(G) + Len(Z)
        /\ \A i \in 1..(Len(G) + Len(Z)) : (G \o Z)[i] = IF i <= Len(G) THEN G[i] ELSE Z[i - Len(G)]
    BY <1>14, <2>2, ConcatProperties
  <2>4. RecordText(r) = G \o Z
    BY <2>1 DEF Z
  <2>5. Len(G) + Len(Z) = 2 * N + 2
    BY <1>1, <1>14, <2>2
  <2> QED
    BY <1>14, <2>3, <2>4, <2>5 DEF Z
<1>16. RecordText(r)[1] = ":" /\ RecordText(r)[2 * N + 2] = "CR"
  <2>1. 1 \in 1..(2 * N + 2) /\ 1 <= 2 * N + 1 /\ 1 \in 1..(1 + 2 * N)
        /\ 2 * N + 2 \in 1..(2 * N + 2) /\ ~(2 * N + 2 <= 2 * N + 1)
        /\ (2 * N + 2) - (2 * N + 1) = 1
    BY <1>1
  <2>2. RecordText(r)[1] = G[1] /\ G[1] = <<":">>[1]
    BY <1>14, <1>15, <2>1
  <2>3. RecordText(r)[2 * N + 2] = <<"CR">>[1]
    BY <1>15, <2>1
  <2> QED
    BY <1>13, <2>2, <2>3
<1>17. ASSUME NEW i \in 1..N
       PROVE  RecordText(r)[2 * i] = High(B[i]) /\ RecordText(r)[2 * i + 1] = Low(B[i])
  <2>1. /\ 2 * i \in 1..(2 * N + 2) /\ 2 * i + 1 \in 1..(2 * N + 2)
        /\ 2 * i <= 2 * N + 1 /\ 2 * i + 1 <= 2 * N + 1
        /\ 2 * i \in 1..(1 + 2 * N) /\ 2 * i + 1 \in 1..(1 + 2 * N) /\ ~(2 * i <= 1) /\ ~(2 * i + 1 <= 1)
        /\ (2 * i + 1) - 1 = 2 * i
    BY <1>1
  <2>2. RecordText(r)[2 * i] = F[2 * i - 1] /\ RecordText(r)[2 * i + 1] = F[2 * i]
    BY <1>14, <1>15, <2>1
  <2> QED
    BY <1>12, <2>2
<1> QED
  BY <1>15, <1>16, <1>17 DEF N, B

-----------------------------------------------------------------------------
\* A file as text: its records one behind the other.

\* Where the records of a file lie in its text: record i behind at[i - 1].
Width(f, i) == 5 + Len(f[i].data)

Spread(f, at) ==
    /\ at \in [0..Len(f) -> Nat] /\ at[0] = 0
    /\ FileText(f) \in Seq(Keys) /\ Len(FileText(f)) = at[Len(f)]
    /\ \A i \in 1..Len(f) :
         /\ at[i] = at[i - 1] + 2 * Width(f, i) + 2 /\ at[i] <= at[Len(f)]
         /\ FileText(f)[at[i - 1] + 1] = ":" /\ FileText(f)[at[i]] = "CR"
         /\ \A k \in 1..Width(f, i) : /\ FileText(f)[at[i - 1] + 2 * k] = High(RecordBytes(f[i])[k])
                                      /\ FileText(f)[at[i - 1] + 2 * k + 1] = Low(RecordBytes(f[i])[k])

At(f) == CHOOSE at : Spread(f, at)

LEMMA FileIs ==
    ASSUME NEW f \in Files
    PROVE  /\ Len(f) \in Nat /\ DOMAIN f = 1..Len(f)
           /\ \A i \in 1..Len(f) : /\ IsRecord(f[i]) /\ Width(f, i) \in Nat /\ Width(f, i) >= 5
                                   /\ f[i].type = LINEAR => Len(f[i].data) = 2
                                   /\ f[i].type = ENTRY => Len(f[i].data) = 4
<1> DEFINE R == [type : Byte, off : 0..(WORD - 1), data : Seq(Byte), bad : BOOLEAN]
<1>1. f \in Seq(R) /\ \A i \in DOMAIN f : /\ Len(f[i].data) \in Byte
                                          /\ f[i].type = LINEAR => Len(f[i].data) = 2
                                          /\ f[i].type = ENTRY => Len(f[i].data) = 4
  BY HexFiles, Zenon
<1>2. Len(f) \in Nat /\ DOMAIN f = 1..Len(f) /\ \A i \in 1..Len(f) : f[i] \in R
  <2> HIDE DEF R
  <2> QED
    BY <1>1
<1>3. ASSUME NEW i \in 1..Len(f)
      PROVE  IsRecord(f[i])
  BY <1>1, <1>2 DEF IsRecord
<1>4. ASSUME NEW i \in 1..Len(f)
      PROVE  Width(f, i) \in Nat /\ Width(f, i) >= 5
  <2>1. Len(f[i].data) \in Byte
    BY <1>3 DEF IsRecord
  <2> QED
    BY <2>1 DEF Width, Byte
<1> QED
  BY <1>1, <1>2, <1>3, <1>4

LEMMA FileTextIs ==
    ASSUME NEW f \in Files
    PROVE  Spread(f, At(f))
<1> DEFINE N == Len(f)
           s == [i \in 1..N |-> RecordText(f[i])]
<1>1. N \in Nat /\ DOMAIN f = 1..N /\ \A i \in 1..N : IsRecord(f[i])
  BY FileIs
<1> HIDE DEF N
<1>2. ASSUME NEW i \in 1..N
      PROVE  /\ s[i] = RecordText(f[i]) /\ s[i] \in Seq(Keys) /\ Len(s[i]) = 2 * Width(f, i) + 2
             /\ s[i][1] = ":" /\ s[i][2 * Width(f, i) + 2] = "CR"
             /\ \A k \in 1..Width(f, i) : /\ s[i][2 * k] = High(RecordBytes(f[i])[k])
                                          /\ s[i][2 * k + 1] = Low(RecordBytes(f[i])[k])
  <2>1. IsRecord(f[i]) /\ s[i] = RecordText(f[i])
    BY <1>1
  <2> HIDE DEF s
  <2> QED
    BY <2>1, RecordTextIs DEF Width
<1>3. s \in [1..N -> Seq(Keys)]
  BY <1>2
<1>4. FileText(f) = FlattenSeq([i \in 1..N |-> s[i]])
  <2>1. FileText(f) = FlattenSeq(s)
    BY <1>1, Zenon DEF FileText
  <2>2. s = [i \in 1..N |-> s[i]]
    OBVIOUS
  <2> QED
    BY <2>1, <2>2
<1> HIDE DEF s
<1>5. PICK h : Pieces(Keys, N, s, h)
  BY <1>1, <1>3, Flattened
<1>6. h \in [0..N -> Seq(Keys)] /\ h[0] = <<>> /\ FileText(f) = h[N] /\ N \in 0..N
  BY <1>1, <1>4, <1>5 DEF Pieces
<1>7. ASSUME NEW i \in 1..N
      PROVE  Lies(N, s, h, i)
  BY <1>1, <1>3, <1>5, Put
<1> DEFINE at == [i \in 0..N |-> Len(h[i])]
<1>8. at \in [0..N -> Nat] /\ at[0] = 0
  BY <1>1, <1>6
<1>9. ASSUME NEW i \in 1..N
      PROVE  /\ at[i] = at[i - 1] + 2 * Width(f, i) + 2 /\ at[i] <= at[N]
             /\ FileText(f)[at[i - 1] + 1] = ":" /\ FileText(f)[at[i]] = "CR"
             /\ \A k \in 1..Width(f, i) :
                    /\ FileText(f)[at[i - 1] + 2 * k] = High(RecordBytes(f[i])[k])
                    /\ FileText(f)[at[i - 1] + 2 * k + 1] = Low(RecordBytes(f[i])[k])
  <2>1. /\ i - 1 \in 0..N /\ i \in 0..N /\ at[i - 1] = Len(h[i - 1]) /\ at[i] = Len(h[i]) /\ at[N] = Len(h[N])
    BY <1>1
  <2>2. Width(f, i) \in Nat /\ Width(f, i) >= 5
    BY FileIs DEF N
  <2> HIDE DEF at
  <2> DEFINE w == Width(f, i)
             a == at[i - 1]
  <2>3. a \in Nat /\ w \in Nat
    BY <2>1, <2>2, <1>7 DEF Lies
  <2>4. at[i] = a + Len(s[i]) /\ at[i] <= at[N] /\ \A pos \in 1..Len(s[i]) : FileText(f)[a + pos] = s[i][pos]
    BY <1>6, <1>7, <2>1 DEF Lies
  <2>5. at[i] = a + (2 * w + 2) /\ \A pos \in 1..(2 * w + 2) : FileText(f)[a + pos] = s[i][pos]
    BY <1>2, <2>4
  <2> HIDE DEF w, a
  <2>6. FileText(f)[a + 1] = ":" /\ FileText(f)[a + (2 * w + 2)] = "CR"
    <3>1. 1 \in 1..(2 * w + 2) /\ 2 * w + 2 \in 1..(2 * w + 2)
      BY <2>3
    <3>2. s[i][1] = ":" /\ s[i][2 * w + 2] = "CR"
      BY <1>2 DEF w
    <3> QED
      BY <2>5, <3>1, <3>2
  <2>7. ASSUME NEW k \in 1..w
        PROVE  /\ FileText(f)[a + 2 * k] = High(RecordBytes(f[i])[k])
               /\ FileText(f)[a + 2 * k + 1] = Low(RecordBytes(f[i])[k])
    <3>1. 2 * k \in 1..(2 * w + 2) /\ 2 * k + 1 \in 1..(2 * w + 2) /\ a + (2 * k + 1) = a + 2 * k + 1
      BY <2>3
    <3>2. s[i][2 * k] = High(RecordBytes(f[i])[k]) /\ s[i][2 * k + 1] = Low(RecordBytes(f[i])[k])
      BY <1>2 DEF w
    <3>3. FileText(f)[a + 2 * k] = s[i][2 * k] /\ FileText(f)[a + (2 * k + 1)] = s[i][2 * k + 1]
      BY <2>5, <3>1
    <3> QED
      BY <3>1, <3>2, <3>3
  <2>8. at[i] = a + 2 * w + 2 /\ FileText(f)[at[i]] = "CR" /\ at[i] <= at[N]
    BY <2>3, <2>4, <2>5, <2>6
  <2> QED
    BY <2>6, <2>7, <2>8 DEF a, w
<1>10. Spread(f, at)
  <2>1. FileText(f) \in Seq(Keys) /\ Len(FileText(f)) = at[N]
    BY <1>6
  <2> HIDE DEF at
  <2> QED
    BY <1>8, <1>9, <2>1 DEF Spread, N
<1> HIDE DEF at
<1> QED
  BY <1>10, Zenon DEF At

-----------------------------------------------------------------------------
\* The memory image of a file, record by record.

LEMMA LeastOne ==
    ASSUME NEW S \in SUBSET Nat, S # {}
    PROVE  \E m \in S : \A k \in S : m <= k
<1> DEFINE R == OpToRel(<, Nat)
<1>1. \A a, b \in Nat : a < b => <<a, b>> \in R
  BY DEF OpToRel
<1>2. IsWellFoundedOn(R, Nat)
  BY NatLessThanWellFounded
<1> HIDE DEF R
<1>3. PICK x \in S : \A y \in S : ~(<<y, x>> \in R)
  BY <1>2, WFMin, Zenon
<1>4. \A k \in S : x <= k
  <2> SUFFICES ASSUME NEW k \in S, k < x
               PROVE  FALSE
    OBVIOUS
  <2>1. <<k, x>> \in R
    BY <1>1
  <2> QED
    BY <1>3, <2>1
<1> QED
  BY <1>4

LEMMA GreatestOne ==
    ASSUME NEW n \in Nat, NEW S \in SUBSET (1..n), S # {}
    PROVE  \E m \in S : \A k \in S : k <= m
<1> DEFINE D == {n - k : k \in S}
<1>1. D \in SUBSET Nat /\ D # {}
  <2>1. \A k \in S : n - k \in Nat
    OBVIOUS
  <2> QED
    BY <2>1
<1>2. PICK d \in D : \A k \in D : d <= k
  BY <1>1, LeastOne
<1>3. PICK m \in S : d = n - m
  OBVIOUS
<1>4. \A k \in S : k <= m
  BY <1>2, <1>3
<1> QED
  BY <1>4

\* The base for the next record.
LEMMA NextBase ==
    ASSUME NEW f \in Files, NEW n \in 1..Len(f)
    PROVE  /\ BaseOf(f, 1) = RAM
           /\ f[n].type = 0 => BaseOf(f, n + 1) = BaseOf(f, n)
           /\ f[n].type = LINEAR => BaseOf(f, n + 1) = hxword(f[n].data[1], f[n].data[2]) * WORD
           /\ f[n].type = ENTRY => BaseOf(f, n + 1) = hxword(f[n].data[1], f[n].data[2]) * WORD
                                                       + hxword(f[n].data[3], f[n].data[4])
<1>1. Len(f) \in Nat /\ LINEAR # 0 /\ ENTRY # 0 /\ LINEAR # ENTRY
  BY FileIs, MonitorSizes
<1> DEFINE above(i) == {j \in 1..(i - 1) : f[j].type # 0}
           last(i) == CHOOSE j \in above(i) : \A h \in above(i) : h <= j
<1>2. \A i : BaseOf(f, i) =
         IF above(i) = {} THEN RAM
         ELSE LET r == f[last(i)]
                  w == hxword(r.data[1], r.data[2]) * WORD
              IN  IF r.type = LINEAR THEN w ELSE w + hxword(r.data[3], r.data[4])
  BY Zenon DEF BaseOf
<1>3. BaseOf(f, 1) = RAM
  <2>1. above(1) = {}
    OBVIOUS
  <2> QED
    BY <1>2, <2>1
<1>4. CASE f[n].type = 0
  <2>1. above(n + 1) = above(n)
    BY <1>1, <1>4
  <2> HIDE DEF above
  <2>2. BaseOf(f, n + 1) = BaseOf(f, n)
    BY <1>2, <2>1
  <2> QED
    BY <1>1, <1>3, <1>4, <2>2
<1>5. CASE f[n].type # 0
  <2>1. n \in above(n + 1) /\ \A h \in above(n + 1) : h <= n /\ h \in Nat
    BY <1>1, <1>5
  <2>2. last(n + 1) = n
    <3> HIDE DEF above
    <3>1. \A j \in above(n + 1) : (\A h \in above(n + 1) : h <= j) => j = n
      BY <2>1
    <3> QED
      BY <2>1, <3>1
  <2> HIDE DEF above, last
  <2>3. BaseOf(f, n + 1) = LET w == hxword(f[n].data[1], f[n].data[2]) * WORD
                           IN  IF f[n].type = LINEAR THEN w ELSE w + hxword(f[n].data[3], f[n].data[4])
    BY <1>2, <2>1, <2>2
  <2> QED
    BY <1>1, <1>3, <1>5, <2>3
<1> QED
  BY <1>4, <1>5

\* What the first n records store.
Loaded(f, n, limit) == FlattenSeq([i \in 1..n |-> PartOf(f, i, limit)])
Spots(f, limit) == {PartOf(f, i, limit)[h] : i \in 1..Len(f), h \in 1..BYTE}

LEMMA PartIs ==
    ASSUME NEW f \in Files, NEW limit, NEW i \in 1..Len(f)
    PROVE  /\ PartOf(f, i, limit) \in Seq(Spots(f, limit))
           /\ IF f[i].type # 0 \/ ~ Reads(f[i], limit) THEN PartOf(f, i, limit) = <<>>
              ELSE /\ Len(PartOf(f, i, limit)) = Len(f[i].data)
                   /\ \A h \in 1..Len(f[i].data) :
                        PartOf(f, i, limit)[h] = <<(BaseOf(f, i) + f[i].off + h - 1) % ADDR, f[i].data[h]>>
<1>1. IsRecord(f[i]) /\ Len(f[i].data) \in Byte
  BY FileIs DEF IsRecord
<1>2. Len(f[i].data) \in Nat /\ Len(f[i].data) <= BYTE
  BY <1>1, Sizes DEF Byte
<1>3. CASE f[i].type # 0 \/ ~Reads(f[i], limit)
  BY <1>3 DEF PartOf
<1>4. CASE ~(f[i].type # 0 \/ ~Reads(f[i], limit))
  <2> DEFINE n == Len(f[i].data)
             x(h) == <<(BaseOf(f, i) + f[i].off + h - 1) % ADDR, f[i].data[h]>>
  <2>1. PartOf(f, i, limit) = [h \in 1..n |-> x(h)]
    BY <1>4 DEF PartOf
  <2> HIDE DEF x, n
  <2>2. \A h \in 1..n : PartOf(f, i, limit)[h] = x(h)
    BY <2>1
  <2>3. \A h \in 1..n : x(h) \in Spots(f, limit)
    <3> SUFFICES ASSUME NEW h \in 1..n
                 PROVE  x(h) \in Spots(f, limit)
      OBVIOUS
    <3>1. h \in 1..BYTE /\ PartOf(f, i, limit)[h] = x(h)
      BY <1>2, <2>2, Sizes DEF n
    <3> QED
      BY <3>1 DEF Spots
  <2>4. n \in Nat
    BY <1>2 DEF n
  <2>5. PartOf(f, i, limit) \in Seq(Spots(f, limit)) /\ Len(PartOf(f, i, limit)) = n
    BY <2>1, <2>3, <2>4
  <2> QED
    BY <1>4, <2>2, <2>5 DEF n, x
<1> QED
  BY <1>3, <1>4

LEMMA LoadedIs ==
    ASSUME NEW f \in Files, NEW limit, NEW n \in 0..Len(f)
    PROVE  /\ Loaded(f, n, limit) \in Seq(Spots(f, limit)) /\ Loaded(f, 0, limit) = <<>>
           /\ n # 0 => Loaded(f, n, limit) = Loaded(f, n - 1, limit) \o PartOf(f, n, limit)
           /\ \A k \in n..Len(f) : Extends(Loaded(f, n, limit), Loaded(f, k, limit))
<1> DEFINE N == Len(f)
           T == Spots(f, limit)
           s == [i \in 1..N |-> PartOf(f, i, limit)]
<1>1. N \in Nat
  BY FileIs
<1> HIDE DEF N, T
<1>2. s \in [1..N -> Seq(T)]
  BY PartIs DEF N, T
<1>3. \A k \in 0..N : Loaded(f, k, limit) = FlattenSeq([i \in 1..k |-> s[i]])
  <2> SUFFICES ASSUME NEW k \in 0..N
               PROVE  [i \in 1..k |-> PartOf(f, i, limit)] = [i \in 1..k |-> s[i]]
    BY Zenon DEF Loaded
  <2>1. \A i \in 1..k : i \in 1..N
    BY <1>1
  <2> QED
    BY <2>1
<1>4. \A i \in 1..N : s[i] = PartOf(f, i, limit)
  OBVIOUS
<1> HIDE DEF s
<1>5. PICK h : Pieces(T, N, s, h)
  BY <1>1, <1>2, Flattened
<1>6. /\ h \in [0..N -> Seq(T)] /\ h[0] = <<>> /\ \A i \in 1..N : h[i] = h[i - 1] \o s[i]
      /\ \A k \in 0..N : FlattenSeq([i \in 1..k |-> s[i]]) = h[k]
  BY <1>5 DEF Pieces
<1>7. \A k \in 0..N : Loaded(f, k, limit) = h[k]
  BY <1>3, <1>6
<1>8. n \in 0..N /\ 0 \in 0..N
  BY <1>1 DEF N
<1>9. n # 0 => Loaded(f, n, limit) = Loaded(f, n - 1, limit) \o PartOf(f, n, limit)
  <2> SUFFICES ASSUME n # 0
               PROVE  Loaded(f, n, limit) = Loaded(f, n - 1, limit) \o PartOf(f, n, limit)
    OBVIOUS
  <2>1. n \in 1..N /\ n - 1 \in 0..N
    BY <1>1, <1>8
  <2>2. h[n] = h[n - 1] \o s[n]
    BY <1>6, <2>1
  <2> QED
    BY <1>4, <1>7, <1>8, <2>1, <2>2
<1>10. ASSUME NEW k \in n..N
       PROVE  Extends(Loaded(f, n, limit), Loaded(f, k, limit))
  <2>1. k \in 0..N
    BY <1>8
  <2>2. Extends(h[n], h[k])
    BY <1>1, <1>2, <1>5, <1>8, Placed
  <2> QED
    BY <1>7, <1>8, <2>1, <2>2
<1>11. Loaded(f, n, limit) \in Seq(T) /\ Loaded(f, 0, limit) = <<>>
  BY <1>6, <1>7, <1>8
<1> QED
  BY <1>9, <1>10, <1>11 DEF N, T

LEMMA PrefixIs ==
    ASSUME NEW T, NEW s \in Seq(T), NEW t \in Seq(T), Len(s) <= Len(t), \A pos \in 1..Len(s) : t[pos] = s[pos]
    PROVE  IsPrefix(s, t)
<1>1. SubSeq(s, 1, Len(s)) = SubSeq(t, 1, Len(s))
  <2>1. SubSeq(s, 1, Len(s)) = [i \in 1..Len(s) |-> s[i]]
    OBVIOUS
  <2>2. SubSeq(t, 1, Len(s)) = [i \in 1..Len(s) |-> t[i]]
    OBVIOUS
  <2> QED
    BY <2>1, <2>2
<1> QED
  BY <1>1 DEF IsPrefix

\* What they and m bytes of the next one store.
Partly(f, n, m, limit) == IF m = 0 THEN Loaded(f, n, limit)
                          ELSE Loaded(f, n, limit) \o SubSeq(PartOf(f, n + 1, limit), 1, m)

LEMMA PartlyIs ==
    ASSUME NEW f \in Files, NEW limit, NEW n \in 0..(Len(f) - 1), NEW m \in 0..Len(PartOf(f, n + 1, limit))
    PROVE  /\ Partly(f, n, m, limit) \in Seq(Spots(f, limit))
           /\ m < Len(PartOf(f, n + 1, limit)) =>
                Append(Partly(f, n, m, limit), PartOf(f, n + 1, limit)[m + 1]) = Partly(f, n, m + 1, limit)
           /\ m = Len(PartOf(f, n + 1, limit)) => Partly(f, n, m, limit) = Loaded(f, n + 1, limit)
           /\ \A k \in (n + 1)..Len(f) : IsPrefix(Partly(f, n, m, limit), Loaded(f, k, limit))
<1> DEFINE a == Loaded(f, n, limit)
           b == PartOf(f, n + 1, limit)
           T == Spots(f, limit)
           P(k) == Partly(f, n, k, limit)
<1>1. n + 1 \in 1..Len(f) /\ n + 1 \in 0..Len(f) /\ n \in 0..Len(f) /\ (n + 1) - 1 = n
      /\ n + 1 # 0
  BY FileIs
<1>2. a \in Seq(T) /\ b \in Seq(T)
  BY <1>1, LoadedIs, PartIs
<1>3. Loaded(f, n + 1, limit) = a \o b
  BY <1>1, LoadedIs
<1>4. \A k : P(k) = IF k = 0 THEN a ELSE a \o SubSeq(b, 1, k)
  BY DEF Partly
<1> HIDE DEF a, T, P
<1>5. ASSUME NEW k \in 0..Len(b)
      PROVE  /\ P(k) \in Seq(T) /\ Len(P(k)) = Len(a) + k /\ Len(a) \in Nat
             /\ \A i \in 1..(Len(a) + k) : P(k)[i] = IF i <= Len(a) THEN a[i] ELSE b[i - Len(a)]
  <2> DEFINE c == SubSeq(b, 1, k)
  <2>1. c \in Seq(T) /\ Len(c) = k /\ \A i \in 1..k : c[i] = b[i]
    <3> HIDE DEF b
    <3> QED
      BY <1>2, <1>5
  <2> HIDE DEF b, c
  <2>2. /\ a \o c \in Seq(T) /\ Len(a \o c) = Len(a) + Len(c)
        /\ \A i \in 1..(Len(a) + Len(c)) : (a \o c)[i] = IF i <= Len(a) THEN a[i] ELSE c[i - Len(a)]
    BY <1>2, <2>1, ConcatProperties
  <2>3. Len(a) \in Nat /\ k \in Nat
    BY <1>2, <2>1
  <2>4. CASE k = 0
    BY <1>2, <1>4, <2>3, <2>4
  <2>5. CASE k # 0
    <3>1. P(k) = a \o c
      BY <1>4, <2>5 DEF c
    <3>2. \A i \in 1..(Len(a) + k) : ~(i <= Len(a)) => i - Len(a) \in 1..k
      BY <2>3
    <3> QED
      BY <2>1, <2>2, <2>3, <3>1, <3>2
  <2> QED
    BY <2>4, <2>5
<1> HIDE DEF b
<1>6. m \in 0..Len(b) /\ Len(b) \in Nat /\ Len(b) \in 0..Len(b)
  BY <1>2 DEF b
<1>7. m < Len(b) => Append(P(m), b[m + 1]) = P(m + 1)
  <2> SUFFICES ASSUME m < Len(b)
               PROVE  Append(P(m), b[m + 1]) = P(m + 1)
    OBVIOUS
  <2> DEFINE x == b[m + 1]
             u == P(m)
             v == P(m + 1)
             l == Len(a)
  <2>1. m + 1 \in 0..Len(b) /\ x \in T
    BY <1>2, <1>6
  <2>2. /\ u \in Seq(T) /\ Len(u) = l + m /\ l \in Nat
        /\ \A i \in 1..(l + m) : u[i] = IF i <= l THEN a[i] ELSE b[i - l]
    BY <1>5, <1>6
  <2>3. /\ v \in Seq(T) /\ Len(v) = l + (m + 1)
        /\ \A i \in 1..(l + (m + 1)) : v[i] = IF i <= l THEN a[i] ELSE b[i - l]
    BY <1>5, <2>1
  <2>8. v[l + (m + 1)] = x
    <3>1. l + (m + 1) \in 1..(l + (m + 1)) /\ ~(l + (m + 1) <= l) /\ (l + (m + 1)) - l = m + 1
      BY <1>6, <2>2
    <3> QED
      BY <2>3, <3>1
  <2> HIDE DEF x, u, v, l
  <2>4. /\ Append(u, x) \in Seq(T) /\ Len(Append(u, x)) = l + (m + 1)
        /\ \A i \in 1..(l + m) : Append(u, x)[i] = u[i]
        /\ Append(u, x)[l + (m + 1)] = x
    BY <1>6, <2>1, <2>2, AppendProperties
  <2>5. \A i \in 1..(l + (m + 1)) : Append(u, x)[i] = v[i]
    <3> SUFFICES ASSUME NEW i \in 1..(l + (m + 1))
                 PROVE  Append(u, x)[i] = v[i]
      OBVIOUS
    <3>1. CASE i = l + (m + 1)
      BY <2>4, <2>8, <3>1
    <3>2. CASE i # l + (m + 1)
      <4>1. i \in 1..(l + m)
        BY <1>6, <2>2, <3>2
      <4> QED
        BY <2>2, <2>3, <2>4, <4>1
    <3> QED
      BY <3>1, <3>2
  <2>6. Append(u, x) = v
    BY <2>3, <2>4, <2>5, SeqEqual
  <2> QED
    BY <2>6 DEF x, u, v
<1>8. P(Len(b)) = a \o b
  <2>1. CASE Len(b) = 0
    <3>1. b = <<>>
      BY <1>2, <2>1, EmptySeq
    <3> QED
      BY <1>2, <1>4, <2>1, <3>1, ConcatEmptySeq
  <2>2. CASE Len(b) # 0
    <3>1. SubSeq(b, 1, Len(b)) = b
      BY <1>2, SubSeqFull
    <3> QED
      BY <1>4, <2>2, <3>1
  <2> QED
    BY <2>1, <2>2
<1>9. ASSUME NEW k \in (n + 1)..Len(f)
      PROVE  IsPrefix(P(m), Loaded(f, k, limit))
  <2> DEFINE t == Loaded(f, k, limit)
  <2>1. k \in 0..Len(f)
    BY <1>1
  <2>2. t \in Seq(T) /\ Extends(Loaded(f, n + 1, limit), t)
    BY <1>1, <2>1, LoadedIs DEF T
  <2> HIDE DEF t
  <2>3. Extends(a \o b, t)
    BY <1>3, <2>2
  <2>4. /\ P(Len(b)) \in Seq(T) /\ Len(a \o b) = Len(a) + Len(b) /\ Len(a) \in Nat
        /\ \A i \in 1..(Len(a) + Len(b)) : (a \o b)[i] = IF i <= Len(a) THEN a[i] ELSE b[i - Len(a)]
    BY <1>5, <1>6, <1>8
  <2>5. P(m) \in Seq(T) /\ Len(P(m)) = Len(a) + m
        /\ \A i \in 1..(Len(a) + m) : P(m)[i] = IF i <= Len(a) THEN a[i] ELSE b[i - Len(a)]
    BY <1>5, <1>6
  <2>6. Len(P(m)) <= Len(t)
    BY <1>6, <2>3, <2>4, <2>5 DEF Extends
  <2>7. \A i \in 1..Len(P(m)) : t[i] = P(m)[i]
    <3> SUFFICES ASSUME NEW i \in 1..Len(P(m))
                 PROVE  t[i] = P(m)[i]
      OBVIOUS
    <3>1. i \in 1..(Len(a) + m) /\ i \in 1..(Len(a) + Len(b))
      BY <1>6, <2>4, <2>5
    <3>2. t[i] = (a \o b)[i]
      BY <2>3, <2>4, <3>1 DEF Extends
    <3> QED
      BY <2>4, <2>5, <3>1, <3>2
  <2>8. IsPrefix(P(m), t)
    BY <2>2, <2>5, <2>6, <2>7, PrefixIs
  <2> QED
    BY <2>8 DEF t
<1> QED
  BY <1>3, <1>5, <1>6, <1>7, <1>8, <1>9 DEF P, b, T

-----------------------------------------------------------------------------
\* Where a file ends, and its first records as a file.

\* The first records are read, all n of them.
Good(f, n, limit) == \A i \in 1..n : i \notin Ends(f, limit)

\* Where a file ends.
LEMMA LastIs ==
    ASSUME NEW f \in Files, NEW limit, NEW n \in 0..Len(f), Good(f, n, limit)
    PROVE  /\ LastOf(f, limit) \in n..Len(f)
           /\ n = Len(f) => LastOf(f, limit) = n
           /\ n < Len(f) => LastOf(f, limit) > n
           /\ n + 1 \in Ends(f, limit) => LastOf(f, limit) = n + 1
<1> DEFINE E == Ends(f, limit)
<1>1. Len(f) \in Nat /\ E \in SUBSET (1..Len(f)) /\ E \in SUBSET Nat /\ \A i \in E : i > n
  BY FileIs DEF Ends, Good
<1>2. LastOf(f, limit) = IF E = {} THEN Len(f) ELSE CHOOSE i \in E : \A j \in E : i <= j
  BY Zenon DEF LastOf
<1> HIDE DEF E
<1>3. CASE E = {}
  BY <1>1, <1>2, <1>3 DEF E
<1>4. CASE E # {}
  <2> DEFINE m == CHOOSE i \in E : \A j \in E : i <= j
  <2>1. m \in E /\ \A j \in E : m <= j
    BY <1>1, <1>4, LeastOne
  <2> HIDE DEF m
  <2>2. LastOf(f, limit) = m
    BY <1>2, <1>4 DEF m
  <2>3. n + 1 \in E => m = n + 1
    BY <1>1, <2>1
  <2> QED
    BY <1>1, <2>1, <2>2, <2>3 DEF E
<1> QED
  BY <1>3, <1>4

\* The first records are a file with the same parts.
LEMMA FirstRecords ==
    ASSUME NEW f \in Files, NEW limit, NEW n \in 0..Len(f), n # 0 => Good(f, n - 1, limit)
    PROVE  Image(SubSeq(f, 1, n), limit) = Loaded(f, n, limit)
<1> DEFINE g == SubSeq(f, 1, n)
<1>1. Len(f) \in Nat /\ DOMAIN f = 1..Len(f)
  BY FileIs
<1>2. g = [i \in 1..n |-> f[i]]
  <2>1. f \in Seq([type : Byte, off : 0..(WORD - 1), data : Seq(Byte), bad : BOOLEAN])
    BY HexFiles
  <2> QED
    BY <1>1, <2>1
<1>3. Len(g) = n /\ DOMAIN g = 1..n /\ \A i \in 1..n : g[i] = f[i]
  <2>1. n \in Nat
    BY <1>1
  <2> DEFINE T == {f[i] : i \in 1..n}
  <2>2. g \in [1..n -> T]
    BY <1>2
  <2> HIDE DEF T, g
  <2>3. g \in Seq(T)
    BY <2>1, <2>2
  <2>4. DOMAIN g = 1..n
    BY <2>2
  <2>5. Len(g) = n
    BY <2>1, <2>3, <2>4, LenProperties
  <2> QED
    BY <1>2, <2>4, <2>5
<1> HIDE DEF g
<1>4. LastOf(g, limit) = n
  <2>1. Ends(g, limit) \subseteq {n}
    <3> SUFFICES ASSUME NEW i \in Ends(g, limit), i # n
                 PROVE  FALSE
      OBVIOUS
    <3>1. i \in 1..n /\ g[i] = f[i] /\ (~Reads(g[i], limit) \/ (g[i].type = 0 /\ g[i].bad))
      BY <1>3 DEF Ends
    <3>2. i \in 1..(n - 1) /\ i \in DOMAIN f
      BY <1>1, <3>1
    <3>3. i \in Ends(f, limit)
      BY <3>1, <3>2 DEF Ends
    <3> QED
      BY <1>1, <3>2, <3>3 DEF Good
  <2> DEFINE E == Ends(g, limit)
  <2>2. LastOf(g, limit) = IF E = {} THEN Len(g) ELSE CHOOSE i \in E : \A j \in E : i <= j
    BY Zenon DEF LastOf
  <2>3. E = {} \/ E = {n}
    BY <2>1
  <2> HIDE DEF E
  <2> QED
    BY <1>1, <1>3, <2>2, <2>3
<1>5. ASSUME NEW i \in 1..n
      PROVE  PartOf(g, i, limit) = PartOf(f, i, limit)
  <2>1. BaseOf(g, i) = BaseOf(f, i)
    <3> DEFINE above == {j \in 1..(i - 1) : f[j].type # 0}
               other == {j \in 1..(i - 1) : g[j].type # 0}
               last  == CHOOSE j \in above : \A h \in above : h <= j
    <3>1. i - 1 \in Nat /\ above \in SUBSET (1..(i - 1)) /\ \A j \in 1..(i - 1) : j \in 1..n
      BY <1>1
    <3>2. other = above
      BY <1>3, <3>1
    <3>3. BaseOf(f, i) = IF above = {} THEN RAM
                         ELSE LET r == f[last]
                                  w == hxword(r.data[1], r.data[2]) * WORD
                              IN  IF r.type = LINEAR THEN w ELSE w + hxword(r.data[3], r.data[4])
      BY Zenon DEF BaseOf
    <3>4. BaseOf(g, i) = IF other = {} THEN RAM
                         ELSE LET r == g[CHOOSE j \in other : \A h \in other : h <= j]
                                  w == hxword(r.data[1], r.data[2]) * WORD
                              IN  IF r.type = LINEAR THEN w ELSE w + hxword(r.data[3], r.data[4])
      BY Zenon DEF BaseOf
    <3>5. ASSUME above # {}
          PROVE  g[last] = f[last]
      <4>1. last \in above
        <5> HIDE DEF above
        <5> QED
          BY <3>1, <3>5, GreatestOne
      <4> QED
        BY <1>3, <3>1, <4>1
    <3> HIDE DEF above, other
    <3> QED
      BY <3>2, <3>3, <3>4, <3>5
  <2> QED
    BY <1>3, <2>1 DEF PartOf
<1>6. Image(g, limit) = FlattenSeq([i \in 1..n |-> PartOf(g, i, limit)])
  BY <1>4, Zenon DEF Image
<1>7. [i \in 1..n |-> PartOf(g, i, limit)] = [i \in 1..n |-> PartOf(f, i, limit)]
  BY <1>5
<1> QED
  BY <1>6, <1>7 DEF Loaded, g

LEMMA WholeFile ==
    ASSUME NEW f \in Files, NEW limit
    PROVE  Image(f, limit) = Loaded(f, LastOf(f, limit), limit) /\ SubSeq(f, 1, Len(f)) = f
<1>1. f \in Seq([type : Byte, off : 0..(WORD - 1), data : Seq(Byte), bad : BOOLEAN])
  BY HexFiles
<1>2. SubSeq(f, 1, Len(f)) = f
  BY <1>1, SubSeqFull
<1> QED
  BY <1>2, Zenon DEF Image, Loaded

-----------------------------------------------------------------------------
\* What belongs together on the way through a file.

\* The keys of a command.  (They are strings, but the prover does not know of a
\* string written out that it is one.)
Char == STRING \cup Controls \cup Letters \cup Marks \cup {"N", "f"}
Text == TextOf[cmd]

\* k of the keys have been taken, and the rest wait in the queue or with the user.
Left(k) ==
    /\ k \in Nat /\ rx \in Seq(Char) /\ script \in Seq(Char) /\ k + Len(rx) + Len(script) = Len(Text)
    /\ \A j \in 1..Len(rx) : rx[j] = Text[k + j]
    /\ \A j \in 1..Len(script) : script[j] = Text[k + Len(rx) + j]

\* The line of the command.
Word == IF cmd.kind = "R" THEN 1 ELSE 2

Typing(k) ==
    /\ pc = "getline" /\ ~inner /\ ct = k /\ k <= Word /\ stored = <<>>
    /\ k >= 1 => line[1] = cmd.kind

Entered(k) == pc = "dispatch" /\ ~inner /\ k = Word + 1 /\ stored = <<>> /\ line[1] = cmd.kind

\* The first n records of the file are read.
Have(f, n, limit) == Good(f, n, limit) /\ stored = Loaded(f, n, limit) /\ seg = BaseOf(f, n + 1)

\* xread, before the record after them.
Seeking(f, n, k) ==
    /\ pc = "colon" /\ Have(f, n, BYTE)
    /\ k = 2 + At(f)[n] \/ (n # 0 /\ k = 1 + At(f)[n])

\* xread in record r: its first m bytes, and maybe half of the next one.
Filled(r, m) == IF r.type = 0 /\ m > 4 THEN m - 4 ELSE 0
SegOf(f, n, m) ==
    LET B == RecordBytes(f[n + 1])
        w == hxword(B[5], B[6]) * WORD
    IN  IF f[n + 1].type = 0 \/ m < 6 THEN BaseOf(f, n + 1)
        ELSE IF m < 8 THEN w ELSE w + hxword(B[7], B[8])

InRecord(f, n, m, k) ==
    LET r == f[n + 1]
        B == RecordBytes(r)
    IN  /\ pc = "record" /\ Good(f, n, BYTE)
        /\ m < Width(f, n + 1) /\ bytes \in Seq(Byte) /\ Len(bytes) = m
        /\ \A i \in 1..m : bytes[i] = B[i]
        /\ \/ nibble = None /\ k = 3 + At(f)[n] + 2 * m
           \/ nibble = B[m + 1] \div HEX /\ k = 4 + At(f)[n] + 2 * m
        /\ m >= 1 => Len(r.data) # 0
        /\ m >= 4 => r.type \in {0, LINEAR, ENTRY}
        /\ stored = Partly(f, n, Filled(r, m), BYTE)
        /\ seg = SegOf(f, n, m)

\* xread has ended, and the monitor takes the rest of the file for commands.
Ended(f, k) ==
    /\ pc \in {"getline", "dispatch", "dump", "overrun"} /\ ~inner /\ k >= 2
    /\ stored = Image(f, BYTE)
    /\ pc \in {"getline", "dispatch"} => \A i \in 1..ct : line[i] \in ToSet(Digit) \cup {":"}
    /\ pc = "dispatch" => ct < LINE /\ line[ct + 1] = NUL

Reading(f, k) ==
    \/ Typing(k) \/ Entered(k) \/ Ended(f, k)
    \/ \E n \in 0..Len(f) : Seeking(f, n, k)
    \/ \E n \in 0..(Len(f) - 1), m \in Nat : InRecord(f, n, m, k)

\* xsdread: what is left of the file behind its first q characters.
Behind(f, q) ==
    /\ q \in Nat /\ sdfile \in Seq(Keys) /\ q + Len(sdfile) <= Len(FileText(f))
    /\ cut <=> q + Len(sdfile) < Len(FileText(f))
    /\ \A j \in 1..Len(sdfile) : sdfile[j] = FileText(f)[q + j]

Starting(f, n) == /\ pc = "file" /\ Have(f, n, LEN)
                  /\ Behind(f, At(f)[n]) \/ (n # 0 /\ Behind(f, At(f)[n] - 1))
Sizing(f, n) == pc = "length" /\ Have(f, n, LEN) /\ Behind(f, At(f)[n] + 1)
Taking(f, n) == /\ pc = "rest" /\ Have(f, n, LEN) /\ Behind(f, At(f)[n] + 3)
                /\ len = Len(f[n + 1].data) /\ len \in 1..LEN

Finished(f) ==
    /\ pc = "getline" /\ ~inner /\ ct = 0
    /\ \E n \in 0..Len(f) : stored = Image(SubSeq(f, 1, n), LEN)
    /\ cut \/ stored = Image(f, LEN)

OnCard(f) ==
    \/ Finished(f) \/ \E n \in 0..Len(f) : Starting(f, n)
    \/ \E n \in 0..(Len(f) - 1) : Sizing(f, n) \/ Taking(f, n)

\* The loaders begin with the segment of xread and xsdread.
Resting == pc \in {"getline", "dispatch", "reply", "dump", "program", "tptest"} => seg = RAM

FInv ==
    /\ Resting /\ (clean => cmd \in Commands \cup Followers)
    /\ clean /\ cmd.kind = "R" => \E k \in Nat : Left(k) /\ Reading(cmd.file, k)
    /\ clean /\ cmd.kind = "!" =>
         \/ pc = "overrun"
         \/ \E k \in Nat : Left(k) /\ (Typing(k) \/ Entered(k) \/ (k = Len(Text) /\ OnCard(cmd.file)))

LEMMA LineIs ==
    ASSUME NEW T, NEW s \in Seq(T), "CR" \in T
    PROVE  /\ Line(s) \in Seq(T) /\ Len(Line(s)) = Len(s) + 1 /\ Len(s) \in Nat
           /\ Line(s)[Len(s) + 1] = "CR" /\ \A i \in 1..Len(s) : Line(s)[i] = s[i]
<1> DEFINE z == <<"CR">>
<1>1. z \in Seq(T) /\ Len(z) = 1 /\ z[1] = "CR" /\ Len(s) \in Nat
  OBVIOUS
<1>2. Line(s) = s \o z
  BY DEF Line
<1> HIDE DEF z
<1>3. /\ s \o z \in Seq(T) /\ Len(s \o z) = Len(s) + Len(z)
      /\ \A i \in 1..(Len(s) + Len(z)) : (s \o z)[i] = IF i <= Len(s) THEN s[i] ELSE z[i - Len(s)]
  BY <1>1, ConcatProperties
<1>4. (s \o z)[Len(s) + 1] = "CR"
  <2>1. Len(s) + 1 \in 1..(Len(s) + Len(z)) /\ ~(Len(s) + 1 <= Len(s)) /\ (Len(s) + 1) - Len(s) = 1
    BY <1>1
  <2> QED
    BY <1>1, <1>3, <2>1
<1> QED
  BY <1>1, <1>2, <1>3, <1>4

\* The text of a command that loads a file.
LEMMA TextIs ==
    ASSUME NEW c \in Commands \cup Followers, c.kind = "R"
    PROVE  /\ c.file \in Files /\ TextOf[c] \in Seq(Char) /\ TextOf[c][1] = "R" /\ TextOf[c][2] = "CR"
           /\ Len(TextOf[c]) = 2 + Len(FileText(c.file)) /\ Len(FileText(c.file)) \in Nat
           /\ \A pos \in 1..Len(FileText(c.file)) : TextOf[c][2 + pos] = FileText(c.file)[pos]
<1> DEFINE l == Line(<<"R">>)
           t == FileText(c.file)
<1>1. c.file \in Files
  BY DEF Files
<1>2. TextOf[c] = l \o t
  BY Zenon DEF TextOf
<1>4. l \in Seq(Char) /\ Len(l) = 2 /\ l[1] = "R" /\ l[2] = "CR"
  <2> DEFINE a == <<"R">>
  <2>4. "CR" \in Char /\ "R" \in Char
    BY DEF Char, Controls, Letters
  <2>1. a \in Seq(Char) /\ Len(a) = 1 /\ a[1] = "R" /\ "CR" \in Char
    BY <2>4
  <2> HIDE DEF a
  <2>3. /\ Line(a) \in Seq(Char) /\ Len(Line(a)) = Len(a) + 1
        /\ Line(a)[Len(a) + 1] = "CR" /\ \A i \in 1..Len(a) : Line(a)[i] = a[i]
    BY <2>1, LineIs
  <2>2. Line(a) \in Seq(Char) /\ Len(Line(a)) = 2 /\ Line(a)[1] = "R" /\ Line(a)[2] = "CR"
    <3>1. 1 \in 1..Len(a) /\ Len(a) + 1 = 2
      BY <2>1
    <3> QED
      BY <2>1, <2>3, <3>1
  <2> QED
    BY <2>2 DEF a
<1>5. t \in Seq(Char)
  <2>1. t \in Seq(Keys)
    BY <1>1, FileTextIs DEF Spread
  <2>2. Keys \subseteq Char
    <3>1. ToSet(Digit) \subseteq Char
      BY Alphabet DEF Char, ToSet
    <3>2. ":" \in Char /\ "CR" \in Char
      BY DEF Char, Controls, Marks
    <3> QED
      BY <3>1, <3>2 DEF Keys
  <2> QED
    BY <2>1, <2>2, SeqMonotonic, Zenon
<1> HIDE DEF l, t
<1>6. /\ l \o t \in Seq(Char) /\ Len(l \o t) = Len(l) + Len(t) /\ Len(t) \in Nat
      /\ \A i \in 1..(Len(l) + Len(t)) : (l \o t)[i] = IF i <= Len(l) THEN l[i] ELSE t[i - Len(l)]
  BY <1>4, <1>5, ConcatProperties, LenProperties
<1>7. \A pos \in 1..Len(t) : 2 + pos \in 1..(2 + Len(t)) /\ ~(2 + pos <= 2) /\ (2 + pos) - 2 = pos
  BY <1>6
<1>8. \A pos \in 1..Len(t) : (l \o t)[2 + pos] = t[pos]
  BY <1>4, <1>6, <1>7
<1>9. (l \o t)[1] = "R" /\ (l \o t)[2] = "CR"
  BY <1>4, <1>6
<1> QED
  BY <1>1, <1>2, <1>4, <1>6, <1>8, <1>9 DEF t

LEMMA ShortTextIs ==
    ASSUME NEW c \in Commands \cup Followers, c.kind = "!"
    PROVE  /\ c.file \in Files /\ TextOf[c] \in Seq(Char) /\ Len(TextOf[c]) = 3
           /\ TextOf[c][1] = "!" /\ TextOf[c][2] = "N" /\ TextOf[c][3] = "CR"
<1>1. c.file \in Files
  BY DEF Files
<1>2. TextOf[c] = Line(<<"!", "N">>)
  BY Zenon DEF TextOf
<1> DEFINE a == <<"!", "N">>
<1>3. a \in Seq(Char) /\ Len(a) = 2 /\ a[1] = "!" /\ a[2] = "N" /\ "CR" \in Char
  <2>1. "CR" \in Char /\ "!" \in Char /\ "N" \in Char
    BY DEF Char, Controls, Letters
  <2> QED
    BY <2>1
<1>4. TextOf[c] = Line(a)
  BY <1>2
<1> HIDE DEF a
<1>5. /\ Line(a) \in Seq(Char) /\ Len(Line(a)) = 3
      /\ Line(a)[1] = "!" /\ Line(a)[2] = "N" /\ Line(a)[3] = "CR"
  BY <1>3, LineIs
<1> QED
  BY <1>1, <1>4, <1>5

-----------------------------------------------------------------------------
\* Taking keys.

LEMMA KeyTaken ==
    ASSUME NEW k, Left(k), NEW c, Key(c), UNCHANGED <<script, cmd>>
    PROVE  k \in Nat /\ k < Len(Text) /\ c = Text[k + 1] /\ c \in Char /\ Left(k + 1)'
<1>1. rx # <<>> /\ c = Head(rx) /\ rx' = Tail(rx) /\ rx \in Seq(Char) /\ script \in Seq(Char)
  BY DEF Key, Left
<1>2. /\ Len(rx) \in Nat \ {0} /\ Len(script) \in Nat /\ c = rx[1] /\ c \in Char
      /\ Tail(rx) \in Seq(Char) /\ Len(Tail(rx)) = Len(rx) - 1
      /\ \A j \in 1..(Len(rx) - 1) : Tail(rx)[j] = rx[j + 1]
  BY <1>1, HeadTailProperties, EmptySeq, LenProperties
<1>3. /\ k \in Nat /\ k + Len(rx) + Len(script) = Len(Text) /\ Text' = Text
      /\ \A j \in 1..Len(rx) : rx[j] = Text[k + j]
      /\ \A j \in 1..Len(script) : script[j] = Text[k + Len(rx) + j]
  BY DEF Left, Text
<1>4. c = Text[k + 1] /\ k < Len(Text)
  BY <1>2, <1>3
<1>5. Len(rx') = Len(rx) - 1 /\ rx' \in Seq(Char)
  BY <1>1, <1>2
<1>6. (k + 1) + Len(rx') + Len(script) = Len(Text)
  <2> DEFINE x == Len(rx)
             y == Len(script)
             z == Len(rx')
             t == Len(Text)
  <2>1. k \in Nat /\ x \in Nat /\ y \in Nat /\ z = x - 1 /\ k + x + y = t
    BY <1>2, <1>3, <1>5
  <2> HIDE DEF x, y, z, t
  <2>2. (k + 1) + z + y = t
    BY <2>1
  <2> QED
    BY <2>2 DEF x, y, z, t
<1>7. \A j \in 1..Len(rx') : rx'[j] = Text[(k + 1) + j]
  <2> SUFFICES ASSUME NEW j \in 1..Len(rx')
               PROVE  rx'[j] = Text[(k + 1) + j]
    OBVIOUS
  <2>1. j \in 1..(Len(rx) - 1) /\ j + 1 \in 1..Len(rx) /\ k + (j + 1) = (k + 1) + j
    BY <1>2, <1>3, <1>5
  <2> QED
    BY <1>1, <1>2, <1>3, <2>1
<1>8. \A j \in 1..Len(script) : script[j] = Text[(k + 1) + Len(rx') + j]
  <2> SUFFICES ASSUME NEW j \in 1..Len(script)
               PROVE  script[j] = Text[(k + 1) + Len(rx') + j]
    OBVIOUS
  <2>1. (k + 1) + Len(rx') + j = k + Len(rx) + j
    BY <1>2, <1>3, <1>5
  <2> QED
    BY <1>3, <2>1
<1> QED
  BY <1>1, <1>2, <1>3, <1>4, <1>5, <1>6, <1>7, <1>8 DEF Left

LEMMA KeyPressed ==
    ASSUME NEW k, Left(k), Press, clean'
    PROVE  Left(k)' /\ clean
<1>1. /\ script # <<>> /\ script' = Tail(script) /\ rx' = Append(rx, Head(script)) /\ cmd' = cmd
      /\ rx \in Seq(Char) /\ script \in Seq(Char) /\ clean
  BY DEF Press, Left
<1>2. /\ Len(script) \in Nat \ {0} /\ Len(rx) \in Nat /\ Head(script) = script[1] /\ script[1] \in Char
      /\ Tail(script) \in Seq(Char) /\ Len(Tail(script)) = Len(script) - 1
      /\ \A j \in 1..(Len(script) - 1) : Tail(script)[j] = script[j + 1]
  BY <1>1, HeadTailProperties, EmptySeq, LenProperties
<1>3. /\ k \in Nat /\ k + Len(rx) + Len(script) = Len(Text) /\ Text' = Text
      /\ \A j \in 1..Len(rx) : rx[j] = Text[k + j]
      /\ \A j \in 1..Len(script) : script[j] = Text[k + Len(rx) + j]
  BY <1>1 DEF Left, Text
<1>4. /\ rx' \in Seq(Char) /\ Len(rx') = Len(rx) + 1 /\ rx'[Len(rx) + 1] = script[1]
      /\ \A j \in 1..Len(rx) : rx'[j] = rx[j]
  BY <1>1, <1>2, AppendProperties
<1>5. script' \in Seq(Char) /\ Len(script') = Len(script) - 1 /\ k + Len(rx') + Len(script') = Len(Text)
  BY <1>1, <1>2, <1>3, <1>4
<1>6. \A j \in 1..Len(rx') : rx'[j] = Text[k + j]
  <2> SUFFICES ASSUME NEW j \in 1..Len(rx')
               PROVE  rx'[j] = Text[k + j]
    OBVIOUS
  <2>1. CASE j = Len(rx) + 1
    <3>1. 1 \in 1..Len(script) /\ k + Len(rx) + 1 = k + j
      BY <1>2, <1>3, <2>1
    <3> QED
      BY <1>3, <1>4, <2>1, <3>1
  <2>2. CASE j # Len(rx) + 1
    <3>1. j \in 1..Len(rx)
      BY <1>2, <1>4, <2>2
    <3> QED
      BY <1>3, <1>4, <3>1
  <2> QED
    BY <2>1, <2>2
<1>7. \A j \in 1..Len(script') : script'[j] = Text[k + Len(rx') + j]
  <2> SUFFICES ASSUME NEW j \in 1..Len(script')
               PROVE  script'[j] = Text[k + Len(rx') + j]
    OBVIOUS
  <2>1. j \in 1..(Len(script) - 1) /\ j + 1 \in 1..Len(script) /\ k + Len(rx') + j = k + Len(rx) + (j + 1)
    BY <1>2, <1>3, <1>4, <1>5
  <2> QED
    BY <1>1, <1>2, <1>3, <2>1
<1> QED
  BY <1>1, <1>3, <1>4, <1>5, <1>6, <1>7 DEF Left

\* Which actions go on from where.
LEMMA Steps ==
    ASSUME Next
    PROVE  \/ Begin \/ Press
           \/ pc = "getline" /\ Editing
           \/ pc = "dispatch" /\ (Nothing \/ xdump \/ xsubst \/ xfill \/ xgo \/ xtptest \/ xread \/ xsdread)
           \/ pc = "reply" /\ (AnswerMoves \/ AnswerStores \/ AnswerEnds)
           \/ pc = "dump" /\ (DumpRow \/ DumpBreak \/ DumpEnd)
           \/ pc = "program" /\ ProgramReturns
           \/ pc = "tptest" /\ TpTestEnds
           \/ pc = "colon" /\ Colon
           \/ pc = "record" /\ (HalfByte \/ HeaderByte \/ SegmentByte \/ DataByte \/ SumByte)
           \/ pc = "file" /\ GetStart
           \/ pc = "length" /\ GetLength
           \/ pc = "rest" /\ GetRecord
<1>1. CASE Editing
  BY <1>1 DEF Editing, Backspace, Kill, Ignored, Typed, Enter
<1>2. CASE Commanding \/ ProgramReturns
  BY <1>2, Zenon DEF Commanding, Nothing, xdump, DumpRow, DumpBreak, DumpEnd, xsubst, AnswerMoves, AnswerStores,
                 AnswerEnds, xfill, xgo, xtptest, TpTestEnds, ProgramReturns, Is
<1>3. CASE Receiving
  BY <1>3, Zenon DEF Receiving, xread, Colon, HalfByte, HeaderByte, SegmentByte, DataByte, SumByte, ByteComes, Is
<1>4. CASE Loading
  BY <1>4, Zenon DEF Loading, xsdread, GetStart, GetLength, GetRecord, Is
<1> QED
  BY <1>1, <1>2, <1>3, <1>4 DEF Next

\* Only Begin and Press change the user's variables.
LEMMA UserWaits ==
    ASSUME Next, ~Begin, ~Press
    PROVE  UNCHANGED userVars
<1>1. CASE Editing
  BY <1>1 DEF Editing, Backspace, Kill, Ignored, Typed, Enter
<1>2. CASE Commanding \/ ProgramReturns
  BY <1>2, Zenon DEF Commanding, Nothing, xdump, DumpRow, DumpBreak, DumpEnd, xsubst, AnswerMoves, AnswerStores,
                 AnswerEnds, xfill, xgo, xtptest, TpTestEnds, ProgramReturns
<1>3. CASE Receiving
  BY <1>3 DEF Receiving, xread, Colon, HalfByte, HeaderByte, SegmentByte, DataByte, SumByte, readKeeps
<1>4. CASE Loading
  BY <1>4, Zenon DEF Loading, xsdread, GetStart, GetLength, GetRecord
<1> QED
  BY <1>1, <1>2, <1>3, <1>4 DEF Next

-----------------------------------------------------------------------------
\* The keys of a file that is sent.

Mine == cmd \in Commands \cup Followers /\ cmd.kind = "R"

\* The bytes of record n + 1 come with two digits each.
Digits(f, n) ==
    \A k \in 1..Width(f, n + 1) : /\ Text[2 + At(f)[n] + 2 * k] = High(RecordBytes(f[n + 1])[k])
                                  /\ Text[3 + At(f)[n] + 2 * k] = Low(RecordBytes(f[n + 1])[k])

\* Where record n + 1 lies in the keys of a file that is sent.
LEMMA SentRecord ==
    ASSUME Mine, NEW f, f = cmd.file, NEW n \in 0..(Len(f) - 1)
    PROVE  /\ f \in Files /\ Len(f) \in Nat /\ IsRecord(f[n + 1])
           /\ At(f)[n] \in Nat /\ At(f)[n + 1] = At(f)[n] + 2 * Width(f, n + 1) + 2
           /\ Width(f, n + 1) \in Nat /\ Width(f, n + 1) >= 5
           /\ Text[3 + At(f)[n]] = ":" /\ Text[2 + At(f)[n + 1]] = "CR"
           /\ Digits(f, n)
<1> DEFINE i == n + 1
           T == FileText(f)
           at == At(f)
           w == Width(f, i)
           N == Len(f)
           B == RecordBytes(f[i])
<1>1. f \in Files /\ N \in Nat
  BY TextIs, FileIs DEF Mine
<1>2. i \in 1..N /\ i - 1 = n /\ n \in 0..N /\ N \in 0..N
  BY <1>1
<1>3. IsRecord(f[i]) /\ w \in Nat /\ w >= 5
  BY <1>1, <1>2, FileIs
<1>4. Spread(f, at)
  BY <1>1, FileTextIs
<1>5. /\ at \in [0..N -> Nat] /\ Len(T) = at[N]
      /\ at[i] = at[n] + 2 * w + 2 /\ at[i] <= at[N]
      /\ T[at[n] + 1] = ":" /\ T[at[i]] = "CR"
      /\ \A k \in 1..w : T[at[n] + 2 * k] = High(B[k]) /\ T[at[n] + 2 * k + 1] = Low(B[k])
  BY <1>2, <1>4 DEF Spread
<1>6. \A pos \in 1..Len(T) : Text[2 + pos] = T[pos]
  BY TextIs DEF Mine, Text
<1> HIDE DEF i, T, at, w, N, B
<1>7. at[n] \in Nat /\ at[N] \in Nat
  BY <1>2, <1>5
<1>11. at[n] + 2 * w + 2 <= Len(T) /\ Len(T) \in Nat
  BY <1>3, <1>5, <1>7
<1>8. \A pos \in 1..(2 * w + 2) : Text[2 + (at[n] + pos)] = T[at[n] + pos]
  <2> SUFFICES ASSUME NEW pos \in 1..(2 * w + 2)
               PROVE  Text[2 + (at[n] + pos)] = T[at[n] + pos]
    OBVIOUS
  <2>1. at[n] + pos \in 1..Len(T)
    BY <1>3, <1>7, <1>11
  <2> QED
    BY <1>6, <2>1
<1>9. Text[3 + at[n]] = ":" /\ Text[2 + at[i]] = "CR"
  <2>1. 1 \in 1..(2 * w + 2) /\ 2 * w + 2 \in 1..(2 * w + 2) /\ 2 + (at[n] + 1) = 3 + at[n]
        /\ at[n] + (2 * w + 2) = at[i]
    BY <1>3, <1>5, <1>7
  <2>2. Text[2 + (at[n] + 1)] = T[at[n] + 1] /\ Text[2 + (at[n] + (2 * w + 2))] = T[at[n] + (2 * w + 2)]
    BY <1>8, <2>1
  <2> QED
    BY <1>5, <2>1, <2>2
<1>10. ASSUME NEW k \in 1..w
       PROVE  Text[2 + at[n] + 2 * k] = High(B[k]) /\ Text[3 + at[n] + 2 * k] = Low(B[k])
  <2>1. /\ 2 * k \in 1..(2 * w + 2) /\ 2 * k + 1 \in 1..(2 * w + 2)
        /\ 2 + (at[n] + 2 * k) = 2 + at[n] + 2 * k /\ 2 + (at[n] + (2 * k + 1)) = 3 + at[n] + 2 * k
        /\ at[n] + (2 * k + 1) = at[n] + 2 * k + 1
    BY <1>3, <1>7
  <2>2. Text[2 + (at[n] + 2 * k)] = T[at[n] + 2 * k] /\ Text[2 + (at[n] + (2 * k + 1))] = T[at[n] + (2 * k + 1)]
    BY <1>8, <2>1
  <2> QED
    BY <1>5, <2>1, <2>2
<1>12. Digits(f, n)
  BY <1>10 DEF Digits, i, at, w, B
<1> QED
  BY <1>1, <1>3, <1>5, <1>7, <1>9, <1>12 DEF i, at, w, N, B

\* The bases are numbers.
LEMMA BaseIs ==
    ASSUME NEW f \in Files, NEW limit, NEW n \in 0..Len(f), Good(f, n, limit)
    PROVE  BaseOf(f, n + 1) \in Int
<1> DEFINE S == {k \in Nat : BaseOf(f, k + 1) \in Int}
<1>1. Len(f) \in Nat /\ n \in Nat /\ DOMAIN f = 1..Len(f)
  BY FileIs
<1>2. RAM \in Int
  <2>1. TOP \in Int
    BY Sizes DEF TOP
  <2>2. HEX \div 2 \in Int
    BY Sizes
  <2> QED
    BY <2>1, <2>2 DEF RAM
<1>3. ASSUME NEW i \in 1..Len(f), f[i].type \in {0, LINEAR, ENTRY}, BaseOf(f, i) \in Int
      PROVE  BaseOf(f, i + 1) \in Int /\ BaseOf(f, 1) = RAM
  <2>1. IsRecord(f[i]) /\ (f[i].type = LINEAR => Len(f[i].data) = 2) /\ (f[i].type = ENTRY => Len(f[i].data) = 4)
    BY FileIs
  <2>2. f[i].data \in Seq(Byte) /\ WORD \in Int /\ BYTE \in Int /\ Byte \subseteq Int
    BY <2>1, Sizes DEF IsRecord, Byte
  <2>3. \A a, b \in Byte : hxword(a, b) \in Int
    BY <2>2 DEF hxword
  <2>4. f[i].type \in {LINEAR, ENTRY} => f[i].data[1] \in Byte /\ f[i].data[2] \in Byte
    BY <2>1, <2>2, ElementOfSeq
  <2>5. f[i].type = ENTRY => f[i].data[3] \in Byte /\ f[i].data[4] \in Byte
    BY <2>1, <2>2, ElementOfSeq
  <2>6. f[i].type \in {LINEAR, ENTRY} => hxword(f[i].data[1], f[i].data[2]) * WORD \in Int
    <3> SUFFICES ASSUME f[i].type \in {LINEAR, ENTRY}
                 PROVE  hxword(f[i].data[1], f[i].data[2]) * WORD \in Int
      OBVIOUS
    <3> DEFINE x == hxword(f[i].data[1], f[i].data[2])
    <3>1. x \in Int
      BY <2>3, <2>4
    <3> HIDE DEF x
    <3>2. x * WORD \in Int
      BY <2>2, <3>1
    <3> QED
      BY <3>2 DEF x
  <2>7. f[i].type = ENTRY => hxword(f[i].data[3], f[i].data[4]) \in Int
    BY <2>3, <2>5
  <2> QED
    BY <1>3, <2>6, <2>7, NextBase
<1>4. CASE n = 0
  <2>1. BaseOf(f, 1) = RAM
    <3>1. {j \in 1..(1 - 1) : f[j].type # 0} = {}
      OBVIOUS
    <3> QED
      BY <3>1 DEF BaseOf
  <2> QED
    BY <1>2, <1>4, <2>1
<1>5. CASE n # 0
  <2>1. 0 \in S
    <3>1. {j \in 1..(0 + 1 - 1) : f[j].type # 0} = {}
      OBVIOUS
    <3>2. BaseOf(f, 0 + 1) = RAM
      BY <3>1 DEF BaseOf
    <3> QED
      BY <1>2, <3>2
  <2>2. ASSUME NEW k \in 0..(n - 1), k \in S
        PROVE  k + 1 \in S
    <3>1. k + 1 \in 1..Len(f) /\ k + 1 \in 1..n
      BY <1>1
    <3>2. f[k + 1].type \in {0, LINEAR, ENTRY}
      BY <1>1, <3>1 DEF Good, Ends, Reads
    <3>3. BaseOf(f, (k + 1) + 1) \in Int
      BY <1>3, <2>2, <3>1, <3>2
    <3> QED
      BY <1>1, <3>3
  <2> HIDE DEF S
  <2>3. n \in S
    <3>1. n \in 0..n
      BY <1>1
    <3> QED
      BY <1>1, <2>1, <2>2, <3>1, Climb
  <2> QED
    BY <2>3 DEF S
<1> QED
  BY <1>4, <1>5

-----------------------------------------------------------------------------
\* xread, key by key.

\* Typing the line of a command, of either kind.
LEMMA WordTyped ==
    ASSUME IInv, cmd \in Commands \cup Followers, cmd.kind \in {"R", "!"},
           NEW k \in Nat, Left(k), Typing(k), Editing, UNCHANGED userVars
    PROVE  Left(k + 1)' /\ (Typing(k + 1)' \/ Entered(k + 1)' \/ (cmd.kind = "!" /\ pc' = "overrun"))
<1>1. UNCHANGED <<script, cmd>> /\ Word' = Word /\ Word \in {1, 2}
  BY DEF userVars, Word
<1>2. /\ Text[1] = cmd.kind /\ (cmd.kind = "!" => Text[2] = "N") /\ Text[Word + 1] = "CR"
  BY TextIs, ShortTextIs DEF Text, Word
<1>3. /\ pc = "getline" /\ ~inner /\ ct = k /\ k <= Word /\ stored = <<>> /\ (k >= 1 => line[1] = cmd.kind)
      /\ (cmd.kind = "R" => Word = 1)
  BY DEF Typing, Word
<1>4. \A c : Key(c) => c = Text[k + 1] /\ Left(k + 1)'
  BY <1>1, KeyTaken
<1>5. Text[k + 1] \in IF k = Word THEN {"CR"} ELSE {"R", "!", "N"}
  <2>1. k = 0 \/ k = 1 \/ k = 2
    BY <1>1, <1>3
  <2> QED
    BY <1>1, <1>2, <1>3, <2>1
<1>6. /\ Array(line, Room) /\ LINE > 1 /\ LINE <= Room /\ LINE \in Nat /\ Room \in Nat
  BY Rooms DEF IInv, Counts
<1>7. ~Backspace /\ ~Kill /\ ~Ignored
  BY <1>4, <1>5 DEF Backspace, Kill, Ignored
<1>8. CASE Typed
  <2>1. PICK c \in {rx[i] : i \in DOMAIN rx} \ Controls :
          /\ Key(c)
          /\ IF ct = LINE THEN pc' = "overrun" /\ UNCHANGED editVars
             ELSE line' = [line EXCEPT ![ct + 1] = ToUpper(c)] /\ ct' = ct + 1 /\ UNCHANGED <<pc, inner>>
    BY <1>8 DEF Typed
  <2>2. c = Text[k + 1] /\ Left(k + 1)' /\ c \notin Controls
    BY <1>4, <2>1
  <2>3. k # Word /\ k < Word
    BY <1>1, <1>3, <1>5, <2>2 DEF Controls
  <2>4. ct # LINE /\ ct + 1 \in 1..Room
    BY <1>1, <1>3, <1>6, <2>3
  <2>5. line'[1] = cmd.kind
    <3>1. CASE k = 0
      <4>1. c = cmd.kind
        BY <1>2, <2>2, <3>1
      <4>2. ToUpper(c) = c
        BY <4>1, Alphabet DEF ToUpper, Letters
      <4>3. line' = [line EXCEPT ![1] = c] /\ 1 \in DOMAIN line
        BY <1>3, <1>6, <2>1, <2>4, <3>1, <4>2 DEF Array
      <4> QED
        BY <4>1, <4>3
    <3>2. CASE k # 0
      <4>1. k >= 1 /\ ct + 1 # 1
        BY <1>3, <3>2
      <4>2. line'[1] = line[1]
        BY <1>6, <2>1, <2>4, <4>1 DEF Array
      <4> QED
        BY <1>3, <4>1, <4>2
    <3> QED
      BY <3>1, <3>2
  <2>6. stored' = stored /\ k + 1 <= Word
    BY <1>1, <1>8, <2>3 DEF Typed, seenVars
  <2>7. Typing(k + 1)'
    BY <1>1, <1>3, <2>1, <2>4, <2>5, <2>6 DEF Typing
  <2> QED
    BY <2>2, <2>7
<1>9. CASE Enter
  <2>1. PICK c \in {"CR", "LF"} : Key(c)
    BY <1>9 DEF Enter
  <2>2. c = Text[k + 1] /\ Left(k + 1)'
    BY <1>4, <2>1
  <2>3. k = Word
    BY <1>5, <2>2
  <2>4. stored' = stored /\ inner' = inner
    BY <1>9 DEF Enter, seenVars
  <2>5. CASE ct = LINE
    <3>1. pc' = "overrun" /\ cmd.kind = "!"
      BY <1>3, <1>6, <1>9, <2>3, <2>5 DEF Enter
    <3> QED
      BY <2>2, <3>1
  <2>6. CASE ct # LINE
    <3>1. line' = [line EXCEPT ![ct + 1] = NUL] /\ pc' = "dispatch" /\ ct + 1 # 1
      BY <1>1, <1>3, <1>9, <2>3, <2>6 DEF Enter
    <3>2. line'[1] = line[1]
      BY <1>6, <3>1 DEF Array
    <3>3. Entered(k + 1)'
      BY <1>1, <1>3, <2>3, <2>4, <3>1, <3>2 DEF Entered
    <3> QED
      BY <2>2, <3>3
  <2> QED
    BY <2>5, <2>6
<1> QED
  BY <1>7, <1>8, <1>9 DEF Editing

\* xread begins.
LEMMA ReadBegins ==
    ASSUME Mine, NEW f, f = cmd.file, NEW k \in Nat, Left(k), Entered(k), UNCHANGED userVars,
           Nothing \/ xdump \/ xsubst \/ xfill \/ xgo \/ xtptest \/ xread \/ xsdread
    PROVE  Left(k)' /\ Seeking(f, 0, k)'
<1>1. line[1] = "R" /\ k = 2 /\ stored = <<>>
  BY DEF Entered, Word, Mine
<1>2. xread
  BY <1>1 DEF Nothing, xdump, xsubst, xfill, xgo, xtptest, xsdread, Is, Letters
<1>3. pc' = "colon" /\ seg' = RAM /\ stored' = stored /\ UNCHANGED <<rx, script, cmd>>
  BY <1>2 DEF xread, userVars
<1>4. Left(k)'
  BY <1>3 DEF Left, Text
<1>5. f \in Files /\ Len(f) \in Nat
  BY TextIs, FileIs DEF Mine
<1>6. At(f)[0] = 0
  BY <1>5, FileTextIs DEF Spread
<1>7. Loaded(f, 0, BYTE) = <<>>
  BY <1>5, LoadedIs
<1>8. BaseOf(f, 0 + 1) = RAM
  <2>1. {j \in 1..(0 + 1 - 1) : f[j].type # 0} = {}
    OBVIOUS
  <2> QED
    BY <2>1 DEF BaseOf
<1>9. Seeking(f, 0, k)'
  BY <1>1, <1>3, <1>6, <1>7, <1>8 DEF Seeking, Have, Good
<1> QED
  BY <1>4, <1>9

\* A colon begins the next record; the end of the line before it is passed over.
LEMMA ColonRead ==
    ASSUME Mine, NEW f, f = cmd.file, NEW n \in 0..Len(f), NEW k \in Nat, Left(k), Seeking(f, n, k), Colon,
           UNCHANGED userVars
    PROVE  Left(k + 1)' /\ (Seeking(f, n, k + 1)' \/ (n \in 0..(Len(f) - 1) /\ InRecord(f, n, 0, k + 1)'))
<1>1. UNCHANGED <<script, cmd, stored, seg>>
  BY DEF Colon, userVars
<1>2. PICK c : Key(c) /\ pc' = (IF c = ":" THEN "record" ELSE "colon") /\ bytes' = <<>> /\ nibble' = None
  BY DEF Colon
<1>3. c = Text[k + 1] /\ Left(k + 1)' /\ k < Len(Text)
  BY <1>1, <1>2, KeyTaken
<1>4. f \in Files /\ Len(f) \in Nat /\ Spread(f, At(f)) /\ Len(Text) = 2 + Len(FileText(f))
  BY TextIs, FileIs, FileTextIs DEF Mine, Text
<1>5. Have(f, n, BYTE) /\ (k = 2 + At(f)[n] \/ (n # 0 /\ k = 1 + At(f)[n]))
  BY DEF Seeking
<1>6. Have(f, n, BYTE)'
  BY <1>1, <1>5 DEF Have
<1>7. CASE n # 0 /\ k = 1 + At(f)[n]
  <2>1. n - 1 \in 0..(Len(f) - 1) /\ (n - 1) + 1 = n
    BY <1>4, <1>7
  <2>2. Text[2 + At(f)[n]] = "CR" /\ At(f)[n] \in Nat
    <3>1. Text[2 + At(f)[(n - 1) + 1]] = "CR"
      BY <2>1, SentRecord
    <3>2. n \in 0..Len(f) /\ At(f) \in [0..Len(f) -> Nat]
      BY <1>4 DEF Spread
    <3> QED
      BY <2>1, <3>1, <3>2
  <2>3. k + 1 = 2 + At(f)[n]
    BY <1>7, <2>2
  <2>4. pc' = "colon"
    BY <1>2, <1>3, <2>2, <2>3
  <2> QED
    BY <1>3, <1>6, <2>3, <2>4 DEF Seeking
<1>8. CASE k = 2 + At(f)[n]
  <2>1. n # Len(f)
    BY <1>3, <1>4, <1>8 DEF Spread
  <2>2. n \in 0..(Len(f) - 1)
    BY <1>4, <2>1
  <2>3. Text[3 + At(f)[n]] = ":" /\ At(f)[n] \in Nat /\ Width(f, n + 1) \in Nat /\ Width(f, n + 1) >= 5
    BY <2>2, SentRecord
  <2>4. k + 1 = 3 + At(f)[n] + 2 * 0
    BY <1>8, <2>3
  <2>5. pc' = "record"
    BY <1>2, <1>3, <2>3, <2>4
  <2>6. bytes' \in Seq(Byte) /\ Len(bytes') = 0
    BY <1>2
  <2>7. Filled(f[n + 1], 0) = 0 /\ SegOf(f, n, 0) = BaseOf(f, n + 1)
    BY DEF Filled, SegOf
  <2>8. stored' = Partly(f, n, 0, BYTE) /\ seg' = BaseOf(f, n + 1) /\ Good(f, n, BYTE)
    BY <1>6 DEF Have, Partly
  <2>9. InRecord(f, n, 0, k + 1)'
    BY <1>2, <2>3, <2>4, <2>5, <2>6, <2>7, <2>8 DEF InRecord
  <2> QED
    BY <1>3, <2>2, <2>9
<1> QED
  BY <1>5, <1>7, <1>8

-----------------------------------------------------------------------------
\* The bytes of a record, from their halves.

\* A half of a byte, or a whole one, of the record comes.
LEMMA HalfComes ==
    ASSUME Mine, NEW f, f = cmd.file, NEW n \in 0..(Len(f) - 1), NEW m \in Nat, NEW k \in Nat,
           Left(k), InRecord(f, n, m, k), HalfByte, UNCHANGED userVars
    PROVE  Left(k + 1)' /\ InRecord(f, n, m, k + 1)'
<1> DEFINE B == RecordBytes(f[n + 1])
           a == At(f)[n]
<1>1. UNCHANGED <<script, cmd, stored, seg, pc, bytes>> /\ nibble = None
  BY DEF HalfByte, userVars
<1>2. PICK c : Key(c) /\ nibble' = hx1(c)
  BY DEF HalfByte
<1>3. c = Text[k + 1] /\ Left(k + 1)'
  BY <1>1, <1>2, KeyTaken
<1>4. m < Width(f, n + 1) /\ m + 1 \in 1..Width(f, n + 1) /\ a \in Nat /\ IsRecord(f[n + 1])
      /\ Text[2 + a + 2 * (m + 1)] = High(B[m + 1]) /\ Width(f, n + 1) \in Nat
  <2>1. m < Width(f, n + 1)
    BY DEF InRecord
  <2>2. Width(f, n + 1) \in Nat /\ a \in Nat /\ IsRecord(f[n + 1])
        /\ Digits(f, n)
    BY SentRecord
  <2>3. m + 1 \in 1..Width(f, n + 1)
    BY <2>1, <2>2
  <2> QED
    BY <2>1, <2>2, <2>3 DEF Digits
<1>5. B[m + 1] \in Byte
  <2>1. B \in Seq(Byte) /\ Len(B) = Width(f, n + 1)
    BY <1>4, RecordBytesAre DEF Width
  <2> HIDE DEF B
  <2> QED
    BY <1>4, <2>1
<1>6. hx1(High(B[m + 1])) = B[m + 1] \div HEX /\ B[m + 1] \div HEX # None
  <2>1. /\ hx1(High(B[m + 1])) = B[m + 1] \div HEX /\ B[m + 1] \div HEX \in 0..(HEX - 1)
    BY <1>5, Halves
  <2>2. None \notin 0..(HEX - 1)
    BY Sizes DEF None
  <2> QED
    BY <2>1, <2>2, Zenon
<1> HIDE DEF a
<1>7. k = 3 + a + 2 * m
  BY <1>1, <1>6 DEF InRecord, a
<1>8. k + 1 = 2 + a + 2 * (m + 1) /\ k + 1 = 4 + a + 2 * m
  <2>1. a \in Nat /\ k = 3 + a + 2 * m
    BY <1>4, <1>7
  <2> QED
    BY <2>1
<1>9. nibble' = B[m + 1] \div HEX
  BY <1>2, <1>3, <1>4, <1>6, <1>8
<1> HIDE DEF B
<1>10. InRecord(f, n, m, k + 1)'
  BY <1>1, <1>8, <1>9 DEF InRecord, a, B
<1> QED
  BY <1>3, <1>10

Whole(f, n, m, k, i, b) ==
    /\ i = m + 1 /\ b = RecordBytes(f[n + 1])[m + 1] /\ b \in Byte /\ Left(k + 1)'
    /\ k + 1 = 3 + At(f)[n] + 2 * (m + 1)
    /\ RecordBytes(f[n + 1]) \in Seq(Byte) /\ Len(RecordBytes(f[n + 1])) = Width(f, n + 1)
    /\ m + 1 \in 1..Width(f, n + 1)

LEMMA WholeComes ==
    ASSUME Mine, NEW f, f = cmd.file, NEW n \in 0..(Len(f) - 1), NEW m \in Nat, NEW k \in Nat,
           Left(k), InRecord(f, n, m, k), NEW i, NEW b, ByteComes(i, b), UNCHANGED userVars
    PROVE  Whole(f, n, m, k, i, b)
<1> DEFINE B == RecordBytes(f[n + 1])
           a == At(f)[n]
<1>1. UNCHANGED <<script, cmd>> /\ nibble # None /\ i = m + 1
  BY DEF ByteComes, userVars, InRecord
<1>2. PICK c : Key(c) /\ b = nibble * HEX + hx1(c)
  BY DEF ByteComes
<1>3. c = Text[k + 1] /\ Left(k + 1)'
  BY <1>1, <1>2, KeyTaken
<1>4. m < Width(f, n + 1) /\ m + 1 \in 1..Width(f, n + 1) /\ a \in Nat /\ IsRecord(f[n + 1])
      /\ Text[3 + a + 2 * (m + 1)] = Low(B[m + 1]) /\ Width(f, n + 1) \in Nat
  <2>1. m < Width(f, n + 1)
    BY DEF InRecord
  <2>2. Width(f, n + 1) \in Nat /\ a \in Nat /\ IsRecord(f[n + 1])
        /\ Digits(f, n)
    BY SentRecord
  <2>3. m + 1 \in 1..Width(f, n + 1)
    BY <2>1, <2>2
  <2> QED
    BY <2>1, <2>2, <2>3 DEF Digits
<1>10. B \in Seq(Byte) /\ Len(B) = Width(f, n + 1)
  BY <1>4, RecordBytesAre DEF Width
<1>5. B[m + 1] \in Byte
  <2> HIDE DEF B
  <2> QED
    BY <1>4, <1>10
<1>6. hx1(High(B[m + 1])) = B[m + 1] \div HEX /\ hx1(Low(B[m + 1])) = B[m + 1] % HEX
      /\ hxbyte(High(B[m + 1]), Low(B[m + 1])) = B[m + 1]
  BY <1>5, Halves
<1> HIDE DEF a
<1>7. nibble = B[m + 1] \div HEX /\ k = 4 + a + 2 * m
  BY <1>1 DEF InRecord, a
<1>8. k + 1 = 3 + a + 2 * (m + 1)
  BY <1>4, <1>7
<1>9. b = B[m + 1]
  <2>1. c = Low(B[m + 1])
    BY <1>3, <1>4, <1>8
  <2>2. b = hx1(High(B[m + 1])) * HEX + hx1(Low(B[m + 1]))
    BY <1>2, <1>6, <1>7, <2>1
  <2> QED
    BY <1>6, <2>2, Zenon DEF hxbyte
<1> QED
  BY <1>1, <1>3, <1>4, <1>5, <1>8, <1>9, <1>10 DEF Whole, a, B

\* The byte is put behind those before it.
LEMMA Collected ==
    ASSUME NEW B \in Seq(Byte), NEW m \in Nat, m + 1 <= Len(B), bytes \in Seq(Byte), Len(bytes) = m,
           \A i \in 1..m : bytes[i] = B[i]
    PROVE  /\ Append(bytes, B[m + 1]) \in Seq(Byte) /\ Len(Append(bytes, B[m + 1])) = m + 1
           /\ \A i \in 1..(m + 1) : Append(bytes, B[m + 1])[i] = B[i]
<1> DEFINE x == B[m + 1]
<1>1. x \in Byte
  OBVIOUS
<1> HIDE DEF x
<1>2. /\ Append(bytes, x) \in Seq(Byte) /\ Len(Append(bytes, x)) = m + 1
      /\ Append(bytes, x)[m + 1] = x /\ \A i \in 1..m : Append(bytes, x)[i] = bytes[i]
  BY <1>1, AppendProperties
<1>3. \A i \in 1..(m + 1) : i = m + 1 \/ i \in 1..m
  OBVIOUS
<1>4. \A i \in 1..(m + 1) : Append(bytes, x)[i] = B[i]
  BY <1>2, <1>3 DEF x
<1> QED
  BY <1>2, <1>4 DEF x

\* The record ends the file: what has come of it stays, and what it would have
\* stored is all there.
LEMMA FileEnds ==
    ASSUME Mine, NEW f, f = cmd.file, NEW n \in 0..(Len(f) - 1), NEW k \in Nat, k >= 2,
           Good(f, n, BYTE), n + 1 \in Ends(f, BYTE), stored' = Loaded(f, n + 1, BYTE), Prompt
    PROVE  Ended(f, k)'
<1>1. f \in Files /\ Len(f) \in Nat
  BY SentRecord
<1>2. n \in 0..Len(f) /\ n + 1 \in Ends(f, BYTE)
  BY <1>1
<1>3. LastOf(f, BYTE) = n + 1
  BY <1>1, <1>2, LastIs
<1>4. stored' = Image(f, BYTE)
  BY <1>1, <1>3, WholeFile
<1>5. pc' = "getline" /\ inner' = FALSE /\ ct' = 0
  BY DEF Prompt, Return
<1> QED
  BY <1>4, <1>5 DEF Ended

-----------------------------------------------------------------------------
\* Header and address records.

\* A record without data stores nothing, and so does one that is not read.
LEMMA NothingStored ==
    ASSUME NEW f \in Files, NEW limit, NEW n \in 0..(Len(f) - 1),
           f[n + 1].type # 0 \/ ~Reads(f[n + 1], limit)
    PROVE  Loaded(f, n + 1, limit) = Loaded(f, n, limit)
<1>1. n + 1 \in 1..Len(f) /\ n + 1 \in 0..Len(f) /\ (n + 1) - 1 = n /\ n + 1 # 0 /\ n \in 0..Len(f)
  BY FileIs
<1>2. PartOf(f, n + 1, limit) = <<>>
  BY <1>1, PartIs
<1>3. Loaded(f, n + 1, limit) = Loaded(f, n, limit) \o PartOf(f, n + 1, limit)
  BY <1>1, LoadedIs
<1>4. Loaded(f, n, limit) \in Seq(Spots(f, limit))
  BY <1>1, LoadedIs
<1> QED
  BY <1>2, <1>3, <1>4, ConcatEmptySeq

\* The record goes on, or the next one is sought.
LEMMA OneMore ==
    ASSUME Mine, NEW f, f = cmd.file, NEW n \in 0..(Len(f) - 1), NEW m \in Nat, NEW k \in Nat,
           InRecord(f, n, m, k), m + 1 < Width(f, n + 1), k + 1 = 3 + At(f)[n] + 2 * (m + 1),
           pc' = "record", bytes' = Append(bytes, RecordBytes(f[n + 1])[m + 1]), nibble' = None,
           Len(f[n + 1].data) # 0, m + 1 >= 4 => f[n + 1].type \in {0, LINEAR, ENTRY},
           stored' = Partly(f, n, Filled(f[n + 1], m + 1), BYTE), seg' = SegOf(f, n, m + 1)
    PROVE  InRecord(f, n, m + 1, k + 1)'
<1> DEFINE B == RecordBytes(f[n + 1])
<1>1. B \in Seq(Byte) /\ Len(B) = Width(f, n + 1) /\ Width(f, n + 1) \in Nat
  BY SentRecord, RecordBytesAre DEF Width
<1>2. bytes \in Seq(Byte) /\ Len(bytes) = m /\ (\A i \in 1..m : bytes[i] = B[i]) /\ Good(f, n, BYTE)
  BY DEF InRecord
<1>3. bytes' = Append(bytes, B[m + 1]) /\ m + 1 <= Len(B)
  BY <1>1
<1> HIDE DEF B
<1>4. bytes' \in Seq(Byte) /\ Len(bytes') = m + 1 /\ \A i \in 1..(m + 1) : bytes'[i] = B[i]
  <2>1. Append(bytes, B[m + 1]) \in Seq(Byte) /\ Len(Append(bytes, B[m + 1])) = m + 1
        /\ \A i \in 1..(m + 1) : Append(bytes, B[m + 1])[i] = B[i]
    BY <1>1, <1>2, <1>3, Collected
  <2> QED
    BY <1>3, <2>1, Zenon
<1> QED
  BY <1>2, <1>4 DEF InRecord, B

LEMMA NextSought ==
    ASSUME Mine, NEW f, f = cmd.file, NEW n \in 0..(Len(f) - 1), NEW k \in Nat, Good(f, n, BYTE),
           n + 1 \notin Ends(f, BYTE), k + 1 = 3 + At(f)[n] + 2 * Width(f, n + 1), pc' = "colon",
           stored' = Loaded(f, n + 1, BYTE), seg' = BaseOf(f, (n + 1) + 1)
    PROVE  Seeking(f, n + 1, k + 1)'
<1>1. At(f)[n] \in Nat /\ At(f)[n + 1] = At(f)[n] + 2 * Width(f, n + 1) + 2 /\ Width(f, n + 1) \in Nat
      /\ Len(f) \in Nat
  BY SentRecord
<1>2. k + 1 = 1 + At(f)[n + 1] /\ n + 1 # 0
  BY <1>1
<1>3. Good(f, n + 1, BYTE)
  <2>1. \A i \in 1..(n + 1) : i = n + 1 \/ i \in 1..n
    BY <1>1
  <2> QED
    BY <2>1 DEF Good
<1> QED
  BY <1>2, <1>3 DEF Seeking, Have

\* What is known of the record at its byte m + 1.
InByte(f, n, m) ==
    LET r == f[n + 1]
        B == RecordBytes(r)
    IN  /\ IsRecord(r) /\ Len(r.data) \in Nat /\ Width(f, n + 1) = 5 + Len(r.data)
        /\ B[1] = Len(r.data) /\ B[4] = r.type /\ hxword(B[2], B[3]) = r.off
        /\ \A i \in 1..m : bytes[i] = B[i]
        /\ \A i \in 1..Len(r.data) : B[4 + i] = r.data[i]
        /\ SumOf(B) = 0 <=> ~r.bad
        /\ Len(bytes) = m /\ Good(f, n, BYTE)
        /\ m >= 1 => Len(r.data) # 0
        /\ m >= 4 => r.type \in {0, LINEAR, ENTRY}
        /\ stored = Partly(f, n, Filled(r, m), BYTE) /\ seg = SegOf(f, n, m)

LEMMA InByteIs ==
    ASSUME Mine, NEW f, f = cmd.file, NEW n \in 0..(Len(f) - 1), NEW m \in Nat, NEW k, InRecord(f, n, m, k)
    PROVE  InByte(f, n, m)
<1>1. IsRecord(f[n + 1])
  BY SentRecord
<1> DEFINE r == f[n + 1]
           B == RecordBytes(r)
<1>2. /\ Len(r.data) \in Nat /\ B[1] = Len(r.data) /\ B[4] = r.type /\ hxword(B[2], B[3]) = r.off
      /\ \A i \in 1..Len(r.data) : B[4 + i] = r.data[i]
      /\ SumOf(B) = 0 <=> ~r.bad
  BY <1>1, RecordBytesAre
<1>3. /\ \A i \in 1..m : bytes[i] = B[i]
      /\ Len(bytes) = m /\ Good(f, n, BYTE)
      /\ m >= 1 => Len(r.data) # 0
      /\ m >= 4 => r.type \in {0, LINEAR, ENTRY}
      /\ stored = Partly(f, n, Filled(r, m), BYTE) /\ seg = SegOf(f, n, m)
  BY DEF InRecord
<1> HIDE DEF B
<1> QED
  BY <1>1, <1>2, <1>3 DEF InByte, B, Width

LEMMA HeaderRead ==
    ASSUME Mine, NEW f, f = cmd.file, NEW n \in 0..(Len(f) - 1), NEW m \in Nat, NEW k \in Nat, k >= 2,
           Left(k), InRecord(f, n, m, k), HeaderByte
    PROVE  Left(k + 1)' /\ (InRecord(f, n, m + 1, k + 1)' \/ Ended(f, k + 1)')
<1> DEFINE r == f[n + 1]
           B == RecordBytes(r)
<1>1. UNCHANGED <<userVars, stored>>
  BY DEF HeaderByte, seenVars
<1>2. PICK i \in 1..4, b \in Byte :
         /\ ByteComes(i, b)
         /\ IF (i = 1 /\ b = 0) \/ (i = 4 /\ b \notin {0, LINEAR, ENTRY}) THEN Prompt
            ELSE Collect(b) /\ pc' = pc /\ seg' = seg
  BY DEF HeaderByte
<1>3. /\ i = m + 1 /\ b = B[m + 1] /\ Left(k + 1)' /\ k + 1 = 3 + At(f)[n] + 2 * (m + 1)
  <2>1. Whole(f, n, m, k, i, b)
    BY <1>1, <1>2, WholeComes
  <2> QED
    BY <2>1 DEF Whole
<1>4. InByte(f, n, m)
  BY InByteIs
<1>5. f \in Files /\ Len(f) \in Nat
  BY SentRecord
<1>6. m + 1 <= 4 /\ Filled(r, m) = 0 /\ Filled(r, m + 1) = 0 /\ SegOf(f, n, m) = BaseOf(f, n + 1)
      /\ SegOf(f, n, m + 1) = BaseOf(f, n + 1)
  BY <1>2, <1>3 DEF Filled, SegOf
<1>7. stored' = Loaded(f, n, BYTE)
  BY <1>1, <1>4, <1>6 DEF InByte, Partly
<1>8. CASE (i = 1 /\ b = 0) \/ (i = 4 /\ b \notin {0, LINEAR, ENTRY})
  <2>1. Len(r.data) = 0 \/ r.type \notin {0, LINEAR, ENTRY}
    BY <1>3, <1>4, <1>8 DEF InByte
  <2>2. ~Reads(r, BYTE)
    BY <2>1 DEF Reads
  <2>3. stored' = Loaded(f, n + 1, BYTE)
    BY <1>5, <1>7, <2>2, NothingStored
  <2>4. n + 1 \in Ends(f, BYTE)
    <3>1. n + 1 \in DOMAIN f
      BY <1>5, FileIs
    <3> QED
      BY <2>2, <3>1 DEF Ends
  <2>5. Good(f, n, BYTE) /\ Prompt /\ k + 1 \in Nat /\ k + 1 >= 2
    BY <1>2, <1>4, <1>8 DEF InByte
  <2>6. Ended(f, k + 1)'
    BY <2>3, <2>4, <2>5, FileEnds
  <2> QED
    BY <1>3, <2>6
<1>9. CASE ~((i = 1 /\ b = 0) \/ (i = 4 /\ b \notin {0, LINEAR, ENTRY}))
  <2>1. bytes' = Append(bytes, B[m + 1]) /\ nibble' = None /\ pc' = pc /\ seg' = seg
    BY <1>2, <1>3, <1>9 DEF Collect
  <2>2. Len(r.data) # 0 /\ (m + 1 >= 4 => r.type \in {0, LINEAR, ENTRY}) /\ m + 1 < Width(f, n + 1)
    <3>1. m = 0 \/ m >= 1
      OBVIOUS
    <3>2. m + 1 = 4 \/ ~(m + 1 >= 4)
      BY <1>6
    <3>3. /\ B[1] = Len(r.data) /\ B[4] = r.type /\ (m >= 1 => Len(r.data) # 0)
          /\ Width(f, n + 1) = 5 + Len(r.data) /\ Len(r.data) \in Nat
      BY <1>4 DEF InByte
    <3>4. m = 0 => B[m + 1] # 0
      BY <1>3, <1>9
    <3>5. m + 1 = 4 => B[m + 1] \in {0, LINEAR, ENTRY}
      BY <1>3, <1>9
    <3> HIDE DEF B, r
    <3>6. m = 0 => B[1] # 0
      BY <3>4
    <3> QED
      BY <1>6, <3>1, <3>2, <3>3, <3>5, <3>6
  <2>3. pc' = "record"
    BY <2>1 DEF InRecord
  <2>4. stored' = Partly(f, n, Filled(r, m + 1), BYTE) /\ seg' = SegOf(f, n, m + 1)
    BY <1>4, <1>6, <1>7, <2>1 DEF InByte, Partly
  <2>5. InRecord(f, n, m + 1, k + 1)'
    BY <1>3, <2>1, <2>2, <2>3, <2>4, OneMore
  <2> QED
    BY <1>3, <2>5
<1> QED
  BY <1>8, <1>9

LEMMA SegmentRead ==
    ASSUME Mine, NEW f, f = cmd.file, NEW n \in 0..(Len(f) - 1), NEW m \in Nat, NEW k \in Nat,
           Left(k), InRecord(f, n, m, k), SegmentByte
    PROVE  Left(k + 1)' /\ (InRecord(f, n, m + 1, k + 1)' \/ Seeking(f, n + 1, k + 1)')
<1> DEFINE r == f[n + 1]
           B == RecordBytes(r)
           w == hxword(B[5], B[6]) * WORD
           z == hxword(B[7], B[8])
<1>1. UNCHANGED <<userVars, stored>> /\ Len(bytes) >= 4 /\ bytes[4] \in {LINEAR, ENTRY}
  BY DEF SegmentByte, readKeeps
<1>2. PICK i \in 5..9, b \in Byte :
         /\ ByteComes(i, b) /\ Collect(b)
         /\ seg' = CASE i = 6 -> hxword(bytes[5], b) * WORD
                     [] i = 8 -> seg + hxword(bytes[7], b)
                     [] OTHER -> seg
         /\ pc' = IF i = (IF bytes[4] = LINEAR THEN 7 ELSE 9) THEN "colon" ELSE "record"
  BY DEF SegmentByte
<1>3. /\ i = m + 1 /\ b = B[m + 1] /\ Left(k + 1)' /\ k + 1 = 3 + At(f)[n] + 2 * (m + 1)
      /\ m + 1 \in 1..Width(f, n + 1)
  <2>1. Whole(f, n, m, k, i, b)
    BY <1>1, <1>2, WholeComes
  <2> QED
    BY <2>1 DEF Whole
<1>4. InByte(f, n, m)
  BY InByteIs
<1>5. f \in Files /\ Len(f) \in Nat /\ n + 1 \in 1..Len(f)
  BY SentRecord
<1>6. r.type \in {LINEAR, ENTRY} /\ bytes[4] = r.type /\ r.type # 0 /\ m >= 4 /\ Len(r.data) # 0
  <2>1. 4 \in 1..m
    BY <1>1, <1>4 DEF InByte
  <2>2. bytes[4] = r.type
    BY <1>4, <2>1 DEF InByte
  <2> QED
    BY <1>1, <1>4, <2>1, <2>2, MonitorSizes DEF InByte
<1>7. Filled(r, m) = 0 /\ Filled(r, m + 1) = 0
  BY <1>6 DEF Filled
<1>8. stored' = Loaded(f, n, BYTE)
  BY <1>1, <1>4, <1>7 DEF InByte, Partly
<1>9. \A j \in 1..m : bytes[j] = B[j]
  BY <1>4 DEF InByte
<1>10. /\ SegOf(f, n, m) = IF m < 6 THEN BaseOf(f, n + 1) ELSE IF m < 8 THEN w ELSE w + z
       /\ SegOf(f, n, m + 1) = IF m + 1 < 6 THEN BaseOf(f, n + 1) ELSE IF m + 1 < 8 THEN w ELSE w + z
  BY <1>6 DEF SegOf
<1>11. seg = SegOf(f, n, m)
  BY <1>4 DEF InByte
<1>12. seg' = SegOf(f, n, m + 1)
  <2>1. CASE i = 6
    <3>1. m = 5 /\ 5 \in 1..m
      BY <1>3, <2>1
    <3>2. seg' = hxword(B[5], B[6]) * WORD
      BY <1>2, <1>3, <1>9, <2>1, <3>1
    <3> QED
      BY <1>10, <3>1, <3>2
  <2>2. CASE i = 8
    <3>1. m = 7 /\ 7 \in 1..m
      BY <1>3, <2>2
    <3>2. seg' = seg + hxword(B[7], B[8])
      BY <1>2, <1>3, <1>9, <2>2, <3>1
    <3> QED
      BY <1>10, <1>11, <3>1, <3>2
  <2>3. CASE i \notin {6, 8}
    <3>1. seg' = seg
      BY <1>2, <2>3
    <3>2. (m < 6 <=> m + 1 < 6) /\ (m < 8 <=> m + 1 < 8)
      BY <1>3, <2>3
    <3> HIDE DEF w, z
    <3> QED
      BY <1>10, <1>11, <3>1, <3>2
  <2> QED
    BY <2>1, <2>2, <2>3
<1>13. Len(r.data) = IF r.type = LINEAR THEN 2 ELSE 4
  BY <1>5, <1>6, FileIs
<1>14. Width(f, n + 1) = IF r.type = LINEAR THEN 7 ELSE 9
  BY <1>4, <1>13 DEF InByte
<1>15. bytes' = Append(bytes, B[m + 1]) /\ nibble' = None
  BY <1>2, <1>3 DEF Collect
<1>16. CASE i = Width(f, n + 1)
  <2>1. pc' = "colon"
    BY <1>2, <1>6, <1>14, <1>16
  <2>2. stored' = Loaded(f, n + 1, BYTE)
    BY <1>5, <1>6, <1>8, NothingStored
  <2>3. n + 1 \notin Ends(f, BYTE)
    <3>1. Len(r.data) \in Byte
      BY <1>4 DEF InByte, IsRecord
    <3>2. Len(r.data) \in 1..BYTE
      <4> DEFINE l == Len(r.data)
      <4>1. l \in 0..(BYTE - 1) /\ l # 0 /\ BYTE \in Nat
        BY <1>6, <3>1, Sizes DEF Byte
      <4> HIDE DEF l
      <4>2. l \in 1..BYTE
        BY <4>1
      <4> QED
        BY <4>2 DEF l
    <3> QED
      BY <1>6, <3>2 DEF Ends, Reads
  <2>4. r.data[1] = B[5] /\ r.data[2] = B[6] /\ (r.type # LINEAR => r.data[3] = B[7] /\ r.data[4] = B[8])
    <3>1. \A j \in 1..Len(r.data) : B[4 + j] = r.data[j]
      BY <1>4 DEF InByte
    <3>2. 4 + 1 = 5 /\ 4 + 2 = 6 /\ 4 + 3 = 7 /\ 4 + 4 = 8
      OBVIOUS
    <3>3. 1 \in 1..Len(r.data) /\ 2 \in 1..Len(r.data) /\ (r.type # LINEAR => 3 \in 1..Len(r.data) /\ 4 \in 1..Len(r.data))
      BY <1>13
    <3> HIDE DEF B
    <3> QED
      BY <3>1, <3>2, <3>3
  <2>5. BaseOf(f, (n + 1) + 1) = IF r.type = LINEAR THEN w ELSE w + z
    BY <1>5, <1>6, <2>4, NextBase
  <2>6. seg' = BaseOf(f, (n + 1) + 1)
    <3>1. m + 1 = IF r.type = LINEAR THEN 7 ELSE 9
      BY <1>3, <1>14, <1>16
    <3> HIDE DEF w, z
    <3> QED
      BY <1>10, <1>12, <2>5, <3>1
  <2>7. Good(f, n, BYTE) /\ k + 1 = 3 + At(f)[n] + 2 * Width(f, n + 1)
    BY <1>3, <1>4, <1>16 DEF InByte
  <2>8. Seeking(f, n + 1, k + 1)'
    BY <2>1, <2>2, <2>3, <2>6, <2>7, NextSought
  <2> QED
    BY <1>3, <2>8
<1>17. CASE i # Width(f, n + 1)
  <2>1. pc' = "record"
    BY <1>2, <1>6, <1>14, <1>17
  <2>2. m + 1 < Width(f, n + 1)
    BY <1>3, <1>14, <1>17
  <2>3. stored' = Partly(f, n, Filled(r, m + 1), BYTE)
    BY <1>7, <1>8 DEF Partly
  <2>4. InRecord(f, n, m + 1, k + 1)'
    BY <1>3, <1>6, <1>12, <1>15, <2>1, <2>2, <2>3, OneMore
  <2> QED
    BY <1>3, <2>4
<1> QED
  BY <1>16, <1>17

-----------------------------------------------------------------------------
\* Data, and the sum behind them.

\* A record that is read has a part of the memory.
LEMMA ReadPart ==
    ASSUME NEW f \in Files, NEW n \in 0..(Len(f) - 1), f[n + 1].type = 0, Len(f[n + 1].data) # 0
    PROVE  /\ Reads(f[n + 1], BYTE)
           /\ Len(PartOf(f, n + 1, BYTE)) = Len(f[n + 1].data)
           /\ \A h \in 1..Len(f[n + 1].data) :
                PartOf(f, n + 1, BYTE)[h] = <<(BaseOf(f, n + 1) + f[n + 1].off + h - 1) % ADDR, f[n + 1].data[h]>>
<1>1. Len(f) \in Nat /\ n + 1 \in 1..Len(f) /\ IsRecord(f[n + 1])
  BY FileIs
<1> DEFINE l == Len(f[n + 1].data)
<1>2. l \in 0..(BYTE - 1) /\ l # 0 /\ BYTE \in Nat
  BY <1>1, Sizes DEF IsRecord, Byte
<1> HIDE DEF l
<1>3. l \in 1..BYTE
  BY <1>2
<1>4. Reads(f[n + 1], BYTE)
  BY <1>3 DEF Reads, l
<1> QED
  BY <1>1, <1>4, PartIs DEF l

LEMMA DataRead ==
    ASSUME Mine, NEW f, f = cmd.file, NEW n \in 0..(Len(f) - 1), NEW m \in Nat, NEW k \in Nat,
           Left(k), InRecord(f, n, m, k), DataByte
    PROVE  Left(k + 1)' /\ InRecord(f, n, m + 1, k + 1)'
<1> DEFINE r == f[n + 1]
           B == RecordBytes(r)
           P == PartOf(f, n + 1, BYTE)
<1>1. UNCHANGED <<userVars, pc, seg>> /\ Len(bytes) >= 4 /\ bytes[4] = 0
  BY DEF DataByte, readKeeps
<1>2. PICK i \in 5..(4 + bytes[1]), b \in Byte :
         /\ ByteComes(i, b) /\ Collect(b)
         /\ stored' = Append(stored, <<(seg + hxword(bytes[2], bytes[3]) + i - 5) % ADDR, b>>)
  BY DEF DataByte
<1>3. /\ i = m + 1 /\ b = B[m + 1] /\ Left(k + 1)' /\ k + 1 = 3 + At(f)[n] + 2 * (m + 1)
  <2> HIDE DEF P
  <2>1. Whole(f, n, m, k, i, b)
    BY <1>1, <1>2, WholeComes
  <2> QED
    BY <2>1 DEF Whole
<1>4. InByte(f, n, m)
  BY InByteIs
<1>5. f \in Files /\ Len(f) \in Nat /\ n \in 0..Len(f)
  <2>1. f \in Files /\ Len(f) \in Nat
    BY SentRecord
  <2> QED
    BY <2>1
<1>6. /\ Len(bytes) = m /\ (\A j \in 1..m : bytes[j] = B[j]) /\ Len(r.data) \in Nat
      /\ B[1] = Len(r.data) /\ B[4] = r.type /\ hxword(B[2], B[3]) = r.off
      /\ Width(f, n + 1) = 5 + Len(r.data) /\ (m >= 1 => Len(r.data) # 0)
  BY <1>4 DEF InByte
<1>7. m >= 4 /\ bytes[1] = Len(r.data) /\ r.type = 0 /\ hxword(bytes[2], bytes[3]) = r.off
      /\ Len(r.data) # 0
  <2>1. 1 \in 1..m /\ 2 \in 1..m /\ 3 \in 1..m /\ 4 \in 1..m
    BY <1>1, <1>6
  <2> HIDE DEF B, r
  <2> QED
    BY <1>1, <1>6, <2>1
<1>8. m - 4 \in 0..(Len(r.data) - 1) /\ m + 1 < Width(f, n + 1) /\ m - 3 \in 1..Len(r.data)
  <2> HIDE DEF B, r
  <2> QED
    BY <1>2, <1>3, <1>6, <1>7
<1>9. Filled(r, m) = m - 4 /\ Filled(r, m + 1) = m - 3
  <2>1. m > 4 \/ m = 4
    BY <1>7
  <2>2. m + 1 > 4 /\ (m + 1) - 4 = m - 3
    BY <1>7
  <2> QED
    BY <1>7, <2>1, <2>2 DEF Filled
<1>10. Len(P) = Len(r.data) /\ P[m - 3] = <<(BaseOf(f, n + 1) + r.off + (m - 3) - 1) % ADDR, r.data[m - 3]>>
  BY <1>5, <1>7, <1>8, ReadPart
<1>11. SegOf(f, n, m) = BaseOf(f, n + 1) /\ SegOf(f, n, m + 1) = BaseOf(f, n + 1) /\ seg = SegOf(f, n, m)
  BY <1>4, <1>7 DEF SegOf, InByte
<1>12. b = r.data[m - 3]
  <2>1. \A j \in 1..Len(r.data) : B[4 + j] = r.data[j]
    BY <1>4 DEF InByte
  <2>2. 4 + (m - 3) = m + 1
    OBVIOUS
  <2> HIDE DEF B, r
  <2> QED
    BY <1>3, <1>8, <2>1, <2>2
<1>13. stored' = Append(stored, P[m - 3])
  <2>1. BaseOf(f, n + 1) \in Int /\ r.off \in Int
    <3>1. Good(f, n, BYTE) /\ IsRecord(r)
      BY <1>4 DEF InByte
    <3>2. WORD \in Int
      BY Sizes
    <3> QED
      BY <1>5, <3>1, <3>2, BaseIs DEF IsRecord
  <2> DEFINE x == BaseOf(f, n + 1)
             y == r.off
  <2>2. x \in Int /\ y \in Int
    BY <2>1
  <2>3. stored' = Append(stored, <<(x + y + i - 5) % ADDR, b>>)
    BY <1>2, <1>7, <1>11
  <2>4. P[m - 3] = <<(x + y + (m - 3) - 1) % ADDR, b>>
    BY <1>10, <1>12
  <2> HIDE DEF x, y, r, P
  <2>5. x + y + i - 5 = x + y + (m - 3) - 1
    BY <1>3, <2>2
  <2> QED
    BY <2>3, <2>4, <2>5
<1>14. stored' = Partly(f, n, Filled(r, m + 1), BYTE)
  <2>1. m - 4 \in 0..Len(P) /\ m - 4 < Len(P) /\ (m - 4) + 1 = m - 3
    <3> HIDE DEF P, r
    <3> QED
      BY <1>6, <1>8, <1>10
  <2>2. Append(Partly(f, n, m - 4, BYTE), P[m - 3]) = Partly(f, n, m - 3, BYTE)
    <3>1. Append(Partly(f, n, m - 4, BYTE), P[(m - 4) + 1]) = Partly(f, n, (m - 4) + 1, BYTE)
      BY <1>5, <2>1, PartlyIs
    <3> HIDE DEF P
    <3> QED
      BY <2>1, <3>1
  <2>3. stored = Partly(f, n, m - 4, BYTE)
    BY <1>4, <1>9 DEF InByte
  <2> QED
    BY <1>9, <1>13, <2>2, <2>3
<1>15. bytes' = Append(bytes, B[m + 1]) /\ nibble' = None
  BY <1>2, <1>3 DEF Collect
<1>16. pc' = "record" /\ (m + 1 >= 4 => r.type \in {0, LINEAR, ENTRY})
  BY <1>1, <1>7 DEF InRecord
<1>17. seg' = SegOf(f, n, m + 1)
  BY <1>1, <1>11
<1>18. InRecord(f, n, m + 1, k + 1)'
  BY <1>3, <1>7, <1>8, <1>14, <1>15, <1>16, <1>17, OneMore
<1> QED
  BY <1>3, <1>18

LEMMA SumRead ==
    ASSUME Mine, NEW f, f = cmd.file, NEW n \in 0..(Len(f) - 1), NEW m \in Nat, NEW k \in Nat, k >= 2,
           Left(k), InRecord(f, n, m, k), SumByte
    PROVE  Left(k + 1)' /\ (Seeking(f, n + 1, k + 1)' \/ Ended(f, k + 1)')
<1> DEFINE r == f[n + 1]
           B == RecordBytes(r)
           P == PartOf(f, n + 1, BYTE)
<1>1. UNCHANGED <<userVars, stored>> /\ Len(bytes) >= 4 /\ bytes[4] = 0
  BY DEF SumByte, seenVars
<1>2. PICK b \in Byte :
         /\ ByteComes(5 + bytes[1], b)
         /\ IF SumOf(Append(bytes, b)) # 0 THEN Prompt ELSE pc' = "colon" /\ seg' = seg
  BY DEF SumByte
<1>3. /\ 5 + bytes[1] = m + 1 /\ b = B[m + 1] /\ Left(k + 1)' /\ k + 1 = 3 + At(f)[n] + 2 * (m + 1)
      /\ B \in Seq(Byte) /\ Len(B) = Width(f, n + 1)
  <2> HIDE DEF P
  <2>1. Whole(f, n, m, k, 5 + bytes[1], b)
    BY <1>1, <1>2, WholeComes
  <2> QED
    BY <2>1 DEF Whole
<1>4. InByte(f, n, m)
  BY InByteIs
<1>5. f \in Files /\ Len(f) \in Nat /\ n \in 0..Len(f) /\ n + 1 \in DOMAIN f /\ n + 1 \in 1..Len(f)
  BY SentRecord, FileIs
<1>6. /\ Len(bytes) = m /\ (\A j \in 1..m : bytes[j] = B[j]) /\ Len(r.data) \in Nat
      /\ B[1] = Len(r.data) /\ B[4] = r.type
      /\ Width(f, n + 1) = 5 + Len(r.data) /\ (m >= 1 => Len(r.data) # 0)
  BY <1>4 DEF InByte
<1>7. m >= 4 /\ bytes[1] = Len(r.data) /\ r.type = 0 /\ Len(r.data) # 0
  <2>1. 1 \in 1..m /\ 4 \in 1..m
    BY <1>1, <1>6
  <2> HIDE DEF B, r
  <2> QED
    BY <1>1, <1>6, <2>1
<1>8. m + 1 = Width(f, n + 1) /\ m - 4 = Len(r.data)
  <2> HIDE DEF B, r
  <2> QED
    BY <1>3, <1>6, <1>7
<1>9. Filled(r, m) = Len(r.data)
  <2>1. m > 4
    <3> HIDE DEF B, r
    <3> QED
      BY <1>6, <1>7, <1>8
  <2> QED
    BY <1>7, <1>8, <2>1 DEF Filled
<1>10. Append(bytes, b) = B
  <2>1. bytes \in Seq(Byte)
    BY DEF InRecord
  <2> HIDE DEF B
  <2>2. /\ Append(bytes, B[m + 1]) \in Seq(Byte) /\ Len(Append(bytes, B[m + 1])) = m + 1
        /\ \A j \in 1..(m + 1) : Append(bytes, B[m + 1])[j] = B[j]
    BY <1>3, <1>6, <1>8, <2>1, Collected
  <2>3. Append(bytes, B[m + 1]) = B
    BY <1>3, <1>8, <2>2, SeqEqual
  <2> QED
    BY <1>3, <2>3
<1>11. Len(P) = Len(r.data) /\ Reads(r, BYTE)
  BY <1>5, <1>7, ReadPart
<1>12. stored' = Loaded(f, n + 1, BYTE)
  <2>1. Len(r.data) \in 0..Len(P)
    <3> HIDE DEF P, r
    <3> QED
      BY <1>6, <1>11
  <2>2. Partly(f, n, Len(r.data), BYTE) = Loaded(f, n + 1, BYTE)
    BY <1>5, <1>11, <2>1, PartlyIs
  <2> QED
    BY <1>1, <1>4, <1>9, <2>2 DEF InByte
<1>13. Good(f, n, BYTE) /\ (SumOf(B) = 0 <=> ~r.bad)
  BY <1>4 DEF InByte
<1>14. CASE SumOf(B) # 0
  <2>1. n + 1 \in Ends(f, BYTE)
    BY <1>5, <1>7, <1>13, <1>14 DEF Ends
  <2>2. Prompt /\ k + 1 \in Nat /\ k + 1 >= 2
    BY <1>2, <1>10, <1>14
  <2>3. Ended(f, k + 1)'
    BY <1>12, <1>13, <2>1, <2>2, FileEnds
  <2> QED
    BY <1>3, <2>3
<1>15. CASE SumOf(B) = 0
  <2>1. n + 1 \notin Ends(f, BYTE)
    BY <1>11, <1>13, <1>15 DEF Ends
  <2>2. pc' = "colon" /\ seg' = seg
    BY <1>2, <1>10, <1>15
  <2>3. BaseOf(f, (n + 1) + 1) = BaseOf(f, n + 1)
    BY <1>5, <1>7, NextBase
  <2>4. seg = BaseOf(f, n + 1)
    BY <1>4, <1>7 DEF InByte, SegOf
  <2>5. k + 1 = 3 + At(f)[n] + 2 * Width(f, n + 1)
    BY <1>3, <1>8
  <2>6. Seeking(f, n + 1, k + 1)'
    BY <1>12, <1>13, <2>1, <2>2, <2>3, <2>4, <2>5, NextSought
  <2> QED
    BY <1>3, <2>6
<1> QED
  BY <1>14, <1>15

-----------------------------------------------------------------------------
\* What xread leaves of a file, taken for commands.

\* Behind the line of the command come the keys of a file only.
LEMMA FileKeys ==
    ASSUME Mine, NEW k \in Nat, k >= 2, k < Len(Text)
    PROVE  Text[k + 1] \in Keys
<1> DEFINE f == cmd.file
           T == FileText(f)
<1>1. f \in Files /\ Len(Text) = 2 + Len(T) /\ Len(T) \in Nat /\ \A pos \in 1..Len(T) : Text[2 + pos] = T[pos]
  BY TextIs DEF Mine, Text
<1>2. T \in Seq(Keys)
  BY <1>1, FileTextIs DEF Spread
<1> HIDE DEF T, f
<1>3. k - 1 \in 1..Len(T) /\ 2 + (k - 1) = k + 1
  BY <1>1
<1>4. Text[k + 1] = T[k - 1]
  BY <1>1, <1>3
<1> QED
  BY <1>2, <1>3, <1>4, ElementOfSeq

\* The keys of a file are no others.
LEMMA KeysAre ==
    /\ \A c \in Keys : c \notin {"BS", "CAN", "LF", "ESC"} /\ (c # "CR" => c \in ToSet(Digit) \cup {":"})
    /\ \A c \in ToSet(Digit) \cup {":"} : ToUpper(c) = c /\ c # "," /\ c # NUL
                                          /\ (c \in Letters => c \in {"D", "F"})
    /\ inhex(NUL) = None /\ NUL \notin Letters /\ NUL # ","
<1>1. /\ \A c \in ToSet(Digit) : c \notin Controls /\ c \notin Marks /\ c # NUL /\ (c \in Letters => c \in {"D", "F"})
                                 /\ c \notin DOMAIN Upper
      /\ NUL \notin Letters /\ NUL \notin Marks /\ NUL \notin ToSet(Digit)
      /\ \A c \in Marks : c \notin DOMAIN Upper
  BY Alphabet, Zenon
<1>2. "," \in Marks /\ ":" \in Marks /\ {"BS", "CAN", "LF", "ESC"} \subseteq Controls /\ ":" \notin Letters
  BY DEF Marks, Controls, Letters
<1>3. \A c \in ToSet(Digit) \cup {":"} : ToUpper(c) = c
  BY <1>1, <1>2 DEF ToUpper
<1>4. \A c \in ToSet(Digit) \cup {":"} : c # "," /\ c # NUL /\ (c \in Letters => c \in {"D", "F"})
  BY <1>1, <1>2
<1>5. \A c \in Keys : c \notin {"BS", "CAN", "LF", "ESC"}
  BY <1>1, <1>2 DEF Keys
<1>6. inhex(NUL) = None
  BY <1>1 DEF inhex
<1> QED
  BY <1>1, <1>2, <1>3, <1>4, <1>5, <1>6 DEF Keys

\* The rest of a file does nothing as a command: no fill has its commas.
LEMMA NoComma ==
    ASSUME NEW n \in 1..(Room - 1), inhex(line[n + 1]) = None, n + 1 >= 2, Room \in Nat
    PROVE  After(2) \in 2..(n + 1)
<1> DEFINE S == {j \in 2..(n + 1) : inhex(line[j]) = None}
           Is0(j) == inhex(line[j]) = None /\ \A h \in 2..(j - 1) : inhex(line[h]) # None
<1>1. S \in SUBSET Nat /\ n + 1 \in S /\ 2..(n + 1) \subseteq 2..Room
  OBVIOUS
<1>2. PICK m \in S : \A j \in S : m <= j
  <2> HIDE DEF S
  <2> QED
    BY <1>1, LeastOne
<1>3. m \in 2..Room /\ Is0(m)
  <2> SUFFICES ASSUME NEW h \in 2..(m - 1), inhex(line[h]) = None
               PROVE  FALSE
    BY <1>1, <1>2
  <2>1. h \in S /\ h < m
    BY <1>2
  <2> QED
    BY <1>2, <2>1
<1>4. \A j \in 2..Room : Is0(j) => j \in 2..(n + 1)
  <2> SUFFICES ASSUME NEW j \in 2..Room, Is0(j), j > n + 1
               PROVE  FALSE
    OBVIOUS
  <2>1. n + 1 \in 2..(j - 1)
    OBVIOUS
  <2> QED
    BY <2>1
<1>5. After(2) = CHOOSE j \in 2..Room : Is0(j)
  BY Zenon DEF After
<1> HIDE DEF Is0
<1> QED
  BY <1>3, <1>4, <1>5

LEMMA RestIsDispatched ==
    ASSUME IInv, Mine, NEW f, f = cmd.file, NEW k \in Nat, Left(k), Ended(f, k), pc = "dispatch", UNCHANGED userVars,
           Nothing \/ xdump \/ xsubst \/ xfill \/ xgo \/ xtptest \/ xread \/ xsdread
    PROVE  Left(k)' /\ Ended(f, k)'
<1>1. /\ ~inner /\ k >= 2 /\ stored = Image(f, BYTE) /\ ct < LINE /\ line[ct + 1] = NUL
      /\ \A i \in 1..ct : line[i] \in ToSet(Digit) \cup {":"}
  BY DEF Ended
<1>2. ct \in Nat /\ LINE \in Nat /\ LINE <= Room /\ Room \in Nat
  BY Rooms DEF IInv, Counts
<1>3. line[1] \in Letters => line[1] \in {"D", "F"} /\ ct # 0
  <2>1. CASE ct = 0
    <3>1. line[1] = NUL
      BY <1>1, <2>1
    <3> QED
      BY <3>1, KeysAre
  <2>2. CASE ct # 0
    <3>1. 1 \in 1..ct
      BY <1>2, <2>2
    <3> QED
      BY <1>1, <2>2, <3>1, KeysAre
  <2> QED
    BY <2>1, <2>2
<1>4. ~xsubst /\ ~xgo /\ ~xtptest /\ ~xread /\ ~xsdread
  BY <1>3 DEF xsubst, xgo, xtptest, xread, xsdread, Is, Letters
<1>5. Prompt => pc' = "getline" /\ inner' = FALSE /\ ct' = 0
  BY DEF Prompt, Return
<1>9. rx' = rx => Left(k)'
  BY DEF Left, Text, userVars
<1>6. CASE Nothing
  <2>1. Prompt /\ stored' = stored /\ rx' = rx
    BY <1>6 DEF Nothing, seenVars
  <2>2. Ended(f, k)'
    BY <1>1, <1>5, <2>1 DEF Ended
  <2> QED
    BY <1>9, <2>1, <2>2
<1>7. CASE xdump
  <2>1. (Prompt \/ (pc' = "dump" /\ inner' = inner)) /\ stored' = stored /\ rx' = rx
    BY <1>7 DEF xdump, seenVars, editVars
  <2>2. Ended(f, k)'
    BY <1>1, <1>5, <2>1 DEF Ended
  <2> QED
    BY <1>9, <2>1, <2>2
<1>8. CASE xfill
  <2>1. ct # 0
    BY <1>3, <1>8 DEF xfill, Is, Letters
  <2>2. ct \in 1..(Room - 1) /\ ct + 1 >= 2
    BY <1>1, <1>2, <2>1
  <2>3. After(2) \in 2..(ct + 1)
    BY <1>1, <1>2, <2>2, KeysAre, NoComma
  <2>4. line[After(2)] # ","
    <3>1. \A j \in 2..(ct + 1) : j = ct + 1 \/ j \in 1..ct
      BY <1>2
    <3> QED
      BY <1>1, <2>3, <3>1, KeysAre
  <2>5. Prompt /\ stored' = stored /\ rx' = rx
    BY <1>8, <2>4 DEF xfill
  <2> QED
    BY <1>1, <1>5, <1>9, <2>5 DEF Ended
<1> QED
  BY <1>4, <1>6, <1>7, <1>8

\* It is typed, dispatched and dumped; it stores nothing.
LEMMA RestIsIdle ==
    ASSUME IInv, Mine, NEW f, f = cmd.file, NEW k \in Nat, Left(k), Ended(f, k), Next, ~Begin, ~Press
    PROVE  \E j \in Nat : Left(j)' /\ Ended(f, j)'
<1>1. UNCHANGED userVars /\ UNCHANGED <<script, cmd>>
  BY UserWaits DEF userVars
<1>2. /\ pc \in {"getline", "dispatch", "dump", "overrun"} /\ ~inner /\ k >= 2
      /\ stored = Image(f, BYTE)
      /\ (pc \in {"getline", "dispatch"} => \A i \in 1..ct : line[i] \in ToSet(Digit) \cup {":"})
      /\ (pc = "dispatch" => ct < LINE /\ line[ct + 1] = NUL)
  BY DEF Ended
<1>3. ct \in 0..LINE /\ LINE \in Nat /\ LINE <= Room /\ Room \in Nat /\ Array(line, Room)
  BY Rooms DEF IInv, Counts
<1>4. \A c : Key(c) => c \in Keys /\ Left(k + 1)' /\ k + 1 \in Nat /\ k + 1 >= 2
  BY <1>1, <1>2, KeyTaken, FileKeys
<1>5. Prompt => pc' = "getline" /\ inner' = FALSE /\ ct' = 0
  BY DEF Prompt, Return
<1>6. CASE pc = "dispatch" /\ (Nothing \/ xdump \/ xsubst \/ xfill \/ xgo \/ xtptest \/ xread \/ xsdread)
  BY <1>1, <1>6, RestIsDispatched
<1>7. CASE pc = "dump" /\ (DumpRow \/ DumpBreak \/ DumpEnd)
  <2>1. stored' = stored /\ ((pc' = "dump" /\ inner' = inner) \/ Prompt)
    BY <1>7 DEF DumpRow, DumpBreak, DumpEnd, seenVars, editVars
  <2>2. Ended(f, k)' /\ Ended(f, k + 1)'
    BY <1>2, <1>5, <2>1 DEF Ended
  <2>3. CASE DumpBreak
    <3>1. \E c : Key(c)
      BY <2>3 DEF DumpBreak
    <3> QED
      BY <1>4, <2>2, <3>1
  <2>4. CASE DumpRow \/ DumpEnd
    <3>1. rx' = rx
      BY <2>4 DEF DumpRow, DumpEnd
    <3>2. Left(k)'
      BY <1>1, <3>1 DEF Left, Text
    <3> QED
      BY <2>2, <3>2
  <2> QED
    BY <1>7, <2>3, <2>4
<1>8. CASE pc = "getline" /\ Editing
  <2>1. ~Backspace /\ ~Kill /\ ~Ignored
    BY <1>4, KeysAre DEF Backspace, Kill, Ignored
  <2>2. CASE Typed
    <3>1. PICK c \in {rx[i] : i \in DOMAIN rx} \ Controls :
          /\ Key(c)
          /\ IF ct = LINE THEN pc' = "overrun" /\ UNCHANGED editVars
             ELSE line' = [line EXCEPT ![ct + 1] = ToUpper(c)] /\ ct' = ct + 1 /\ UNCHANGED <<pc, inner>>
      BY <2>2 DEF Typed
    <3>2. stored' = stored
      BY <2>2 DEF Typed, seenVars
    <3>3. c \in ToSet(Digit) \cup {":"} /\ ToUpper(c) = c
      BY <1>4, <3>1, KeysAre DEF Controls
    <3>4. CASE ct = LINE
      <4>1. Ended(f, k + 1)'
        BY <1>2, <1>4, <3>1, <3>2, <3>4 DEF Ended, editVars
      <4> QED
        BY <1>4, <3>1, <4>1
    <3>5. CASE ct # LINE
      <4>1. \A i \in 1..(ct + 1) : (i = ct + 1 \/ i \in 1..ct) /\ i \in 1..Room
        BY <1>3, <3>5
      <4>2. \A i \in 1..(ct + 1) : line'[i] = IF i = ct + 1 THEN c ELSE line[i]
        BY <1>3, <3>1, <3>3, <3>5, <4>1 DEF Array
      <4>3. \A i \in 1..ct' : line'[i] \in ToSet(Digit) \cup {":"}
        BY <1>2, <1>8, <3>1, <3>3, <3>5, <4>1, <4>2
      <4>4. Ended(f, k + 1)'
        BY <1>2, <1>4, <1>8, <3>1, <3>2, <3>5, <4>3 DEF Ended
      <4> QED
        BY <1>4, <3>1, <4>4
    <3> QED
      BY <3>4, <3>5
  <2>3. CASE Enter
    <3>1. \E c : Key(c)
      BY <2>3 DEF Enter
    <3>2. stored' = stored /\ inner' = inner /\ ct' = ct
      BY <2>3 DEF Enter, seenVars
    <3>3. CASE ct = LINE
      <4>1. pc' = "overrun"
        BY <2>3, <3>3 DEF Enter
      <4>2. Ended(f, k + 1)'
        BY <1>2, <1>4, <3>1, <3>2, <4>1 DEF Ended
      <4> QED
        BY <1>4, <3>1, <4>2
    <3>4. CASE ct # LINE
      <4>1. line' = [line EXCEPT ![ct + 1] = NUL] /\ pc' = "dispatch"
        BY <1>2, <2>3, <3>4 DEF Enter
      <4>2. \A i \in 1..ct : line'[i] = line[i]
        BY <1>3, <4>1 DEF Array
      <4>3. ct < LINE /\ line'[ct + 1] = NUL
        BY <1>3, <3>4, <4>1 DEF Array
      <4>4. Ended(f, k + 1)'
        BY <1>2, <1>4, <1>8, <3>1, <3>2, <4>1, <4>2, <4>3 DEF Ended
      <4> QED
        BY <1>4, <3>1, <4>4
    <3> QED
      BY <3>3, <3>4
  <2> QED
    BY <1>8, <2>1, <2>2, <2>3 DEF Editing
<1> QED
  BY <1>2, <1>6, <1>7, <1>8, Steps

-----------------------------------------------------------------------------
\* xread altogether.

\* A step of the monitor while a file is sent.
LEMMA SentGoesOn ==
    ASSUME IInv, Mine, NEW f, f = cmd.file, NEW k \in Nat, Left(k), Reading(f, k), Next, ~Begin, ~Press
    PROVE  \E j \in Nat : Left(j)' /\ Reading(f, j)'
<1>1. UNCHANGED userVars
  BY UserWaits
<1>2. cmd \in Commands \cup Followers /\ cmd.kind = "R" /\ f \in Files /\ Len(f) \in Nat
  BY TextIs, FileIs DEF Mine
<1>3. k + 1 \in Nat
  OBVIOUS
<1>4. CASE Typing(k)
  <2>1. Editing
    BY <1>4, Steps DEF Typing
  <2>2. Left(k + 1)' /\ (Typing(k + 1)' \/ Entered(k + 1)')
    BY <1>1, <1>2, <1>4, <2>1, WordTyped
  <2> QED
    BY <1>3, <2>2 DEF Reading
<1>5. CASE Entered(k)
  <2>1. Nothing \/ xdump \/ xsubst \/ xfill \/ xgo \/ xtptest \/ xread \/ xsdread
    BY <1>5, Steps DEF Entered
  <2>2. Left(k)' /\ Seeking(f, 0, k)'
    BY <1>1, <1>5, <2>1, ReadBegins
  <2>3. 0 \in 0..Len(f)
    BY <1>2
  <2> QED
    BY <2>2, <2>3 DEF Reading
<1>6. CASE Ended(f, k)
  BY <1>6, RestIsIdle DEF Reading
<1>7. ASSUME NEW n \in 0..Len(f), Seeking(f, n, k)
      PROVE  \E j \in Nat : Left(j)' /\ Reading(f, j)'
  <2>1. Colon
    BY <1>7, Steps DEF Seeking
  <2>2. Left(k + 1)' /\ (Seeking(f, n, k + 1)' \/ (n \in 0..(Len(f) - 1) /\ InRecord(f, n, 0, k + 1)'))
    BY <1>1, <1>7, <2>1, ColonRead
  <2>3. 0 \in Nat
    OBVIOUS
  <2> QED
    BY <1>3, <2>2, <2>3 DEF Reading
<1>8. ASSUME NEW n \in 0..(Len(f) - 1), NEW m \in Nat, InRecord(f, n, m, k)
      PROVE  \E j \in Nat : Left(j)' /\ Reading(f, j)'
  <2>1. HalfByte \/ HeaderByte \/ SegmentByte \/ DataByte \/ SumByte
    BY <1>8, Steps DEF InRecord
  <2>2. k >= 2
    <3>1. At(f)[n] \in Nat
      BY SentRecord
    <3>2. k = 3 + At(f)[n] + 2 * m \/ k = 4 + At(f)[n] + 2 * m
      BY <1>8 DEF InRecord
    <3> QED
      BY <3>1, <3>2
  <2>3. m + 1 \in Nat /\ n + 1 \in 0..Len(f)
    BY <1>2
  <2>4. CASE HalfByte
    <3>1. Left(k + 1)' /\ InRecord(f, n, m, k + 1)'
      BY <1>1, <1>8, <2>4, HalfComes
    <3> QED
      BY <1>3, <3>1 DEF Reading
  <2>5. CASE HeaderByte
    <3>1. Left(k + 1)' /\ (InRecord(f, n, m + 1, k + 1)' \/ Ended(f, k + 1)')
      BY <1>8, <2>2, <2>5, HeaderRead
    <3> QED
      BY <1>3, <2>3, <3>1 DEF Reading
  <2>6. CASE SegmentByte
    <3>1. Left(k + 1)' /\ (InRecord(f, n, m + 1, k + 1)' \/ Seeking(f, n + 1, k + 1)')
      BY <1>8, <2>6, SegmentRead
    <3> QED
      BY <1>3, <2>3, <3>1 DEF Reading
  <2>7. CASE DataByte
    <3>1. Left(k + 1)' /\ InRecord(f, n, m + 1, k + 1)'
      BY <1>8, <2>7, DataRead
    <3> QED
      BY <1>3, <2>3, <3>1 DEF Reading
  <2>8. CASE SumByte
    <3>1. Left(k + 1)' /\ (Seeking(f, n + 1, k + 1)' \/ Ended(f, k + 1)')
      BY <1>8, <2>2, <2>8, SumRead
    <3> QED
      BY <1>3, <2>3, <3>1 DEF Reading
  <2> QED
    BY <2>1, <2>4, <2>5, <2>6, <2>7, <2>8
<1> QED
  BY <1>4, <1>5, <1>6, <1>7, <1>8 DEF Reading

\* What is in memory of a file that is sent.
LEMMA SentLoaded ==
    ASSUME Mine, NEW k \in Nat, Left(k), Reading(cmd.file, k)
    PROVE  IsPrefix(stored, Sent[cmd.file]) /\ (Done => stored = Sent[cmd.file])
<1> DEFINE f == cmd.file
           L == LastOf(f, BYTE)
<1>1. f \in Files /\ Len(f) \in Nat /\ Sent[f] = Image(f, BYTE) /\ Image(f, BYTE) = Loaded(f, L, BYTE)
  BY TextIs, FileIs, WholeFile, Zenon DEF Mine, Sent
<1>2. L \in 0..Len(f)
  <2>1. 0 \in 0..Len(f) /\ Good(f, 0, BYTE)
    BY <1>1 DEF Good
  <2> QED
    BY <1>1, <2>1, LastIs
<1> DEFINE T == Spots(f, BYTE)
<1>3. Loaded(f, L, BYTE) \in Seq(T) /\ Loaded(f, 0, BYTE) = <<>>
  BY <1>1, <1>2, LoadedIs
<1>4. IsPrefix(<<>>, Loaded(f, L, BYTE))
  <2> HIDE DEF T, L, f
  <2> DEFINE e == Loaded(f, 0, BYTE)
             t == Loaded(f, L, BYTE)
  <2>4. e = <<>> /\ t \in Seq(T)
    BY <1>3
  <2> HIDE DEF e, t
  <2>1. e \in Seq(T) /\ Len(e) = 0 /\ t \in Seq(T) /\ Len(t) \in Nat
    BY <2>4
  <2>2. Len(e) <= Len(t) /\ \A i \in 1..Len(e) : t[i] = e[i]
    BY <2>1
  <2>3. IsPrefix(e, t)
    BY <2>1, <2>2, PrefixIs
  <2> QED
    BY <1>3, <2>3 DEF e, t
<1>5. CASE Typing(k) \/ Entered(k)
  <2>1. stored = <<>>
    BY <1>5 DEF Typing, Entered
  <2>2. ~Done
    <3> SUFFICES ASSUME Done
                 PROVE  FALSE
      OBVIOUS
    <3> HIDE DEF f, L, T
    <3>1. k = Len(Text) /\ k = 0
      BY <1>5 DEF Done, Typing, Entered, Left
    <3>2. Len(Text) = 2 + Len(FileText(f)) /\ Len(FileText(f)) \in Nat
      BY TextIs DEF Mine, Text, f
    <3> DEFINE z == Len(FileText(f))
               y == Len(Text)
    <3>3. y = 0 /\ y = 2 + z /\ z \in Nat
      BY <3>1, <3>2
    <3> HIDE DEF y, z
    <3> QED
      BY <3>3
  <2> QED
    BY <1>1, <1>4, <2>1, <2>2
<1>6. CASE Ended(f, k)
  <2>1. stored = Loaded(f, L, BYTE)
    BY <1>1, <1>6 DEF Ended
  <2> HIDE DEF L, T, f
  <2>3. \A s \in Seq(T) : IsPrefix(s, s)
    BY PrefixIs
  <2>2. IsPrefix(stored, Loaded(f, L, BYTE))
    BY <1>3, <2>1, <2>3
  <2> QED
    BY <1>1, <2>1, <2>2 DEF f
<1>7. ASSUME NEW n \in 0..Len(f), Seeking(f, n, k)
      PROVE  IsPrefix(stored, Loaded(f, L, BYTE)) /\ ~Done
  <2>1. Good(f, n, BYTE) /\ stored = Loaded(f, n, BYTE) /\ ~Done
    BY <1>7 DEF Seeking, Have, Done
  <2>2. L \in n..Len(f)
    BY <1>1, <2>1, LastIs
  <2>3. Extends(Loaded(f, n, BYTE), Loaded(f, L, BYTE)) /\ Loaded(f, n, BYTE) \in Seq(T)
    BY <1>1, <2>2, LoadedIs
  <2> HIDE DEF L, T, f
  <2> DEFINE s == Loaded(f, n, BYTE)
             t == Loaded(f, L, BYTE)
  <2>4. s \in Seq(T) /\ t \in Seq(T) /\ Len(s) <= Len(t) /\ \A i \in 1..Len(s) : t[i] = s[i]
    BY <1>3, <2>3 DEF Extends
  <2> HIDE DEF s, t
  <2>5. IsPrefix(s, t)
    BY <2>4, PrefixIs
  <2> QED
    BY <2>1, <2>5 DEF s, t
<1>8. ASSUME NEW n \in 0..(Len(f) - 1), NEW m \in Nat, InRecord(f, n, m, k)
      PROVE  IsPrefix(stored, Loaded(f, L, BYTE)) /\ ~Done
  <2>1. /\ Good(f, n, BYTE) /\ stored = Partly(f, n, Filled(f[n + 1], m), BYTE) /\ ~Done
        /\ m < Width(f, n + 1) /\ (m >= 1 => Len(f[n + 1].data) # 0)
    BY <1>8 DEF InRecord, Done
  <2>2. n \in 0..Len(f) /\ n + 1 \in 1..Len(f) /\ n + 1 \in 0..Len(f)
    BY <1>1
  <2> DEFINE z == Filled(f[n + 1], m)
             P == PartOf(f, n + 1, BYTE)
  <2>3. z \in 0..Len(P)
    <3>1. CASE f[n + 1].type = 0 /\ m > 4
      <4>1. Len(f[n + 1].data) # 0
        BY <2>1, <3>1
      <4>2. Len(P) = Len(f[n + 1].data)
        BY <1>1, <3>1, <4>1, ReadPart
      <4>3. z = m - 4
        BY <3>1 DEF Filled
      <4>4. Width(f, n + 1) = 5 + Len(f[n + 1].data) /\ Len(f[n + 1].data) \in Nat
        BY <1>1, <2>2, FileIs DEF Width, IsRecord
      <4> HIDE DEF z, P, f
      <4> QED
        BY <2>1, <3>1, <4>2, <4>3, <4>4
    <3>2. CASE ~(f[n + 1].type = 0 /\ m > 4)
      <4>1. z = 0
        BY <3>2 DEF Filled
      <4>2. P \in Seq(T)
        BY <1>1, <2>2, PartIs
      <4> HIDE DEF z, P, T
      <4> QED
        BY <4>1, <4>2
    <3> QED
      BY <3>1, <3>2
  <2>4. CASE L >= n + 1
    <3>1. L \in (n + 1)..Len(f)
      BY <1>2, <2>4
    <3> HIDE DEF z, L
    <3>2. IsPrefix(Partly(f, n, z, BYTE), Loaded(f, L, BYTE))
      BY <1>1, <2>3, <3>1, PartlyIs
    <3> QED
      BY <2>1, <3>2 DEF z
  <2>5. CASE ~(L >= n + 1)
    <3>1. L > n
      BY <1>1, <2>1, <2>2, LastIs
    <3> QED
      BY <1>2, <2>5, <3>1
  <2> QED
    BY <2>4, <2>5
<1> HIDE DEF L, f
<1> QED
  BY <1>1, <1>5, <1>6, <1>7, <1>8 DEF Reading, f

-----------------------------------------------------------------------------
\* xsdread: what f_read gives.

\* Where record n + 1 lies in a file.
Figured(f, n) ==
    \A k \in 1..Width(f, n + 1) : /\ FileText(f)[At(f)[n] + 2 * k] = High(RecordBytes(f[n + 1])[k])
                                  /\ FileText(f)[At(f)[n] + 2 * k + 1] = Low(RecordBytes(f[n + 1])[k])

LEMMA CardRecord ==
    ASSUME NEW f \in Files, NEW n \in 0..(Len(f) - 1)
    PROVE  /\ IsRecord(f[n + 1]) /\ Width(f, n + 1) \in Nat /\ Width(f, n + 1) >= 5
           /\ At(f)[n] \in Nat /\ At(f)[n + 1] = At(f)[n] + 2 * Width(f, n + 1) + 2
           /\ At(f)[n + 1] <= Len(FileText(f)) /\ Len(FileText(f)) \in Nat
           /\ FileText(f)[At(f)[n] + 1] = ":" /\ FileText(f)[At(f)[n + 1]] = "CR" /\ Figured(f, n)
<1> DEFINE i == n + 1
<1>1. Len(f) \in Nat
  BY FileIs
<1>2. i \in 1..Len(f) /\ i - 1 = n /\ n \in 0..Len(f) /\ Len(f) \in 0..Len(f)
  BY <1>1
<1>3. IsRecord(f[i]) /\ Width(f, i) \in Nat /\ Width(f, i) >= 5
  BY <1>2, FileIs
<1>4. Spread(f, At(f))
  BY FileTextIs
<1>5. /\ At(f) \in [0..Len(f) -> Nat] /\ Len(FileText(f)) = At(f)[Len(f)]
      /\ At(f)[i] = At(f)[n] + 2 * Width(f, i) + 2 /\ At(f)[i] <= At(f)[Len(f)]
      /\ FileText(f)[At(f)[n] + 1] = ":" /\ FileText(f)[At(f)[i]] = "CR"
      /\ \A k \in 1..Width(f, i) : /\ FileText(f)[At(f)[n] + 2 * k] = High(RecordBytes(f[i])[k])
                                   /\ FileText(f)[At(f)[n] + 2 * k + 1] = Low(RecordBytes(f[i])[k])
  BY <1>2, <1>4 DEF Spread
<1>6. At(f)[n] \in Nat /\ At(f)[Len(f)] \in Nat
  BY <1>2, <1>5
<1>7. Figured(f, n)
  BY <1>5 DEF Figured
<1> QED
  BY <1>3, <1>5, <1>6, <1>7

\* What f_read puts into the line of the loader.
LEMMA FileRead ==
    ASSUME NEW f, NEW q, Behind(f, q), NEW n \in Nat, n <= Room, NEW rc, f_read(n, rc)
    PROVE  /\ q \in Nat /\ rc \in 0..n /\ rc <= Len(sdfile) /\ Len(sdfile) \in Nat
           /\ rc < n => rc = Len(sdfile)
           /\ \A j \in 1..rc : line'[j] = FileText(f)[q + j]
<1>1. /\ q \in Nat /\ sdfile \in Seq(Keys) /\ \A j \in 1..Len(sdfile) : sdfile[j] = FileText(f)[q + j]
  BY DEF Behind
<1>2. /\ rc = (IF n < Len(sdfile) THEN n ELSE Len(sdfile)) /\ Len(sdfile) \in Nat
      /\ line' = [i \in 1..Room |-> IF i <= rc THEN sdfile[i] ELSE line[i]]
  BY <1>1 DEF f_read, Least
<1>3. rc \in 0..n /\ rc <= Len(sdfile) /\ (rc < n => rc = Len(sdfile)) /\ Room \in Nat
  BY <1>2, Rooms
<1>4. ASSUME NEW j \in 1..rc
      PROVE  line'[j] = FileText(f)[q + j]
  <2>1. j \in 1..Room /\ j \in 1..Len(sdfile) /\ j <= rc
    BY <1>2, <1>3
  <2> QED
    BY <1>1, <1>2, <2>1
<1> QED
  BY <1>1, <1>2, <1>3, <1>4

LEMMA ReadOn ==
    ASSUME NEW f, NEW q, Behind(f, q), NEW rc \in 0..Len(sdfile),
           sdfile' = SubSeq(sdfile, rc + 1, Len(sdfile)), cut' = cut
    PROVE  Behind(f, q + rc)'
<1>1. /\ q \in Nat /\ sdfile \in Seq(Keys) /\ q + Len(sdfile) <= Len(FileText(f))
      /\ cut <=> q + Len(sdfile) < Len(FileText(f))
      /\ \A j \in 1..Len(sdfile) : sdfile[j] = FileText(f)[q + j]
  BY DEF Behind
<1> DEFINE l == Len(sdfile)
<1>2. l \in Nat /\ rc \in Nat /\ rc <= l
  BY <1>1
<1>3. /\ sdfile' \in Seq(Keys) /\ Len(sdfile') = l - rc
      /\ \A j \in 1..(l - rc) : sdfile'[j] = sdfile[rc + j]
  <2>1. CASE rc = l
    <3>1. sdfile' = <<>>
      BY <1>1, <1>2, <2>1
    <3> QED
      BY <1>2, <2>1, <3>1
  <2>2. CASE rc < l
    BY <1>1, <1>2, <2>2
  <2> QED
    BY <1>2, <2>1, <2>2
<1>4. q + rc \in Nat /\ (q + rc) + (l - rc) = q + l
  BY <1>1, <1>2
<1>5. ASSUME NEW j \in 1..(l - rc)
      PROVE  sdfile'[j] = FileText(f)[(q + rc) + j]
  <2>1. rc + j \in 1..l /\ q + (rc + j) = (q + rc) + j
    BY <1>1, <1>2
  <2> QED
    BY <1>1, <1>3, <2>1
<1> QED
  BY <1>1, <1>3, <1>4, <1>5 DEF Behind

\* The loader returns with the records it has, and all of them unless the card failed.
LEMMA Returned ==
    ASSUME NEW f \in Files, NEW n \in 0..Len(f), n # 0 => Good(f, n - 1, LEN), Return, UNCHANGED cut,
           stored' = Loaded(f, n, LEN), cut \/ Loaded(f, n, LEN) = Loaded(f, LastOf(f, LEN), LEN)
    PROVE  Finished(f)'
<1>1. pc' = "getline" /\ inner' = FALSE /\ ct' = 0
  BY DEF Return
<1>2. Image(SubSeq(f, 1, n), LEN) = Loaded(f, n, LEN)
  BY FirstRecords
<1>3. Image(f, LEN) = Loaded(f, LastOf(f, LEN), LEN)
  BY WholeFile
<1> QED
  BY <1>1, <1>2, <1>3 DEF Finished

\* xsdread begins.
LEMMA CardBegins ==
    ASSUME cmd \in Commands \cup Followers, cmd.kind = "!", NEW f, f = cmd.file, NEW k, Entered(k), seg = RAM,
           Nothing \/ xdump \/ xsubst \/ xfill \/ xgo \/ xtptest \/ xread \/ xsdread
    PROVE  k = Len(Text) /\ UNCHANGED rx /\ OnCard(f)'
<1>1. line[1] = "!" /\ k = 3 /\ stored = <<>>
  BY DEF Entered, Word
<1>2. xsdread
  BY <1>1 DEF Nothing, xdump, xsubst, xfill, xgo, xtptest, xread, Is, Letters
<1>3. f \in Files /\ Len(f) \in Nat /\ Len(Text) = 3 /\ DOMAIN f = 1..Len(f)
  BY ShortTextIs, FileIs DEF Text
<1>4. /\ UNCHANGED <<rx, stored>>
      /\ \/ Prompt /\ cut' = TRUE
         \/ /\ \E n \in 0..Len(CardFile) : sdfile' = SubSeq(CardFile, 1, n) /\ cut' = (n < Len(CardFile))
            /\ pc' = "file" /\ seg' = seg
  BY <1>2 DEF xsdread
<1>5. 0 \in 0..Len(f) /\ Loaded(f, 0, LEN) = <<>>
  BY <1>3, LoadedIs
<1>6. CASE Prompt /\ cut' = TRUE
  <2>1. pc' = "getline" /\ inner' = FALSE /\ ct' = 0
    BY <1>6 DEF Prompt, Return
  <2>2. Image(SubSeq(f, 1, 0), LEN) = Loaded(f, 0, LEN)
    BY <1>3, <1>5, FirstRecords
  <2>3. Finished(f)'
    BY <1>1, <1>4, <1>5, <1>6, <2>1, <2>2 DEF Finished
  <2> QED
    BY <1>1, <1>3, <1>4, <2>3 DEF OnCard
<1>7. CASE \E n \in 0..Len(CardFile) : sdfile' = SubSeq(CardFile, 1, n) /\ cut' = (n < Len(CardFile))
           /\ pc' = "file" /\ seg' = seg
  <2> DEFINE T == FileText(f)
  <2>1. T \in Seq(Keys) /\ At(f)[0] = 0 /\ CardFile = T
    BY <1>3, FileTextIs DEF Spread, CardFile
  <2> HIDE DEF T
  <2>2. PICK n \in 0..Len(T) : sdfile' = SubSeq(T, 1, n) /\ cut' = (n < Len(T)) /\ pc' = "file" /\ seg' = seg
    BY <1>7, <2>1
  <2>3. sdfile' \in Seq(Keys) /\ Len(sdfile') = n /\ (\A j \in 1..n : sdfile'[j] = T[j]) /\ n \in Nat /\ Len(T) \in Nat
    BY <2>1, <2>2
  <2>4. Behind(f, 0)'
    <3>1. 0 \in Nat /\ 0 + Len(sdfile') <= Len(T) /\ (cut' <=> 0 + Len(sdfile') < Len(T))
      <4>1. cut' <=> n < Len(T)
        BY <2>2, Zenon
      <4>2. Len(sdfile') = n /\ n \in 0..Len(T) /\ Len(T) \in Nat /\ 0 + n = n
        BY <2>3
      <4> QED
        BY <4>1, <4>2
    <3>2. \A j \in 1..Len(sdfile') : sdfile'[j] = T[0 + j]
      BY <2>3
    <3> QED
      BY <2>3, <3>1, <3>2 DEF Behind, T
  <2>5. BaseOf(f, 0 + 1) = RAM
    <3>1. {j \in 1..(0 + 1 - 1) : f[j].type # 0} = {}
      OBVIOUS
    <3> QED
      BY <3>1 DEF BaseOf
  <2>6. Have(f, 0, LEN)'
    BY <1>1, <1>4, <1>5, <2>2, <2>5 DEF Have, Good
  <2>7. Starting(f, 0)'
    BY <2>1, <2>2, <2>4, <2>6 DEF Starting
  <2> QED
    BY <1>1, <1>3, <1>4, <1>5, <2>7 DEF OnCard
<1> QED
  BY <1>4, <1>6, <1>7

-----------------------------------------------------------------------------
\* The beginning and the length of a record.

LEMMA StartRead ==
    ASSUME NEW f \in Files, NEW n \in 0..Len(f), Starting(f, n), GetStart
    PROVE  OnCard(f)'
<1> DEFINE T == FileText(f)
           at == At(f)
           N == Len(f)
<1>1. /\ UNCHANGED <<stored, cut>> /\ N \in Nat /\ Have(f, n, LEN)
  BY FileIs DEF GetStart, seenVars, Starting
<1>2. PICK rc \in 0..1 :
         /\ f_read(1, rc)
         /\ IF rc < 1 THEN Return
            ELSE /\ GoOn(IF line'[1] \in Controls \cup {" "} THEN "file" ELSE "length", rc)
                 /\ UNCHANGED <<seg, len>>
  BY DEF GetStart
<1>3. PICK q : Behind(f, q) /\ (q = at[n] \/ (n # 0 /\ q = at[n] - 1))
  BY DEF Starting
<1>4. 1 \in Nat /\ 1 <= Room
  BY Rooms
<1>5. /\ q \in Nat /\ rc \in 0..1 /\ rc <= Len(sdfile) /\ Len(sdfile) \in Nat
      /\ (rc < 1 => rc = Len(sdfile)) /\ \A j \in 1..rc : line'[j] = T[q + j]
  <2>1. Behind(f, q) /\ f_read(1, rc)
    BY <1>2, <1>3
  <2> HIDE DEF at, N
  <2> QED
    BY <1>4, <2>1, FileRead
<1>6. Spread(f, at)
  BY FileTextIs
<1>7. /\ Len(T) = at[N] /\ Len(T) \in Nat /\ n \in 0..N /\ at[n] \in Nat
      /\ (cut <=> q + Len(sdfile) < Len(T)) /\ q + Len(sdfile) <= Len(T)
  <2>1. Len(T) = at[N] /\ at \in [0..N -> Nat] /\ N \in 0..N /\ n \in 0..N
    BY <1>1, <1>6 DEF Spread
  <2>2. (cut <=> q + Len(sdfile) < Len(T)) /\ q + Len(sdfile) <= Len(T)
    BY <1>3 DEF Behind
  <2> QED
    BY <2>1, <2>2
<1>8. n # 0 => Good(f, n - 1, LEN)
  BY <1>1 DEF Have, Good
<1> HIDE DEF N, T
<1>9. CASE rc < 1
  <2>1. cut \/ n = N
    <3> SUFFICES ASSUME ~cut, n # N
                 PROVE  FALSE
      OBVIOUS
    <3>1. n \in 0..(N - 1)
      BY <1>1, <1>7
    <3>2. at[n] + 2 <= Len(T)
      <4>1. /\ at[n + 1] = at[n] + 2 * Width(f, n + 1) + 2 /\ at[n + 1] <= Len(T)
            /\ Width(f, n + 1) \in Nat
        BY <3>1, CardRecord DEF N, T
      <4> HIDE DEF at
      <4> QED
        BY <1>7, <4>1
    <3>3. q = Len(T)
      BY <1>5, <1>7, <1>9
    <3> HIDE DEF at
    <3> QED
      BY <1>3, <1>7, <3>2, <3>3
  <2>2. n = N => LastOf(f, LEN) = n
    BY <1>1, LastIs DEF Have, N
  <2>3. stored' = Loaded(f, n, LEN)
    BY <1>1 DEF Have
  <2>4. Finished(f)'
    BY <1>1, <1>2, <1>8, <1>9, <2>1, <2>2, <2>3, Returned
  <2> QED
    BY <2>4 DEF OnCard
<1>10. CASE ~(rc < 1)
  <2>1. rc = 1 /\ line'[1] = T[q + 1] /\ rc \in 0..Len(sdfile) /\ UNCHANGED seg
    <3>1. rc = 1 /\ 1 \in 1..rc
      BY <1>10
    <3>2. line'[1] = T[q + 1]
      BY <1>5, <3>1
    <3>3. rc \in 0..Len(sdfile)
      BY <1>5
    <3>4. UNCHANGED seg
      BY <1>2, <1>10
    <3> QED
      BY <3>1, <3>2, <3>3, <3>4
  <2>2. Behind(f, q + 1)'
    <3>1. sdfile' = SubSeq(sdfile, rc + 1, Len(sdfile))
      BY <1>2, <1>10 DEF GoOn
    <3> QED
      BY <1>1, <1>3, <2>1, <3>1, ReadOn
  <2>3. pc' = IF T[q + 1] \in Controls \cup {" "} THEN "file" ELSE "length"
    BY <1>2, <1>10, <2>1 DEF GoOn
  <2>4. Have(f, n, LEN)'
    BY <1>1, <2>1 DEF Have
  <2>5. CASE n # 0 /\ q = at[n] - 1
    <3>1. n - 1 \in 0..(N - 1) /\ (n - 1) + 1 = n
      BY <1>1, <1>7, <2>5
    <3>2. T[at[n]] = "CR"
      BY <3>1, CardRecord DEF N, T
    <3>3. q + 1 = at[n]
      <4> HIDE DEF at
      <4> QED
        BY <1>7, <2>5
    <3>4. pc' = "file"
      BY <2>3, <3>2, <3>3 DEF Controls
    <3>5. Starting(f, n)'
      BY <2>2, <2>4, <3>3, <3>4 DEF Starting
    <3> QED
      BY <3>5 DEF OnCard
  <2>6. CASE q = at[n]
    <3>1. n \in 0..(N - 1)
      <4> HIDE DEF at
      <4>1. n # N
        BY <1>5, <1>7, <2>1, <2>6
      <4> QED
        BY <1>1, <1>7, <4>1
    <3>2. T[q + 1] = ":"
      BY <2>6, <3>1, CardRecord DEF N, T
    <3>3. pc' = "length"
      BY <2>3, <3>2 DEF Controls
    <3>4. Sizing(f, n)'
      BY <2>2, <2>4, <2>6, <3>3 DEF Sizing
    <3> QED
      BY <3>1, <3>4 DEF OnCard, N
  <2> QED
    BY <1>3, <2>5, <2>6
<1> QED
  BY <1>9, <1>10

LEMMA LengthRead ==
    ASSUME NEW f \in Files, NEW n \in 0..(Len(f) - 1), Sizing(f, n), GetLength
    PROVE  OnCard(f)'
<1> DEFINE T == FileText(f)
           a == At(f)[n]
           r == f[n + 1]
           w == Width(f, n + 1)
           B == RecordBytes(r)
<1>1. /\ UNCHANGED <<stored, cut>> /\ Have(f, n, LEN) /\ Behind(f, a + 1)
  BY DEF GetLength, seenVars, Sizing
<1>2. PICK rc \in 0..2 :
         /\ f_read(2, rc)
         /\ LET m == hxbyte(line'[1], line'[2])
            IN  IF rc < 2 \/ m \notin 1..LEN THEN Return
                ELSE len' = m /\ GoOn("rest", rc) /\ UNCHANGED seg
  BY DEF GetLength
<1>3. 2 \in Nat /\ 2 <= Room
  BY Rooms
<1>4. /\ rc \in 0..2 /\ rc <= Len(sdfile) /\ Len(sdfile) \in Nat
      /\ (rc < 2 => rc = Len(sdfile)) /\ \A j \in 1..rc : line'[j] = T[(a + 1) + j]
  BY <1>1, <1>2, <1>3, FileRead
<1>5. /\ IsRecord(r) /\ w \in Nat /\ w >= 5 /\ a \in Nat /\ At(f)[n + 1] = a + 2 * w + 2
      /\ At(f)[n + 1] <= Len(T) /\ Len(T) \in Nat /\ Figured(f, n)
  BY CardRecord
<1>6. B \in Seq(Byte) /\ Len(B) = w /\ B[1] = Len(r.data)
  BY <1>5, RecordBytesAre DEF Width
<1>7. Len(f) \in Nat /\ n \in 0..Len(f) /\ n + 1 \in 1..Len(f) /\ DOMAIN f = 1..Len(f)
  BY FileIs
<1>8. n # 0 => Good(f, n - 1, LEN)
  BY <1>1 DEF Have, Good
<1>9. stored' = Loaded(f, n, LEN) /\ Good(f, n, LEN)
  BY <1>1 DEF Have
<1>10. rc = 2 => hxbyte(line'[1], line'[2]) = Len(r.data)
  <2> SUFFICES ASSUME rc = 2
               PROVE  hxbyte(line'[1], line'[2]) = Len(r.data)
    OBVIOUS
  <2>1. 1 \in 1..w
    BY <1>5
  <2>2. T[a + 2 * 1] = High(B[1]) /\ T[a + 2 * 1 + 1] = Low(B[1])
    BY <1>5, <2>1 DEF Figured
  <2> HIDE DEF B, T, w, a
  <2>3. B[1] \in Byte
    BY <1>5, <1>6, <2>1
  <2>4. line'[1] = T[(a + 1) + 1] /\ line'[2] = T[(a + 1) + 2]
    BY <1>4
  <2>5. (a + 1) + 1 = a + 2 * 1 /\ (a + 1) + 2 = a + 2 * 1 + 1
    BY <1>5
  <2>6. hxbyte(High(B[1]), Low(B[1])) = B[1]
    BY <2>3, Halves
  <2> QED
    BY <1>6, <2>2, <2>4, <2>5, <2>6
<1>11. CASE rc < 2
  <2>1. cut
    <3>1. cut <=> (a + 1) + Len(sdfile) < Len(T)
      BY <1>1 DEF Behind
    <3> HIDE DEF a, w, T
    <3> QED
      BY <1>4, <1>5, <1>11, <3>1
  <2>2. Finished(f)'
    BY <1>1, <1>2, <1>7, <1>8, <1>9, <1>11, <2>1, Returned
  <2> QED
    BY <2>2 DEF OnCard
<1>12. CASE rc = 2 /\ Len(r.data) \notin 1..LEN
  <2>1. Return
    BY <1>2, <1>10, <1>12
  <2>2. n + 1 \in Ends(f, LEN) /\ ~Reads(r, LEN)
    BY <1>7, <1>12 DEF Ends, Reads
  <2>3. LastOf(f, LEN) = n + 1
    BY <1>7, <1>9, <2>2, LastIs
  <2>4. Loaded(f, n + 1, LEN) = Loaded(f, n, LEN)
    BY <2>2, NothingStored
  <2>5. Finished(f)'
    BY <1>1, <1>7, <1>8, <1>9, <2>1, <2>3, <2>4, Returned
  <2> QED
    BY <2>5 DEF OnCard
<1>13. CASE rc = 2 /\ Len(r.data) \in 1..LEN
  <2>1. len' = Len(r.data) /\ GoOn("rest", rc) /\ UNCHANGED seg
    BY <1>2, <1>10, <1>13
  <2>2. pc' = "rest" /\ sdfile' = SubSeq(sdfile, rc + 1, Len(sdfile))
    BY <2>1 DEF GoOn
  <2>3. Behind(f, (a + 1) + rc)'
    <3> HIDE DEF a, T, w, B
    <3>1. rc \in 0..Len(sdfile)
      BY <1>4
    <3> QED
      BY <1>1, <2>2, <3>1, ReadOn
  <2>4. (a + 1) + rc = a + 3
    <3> HIDE DEF a
    <3> QED
      BY <1>5, <1>13
  <2>5. Have(f, n, LEN)'
    BY <1>1, <2>1 DEF Have
  <2>6. Taking(f, n)'
    BY <1>13, <2>1, <2>2, <2>3, <2>4, <2>5 DEF Taking
  <2> QED
    BY <2>6 DEF OnCard
<1> QED
  BY <1>2, <1>11, <1>12, <1>13

-----------------------------------------------------------------------------
\* The rest of it.

\* A record in the line, behind its length, and its bytes.
InLine(x, f, n) == \A j \in 1..(6 + Len(f[n + 1].data) * 2 + 2) : x[j] = FileText(f)[(At(f)[n] + 3) + j]
Parted(x, f, n) == \A i \in 1..(Len(f[n + 1].data) + 4) :
                      hxbyte(x[2 * i - 1], x[2 * i]) = RecordBytes(f[n + 1])[i + 1]

LEMMA PartsAre ==
    ASSUME NEW f \in Files, NEW n \in 0..(Len(f) - 1), NEW x, InLine(x, f, n)
    PROVE  Parted(x, f, n)
<1> DEFINE l == Len(f[n + 1].data)
           T == FileText(f)
           a == At(f)[n]
           r == f[n + 1]
           w == Width(f, n + 1)
           B == RecordBytes(r)
<1>1. IsRecord(r) /\ a \in Nat /\ Figured(f, n)
  BY CardRecord
<1>2. B \in Seq(Byte) /\ Len(B) = w /\ w = 5 + l /\ l \in Nat
  BY <1>1, RecordBytesAre DEF Width
<1>3. \A k \in 1..w : T[a + 2 * k] = High(B[k]) /\ T[a + 2 * k + 1] = Low(B[k])
  BY <1>1 DEF Figured
<1> SUFFICES ASSUME NEW i \in 1..(l + 4)
             PROVE  hxbyte(x[2 * i - 1], x[2 * i]) = B[i + 1]
  BY DEF Parted
<1>8. \A j \in 1..(6 + l * 2 + 2) : x[j] = T[(a + 3) + j]
  BY DEF InLine
<1> HIDE DEF T, a, w, B, l
<1>4. /\ 2 * i - 1 \in 1..(6 + l * 2 + 2) /\ 2 * i \in 1..(6 + l * 2 + 2) /\ i + 1 \in 1..w
      /\ (a + 3) + (2 * i - 1) = a + 2 * (i + 1) /\ (a + 3) + 2 * i = a + 2 * (i + 1) + 1
  <2>2. 2 * i - 1 \in 1..(6 + l * 2 + 2) /\ 2 * i \in 1..(6 + l * 2 + 2) /\ i + 1 \in 1..w
    BY <1>2
  <2>3. (a + 3) + (2 * i - 1) = a + 2 * (i + 1) /\ (a + 3) + 2 * i = a + 2 * (i + 1) + 1
    BY <1>1, <1>2
  <2> QED
    BY <2>2, <2>3
<1>5. x[2 * i - 1] = T[(a + 3) + (2 * i - 1)] /\ x[2 * i] = T[(a + 3) + 2 * i]
  BY <1>4, <1>8
<1>6. x[2 * i - 1] = High(B[i + 1]) /\ x[2 * i] = Low(B[i + 1])
  BY <1>3, <1>4, <1>5
<1>7. B[i + 1] \in Byte
  BY <1>2, <1>4
<1> QED
  BY <1>6, <1>7, Halves

LEMMA RecordRead ==
    ASSUME NEW f \in Files, NEW n \in 0..(Len(f) - 1), Taking(f, n), GetRecord
    PROVE  OnCard(f)' \/ pc' = "overrun"
<1> DEFINE T == FileText(f)
           a == At(f)[n]
           r == f[n + 1]
           w == Width(f, n + 1)
           B == RecordBytes(r)
           K == RestOf(len)
           part(i) == hxbyte(line'[2 * i - 1], line'[2 * i])
           word(i) == hxword(part(i), part(i + 1))
           upper == word(4) * WORD
           start == upper + word(6)
           more == [i \in 1..len |-> <<(seg + word(1) + i - 1) % ADDR, part(3 + i)>>]
           sum == SumOf(<<len>> \o [i \in 1..(len + 4) |-> part(i)])
<1>1. PICK rc \in 0..K :
         /\ f_read(K, rc)
         /\ stored' = IF rc # K \/ part(3) # 0 THEN stored ELSE stored \o more
         /\ IF rc > LINE THEN pc' = "overrun"
            ELSE IF rc # K \/ part(3) \notin {0, LINEAR, ENTRY} THEN Return
            ELSE IF part(3) = 0 /\ sum # 0 THEN Return
            ELSE /\ GoOn("file", rc)
                 /\ seg' = CASE part(3) = LINEAR -> upper [] part(3) = ENTRY -> start [] OTHER -> seg
  BY DEF GetRecord
<1>2. /\ Have(f, n, LEN) /\ Behind(f, a + 3) /\ len = Len(r.data) /\ len \in 1..LEN /\ cut' = cut
  BY DEF Taking, GetRecord
<1>3. /\ Good(f, n, LEN) /\ stored = Loaded(f, n, LEN) /\ seg = BaseOf(f, n + 1)
  BY <1>2 DEF Have
<1>4. len \in Nat /\ LEN \in Nat
  BY <1>2, MonitorSizes
<1>5. K = 6 + len * 2 + 2 /\ K \in Nat /\ K <= Room
  <2>1. K = 6 + len * 2 + 2
    BY DEF RestOf
  <2>2. Room >= 2 * LEN + 8
    BY MonitorSizes DEF Room
  <2> HIDE DEF K
  <2> QED
    BY <1>2, <1>4, <2>1, <2>2, Rooms
<1>6. /\ IsRecord(r) /\ w \in Nat /\ a \in Nat /\ At(f)[n + 1] = a + 2 * w + 2
      /\ At(f)[n + 1] <= Len(T) /\ Len(T) \in Nat
  BY CardRecord
<1>7. /\ B \in Seq(Byte) /\ Len(B) = w /\ w = 5 + len /\ B[1] = len /\ B[4] = r.type
      /\ hxword(B[2], B[3]) = r.off /\ (\A i \in 1..len : B[4 + i] = r.data[i]) /\ (SumOf(B) = 0 <=> ~r.bad)
  BY <1>2, <1>6, RecordBytesAre DEF Width
<1>8. Len(f) \in Nat /\ n \in 0..Len(f) /\ n + 1 \in 1..Len(f) /\ DOMAIN f = 1..Len(f)
      /\ n + 1 \in 0..Len(f) /\ n + 1 # 0 /\ (n + 1) - 1 = n
  BY FileIs
<1>9. n # 0 => Good(f, n - 1, LEN)
  BY <1>3 DEF Good
<1> HIDE DEF T, a, w, K
<1>10. /\ rc \in 0..K /\ rc <= Len(sdfile) /\ Len(sdfile) \in Nat
       /\ (rc < K => rc = Len(sdfile)) /\ \A j \in 1..rc : line'[j] = T[(a + 3) + j]
  <2>1. f_read(K, rc)
    BY <1>1
  <2>2. /\ rc \in 0..K /\ rc <= Len(sdfile) /\ Len(sdfile) \in Nat
        /\ (rc < K => rc = Len(sdfile)) /\ \A j \in 1..rc : line'[j] = FileText(f)[(a + 3) + j]
    BY <1>2, <1>5, <2>1, FileRead
  <2> QED
    BY <2>2 DEF T
<1>14. ASSUME rc = K, GoOn("file", rc), n + 1 \notin Ends(f, LEN), stored' = Loaded(f, n + 1, LEN),
              seg' = BaseOf(f, (n + 1) + 1)
       PROVE  OnCard(f)'
  <2>1. Good(f, n + 1, LEN)
    <3>1. \A i \in 1..(n + 1) : i = n + 1 \/ i \in 1..n
      BY <1>8
    <3> QED
      BY <1>3, <1>14, <3>1 DEF Good
  <2>2. pc' = "file" /\ sdfile' = SubSeq(sdfile, rc + 1, Len(sdfile)) /\ rc \in 0..Len(sdfile)
    BY <1>5, <1>10, <1>14 DEF GoOn
  <2>3. Behind(f, (a + 3) + rc)'
    BY <1>2, <2>2, ReadOn
  <2>4. (a + 3) + rc = At(f)[n + 1] - 1
    BY <1>4, <1>5, <1>6, <1>7, <1>14
  <2>5. Behind(f, At(f)[n + 1] - 1)'
    BY <2>3, <2>4
  <2>6. Starting(f, n + 1)'
    BY <1>8, <1>14, <2>1, <2>2, <2>5 DEF Starting, Have
  <2> QED
    BY <1>8, <2>6 DEF OnCard
<1>11. CASE rc > LINE
  BY <1>1, <1>11
<1>12. CASE ~(rc > LINE) /\ rc # K
  <2>1. cut
    <3>1. cut <=> (a + 3) + Len(sdfile) < Len(T)
      BY <1>2 DEF Behind, T
    <3>2. rc < K
      BY <1>5, <1>10, <1>12
    <3> QED
      BY <1>4, <1>5, <1>6, <1>7, <1>10, <3>1, <3>2
  <2>2. Return /\ stored' = stored
    BY <1>1, <1>12
  <2>3. Finished(f)'
    BY <1>2, <1>3, <1>8, <1>9, <2>1, <2>2, Returned
  <2> QED
    BY <2>3 DEF OnCard
<1>13. CASE ~(rc > LINE) /\ rc = K
  <2>1. \A i \in 1..(len + 4) : part(i) = B[i + 1]
    <3> HIDE DEF B, part
    <3>1. \A j \in 1..(6 + len * 2 + 2) : line'[j] = FileText(f)[(a + 3) + j]
      BY <1>5, <1>10, <1>13 DEF T
    <3>2. InLine(line', f, n)
      BY <1>2, <3>1 DEF InLine, a
    <3>3. Parted(line', f, n)
      BY <3>2, PartsAre
    <3> QED
      BY <1>2, <3>3 DEF Parted, part, B
  <2> HIDE DEF part, B
  <2>2. part(1) = B[2] /\ part(2) = B[3] /\ part(3) = B[4] /\ part(3) = r.type /\ word(1) = r.off
    <3>1. 1 \in 1..(len + 4) /\ 2 \in 1..(len + 4) /\ 3 \in 1..(len + 4)
      BY <1>4
    <3>2. part(1) = B[1 + 1] /\ part(2) = B[2 + 1] /\ part(3) = B[3 + 1]
      BY <2>1, <3>1
    <3> QED
      BY <1>7, <3>2
  <2>3. \A i \in 1..len : part(3 + i) = r.data[i]
    <3> SUFFICES ASSUME NEW i \in 1..len
                 PROVE  part(3 + i) = r.data[i]
      OBVIOUS
    <3>1. 3 + i \in 1..(len + 4) /\ (3 + i) + 1 = 4 + i
      BY <1>4
    <3> HIDE DEF r
    <3> QED
      BY <1>7, <2>1, <3>1
  <2>4. Len(r.data) \in 1..LEN
    BY <1>2
  <2>5. CASE r.type = 0
    <3>1. Reads(r, LEN)
      BY <2>4, <2>5 DEF Reads
    <3>2. more = PartOf(f, n + 1, LEN)
      <4>1. PartOf(f, n + 1, LEN) = [h \in 1..len |-> <<(BaseOf(f, n + 1) + r.off + h - 1) % ADDR, r.data[h]>>]
        BY <1>2, <2>5, <3>1 DEF PartOf
      <4> HIDE DEF r, word
      <4> QED
        BY <1>3, <2>2, <2>3, <4>1
    <3>3. stored' = Loaded(f, n + 1, LEN)
      <4>1. stored' = stored \o more
        BY <1>1, <1>13, <2>2, <2>5
      <4>2. Loaded(f, n + 1, LEN) = Loaded(f, n, LEN) \o PartOf(f, n + 1, LEN)
        BY <1>8, LoadedIs
      <4> QED
        BY <1>3, <3>2, <4>1, <4>2
    <3>4. sum = SumOf(B)
      <4> DEFINE z == <<len>>
                 v == [i \in 1..(len + 4) |-> part(i)]
      <4>1. z \in Seq(Byte) /\ Len(z) = 1 /\ z[1] = len
        BY <1>2, <1>6 DEF IsRecord
      <4>2. v = [i \in 1..(len + 4) |-> B[i + 1]]
        BY <2>1
      <4>6. \A i \in 1..(len + 4) : B[i + 1] \in Byte
        BY <1>4, <1>7
      <4>3. v \in Seq(Byte) /\ Len(v) = len + 4 /\ \A i \in 1..(len + 4) : v[i] = B[i + 1]
        BY <1>4, <4>2, <4>6
      <4>7. sum = SumOf(z \o v)
        OBVIOUS
      <4> HIDE DEF z, v, sum
      <4>4. /\ z \o v \in Seq(Byte) /\ Len(z \o v) = Len(z) + Len(v)
            /\ \A i \in 1..(Len(z) + Len(v)) : (z \o v)[i] = IF i <= Len(z) THEN z[i] ELSE v[i - Len(z)]
        <5>1. z \in Seq(Byte) /\ v \in Seq(Byte)
          BY <4>1, <4>3
        <5> QED
          BY <5>1, ConcatProperties
      <4>8. Len(z \o v) = len + 5
        BY <1>4, <4>1, <4>3, <4>4
      <4>9. ASSUME NEW i \in 1..(len + 5)
            PROVE  (z \o v)[i] = B[i]
        <5>1. CASE i = 1
          BY <1>4, <1>7, <4>1, <4>3, <4>4, <5>1
        <5>2. CASE i # 1
          <6>1. i - 1 \in 1..(len + 4) /\ (i - 1) + 1 = i /\ ~(i <= 1)
            BY <1>4, <5>2
          <6>2. (z \o v)[i] = v[i - 1]
            BY <1>4, <4>1, <4>3, <4>4, <6>1
          <6> QED
            BY <4>3, <6>1, <6>2
        <5> QED
          BY <5>1, <5>2
      <4>5. z \o v = B
        <5>1. Len(B) = len + 5
          BY <1>4, <1>7
        <5> QED
          BY <1>7, <4>4, <4>8, <4>9, <5>1, SeqEqual
      <4> QED
        BY <4>5, <4>7
    <3>5. CASE r.bad
      <4>1. SumOf(B) # 0
        BY <1>7, <3>5
      <4>2. Return
        BY <1>1, <1>13, <2>2, <2>5, <3>4, <4>1
      <4>3. n + 1 \in Ends(f, LEN)
        BY <1>8, <2>5, <3>5 DEF Ends
      <4>4. LastOf(f, LEN) = n + 1
        BY <1>3, <1>8, <4>3, LastIs
      <4>5. Finished(f)'
        BY <1>2, <1>3, <1>8, <3>3, <4>2, <4>4, Returned
      <4> QED
        BY <4>5 DEF OnCard
    <3>6. CASE ~r.bad
      <4>1. SumOf(B) = 0
        BY <1>7, <3>6
      <4>2. GoOn("file", rc) /\ seg' = seg
        BY <1>1, <1>13, <2>2, <2>5, <3>4, <4>1, MonitorSizes
      <4>3. n + 1 \notin Ends(f, LEN)
        BY <3>1, <3>6 DEF Ends
      <4>4. BaseOf(f, (n + 1) + 1) = BaseOf(f, n + 1)
        BY <1>8, <2>5, NextBase
      <4>5. seg' = BaseOf(f, (n + 1) + 1)
        BY <1>3, <4>2, <4>4
      <4> QED
        BY <1>13, <1>14, <3>3, <4>2, <4>3, <4>5
    <3> QED
      BY <3>5, <3>6
  <2>6. CASE r.type # 0
    <3>1. stored' = Loaded(f, n + 1, LEN) /\ Loaded(f, n + 1, LEN) = Loaded(f, n, LEN)
      <4>1. stored' = stored
        BY <1>1, <2>2, <2>6
      <4> QED
        BY <1>3, <2>6, <4>1, NothingStored
    <3>2. CASE r.type \notin {0, LINEAR, ENTRY}
      <4>1. Return
        BY <1>1, <1>13, <2>2, <3>2
      <4>2. n + 1 \in Ends(f, LEN)
        BY <1>8, <3>2 DEF Ends, Reads
      <4>3. LastOf(f, LEN) = n + 1
        BY <1>3, <1>8, <4>2, LastIs
      <4>4. Finished(f)'
        BY <1>2, <1>3, <1>8, <3>1, <4>1, <4>3, Returned
      <4> QED
        BY <4>4 DEF OnCard
    <3>3. CASE r.type \in {LINEAR, ENTRY}
      <4>1. n + 1 \notin Ends(f, LEN)
        BY <2>4, <2>6, <3>3 DEF Ends, Reads
      <4>2. GoOn("file", rc) /\ seg' = IF r.type = LINEAR THEN upper ELSE start
        BY <1>1, <1>13, <2>2, <2>6, <3>3, MonitorSizes
      <4>3. len = IF r.type = LINEAR THEN 2 ELSE 4
        BY <1>2, <1>8, <3>3, FileIs
      <4>4. /\ part(4) = r.data[1] /\ part(5) = r.data[2]
            /\ (r.type # LINEAR => part(6) = r.data[3] /\ part(7) = r.data[4])
        <5>1. 3 + 1 = 4 /\ 3 + 2 = 5 /\ 3 + 3 = 6 /\ 3 + 4 = 7
          OBVIOUS
        <5>2. 1 \in 1..len /\ 2 \in 1..len /\ (r.type # LINEAR => 3 \in 1..len /\ 4 \in 1..len)
          BY <4>3
        <5> HIDE DEF r
        <5> QED
          BY <2>3, <5>1, <5>2
      <4>5. seg' = BaseOf(f, (n + 1) + 1)
        <5>1. word(4) = hxword(r.data[1], r.data[2]) /\ (r.type # LINEAR => word(6) = hxword(r.data[3], r.data[4]))
          BY <4>4
        <5> HIDE DEF word
        <5> QED
          BY <1>8, <3>3, <4>2, <5>1, NextBase
      <4> QED
        BY <1>13, <1>14, <3>1, <4>1, <4>2, <4>5
    <3> QED
      BY <2>6, <3>2, <3>3
  <2> QED
    BY <2>5, <2>6
<1> QED
  BY <1>11, <1>12, <1>13

-----------------------------------------------------------------------------
\* The loaders, and all that happens besides.

\* A step of the monitor while it reads the card.
LEMMA CardGoesOn ==
    ASSUME IInv, Resting, cmd \in Commands \cup Followers, cmd.kind = "!", NEW f, f = cmd.file, NEW k \in Nat,
           Left(k), Typing(k) \/ Entered(k) \/ (k = Len(Text) /\ OnCard(f)), Next, ~Begin, ~Press
    PROVE  \/ pc' = "overrun"
           \/ \E j \in Nat : Left(j)' /\ (Typing(j)' \/ Entered(j)' \/ (j = Len(Text') /\ OnCard(f)'))
<1>1. UNCHANGED userVars /\ UNCHANGED <<script, cmd>> /\ Text' = Text
  BY UserWaits DEF userVars, Text
<1>2. f \in Files /\ Len(f) \in Nat
  BY ShortTextIs, FileIs
<1>3. rx' = rx => Left(k)'
  BY <1>1 DEF Left
<1>4. CASE Typing(k)
  <2>1. Editing
    BY <1>4, Steps DEF Typing
  <2>2. Left(k + 1)' /\ (Typing(k + 1)' \/ Entered(k + 1)' \/ pc' = "overrun")
    BY <1>1, <1>4, <2>1, WordTyped
  <2>3. k + 1 \in Nat
    OBVIOUS
  <2> QED
    BY <2>2, <2>3
<1>5. CASE Entered(k)
  <2>1. Nothing \/ xdump \/ xsubst \/ xfill \/ xgo \/ xtptest \/ xread \/ xsdread
    BY <1>5, Steps DEF Entered
  <2>2. seg = RAM
    BY <1>5 DEF Entered, Resting
  <2>3. k = Len(Text) /\ UNCHANGED rx /\ OnCard(f)'
    BY <1>5, <2>1, <2>2, CardBegins
  <2> QED
    BY <1>1, <1>3, <2>3
<1>6. CASE k = Len(Text) /\ OnCard(f)
  <2>1. rx = <<>>
    <3>1. /\ rx \in Seq(Char) /\ script \in Seq(Char) /\ k + Len(rx) + Len(script) = Len(Text)
      BY DEF Left
    <3>2. Len(rx) = 0
      BY <1>6, <3>1
    <3> QED
      BY <3>1, <3>2, EmptySeq
  <2>2. ~Finished(f)
    <3>1. Finished(f) => Editing
      BY Steps DEF Finished
    <3>2. ~Editing
      BY <2>1 DEF Editing, Backspace, Kill, Ignored, Typed, Enter, Key
    <3> QED
      BY <3>1, <3>2
  <2>3. ASSUME OnCard(f)' \/ pc' = "overrun", rx' = rx
        PROVE  \/ pc' = "overrun"
               \/ \E j \in Nat : Left(j)' /\ (Typing(j)' \/ Entered(j)' \/ (j = Len(Text') /\ OnCard(f)'))
    BY <1>1, <1>3, <1>6, <2>3
  <2>4. ASSUME NEW n \in 0..Len(f), Starting(f, n)
        PROVE  OnCard(f)' /\ rx' = rx
    <3>1. GetStart
      BY <2>4, Steps DEF Starting
    <3> QED
      BY <1>2, <2>4, <3>1, StartRead DEF GetStart
  <2>5. ASSUME NEW n \in 0..(Len(f) - 1), Sizing(f, n)
        PROVE  OnCard(f)' /\ rx' = rx
    <3>1. GetLength
      BY <2>5, Steps DEF Sizing
    <3> QED
      BY <1>2, <2>5, <3>1, LengthRead DEF GetLength
  <2>6. ASSUME NEW n \in 0..(Len(f) - 1), Taking(f, n)
        PROVE  (OnCard(f)' \/ pc' = "overrun") /\ rx' = rx
    <3>1. GetRecord
      BY <2>6, Steps DEF Taking
    <3>2. rx' = rx
      BY <3>1 DEF GetRecord
    <3> QED
      BY <1>2, <2>6, <3>1, <3>2, RecordRead
  <2> QED
    BY <1>6, <2>2, <2>3, <2>4, <2>5, <2>6 DEF OnCard
<1> QED
  BY <1>4, <1>5, <1>6

\* Nothing of it changes while keys are pressed.
LEMMA Still ==
    ASSUME UNCHANGED <<pc, inner, line, ct, seg, bytes, nibble, sdfile, len, stored, cut, cmd>>, NEW f, NEW k
    PROVE  /\ Typing(k) => Typing(k)'
           /\ Entered(k) => Entered(k)'
           /\ Reading(f, k) => Reading(f, k)'
           /\ OnCard(f) => OnCard(f)'
           /\ Text' = Text /\ (Resting => Resting')
<1>1. (Typing(k) => Typing(k)') /\ (Entered(k) => Entered(k)')
  BY DEF Typing, Entered, Word
<1>2. Ended(f, k) => Ended(f, k)'
  BY DEF Ended
<1>3. \A n : Seeking(f, n, k) => Seeking(f, n, k)'
  BY DEF Seeking, Have
<1>4. \A n, m : InRecord(f, n, m, k) => InRecord(f, n, m, k)'
  BY DEF InRecord
<1>5. \A n : (Starting(f, n) => Starting(f, n)') /\ (Sizing(f, n) => Sizing(f, n)') /\ (Taking(f, n) => Taking(f, n)')
  BY DEF Starting, Sizing, Taking, Have, Behind
<1>6. Finished(f) => Finished(f)'
  BY DEF Finished
<1>7. Text' = Text /\ (Resting => Resting')
  BY DEF Text, Resting
<1> QED
  BY <1>1, <1>2, <1>3, <1>4, <1>5, <1>6, <1>7, Zenon DEF Reading, OnCard

LEMMA RestsOn ==
    ASSUME Resting, [Next]_vars
    PROVE  Resting'
<1> DEFINE Rests == {"getline", "dispatch", "reply", "dump", "program", "tptest"}
<1>1. Prompt \/ Return => seg' = RAM
  BY DEF Prompt, Return
<1>2. CASE UNCHANGED vars \/ Begin \/ Press
  BY <1>2 DEF Resting, vars, Begin, Press, locals
<1>3. CASE pc = "getline" /\ Editing
  BY <1>3 DEF Resting, Editing, Backspace, Kill, Ignored, Typed, Enter, locals
<1>4. CASE pc = "dispatch" /\ (Nothing \/ xdump \/ xsubst \/ xfill \/ xgo \/ xtptest \/ xread \/ xsdread)
  <2>1. seg' = seg \/ Prompt \/ seg' = RAM
    BY <1>4 DEF Nothing, xdump, xsubst, xfill, xgo, xtptest, xread, xsdread, AskAt, locals
  <2> QED
    BY <1>1, <1>4, <2>1 DEF Resting
<1>5. CASE (pc = "reply" /\ (AnswerMoves \/ AnswerStores \/ AnswerEnds)) \/ (pc = "dump" /\ (DumpRow \/ DumpBreak \/ DumpEnd))
           \/ (pc = "program" /\ ProgramReturns) \/ (pc = "tptest" /\ TpTestEnds)
  <2>1. seg' = seg \/ Prompt
    BY <1>5 DEF AnswerMoves, AnswerStores, AnswerEnds, AskAt, DumpRow, DumpBreak, DumpEnd, ProgramReturns, TpTestEnds
  <2> QED
    BY <1>1, <1>5, <2>1 DEF Resting
<1>6. CASE (pc = "colon" /\ Colon) \/ (pc = "record" /\ (HalfByte \/ HeaderByte \/ SegmentByte \/ DataByte \/ SumByte))
  <2>1. Prompt \/ pc' \in {"colon", "record"}
    BY <1>6 DEF Colon, HalfByte, HeaderByte, SegmentByte, DataByte, SumByte
  <2> QED
    BY <1>1, <2>1 DEF Resting
<1>7. CASE GetStart
  <2>1. Return \/ pc' \in {"file", "length"}
    BY <1>7 DEF GetStart, GoOn
  <2> QED
    BY <1>1, <2>1 DEF Resting
<1>8. CASE GetLength
  <2>1. Return \/ pc' = "rest"
    BY <1>8 DEF GetLength, GoOn
  <2> QED
    BY <1>1, <2>1 DEF Resting
<1>9. CASE GetRecord
  <2>1. Return \/ pc' \in {"file", "overrun"}
    BY <1>9 DEF GetRecord, GoOn
  <2> QED
    BY <1>1, <2>1 DEF Resting
<1> QED
  BY <1>2, <1>3, <1>4, <1>5, <1>6, <1>7, <1>8, <1>9, Steps

\* A command is given at a prompt.
LEMMA Given ==
    ASSUME Begin, clean', cmd'.kind \in {"R", "!"}
    PROVE  cmd' \in Commands \cup Followers /\ Left(0)' /\ Typing(0)'
<1>1. /\ cmd' \in Commands \cup Followers /\ script' = TextOf[cmd'] /\ stored' = <<>>
      /\ pc = "getline" /\ ~inner /\ ct = 0 /\ rx = <<>> /\ UNCHANGED <<rx, pc, inner, ct>>
  BY DEF Begin, editVars
<1>2. TextOf[cmd'] \in Seq(Char)
  <2> DEFINE c == cmd'
  <2>1. c \in Commands \cup Followers /\ c.kind \in {"R", "!"}
    BY <1>1
  <2> HIDE DEF c
  <2>2. TextOf[c] \in Seq(Char)
    BY <2>1, TextIs, ShortTextIs
  <2> QED
    BY <2>2 DEF c
<1>3. Left(0)'
  <2> DEFINE t == TextOf[cmd']
  <2>1. t \in Seq(Char) /\ Len(t) \in Nat /\ script' = t /\ Text' = t /\ rx' = <<>>
    BY <1>1, <1>2 DEF Text
  <2> HIDE DEF t
  <2>2. rx' \in Seq(Char) /\ Len(rx') = 0
    BY <2>1
  <2>3. 0 + Len(rx') + Len(script') = Len(Text')
    BY <2>1, <2>2
  <2>4. \A j \in 1..Len(script') : script'[j] = Text'[0 + Len(rx') + j]
    BY <2>1, <2>2
  <2>5. \A j \in 1..Len(rx') : rx'[j] = Text'[0 + j]
    BY <2>2
  <2> QED
    BY <2>1, <2>2, <2>3, <2>4, <2>5 DEF Left
<1>4. Typing(0)'
  BY <1>1 DEF Typing, Word
<1> QED
  BY <1>1, <1>3, <1>4

LEMMA NextFInv == IInv /\ FInv /\ [Next]_vars => FInv'
<1> SUFFICES ASSUME IInv, FInv, [Next]_vars
             PROVE  FInv'
  OBVIOUS
<1>1. Resting'
  BY RestsOn DEF FInv
<1>2. CASE UNCHANGED vars \/ Press
  <2>1. UNCHANGED <<pc, inner, line, ct, seg, bytes, nibble, sdfile, len, stored, cut, cmd>>
    BY <1>2 DEF vars, Press, editVars, locals, readVars, fileVars, seenVars, userVars
  <2>2. clean' => clean
    BY <1>2 DEF vars, userVars, Press
  <2>3. \A k : Left(k) /\ clean' => Left(k)'
    <3> SUFFICES ASSUME NEW k, Left(k), clean'
                 PROVE  Left(k)'
      OBVIOUS
    <3>1. CASE UNCHANGED vars
      BY <3>1 DEF vars, userVars, Left, Text
    <3>2. CASE Press
      BY <3>2, KeyPressed
    <3> QED
      BY <1>2, <3>1, <3>2
  <2>4. clean' => cmd' \in Commands \cup Followers
    BY <2>1, <2>2 DEF FInv
  <2>5. ASSUME clean', cmd'.kind = "R"
        PROVE  \E k \in Nat : Left(k)' /\ Reading(cmd.file, k)'
    <3>1. PICK k \in Nat : Left(k) /\ Reading(cmd.file, k)
      BY <2>1, <2>2, <2>5 DEF FInv
    <3>2. Left(k)'
      BY <2>3, <2>5, <3>1
    <3> DEFINE f == cmd.file
    <3>3. Reading(f, k) => (Reading(f, k))'
      BY <2>1, Still
    <3> QED
      BY <3>1, <3>2, <3>3
  <2>6. ASSUME clean', cmd'.kind = "!"
        PROVE  \/ pc' = "overrun"
               \/ \E k \in Nat : Left(k)' /\ (Typing(k)' \/ Entered(k)' \/ (k = Len(Text') /\ OnCard(cmd.file)'))
    <3>1. \/ pc = "overrun"
          \/ \E k \in Nat : Left(k) /\ (Typing(k) \/ Entered(k) \/ (k = Len(Text) /\ OnCard(cmd.file)))
      BY <2>1, <2>2, <2>6 DEF FInv
    <3>2. CASE pc = "overrun"
      BY <2>1, <3>2
    <3>3. ASSUME NEW k \in Nat, Left(k), Typing(k) \/ Entered(k) \/ (k = Len(Text) /\ OnCard(cmd.file))
          PROVE  Left(k)' /\ (Typing(k)' \/ Entered(k)' \/ (k = Len(Text') /\ OnCard(cmd.file)'))
      <4>1. Left(k)'
        BY <2>3, <2>6, <3>3
      <4> DEFINE f == cmd.file
      <4>2. (OnCard(f) => OnCard(f)') /\ (Typing(k) => Typing(k)') /\ (Entered(k) => Entered(k)') /\ Text' = Text
        BY <2>1, Still
      <4> QED
        BY <3>3, <4>1, <4>2
    <3> QED
      BY <3>1, <3>2, <3>3
  <2> QED
    BY <1>1, <2>4, <2>5, <2>6 DEF FInv
<1>3. CASE Begin
  <2>1. clean' => cmd' \in Commands \cup Followers
    BY <1>3 DEF Begin
  <2>2. clean' /\ cmd'.kind \in {"R", "!"} => Left(0)' /\ Typing(0)'
    BY <1>3, Given
  <2>3. 0 \in Nat
    OBVIOUS
  <2> QED
    BY <1>1, <2>1, <2>2, <2>3 DEF FInv, Reading
<1>4. CASE Next /\ ~Begin /\ ~Press
  <2>1. UNCHANGED <<clean, cmd>>
    BY <1>4, UserWaits DEF userVars
  <2>2. clean' => cmd' \in Commands \cup Followers
    BY <2>1 DEF FInv
  <2> DEFINE f == cmd.file
  <2>3. ASSUME clean', cmd'.kind = "R"
        PROVE  \E k \in Nat : Left(k)' /\ Reading(f, k)'
    <3>1. PICK k \in Nat : Left(k) /\ Reading(f, k)
      BY <2>1, <2>3 DEF FInv
    <3>2. Mine
      BY <2>1, <2>2, <2>3 DEF Mine
    <3>3. ASSUME NEW g, g = cmd.file
          PROVE  \E k1 \in Nat : Left(k1)' /\ Reading(g, k1)'
      BY <1>4, <3>1, <3>2, <3>3, SentGoesOn
    <3> QED
      BY <2>1, <3>3
  <2>4. ASSUME clean', cmd'.kind = "!"
        PROVE  \/ pc' = "overrun"
               \/ \E k \in Nat : Left(k)' /\ (Typing(k)' \/ Entered(k)' \/ (k = Len(Text') /\ OnCard(f)'))
    <3>1. cmd \in Commands \cup Followers /\ cmd.kind = "!" /\ clean
      BY <2>1, <2>2, <2>4
    <3>2. pc # "overrun"
      BY <1>4, Steps
    <3>3. PICK k \in Nat : Left(k) /\ (Typing(k) \/ Entered(k) \/ (k = Len(Text) /\ OnCard(f)))
      BY <3>1, <3>2 DEF FInv
    <3>4. ASSUME NEW g, g = cmd.file
          PROVE  \/ pc' = "overrun"
                 \/ \E j \in Nat : Left(j)' /\ (Typing(j)' \/ Entered(j)' \/ (j = Len(Text') /\ OnCard(g)'))
      BY <1>4, <3>1, <3>3, <3>4, CardGoesOn DEF FInv
    <3> QED
      BY <2>1, <3>4
  <2> QED
    BY <1>1, <2>2, <2>3, <2>4 DEF FInv
<1> QED
  BY <1>2, <1>3, <1>4

LEMMA StartsFInv == Init => FInv
BY DEF Init, FInv, Resting

\* The keys of a file that are left, or what is left of it on the card, and what of
\* it is in memory belong together, all the way through it.
THEOREM FilesInductive == Spec => []FInv
BY StartsFInv, NextFInv, Inductive, PTL DEF Spec

LEMMA CardLoaded ==
    ASSUME FInv, clean, cmd.kind = "!", pc # "overrun"
    PROVE  /\ \E n \in 0..Len(cmd.file) : stored = Stored[cmd.file][n]
           /\ Done /\ ~cut => stored = Stored[cmd.file][Len(cmd.file)]
<1> DEFINE f == cmd.file
<1>1. cmd \in Commands \cup Followers
  BY DEF FInv
<1>2. PICK k \in Nat : Left(k) /\ (Typing(k) \/ Entered(k) \/ (k = Len(Text) /\ OnCard(f)))
  BY DEF FInv
<1>3. f \in Files /\ Len(f) \in Nat /\ Len(Text) = 3
  BY <1>1, ShortTextIs, FileIs DEF Text
<1>4. Stored[f] = [n \in 0..Len(f) |-> Image(SubSeq(f, 1, n), LEN)]
  BY <1>3 DEF Stored
<1> HIDE DEF f
<1>5. \A n \in 0..Len(f) : Stored[f][n] = Image(SubSeq(f, 1, n), LEN)
  BY <1>4
<1>6. Stored[f][Len(f)] = Image(f, LEN)
  <2>1. Len(f) \in 0..Len(f) /\ SubSeq(f, 1, Len(f)) = f
    BY <1>3, WholeFile
  <2> QED
    BY <1>5, <2>1
<1>7. ASSUME NEW n \in 0..Len(f), Have(f, n, LEN)
      PROVE  stored = Stored[f][n]
  <2>1. stored = Loaded(f, n, LEN) /\ (n # 0 => Good(f, n - 1, LEN))
    BY <1>3, <1>7 DEF Have, Good
  <2> QED
    BY <1>3, <1>5, <2>1, FirstRecords
<1>8. CASE Typing(k) \/ Entered(k)
  <2>1. stored = <<>>
    BY <1>8 DEF Typing, Entered
  <2>2. 0 \in 0..Len(f)
    BY <1>3
  <2>3. Stored[f][0] = <<>>
    <3>1. Image(SubSeq(f, 1, 0), LEN) = Loaded(f, 0, LEN)
      BY <1>3, <2>2, FirstRecords
    <3> QED
      BY <1>3, <1>5, <2>2, <3>1, LoadedIs
  <2>4. ~Done
    <3> SUFFICES ASSUME Done
                 PROVE  FALSE
      OBVIOUS
    <3>1. k = Len(Text) /\ k = 0
      BY <1>2, <1>8 DEF Done, Typing, Entered, Left
    <3> QED
      BY <1>3, <3>1
  <2> QED
    BY <2>1, <2>2, <2>3, <2>4 DEF f
<1>9. CASE Finished(f)
  BY <1>5, <1>6, <1>9 DEF Finished, f
<1>10. ASSUME NEW n \in 0..Len(f), Starting(f, n)
       PROVE  stored = Stored[f][n] /\ ~Done
  BY <1>7, <1>10 DEF Starting, Done
<1>11. ASSUME NEW n \in 0..(Len(f) - 1), Sizing(f, n) \/ Taking(f, n)
       PROVE  n \in 0..Len(f) /\ stored = Stored[f][n] /\ ~Done
  <2>1. n \in 0..Len(f) /\ Have(f, n, LEN) /\ ~Done
    BY <1>3, <1>11 DEF Sizing, Taking, Done
  <2> QED
    BY <1>7, <2>1
<1> QED
  BY <1>2, <1>8, <1>9, <1>10, <1>11 DEF OnCard, f

LEMMA IsLoaded == FInv => FilesLoaded
<1> SUFFICES ASSUME FInv
             PROVE  FilesLoaded
  OBVIOUS
<1>1. ASSUME clean, cmd.kind = "R"
      PROVE  IsPrefix(stored, Sent[cmd.file]) /\ (Done => stored = Sent[cmd.file])
  <2>1. Mine /\ \E k \in Nat : Left(k) /\ Reading(cmd.file, k)
    BY <1>1 DEF FInv, Mine
  <2> QED
    BY <2>1, SentLoaded
<1>2. SentIsLoaded
  BY <1>1 DEF SentIsLoaded
<1>3. FileIsLoaded
  BY CardLoaded DEF FileIsLoaded
<1> QED
  BY <1>2, <1>3 DEF FilesLoaded

\* The HEX loaders, for all files of records, all sizes of the line and the records
\* and all failures of the card: what xread or xsdread has stored is what the file
\* says, in its order, up to where it has come, and all of it when the monitor
\* answers again; what xread leaves unread of a file does nothing.
THEOREM FilesAreLoaded == Spec => []FilesLoaded
BY FilesInductive, IsLoaded, PTL

-----------------------------------------------------------------------------
\* Numbers, read.

\* Dividing twice.
LEMMA DividedTwice ==
    ASSUME NEW n \in Int, NEW a \in Nat \ {0}, NEW b \in Nat \ {0}
    PROVE  n \div (a * b) = (n \div a) \div b
<1>1. PICK q \in Int, r \in 0..(a - 1) : n = q * a + r /\ n \div a = q
  BY Division
<1>2. PICK q1 \in Int, s \in 0..(b - 1) : q = q1 * b + s /\ q \div b = q1
  BY Division
<1> DEFINE y == s * a + r
           c == a * b
<1>3. c \in Nat \ {0} /\ (b - 1) * a = c - a /\ c \in Int
  OBVIOUS
<1>4. s * a <= (b - 1) * a /\ s * a >= 0 /\ s * a \in Int
  <2>1. (b - 1) - s \in Nat /\ a \in Nat
    OBVIOUS
  <2>2. ((b - 1) - s) * a >= 0
    BY <2>1
  <2>3. ((b - 1) - s) * a = (b - 1) * a - s * a
    OBVIOUS
  <2>4. s * a >= 0
    OBVIOUS
  <2> QED
    BY <2>2, <2>3, <2>4
<1>5. y \in 0..(c - 1)
  <2>1. (b - 1) * a \in Int
    OBVIOUS
  <2> QED
    BY <1>3, <1>4, <2>1
<1>6. n = q1 * c + y
  <2>1. (q1 * b + s) * a = (q1 * b) * a + s * a
    OBVIOUS
  <2>2. (q1 * b) * a = q1 * c
    OBVIOUS
  <2> QED
    BY <1>1, <1>2, <2>1, <2>2
<1> HIDE DEF y, c
<1>7. y \in Int
  BY <1>3, <1>5
<1>8. (q1 * c + y) \div c = q1
  BY <1>3, <1>5, <1>7, Remainder
<1> QED
  BY <1>1, <1>2, <1>6, <1>8 DEF c

\* The weights of the digits.
LEMMA WeightIs ==
    /\ Weight[1] = 1 /\ Weight[9] = ADDR /\ Weight[8] = TOP
    /\ \A k \in 1..9 : Weight[k] \in Nat \ {0}
    /\ \A k \in 1..8 : Weight[k + 1] = Weight[k] * HEX
<1>1. HEX \in Nat \ {0} /\ BYTE \in Nat \ {0} /\ WORD \in Nat \ {0}
  BY Sizes
<1> DEFINE A == WORD * BYTE
<1>2. BYTE = HEX * HEX /\ WORD = BYTE * BYTE /\ TOP = A * HEX /\ ADDR = WORD * WORD
  BY DEF BYTE, WORD, TOP, ADDR
<1> HIDE DEF BYTE, WORD, TOP, ADDR, HEX
<1>3. BYTE * HEX \in Nat \ {0} /\ WORD * HEX \in Nat \ {0} /\ A \in Nat \ {0}
  BY <1>1
<1>4. WORD = (BYTE * HEX) * HEX
  BY <1>1, <1>2
<1>5. A = (WORD * HEX) * HEX
  BY <1>1, <1>2
<1>6. ADDR = (A * HEX) * HEX
  BY <1>1, <1>2
<1>7. A * HEX \in Nat \ {0}
  <2> HIDE DEF A
  <2> QED
    BY <1>1, <1>3
<1>8. TOP \in Nat \ {0} /\ ADDR = TOP * HEX
  BY <1>2, <1>6, <1>7
<1>9. ADDR \in Nat \ {0}
  <2> HIDE DEF A
  <2> QED
    BY <1>1, <1>8
<1>10. 1 * HEX = HEX
  BY <1>1
<1> HIDE DEF A
<1>11. /\ Weight[1] = 1 /\ Weight[2] = HEX /\ Weight[3] = BYTE /\ Weight[4] = BYTE * HEX /\ Weight[5] = WORD
       /\ Weight[6] = WORD * HEX /\ Weight[7] = A /\ Weight[8] = TOP /\ Weight[9] = ADDR
  BY DEF Weight, A
<1>12. ASSUME NEW k \in 1..8
       PROVE  Weight[k + 1] = Weight[k] * HEX
  <2>1. k = 1 \/ k = 2 \/ k = 3 \/ k = 4 \/ k = 5 \/ k = 6 \/ k = 7 \/ k = 8
    OBVIOUS
  <2>2. 1 + 1 = 2 /\ 2 + 1 = 3 /\ 3 + 1 = 4 /\ 4 + 1 = 5 /\ 5 + 1 = 6 /\ 6 + 1 = 7 /\ 7 + 1 = 8 /\ 8 + 1 = 9
    OBVIOUS
  <2> QED
    BY <1>2, <1>4, <1>5, <1>8, <1>10, <1>11, <2>1, <2>2, Zenon
<1>13. ASSUME NEW k \in 1..9
       PROVE  Weight[k] \in Nat \ {0}
  <2>1. k = 1 \/ k = 2 \/ k = 3 \/ k = 4 \/ k = 5 \/ k = 6 \/ k = 7 \/ k = 8 \/ k = 9
    OBVIOUS
  <2>2. 1 \in Nat \ {0}
    OBVIOUS
  <2> QED
    BY <1>1, <1>3, <1>8, <1>9, <1>11, <2>1, <2>2, Zenon
<1> QED
  BY <1>11, <1>12, <1>13

LEMMA Address == /\ ADDR \in Nat \ {0} /\ TOP \in Nat \ {0} /\ RAM \in Nat /\ RAM >= TOP /\ RAM + TOP <= ADDR
                 /\ ADDR = TOP * HEX
<1>1. ADDR \in Nat \ {0} /\ TOP \in Nat \ {0} /\ ADDR = TOP * HEX
  <2>1. 8 \in 1..8 /\ 8 \in 1..9 /\ 9 \in 1..9 /\ 8 + 1 = 9
    OBVIOUS
  <2> QED
    BY <2>1, WeightIs
<1> HIDE DEF ADDR, TOP
<1> DEFINE h == HEX \div 2
<1>2. HEX \in Nat /\ HEX > 1
  BY Sizes
<1> HIDE DEF HEX
<1>3. h \in Nat /\ h >= 1 /\ h + 1 <= HEX /\ RAM = h * TOP
  BY <1>2 DEF RAM
<1> HIDE DEF h
<1>4. h * TOP \in Nat /\ h * TOP >= TOP
  BY <1>1, <1>3
<1>5. (h + 1) * TOP <= HEX * TOP /\ (h + 1) * TOP = h * TOP + TOP /\ HEX * TOP = TOP * HEX
  <2>1. HEX - (h + 1) \in Nat
    BY <1>2, <1>3
  <2>2. (HEX - (h + 1)) * TOP >= 0
    BY <1>1, <2>1
  <2>3. (HEX - (h + 1)) * TOP = HEX * TOP - (h + 1) * TOP /\ HEX * TOP \in Int /\ (h + 1) * TOP \in Int
    BY <1>1, <1>2, <1>3
  <2>4. (h + 1) * TOP = h * TOP + TOP /\ HEX * TOP = TOP * HEX
    BY <1>1, <1>2, <1>3
  <2> QED
    BY <2>2, <2>3, <2>4
<1> QED
  BY <1>1, <1>3, <1>4, <1>5

\* A number has the figures it is typed with: at least one, and at most eight.
LEMMA PlacesIs ==
    ASSUME NEW n \in 0..(ADDR - 1)
    PROVE  Places(n) \in 1..8 /\ n < Weight[Places(n) + 1]
<1> DEFINE S == {w \in 1..8 : n < Weight[w + 1]}
<1>1. S \in SUBSET Nat /\ S # {}
  <2>1. 8 \in 1..8 /\ 8 + 1 = 9 /\ n < ADDR
    BY Address
  <2>2. 8 \in S
    BY <2>1, WeightIs
  <2>3. S \subseteq 1..8 /\ 1..8 \subseteq Nat
    OBVIOUS
  <2> HIDE DEF S
  <2> QED
    BY <2>2, <2>3
<1>2. PICK w \in S : \A k \in S : w <= k
  BY <1>1, LeastOne
<1>3. w \in 1..8 /\ n < Weight[w + 1]
  OBVIOUS
<1>4. ASSUME NEW u \in 1..(w - 1)
      PROVE  n >= Weight[u + 1]
  <2>1. u \in 1..8 /\ u + 1 \in 1..9 /\ ~(w <= u)
    BY <1>3
  <2>2. Weight[u + 1] \in Nat
    BY <2>1, WeightIs
  <2>3. ~(n < Weight[u + 1])
    BY <1>2, <2>1
  <2> QED
    BY <2>2, <2>3, Address
<1>5. \E v \in 1..8 : n < Weight[v + 1] /\ \A u \in 1..(v - 1) : n >= Weight[u + 1]
  BY <1>3, <1>4
<1> QED
  BY <1>5 DEF Places

\* The figures of a number.
LEMMA FiguresAre ==
    ASSUME NEW n \in 0..(ADDR - 1), NEW w \in 1..8
    PROVE  /\ Figures(n, w) \in Seq(ToSet(Digit)) /\ Len(Figures(n, w)) = w
           /\ \A i \in 1..w : /\ w - i + 1 \in 1..8 /\ n \div Weight[w - i + 1] \in Nat
                            /\ Figures(n, w)[i] \in ToSet(Digit)
                            /\ inhex(Figures(n, w)[i]) = (n \div Weight[w - i + 1]) % HEX
<1>1. HEX \in Nat \ {0} /\ ADDR \in Nat
  BY Sizes, Address
<1>2. ASSUME NEW i \in 1..w
      PROVE  LET q == n \div Weight[w - i + 1]
             IN  /\ w - i + 1 \in 1..8 /\ q \in Nat
                 /\ Digit[(q % HEX) + 1] \in ToSet(Digit) /\ inhex(Digit[(q % HEX) + 1]) = q % HEX
  <2> DEFINE v == w - i + 1
             q == n \div Weight[v]
  <2>1. v \in 1..8 /\ v \in 1..9
    OBVIOUS
  <2>2. Weight[v] \in Nat \ {0}
    BY <2>1, WeightIs
  <2>3. q \in Nat
    <3> HIDE DEF v
    <3> DEFINE u == Weight[v]
    <3>1. n \in Nat /\ u \in Nat \ {0}
      BY <1>1, <2>2
    <3> HIDE DEF u
    <3>2. n \div u \in Nat
      BY <3>1
    <3> QED
      BY <3>2 DEF u
  <2> HIDE DEF q
  <2>4. q % HEX \in 0..(HEX - 1)
    BY <1>1, <2>3
  <2>5. Digit[(q % HEX) + 1] \in ToSet(Digit) /\ inhex(Digit[(q % HEX) + 1]) = q % HEX
    BY <2>4, DigitRead
  <2> QED
    BY <2>1, <2>3, <2>5 DEF q
<1>3. Figures(n, w) = [i \in 1..w |-> Digit[((n \div Weight[w - i + 1]) % HEX) + 1]]
  BY DEF Figures
<1>4. Figures(n, w) \in [1..w -> ToSet(Digit)]
  BY <1>2, <1>3
<1>5. \A i \in 1..w : Figures(n, w)[i] = Digit[((n \div Weight[w - i + 1]) % HEX) + 1]
  BY <1>3
<1>6. Figures(n, w) \in Seq(ToSet(Digit)) /\ Len(Figures(n, w)) = w
  BY <1>4
<1> QED
  BY <1>2, <1>5, <1>6

\* A number as it is typed.
LEMMA NumberIs ==
    ASSUME NEW n \in (0..(ADDR - 1)) \cup {None}
    PROVE  /\ Number(n) \in Seq(ToSet(Digit)) /\ Len(Number(n)) \in 0..8
           /\ n # None => Len(Number(n)) # 0
           /\ \A i \in 1..Len(Number(n)) : Number(n)[i] \in ToSet(Digit)
<1>1. CASE n = None
  BY <1>1 DEF Number
<1>2. CASE n # None
  <2> DEFINE w == Places(n)
             F == Figures(n, w)
  <2>1. n \in 0..(ADDR - 1) /\ Number(n) = F
    BY <1>2 DEF Number
  <2>2. w \in 1..8
    BY <2>1, PlacesIs
  <2> HIDE DEF w
  <2>3. F \in Seq(ToSet(Digit)) /\ Len(F) = w /\ \A i \in 1..w : F[i] \in ToSet(Digit)
    BY <2>1, <2>2, FiguresAre
  <2> HIDE DEF F
  <2> QED
    BY <2>1, <2>2, <2>3
<1> QED
  BY <1>1, <1>2

\* Where the digits end.
LEMMA AfterIs ==
    ASSUME Room \in Nat, NEW i \in Nat \ {0}, NEW w \in Nat, i + w <= Room, inhex(line[i + w]) = None,
           \A j \in 1..w : inhex(line[i + j - 1]) # None
    PROVE  After(i) = i + w
<1> DEFINE Fits(j) == inhex(line[j]) = None /\ \A h \in i..(j - 1) : inhex(line[h]) # None
<1>1. \A h \in i..(i + w - 1) : inhex(line[h]) # None
  <2> SUFFICES ASSUME NEW h \in i..(i + w - 1)
               PROVE  inhex(line[h]) # None
    OBVIOUS
  <2>1. h - i + 1 \in 1..w /\ i + (h - i + 1) - 1 = h
    OBVIOUS
  <2> QED
    BY <2>1
<1>2. i + w \in i..Room /\ Fits(i + w)
  BY <1>1
<1>3. \A j \in i..Room : Fits(j) => j = i + w
  <2> SUFFICES ASSUME NEW j \in i..Room, Fits(j)
               PROVE  j = i + w
    OBVIOUS
  <2>1. ~(j < i + w)
    <3>1. j < i + w => j \in i..(i + w - 1)
      OBVIOUS
    <3> QED
      BY <1>1, <3>1
  <2>2. ~(j > i + w)
    <3>1. j > i + w => i + w \in i..(j - 1)
      OBVIOUS
    <3> QED
      BY <3>1
  <2> QED
    BY <2>1, <2>2
<1>5. After(i) = CHOOSE j \in i..Room : Fits(j)
  BY Zenon DEF After
<1> HIDE DEF Fits
<1> QED
  BY <1>2, <1>3, <1>5

\* What getdata computes.
Summing(i, w, d) == /\ d \in [0..w -> Int] /\ d[0] = 0
                    /\ \A j \in 1..w : d[j] = (d[j - 1] * HEX + inhex(line[i + j - 1])) % ADDR

LEMMA DataIs ==
    ASSUME NEW i, NEW w \in Nat, After(i) - i = w, NEW d, Summing(i, w, d)
    PROVE  getdata(i) = d[w]
<1> DEFINE Fits(f) == f = [j \in 0..(After(i) - i) |->
                             IF j = 0 THEN 0 ELSE (f[j - 1] * HEX + inhex(line[i + j - 1])) % ADDR]
           e == CHOOSE f : Fits(f)
           Same == {j \in 0..w : e[j] = d[j]}
<1>1. getdata(i) = e[w]
  <2>1. getdata(i) = e[After(i) - i]
    BY Zenon DEF getdata
  <2> HIDE DEF e
  <2> QED
    BY <2>1
<1>2. Fits(d)
  <2>1. d \in [0..w -> Int] /\ d[0] = 0 /\ \A j \in 1..w : d[j] = (d[j - 1] * HEX + inhex(line[i + j - 1])) % ADDR
    BY DEF Summing
  <2>2. \A j \in 0..w : d[j] = IF j = 0 THEN 0 ELSE (d[j - 1] * HEX + inhex(line[i + j - 1])) % ADDR
    <3>1. \A j \in 0..w : j = 0 \/ j \in 1..w
      OBVIOUS
    <3> HIDE DEF ADDR, HEX
    <3> QED
      BY <2>1, <3>1
  <2>3. d = [j \in 0..w |-> d[j]]
    BY <2>1
  <2> QED
    BY <2>2, <2>3, Zenon
<1>3. Fits(e)
  BY <1>2, Zenon
<1> HIDE DEF e
<1>4. \A j \in 0..w : e[j] = IF j = 0 THEN 0 ELSE (e[j - 1] * HEX + inhex(line[i + j - 1])) % ADDR
  <2> HIDE DEF ADDR, HEX
  <2> QED
    BY <1>3
<1>5. /\ d[0] = 0 /\ \A j \in 1..w : d[j] = (d[j - 1] * HEX + inhex(line[i + j - 1])) % ADDR
  BY DEF Summing
<1>6. 0 \in Same
  BY <1>4, <1>5
<1>7. ASSUME NEW n \in 0..(w - 1), n \in Same
      PROVE  n + 1 \in Same
  <2>1. n + 1 \in 1..w /\ n + 1 \in 0..w /\ (n + 1) - 1 = n /\ n + 1 # 0
    OBVIOUS
  <2>2. e[n + 1] = (e[n] * HEX + inhex(line[i + (n + 1) - 1])) % ADDR
    BY <1>4, <2>1, Zenon
  <2>3. d[n + 1] = (d[n] * HEX + inhex(line[i + (n + 1) - 1])) % ADDR
    BY <1>5, <2>1, Zenon
  <2>4. e[n] = d[n]
    BY <1>7
  <2>5. e[n + 1] = d[n + 1]
    BY <2>2, <2>3, <2>4, Zenon
  <2> QED
    BY <2>1, <2>5
<1> HIDE DEF Same
<1>8. \A n \in 0..w : n \in Same
  BY <1>6, <1>7, Climb
<1>9. e[w] = d[w]
  BY <1>8 DEF Same
<1> QED
  BY <1>1, <1>9

\* A number from its first figure on.
Made(n, d) == LET w == Len(Number(n))
                 IN  /\ d \in [0..w -> Int] /\ d[0] = 0 /\ d[w] = n
                     /\ \A j \in 1..w : d[j] = (d[j - 1] * HEX + inhex(Number(n)[j])) % ADDR

LEMMA FiguresMake ==
    ASSUME NEW n \in 0..(ADDR - 1)
    PROVE  \E d : Made(n, d)
<1> DEFINE w == Places(n)
           F == Figures(n, w)
           d == [j \in 0..w |-> n \div Weight[w - j + 1]]
<1>1. w \in 1..8 /\ n < Weight[w + 1]
  BY PlacesIs
<1>2. Number(n) = F
  <2>1. n # None
    BY Address DEF None
  <2> QED
    BY <2>1 DEF Number
<1>3. ADDR \in Nat \ {0} /\ HEX \in Nat \ {0} /\ n \in Nat
  BY Address, Sizes
<1> HIDE DEF w
<1>4. /\ Len(F) = w
      /\ \A j \in 1..w : w - j + 1 \in 1..8 /\ inhex(F[j]) = (n \div Weight[w - j + 1]) % HEX
  BY <1>1, FiguresAre
<1> HIDE DEF F
<1>5. ASSUME NEW k \in 1..9
      PROVE  Weight[k] \in Nat \ {0} /\ n \div Weight[k] \in Nat /\ n \div Weight[k] <= n
  <2> DEFINE a == Weight[k]
  <2>1. a \in Nat \ {0}
    BY WeightIs
  <2> HIDE DEF a
  <2>2. PICK q \in Int, r \in 0..(a - 1) : n = q * a + r /\ n \div a = q
    BY <1>3, <2>1, Division
  <2>3. q >= 0
    <3> SUFFICES ASSUME q <= -1
                 PROVE  FALSE
      OBVIOUS
    <3>1. q * a <= - a
      BY <2>1
    <3> QED
      BY <1>3, <2>1, <2>2, <3>1
  <2>4. q <= q * a
    BY <2>1, <2>3
  <2> QED
    BY <1>3, <2>1, <2>2, <2>3, <2>4 DEF a
<1>6. \A j \in 0..w : w - j + 1 \in 1..9
  BY <1>1
<1>7. d \in [0..w -> Int]
  <2>1. \A j \in 0..w : n \div Weight[w - j + 1] \in Int
    BY <1>5, <1>6
  <2> QED
    BY <2>1
<1>8. \A j \in 0..w : d[j] = n \div Weight[w - j + 1]
  OBVIOUS
<1> HIDE DEF d
<1>9. d[0] = 0
  <2> DEFINE u == Weight[w + 1]
  <2>1. w + 1 \in 1..9 /\ 0 \in 0..w /\ w - 0 + 1 = w + 1
    BY <1>1
  <2>2. u \in Nat \ {0} /\ n < u /\ d[0] = n \div u
    BY <1>1, <1>5, <1>8, <2>1
  <2> HIDE DEF u
  <2>3. n \div u = 0
    BY <1>3, <2>2
  <2> QED
    BY <2>2, <2>3
<1>10. d[w] = n
  <2>1. w \in 0..w /\ w - w + 1 = 1 /\ Weight[1] = 1 /\ n \div 1 = n
    BY <1>1, <1>3, WeightIs
  <2> QED
    BY <1>8, <2>1
<1>11. ASSUME NEW j \in 1..w
       PROVE  d[j] = (d[j - 1] * HEX + inhex(F[j])) % ADDR
  <2> DEFINE v == w - j + 1
             a == Weight[v]
             m == n \div a
  <2>1. /\ v \in 1..8 /\ v \in 1..9 /\ v + 1 = w - (j - 1) + 1 /\ j \in 0..w /\ j - 1 \in 0..w
    BY <1>1
  <2>2. d[j] = m /\ d[j - 1] = n \div Weight[v + 1]
    BY <1>8, <2>1
  <2>3. a \in Nat \ {0} /\ Weight[v + 1] = a * HEX
    BY <2>1, WeightIs
  <2>4. inhex(F[j]) = m % HEX /\ m \in Nat /\ m <= n
    BY <1>4, <1>5, <2>1
  <2> HIDE DEF v, a
  <2>5. n \div (a * HEX) = m \div HEX
    <3>1. n \in Int
      BY <1>3
    <3>2. n \div (a * HEX) = (n \div a) \div HEX
      BY <1>3, <2>3, <3>1, DividedTwice, Zenon
    <3> QED
      BY <3>2
  <2> HIDE DEF m
  <2>6. PICK q \in Int, r \in 0..(HEX - 1) : m = q * HEX + r /\ m \div HEX = q /\ m % HEX = r
    BY <1>3, <2>4, Division
  <2>7. m % ADDR = m
    <3>1. m \in 0..(ADDR - 1)
      BY <1>3, <2>4
    <3> QED
      BY <1>3, <3>1, Small
  <2>8. d[j - 1] * HEX + inhex(F[j]) = m
    BY <2>2, <2>3, <2>4, <2>5, <2>6
  <2> QED
    BY <2>2, <2>7, <2>8
<1> QED
  BY <1>2, <1>4, <1>7, <1>9, <1>10, <1>11 DEF Made

\* A number stands in the line from i on, and no digit behind it.
StandsAt(n, i) == LET w == Len(Number(n))
                  IN  /\ \A j \in 1..w : line[i + j - 1] = Number(n)[j]
                      /\ i + w <= Room /\ inhex(line[i + w]) = None

\* It is read as it was typed.
LEMMA NumberRead ==
    ASSUME Room \in Nat, NEW n \in (0..(ADDR - 1)) \cup {None}, NEW i \in Nat \ {0}, StandsAt(n, i)
    PROVE  After(i) = i + Len(Number(n)) /\ (n # None => getdata(i) = n)
<1> DEFINE w == Len(Number(n))
<1>1. /\ w \in 0..8 /\ \A j \in 1..w : Number(n)[j] \in ToSet(Digit)
  BY NumberIs
<1>2. ADDR \in Nat \ {0} /\ HEX \in Nat \ {0}
  BY Address, Sizes
<1>3. ASSUME NEW c \in ToSet(Digit)
      PROVE  inhex(c) # None
  <2>1. PICK x \in DOMAIN Digit : c = Digit[x]
    BY DEF ToSet
  <2>2. DOMAIN Digit = 1..HEX
    BY Alphabet DEF HEX
  <2>3. x - 1 \in 0..(HEX - 1) /\ (x - 1) + 1 = x
    BY <1>2, <2>2
  <2> QED
    BY <2>1, <2>3, DigitRead
<1>4. /\ \A j \in 1..w : line[i + j - 1] = Number(n)[j]
      /\ i + w <= Room /\ inhex(line[i + w]) = None
  BY DEF StandsAt
<1> HIDE DEF w
<1>5. After(i) = i + w
  <2>1. \A j \in 1..w : inhex(line[i + j - 1]) # None
    BY <1>1, <1>3, <1>4
  <2>2. w \in Nat
    BY <1>1
  <2> QED
    BY <1>4, <2>1, <2>2, AfterIs
<1>6. ASSUME n # None
      PROVE  getdata(i) = n
  <2>1. n \in 0..(ADDR - 1)
    BY <1>6
  <2>2. PICK d : Made(n, d)
    BY <2>1, FiguresMake
  <2>3. /\ d \in [0..w -> Int] /\ d[0] = 0 /\ d[w] = n
        /\ \A j \in 1..w : d[j] = (d[j - 1] * HEX + inhex(Number(n)[j])) % ADDR
    BY <2>2 DEF Made, w
  <2>4. \A j \in 1..w : d[j] = (d[j - 1] * HEX + inhex(line[i + j - 1])) % ADDR
    BY <1>4, <2>3, Zenon
  <2>5. Summing(i, w, d)
    BY <2>3, <2>4, Zenon DEF Summing
  <2>6. After(i) - i = w /\ w \in Nat
    <3> HIDE <2>3, <2>4
    <3> QED
      BY <1>1, <1>5
  <2>7. getdata(i) = d[w]
    BY <2>5, <2>6, DataIs
  <2> QED
    BY <2>3, <2>7
<1> QED
  BY <1>5, <1>6 DEF w

\* Whatever getdata reads is an address.
LEMMA DataInRange ==
    ASSUME NEW i \in Nat \ {0}, NEW w \in Nat, After(i) = i + w
    PROVE  getdata(i) \in 0..(ADDR - 1)
<1>1. ADDR \in Nat \ {0} /\ HEX \in Nat \ {0}
  BY Address, Sizes
<1>2. \A c : inhex(c) \in Int
  <2> SUFFICES ASSUME NEW c
               PROVE  inhex(c) \in Int
    OBVIOUS
  <2>1. CASE c \in ToSet(Digit)
    <3>1. PICK x \in DOMAIN Digit : c = Digit[x]
      BY <2>1 DEF ToSet
    <3>2. DOMAIN Digit = 1..HEX
      BY Alphabet DEF HEX
    <3>3. x - 1 \in 0..(HEX - 1) /\ (x - 1) + 1 = x
      BY <1>1, <3>2
    <3> QED
      BY <3>1, <3>3, DigitRead
  <2>2. CASE c \notin ToSet(Digit)
    BY <2>2 DEF inhex, None
  <2> QED
    BY <2>1, <2>2
<1> HIDE DEF ADDR, HEX
<1> DEFINE g == [m \in Nat |-> [x \in Int |-> (x * HEX + inhex(line[i + m])) % ADDR]]
<1>3. g \in [Nat -> [Int -> Int]]
  <2>1. \A m \in Nat, x \in Int : (x * HEX + inhex(line[i + m])) % ADDR \in Int
    <3> SUFFICES ASSUME NEW m \in Nat, NEW x \in Int
                 PROVE  (x * HEX + inhex(line[i + m])) % ADDR \in Int
      OBVIOUS
    <3> DEFINE z == inhex(line[i + m])
    <3>1. z \in Int
      BY <1>2
    <3> HIDE DEF z
    <3>2. x * HEX + z \in Int
      BY <1>1, <3>1
    <3>3. (x * HEX + z) % ADDR \in Int
      BY <1>1, <3>2
    <3> QED
      BY <3>3 DEF z
  <2> QED
    BY <2>1
<1>4. \A m \in Nat, x \in Int : g[m][x] = (x * HEX + inhex(line[i + m])) % ADDR
  OBVIOUS
<1> HIDE DEF g
<1>5. 0 \in Int
  OBVIOUS
<1>6. PICK f : Chain(Int, 0, g, f)
  BY <1>3, <1>5, Recursion
<1>7. f \in [Nat -> Int] /\ f[0] = 0 /\ \A n \in Nat : f[n + 1] = g[n][f[n]]
  BY <1>6 DEF Chain
<1> DEFINE d == [j \in 0..w |-> f[j]]
<1>8. \A j \in 0..w : d[j] = f[j] /\ f[j] \in Int
  BY <1>7
<1>9. d \in [0..w -> Int]
  BY <1>8
<1> HIDE DEF d
<1>10. ASSUME NEW j \in 1..w
       PROVE  /\ d[j] = (d[j - 1] * HEX + inhex(line[i + j - 1])) % ADDR
              /\ d[j] \in 0..(ADDR - 1)
  <2>1. j - 1 \in Nat /\ j - 1 \in 0..w /\ j \in 0..w /\ (j - 1) + 1 = j /\ i + (j - 1) = i + j - 1
    OBVIOUS
  <2>2. f[(j - 1) + 1] = g[j - 1][f[j - 1]]
    BY <1>7, <2>1
  <2>3. f[j] = (f[j - 1] * HEX + inhex(line[i + j - 1])) % ADDR
    BY <1>4, <1>8, <2>1, <2>2
  <2> DEFINE z == inhex(line[i + j - 1])
             y == f[j - 1]
  <2>4. z \in Int /\ y \in Int
    BY <1>2, <1>8, <2>1
  <2> HIDE DEF z, y
  <2>5. (y * HEX + z) % ADDR \in 0..(ADDR - 1)
    <3>1. y * HEX + z \in Int
      BY <1>1, <2>4
    <3> QED
      BY <1>1, <3>1
  <2> QED
    BY <1>8, <2>1, <2>3, <2>5 DEF z, y
<1>11. Summing(i, w, d)
  <2>1. d[0] = 0
    BY <1>7, <1>8
  <2> QED
    BY <1>9, <1>10, <2>1, Zenon DEF Summing
<1>12. getdata(i) = d[w]
  BY <1>11, DataIs
<1>13. d[w] \in 0..(ADDR - 1)
  <2>1. CASE w = 0
    BY <1>1, <1>7, <1>8, <2>1
  <2>2. CASE w # 0
    <3>1. w \in 1..w
      BY <2>2
    <3> QED
      BY <1>10, <3>1
  <2> QED
    BY <2>1, <2>2
<1> QED
  BY <1>12, <1>13

\* An address in memory or above it is taken as it is.
LEMMA InRamIs ==
    ASSUME NEW a \in 0..(ADDR - 1)
    PROVE  InRam(a) \in TOP..(ADDR - 1) /\ (a >= TOP => InRam(a) = a) /\ (a < TOP => InRam(a) = a + RAM)
<1> HIDE DEF ADDR, TOP, RAM
<1> QED
  BY Address DEF InRam

-----------------------------------------------------------------------------
\* A line that is typed.

\* The keys that are not getline's.
Plain == Char \ Controls

LEMMA CharsAre ==
    /\ \A c \in ToSet(Digit) : /\ c \in Plain /\ ToUpper(c) = c /\ c \notin {",", "^", ".", NUL}
                               /\ inhex(c) # None
    /\ \A c \in Marks \cup Letters : c \in Plain /\ ToUpper(c) = c /\ c # NUL
    /\ \A c \in Marks \cup {NUL} : inhex(c) = None
    /\ "f" \in Plain /\ ToUpper("f") = "F"
<1>1. /\ \A c \in ToSet(Digit) : c \notin Controls /\ c \notin Marks /\ c # NUL /\ c \notin DOMAIN Upper
      /\ \A c \in Marks \cup Letters : c # NUL /\ c \notin DOMAIN Upper
      /\ \A c \in Marks \cup {NUL} : c \notin ToSet(Digit)
      /\ "f" \in DOMAIN Upper /\ Upper["f"] = "F"
  BY Alphabet, Zenon
<1>2. ToSet(Digit) \subseteq Char
  BY Alphabet DEF Char, ToSet
<1>3. \A c \in Marks \cup Letters \cup {"f"} : c \in Char /\ c \notin Controls
  BY DEF Char, Marks, Letters, Controls
<1>4. {",", "^", "."} \subseteq Marks
  BY DEF Marks
<1>5. ASSUME NEW c \in ToSet(Digit)
      PROVE  inhex(c) # None
  <2>1. PICK x \in DOMAIN Digit : c = Digit[x]
    BY DEF ToSet
  <2>2. DOMAIN Digit = 1..HEX /\ HEX \in Nat
    BY Alphabet, Sizes DEF HEX
  <2>3. x - 1 \in 0..(HEX - 1) /\ (x - 1) + 1 = x
    BY <2>2
  <2> QED
    BY <2>1, <2>3, DigitRead
<1>6. \A c : (c \notin DOMAIN Upper => ToUpper(c) = c) /\ (c \notin ToSet(Digit) => inhex(c) = None)
  BY DEF ToUpper, inhex
<1>7. ToUpper("f") = "F"
  BY <1>1 DEF ToUpper
<1>8. \A c \in ToSet(Digit) : /\ c \in Plain /\ ToUpper(c) = c /\ c \notin {",", "^", ".", NUL}
                              /\ inhex(c) # None
  BY <1>1, <1>2, <1>4, <1>5, <1>6 DEF Plain
<1>9. \A c \in Marks \cup Letters : c \in Plain /\ ToUpper(c) = c /\ c # NUL
  BY <1>1, <1>3, <1>6 DEF Plain
<1>10. \A c \in Marks \cup {NUL} : inhex(c) = None
  BY <1>1, <1>6
<1>11. "f" \in Plain
  BY <1>3 DEF Plain
<1> QED
  BY <1>7, <1>8, <1>9, <1>10, <1>11, Zenon

Joined(s, t, u) == /\ u \in Seq(Plain) /\ Len(u) = Len(s) + Len(t) /\ Len(s) \in Nat /\ Len(t) \in Nat
                   /\ \A j \in 1..Len(s) : u[j] = s[j]
                   /\ \A j \in 1..Len(t) : u[Len(s) + j] = t[j]

LEMMA Joins ==
    ASSUME NEW s \in Seq(Plain), NEW t \in Seq(Plain)
    PROVE  Joined(s, t, s \o t)
<1> HIDE DEF Plain
<1>1. /\ s \o t \in Seq(Plain) /\ Len(s \o t) = Len(s) + Len(t) /\ Len(s) \in Nat /\ Len(t) \in Nat
      /\ \A i \in 1..(Len(s) + Len(t)) : (s \o t)[i] = IF i <= Len(s) THEN s[i] ELSE t[i - Len(s)]
  BY ConcatProperties, LenProperties
<1>2. \A j \in 1..Len(s) : j \in 1..(Len(s) + Len(t)) /\ j <= Len(s)
  BY <1>1
<1>3. \A j \in 1..Len(t) : /\ Len(s) + j \in 1..(Len(s) + Len(t)) /\ ~(Len(s) + j <= Len(s))
                           /\ (Len(s) + j) - Len(s) = j
  BY <1>1
<1>4. \A j \in 1..Len(s) : (s \o t)[j] = s[j]
  BY <1>1, <1>2
<1>5. \A j \in 1..Len(t) : (s \o t)[Len(s) + j] = t[j]
  BY <1>1, <1>3
<1> QED
  BY <1>1, <1>4, <1>5 DEF Joined

LEMMA OneKey ==
    ASSUME NEW c \in Plain
    PROVE  <<c>> \in Seq(Plain) /\ Len(<<c>>) = 1 /\ <<c>>[1] = c
<1> HIDE DEF Plain
<1> QED
  OBVIOUS

LEMMA PlainNumber ==
    ASSUME NEW n \in (0..(ADDR - 1)) \cup {None}
    PROVE  Number(n) \in Seq(Plain)
<1>1. Number(n) \in Seq(ToSet(Digit))
  BY NumberIs
<1>2. ToSet(Digit) \subseteq Plain
  BY CharsAre
<1> HIDE DEF Plain
<1> QED
  BY <1>1, <1>2, SeqMonotonic, Zenon

\* k keys are taken; behind the first b of them u is being typed as a line.
Amid(b, u, k) == /\ pc = "getline" /\ k \in b..(b + Len(u)) /\ ct = k - b
                 /\ \A j \in 1..ct : line[j] = ToUpper(u[j])
Complete(u)   == /\ \A j \in 1..Len(u) : line[j] = ToUpper(u[j])
                 /\ Len(u) < LINE /\ line[Len(u) + 1] = NUL

\* It is the line there, with its end.
Here(b, u) == /\ b \in Nat /\ u \in Seq(Plain) /\ \A j \in 1..Len(u) : Text[b + j] = u[j]
              /\ Text[b + Len(u) + 1] = "CR"

LEMMA LineTyped ==
    ASSUME IInv, NEW b, NEW u, Here(b, u), NEW k, Left(k), Amid(b, u, k), Editing, UNCHANGED userVars
    PROVE  /\ Left(k + 1)' /\ UNCHANGED <<inner, keptVars, dumpVars, seenVars>>
           /\ \/ Amid(b, u, k + 1)'
              \/ k = b + Len(u) /\ Complete(u)' /\ pc' = IF inner THEN "reply" ELSE "dispatch"
              \/ pc' = "overrun"
<1>1. UNCHANGED <<script, cmd>> /\ Text' = Text
  BY DEF userVars, Text
<1>2. /\ b \in Nat /\ u \in Seq(Plain) /\ Len(u) \in Nat /\ \A j \in 1..Len(u) : Text[b + j] = u[j]
      /\ Text[b + Len(u) + 1] = "CR"
  <2> HIDE DEF Plain
  <2> QED
    BY LenProperties DEF Here
<1>3. /\ pc = "getline" /\ k \in b..(b + Len(u)) /\ ct = k - b
      /\ \A j \in 1..ct : line[j] = ToUpper(u[j])
  BY DEF Amid
<1>4. \A c : Key(c) => c = Text[k + 1] /\ Left(k + 1)'
  BY <1>1, KeyTaken
<1>5. /\ Array(line, Room) /\ LINE > 1 /\ LINE <= Room /\ LINE \in Nat /\ Room \in Nat /\ ct \in 0..LINE
  BY Rooms DEF IInv, Counts
<1>6. CASE k = b + Len(u)
  <2>1. \A c : Key(c) => c = "CR"
    <3>1. k + 1 = b + Len(u) + 1
      BY <1>2, <1>6
    <3> QED
      BY <1>2, <1>4, <3>1
  <2>2. Enter
    <3>1. "CR" \in Controls
      BY DEF Controls
    <3> QED
      BY <2>1, <3>1 DEF Editing, Backspace, Kill, Ignored, Typed
  <2>3. Left(k + 1)' /\ UNCHANGED <<inner, keptVars, dumpVars, seenVars>>
    BY <1>4, <2>2 DEF Enter, locals
  <2>4. ct = Len(u)
    BY <1>2, <1>3, <1>6
  <2>5. CASE ct = LINE
    BY <2>2, <2>3, <2>5 DEF Enter
  <2>6. CASE ct # LINE
    <3>1. line' = [line EXCEPT ![ct + 1] = NUL] /\ pc' = IF inner THEN "reply" ELSE "dispatch"
      BY <2>2, <2>6 DEF Enter
    <3>2. ct < LINE /\ ct + 1 \in 1..Room /\ \A j \in 1..ct : j \in 1..Room /\ j # ct + 1
      BY <1>5, <2>6
    <3>3. line'[ct + 1] = NUL /\ \A j \in 1..ct : line'[j] = line[j]
      BY <1>5, <3>1, <3>2 DEF Array
    <3>4. Complete(u)'
      BY <1>3, <2>4, <3>2, <3>3 DEF Complete
    <3> QED
      BY <1>6, <2>3, <3>1, <3>4
  <2> QED
    BY <2>5, <2>6
<1>7. CASE k # b + Len(u)
  <2>1. k + 1 \in b..(b + Len(u)) /\ k - b + 1 \in 1..Len(u) /\ b + (k - b + 1) = k + 1 /\ (k + 1) - b = ct + 1
        /\ k - b + 1 = ct + 1 /\ k \in Nat
    BY <1>2, <1>3, <1>7
  <2>2. u[ct + 1] \in Plain /\ Text[k + 1] = u[ct + 1]
    <3> HIDE DEF Plain
    <3>1. u[ct + 1] \in Plain
      BY <1>2, <2>1, ElementOfSeq
    <3> QED
      BY <1>2, <2>1, <3>1
  <2>3. \A c : Key(c) => c \notin Controls
    BY <1>4, <2>2 DEF Plain
  <2>4. Typed
    BY <2>3 DEF Editing, Backspace, Kill, Ignored, Enter, Controls
  <2>5. PICK c \in {rx[i] : i \in DOMAIN rx} \ Controls :
          /\ Key(c)
          /\ IF ct = LINE THEN pc' = "overrun" /\ UNCHANGED editVars
             ELSE line' = [line EXCEPT ![ct + 1] = ToUpper(c)] /\ ct' = ct + 1 /\ UNCHANGED <<pc, inner>>
    BY <2>4 DEF Typed
  <2>6. Left(k + 1)' /\ UNCHANGED <<inner, keptVars, dumpVars, seenVars>> /\ c = u[ct + 1]
    BY <1>4, <2>2, <2>4, <2>5 DEF Typed, locals, editVars
  <2>7. CASE ct = LINE
    BY <2>5, <2>6, <2>7
  <2>8. CASE ct # LINE
    <3>1. ct + 1 \in 1..Room /\ \A j \in 1..(ct + 1) : j \in 1..Room /\ (j # ct + 1 => j \in 1..ct)
      BY <1>5, <2>8
    <3>2. line'[ct + 1] = ToUpper(u[ct + 1]) /\ \A j \in 1..ct : line'[j] = line[j]
      <4>1. line' = [line EXCEPT ![ct + 1] = ToUpper(u[ct + 1])]
        BY <2>5, <2>6, <2>8
      <4>2. \A j \in 1..ct : j \in 1..Room /\ j # ct + 1
        BY <1>5, <2>8
      <4> QED
        BY <1>5, <3>1, <4>1, <4>2 DEF Array
    <3>3. \A j \in 1..(ct + 1) : line'[j] = ToUpper(u[j])
      BY <1>3, <3>1, <3>2
    <3>4. pc' = "getline" /\ ct' = (k + 1) - b /\ ct' = ct + 1
      BY <1>3, <2>1, <2>5, <2>8
    <3>5. Amid(b, u, k + 1)'
      BY <2>1, <3>3, <3>4 DEF Amid
    <3> QED
      BY <2>6, <3>5
  <2> QED
    BY <2>7, <2>8
<1> QED
  BY <1>6, <1>7

-----------------------------------------------------------------------------
\* A fill.

FillLine(c) == <<"f">> \o Number(c.from) \o <<",">> \o Number(c.to) \o <<",">> \o Number(c.byte)

\* Where the numbers of a fill are in its line.
FillPlaces(c) ==
    LET a == Len(Number(c.from))
        b == Len(Number(c.to))
        d == Len(Number(c.byte))
        u == FillLine(c)
    IN  /\ a \in Nat /\ b \in Nat /\ d \in Nat /\ u \in Seq(Plain) /\ Len(u) = a + b + d + 3
        /\ u[1] = "f" /\ u[a + 2] = "," /\ u[a + b + 3] = ","
        /\ \A j \in 1..a : u[1 + j] = Number(c.from)[j]
        /\ \A j \in 1..b : u[a + 2 + j] = Number(c.to)[j]
        /\ \A j \in 1..d : u[a + b + 3 + j] = Number(c.byte)[j]

LEMMA FillLineIs ==
    ASSUME NEW c \in Commands \cup Followers, c.kind = "F"
    PROVE  /\ c.from \in 0..(ADDR - 1) /\ c.to \in 0..(ADDR - 1) /\ c.byte \in 0..(ADDR - 1)
           /\ TextOf[c] = Line(FillLine(c)) /\ FillPlaces(c)
<1> DEFINE A == Number(c.from)
           B == Number(c.to)
           D == Number(c.byte)
           f == <<"f">>
           z == <<",">>
           u2 == f \o A
           u3 == u2 \o z
           u4 == u3 \o B
           u5 == u4 \o z
           u == u5 \o D
<1>1. c.from \in 0..(ADDR - 1) /\ c.to \in 0..(ADDR - 1) /\ c.byte \in 0..(ADDR - 1)
  BY AsTyped, Zenon
<1>2. TextOf[c] = Line(FillLine(c))
  BY Zenon DEF TextOf, FillLine
<1>3. A \in Seq(Plain) /\ B \in Seq(Plain) /\ D \in Seq(Plain)
  BY <1>1, PlainNumber
<1>4. f \in Seq(Plain) /\ Len(f) = 1 /\ f[1] = "f"
  BY CharsAre, OneKey
<1>5. z \in Seq(Plain) /\ Len(z) = 1 /\ z[1] = ","
  <2>1. "," \in Plain
    BY CharsAre DEF Marks
  <2> QED
    BY <2>1, OneKey
<1>6. FillLine(c) = u
  BY DEF FillLine
<1> HIDE DEF A, B, D, f, z
<1>7. Joined(f, A, u2)
  BY <1>3, <1>4, Joins
<1>8. u2 \in Seq(Plain)
  BY <1>7 DEF Joined
<1> HIDE DEF u2
<1>9. Joined(u2, z, u3)
  BY <1>5, <1>8, Joins
<1>10. u3 \in Seq(Plain)
  BY <1>9 DEF Joined
<1> HIDE DEF u3
<1>11. Joined(u3, B, u4)
  BY <1>3, <1>10, Joins
<1>12. u4 \in Seq(Plain)
  BY <1>11 DEF Joined
<1> HIDE DEF u4
<1>13. Joined(u4, z, u5)
  BY <1>5, <1>12, Joins
<1>14. u5 \in Seq(Plain)
  BY <1>13 DEF Joined
<1> HIDE DEF u5
<1>15. Joined(u5, D, u)
  BY <1>3, <1>14, Joins
<1> HIDE DEF u, Plain
<1> DEFINE a == Len(A)
           b == Len(B)
           d == Len(D)
<1>16. a \in Nat /\ b \in Nat /\ d \in Nat
  BY <1>7, <1>11, <1>15 DEF Joined
<1>29. /\ Len(u2) = Len(f) + Len(A) /\ Len(u3) = Len(u2) + Len(z) /\ Len(u4) = Len(u3) + Len(B)
       /\ Len(u5) = Len(u4) + Len(z) /\ Len(u) = Len(u5) + Len(D) /\ u \in Seq(Plain)
  BY <1>7, <1>9, <1>11, <1>13, <1>15, Zenon DEF Joined
<1>30. Len(f) = 1 /\ Len(z) = 1 /\ 1 \in 1..Len(f) /\ 1 \in 1..Len(z)
  <2>1. Len(f) = 1 /\ Len(z) = 1
    BY <1>4, <1>5, Zenon
  <2>2. 1 \in 1..1
    OBVIOUS
  <2> QED
    BY <2>1, <2>2, Zenon
<1>17. /\ Len(u2) = 1 + a /\ Len(u3) = a + 2 /\ Len(u4) = a + b + 2 /\ Len(u5) = a + b + 3
       /\ Len(u) = a + b + d + 3 /\ u \in Seq(Plain)
  BY <1>16, <1>29, <1>30
<1> HIDE DEF a, b, d
<1>18. \A j \in 1..(a + b + 3) : u[j] = u5[j]
  BY <1>15, <1>17 DEF Joined
<1>19. \A j \in 1..(a + b + 2) : u[j] = u4[j]
  <2>1. \A j \in 1..(a + b + 2) : u5[j] = u4[j] /\ j \in 1..(a + b + 3)
    BY <1>13, <1>16, <1>17 DEF Joined
  <2> QED
    BY <1>18, <2>1
<1>20. \A j \in 1..(a + 2) : u[j] = u3[j]
  <2>2. \A j \in 1..(a + 2) : u4[j] = u3[j]
    BY <1>11, <1>17, Zenon DEF Joined
  <2>3. \A j \in 1..(a + 2) : j \in 1..(a + b + 2)
    BY <1>16
  <2>1. \A j \in 1..(a + 2) : u4[j] = u3[j] /\ j \in 1..(a + b + 2)
    BY <2>2, <2>3, Zenon
  <2> QED
    BY <1>19, <2>1
<1>21. \A j \in 1..(1 + a) : u[j] = u2[j]
  <2>1. \A j \in 1..(1 + a) : u3[j] = u2[j] /\ j \in 1..(a + 2)
    BY <1>9, <1>16, <1>17 DEF Joined
  <2> QED
    BY <1>20, <2>1
<1>22. u[1] = "f"
  <2>1. 1 \in 1..Len(f) /\ 1 \in 1..(1 + a)
    BY <1>4, <1>16
  <2> QED
    BY <1>4, <1>7, <1>21, <2>1 DEF Joined
<1>23. \A j \in 1..a : u[1 + j] = A[j]
  <2>1. \A j \in 1..a : 1 + j \in 1..(1 + a) /\ u2[1 + j] = A[j]
    BY <1>4, <1>7, <1>16 DEF Joined, a
  <2> QED
    BY <1>21, <2>1
<1>24. u[a + 2] = ","
  <2>1. 1 \in 1..Len(z) /\ a + 2 \in 1..(a + 2) /\ Len(u2) + 1 = a + 2
    BY <1>16, <1>17, <1>30
  <2>2. u3[Len(u2) + 1] = z[1]
    BY <1>9, <2>1 DEF Joined
  <2> QED
    BY <1>5, <1>20, <2>1, <2>2
<1>25. \A j \in 1..b : u[a + 2 + j] = B[j]
  <2>1. \A j \in 1..b : a + 2 + j \in 1..(a + b + 2) /\ u4[a + 2 + j] = B[j]
    BY <1>11, <1>16, <1>17 DEF Joined, b
  <2> QED
    BY <1>19, <2>1
<1>26. u[a + b + 3] = ","
  <2>1. 1 \in 1..Len(z) /\ a + b + 3 \in 1..(a + b + 3) /\ Len(u4) + 1 = a + b + 3
    BY <1>16, <1>17, <1>30
  <2>2. u5[Len(u4) + 1] = z[1]
    BY <1>13, <2>1 DEF Joined
  <2> QED
    BY <1>5, <1>18, <2>1, <2>2
<1>27. \A j \in 1..d : u[a + b + 3 + j] = D[j]
  BY <1>15, <1>17 DEF Joined, d
<1>28. FillPlaces(c)
  BY <1>6, <1>16, <1>17, <1>22, <1>23, <1>24, <1>25, <1>26, <1>27, Zenon DEF FillPlaces, a, b, d, A, B, D
<1> QED
  BY <1>1, <1>2, <1>28

\* What xfill reads in it.
FillParts(c) ==
    LET i == After(2)
        j == After(i + 1)
    IN  /\ line[1] = "F" /\ line[i] = "," /\ line[j] = "," /\ line[After(j + 1)] = NUL
        /\ getdata(2) = c.from /\ getdata(i + 1) = c.to /\ getdata(j + 1) = c.byte

LEMMA FillRead ==
    ASSUME NEW c \in Commands \cup Followers, c.kind = "F", Complete(FillLine(c))
    PROVE  FillParts(c)
<1> DEFINE A == Number(c.from)
           B == Number(c.to)
           D == Number(c.byte)
           a == Len(A)
           b == Len(B)
           d == Len(D)
           u == FillLine(c)
<1>1. c.from \in 0..(ADDR - 1) /\ c.to \in 0..(ADDR - 1) /\ c.byte \in 0..(ADDR - 1)
  BY FillLineIs
<1>2. c.from # None /\ c.to # None /\ c.byte # None
  BY <1>1, Address DEF None
<1>3. /\ a \in Nat /\ b \in Nat /\ d \in Nat /\ Len(u) = a + b + d + 3
      /\ u[1] = "f" /\ u[a + 2] = "," /\ u[a + b + 3] = ","
      /\ \A j \in 1..a : u[1 + j] = A[j]
      /\ \A j \in 1..b : u[a + 2 + j] = B[j]
      /\ \A j \in 1..d : u[a + b + 3 + j] = D[j]
  <2>1. FillPlaces(c)
    BY FillLineIs
  <2> QED
    BY <2>1, Zenon DEF FillPlaces
<1>20. a \in Nat /\ b \in Nat /\ d \in Nat /\ Len(u) = a + b + d + 3 /\ Len(u) < LINE
  BY <1>3 DEF Complete
<1>4. /\ \A j \in 1..a : ToUpper(A[j]) = A[j]
      /\ \A j \in 1..b : ToUpper(B[j]) = B[j]
      /\ \A j \in 1..d : ToUpper(D[j]) = D[j]
  BY <1>1, NumberIs, CharsAre
<1>5. ToUpper(",") = "," /\ inhex(",") = None /\ inhex(NUL) = None /\ ToUpper("f") = "F"
  <2>1. "," \in Marks
    BY DEF Marks
  <2> QED
    BY <2>1, CharsAre
<1>6. /\ \A j \in 1..Len(u) : line[j] = ToUpper(u[j])
      /\ Len(u) < LINE /\ line[Len(u) + 1] = NUL
  BY DEF Complete
<1>7. LINE \in Nat /\ Room \in Nat /\ LINE <= Room
  BY Rooms
<1> HIDE DEF u, a, b, d, A, B, D
<1>8. line[1] = "F" /\ line[a + 2] = "," /\ line[a + b + 3] = ","
  <2>1. 1 \in 1..Len(u) /\ a + 2 \in 1..Len(u) /\ a + b + 3 \in 1..Len(u)
    BY <1>20
  <2> QED
    BY <1>3, <1>5, <1>6, <2>1
<1>9. StandsAt(c.from, 2)
  <2>1. ASSUME NEW j \in 1..a
        PROVE  line[2 + j - 1] = A[j]
    <3>1. 1 + j \in 1..Len(u) /\ 2 + j - 1 = 1 + j
      BY <1>20
    <3> QED
      BY <1>3, <1>4, <1>6, <3>1
  <2>2. 2 + a <= Room /\ 2 + a = a + 2
    BY <1>20, <1>7
  <2> QED
    BY <1>5, <1>8, <2>1, <2>2, Zenon DEF StandsAt, a, A
<1>10. StandsAt(c.to, a + 3)
  <2>1. ASSUME NEW j \in 1..b
        PROVE  line[a + 3 + j - 1] = B[j]
    <3>1. a + 2 + j \in 1..Len(u) /\ a + 3 + j - 1 = a + 2 + j
      BY <1>20
    <3> QED
      BY <1>3, <1>4, <1>6, <3>1
  <2>2. a + 3 + b <= Room /\ a + 3 + b = a + b + 3
    BY <1>20, <1>7
  <2> QED
    BY <1>5, <1>8, <2>1, <2>2, Zenon DEF StandsAt, b, B
<1>11. StandsAt(c.byte, a + b + 4)
  <2>1. ASSUME NEW j \in 1..d
        PROVE  line[a + b + 4 + j - 1] = D[j]
    <3>1. a + b + 3 + j \in 1..Len(u) /\ a + b + 4 + j - 1 = a + b + 3 + j
      BY <1>20
    <3> QED
      BY <1>3, <1>4, <1>6, <3>1
  <2>2. a + b + 4 + d <= Room /\ a + b + 4 + d = Len(u) + 1
    BY <1>20, <1>7
  <2> QED
    BY <1>5, <1>6, <2>1, <2>2, Zenon DEF StandsAt, d, D
<1>12. 2 \in Nat \ {0} /\ a + 3 \in Nat \ {0} /\ a + b + 4 \in Nat \ {0}
  BY <1>20
<1>13. After(2) = 2 + a /\ getdata(2) = c.from
  BY <1>1, <1>2, <1>7, <1>9, <1>12, NumberRead DEF a, A
<1>14. After(a + 3) = a + 3 + b /\ getdata(a + 3) = c.to
  BY <1>1, <1>2, <1>7, <1>10, <1>12, NumberRead DEF b, B
<1>15. After(a + b + 4) = a + b + 4 + d /\ getdata(a + b + 4) = c.byte
  BY <1>1, <1>2, <1>7, <1>11, <1>12, NumberRead DEF d, D
<1>16. 2 + a = a + 2 /\ (a + 2) + 1 = a + 3 /\ a + 3 + b = a + b + 3 /\ (a + b + 3) + 1 = a + b + 4
       /\ a + b + 4 + d = Len(u) + 1
  BY <1>20
<1>17. After(2) = a + 2 /\ After(After(2) + 1) = a + b + 3 /\ After(After(After(2) + 1) + 1) = Len(u) + 1
  BY <1>13, <1>14, <1>15, <1>16
<1> QED
  BY <1>6, <1>8, <1>13, <1>14, <1>15, <1>16, <1>17 DEF FillParts

\* What a fill is to store, and what xfill stores.
Run(c, a, b) == [i \in 1..(IF a <= b THEN b - a + 1 ELSE 0) |-> <<a + i - 1, c.byte % BYTE>>]
FillOf(c)    == IF c.from = (c.to + 1) % ADDR THEN <<>>
                ELSE IF c.from <= c.to THEN Run(c, c.from, c.to)
                ELSE Run(c, c.from, ADDR - 1) \o Run(c, 0, c.to)

LEMMA FillStores ==
    ASSUME NEW c, c.from \in 0..(ADDR - 1), c.to \in 0..(ADDR - 1)
    PROVE  [k \in 1..FillCount(c.from, c.to) |-> <<(c.from + k - 1) % ADDR, c.byte % BYTE>>] = FillOf(c)
<1> DEFINE a == c.from
           b == c.to
           x == c.byte % BYTE
           n == FillCount(a, b)
<1>1. ADDR \in Nat \ {0} /\ a \in 0..(ADDR - 1) /\ b \in 0..(ADDR - 1)
  BY Address
<1>2. n = (b - a + 1) % ADDR
  BY DEF FillCount
<1>3. /\ Run(c, a, b) = [i \in 1..(IF a <= b THEN b - a + 1 ELSE 0) |-> <<a + i - 1, x>>]
      /\ Run(c, a, ADDR - 1) = [i \in 1..(IF a <= ADDR - 1 THEN ADDR - 1 - a + 1 ELSE 0) |-> <<a + i - 1, x>>]
      /\ Run(c, 0, b) = [i \in 1..(IF 0 <= b THEN b - 0 + 1 ELSE 0) |-> <<0 + i - 1, x>>]
  BY DEF Run
<1>4. FillOf(c) = IF a = (b + 1) % ADDR THEN <<>> ELSE IF a <= b THEN Run(c, a, b)
                  ELSE Run(c, a, ADDR - 1) \o Run(c, 0, b)
  BY DEF FillOf
<1> HIDE DEF a, b, x, n, ADDR
<1>5. CASE a = (b + 1) % ADDR
  <2>1. n = 0
    <3>1. CASE b = ADDR - 1
      <4>1. (b + 1) % ADDR = 0
        <5>1. ADDR = 1 * ADDR + 0 /\ 0 \in 0..(ADDR - 1) /\ b + 1 = ADDR
          BY <1>1, <3>1
        <5>2. (1 * ADDR + 0) % ADDR = 0
          BY <1>1, <5>1, Remainder
        <5> QED
          BY <5>1, <5>2
      <4>2. b - a + 1 = b + 1
        BY <1>1, <1>5, <4>1
      <4> QED
        BY <1>2, <4>1, <4>2
    <3>2. CASE b # ADDR - 1
      <4>1. b + 1 \in 0..(ADDR - 1)
        BY <1>1, <3>2
      <4>2. (b + 1) % ADDR = b + 1
        BY <1>1, <4>1, Small
      <4>3. b - a + 1 = 0 /\ 0 \in 0..(ADDR - 1)
        BY <1>1, <1>5, <4>2
      <4>4. 0 % ADDR = 0
        BY <1>1, <4>3, Small
      <4> QED
        BY <1>2, <4>3, <4>4
    <3> QED
      BY <3>1, <3>2
  <2>2. [k \in 1..n |-> <<(a + k - 1) % ADDR, x>>] = <<>>
    BY <2>1
  <2> QED
    BY <1>4, <1>5, <2>2 DEF a, b, x, n
<1>6. CASE a # (b + 1) % ADDR /\ a <= b
  <2>1. b - a + 1 \in 0..(ADDR - 1)
    <3>1. ~(b = ADDR - 1 /\ a = 0)
      <4> SUFFICES ASSUME b = ADDR - 1, a = 0
                   PROVE  FALSE
        OBVIOUS
      <4>1. ADDR = 1 * ADDR + 0 /\ 0 \in 0..(ADDR - 1) /\ b + 1 = ADDR
        BY <1>1
      <4>2. (1 * ADDR + 0) % ADDR = 0
        BY <1>1, <4>1, Remainder
      <4> QED
        BY <1>6, <4>1, <4>2
    <3> QED
      BY <1>1, <1>6, <3>1
  <2>2. n = b - a + 1
    BY <1>1, <1>2, <2>1, Small
  <2>3. \A k \in 1..n : (a + k - 1) % ADDR = a + k - 1
    <3> SUFFICES ASSUME NEW k \in 1..n
                 PROVE  (a + k - 1) % ADDR = a + k - 1
      OBVIOUS
    <3>1. a + k - 1 \in 0..(ADDR - 1)
      BY <1>1, <2>1, <2>2
    <3> QED
      BY <1>1, <3>1, Small
  <2>4. [k \in 1..n |-> <<(a + k - 1) % ADDR, x>>] = [k \in 1..n |-> <<a + k - 1, x>>]
    BY <2>3
  <2>5. FillOf(c) = [k \in 1..n |-> <<a + k - 1, x>>]
    BY <1>3, <1>4, <1>6, <2>2
  <2> QED
    BY <2>4, <2>5 DEF a, b, x, n
<1>7. CASE a # (b + 1) % ADDR /\ ~(a <= b)
  <2> DEFINE m == ADDR - a
             R1 == Run(c, a, ADDR - 1)
             R2 == Run(c, 0, b)
  <2>1. b - a + 1 + ADDR \in 0..(ADDR - 1)
    <3>1. b + 1 \in 0..(ADDR - 1)
      BY <1>1, <1>7
    <3>2. (b + 1) % ADDR = b + 1
      BY <1>1, <3>1, Small
    <3> QED
      BY <1>1, <1>7, <3>2
  <2>2. n = b - a + 1 + ADDR
    <3> DEFINE y == b - a + 1 + ADDR
    <3>1. b - a + 1 = (-1) * ADDR + y /\ -1 \in Int /\ y \in Int
      BY <1>1
    <3>2. y \in 0..(ADDR - 1)
      BY <2>1
    <3> HIDE DEF y
    <3>3. ((-1) * ADDR + y) % ADDR = y
      BY <1>1, <3>1, <3>2, Remainder
    <3> QED
      BY <1>2, <3>1, <3>3 DEF y
  <2>3. m \in Nat /\ n = m + (b + 1) /\ n \in Nat
    BY <1>1, <2>2
  <2> DEFINE S == Int \X {x}
  <2>4. R1 = [i \in 1..m |-> <<a + i - 1, x>>] /\ R2 = [i \in 1..(b + 1) |-> <<i - 1, x>>]
    <3>1. (IF a <= ADDR - 1 THEN ADDR - 1 - a + 1 ELSE 0) = m /\ (IF 0 <= b THEN b - 0 + 1 ELSE 0) = b + 1
      BY <1>1
    <3>2. \A i \in 1..(b + 1) : 0 + i - 1 = i - 1
      BY <1>1
    <3> QED
      BY <1>3, <3>1, <3>2
  <2> HIDE DEF R1, R2, m
  <2>5. R1 \in Seq(S) /\ Len(R1) = m /\ \A i \in 1..m : R1[i] = <<a + i - 1, x>>
    BY <1>1, <2>3, <2>4
  <2>6. R2 \in Seq(S) /\ Len(R2) = b + 1 /\ \A i \in 1..(b + 1) : R2[i] = <<i - 1, x>>
    BY <1>1, <2>4
  <2> HIDE DEF S
  <2>7. /\ R1 \o R2 \in Seq(S) /\ Len(R1 \o R2) = n
        /\ \A i \in 1..n : (R1 \o R2)[i] = IF i <= m THEN R1[i] ELSE R2[i - m]
    <3>1. /\ R1 \o R2 \in Seq(S) /\ Len(R1 \o R2) = Len(R1) + Len(R2)
          /\ \A i \in 1..(Len(R1) + Len(R2)) : (R1 \o R2)[i] = IF i <= Len(R1) THEN R1[i] ELSE R2[i - Len(R1)]
      BY <2>5, <2>6, ConcatProperties
    <3>2. Len(R1) = m /\ Len(R2) = b + 1
      BY <2>5, <2>6, Zenon
    <3> QED
      BY <2>3, <3>1, <3>2, Zenon
  <2>8. ASSUME NEW i \in 1..n
        PROVE  (R1 \o R2)[i] = <<(a + i - 1) % ADDR, x>>
    <3>1. CASE i <= m
      <4>1. i \in 1..m /\ a + i - 1 \in 0..(ADDR - 1)
        BY <1>1, <2>3, <3>1 DEF m
      <4>2. (a + i - 1) % ADDR = a + i - 1
        BY <1>1, <4>1, Small
      <4> QED
        BY <2>5, <2>7, <3>1, <4>1, <4>2
    <3>2. CASE ~(i <= m)
      <4>1. i - m \in 1..(b + 1) /\ i - m - 1 \in 0..(ADDR - 1)
        BY <1>1, <2>3, <3>2
      <4>2. a + i - 1 = 1 * ADDR + (i - m - 1)
        BY <1>1, <2>3 DEF m
      <4>3. (1 * ADDR + (i - m - 1)) % ADDR = i - m - 1
        <5> DEFINE y == i - m - 1
        <5>1. y \in 0..(ADDR - 1) /\ y \in Int
          BY <1>1, <4>1
        <5> HIDE DEF y
        <5>2. \A q \in Int : (q * ADDR + y) % ADDR = y
          BY <1>1, <5>1, Remainder
        <5> QED
          BY <5>2 DEF y
      <4> QED
        BY <2>6, <2>7, <3>2, <4>1, <4>2, <4>3
    <3> QED
      BY <3>1, <3>2
  <2>9. R1 \o R2 = [i \in 1..n |-> (R1 \o R2)[i]]
    <3> DEFINE R == R1 \o R2
    <3>1. R \in Seq(S) /\ Len(R) = n
      BY <2>7
    <3> HIDE DEF R
    <3>2. R = [i \in 1..n |-> R[i]]
      BY <3>1
    <3> QED
      BY <3>2 DEF R
  <2>10. R1 \o R2 = [i \in 1..n |-> <<(a + i - 1) % ADDR, x>>]
    BY <2>8, <2>9
  <2>11. FillOf(c) = R1 \o R2
    BY <1>4, <1>7 DEF R1, R2
  <2> QED
    BY <2>10, <2>11 DEF a, b, x, n
<1> QED
  BY <1>5, <1>6, <1>7

\* The command is answered.
Over(k) == pc = "getline" /\ ~inner /\ ct = 0 /\ k = Len(Text)

LEMMA NoMoreKeys ==
    ASSUME NEW k, Left(k), k = Len(Text)
    PROVE  rx = <<>> /\ ~Editing /\ \A c : ~Key(c)
<1>1. k \in Nat /\ rx \in Seq(Char) /\ script \in Seq(Char) /\ k + Len(rx) + Len(script) = Len(Text)
  BY DEF Left
<1>2. Len(rx) \in Nat /\ Len(script) \in Nat
  BY <1>1
<1>3. Len(rx) = 0
  BY <1>1, <1>2
<1>4. rx = <<>>
  BY <1>1, <1>3, EmptySeq
<1>5. \A c : ~Key(c)
  BY <1>4 DEF Key
<1> QED
  BY <1>4, <1>5 DEF Editing, Backspace, Kill, Ignored, Typed, Enter

LEMMA LeftAlone ==
    ASSUME NEW k, Left(k), UNCHANGED <<rx, script, cmd>>
    PROVE  Left(k)'
BY DEF Left, Text

\* A command is given, at a prompt.
LEMMA Gives ==
    ASSUME Begin, clean', TextOf[cmd'] \in Seq(Char)
    PROVE  /\ Left(0)' /\ pc' = "getline" /\ ~inner' /\ ct' = 0 /\ stored' = <<>> /\ shown' = {}
           /\ datap' = datap /\ begin' = datap
<1>1. /\ script' = TextOf[cmd'] /\ stored' = <<>> /\ shown' = {} /\ begin' = datap /\ datap' = datap
      /\ pc = "getline" /\ ~inner /\ ct = 0 /\ rx = <<>> /\ UNCHANGED <<rx, pc, inner, ct>>
  BY DEF Begin, editVars, keptVars
<1> DEFINE t == TextOf[cmd']
<1>2. t \in Seq(Char) /\ Len(t) \in Nat /\ script' = t /\ Text' = t /\ rx' = <<>>
  BY <1>1 DEF Text
<1> HIDE DEF t
<1>3. rx' \in Seq(Char) /\ Len(rx') = 0
  BY <1>2
<1>4. 0 + Len(rx') + Len(script') = Len(Text')
  BY <1>2, <1>3
<1>5. \A j \in 1..Len(script') : script'[j] = Text'[0 + Len(rx') + j]
  BY <1>2, <1>3
<1>6. \A j \in 1..Len(rx') : rx'[j] = Text'[0 + j]
  BY <1>3
<1>7. Left(0)'
  BY <1>2, <1>3, <1>4, <1>5, <1>6 DEF Left
<1> QED
  BY <1>1, <1>7

LEMMA PlainKeys ==
    ASSUME NEW u \in Seq(Plain)
    PROVE  u \in Seq(Char)
<1>1. Plain \subseteq Char
  BY DEF Plain
<1> QED
  BY <1>1, SeqMonotonic, Zenon

\* A line and its end, as keys.
LEMMA LineKeys ==
    ASSUME NEW u \in Seq(Plain)
    PROVE  /\ Line(u) \in Seq(Char) /\ Len(Line(u)) = Len(u) + 1 /\ Len(u) \in Nat
           /\ Line(u)[Len(u) + 1] = "CR" /\ \A j \in 1..Len(u) : Line(u)[j] = u[j]
<1>1. u \in Seq(Char)
  BY PlainKeys
<1>2. "CR" \in Char
  BY DEF Char, Controls
<1> HIDE DEF Char
<1> QED
  BY <1>1, <1>2, LineIs

-----------------------------------------------------------------------------
\* A fill, all the way.

Filling(c, k) ==
    \/ ~inner /\ stored = <<>> /\ Amid(0, FillLine(c), k)
    \/ ~inner /\ stored = <<>> /\ pc = "dispatch" /\ Complete(FillLine(c)) /\ k = Len(Text)
    \/ Over(k) /\ stored = FillOf(c)

LEMMA FillText ==
    ASSUME NEW c \in Commands \cup Followers, c.kind = "F"
    PROVE  /\ TextOf[c] \in Seq(Char) /\ Len(TextOf[c]) = Len(FillLine(c)) + 1 /\ Len(FillLine(c)) \in Nat
           /\ cmd = c => Here(0, FillLine(c))
<1> DEFINE u == FillLine(c)
<1>1. u \in Seq(Plain) /\ TextOf[c] = Line(u)
  BY FillLineIs DEF FillPlaces
<1> HIDE DEF u
<1>2. /\ Line(u) \in Seq(Char) /\ Len(Line(u)) = Len(u) + 1 /\ Len(u) \in Nat
      /\ Line(u)[Len(u) + 1] = "CR" /\ \A j \in 1..Len(u) : Line(u)[j] = u[j]
  BY <1>1, LineKeys
<1>3. ASSUME cmd = c
      PROVE  Here(0, u)
  <2>1. Text = Line(u)
    BY <1>1, <1>3 DEF Text
  <2>2. 0 + Len(u) + 1 = Len(u) + 1 /\ \A j \in 1..Len(u) : 0 + j = j
    BY <1>2
  <2> QED
    BY <1>1, <1>2, <2>1, <2>2 DEF Here
<1> QED
  BY <1>1, <1>2, <1>3 DEF u

LEMMA FillGoesOn ==
    ASSUME IInv, NEW c \in Commands \cup Followers, c = cmd, c.kind = "F", NEW k, Left(k), Filling(c, k),
           Next, ~Begin, ~Press
    PROVE  pc' = "overrun" \/ \E j \in Nat : Left(j)' /\ Filling(c, j)'
<1> DEFINE u == FillLine(c)
<1>1. UNCHANGED userVars /\ UNCHANGED <<script, cmd>> /\ Text' = Text
  BY UserWaits DEF userVars, Text
<1>2. /\ Here(0, u) /\ Len(Text) = Len(u) + 1 /\ Len(u) \in Nat
  BY FillText DEF Text
<1>3. k \in Nat
  BY DEF Left
<1>4. CASE ~inner /\ stored = <<>> /\ Amid(0, u, k)
  <2>1. Editing
    BY <1>4, Steps DEF Amid
  <2> HIDE DEF u
  <2>2. /\ Left(k + 1)' /\ UNCHANGED <<inner, stored>>
        /\ \/ Amid(0, u, k + 1)'
           \/ k = 0 + Len(u) /\ Complete(u)' /\ pc' = IF inner THEN "reply" ELSE "dispatch"
           \/ pc' = "overrun"
    BY <1>1, <1>2, <1>4, <2>1, LineTyped DEF seenVars
  <2>3. k + 1 \in Nat /\ (k = 0 + Len(u) => k + 1 = Len(Text'))
    BY <1>1, <1>2, <1>3
  <2>4. CASE Amid(0, u, k + 1)'
    BY <1>4, <2>2, <2>3, <2>4 DEF Filling, u
  <2>5. CASE k = 0 + Len(u) /\ Complete(u)' /\ pc' = IF inner THEN "reply" ELSE "dispatch"
    BY <1>4, <2>2, <2>3, <2>5 DEF Filling, u
  <2> QED
    BY <2>2, <2>4, <2>5
<1>5. CASE ~inner /\ stored = <<>> /\ pc = "dispatch" /\ Complete(u) /\ k = Len(Text)
  <2>1. FillParts(c)
    BY <1>5, FillRead
  <2>2. line[1] = "F"
    BY <2>1 DEF FillParts
  <2>3. xfill
    <3>1. Nothing \/ xdump \/ xsubst \/ xfill \/ xgo \/ xtptest \/ xread \/ xsdread
      BY <1>5, Steps
    <3> QED
      BY <2>2, <3>1 DEF Nothing, xdump, xsubst, xgo, xtptest, xread, xsdread, Is, Letters
  <2> DEFINE i == After(2)
             j == After(i + 1)
             n == FillCount(c.from, c.to)
  <2>4. /\ line[i] = "," /\ line[j] = "," /\ line[After(j + 1)] = NUL
        /\ getdata(2) = c.from /\ getdata(i + 1) = c.to /\ getdata(j + 1) = c.byte
    BY <2>1 DEF FillParts
  <2>5. /\ stored' = IF line[i] # "," \/ line[j] # "," \/ line[After(j + 1)] # NUL THEN stored
                     ELSE stored \o [h \in 1..FillCount(getdata(2), getdata(i + 1)) |->
                                     <<(getdata(2) + h - 1) % ADDR, getdata(j + 1) % BYTE>>]
        /\ Prompt /\ rx' = rx
    BY <2>3, Zenon DEF xfill
  <2>6. stored' = stored \o [h \in 1..n |-> <<(c.from + h - 1) % ADDR, c.byte % BYTE>>]
    BY <2>4, <2>5, Zenon
  <2>7. stored' = stored \o FillOf(c)
    <3>1. [h \in 1..n |-> <<(c.from + h - 1) % ADDR, c.byte % BYTE>>] = FillOf(c)
      BY FillLineIs, FillStores
    <3> QED
      BY <2>6, <3>1
  <2>8. stored' = FillOf(c)
    <3>1. \E S : FillOf(c) \in Seq(S)
      <4>1. FillCount(c.from, c.to) \in Nat
        <5>1. c.from \in Int /\ c.to \in Int /\ ADDR \in Nat \ {0}
          BY FillLineIs, Address
        <5> HIDE DEF ADDR
        <5> QED
          BY <5>1 DEF FillCount
      <4> DEFINE F == [h \in 1..n |-> <<(c.from + h - 1) % ADDR, c.byte % BYTE>>]
                 S == {F[h] : h \in 1..n}
      <4>2. FillOf(c) = F
        BY FillLineIs, FillStores
      <4> HIDE DEF n
      <4>3. F \in [1..n -> S]
        OBVIOUS
      <4>4. F \in Seq(S)
        <5> HIDE DEF F, S
        <5> QED
          BY <4>1, <4>3 DEF n
      <4> QED
        BY <4>2, <4>4
    <3>2. <<>> \o FillOf(c) = FillOf(c)
      BY <3>1, ConcatEmptySeq
    <3> QED
      BY <1>5, <2>7, <3>2
  <2>9. pc' = "getline" /\ inner' = FALSE /\ ct' = 0
    BY <2>5 DEF Prompt, Return
  <2>10. Left(k)'
    BY <1>1, <2>5, LeftAlone
  <2>11. Filling(c, k)'
    BY <1>1, <1>5, <2>8, <2>9 DEF Filling, Over
  <2> QED
    BY <1>3, <2>10, <2>11
<1>6. CASE Over(k) /\ stored = FillOf(c)
  <2>1. ~Editing
    BY <1>6, NoMoreKeys DEF Over
  <2> QED
    BY <1>6, <2>1, Steps DEF Over
<1> QED
  BY <1>4, <1>5, <1>6 DEF Filling

LEMMA FillExactly ==
    ASSUME NEW c, c = cmd, NEW k, Left(k), Filling(c, k), Done, c \in Commands \cup Followers, c.kind = "F"
    PROVE  stored = FillOf(c)
<1>1. k = Len(Text) /\ pc = "getline" /\ ct = 0
  BY DEF Left, Done
<1>2. Len(Text) = Len(FillLine(c)) + 1 /\ Len(FillLine(c)) \in Nat
  BY FillText DEF Text
<1>3. ~Amid(0, FillLine(c), k)
  BY <1>1, <1>2 DEF Amid
<1> QED
  BY <1>1, <1>3 DEF Filling, Over

-----------------------------------------------------------------------------
\* A set command and its answers.

SetLine(c)   == <<"S">> \o Number(c.from)
Answer(c, i) == CASE c.answers[i] = Back -> <<"^">> [] c.answers[i] = Leave -> <<".">>
                  [] OTHER -> Number(c.answers[i])

\* Where the line of the command and those of the answers end in the keys.
SetPlaces(c, at) ==
    LET N == Len(c.answers)
    IN  /\ at \in [0..N -> Nat] /\ at[0] = Len(SetLine(c)) + 1 /\ Len(TextOf[c]) = at[N]
        /\ \A i \in 1..N : /\ at[i] = at[i - 1] + Len(Answer(c, i)) + 1 /\ TextOf[c][at[i]] = "CR"
                           /\ \A j \in 1..Len(Answer(c, i)) : TextOf[c][at[i - 1] + j] = Answer(c, i)[j]
Asked(c) == CHOOSE at : SetPlaces(c, at)

LEMMA SetIs ==
    ASSUME NEW c \in Commands \cup Followers, c.kind = "S"
    PROVE  /\ c.from \in 0..(ADDR - 1) /\ c.from # None
           /\ Len(c.answers) \in Nat /\ DOMAIN c.answers = 1..Len(c.answers)
           /\ SetLine(c) \in Seq(Plain) /\ Len(SetLine(c)) = 1 + Len(Number(c.from))
           /\ SetLine(c)[1] = "S" /\ Len(Number(c.from)) \in Nat \ {0}
           /\ \A j \in 1..Len(Number(c.from)) : SetLine(c)[1 + j] = Number(c.from)[j]
<1> DEFINE f == <<"S">>
           A == Number(c.from)
<1>1. /\ c.from \in 0..(ADDR - 1) /\ c.answers \in Seq((0..(ADDR - 1)) \cup {None, Back, Leave})
  BY AsTyped, Zenon
<1>2. c.from # None
  BY <1>1, Address DEF None
<1>3. A \in Seq(Plain) /\ Len(A) # 0
  BY <1>1, <1>2, PlainNumber, NumberIs
<1>4. f \in Seq(Plain) /\ Len(f) = 1 /\ f[1] = "S"
  <2>1. "S" \in Plain
    BY CharsAre DEF Letters
  <2> QED
    BY <2>1, OneKey
<1>5. SetLine(c) = f \o A
  BY DEF SetLine
<1> HIDE DEF f, A
<1>6. Joined(f, A, f \o A)
  BY <1>3, <1>4, Joins
<1> DEFINE u == f \o A
<1> HIDE DEF u, Plain
<1>7. /\ u \in Seq(Plain) /\ Len(u) = 1 + Len(A) /\ Len(A) \in Nat \ {0}
      /\ \A j \in 1..Len(f) : u[j] = f[j]
      /\ \A j \in 1..Len(A) : u[1 + j] = A[j]
  BY <1>3, <1>4, <1>6, Zenon DEF Joined, u
<1>8. u[1] = "S"
  <2>1. 1 \in 1..1
    OBVIOUS
  <2> QED
    BY <1>4, <1>7, <2>1, Zenon
<1>9. Len(c.answers) \in Nat /\ DOMAIN c.answers = 1..Len(c.answers)
  BY <1>1, LenProperties
<1> QED
  BY <1>1, <1>2, <1>5, <1>7, <1>8, <1>9, Zenon DEF A, u

LEMMA AnswerIs ==
    ASSUME NEW c \in Commands \cup Followers, c.kind = "S", NEW i \in 1..Len(c.answers)
    PROVE  /\ Answer(c, i) \in Seq(Plain) /\ Len(Answer(c, i)) \in Nat
           /\ c.answers[i] \in (0..(ADDR - 1)) \cup {None, Back, Leave}
           /\ c.answers[i] = Back => Answer(c, i) = <<"^">>
           /\ c.answers[i] = Leave => Answer(c, i) = <<".">> /\ i = Len(c.answers)
           /\ c.answers[i] \notin {Back, Leave} => Answer(c, i) = Number(c.answers[i])
<1>1. c.answers[i] \in (0..(ADDR - 1)) \cup {None, Back, Leave}
  <2>1. c.answers \in Seq((0..(ADDR - 1)) \cup {None, Back, Leave})
    BY AsTyped, Zenon
  <2> QED
    BY <2>1, ElementOfSeq
<1>2. c.answers[i] = Leave => i = Len(c.answers)
  <2>1. i \in DOMAIN c.answers
    BY SetIs
  <2> QED
    BY <2>1, AsTyped, Zenon
<1>3. Back # Leave
  BY DEF Back, Leave
<1>4. /\ c.answers[i] = Back => Answer(c, i) = <<"^">>
      /\ c.answers[i] = Leave => Answer(c, i) = <<".">>
      /\ c.answers[i] \notin {Back, Leave} => Answer(c, i) = Number(c.answers[i])
  BY <1>3, Zenon DEF Answer
<1>5. <<"^">> \in Seq(Plain) /\ <<".">> \in Seq(Plain)
  <2>1. "^" \in Plain /\ "." \in Plain
    BY CharsAre DEF Marks
  <2> QED
    BY <2>1, OneKey
<1>6. c.answers[i] \notin {Back, Leave} => Number(c.answers[i]) \in Seq(Plain)
  BY <1>1, PlainNumber
<1>7. Answer(c, i) \in Seq(Plain)
  BY <1>4, <1>5, <1>6, Zenon
<1>8. Len(Answer(c, i)) \in Nat
  <2> HIDE DEF Plain
  <2> QED
    BY <1>7, LenProperties
<1> QED
  BY <1>1, <1>2, <1>4, <1>7, <1>8

LEMMA SetText ==
    ASSUME NEW c \in Commands \cup Followers, c.kind = "S"
    PROVE  /\ SetPlaces(c, Asked(c)) /\ TextOf[c] \in Seq(Char)
           /\ \A j \in 1..Len(SetLine(c)) : TextOf[c][j] = SetLine(c)[j]
           /\ TextOf[c][Len(SetLine(c)) + 1] = "CR"
<1> DEFINE N == Len(c.answers)
           s == [i \in 1..N |-> Line(Answer(c, i))]
           u == SetLine(c)
           L == Line(u)
<1>1. N \in Nat /\ DOMAIN c.answers = 1..N /\ u \in Seq(Plain)
  BY SetIs
<1> HIDE DEF N
<1>2. ASSUME NEW i \in 1..N
      PROVE  /\ s[i] = Line(Answer(c, i)) /\ s[i] \in Seq(Char) /\ Len(s[i]) = Len(Answer(c, i)) + 1
             /\ Len(Answer(c, i)) \in Nat /\ s[i][Len(Answer(c, i)) + 1] = "CR"
             /\ \A j \in 1..Len(Answer(c, i)) : s[i][j] = Answer(c, i)[j]
  <2>1. Answer(c, i) \in Seq(Plain) /\ s[i] = Line(Answer(c, i))
    BY AnswerIs DEF N
  <2> HIDE DEF s
  <2> QED
    BY <2>1, LineKeys
<1>3. s \in [1..N -> Seq(Char)]
  BY <1>2
<1>4. TextOf[c] = L \o FlattenSeq([i \in 1..N |-> s[i]])
  <2>1. TextOf[c] = L \o FlattenSeq([i \in DOMAIN c.answers |-> Line(Answer(c, i))])
    BY Zenon DEF TextOf, SetLine, Answer
  <2>2. s = [i \in 1..N |-> s[i]]
    OBVIOUS
  <2>3. TextOf[c] = L \o FlattenSeq(s)
    BY <1>1, <2>1, Zenon
  <2> QED
    BY <2>2, <2>3
<1> HIDE DEF s
<1>5. PICK h : Pieces(Char, N, s, h)
  BY <1>1, <1>3, Flattened
<1>6. h \in [0..N -> Seq(Char)] /\ h[0] = <<>> /\ TextOf[c] = L \o h[N] /\ N \in 0..N
  <2>1. N \in 0..N
    BY <1>1
  <2>2. /\ h \in [0..N -> Seq(Char)] /\ h[0] = <<>>
        /\ \A n \in 0..N : FlattenSeq([i \in 1..n |-> s[i]]) = h[n]
    BY <1>5, Zenon DEF Pieces
  <2>3. FlattenSeq([i \in 1..N |-> s[i]]) = h[N]
    BY <2>1, <2>2, Zenon
  <2> QED
    BY <1>4, <2>1, <2>2, <2>3, Zenon
<1>7. ASSUME NEW i \in 1..N
      PROVE  Lies(N, s, h, i)
  BY <1>1, <1>3, <1>5, Put
<1>8. /\ L \in Seq(Char) /\ Len(L) = Len(u) + 1 /\ Len(u) \in Nat
      /\ L[Len(u) + 1] = "CR" /\ \A j \in 1..Len(u) : L[j] = u[j]
  BY <1>1, LineKeys
<1> HIDE DEF L, u
<1> DEFINE H == h[N]
           l == Len(L)
           T == L \o H
<1>9. H \in Seq(Char) /\ Len(H) \in Nat /\ l \in Nat
  BY <1>6, <1>8
<1> HIDE DEF H, Char
<1>10. /\ T \in Seq(Char) /\ Len(T) = l + Len(H)
       /\ \A q \in 1..(l + Len(H)) : T[q] = IF q <= l THEN L[q] ELSE H[q - l]
  BY <1>8, <1>9, ConcatProperties
<1> HIDE DEF l, T
<1>11. \A q \in 1..Len(H) : T[l + q] = H[q]
  <2>1. \A q \in 1..Len(H) : l + q \in 1..(l + Len(H)) /\ ~(l + q <= l) /\ (l + q) - l = q
    BY <1>9
  <2> QED
    BY <1>10, <2>1
<1>12. \A q \in 1..l : T[q] = L[q]
  <2>1. \A q \in 1..l : q \in 1..(l + Len(H)) /\ q <= l
    BY <1>9
  <2> QED
    BY <1>10, <2>1
<1>13. l = Len(u) + 1 /\ Len(u) \in Nat
  BY <1>8 DEF l
<1>14. T[Len(u) + 1] = "CR" /\ \A j \in 1..Len(u) : T[j] = u[j]
  <2>1. Len(u) + 1 \in 1..l /\ \A j \in 1..Len(u) : j \in 1..l
    BY <1>13
  <2> QED
    BY <1>8, <1>12, <2>1
<1> DEFINE at == [i \in 0..N |-> l + Len(h[i])]
<1>15. at \in [0..N -> Nat]
  <2>1. \A i \in 0..N : l + Len(h[i]) \in Nat
    BY <1>6, <1>9
  <2> QED
    BY <2>1
<1>16. \A i \in 0..N : at[i] = l + Len(h[i])
  OBVIOUS
<1>17. at[0] = Len(u) + 1
  <2>1. 0 \in 0..N /\ Len(h[0]) = 0
    BY <1>1, <1>6
  <2>2. at[0] = l + 0
    BY <1>16, <2>1, Zenon
  <2>3. l + 0 = l
    BY <1>9
  <2> QED
    BY <1>13, <2>2, <2>3, Zenon
<1>18. Len(T) = at[N]
  <2>1. at[N] = l + Len(H)
    BY <1>6 DEF H
  <2> QED
    BY <1>10, <2>1
<1> HIDE DEF at
<1>19. ASSUME NEW i \in 1..N
       PROVE  /\ at[i] = at[i - 1] + Len(Answer(c, i)) + 1 /\ T[at[i]] = "CR"
              /\ \A j \in 1..Len(Answer(c, i)) : T[at[i - 1] + j] = Answer(c, i)[j]
  <2> DEFINE w == Len(Answer(c, i))
             b == Len(h[i - 1])
  <2>1. /\ i - 1 \in 0..N /\ i \in 0..N
    BY <1>1
  <2>2. /\ w \in Nat /\ Len(s[i]) = w + 1 /\ s[i][w + 1] = "CR"
        /\ \A j \in 1..w : s[i][j] = Answer(c, i)[j]
    BY <1>2
  <2>3. /\ b \in Nat /\ Len(h[i]) = b + Len(s[i]) /\ Len(h[i]) <= Len(H)
        /\ \A q \in 1..Len(s[i]) : H[b + q] = s[i][q]
    BY <1>7, Zenon DEF Lies, H
  <2>4. at[i] = l + Len(h[i]) /\ at[i - 1] = l + b
    BY <1>16, <2>1
  <2> HIDE DEF w, b
  <2>5. Len(h[i]) = b + (w + 1) /\ b + (w + 1) <= Len(H)
    BY <2>2, <2>3
  <2>6. \A q \in 1..(w + 1) : T[l + (b + q)] = s[i][q]
    <3>1. \A q \in 1..(w + 1) : b + q \in 1..Len(H) /\ H[b + q] = s[i][q]
      <4>1. b \in Nat /\ w \in Nat /\ b + (w + 1) <= Len(H)
        BY <2>2, <2>3, <2>5
      <4>2. \A q \in 1..(w + 1) : b + q \in 1..Len(H)
        BY <1>9, <4>1
      <4> QED
        BY <2>2, <2>3, <4>2, Zenon
    <3> QED
      BY <1>11, <3>1, Zenon
  <2>7. at[i] = at[i - 1] + w + 1 /\ at[i] = l + (b + (w + 1))
    BY <1>9, <2>2, <2>3, <2>4, <2>5
  <2>8. \A j \in 1..w : j \in 1..(w + 1) /\ at[i - 1] + j = l + (b + j)
    <3>1. b \in Nat /\ w \in Nat
      BY <2>2, <2>3
    <3> QED
      BY <1>9, <2>4, <3>1
  <2>9. w + 1 \in 1..(w + 1)
    BY <2>2
  <2> QED
    BY <2>2, <2>6, <2>7, <2>8, <2>9, Zenon DEF w
<1>20. SetPlaces(c, at)
  BY <1>6, <1>15, <1>17, <1>18, <1>19, Zenon DEF SetPlaces, N, u, T, H
<1>21. SetPlaces(c, Asked(c))
  BY <1>20, Zenon DEF Asked
<1>22. TextOf[c] = T
  BY <1>6 DEF T, H
<1> QED
  BY <1>10, <1>14, <1>21, <1>22, Zenon DEF u

\* What xsubst reads in its line and in the answers.
LEMMA SetRead ==
    ASSUME NEW c \in Commands \cup Followers, c.kind = "S", Complete(SetLine(c))
    PROVE  line[1] = "S" /\ line[After(2)] = NUL /\ ogetdata(2, datap) = c.from
<1> DEFINE A == Number(c.from)
           a == Len(A)
           u == SetLine(c)
<1>1. /\ c.from \in 0..(ADDR - 1) /\ c.from # None /\ Len(u) = 1 + a /\ a \in Nat \ {0}
      /\ u[1] = "S" /\ \A j \in 1..a : u[1 + j] = A[j]
  BY SetIs, Zenon
<1>2. Len(u) = 1 + a /\ a \in Nat \ {0}
  BY <1>1
<1>3. \A j \in 1..a : ToUpper(A[j]) = A[j] /\ A[j] \notin {",", NUL}
  BY <1>1, NumberIs, CharsAre
<1>4. ToUpper("S") = "S" /\ inhex(NUL) = None
  <2>1. "S" \in Letters
    BY DEF Letters
  <2> QED
    BY <2>1, CharsAre
<1>5. \A j \in 1..Len(u) : line[j] = ToUpper(u[j])
  BY DEF Complete
<1>6. Len(u) < LINE /\ line[Len(u) + 1] = NUL
  BY DEF Complete
<1>7. LINE \in Nat /\ Room \in Nat /\ LINE <= Room
  BY Rooms
<1> HIDE DEF u, a, A
<1>8. line[1] = "S"
  <2>1. 1 \in 1..Len(u)
    BY <1>2
  <2> QED
    BY <1>1, <1>4, <1>5, <2>1
<1>9. \A j \in 1..a : line[2 + j - 1] = A[j]
  <2>1. \A j \in 1..a : 1 + j \in 1..Len(u) /\ 2 + j - 1 = 1 + j
    BY <1>2
  <2> QED
    BY <1>1, <1>3, <1>5, <2>1
<1>10. 2 + a <= Room /\ 2 + a = Len(u) + 1 /\ 2 \in Nat \ {0}
  BY <1>2, <1>6, <1>7
<1>11. StandsAt(c.from, 2)
  BY <1>4, <1>6, <1>9, <1>10, Zenon DEF StandsAt, a, A
<1>12. After(2) = 2 + a /\ getdata(2) = c.from
  BY <1>1, <1>7, <1>10, <1>11, NumberRead DEF a, A
<1>13. line[2] \notin {",", NUL}
  <2>1. 1 \in 1..a /\ 2 + 1 - 1 = 2
    BY <1>2
  <2> QED
    BY <1>3, <1>9, <2>1
<1> QED
  BY <1>6, <1>8, <1>10, <1>12, <1>13 DEF ogetdata

LEMMA AnswerRead ==
    ASSUME NEW c \in Commands \cup Followers, c.kind = "S", NEW i \in 1..Len(c.answers), Complete(Answer(c, i))
    PROVE  /\ c.answers[i] = Back => line[1] = "^"
           /\ c.answers[i] = Leave => line[1] = "."
           /\ c.answers[i] = None => line[1] = NUL
           /\ c.answers[i] \notin {Back, Leave, None} =>
                  line[1] \notin {"^", ".", NUL} /\ getdata(1) = c.answers[i] /\ line[After(1)] = NUL
<1> DEFINE x == c.answers[i]
           u == Answer(c, i)
<1>1. /\ x \in (0..(ADDR - 1)) \cup {None, Back, Leave}
      /\ x = Back => u = <<"^">>
      /\ x = Leave => u = <<".">>
      /\ x \notin {Back, Leave} => u = Number(x)
      /\ Len(u) \in Nat
  BY AnswerIs
<1>2. \A j \in 1..Len(u) : line[j] = ToUpper(u[j])
  BY DEF Complete
<1>3. Len(u) < LINE /\ line[Len(u) + 1] = NUL
  BY DEF Complete
<1>4. LINE \in Nat /\ Room \in Nat /\ LINE <= Room
  BY Rooms
<1>5. ToUpper("^") = "^" /\ ToUpper(".") = "." /\ inhex(NUL) = None
  <2>1. "^" \in Marks /\ "." \in Marks
    BY DEF Marks
  <2> QED
    BY <2>1, CharsAre
<1> HIDE DEF u, x
<1>6. ASSUME NEW m \in {"^", "."}, u = <<m>>
      PROVE  line[1] = m
  <2>1. Len(u) = 1 /\ u[1] = m /\ 1 \in 1..1
    BY <1>6
  <2> QED
    BY <1>2, <1>5, <2>1
<1>7. ASSUME x = None
      PROVE  line[1] = NUL
  <2>1. None \notin {Back, Leave}
    BY DEF None, Back, Leave
  <2>2. u = <<>>
    BY <1>1, <1>7, <2>1 DEF Number
  <2>3. Len(u) = 0 /\ 0 + 1 = 1
    BY <2>2
  <2> QED
    BY <1>3, <2>3
<1>8. ASSUME x \notin {Back, Leave, None}
      PROVE  line[1] \notin {"^", ".", NUL} /\ getdata(1) = x /\ line[After(1)] = NUL
  <2>1. x \in 0..(ADDR - 1) /\ u = Number(x)
    BY <1>1, <1>8
  <2>2. Len(u) # 0 /\ \A j \in 1..Len(u) : u[j] \in ToSet(Digit)
    BY <1>8, <2>1, NumberIs
  <2>3. \A j \in 1..Len(u) : ToUpper(u[j]) = u[j] /\ u[j] \notin {"^", ".", NUL}
    BY <2>2, CharsAre
  <2>4. \A j \in 1..Len(u) : line[j] = u[j]
    BY <1>2, <2>3
  <2>5. 1 \in 1..Len(u) /\ 1 \in Nat \ {0} /\ 1 + Len(u) <= Room /\ 1 + Len(u) = Len(u) + 1
    BY <1>1, <1>3, <1>4, <2>2
  <2>6. line[1] \notin {"^", ".", NUL}
    BY <2>3, <2>4, <2>5
  <2>7. \A j \in 1..Len(u) : line[1 + j - 1] = u[j]
    <3>1. \A j \in 1..Len(u) : 1 + j - 1 = j
      BY <1>1
    <3> QED
      BY <2>4, <3>1
  <2>8. StandsAt(x, 1)
    BY <1>3, <1>5, <2>1, <2>5, <2>7, Zenon DEF StandsAt
  <2>9. After(1) = 1 + Len(u) /\ getdata(1) = x
    BY <1>4, <1>8, <2>1, <2>5, <2>8, NumberRead
  <2> QED
    BY <1>3, <2>5, <2>6, <2>9
<1> QED
  BY <1>1, <1>6, <1>7, <1>8 DEF x, u

\* The addresses the answers are for.
Spot(c) ==
    LET Place[i \in DOMAIN c.answers] ==
          IF i = 1 THEN InRam(c.from)
          ELSE IF c.answers[i - 1] = Back THEN Place[i - 1] - 1 ELSE Place[i - 1] + 1
    IN  Place

LEMMA SpotIs ==
    ASSUME NEW c \in Commands \cup Followers, c.kind = "S"
    PROVE  /\ \A i \in 1..Len(c.answers) : Spot(c)[i] \in Int
           /\ Len(c.answers) # 0 => Spot(c)[1] = InRam(c.from)
           /\ \A i \in 1..(Len(c.answers) - 1) :
                  Spot(c)[i + 1] = Spot(c)[i] + (IF c.answers[i] = Back THEN -1 ELSE 1)
<1> DEFINE N == Len(c.answers)
           b == InRam(c.from)
           g == [m \in Nat |-> [x \in Int |-> IF c.answers[m + 1] = Back THEN x - 1 ELSE x + 1]]
           Fits(f) == f = [i \in 1..N |-> IF i = 1 THEN b
                                          ELSE IF c.answers[i - 1] = Back THEN f[i - 1] - 1 ELSE f[i - 1] + 1]
           S == CHOOSE f : Fits(f)
<1>1. N \in Nat /\ DOMAIN c.answers = 1..N
  BY SetIs
<1>2. b \in Int
  <2>1. c.from \in 0..(ADDR - 1)
    BY SetIs
  <2>2. b \in TOP..(ADDR - 1)
    BY <2>1, InRamIs
  <2>3. TOP \in Int /\ ADDR \in Int
    BY Address
  <2> HIDE DEF ADDR, TOP, b
  <2> QED
    BY <2>2, <2>3
<1>3. Spot(c) = S
  <2>1. Spot(c) = CHOOSE f : f = [i \in DOMAIN c.answers |->
                                    IF i = 1 THEN b
                                    ELSE IF c.answers[i - 1] = Back THEN f[i - 1] - 1 ELSE f[i - 1] + 1]
    BY Zenon DEF Spot
  <2> QED
    BY <1>1, <2>1, Zenon
<1> HIDE DEF N, b
<1>4. g \in [Nat -> [Int -> Int]] /\ \A m \in Nat, x \in Int : g[m][x] = IF c.answers[m + 1] = Back THEN x - 1 ELSE x + 1
  OBVIOUS
<1> HIDE DEF g
<1>5. PICK r : Chain(Int, b, g, r)
  BY <1>2, <1>4, Recursion
<1>6. r \in [Nat -> Int] /\ r[0] = b /\ \A n \in Nat : r[n + 1] = g[n][r[n]]
  BY <1>5 DEF Chain
<1> DEFINE q == [i \in 1..N |-> r[i - 1]]
<1>7. ASSUME NEW i \in Nat \ {0}
      PROVE  r[i] = IF c.answers[i] = Back THEN r[i - 1] - 1 ELSE r[i - 1] + 1
  <2>1. i - 1 \in Nat /\ (i - 1) + 1 = i
    OBVIOUS
  <2>2. r[i - 1] \in Int
    BY <1>6, <2>1
  <2>3. r[i] = g[i - 1][r[i - 1]]
    BY <1>6, <2>1
  <2>4. g[i - 1][r[i - 1]] = IF c.answers[(i - 1) + 1] = Back THEN r[i - 1] - 1 ELSE r[i - 1] + 1
    BY <1>4, <2>1, <2>2, Zenon
  <2> QED
    BY <2>1, <2>3, <2>4
<1>8. \A i \in 1..N : q[i] = r[i - 1]
  OBVIOUS
<1>9. q = [i \in 1..N |-> q[i]]
  OBVIOUS
<1> HIDE DEF q
<1>10. ASSUME NEW i \in 1..N
       PROVE  q[i] = IF i = 1 THEN b ELSE IF c.answers[i - 1] = Back THEN q[i - 1] - 1 ELSE q[i - 1] + 1
  <2>1. CASE i = 1
    <3>1. i - 1 = 0
      BY <2>1
    <3> QED
      BY <1>6, <1>8, <2>1, <3>1
  <2>2. CASE i # 1
    <3>1. i - 1 \in Nat \ {0} /\ i - 1 \in 1..N
      BY <1>1, <2>2
    <3>2. q[i - 1] = r[(i - 1) - 1] /\ q[i] = r[i - 1]
      BY <1>8, <3>1
    <3>3. r[i - 1] = IF c.answers[i - 1] = Back THEN r[(i - 1) - 1] - 1 ELSE r[(i - 1) - 1] + 1
      BY <1>7, <3>1
    <3> QED
      BY <2>2, <3>2, <3>3
  <2> QED
    BY <2>1, <2>2
<1>11. Fits(q)
  BY <1>9, <1>10, Zenon
<1>12. Fits(S)
  BY <1>11, Zenon
<1> HIDE DEF S
<1>13. ASSUME NEW i \in 1..N
       PROVE  S[i] = IF i = 1 THEN b ELSE IF c.answers[i - 1] = Back THEN S[i - 1] - 1 ELSE S[i - 1] + 1
  BY <1>12, Zenon
<1> DEFINE Sound == {i \in Nat : i \in 1..N => S[i] \in Int}
<1>14. 0 \in Sound
  OBVIOUS
<1>15. ASSUME NEW i \in Nat, i \in Sound
       PROVE  i + 1 \in Sound
  <2> SUFFICES ASSUME i + 1 \in 1..N
               PROVE  S[i + 1] \in Int
    OBVIOUS
  <2>1. S[i + 1] = IF i + 1 = 1 THEN b ELSE IF c.answers[(i + 1) - 1] = Back THEN S[(i + 1) - 1] - 1
                                                                            ELSE S[(i + 1) - 1] + 1
    BY <1>13
  <2>2. (i + 1) - 1 = i /\ (i + 1 = 1 \/ i \in 1..N)
    BY <1>1
  <2>3. i + 1 # 1 => S[i] \in Int
    BY <1>15, <2>2
  <2> QED
    BY <1>2, <2>1, <2>2, <2>3
<1> HIDE DEF Sound
<1>16. \A i \in Nat : i \in Sound
  BY <1>14, <1>15, Induction
<1>17. \A i \in 1..N : S[i] \in Int
  BY <1>16 DEF Sound
<1>18. N # 0 => S[1] = b
  <2>1. N # 0 => 1 \in 1..N
    BY <1>1
  <2> QED
    BY <1>13, <2>1
<1>19. ASSUME NEW i \in 1..(N - 1)
       PROVE  S[i + 1] = S[i] + (IF c.answers[i] = Back THEN -1 ELSE 1)
  <2>1. i + 1 \in 1..N /\ i \in 1..N /\ (i + 1) - 1 = i /\ i + 1 # 1
    BY <1>1
  <2>2. S[i + 1] = IF c.answers[i] = Back THEN S[i] - 1 ELSE S[i] + 1
    <3>1. S[i + 1] = IF i + 1 = 1 THEN b ELSE IF c.answers[(i + 1) - 1] = Back THEN S[(i + 1) - 1] - 1
                                                                            ELSE S[(i + 1) - 1] + 1
      BY <1>13, <2>1
    <3> QED
      BY <2>1, <3>1
  <2>3. S[i] \in Int
    BY <1>17, <2>1
  <2> QED
    BY <2>2, <2>3
<1> QED
  BY <1>3, <1>17, <1>18, <1>19 DEF N, b

\* How many of the first n answers are stored.
Answered(c) == {i \in DOMAIN c.answers : c.answers[i] >= 0}
Count(c, n) == Cardinality({i \in Answered(c) : i <= n})

LEMMA CountIs ==
    ASSUME NEW c \in Commands \cup Followers, c.kind = "S"
    PROVE  /\ Answered(c) \subseteq 1..Len(c.answers) /\ Count(c, 0) = 0
           /\ \A n \in 0..Len(c.answers) : Count(c, n) \in Nat
           /\ \A n \in 1..Len(c.answers) :
                  Count(c, n) = IF n \in Answered(c) THEN Count(c, n - 1) + 1 ELSE Count(c, n - 1)
           /\ \A n \in 0..Len(c.answers), m \in 0..Len(c.answers) : m <= n => Count(c, m) <= Count(c, n)
           /\ Count(c, Len(c.answers)) = Cardinality(Answered(c))
<1> DEFINE N == Len(c.answers)
           A == Answered(c)
           U(n) == {i \in A : i <= n}
<1>1. N \in Nat /\ DOMAIN c.answers = 1..N
  BY SetIs
<1>2. A \subseteq 1..N
  BY <1>1 DEF Answered
<1> HIDE DEF N, A
<1>3. ASSUME NEW n \in 0..N
      PROVE  IsFiniteSet(U(n)) /\ Count(c, n) = Cardinality(U(n)) /\ Cardinality(U(n)) \in Nat
  <2>1. IsFiniteSet(1..N)
    BY <1>1, FS_Interval
  <2>2. U(n) \subseteq 1..N
    BY <1>2
  <2>3. IsFiniteSet(U(n))
    BY <2>1, <2>2, FS_Subset
  <2>4. Count(c, n) = Cardinality(U(n))
    BY Zenon DEF Count, A
  <2> HIDE DEF U
  <2> QED
    BY <2>3, <2>4, FS_CardinalityType
<1>4. U(0) = {} /\ U(N) = A
  <2>1. \A i \in A : ~(i <= 0) /\ i <= N
    BY <1>1, <1>2
  <2> QED
    BY <2>1, Zenon
<1>5. ASSUME NEW n \in 1..N
      PROVE  /\ n \in A => U(n) = U(n - 1) \cup {n} /\ n \notin U(n - 1)
             /\ n \notin A => U(n) = U(n - 1)
             /\ n - 1 \in 0..N /\ n \in 0..N
  <2>1. \A i \in A : i <= n <=> i <= n - 1 \/ i = n
    BY <1>1, <1>2
  <2>2. n <= n /\ ~(n <= n - 1) /\ n - 1 \in 0..N /\ n \in 0..N
    BY <1>1
  <2> QED
    BY <2>1, <2>2, Zenon
<1>6. ASSUME NEW n \in 0..N, NEW m \in 0..N, m <= n
      PROVE  U(m) \subseteq U(n)
  <2>1. \A i \in A : i <= m => i <= n
    BY <1>1, <1>2, <1>6
  <2> QED
    BY <2>1, Zenon
<1>7. 0 \in 0..N /\ N \in 0..N
  BY <1>1
<1>10. Count(c, 0) = 0 /\ Count(c, N) = Cardinality(A)
  BY <1>3, <1>4, <1>7, FS_EmptySet
<1> HIDE DEF U
<1>8. ASSUME NEW n \in 1..N
      PROVE  Count(c, n) = IF n \in A THEN Count(c, n - 1) + 1 ELSE Count(c, n - 1)
  <2>1. CASE n \in A
    <3>1. Cardinality(U(n - 1) \cup {n}) = Cardinality(U(n - 1)) + 1
      BY <1>3, <1>5, <2>1, FS_AddElement
    <3> QED
      BY <1>3, <1>5, <2>1, <3>1
  <2>2. CASE n \notin A
    BY <1>3, <1>5, <2>2
  <2> QED
    BY <2>1, <2>2
<1>9. ASSUME NEW n \in 0..N, NEW m \in 0..N, m <= n
      PROVE  Count(c, m) <= Count(c, n)
  <2>1. U(m) \subseteq U(n) /\ IsFiniteSet(U(n))
    BY <1>3, <1>6, <1>9
  <2>2. Cardinality(U(m)) <= Cardinality(U(n))
    BY <2>1, FS_Subset
  <2> QED
    BY <1>3, <2>2
<1> QED
  BY <1>2, <1>3, <1>8, <1>9, <1>10 DEF N, A

\* The first n answers are acted on.
HasStored(c, n) ==
    /\ Array(stored, Count(c, n))
    /\ \A h \in Answered(c) : h <= n => stored[Count(c, h)] = <<Spot(c)[h] % ADDR, c.answers[h] % BYTE>>

\* xsubst waits for answer i or has it.
Asking(c, i, k) ==
    /\ inner /\ p = Spot(c)[i] % ADDR /\ HasStored(c, i - 1)
    /\ \/ Amid(Asked(c)[i - 1], Answer(c, i), k)
       \/ pc = "reply" /\ Complete(Answer(c, i)) /\ k = Asked(c)[i]

Setting(c, k) ==
    \/ ~inner /\ stored = <<>> /\ Amid(0, SetLine(c), k)
    \/ ~inner /\ stored = <<>> /\ pc = "dispatch" /\ Complete(SetLine(c)) /\ k = Asked(c)[0]
    \/ \E i \in 1..Len(c.answers) : Asking(c, i, k)
    \/ pc = "getline" /\ inner /\ k = Len(Text)
    \/ Over(k) /\ HasStored(c, Len(c.answers))

LEMMA AskedIs ==
    ASSUME NEW c \in Commands \cup Followers, c.kind = "S"
    PROVE  /\ \A i \in 0..Len(c.answers) : Asked(c)[i] \in Nat
           /\ Asked(c)[0] = Len(SetLine(c)) + 1 /\ Len(SetLine(c)) \in Nat
           /\ Len(TextOf[c]) = Asked(c)[Len(c.answers)] /\ Len(TextOf[c]) > 0
           /\ \A i \in 1..Len(c.answers) : /\ Asked(c)[i] = Asked(c)[i - 1] + Len(Answer(c, i)) + 1
                                           /\ i - 1 \in 0..Len(c.answers)
           /\ cmd = c => Here(0, SetLine(c)) /\ \A i \in 1..Len(c.answers) : Here(Asked(c)[i - 1], Answer(c, i))
<1> DEFINE N == Len(c.answers)
           at == Asked(c)
           T == TextOf[c]
           u == SetLine(c)
<1>1. SetPlaces(c, at)
  BY SetText
<1> HIDE DEF at
<1>2. /\ at \in [0..N -> Nat] /\ at[0] = Len(u) + 1 /\ Len(T) = at[N]
      /\ \A i \in 1..N : /\ at[i] = at[i - 1] + Len(Answer(c, i)) + 1 /\ T[at[i]] = "CR"
                         /\ \A j \in 1..Len(Answer(c, i)) : T[at[i - 1] + j] = Answer(c, i)[j]
  BY <1>1, Zenon DEF SetPlaces
<1>3. /\ N \in Nat /\ u \in Seq(Plain) /\ Len(u) = 1 + Len(Number(c.from)) /\ Len(Number(c.from)) \in Nat
      /\ \A j \in 1..Len(u) : T[j] = u[j]
      /\ T[Len(u) + 1] = "CR"
  BY SetIs, SetText
<1>4. ASSUME NEW i \in 1..N
      PROVE  /\ Answer(c, i) \in Seq(Plain) /\ Len(Answer(c, i)) \in Nat
             /\ at[i] = at[i - 1] + Len(Answer(c, i)) + 1 /\ i - 1 \in 0..N /\ at[i - 1] \in Nat
  <2>1. i - 1 \in 0..N
    BY <1>3
  <2> QED
    BY <1>2, <2>1, AnswerIs
<1>5. ASSUME cmd = c, NEW i \in 1..N
      PROVE  Here(at[i - 1], Answer(c, i))
  <2>1. Text = T
    BY <1>5 DEF Text
  <2> HIDE DEF T
  <2>2. \A j \in 1..Len(Answer(c, i)) : Text[at[i - 1] + j] = Answer(c, i)[j]
    BY <1>2, <2>1
  <2>3. Text[at[i - 1] + Len(Answer(c, i)) + 1] = "CR"
    <3>1. Text[at[i]] = "CR"
      BY <1>2, <2>1
    <3>2. at[i] = at[i - 1] + Len(Answer(c, i)) + 1
      BY <1>4
    <3> QED
      BY <3>1, <3>2, Zenon
  <2> QED
    BY <1>4, <2>2, <2>3, Zenon DEF Here
<1>6. ASSUME cmd = c
      PROVE  Here(0, u)
  <2>1. Text = T
    BY <1>6 DEF Text
  <2> HIDE DEF T, u
  <2>2. Len(u) \in Nat
    BY <1>3
  <2>3. 0 + Len(u) + 1 = Len(u) + 1 /\ \A j \in 1..Len(u) : 0 + j = j
    BY <2>2
  <2> QED
    BY <1>3, <2>1, <2>3 DEF Here
<1> HIDE DEF T, u, N
<1>7. Len(T) > 0 /\ Len(u) \in Nat
  <2>1. Len(u) \in Nat
    BY <1>3
  <2>2. CASE N = 0
    BY <1>2, <2>1, <2>2
  <2>3. CASE N # 0
    <3>1. N \in 1..N
      BY <1>3, <2>3
    <3>2. at[N] = at[N - 1] + Len(Answer(c, N)) + 1 /\ at[N - 1] \in Nat /\ Len(Answer(c, N)) \in Nat
      BY <1>4, <3>1
    <3>3. at[N] > 0
      BY <3>2
    <3> QED
      BY <1>2, <2>1, <3>3
  <2> QED
    BY <2>2, <2>3
<1> QED
  BY <1>2, <1>4, <1>5, <1>6, <1>7 DEF N, at, T, u

\* The next answer is asked for, if there is one.
LEMMA NextAnswer ==
    ASSUME NEW c \in Commands \cup Followers, c.kind = "S", Text' = TextOf[c], NEW i \in 0..Len(c.answers),
           i # Len(c.answers) => p' = Spot(c)[i + 1] % ADDR,
           pc' = "getline", inner', ct' = 0, HasStored(c, i)'
    PROVE  Setting(c, Asked(c)[i])'
<1> DEFINE N == Len(c.answers)
           k == Asked(c)[i]
<1>1. N \in Nat /\ k \in Nat /\ Len(TextOf[c]) = Asked(c)[N]
  BY SetIs, AskedIs
<1>2. CASE i = N
  BY <1>1, <1>2 DEF Setting
<1>3. CASE i # N
  <2>1. i + 1 \in 1..N /\ (i + 1) - 1 = i
    BY <1>1, <1>3
  <2>2. Len(Answer(c, i + 1)) \in Nat
    BY <2>1, AnswerIs
  <2>3. Amid(Asked(c)[(i + 1) - 1], Answer(c, i + 1), k)'
    <3>1. k \in k..(k + Len(Answer(c, i + 1))) /\ k - k = 0
      BY <1>1, <2>2
    <3> HIDE DEF k
    <3>2. Amid(k, Answer(c, i + 1), k)'
      BY <3>1 DEF Amid
    <3> QED
      BY <2>1, <3>2 DEF k
  <2>4. HasStored(c, (i + 1) - 1)'
    BY <2>1
  <2>5. Asking(c, i + 1, k)'
    BY <1>3, <2>3, <2>4 DEF Asking
  <2> QED
    BY <2>1, <2>5 DEF Setting
<1> QED
  BY <1>2, <1>3

LEMMA SetBegins ==
    ASSUME NEW c \in Commands \cup Followers, c = cmd, c.kind = "S", pc = "dispatch", stored = <<>>,
           Complete(SetLine(c)), Next, ~Begin, ~Press
    PROVE  UNCHANGED <<rx, script, cmd>> /\ Setting(c, Asked(c)[0])'
<1>1. UNCHANGED <<script, cmd>> /\ Text' = TextOf[c]
  BY UserWaits DEF userVars, Text
<1>2. line[1] = "S" /\ line[After(2)] = NUL /\ ogetdata(2, datap) = c.from
  BY SetRead
<1>3. xsubst
  <2>1. Nothing \/ xdump \/ xsubst \/ xfill \/ xgo \/ xtptest \/ xread \/ xsdread
    BY Steps
  <2> QED
    BY <1>2, <2>1 DEF Nothing, xdump, xfill, xgo, xtptest, xread, xsdread, Is, Letters
<1>4. rx' = rx /\ stored' = stored /\ pc' = "getline" /\ inner' /\ ct' = 0 /\ p' = InRam(c.from)
  BY <1>2, <1>3 DEF xsubst, AskAt, seenVars
<1>5. HasStored(c, 0)'
  <2>1. Count(c, 0) = 0 /\ \A h \in Answered(c) : ~(h <= 0)
    <3>1. Answered(c) \subseteq 1..Len(c.answers) /\ Count(c, 0) = 0 /\ Len(c.answers) \in Nat
      BY CountIs, SetIs
    <3> QED
      BY <3>1
  <2>2. Array(stored', 0)
    BY <1>4 DEF Array
  <2> QED
    BY <2>1, <2>2 DEF HasStored
<1>6. 0 \in 0..Len(c.answers)
  BY SetIs
<1>7. 0 # Len(c.answers) => p' = Spot(c)[0 + 1] % ADDR
  <2>1. InRam(c.from) \in TOP..(ADDR - 1) /\ ADDR \in Nat \ {0} /\ TOP \in Nat
    BY SetIs, InRamIs, Address
  <2>2. InRam(c.from) % ADDR = InRam(c.from)
    <3> DEFINE b == InRam(c.from)
    <3> HIDE DEF b, ADDR, TOP
    <3> QED
      BY <2>1 DEF b
  <2>3. 0 # Len(c.answers) => Spot(c)[0 + 1] = InRam(c.from)
    BY SpotIs
  <2> QED
    BY <1>4, <2>2, <2>3
<1> QED
  BY <1>1, <1>4, <1>5, <1>6, <1>7, NextAnswer

\* An answer that is not stored, and one that is.
LEMMA NotStored ==
    ASSUME NEW c \in Commands \cup Followers, c.kind = "S", NEW i \in 1..Len(c.answers), c.answers[i] \in {None, Back, Leave},
           HasStored(c, i - 1), stored' = stored
    PROVE  HasStored(c, i)'
<1>1. i \notin Answered(c)
  BY DEF Answered, None, Back, Leave
<1>2. Answered(c) \subseteq 1..Len(c.answers) /\ Len(c.answers) \in Nat /\ Count(c, i) = Count(c, i - 1)
  BY <1>1, CountIs, SetIs
<1>3. Array(stored', Count(c, i))
  BY <1>2 DEF HasStored, Array
<1>4. \A h \in Answered(c) : h <= i => h <= i - 1
  BY <1>1, <1>2
<1> QED
  BY <1>3, <1>4 DEF HasStored

LEMMA Lengthened ==
    ASSUME NEW n \in Nat, NEW v, Array(stored, n), stored' = Append(stored, v)
    PROVE  Array(stored', n + 1) /\ \A j \in 1..(n + 1) : stored'[j] = IF j = n + 1 THEN v ELSE stored[j]
<1>1. stored' = [j \in 1..(n + 1) |-> IF j = n + 1 THEN v ELSE stored[j]]
  BY Longer
<1>2. \A j \in 1..(n + 1) : stored'[j] = IF j = n + 1 THEN v ELSE stored[j]
  BY <1>1
<1>3. stored' = [j \in 1..(n + 1) |-> stored'[j]]
  BY <1>1
<1> QED
  BY <1>2, <1>3 DEF Array

LEMMA OneStored ==
    ASSUME NEW c \in Commands \cup Followers, c.kind = "S", NEW i \in 1..Len(c.answers), c.answers[i] \in Nat,
           HasStored(c, i - 1), stored' = Append(stored, <<Spot(c)[i] % ADDR, c.answers[i] % BYTE>>)
    PROVE  HasStored(c, i)'
<1> DEFINE n == Count(c, i - 1)
           v == <<Spot(c)[i] % ADDR, c.answers[i] % BYTE>>
<1>1. i \in Answered(c)
  BY SetIs DEF Answered
<1>2. Answered(c) \subseteq 1..Len(c.answers) /\ Len(c.answers) \in Nat /\ Count(c, i) = n + 1
  BY <1>1, CountIs, SetIs
<1>3. i - 1 \in 0..Len(c.answers) /\ \A h \in 0..Len(c.answers) : h <= i => h <= i - 1 \/ h = i
  BY <1>2
<1>4. n \in Nat /\ Array(stored, n)
  BY <1>3, CountIs DEF HasStored
<1>9. stored' = Append(stored, v)
  OBVIOUS
<1> HIDE DEF n, v
<1>5. Array(stored', n + 1) /\ \A j \in 1..(n + 1) : stored'[j] = IF j = n + 1 THEN v ELSE stored[j]
  BY <1>4, <1>9, Lengthened
<1>6. \A j \in 1..(n + 1) : stored'[j] = IF j = n + 1 THEN v ELSE stored[j]
  BY <1>5, Zenon
<1>7. Array(stored', Count(c, i))
  BY <1>2, <1>5, Zenon
<1>8. ASSUME NEW h \in Answered(c), h <= i
      PROVE  stored'[Count(c, h)] = <<Spot(c)[h] % ADDR, c.answers[h] % BYTE>>
  <2>1. CASE h = i
    <3>1. n + 1 \in 1..(n + 1)
      BY <1>4
    <3>2. stored'[n + 1] = v
      BY <1>6, <3>1
    <3> QED
      BY <1>2, <2>1, <3>2 DEF v
  <2>2. CASE h # i
    <3>1. h \in 0..Len(c.answers) /\ h \in 1..Len(c.answers)
      BY <1>2
    <3>2. h <= i - 1
      BY <1>3, <1>8, <2>2, <3>1
    <3>3. Count(c, h) <= n /\ Count(c, h) \in Nat
      BY <1>3, <3>1, <3>2, CountIs DEF n
    <3>4. Count(c, h) # 0
      <4>1. Count(c, h) = Count(c, h - 1) + 1
        BY <3>1, CountIs
      <4>2. h - 1 \in 0..Len(c.answers)
        BY <1>2, <3>1
      <4>3. Count(c, h - 1) \in Nat
        BY <4>2, CountIs
      <4> QED
        BY <4>1, <4>3
    <3>5. Count(c, h) \in 1..(n + 1) /\ Count(c, h) # n + 1
      BY <1>4, <3>3, <3>4
    <3>6. stored'[Count(c, h)] = stored[Count(c, h)]
      BY <1>6, <3>5
    <3>7. stored[Count(c, h)] = <<Spot(c)[h] % ADDR, c.answers[h] % BYTE>>
      BY <3>2 DEF HasStored
    <3> QED
      BY <3>6, <3>7
  <2> QED
    BY <2>1, <2>2
<1> QED
  BY <1>7, <1>8 DEF HasStored

\* p follows the spots.
LEMMA SpotFollows ==
    ASSUME NEW c \in Commands \cup Followers, c.kind = "S", NEW i \in 1..Len(c.answers), i # Len(c.answers),
           p = Spot(c)[i] % ADDR
    PROVE  Spot(c)[i + 1] % ADDR = IF c.answers[i] = Back THEN (p - 1) % ADDR ELSE (p + 1) % ADDR
<1> DEFINE s == Spot(c)[i]
<1>1. s \in Int /\ ADDR \in Nat \ {0}
  BY SpotIs, Address
<1>2. Spot(c)[i + 1] = s + (IF c.answers[i] = Back THEN -1 ELSE 1)
  <2>1. i \in 1..(Len(c.answers) - 1)
    BY SetIs
  <2> QED
    BY <2>1, SpotIs
<1> HIDE DEF s, ADDR
<1>3. \A y \in Int : ((s % ADDR) + y) % ADDR = (s + y) % ADDR
  BY <1>1, SumOfRemainders
<1>4. ((s % ADDR) + (-1)) % ADDR = (s + (-1)) % ADDR /\ ((s % ADDR) + 1) % ADDR = (s + 1) % ADDR
  <2>1. -1 \in Int /\ 1 \in Int
    OBVIOUS
  <2> QED
    BY <1>3, <2>1, Zenon
<1>5. s % ADDR \in Int /\ (s % ADDR) + (-1) = (s % ADDR) - 1
  BY <1>1
<1>6. p = s % ADDR
  BY DEF s
<1> QED
  BY <1>2, <1>4, <1>5, <1>6

LEMMA Replied ==
    ASSUME NEW c \in Commands \cup Followers, c = cmd, c.kind = "S", NEW i \in 1..Len(c.answers),
           pc = "reply", p = Spot(c)[i] % ADDR, HasStored(c, i - 1), Complete(Answer(c, i)), Next, ~Begin, ~Press
    PROVE  UNCHANGED <<rx, script, cmd>> /\ Setting(c, Asked(c)[i])'
<1> DEFINE x == c.answers[i]
           N == Len(c.answers)
<1>1. UNCHANGED <<script, cmd>> /\ Text' = TextOf[c]
  BY UserWaits DEF userVars, Text
<1>2. /\ x = Back => line[1] = "^"
      /\ x = Leave => line[1] = "."
      /\ x = None => line[1] = NUL
      /\ x \notin {Back, Leave, None} => line[1] \notin {"^", ".", NUL} /\ getdata(1) = x /\ line[After(1)] = NUL
  BY AnswerRead
<1>3. /\ x \in (0..(ADDR - 1)) \cup {None, Back, Leave} /\ (x = Leave => i = N)
      /\ N \in Nat /\ i \in 0..N /\ None # Back
  BY AnswerIs, SetIs DEF None, Back
<1>4. AnswerMoves \/ AnswerStores \/ AnswerEnds
  BY Steps
<1>5. NUL \notin {"^", "."}
  <2>1. "^" \in Marks /\ "." \in Marks
    BY DEF Marks
  <2> QED
    BY <2>1, CharsAre
<1>6. i # N => Spot(c)[i + 1] % ADDR = IF x = Back THEN (p - 1) % ADDR ELSE (p + 1) % ADDR
  BY SpotFollows
<1> HIDE DEF x, N
<1>7. CASE x = Back \/ x = None
  <2>1. AnswerMoves
    BY <1>2, <1>4, <1>5, <1>7 DEF AnswerStores, AnswerEnds
  <2>2. /\ rx' = rx /\ stored' = stored /\ pc' = "getline" /\ inner' /\ ct' = 0
        /\ p' = IF line[1] = "^" THEN (p - 1) % ADDR ELSE (p + 1) % ADDR
    BY <2>1 DEF AnswerMoves, AskAt, seenVars
  <2>3. HasStored(c, i)'
    BY <1>7, <2>2, NotStored DEF x
  <2>4. line[1] = "^" <=> x = Back
    BY <1>2, <1>3, <1>5, <1>7
  <2>5. i # N => p' = Spot(c)[i + 1] % ADDR
    BY <1>6, <2>2, <2>4
  <2>6. Setting(c, Asked(c)[i])'
    BY <1>1, <1>3, <2>2, <2>3, <2>5, NextAnswer DEF N
  <2> QED
    BY <1>1, <2>2, <2>6
<1>8. CASE x = Leave
  <2>1. AnswerEnds
    BY <1>2, <1>4, <1>5, <1>8 DEF AnswerMoves, AnswerStores
  <2>2. rx' = rx /\ stored' = stored /\ pc' = "getline" /\ ~inner' /\ ct' = 0
    BY <2>1 DEF AnswerEnds, Prompt, Return, seenVars
  <2>3. HasStored(c, i)'
    BY <1>8, <2>2, NotStored DEF x
  <2>4. Over(Asked(c)[i])' /\ i = Len(c.answers)
    BY <1>1, <1>3, <1>8, <2>2, AskedIs DEF Over, N
  <2>5. Setting(c, Asked(c)[i])'
    BY <2>3, <2>4 DEF Setting
  <2> QED
    BY <1>1, <2>2, <2>5
<1>9. CASE x \notin {Back, Leave, None}
  <2>1. AnswerStores
    BY <1>2, <1>4, <1>9 DEF AnswerMoves, AnswerEnds
  <2>2. /\ rx' = rx /\ stored' = Append(stored, <<p, x % BYTE>>) /\ pc' = "getline" /\ inner' /\ ct' = 0
        /\ p' = (p + 1) % ADDR
    BY <1>2, <1>9, <2>1 DEF AnswerStores, AskAt
  <2>3. HasStored(c, i)'
    <3>1. x \in Nat
      BY <1>3, <1>9
    <3> QED
      BY <2>2, <3>1, OneStored DEF x
  <2>4. i # N => p' = Spot(c)[i + 1] % ADDR
    BY <1>6, <1>9, <2>2
  <2>5. Setting(c, Asked(c)[i])'
    BY <1>1, <1>3, <2>2, <2>3, <2>4, NextAnswer DEF N
  <2> QED
    BY <1>1, <2>2, <2>5
<1> QED
  BY <1>3, <1>7, <1>8, <1>9

LEMMA SetGoesOn ==
    ASSUME IInv, NEW c \in Commands \cup Followers, c = cmd, c.kind = "S", NEW k, Left(k), Setting(c, k),
           Next, ~Begin, ~Press
    PROVE  pc' = "overrun" \/ \E j \in Nat : Left(j)' /\ Setting(c, j)'
<1>1. UNCHANGED userVars /\ Text' = Text /\ Text = TextOf[c] /\ k \in Nat /\ k + 1 \in Nat
  BY UserWaits DEF userVars, Text, Left
<1>2. Len(c.answers) \in Nat /\ 0 \in 0..Len(c.answers)
  BY SetIs
<1>3. CASE ~inner /\ stored = <<>> /\ Amid(0, SetLine(c), k)
  <2> DEFINE u == SetLine(c)
  <2>1. Editing
    BY <1>3, Steps DEF Amid
  <2>2. Here(0, u) /\ Asked(c)[0] = Len(u) + 1 /\ Len(u) \in Nat
    BY AskedIs
  <2> HIDE DEF u
  <2>3. /\ Left(k + 1)' /\ UNCHANGED <<inner, stored>>
        /\ \/ Amid(0, u, k + 1)'
           \/ k = 0 + Len(u) /\ Complete(u)' /\ pc' = IF inner THEN "reply" ELSE "dispatch"
           \/ pc' = "overrun"
    BY <1>1, <1>3, <2>1, <2>2, LineTyped DEF seenVars, u
  <2>4. k = 0 + Len(u) => k + 1 = Asked(c)[0]
    BY <2>2
  <2>5. CASE Amid(0, u, k + 1)'
    BY <1>1, <1>3, <2>3, <2>5 DEF Setting, u
  <2>6. CASE k = 0 + Len(u) /\ Complete(u)' /\ pc' = IF inner THEN "reply" ELSE "dispatch"
    BY <1>1, <1>3, <2>3, <2>4, <2>6 DEF Setting, u
  <2> QED
    BY <2>3, <2>5, <2>6
<1>4. CASE ~inner /\ stored = <<>> /\ pc = "dispatch" /\ Complete(SetLine(c)) /\ k = Asked(c)[0]
  <2>1. UNCHANGED <<rx, script, cmd>> /\ Setting(c, k)'
    BY <1>4, SetBegins
  <2>2. Left(k)'
    BY <2>1, LeftAlone
  <2> QED
    BY <1>1, <2>1, <2>2
<1>5. ASSUME NEW i \in 1..Len(c.answers), Asking(c, i, k)
      PROVE  pc' = "overrun" \/ \E j \in Nat : Left(j)' /\ Setting(c, j)'
  <2> DEFINE u == Answer(c, i)
             b == Asked(c)[i - 1]
  <2>1. inner /\ p = Spot(c)[i] % ADDR /\ HasStored(c, i - 1)
    BY <1>5 DEF Asking
  <2>2. CASE pc = "reply" /\ Complete(u) /\ k = Asked(c)[i]
    <3>1. UNCHANGED <<rx, script, cmd>> /\ Setting(c, k)'
      BY <2>1, <2>2, Replied
    <3>2. Left(k)'
      BY <3>1, LeftAlone
    <3> QED
      BY <1>1, <3>1, <3>2
  <2>3. CASE Amid(b, u, k)
    <3>1. Editing
      BY <2>3, Steps DEF Amid
    <3>2. Here(b, u) /\ Asked(c)[i] = b + Len(u) + 1
      BY AskedIs
    <3> HIDE DEF u, b
    <3>3. /\ Left(k + 1)' /\ UNCHANGED <<inner, stored, p>>
          /\ \/ Amid(b, u, k + 1)'
             \/ k = b + Len(u) /\ Complete(u)' /\ pc' = IF inner THEN "reply" ELSE "dispatch"
             \/ pc' = "overrun"
      BY <1>1, <2>3, <3>1, <3>2, LineTyped DEF seenVars, dumpVars
    <3>4. k = b + Len(u) => k + 1 = Asked(c)[i]
      BY <3>2
    <3>5. HasStored(c, i - 1)'
      BY <2>1, <3>3 DEF HasStored, Array
    <3>6. CASE Amid(b, u, k + 1)'
      <4>1. Asking(c, i, k + 1)'
        BY <2>1, <3>3, <3>5, <3>6 DEF Asking, u, b
      <4> QED
        BY <1>1, <3>3, <4>1 DEF Setting
    <3>7. CASE k = b + Len(u) /\ Complete(u)' /\ pc' = IF inner THEN "reply" ELSE "dispatch"
      <4>1. Asking(c, i, k + 1)'
        BY <2>1, <3>3, <3>4, <3>5, <3>7 DEF Asking, u, b
      <4> QED
        BY <1>1, <3>3, <4>1 DEF Setting
    <3> QED
      BY <3>3, <3>6, <3>7
  <2> QED
    BY <1>5, <2>2, <2>3 DEF Asking
<1>6. CASE (pc = "getline" /\ inner /\ k = Len(Text)) \/ (Over(k) /\ HasStored(c, Len(c.answers)))
  <2>1. ~Editing /\ pc = "getline"
    BY <1>6, NoMoreKeys DEF Over
  <2> QED
    BY <2>1, Steps
<1> QED
  BY <1>3, <1>4, <1>5, <1>6 DEF Setting

\* What the answers have stored in the end.
LEMMA SetExactly ==
    ASSUME NEW c \in Commands \cup Followers, c = cmd, c.kind = "S", NEW k, Left(k), Setting(c, k), Done
    PROVE  /\ Len(stored) = Cardinality(Answered(c))
           /\ \A h \in Answered(c) : stored[Count(c, h)] = <<Spot(c)[h] % ADDR, c.answers[h] % BYTE>>
<1>1. k = Len(Text) /\ k > 0 /\ pc = "getline" /\ ct = 0 /\ ~inner
  BY AskedIs DEF Left, Done, Text
<1>2. ~Amid(0, SetLine(c), k)
  BY <1>1, AskedIs DEF Amid, Left
<1>3. HasStored(c, Len(c.answers))
  BY <1>1, <1>2 DEF Setting, Asking
<1>4. /\ Answered(c) \subseteq 1..Len(c.answers) /\ Len(c.answers) \in Nat
      /\ Count(c, Len(c.answers)) = Cardinality(Answered(c)) /\ Count(c, Len(c.answers)) \in Nat
  <2>1. Len(c.answers) \in 0..Len(c.answers)
    BY SetIs
  <2> QED
    BY <2>1, CountIs, SetIs
<1>5. Len(stored) = Cardinality(Answered(c))
  BY <1>3, <1>4, Longer DEF HasStored
<1>6. \A h \in Answered(c) : h <= Len(c.answers)
  BY <1>4
<1> QED
  BY <1>3, <1>5, <1>6 DEF HasStored

-----------------------------------------------------------------------------
\* A dump command.

DumpLine(c) == <<"D">> \o Number(c.from) \o (IF c.to = None THEN <<>> ELSE <<",">> \o Number(c.to))

\* Where the numbers of a dump are in its line.
DumpPlaces(c) ==
    LET a == Len(Number(c.from))
        b == Len(Number(c.to))
        u == DumpLine(c)
    IN  /\ a \in Nat /\ b \in Nat /\ u \in Seq(Plain) /\ u[1] = "D"
        /\ Len(u) = 1 + a + (IF c.to = None THEN 0 ELSE 1 + b)
        /\ \A j \in 1..a : u[1 + j] = Number(c.from)[j]
        /\ c.to # None => u[a + 2] = "," /\ \A j \in 1..b : u[a + 2 + j] = Number(c.to)[j]

LEMMA DumpLineIs ==
    ASSUME NEW c \in Commands \cup Followers, c.kind = "D"
    PROVE  /\ c.from \in (0..(ADDR - 1)) \cup {None} /\ c.to \in (0..(ADDR - 1)) \cup {None}
           /\ c.slip \in Seq(Char) /\ Rubbed(c.slip) /\ TextOf[c] = c.slip \o Line(DumpLine(c)) /\ DumpPlaces(c)
<1> DEFINE A == Number(c.from)
           B == Number(c.to)
           f == <<"D">>
           z == <<",">>
           v == IF c.to = None THEN <<>> ELSE z \o B
           s == f \o A
           u == s \o v
           a == Len(A)
           b == Len(B)
<1>1. /\ c.from \in (0..(ADDR - 1)) \cup {None} /\ c.to \in (0..(ADDR - 1)) \cup {None}
      /\ c.slip \in Seq(STRING) /\ Rubbed(c.slip)
  BY AsTyped, Zenon
<1>2. c.slip \in Seq(Char)
  <2>1. STRING \subseteq Char
    BY DEF Char
  <2> HIDE DEF Char
  <2> QED
    BY <1>1, <2>1, SeqMonotonic, Zenon
<1>3. TextOf[c] = c.slip \o Line(DumpLine(c))
  BY Zenon DEF TextOf, DumpLine
<1>4. A \in Seq(Plain) /\ B \in Seq(Plain)
  BY <1>1, PlainNumber
<1>5. f \in Seq(Plain) /\ Len(f) = 1 /\ f[1] = "D" /\ z \in Seq(Plain) /\ Len(z) = 1 /\ z[1] = ","
  <2>1. "D" \in Plain /\ "," \in Plain
    BY CharsAre DEF Letters, Marks
  <2> QED
    BY <2>1, OneKey
<1>6. DumpLine(c) = u
  BY DEF DumpLine
<1> HIDE DEF A, B, f, z
<1>7. Joined(f, A, s)
  BY <1>4, <1>5, Joins
<1>8. s \in Seq(Plain) /\ a \in Nat
  BY <1>7 DEF Joined
<1>9. Joined(z, B, z \o B)
  BY <1>4, <1>5, Joins
<1>10. b \in Nat /\ Len(z \o B) = 1 + b
  BY <1>5, <1>9, Zenon DEF Joined
<1> HIDE DEF s, Plain
<1>11. v \in Seq(Plain) /\ Len(v) = IF c.to = None THEN 0 ELSE 1 + b
  <2>1. CASE c.to = None
    <3>1. v = <<>>
      BY <2>1
    <3> QED
      BY <2>1, <3>1
  <2>2. CASE c.to # None
    <3>1. v = z \o B
      BY <2>2
    <3> QED
      BY <1>9, <1>10, <2>2, <3>1 DEF Joined
  <2> QED
    BY <2>1, <2>2
<1>12. c.to # None => v[1] = "," /\ \A j \in 1..b : v[1 + j] = B[j]
  <2> SUFFICES ASSUME c.to # None
               PROVE  v[1] = "," /\ \A j \in 1..b : v[1 + j] = B[j]
    OBVIOUS
  <2>1. v = z \o B /\ 1 \in 1..1
    OBVIOUS
  <2>2. (\A j \in 1..Len(z) : v[j] = z[j]) /\ (\A j \in 1..Len(B) : v[Len(z) + j] = B[j])
    BY <1>9, <2>1, Zenon DEF Joined
  <2> HIDE DEF v
  <2> QED
    BY <1>5, <2>1, <2>2
<1> HIDE DEF v
<1>13. Joined(s, v, u)
  <2>1. s \in Seq(Plain) /\ v \in Seq(Plain)
    BY <1>8, <1>11
  <2>2. Joined(s, v, s \o v)
    BY <2>1, Joins
  <2> QED
    BY <2>2
<1> HIDE DEF u
<1>14. Len(s) = 1 + a /\ (\A j \in 1..1 : s[j] = f[j]) /\ (\A j \in 1..a : s[1 + j] = A[j])
  BY <1>5, <1>7, Zenon DEF Joined
<1>15. /\ u \in Seq(Plain) /\ Len(u) = (1 + a) + Len(v) /\ (\A j \in 1..(1 + a) : u[j] = s[j])
       /\ (\A j \in 1..Len(v) : u[(1 + a) + j] = v[j])
  BY <1>13, <1>14, Zenon DEF Joined
<1> HIDE DEF a, b
<1>16. u[1] = "D"
  <2>1. 1 \in 1..1 /\ 1 \in 1..(1 + a)
    BY <1>8
  <2> QED
    BY <1>5, <1>14, <1>15, <2>1
<1>17. \A j \in 1..a : u[1 + j] = A[j]
  <2>1. \A j \in 1..a : 1 + j \in 1..(1 + a)
    BY <1>8
  <2> QED
    BY <1>14, <1>15, <2>1
<1>18. ASSUME c.to # None
       PROVE  u[a + 2] = "," /\ \A j \in 1..b : u[a + 2 + j] = B[j]
  <2>1. Len(v) = 1 + b /\ v[1] = "," /\ \A j \in 1..b : v[1 + j] = B[j]
    BY <1>11, <1>12, <1>18
  <2>2. 1 \in 1..(1 + b) /\ (1 + a) + 1 = a + 2
    BY <1>8, <1>10
  <2>3. \A j \in 1..b : 1 + j \in 1..(1 + b) /\ (1 + a) + (1 + j) = a + 2 + j
    BY <1>8, <1>10
  <2>4. u[a + 2] = ","
    BY <1>15, <2>1, <2>2
  <2>5. \A j \in 1..b : u[a + 2 + j] = B[j]
    <3>1. \A j \in 1..(1 + b) : u[(1 + a) + j] = v[j]
      BY <1>15, <2>1
    <3> QED
      BY <2>1, <2>3, <3>1
  <2> QED
    BY <2>4, <2>5
<1>19. Len(u) = 1 + a + (IF c.to = None THEN 0 ELSE 1 + b)
  BY <1>11, <1>15, Zenon
<1>20. DumpPlaces(c)
  BY <1>6, <1>8, <1>10, <1>15, <1>16, <1>17, <1>18, <1>19, Zenon DEF DumpPlaces, a, b, A, B
<1> QED
  BY <1>1, <1>2, <1>3, <1>20

\* What xdump reads in it.
DumpParts(c) ==
    LET i == After(2)
        h == IF line[i] = "," THEN i + 1 ELSE i
    IN  /\ line[1] = "D" /\ line[i] \in {",", NUL} /\ line[After(h)] = NUL
        /\ ogetdata(2, datap) = IF c.from = None THEN datap ELSE c.from
        /\ \A d \in Int : ogetdata(h, d) = IF c.to = None THEN d ELSE c.to

LEMMA DumpRead ==
    ASSUME NEW c \in Commands \cup Followers, c.kind = "D", Complete(DumpLine(c))
    PROVE  DumpParts(c)
<1> DEFINE A == Number(c.from)
           B == Number(c.to)
           a == Len(A)
           b == Len(B)
           u == DumpLine(c)
<1>1. c.from \in (0..(ADDR - 1)) \cup {None} /\ c.to \in (0..(ADDR - 1)) \cup {None} /\ DumpPlaces(c)
  BY DumpLineIs
<1>2. /\ a \in Nat /\ b \in Nat /\ u[1] = "D"
      /\ Len(u) = 1 + a + (IF c.to = None THEN 0 ELSE 1 + b)
      /\ \A j \in 1..a : u[1 + j] = A[j]
      /\ c.to # None => u[a + 2] = "," /\ \A j \in 1..b : u[a + 2 + j] = B[j]
  BY <1>1, Zenon DEF DumpPlaces
<1>3. a \in Nat /\ b \in Nat /\ Len(u) = 1 + a + (IF c.to = None THEN 0 ELSE 1 + b)
  BY <1>2
<1>4. /\ \A j \in 1..a : ToUpper(A[j]) = A[j] /\ A[j] \notin {",", NUL}
      /\ \A j \in 1..b : ToUpper(B[j]) = B[j] /\ B[j] \notin {",", NUL}
  BY <1>1, NumberIs, CharsAre
<1>5. ToUpper(",") = "," /\ inhex(",") = None /\ inhex(NUL) = None /\ ToUpper("D") = "D" /\ NUL # ","
  <2>1. "," \in Marks /\ "D" \in Letters
    BY DEF Marks, Letters
  <2> QED
    BY <2>1, CharsAre
<1>6. /\ \A j \in 1..Len(u) : line[j] = ToUpper(u[j])
      /\ Len(u) < LINE /\ line[Len(u) + 1] = NUL
  BY DEF Complete
<1>7. LINE \in Nat /\ Room \in Nat /\ LINE <= Room /\ Len(u) < LINE
  BY <1>6, Rooms
<1>20. (c.from # None => a # 0) /\ (c.to # None => b # 0) /\ (c.from = None => a = 0)
  <2>1. c.from = None => A = <<>>
    BY DEF Number
  <2> QED
    BY <1>1, <2>1, NumberIs
<1> HIDE DEF u, a, b, A, B
<1>8. line[1] = "D"
  <2>1. 1 \in 1..Len(u)
    BY <1>3
  <2>2. line[1] = ToUpper(u[1]) /\ u[1] = "D" /\ ToUpper("D") = "D"
    BY <1>2, <1>5, <1>6, <2>1, Zenon
  <2> QED
    BY <2>2
<1>9. \A j \in 1..a : line[2 + j - 1] = A[j]
  <2>1. \A j \in 1..a : 1 + j \in 1..Len(u) /\ 2 + j - 1 = 1 + j
    BY <1>3
  <2>2. \A j \in 1..a : u[1 + j] = A[j]
    BY <1>2, Zenon
  <2>3. \A j \in 1..a : line[1 + j] = ToUpper(u[1 + j])
    BY <1>6, <2>1, Zenon
  <2>4. \A j \in 1..a : ToUpper(A[j]) = A[j]
    BY <1>4, Zenon
  <2> QED
    BY <2>1, <2>2, <2>3, <2>4, Zenon
<1>10. line[2 + a] = IF c.to = None THEN NUL ELSE ","
  <2>1. CASE c.to = None
    <3>1. 2 + a = Len(u) + 1
      BY <1>3, <2>1
    <3> QED
      BY <1>6, <2>1, <3>1
  <2>2. CASE c.to # None
    <3>1. a + 2 \in 1..Len(u) /\ 2 + a = a + 2
      BY <1>3, <2>2
    <3> QED
      BY <1>2, <1>5, <1>6, <2>2, <3>1
  <2> QED
    BY <2>1, <2>2
<1>11. 2 + a <= Room /\ 2 \in Nat \ {0} /\ a + 3 \in Nat \ {0} /\ (2 + a) + 1 = a + 3
  BY <1>3, <1>7
<1>12. StandsAt(c.from, 2)
  <2>1. inhex(line[2 + a]) = None
    BY <1>5, <1>10
  <2> QED
    BY <1>9, <1>11, <2>1, Zenon DEF StandsAt, a, A
<1>13. After(2) = 2 + a /\ (c.from # None => getdata(2) = c.from)
  BY <1>1, <1>7, <1>11, <1>12, NumberRead DEF a, A
<1>14. ogetdata(2, datap) = IF c.from = None THEN datap ELSE c.from
  <2>1. CASE c.from = None
    <3>2. 2 + a = 2
      BY <1>20, <2>1
    <3>1. line[2] \in {",", NUL}
      BY <1>10, <3>2
    <3> QED
      BY <2>1, <3>1 DEF ogetdata
  <2>2. CASE c.from # None
    <3>1. 1 \in 1..a /\ 2 + 1 - 1 = 2
      BY <1>3, <1>20, <2>2
    <3>2. line[2] \notin {",", NUL}
      BY <1>4, <1>9, <3>1
    <3> QED
      BY <1>13, <2>2, <3>2 DEF ogetdata
  <2> QED
    BY <2>1, <2>2
<1>15. CASE c.to = None
  <2>1. line[After(2)] = NUL /\ line[After(2)] # ","
    BY <1>5, <1>10, <1>13, <1>15
  <2>2. 2 + a \in Nat \ {0} /\ 2 + a + 0 = 2 + a
    BY <1>3
  <2>3. Number(c.to) = <<>> /\ Len(<<>>) = 0
    BY <1>15 DEF Number
  <2>4. StandsAt(c.to, 2 + a)
    <3>1. \A j \in 1..0 : FALSE
      OBVIOUS
    <3> QED
      BY <1>5, <1>10, <1>11, <1>15, <2>2, <2>3, <3>1 DEF StandsAt
  <2>5. After(2 + a) = 2 + a
    BY <1>1, <1>7, <2>2, <2>3, <2>4, NumberRead
  <2>6. \A d \in Int : ogetdata(2 + a, d) = d
    BY <1>10, <1>15 DEF ogetdata
  <2>7. After(2) = 2 + a /\ line[After(2)] \in {",", NUL}
    BY <1>13, <2>1, Zenon
  <2> QED
    BY <1>8, <1>14, <1>15, <2>1, <2>5, <2>6, <2>7, Zenon DEF DumpParts
<1>16. CASE c.to # None
  <2>1. line[After(2)] = "," /\ After(2) + 1 = a + 3
    BY <1>10, <1>11, <1>13, <1>16
  <2>2. \A j \in 1..b : line[a + 3 + j - 1] = B[j]
    <3>1. \A j \in 1..b : a + 2 + j \in 1..Len(u) /\ a + 3 + j - 1 = a + 2 + j
      BY <1>3, <1>16
    <3>2. \A j \in 1..b : u[a + 2 + j] = B[j]
      BY <1>2, <1>16, Zenon
    <3>3. \A j \in 1..b : line[a + 2 + j] = ToUpper(u[a + 2 + j])
      BY <1>6, <3>1, Zenon
    <3>4. \A j \in 1..b : ToUpper(B[j]) = B[j]
      BY <1>4, Zenon
    <3> QED
      BY <3>1, <3>2, <3>3, <3>4, Zenon
  <2>3. a + 3 + b <= Room /\ a + 3 + b = Len(u) + 1
    BY <1>3, <1>7, <1>16
  <2>4. StandsAt(c.to, a + 3)
    BY <1>5, <1>6, <2>2, <2>3, Zenon DEF StandsAt, b, B
  <2>5. After(a + 3) = Len(u) + 1 /\ getdata(a + 3) = c.to
    BY <1>1, <1>7, <1>11, <1>16, <2>3, <2>4, NumberRead DEF b, B
  <2>6. line[a + 3] \notin {",", NUL}
    <3>1. 1 \in 1..b /\ a + 3 + 1 - 1 = a + 3
      BY <1>3, <1>16, <1>20
    <3> QED
      BY <1>4, <2>2, <3>1
  <2>7. \A d \in Int : ogetdata(a + 3, d) = c.to
    BY <2>5, <2>6 DEF ogetdata
  <2> QED
    BY <1>6, <1>8, <1>14, <1>16, <2>1, <2>5, <2>7 DEF DumpParts
<1> QED
  BY <1>15, <1>16

\* From which address a dump is to go, when the last one ended before d, and to
\* which one.
DumpFrom(c, d) == InRam(IF c.from = None THEN d ELSE c.from)
DumpTo(c, d)   == IF c.to # None THEN InRam(c.to)
                  ELSE IF DumpFrom(c, d) + ROW * ROWS > ADDR THEN 0 ELSE DumpFrom(c, d) + ROW * ROWS - 1

\* How many rows that are, and what the first j of them show.
Rows(F, T)  == IF T < F THEN 0 ELSE (T - F) \div ROW + 1
Shown(F, j) == {(F + i) % ADDR : i \in 0..(ROW * j - 1)}

LEMMA RowsAre ==
    ASSUME NEW F \in TOP..(ADDR - 1), NEW T \in 0..(ADDR - 1)
    PROVE  /\ Rows(F, T) \in Nat /\ (Rows(F, T) = 0 <=> T < F)
           /\ T >= F => \A j \in 0..Rows(F, T) :
                          (F <= (F + ROW * j) % ADDR /\ (F + ROW * j) % ADDR <= T) <=> j # Rows(F, T)
<1>1. ROW \in Nat \ {0} /\ ROWS \in Nat \ {0} /\ ROW * ROWS < TOP /\ ADDR \in Nat \ {0} /\ TOP \in Nat \ {0}
  BY MonitorSizes, Address
<1>2. ROW < TOP
  <2>1. ROWS - 1 \in Nat
    BY <1>1
  <2>2. ROW * (ROWS - 1) >= 0
    BY <1>1, <2>1
  <2>3. ROW * ROWS = ROW * (ROWS - 1) + ROW
    BY <1>1
  <2>4. ROW * (ROWS - 1) \in Int /\ ROW * ROWS \in Int
    BY <1>1
  <2> QED
    BY <1>1, <2>2, <2>3, <2>4
<1> HIDE DEF ADDR, TOP
<1>3. CASE T < F
  BY <1>1, <1>3 DEF Rows
<1>4. CASE T >= F
  <2> DEFINE n == (T - F) \div ROW
  <2>1. PICK q \in Int, r \in 0..(ROW - 1) : T - F = q * ROW + r /\ n = q
    <3>1. T - F \in Int
      BY <1>1
    <3> QED
      BY <1>1, <3>1, Division
  <2>2. Rows(F, T) = q + 1
    BY <1>1, <1>4, <2>1 DEF Rows
  <2>3. q \in Nat
    <3> SUFFICES ASSUME q <= -1
                 PROVE  FALSE
      BY <2>1
    <3>1. (-1 - q) \in Nat
      OBVIOUS
    <3>2. (-1 - q) * ROW >= 0
      BY <1>1, <3>1
    <3>3. (-1 - q) * ROW = -ROW - q * ROW /\ q * ROW \in Int
      BY <1>1
    <3>4. q * ROW <= -ROW
      BY <1>1, <3>2, <3>3
    <3> QED
      BY <1>1, <1>4, <2>1, <3>3, <3>4
  <2>4. ASSUME NEW j \in 0..(q + 1)
        PROVE  (F <= (F + ROW * j) % ADDR /\ (F + ROW * j) % ADDR <= T) <=> j # q + 1
    <3> DEFINE x == q * ROW
               y == ROW * j
    <3>1. x \in Int /\ y \in Int /\ y >= 0 /\ T - F = x + r
      BY <1>1, <2>1, <2>3
    <3>2. CASE j # q + 1
      <4>1. q - j \in Nat /\ (q - j) * ROW >= 0
        <5>1. q - j \in Nat
          BY <2>3, <3>2
        <5> QED
          BY <1>1, <5>1
      <4>2. (q - j) * ROW = x - y
        BY <1>1, <2>1, <2>3
      <4> HIDE DEF x, y
      <4>3. F + y \in 0..(ADDR - 1) /\ F <= F + y /\ F + y <= T
        BY <1>1, <2>1, <3>1, <4>1, <4>2
      <4>4. (F + y) % ADDR = F + y
        BY <1>1, <4>3, Small
      <4> QED
        BY <3>2, <4>3, <4>4 DEF y
    <3>3. CASE j = q + 1
      <4>1. y = x + ROW
        BY <1>1, <2>1, <3>3
      <4> HIDE DEF x, y
      <4>2. F + y > T /\ F + y <= T + ROW
        BY <1>1, <2>1, <3>1, <4>1
      <4>3. CASE F + y < ADDR
        <5>1. F + y \in 0..(ADDR - 1)
          BY <1>1, <3>1, <4>3
        <5>2. (F + y) % ADDR = F + y
          BY <1>1, <5>1, Small
        <5> QED
          BY <1>1, <3>1, <3>3, <4>2, <5>2 DEF y
      <4>4. CASE F + y >= ADDR
        <5>1. (F + y) - ADDR \in 0..(ADDR - 1) /\ (F + y) - ADDR < F
          BY <1>1, <1>2, <3>1, <4>2, <4>4
        <5>2. F + y = 1 * ADDR + ((F + y) - ADDR)
          BY <1>1, <3>1
        <5>3. \A z \in 0..(ADDR - 1) : (1 * ADDR + z) % ADDR = z
          BY <1>1, Remainder
        <5>4. (F + y) % ADDR = (F + y) - ADDR
          BY <5>1, <5>2, <5>3
        <5> QED
          BY <1>1, <3>1, <3>3, <5>1, <5>4 DEF y
      <4> QED
        BY <1>1, <3>1, <4>3, <4>4
    <3> QED
      BY <3>2, <3>3
  <2> QED
    BY <1>1, <1>4, <2>2, <2>3, <2>4
<1> QED
  BY <1>1, <1>3, <1>4

LEMMA ShownIs ==
    ASSUME NEW F \in Int
    PROVE  /\ Shown(F, 0) = {}
           /\ \A j \in Nat : Shown(F, j + 1) = Shown(F, j) \cup {(((F + ROW * j) % ADDR) + i) % ADDR : i \in 0..(ROW - 1)}
           /\ \A j \in Nat, n \in Nat : j <= n => Shown(F, j) \subseteq Shown(F, n)
<1>1. ROW \in Nat \ {0} /\ ADDR \in Nat \ {0}
  BY MonitorSizes, Address
<1> HIDE DEF ADDR
<1>2. Shown(F, 0) = {}
  <2>1. ROW * 0 - 1 = -1
    BY <1>1
  <2>2. 0..(ROW * 0 - 1) = {}
    BY <2>1
  <2> QED
    BY <2>2 DEF Shown
<1>3. ASSUME NEW j \in Nat
      PROVE  Shown(F, j + 1) = Shown(F, j) \cup {(((F + ROW * j) % ADDR) + i) % ADDR : i \in 0..(ROW - 1)}
  <2> DEFINE m == ROW * j
             M == ROW * (j + 1)
             R == {(((F + m) % ADDR) + i) % ADDR : i \in 0..(ROW - 1)}
  <2>1. m \in Nat /\ M = m + ROW
    <3>1. m \in Int /\ m >= 0 /\ M = m + ROW
      BY <1>1
    <3> QED
      BY <3>1
  <2>2. Shown(F, j + 1) = {(F + i) % ADDR : i \in 0..(M - 1)} /\ Shown(F, j) = {(F + i) % ADDR : i \in 0..(m - 1)}
    BY DEF Shown
  <2> HIDE DEF m, M
  <2>3. \A i \in Int : (((F + m) % ADDR) + i) % ADDR = (F + (m + i)) % ADDR
    <3> SUFFICES ASSUME NEW i \in Int
                 PROVE  (((F + m) % ADDR) + i) % ADDR = (F + (m + i)) % ADDR
      OBVIOUS
    <3>1. F + m \in Int /\ (F + m) + i = F + (m + i)
      BY <2>1
    <3>2. (((F + m) % ADDR) + i) % ADDR = ((F + m) + i) % ADDR
      BY <1>1, <3>1, SumOfRemainders
    <3> QED
      BY <3>1, <3>2
  <2>4. ASSUME NEW e, e \in Shown(F, j + 1)
        PROVE  e \in Shown(F, j) \cup R
    <3>1. PICK i \in 0..(M - 1) : e = (F + i) % ADDR
      BY <2>2, <2>4
    <3>2. CASE i < m
      <4>1. i \in 0..(m - 1)
        BY <2>1, <3>2
      <4> QED
        BY <2>2, <3>1, <4>1
    <3>3. CASE i >= m
      <4>1. i - m \in 0..(ROW - 1) /\ m + (i - m) = i /\ i - m \in Int
        BY <1>1, <2>1, <3>3
      <4>2. (((F + m) % ADDR) + (i - m)) % ADDR = e
        BY <2>3, <3>1, <4>1
      <4> QED
        BY <4>1, <4>2
    <3> QED
      BY <2>1, <3>2, <3>3
  <2>5. ASSUME NEW e, e \in Shown(F, j) \cup R
        PROVE  e \in Shown(F, j + 1)
    <3>1. CASE e \in Shown(F, j)
      <4>1. PICK i \in 0..(m - 1) : e = (F + i) % ADDR
        BY <2>2, <3>1
      <4>2. i \in 0..(M - 1)
        BY <1>1, <2>1
      <4> QED
        BY <2>2, <4>1, <4>2
    <3>2. CASE e \in R
      <4>1. PICK i \in 0..(ROW - 1) : e = (((F + m) % ADDR) + i) % ADDR
        BY <3>2
      <4>2. m + i \in 0..(M - 1) /\ i \in Int
        BY <1>1, <2>1
      <4>3. e = (F + (m + i)) % ADDR
        BY <2>3, <4>1, <4>2
      <4> QED
        BY <2>2, <4>2, <4>3
    <3> QED
      BY <2>5, <3>1, <3>2
  <2>6. Shown(F, j + 1) = Shown(F, j) \cup R
    <3> HIDE DEF R
    <3> QED
      BY <2>4, <2>5
  <2> QED
    BY <2>6 DEF m
<1>4. ASSUME NEW j \in Nat, NEW n \in Nat, j <= n
      PROVE  Shown(F, j) \subseteq Shown(F, n)
  <2>1. ROW * j <= ROW * n /\ ROW * j \in Int /\ ROW * n \in Int
    <3>1. n - j \in Nat
      BY <1>4
    <3>2. ROW * (n - j) >= 0 /\ ROW * (n - j) = ROW * n - ROW * j /\ ROW * j \in Int /\ ROW * n \in Int
      BY <1>1, <3>1
    <3> QED
      BY <3>2
  <2>2. \A i \in 0..(ROW * j - 1) : i \in 0..(ROW * n - 1)
    <3> DEFINE x == ROW * j
               y == ROW * n
    <3>1. x <= y /\ x \in Int /\ y \in Int
      BY <2>1
    <3> HIDE DEF x, y
    <3>2. \A i \in 0..(x - 1) : i \in 0..(y - 1)
      BY <3>1
    <3> QED
      BY <3>2 DEF x, y
  <2> QED
    BY <2>2, Zenon DEF Shown
<1> QED
  BY <1>2, <1>3, <1>4

\* What xdump takes for begin and end is the same, or else shows nothing.
LEMMA DumpEnds ==
    ASSUME NEW c \in Commands \cup Followers, c.kind = "D", NEW d \in 0..(ADDR - 1)
    PROVE  LET F == DumpFrom(c, d)
               T == DumpTo(c, d)
               e == InRam(IF c.to = None THEN (F + ROW * ROWS - 1) % ADDR ELSE c.to)
           IN  F \in TOP..(ADDR - 1) /\ T \in 0..(ADDR - 1) /\ e \in Int /\ IF T < F THEN e < F ELSE e = T
<1> DEFINE F == DumpFrom(c, d)
           T == DumpTo(c, d)
           m == ROW * ROWS
           x == (F + m - 1) % ADDR
<1>1. ROW \in Nat \ {0} /\ ROWS \in Nat \ {0} /\ m < TOP /\ m \in Int /\ ADDR \in Nat \ {0} /\ TOP \in Nat \ {0}
      /\ RAM \in Nat /\ RAM >= TOP /\ RAM + TOP <= ADDR
  BY MonitorSizes, Address
<1>2. m >= 1
  <2>1. ROW * ROWS >= 1
    BY <1>1
  <2> QED
    BY <2>1
<1>3. c.from \in (0..(ADDR - 1)) \cup {None} /\ c.to \in (0..(ADDR - 1)) \cup {None}
  BY DumpLineIs
<1>4. F \in TOP..(ADDR - 1)
  <2>1. (IF c.from = None THEN d ELSE c.from) \in 0..(ADDR - 1)
    BY <1>3
  <2> QED
    BY <2>1, InRamIs DEF DumpFrom
<1>5. T = IF c.to # None THEN InRam(c.to) ELSE IF F + m > ADDR THEN 0 ELSE F + m - 1
  BY DEF DumpTo
<1> HIDE DEF F, T, m, ADDR, TOP, RAM
<1>6. CASE c.to # None
  <2>1. InRam(c.to) \in TOP..(ADDR - 1) /\ T = InRam(c.to)
    BY <1>3, <1>5, <1>6, InRamIs
  <2>3. T \in 0..(ADDR - 1) /\ InRam(c.to) \in Int
    BY <1>1, <2>1
  <2> QED
    BY <1>4, <1>6, <2>1, <2>3 DEF F, T
<1>7. CASE c.to = None /\ F + m > ADDR
  <2>1. T = 0
    BY <1>5, <1>7
  <2>2. (F + m - 1) - ADDR \in 0..(ADDR - 1) /\ (F + m - 1) - ADDR < TOP
    BY <1>1, <1>4, <1>7
  <2>3. F + m - 1 = 1 * ADDR + ((F + m - 1) - ADDR)
    BY <1>1, <1>4
  <2>4. \A z \in 0..(ADDR - 1) : (1 * ADDR + z) % ADDR = z
    BY <1>1, Remainder
  <2>5. x = (F + m - 1) - ADDR
    BY <2>2, <2>3, <2>4
  <2>6. InRam(x) = x + RAM
    BY <2>2, <2>5, InRamIs
  <2>7. T \in 0..(ADDR - 1) /\ T < F /\ InRam(x) < F /\ InRam(x) \in Int
    BY <1>1, <1>4, <1>7, <2>1, <2>2, <2>5, <2>6
  <2> QED
    BY <1>4, <1>7, <2>7 DEF F, T, m
<1>8. CASE c.to = None /\ ~(F + m > ADDR)
  <2>1. T = F + m - 1 /\ F + m - 1 \in 0..(ADDR - 1) /\ F + m - 1 >= TOP
    BY <1>1, <1>2, <1>4, <1>5, <1>8
  <2>2. x = F + m - 1
    BY <1>1, <2>1, Small
  <2>3. InRam(x) = T /\ T >= F
    <3>1. InRam(x) = x
      BY <2>1, <2>2, InRamIs
    <3> QED
      BY <1>1, <1>2, <1>4, <2>1, <2>2, <3>1
  <2> QED
    BY <1>4, <1>8, <2>1, <2>3 DEF F, T, m
<1> QED
  BY <1>6, <1>7, <1>8

\* What each key of a slip leaves of it.
RubsOut(s, n) ==
    /\ n \in [0..Len(s) -> 0..Len(s)] /\ n[0] = 0 /\ n[Len(s)] = 0
    /\ \A k \in 1..Len(s) : /\ s[k] \notin {"CR", "LF"}
                            /\ n[k] = CASE s[k] = "BS" -> IF n[k - 1] = 0 THEN 0 ELSE n[k - 1] - 1
                                        [] s[k] = "CAN" -> 0
                                        [] s[k] = "ESC" -> n[k - 1]
                                        [] OTHER -> n[k - 1] + 1

Slipping(s, k) == pc = "getline" /\ k \in 0..Len(s) /\ \E n : RubsOut(s, n) /\ ct = n[k]

\* The dump goes from F to T, and j rows of it are shown.
Spans(F, T) == from = F /\ to \in Int /\ IF T < F THEN to < F ELSE to = T
Dumped(F, T, j) == j \in 0..Rows(F, T) /\ p = (F + ROW * j) % ADDR /\ shown = Shown(F, j)

\* The last dump before it ended before d.
Dumping(c, d, k) ==
    LET F == DumpFrom(c, d)
        T == DumpTo(c, d)
    IN  \/ /\ ~inner /\ shown = {} /\ datap = d
           /\ \/ Slipping(c.slip, k)
              \/ Amid(Len(c.slip), DumpLine(c), k)
              \/ pc = "dispatch" /\ Complete(DumpLine(c)) /\ k = Len(Text)
        \/ /\ pc = "dump" /\ k = Len(Text) /\ Spans(F, T)
           /\ \E j \in Nat : Dumped(F, T, j)
        \/ Over(k) /\ shown = Shown(F, Rows(F, T)) /\ datap = (F + ROW * Rows(F, T)) % ADDR

LEMMA DumpText ==
    ASSUME NEW c \in Commands \cup Followers, c.kind = "D"
    PROVE  /\ Len(c.slip) \in Nat /\ Len(DumpLine(c)) \in Nat /\ TextOf[c] \in Seq(Char)
           /\ Len(TextOf[c]) = Len(c.slip) + Len(DumpLine(c)) + 1
           /\ cmd = c => Here(Len(c.slip), DumpLine(c)) /\ \A j \in 1..Len(c.slip) : Text[j] = c.slip[j]
<1> DEFINE s == c.slip
           u == DumpLine(c)
           L == Line(u)
           T == s \o L
<1>1. s \in Seq(Char) /\ TextOf[c] = T /\ u \in Seq(Plain)
  BY DumpLineIs DEF DumpPlaces
<1> HIDE DEF s, u, Plain
<1>2. /\ L \in Seq(Char) /\ Len(L) = Len(u) + 1 /\ Len(u) \in Nat
      /\ L[Len(u) + 1] = "CR" /\ \A j \in 1..Len(u) : L[j] = u[j]
  BY <1>1, LineKeys
<1> HIDE DEF L, Char
<1>3. /\ T \in Seq(Char) /\ Len(T) = Len(s) + Len(L) /\ Len(s) \in Nat
      /\ \A i \in 1..(Len(s) + Len(L)) : T[i] = IF i <= Len(s) THEN s[i] ELSE L[i - Len(s)]
  BY <1>1, <1>2, ConcatProperties, LenProperties
<1> DEFINE a == Len(s)
           b == Len(u)
<1>4. a \in Nat /\ b \in Nat /\ Len(L) = b + 1 /\ Len(T) = a + (b + 1)
  BY <1>2, <1>3
<1>9. \A i \in 1..(a + (b + 1)) : T[i] = IF i <= a THEN s[i] ELSE L[i - a]
  BY <1>3, <1>4
<1> HIDE DEF a, b, T
<1>5. \A j \in 1..a : T[j] = s[j]
  <2>1. \A j \in 1..a : j \in 1..(a + (b + 1)) /\ j <= a
    BY <1>4
  <2> QED
    BY <1>9, <2>1
<1>6. \A j \in 1..(b + 1) : T[a + j] = L[j]
  <2>1. \A j \in 1..(b + 1) : a + j \in 1..(a + (b + 1)) /\ ~(a + j <= a) /\ (a + j) - a = j
    BY <1>4
  <2> QED
    BY <1>9, <2>1
<1>7. (\A j \in 1..b : T[a + j] = u[j]) /\ T[a + b + 1] = "CR"
  <2>1. \A j \in 1..b : j \in 1..(b + 1)
    BY <1>4
  <2>2. b + 1 \in 1..(b + 1) /\ a + (b + 1) = a + b + 1
    BY <1>4
  <2>3. \A j \in 1..b : L[j] = u[j]
    BY <1>2 DEF b
  <2>4. L[b + 1] = "CR"
    BY <1>2 DEF b
  <2>5. T[a + (b + 1)] = "CR"
    BY <1>6, <2>2, <2>4
  <2> QED
    BY <1>6, <2>1, <2>2, <2>3, <2>5
<1>8. ASSUME cmd = c
      PROVE  Here(a, u) /\ \A j \in 1..a : Text[j] = s[j]
  <2>1. Text = T
    BY <1>1, <1>8 DEF Text
  <2> QED
    BY <1>1, <1>4, <1>5, <1>7, <2>1, Zenon DEF Here, b
<1>10. Len(T) = a + b + 1
  BY <1>4
<1> QED
  BY <1>1, <1>3, <1>4, <1>8, <1>10 DEF a, b, s, u

\* A slip is typed.
LEMMA SlipTyped ==
    ASSUME IInv, NEW s, Len(s) \in Nat, \A j \in 1..Len(s) : Text[j] = s[j], NEW n, RubsOut(s, n),
           NEW k \in 0..(Len(s) - 1), Left(k), pc = "getline", ct = n[k], Editing, UNCHANGED userVars
    PROVE  /\ Left(k + 1)' /\ UNCHANGED <<inner, datap, shown>>
           /\ pc' = "overrun" \/ (pc' = "getline" /\ ct' = n[k + 1])
<1>1. UNCHANGED <<script, cmd>>
  BY DEF userVars
<1>2. k + 1 \in 1..Len(s) /\ (k + 1) - 1 = k
  OBVIOUS
<1>3. \A c : Key(c) => c = s[k + 1] /\ Left(k + 1)'
  <2>1. Text[k + 1] = s[k + 1]
    BY <1>2
  <2> QED
    BY <1>1, <2>1, KeyTaken
<1>4. /\ s[k + 1] \notin {"CR", "LF"}
      /\ n[k + 1] = CASE s[k + 1] = "BS" -> IF ct = 0 THEN 0 ELSE ct - 1
                      [] s[k + 1] = "CAN" -> 0
                      [] s[k + 1] = "ESC" -> ct
                      [] OTHER -> ct + 1
  <2>1. /\ s[k + 1] \notin {"CR", "LF"}
        /\ n[k + 1] = CASE s[k + 1] = "BS" -> IF n[(k + 1) - 1] = 0 THEN 0 ELSE n[(k + 1) - 1] - 1
                        [] s[k + 1] = "CAN" -> 0
                        [] s[k + 1] = "ESC" -> n[(k + 1) - 1]
                        [] OTHER -> n[(k + 1) - 1] + 1
    BY <1>2, Zenon DEF RubsOut
  <2> QED
    BY <1>2, <2>1, Zenon
<1>5. UNCHANGED <<inner, datap, shown>>
  <2>1. CASE Typed
    BY <2>1 DEF Typed, editVars, keptVars, seenVars
  <2> QED
    BY <2>1 DEF Editing, Backspace, Kill, Ignored, Enter, editVars, keptVars, seenVars
<1>6. CASE Backspace
  <2>1. s[k + 1] = "BS" /\ Left(k + 1)'
    BY <1>3, <1>6 DEF Backspace
  <2>2. pc' = "getline" /\ ct' = IF ct = 0 THEN 0 ELSE ct - 1
    BY <1>6 DEF Backspace
  <2> QED
    BY <1>4, <1>5, <2>1, <2>2
<1>7. CASE Kill
  <2>1. s[k + 1] = "CAN" /\ Left(k + 1)'
    BY <1>3, <1>7 DEF Kill
  <2>2. pc' = "getline" /\ ct' = 0
    BY <1>7 DEF Kill
  <2> QED
    BY <1>4, <1>5, <2>1, <2>2
<1>8. CASE Ignored
  <2>1. s[k + 1] = "ESC" /\ Left(k + 1)'
    BY <1>3, <1>8 DEF Ignored
  <2>2. pc' = "getline" /\ ct' = ct
    BY <1>8 DEF Ignored, editVars
  <2> QED
    BY <1>4, <1>5, <2>1, <2>2
<1>9. CASE Typed
  <2>1. PICK c : c \notin Controls /\ Key(c) /\ IF ct = LINE THEN pc' = "overrun" ELSE pc' = pc /\ ct' = ct + 1
    BY <1>9 DEF Typed
  <2>2. s[k + 1] \notin {"BS", "CAN", "ESC"} /\ Left(k + 1)'
    BY <1>3, <2>1 DEF Controls
  <2> QED
    BY <1>4, <1>5, <2>1, <2>2
<1>10. ~Enter
  BY <1>3, <1>4 DEF Enter
<1> QED
  BY <1>6, <1>7, <1>8, <1>9, <1>10 DEF Editing

LEMMA DumpBegins ==
    ASSUME NEW c \in Commands \cup Followers, c = cmd, c.kind = "D", NEW d \in 0..(ADDR - 1), datap = d, shown = {},
           pc = "dispatch", Complete(DumpLine(c)), Next, ~Begin, ~Press
    PROVE  LET F == DumpFrom(c, d)
               T == DumpTo(c, d)
           IN  /\ UNCHANGED <<rx, script, cmd>> /\ pc' = "dump" /\ Spans(F, T)' /\ Dumped(F, T, 0)'
<1> DEFINE F == DumpFrom(c, d)
           T == DumpTo(c, d)
           i == After(2)
           h == IF line[i] = "," THEN i + 1 ELSE i
           e == InRam(IF c.to = None THEN (F + ROW * ROWS - 1) % ADDR ELSE c.to)
<1>1. UNCHANGED <<script, cmd>>
  BY UserWaits DEF userVars
<1>2. DumpParts(c)
  BY DumpRead
<1>3. line[1] = "D"
  BY <1>2 DEF DumpParts
<1>4. xdump
  <2>1. Nothing \/ xdump \/ xsubst \/ xfill \/ xgo \/ xtptest \/ xread \/ xsdread
    BY Steps
  <2> QED
    BY <1>3, <2>1 DEF Nothing, xsubst, xfill, xgo, xtptest, xread, xsdread, Is, Letters
<1>5. F \in TOP..(ADDR - 1) /\ T \in 0..(ADDR - 1) /\ e \in Int /\ IF T < F THEN e < F ELSE e = T
  BY DumpEnds
<1>6. InRam(ogetdata(2, datap)) = F
  <2>1. ogetdata(2, datap) = IF c.from = None THEN d ELSE c.from
    BY <1>2 DEF DumpParts
  <2> QED
    BY <2>1 DEF DumpFrom
<1>7. InRam(ogetdata(h, (F + ROW * ROWS - 1) % ADDR)) = e
  <2>1. (F + ROW * ROWS - 1) % ADDR \in Int
    <3>1. F \in Int /\ ROW * ROWS \in Int /\ ADDR \in Nat \ {0}
      <4>1. ROW \in Nat /\ ROWS \in Nat /\ TOP \in Int /\ ADDR \in Nat \ {0}
        BY MonitorSizes, Address
      <4> HIDE DEF F, ADDR, TOP
      <4> QED
        BY <1>5, <4>1
    <3> DEFINE m == ROW * ROWS
    <3> HIDE DEF F, ADDR, m
    <3>2. (F + m - 1) % ADDR \in Int
      BY <3>1 DEF m
    <3> QED
      BY <3>2 DEF m
  <2>2. \A x \in Int : ogetdata(h, x) = IF c.to = None THEN x ELSE c.to
    BY <1>2, Zenon DEF DumpParts
  <2> QED
    BY <2>1, <2>2, Zenon
<1>8. ~(line[i] \notin {",", NUL} \/ line[After(h)] # NUL)
  BY <1>2, Zenon DEF DumpParts
<1>9. pc' = "dump" /\ from' = F /\ to' = e /\ p' = F /\ rx' = rx /\ shown' = shown
  <2>1. /\ IF line[i] \notin {",", NUL} \/ line[After(h)] # NUL THEN Prompt
           ELSE LET b == InRam(ogetdata(2, datap))
                IN  /\ pc' = "dump" /\ from' = b /\ p' = b
                    /\ to' = InRam(ogetdata(h, (b + ROW * ROWS - 1) % ADDR))
        /\ rx' = rx /\ shown' = shown
    BY <1>4, Zenon DEF xdump, seenVars
  <2>2. LET b == InRam(ogetdata(2, datap))
        IN  /\ pc' = "dump" /\ from' = b /\ p' = b
            /\ to' = InRam(ogetdata(h, (b + ROW * ROWS - 1) % ADDR))
    BY <1>8, <2>1, Zenon
  <2> HIDE DEF h, e, F
  <2> QED
    BY <1>6, <1>7, <2>1, <2>2, Zenon
<1>10. Dumped(F, T, 0)'
  <2>1. TOP \in Nat /\ ADDR \in Nat \ {0} /\ ROW \in Nat
    BY Address, MonitorSizes
  <2>2. Rows(F, T) \in Nat
    BY <1>5, RowsAre
  <2> HIDE DEF F, T, ADDR, TOP
  <2>3. ROW * 0 = 0 /\ F + 0 = F /\ F \in Int /\ 0 \in 0..Rows(F, T)
    BY <1>5, <2>1, <2>2
  <2>4. F % ADDR = F
    BY <1>5, <2>1
  <2>5. Shown(F, 0) = {}
    BY <2>3, ShownIs
  <2> QED
    BY <1>9, <2>3, <2>4, <2>5 DEF Dumped
<1>11. Spans(F, T)'
  <2> HIDE DEF F, T, e
  <2> QED
    BY <1>5, <1>9 DEF Spans
<1> QED
  BY <1>1, <1>9, <1>10, <1>11

\* Rows are shown, and the dump ends.
LEMMA RowShown ==
    ASSUME NEW F \in TOP..(ADDR - 1), NEW T \in 0..(ADDR - 1), pc = "dump", Spans(F, T),
           NEW j \in Nat, Dumped(F, T, j), rx = <<>>, Next, ~Begin, ~Press
    PROVE  /\ UNCHANGED <<rx, script, cmd>>
           /\ \/ pc' = "dump" /\ UNCHANGED <<from, to>> /\ Dumped(F, T, j + 1)'
              \/ /\ pc' = "getline" /\ ~inner' /\ ct' = 0 /\ shown' = Shown(F, Rows(F, T))
                 /\ datap' = (F + ROW * Rows(F, T)) % ADDR
<1>1. UNCHANGED <<script, cmd>>
  BY UserWaits DEF userVars
<1>2. j \in 0..Rows(F, T) /\ p = (F + ROW * j) % ADDR /\ shown = Shown(F, j)
  BY DEF Dumped
<1>3. /\ Rows(F, T) \in Nat /\ (Rows(F, T) = 0 <=> T < F)
      /\ T >= F => ((F <= (F + ROW * j) % ADDR /\ (F + ROW * j) % ADDR <= T) <=> j # Rows(F, T))
  BY <1>2, RowsAre
<1>4. F \in Int /\ T \in Int /\ ADDR \in Nat \ {0} /\ ROW \in Nat \ {0} /\ TOP \in Nat
  BY Address, MonitorSizes
<1> DEFINE m == ROW * j
<1>5. m \in Int /\ ROW * (j + 1) = m + ROW
  BY <1>4
<1>6. p \in Int
  <2> HIDE DEF m, ADDR
  <2>1. (F + m) % ADDR \in Int
    BY <1>4, <1>5
  <2> QED
    BY <1>2, <2>1 DEF m
<1>7. InDump <=> j # Rows(F, T)
  <2>1. CASE T < F
    <3>1. ~InDump
      <4>1. to < F /\ from = F /\ to \in Int
        BY <2>1 DEF Spans
      <4> QED
        BY <1>4, <1>6, <2>1, <4>1 DEF InDump
    <3> QED
      BY <1>2, <1>3, <2>1, <3>1
  <2>2. CASE ~(T < F)
    <3>1. T >= F /\ to = T /\ from = F
      BY <1>4, <2>2 DEF Spans
    <3> QED
      BY <1>2, <1>3, <3>1 DEF InDump
  <2> QED
    BY <2>1, <2>2
<1>8. ~DumpBreak
  <2>1. ToSet(rx) = {}
    BY DEF ToSet
  <2> QED
    BY <2>1 DEF DumpBreak
<1>9. DumpRow \/ DumpEnd
  BY <1>8, Steps
<1>10. CASE DumpRow
  <2>1. /\ j # Rows(F, T) /\ rx' = rx /\ pc' = pc /\ UNCHANGED <<from, to>>
        /\ shown' = shown \cup {(p + i) % ADDR : i \in 0..(ROW - 1)} /\ p' = (p + ROW) % ADDR
    BY <1>7, <1>10, Zenon DEF DumpRow
  <2>2. j + 1 \in 0..Rows(F, T)
    BY <1>2, <1>3, <2>1
  <2>3. p' = (F + ROW * (j + 1)) % ADDR
    <3> HIDE DEF m, ADDR
    <3>1. F + m \in Int /\ (F + m) + ROW = F + (m + ROW)
      BY <1>4, <1>5
    <3>2. (((F + m) % ADDR) + ROW) % ADDR = ((F + m) + ROW) % ADDR
      BY <1>4, <3>1, SumOfRemainders
    <3>3. p' = (F + (m + ROW)) % ADDR
      BY <1>2, <2>1, <3>1, <3>2 DEF m
    <3> QED
      BY <1>5, <3>3
  <2>4. shown' = Shown(F, j + 1)
    <3>1. Shown(F, j + 1) = Shown(F, j) \cup {(((F + ROW * j) % ADDR) + i) % ADDR : i \in 0..(ROW - 1)}
      <4>1. \A x \in Nat : Shown(F, x + 1) = Shown(F, x)
                               \cup {(((F + ROW * x) % ADDR) + i) % ADDR : i \in 0..(ROW - 1)}
        BY <1>4, ShownIs, Zenon
      <4>2. j \in Nat
        OBVIOUS
      <4> HIDE DEF m
      <4> QED
        BY <4>1, <4>2, Zenon
    <3> QED
      BY <1>2, <2>1, <3>1, Zenon
  <2>5. Dumped(F, T, j + 1)'
    BY <2>2, <2>3, <2>4 DEF Dumped
  <2> QED
    BY <1>1, <2>1, <2>5
<1>11. CASE DumpEnd
  <2>1. j = Rows(F, T) /\ datap' = p /\ Prompt /\ rx' = rx /\ shown' = shown
    BY <1>7, <1>11 DEF DumpEnd, seenVars
  <2>2. pc' = "getline" /\ ~inner' /\ ct' = 0
    BY <2>1 DEF Prompt, Return
  <2> QED
    BY <1>1, <1>2, <2>1, <2>2
<1> QED
  BY <1>9, <1>10, <1>11

LEMMA DumpGoesOn ==
    ASSUME IInv, NEW c \in Commands \cup Followers, c = cmd, c.kind = "D", NEW k, Left(k),
           NEW d \in 0..(ADDR - 1), Dumping(c, d, k), Next, ~Begin, ~Press
    PROVE  (pc' = "overrun" /\ shown' = {}) \/ \E j \in Nat : Left(j)' /\ Dumping(c, d, j)'
<1> DEFINE F == DumpFrom(c, d)
           T == DumpTo(c, d)
           s == c.slip
           u == DumpLine(c)
<1>1. UNCHANGED userVars /\ Text' = Text /\ k \in Nat /\ k + 1 \in Nat
  BY UserWaits DEF userVars, Text, Left
<1>2. F \in TOP..(ADDR - 1) /\ T \in 0..(ADDR - 1)
  BY DumpEnds
<1>3. /\ Len(s) \in Nat /\ Len(u) \in Nat /\ Len(Text) = Len(s) + Len(u) + 1
      /\ Here(Len(s), u) /\ \A j \in 1..Len(s) : Text[j] = s[j]
  BY DumpText DEF Text
<1>4. CASE ~inner /\ shown = {} /\ datap = d /\ Amid(Len(s), u, k)
  <2>1. Editing
    BY <1>4, Steps DEF Amid
  <2> HIDE DEF s, u
  <2>2. /\ Left(k + 1)' /\ UNCHANGED <<inner, shown, datap>>
        /\ \/ Amid(Len(s), u, k + 1)'
           \/ k = Len(s) + Len(u) /\ Complete(u)' /\ pc' = IF inner THEN "reply" ELSE "dispatch"
           \/ pc' = "overrun"
    BY <1>1, <1>3, <1>4, <2>1, LineTyped DEF seenVars, keptVars
  <2>3. k = Len(s) + Len(u) => k + 1 = Len(Text')
    BY <1>1, <1>3
  <2>4. CASE Amid(Len(s), u, k + 1)'
    BY <1>1, <1>4, <2>2, <2>4, Zenon DEF Dumping, s, u
  <2>5. CASE k = Len(s) + Len(u) /\ Complete(u)' /\ pc' = IF inner THEN "reply" ELSE "dispatch"
    <3>1. pc' = "dispatch" /\ k + 1 = Len(Text')
      BY <1>4, <2>3, <2>5
    <3> QED
      BY <1>1, <1>4, <2>2, <2>5, <3>1, Zenon DEF Dumping, s, u
  <2> QED
    BY <1>4, <2>2, <2>4, <2>5
<1>5. CASE ~inner /\ shown = {} /\ datap = d /\ Slipping(s, k)
  <2>1. pc = "getline" /\ k \in 0..Len(s)
    BY <1>5 DEF Slipping
  <2>2. PICK n : RubsOut(s, n) /\ ct = n[k]
    BY <1>5 DEF Slipping
  <2>3. CASE k = Len(s)
    <3>1. ct = 0
      BY <2>2, <2>3 DEF RubsOut
    <3>2. Amid(Len(s), u, k)
      <4> HIDE DEF s, u
      <4>1. k \in Len(s)..(Len(s) + Len(u)) /\ k - Len(s) = 0 /\ 1..0 = {}
        BY <1>3, <2>3
      <4> QED
        BY <2>1, <3>1, <4>1 DEF Amid
    <3> QED
      BY <1>4, <1>5, <3>2
  <2>4. CASE k # Len(s)
    <3>1. Editing
      BY <2>1, Steps
    <3> HIDE DEF s, u
    <3>2. k \in 0..(Len(s) - 1) /\ k + 1 \in 0..Len(s)
      BY <1>3, <2>1, <2>4
    <3>3. /\ Left(k + 1)' /\ UNCHANGED <<inner, datap, shown>>
          /\ pc' = "overrun" \/ (pc' = "getline" /\ ct' = n[k + 1])
      BY <1>1, <1>3, <2>1, <2>2, <3>1, <3>2, SlipTyped
    <3>4. CASE pc' = "getline" /\ ct' = n[k + 1]
      <4>1. Slipping(s, k + 1)'
        BY <2>2, <3>2, <3>4, Zenon DEF Slipping
      <4> QED
        BY <1>1, <1>5, <3>3, <4>1, Zenon DEF Dumping, s
    <3> QED
      BY <1>5, <3>3, <3>4
  <2> QED
    BY <2>3, <2>4
<1>6. CASE ~inner /\ shown = {} /\ datap = d /\ pc = "dispatch" /\ Complete(u) /\ k = Len(Text)
  <2>1. /\ UNCHANGED <<rx, script, cmd>> /\ pc' = "dump" /\ Spans(F, T)' /\ Dumped(F, T, 0)'
    BY <1>6, DumpBegins
  <2>2. Left(k)'
    BY <2>1, LeftAlone
  <2>3. k = Len(Text') /\ 0 \in Nat
    BY <1>1, <1>6
  <2>4. Dumping(c, d, k)'
    BY <2>1, <2>3, Zenon DEF Dumping
  <2> QED
    BY <1>1, <2>2, <2>4
<1>7. ASSUME pc = "dump", k = Len(Text), Spans(F, T), NEW j \in Nat, Dumped(F, T, j)
      PROVE  \E i \in Nat : Left(i)' /\ Dumping(c, d, i)'
  <2>1. rx = <<>>
    BY <1>7, NoMoreKeys
  <2> HIDE DEF F, T
  <2>2. /\ UNCHANGED <<rx, script, cmd>>
        /\ \/ pc' = "dump" /\ UNCHANGED <<from, to>> /\ Dumped(F, T, j + 1)'
           \/ /\ pc' = "getline" /\ ~inner' /\ ct' = 0 /\ shown' = Shown(F, Rows(F, T))
              /\ datap' = (F + ROW * Rows(F, T)) % ADDR
    BY <1>2, <1>7, <2>1, RowShown
  <2>3. Left(k)'
    BY <2>2, LeftAlone
  <2>4. k = Len(Text') /\ j + 1 \in Nat
    BY <1>1, <1>7
  <2>5. CASE pc' = "dump" /\ UNCHANGED <<from, to>> /\ Dumped(F, T, j + 1)'
    <3>1. Spans(F, T)'
      BY <1>7, <2>5 DEF Spans
    <3>2. Dumping(c, d, k)'
      BY <2>4, <2>5, <3>1, Zenon DEF Dumping, F, T
    <3> QED
      BY <1>1, <2>3, <3>2
  <2>6. CASE pc' = "getline" /\ ~inner' /\ ct' = 0 /\ shown' = Shown(F, Rows(F, T)) /\ datap' = (F + ROW * Rows(F, T)) % ADDR
    <3>1. Over(k)'
      BY <2>4, <2>6 DEF Over
    <3>2. Dumping(c, d, k)'
      BY <2>6, <3>1, Zenon DEF Dumping, F, T
    <3> QED
      BY <1>1, <2>3, <3>2
  <2> QED
    BY <2>2, <2>5, <2>6
<1>8. CASE Over(k)
  <2>1. ~Editing
    BY <1>8, NoMoreKeys DEF Over
  <2> QED
    BY <1>8, <2>1, Steps DEF Over
<1>9. \/ ~inner /\ shown = {} /\ datap = d /\ Amid(Len(s), u, k)
      \/ ~inner /\ shown = {} /\ datap = d /\ Slipping(s, k)
      \/ ~inner /\ shown = {} /\ datap = d /\ pc = "dispatch" /\ Complete(u) /\ k = Len(Text)
      \/ /\ pc = "dump" /\ k = Len(Text) /\ Spans(F, T)
         /\ \E j \in Nat : Dumped(F, T, j)
      \/ Over(k)
  BY Zenon DEF Dumping
<1> HIDE DEF F, T, s, u
<1> QED
  BY <1>4, <1>5, <1>6, <1>7, <1>8, <1>9

\* What a dump has shown.
LEMMA DumpExactly ==
    ASSUME NEW c \in Commands \cup Followers, c = cmd, c.kind = "D", NEW k, Left(k),
           NEW d \in 0..(ADDR - 1), Dumping(c, d, k)
    PROVE  LET F == DumpFrom(c, d)
               T == DumpTo(c, d)
               size == ROW * Rows(F, T)
           IN  /\ shown \subseteq Shown(F, Rows(F, T))
               /\ Done => shown = Shown(F, Rows(F, T)) /\ datap = (F + size) % ADDR
<1> DEFINE F == DumpFrom(c, d)
           T == DumpTo(c, d)
           s == c.slip
           u == DumpLine(c)
<1>1. F \in TOP..(ADDR - 1) /\ T \in 0..(ADDR - 1)
  BY DumpEnds
<1>2. F \in Int /\ Rows(F, T) \in Nat
  <2>1. TOP \in Nat /\ ADDR \in Nat
    BY Address
  <2>2. Rows(F, T) \in Nat
    BY <1>1, RowsAre
  <2> HIDE DEF F, T, TOP, ADDR
  <2> QED
    BY <1>1, <2>1, <2>2
<1>3. Len(s) \in Nat /\ Len(u) \in Nat /\ Len(Text) = Len(s) + Len(u) + 1
  BY DumpText DEF Text
<1>4. Done => k = Len(Text) /\ pc = "getline" /\ ct = 0
  BY DEF Left, Done
<1> HIDE DEF F, T, s, u
<1>5. CASE shown = {} /\ (Slipping(s, k) \/ Amid(Len(s), u, k) \/ pc = "dispatch")
  <2>1. ~Done
    BY <1>3, <1>4, <1>5 DEF Slipping, Amid
  <2> QED
    BY <1>5, <2>1 DEF F, T
<1>6. CASE pc = "dump" /\ \E j \in Nat : Dumped(F, T, j)
  <2>1. PICK j \in Nat : j <= Rows(F, T) /\ shown = Shown(F, j)
    BY <1>2, <1>6 DEF Dumped
  <2>2. shown \subseteq Shown(F, Rows(F, T))
    BY <1>2, <2>1, ShownIs
  <2> QED
    BY <1>4, <1>6, <2>2 DEF F, T
<1>7. CASE shown = Shown(F, Rows(F, T)) /\ datap = (F + ROW * Rows(F, T)) % ADDR
  BY <1>7 DEF F, T
<1>8. \/ shown = {} /\ (Slipping(s, k) \/ Amid(Len(s), u, k) \/ pc = "dispatch")
      \/ pc = "dump" /\ \E j \in Nat : Dumped(F, T, j)
      \/ shown = Shown(F, Rows(F, T)) /\ datap = (F + ROW * Rows(F, T)) % ADDR
  BY Zenon DEF Dumping, F, T, s, u
<1> QED
  BY <1>5, <1>6, <1>7, <1>8

-----------------------------------------------------------------------------
\* All commands that touch memory.

\* Addresses are addresses, and the line of a command has its end.
Ranges ==
    /\ datap \in 0..(ADDR - 1) /\ begin \in 0..(ADDR - 1) /\ (pc = "dump" => p \in 0..(ADDR - 1))
    /\ pc = "dispatch" => ct < LINE /\ line[ct + 1] = NUL

\* What is left of the keys of a command, the line that is typed, and what the
\* command has stored or shown belong together, all the way through it.
CInv ==
    /\ Ranges
    /\ clean /\ cmd.kind = "F" => pc = "overrun" \/ \E k \in Nat : Left(k) /\ Filling(cmd, k)
    /\ clean /\ cmd.kind = "S" => pc = "overrun" \/ \E k \in Nat : Left(k) /\ Setting(cmd, k)
    /\ clean /\ cmd.kind = "D" =>
         (pc = "overrun" /\ shown = {}) \/ \E k \in Nat : Left(k) /\ Dumping(cmd, begin, k)

LEMMA DumpInRange ==
    ASSUME IInv, Ranges, xdump
    PROVE  UNCHANGED <<datap, begin>> /\ pc' # "dispatch" /\ (pc' = "dump" => p' \in 0..(ADDR - 1))
<1>1. /\ pc = "dispatch" /\ line[1] = "D" /\ UNCHANGED <<datap, begin>>
      /\ Prompt \/ (pc' = "dump" /\ p' = InRam(ogetdata(2, datap)))
  BY Zenon DEF xdump, Is, keptVars, userVars
<1>2. CASE Prompt
  <2>1. pc' = "getline"
    BY <1>2 DEF Prompt, Return
  <2> QED
    BY <1>1, <2>1
<1>3. CASE pc' = "dump" /\ p' = InRam(ogetdata(2, datap))
  <2>1. ct < LINE /\ line[ct + 1] = NUL /\ datap \in 0..(ADDR - 1)
    BY <1>1 DEF Ranges
  <2>2. ct \in Nat /\ LINE \in Nat /\ LINE <= Room /\ Room \in Nat
    BY Rooms DEF IInv, Counts
  <2>3. ct # 0
    <3>1. "D" \in Letters
      BY DEF Letters
    <3>2. line[1] # NUL
      BY <1>1, <3>1, CharsAre
    <3>3. ct = 0 => ct + 1 = 1
      OBVIOUS
    <3> QED
      BY <2>1, <3>2, <3>3
  <2>4. ct \in 1..(Room - 1) /\ ct + 1 >= 2
    BY <2>1, <2>2, <2>3
  <2>5. After(2) \in 2..(ct + 1)
    BY <2>1, <2>2, <2>4, KeysAre, NoComma
  <2>6. PICK w \in Nat : After(2) = 2 + w
    <3> DEFINE x == After(2)
    <3>1. x \in 2..(ct + 1)
      BY <2>5
    <3> HIDE DEF x
    <3>2. x - 2 \in Nat /\ x = 2 + (x - 2)
      BY <2>2, <3>1
    <3> QED
      BY <3>2 DEF x
  <2>7. getdata(2) \in 0..(ADDR - 1)
    <3>1. 2 \in Nat \ {0}
      OBVIOUS
    <3> QED
      BY <2>6, <3>1, DataInRange
  <2>8. ogetdata(2, datap) \in 0..(ADDR - 1)
    BY <2>1, <2>7 DEF ogetdata
  <2>9. p' \in TOP..(ADDR - 1)
    BY <1>3, <2>8, InRamIs
  <2>10. p' \in 0..(ADDR - 1)
    <3>1. TOP \in Nat /\ ADDR \in Nat
      BY Address
    <3> HIDE DEF TOP, ADDR
    <3> QED
      BY <2>9, <3>1
  <2> QED
    BY <1>1, <1>3, <2>10
<1> QED
  BY <1>1, <1>2, <1>3

LEMMA RangesOn ==
    ASSUME IInv, Ranges, [Next]_vars
    PROVE  Ranges'
<1>1. CASE UNCHANGED vars \/ Press
  BY <1>1 DEF Ranges, vars, Press, editVars, keptVars, dumpVars, locals, userVars
<1>2. CASE Begin
  BY <1>2 DEF Ranges, Begin, editVars, keptVars, dumpVars, locals
<1>3. CASE Next /\ ~Begin /\ ~Press
  <2> DEFINE Plainly == UNCHANGED <<datap, begin>> /\ pc' \notin {"dispatch", "dump"}
  <2>1. begin' = begin
    BY <1>3, UserWaits DEF userVars
  <2>2. Prompt \/ Return => pc' = "getline"
    BY DEF Prompt, Return
  <2>3. Plainly => Ranges'
    BY DEF Ranges
  <2>4. CASE pc = "getline" /\ Editing
    <3>1. CASE Enter
      <4>1. UNCHANGED <<datap, ct>>
        BY <3>1 DEF Enter, keptVars
      <4>2. CASE ct = LINE
        <5>1. pc' = "overrun"
          BY <3>1, <4>2 DEF Enter
        <5> QED
          BY <2>1, <2>3, <4>1, <5>1
      <4>3. CASE ct # LINE
        <5>1. line' = [line EXCEPT ![ct + 1] = NUL] /\ pc' \in {"reply", "dispatch"}
          BY <3>1, <4>3 DEF Enter
        <5>2. ct < LINE /\ ct + 1 \in 1..Room /\ Array(line, Room)
          BY <4>3, Rooms DEF IInv, Counts
        <5>3. line'[ct + 1] = NUL
          BY <5>1, <5>2 DEF Array
        <5> QED
          BY <2>1, <4>1, <5>1, <5>2, <5>3 DEF Ranges
      <4> QED
        BY <4>2, <4>3
    <3>2. CASE Backspace \/ Kill \/ Ignored \/ Typed
      <4>1. datap' = datap /\ (pc' = pc \/ pc' = "overrun")
        BY <3>2 DEF Backspace, Kill, Ignored, Typed, keptVars
      <4> QED
        BY <2>1, <2>3, <2>4, <4>1
    <3> QED
      BY <2>4, <3>1, <3>2 DEF Editing
  <2>5. CASE pc = "dispatch" /\ (Nothing \/ xdump \/ xsubst \/ xfill \/ xgo \/ xtptest \/ xread \/ xsdread)
    <3>1. CASE xdump
      BY <2>1, <3>1, DumpInRange DEF Ranges
    <3>2. CASE Nothing \/ xsubst \/ xfill \/ xgo \/ xtptest \/ xread \/ xsdread
      <4>1. datap' = datap /\ (Prompt \/ pc' \in {"getline", "program", "tptest", "colon", "file"})
        BY <3>2, Zenon DEF Nothing, xsubst, xfill, xgo, xtptest, xread, xsdread, AskAt, keptVars
      <4> QED
        BY <2>1, <2>2, <2>3, <4>1
    <3> QED
      BY <2>5, <3>1, <3>2
  <2>6. CASE pc = "reply" /\ (AnswerMoves \/ AnswerStores \/ AnswerEnds)
    <3>1. datap' = datap /\ (Prompt \/ pc' = "getline")
      BY <2>6, Zenon DEF AnswerMoves, AnswerStores, AnswerEnds, AskAt, keptVars
    <3> QED
      BY <2>1, <2>2, <2>3, <3>1
  <2>7. CASE pc = "dump" /\ (DumpRow \/ DumpBreak \/ DumpEnd)
    <3>1. p \in 0..(ADDR - 1)
      BY <2>7 DEF Ranges
    <3>2. CASE DumpRow
      <4>1. p' = (p + ROW) % ADDR /\ datap' = datap /\ pc' = pc
        BY <3>2 DEF DumpRow, keptVars
      <4>2. ADDR \in Nat \ {0} /\ ROW \in Nat
        BY Address, MonitorSizes
      <4>3. p' \in 0..(ADDR - 1)
        <5> HIDE DEF ADDR
        <5> QED
          BY <3>1, <4>1, <4>2
      <4> QED
        BY <2>1, <2>7, <4>1, <4>3 DEF Ranges
    <3>3. CASE DumpBreak
      <4>1. Prompt /\ datap' = datap
        BY <3>3 DEF DumpBreak, keptVars
      <4> QED
        BY <2>1, <2>2, <2>3, <4>1
    <3>4. CASE DumpEnd
      <4>1. Prompt /\ datap' = p
        BY <3>4 DEF DumpEnd
      <4> QED
        BY <2>1, <2>2, <3>1, <4>1 DEF Ranges
    <3> QED
      BY <2>7, <3>2, <3>3, <3>4
  <2>8. CASE ProgramReturns \/ TpTestEnds
    <3>1. Prompt /\ datap' = datap
      BY <2>8 DEF ProgramReturns, TpTestEnds, keptVars
    <3> QED
      BY <2>1, <2>2, <2>3, <3>1
  <2>9. CASE Colon \/ HalfByte \/ HeaderByte \/ SegmentByte \/ DataByte \/ SumByte
    <3>1. datap' = datap /\ (Prompt \/ pc' \in {"colon", "record"})
      BY <2>9 DEF Colon, HalfByte, HeaderByte, SegmentByte, DataByte, SumByte, ByteComes, keptVars
    <3> QED
      BY <2>1, <2>2, <2>3, <3>1
  <2>10. CASE GetStart
    <3>1. datap' = datap /\ (Return \/ pc' \in {"file", "length"})
      BY <2>10 DEF GetStart, GoOn, keptVars
    <3> QED
      BY <2>1, <2>2, <2>3, <3>1
  <2>11. CASE GetLength
    <3>1. datap' = datap /\ (Return \/ pc' = "rest")
      BY <2>11 DEF GetLength, GoOn, keptVars
    <3> QED
      BY <2>1, <2>2, <2>3, <3>1
  <2>12. CASE GetRecord
    <3>1. datap' = datap /\ (Return \/ pc' \in {"file", "overrun"})
      BY <2>12 DEF GetRecord, GoOn
    <3> QED
      BY <2>1, <2>2, <2>3, <3>1
  <2> QED
    BY <1>3, <2>4, <2>5, <2>6, <2>7, <2>8, <2>9, <2>10, <2>11, <2>12, Steps
<1> QED
  BY <1>1, <1>2, <1>3

\* The monitor waits.
LEMMA Waits ==
    ASSUME UNCHANGED vars \/ Press, clean'
    PROVE  /\ clean /\ \A k : Left(k) => Left(k)'
           /\ UNCHANGED <<pc, inner, line, ct, datap, p, from, to, begin, stored, shown, cmd>>
<1>1. clean /\ UNCHANGED <<pc, inner, line, ct, datap, p, from, to, begin, stored, shown, cmd>>
  BY DEF vars, Press, editVars, keptVars, dumpVars, locals, userVars, seenVars
<1>2. ASSUME NEW k, Left(k)
      PROVE  Left(k)'
  <2>1. CASE UNCHANGED vars
    BY <1>2, <2>1 DEF vars, userVars, Left, Text
  <2>2. CASE Press
    BY <1>2, <2>2, KeyPressed
  <2> QED
    BY <2>1, <2>2
<1> QED
  BY <1>1, <1>2

LEMMA Amidst ==
    ASSUME UNCHANGED <<pc, ct, line, inner, cmd>>
    PROVE  /\ \A b, u, k : Amid(b, u, k) => Amid(b, u, k)'
           /\ \A u : Complete(u) => Complete(u)'
           /\ \A k : Over(k) => Over(k)'
           /\ \A s, k : Slipping(s, k) => Slipping(s, k)'
BY DEF Amid, Complete, Over, Slipping, Text, ToUpper

\* It is a fill, a set or a dump that goes on.
LEMMA FillKept ==
    ASSUME IInv, FInv, CInv, [Next]_vars, clean', NEW c, c = cmd', c.kind = "F"
    PROVE  pc' = "overrun" \/ \E k \in Nat : Left(k)' /\ Filling(c, k)'
<1>1. CASE UNCHANGED vars \/ Press
  <2>1. clean /\ (\A k : Left(k) => Left(k)') /\ UNCHANGED <<pc, inner, line, ct, stored, cmd>>
    BY <1>1, Waits
  <2>2. c = cmd
    BY <2>1
  <2>3. pc = "overrun" \/ \E k \in Nat : Left(k) /\ Filling(c, k)
    BY <2>1, <2>2 DEF CInv
  <2>4. ASSUME NEW k, Filling(c, k)
        PROVE  Filling(c, k)'
    BY <2>1, <2>4, Amidst DEF Filling, Text
  <2> QED
    BY <2>1, <2>3, <2>4
<1>2. CASE Begin
  <2>1. c \in Commands \cup Followers
    BY <1>2 DEF Begin
  <2>2. TextOf[c] \in Seq(Char) /\ Len(FillLine(c)) \in Nat
    BY <2>1, FillText
  <2>3. /\ Left(0)' /\ pc' = "getline" /\ ~inner' /\ ct' = 0 /\ stored' = <<>>
    BY <1>2, <2>2, Gives
  <2>4. Amid(0, FillLine(c), 0)'
    <3>1. 0 \in 0..(0 + Len(FillLine(c))) /\ 0 - 0 = 0
      BY <2>2
    <3> QED
      BY <2>3, <3>1 DEF Amid
  <2>5. Filling(c, 0)'
    BY <2>3, <2>4 DEF Filling
  <2> QED
    BY <2>3, <2>5
<1>3. CASE Next /\ ~Begin /\ ~Press
  <2>1. UNCHANGED <<clean, cmd>>
    BY <1>3, UserWaits DEF userVars
  <2>2. c = cmd /\ clean /\ c \in Commands \cup Followers
    BY <2>1 DEF FInv
  <2>3. pc # "overrun"
    BY <1>3, Steps
  <2>4. PICK k \in Nat : Left(k) /\ Filling(c, k)
    BY <2>2, <2>3 DEF CInv
  <2> QED
    BY <1>3, <2>2, <2>4, FillGoesOn
<1> QED
  BY <1>1, <1>2, <1>3

LEMMA SetKept ==
    ASSUME IInv, FInv, CInv, [Next]_vars, clean', NEW c, c = cmd', c.kind = "S"
    PROVE  pc' = "overrun" \/ \E k \in Nat : Left(k)' /\ Setting(c, k)'
<1>1. CASE UNCHANGED vars \/ Press
  <2>1. clean /\ (\A k : Left(k) => Left(k)') /\ UNCHANGED <<pc, inner, line, ct, p, stored, cmd>>
    BY <1>1, Waits
  <2>2. c = cmd
    BY <2>1
  <2>3. pc = "overrun" \/ \E k \in Nat : Left(k) /\ Setting(c, k)
    BY <2>1, <2>2 DEF CInv
  <2>4. \A i : HasStored(c, i) => HasStored(c, i)'
    BY <2>1 DEF HasStored, Array
  <2>5. ASSUME NEW k, Setting(c, k)
        PROVE  Setting(c, k)'
    <3>1. \A i : Asking(c, i, k) => Asking(c, i, k)'
      BY <2>1, <2>4, Amidst DEF Asking
    <3> QED
      BY <2>1, <2>4, <2>5, <3>1, Amidst DEF Setting, Text
  <2> QED
    BY <2>1, <2>3, <2>5
<1>2. CASE Begin
  <2>1. c \in Commands \cup Followers
    BY <1>2 DEF Begin
  <2>2. TextOf[c] \in Seq(Char) /\ Len(SetLine(c)) \in Nat
    BY <2>1, SetText, AskedIs
  <2>3. /\ Left(0)' /\ pc' = "getline" /\ ~inner' /\ ct' = 0 /\ stored' = <<>>
    BY <1>2, <2>2, Gives
  <2>4. Amid(0, SetLine(c), 0)'
    <3>1. 0 \in 0..(0 + Len(SetLine(c))) /\ 0 - 0 = 0
      BY <2>2
    <3> QED
      BY <2>3, <3>1 DEF Amid
  <2>5. Setting(c, 0)'
    BY <2>3, <2>4 DEF Setting
  <2> QED
    BY <2>3, <2>5
<1>3. CASE Next /\ ~Begin /\ ~Press
  <2>1. UNCHANGED <<clean, cmd>>
    BY <1>3, UserWaits DEF userVars
  <2>2. c = cmd /\ clean /\ c \in Commands \cup Followers
    BY <2>1 DEF FInv
  <2>3. pc # "overrun"
    BY <1>3, Steps
  <2>4. PICK k \in Nat : Left(k) /\ Setting(c, k)
    BY <2>2, <2>3 DEF CInv
  <2> QED
    BY <1>3, <2>2, <2>4, SetGoesOn
<1> QED
  BY <1>1, <1>2, <1>3

LEMMA DumpKept ==
    ASSUME IInv, FInv, CInv, [Next]_vars, clean', NEW c, c = cmd', c.kind = "D", NEW d, d = begin'
    PROVE  (pc' = "overrun" /\ shown' = {}) \/ \E k \in Nat : Left(k)' /\ Dumping(c, d, k)'
<1>1. CASE UNCHANGED vars \/ Press
  <2>1. /\ clean /\ (\A k : Left(k) => Left(k)')
        /\ UNCHANGED <<pc, inner, line, ct, datap, p, from, to, begin, shown, cmd>>
    BY <1>1, Waits
  <2>2. c = cmd /\ d = begin
    BY <2>1
  <2>3. (pc = "overrun" /\ shown = {}) \/ \E k \in Nat : Left(k) /\ Dumping(c, d, k)
    BY <2>1, <2>2 DEF CInv
  <2>4. ASSUME NEW k, Dumping(c, d, k)
        PROVE  Dumping(c, d, k)'
    <3>1. \A F, T : (Spans(F, T) => Spans(F, T)') /\ \A j : Dumped(F, T, j) => Dumped(F, T, j)'
      BY <2>1 DEF Spans, Dumped
    <3>2. /\ \A b, u : Amid(b, u, k) => Amid(b, u, k)'
          /\ \A u : Complete(u) => Complete(u)'
          /\ (Over(k) => Over(k)') /\ Text' = Text
          /\ \A s : Slipping(s, k) => Slipping(s, k)'
      BY <2>1, Amidst DEF Text
    <3> QED
      BY <2>1, <2>4, <3>1, <3>2 DEF Dumping
  <2> QED
    BY <2>1, <2>3, <2>4
<1>2. CASE Begin
  <2>1. c \in Commands \cup Followers
    BY <1>2 DEF Begin
  <2>2. TextOf[c] \in Seq(Char) /\ Len(c.slip) \in Nat /\ Rubbed(c.slip)
    BY <2>1, DumpText, DumpLineIs
  <2>3. /\ Left(0)' /\ pc' = "getline" /\ ~inner' /\ ct' = 0 /\ shown' = {} /\ datap' = d
    BY <1>2, <2>2, Gives
  <2>4. Slipping(c.slip, 0)'
    <3> DEFINE s == c.slip
    <3>1. \E n \in [0..Len(s) -> 0..Len(s)] :
             /\ n[0] = 0 /\ n[Len(s)] = 0
             /\ \A k \in 1..Len(s) : /\ s[k] \notin {"CR", "LF"}
                                     /\ n[k] = CASE s[k] = "BS" -> IF n[k - 1] = 0 THEN 0 ELSE n[k - 1] - 1
                                                 [] s[k] = "CAN" -> 0
                                                 [] s[k] = "ESC" -> n[k - 1]
                                                 [] OTHER -> n[k - 1] + 1
      BY <2>2, Zenon DEF Rubbed
    <3>2. PICK n : RubsOut(s, n)
      BY <3>1, Zenon DEF RubsOut
    <3>3. n[0] = 0 /\ 0 \in 0..Len(s)
      BY <2>2, <3>2 DEF RubsOut
    <3> HIDE DEF s
    <3>4. Slipping(s, 0)'
      BY <2>3, <3>2, <3>3, Zenon DEF Slipping
    <3> QED
      BY <3>4 DEF s
  <2>5. Dumping(c, d, 0)'
    BY <2>3, <2>4, Zenon DEF Dumping
  <2> QED
    BY <2>3, <2>5
<1>3. CASE Next /\ ~Begin /\ ~Press
  <2>1. UNCHANGED <<clean, cmd, begin>>
    BY <1>3, UserWaits DEF userVars
  <2>2. c = cmd /\ d = begin /\ clean /\ c \in Commands \cup Followers /\ d \in 0..(ADDR - 1)
    BY <2>1 DEF FInv, CInv, Ranges
  <2>3. pc # "overrun"
    BY <1>3, Steps
  <2>4. PICK k \in Nat : Left(k) /\ Dumping(c, d, k)
    BY <2>2, <2>3 DEF CInv
  <2> QED
    BY <1>3, <2>2, <2>4, DumpGoesOn
<1> QED
  BY <1>1, <1>2, <1>3

LEMMA NextCInv == IInv /\ FInv /\ CInv /\ [Next]_vars => CInv'
<1> SUFFICES ASSUME IInv, FInv, CInv, [Next]_vars
             PROVE  CInv'
  OBVIOUS
<1>1. Ranges'
  BY RangesOn DEF CInv
<1>2. ASSUME clean', cmd'.kind = "F"
      PROVE  pc' = "overrun" \/ \E k \in Nat : Left(k)' /\ Filling(cmd, k)'
  <2>1. \A c : c = cmd' => pc' = "overrun" \/ \E k \in Nat : Left(k)' /\ Filling(c, k)'
    BY <1>2, FillKept
  <2> QED
    BY <2>1
<1>3. ASSUME clean', cmd'.kind = "S"
      PROVE  pc' = "overrun" \/ \E k \in Nat : Left(k)' /\ Setting(cmd, k)'
  <2>1. \A c : c = cmd' => pc' = "overrun" \/ \E k \in Nat : Left(k)' /\ Setting(c, k)'
    BY <1>3, SetKept
  <2> QED
    BY <2>1
<1>4. ASSUME clean', cmd'.kind = "D"
      PROVE  (pc' = "overrun" /\ shown' = {}) \/ \E k \in Nat : Left(k)' /\ Dumping(cmd, begin, k)'
  <2>1. \A c, d : c = cmd' /\ d = begin' =>
            (pc' = "overrun" /\ shown' = {}) \/ \E k \in Nat : Left(k)' /\ Dumping(c, d, k)'
    BY <1>4, DumpKept
  <2> QED
    BY <2>1
<1> QED
  BY <1>1, <1>2, <1>3, <1>4 DEF CInv

LEMMA StartsCInv == Init => CInv
<1> SUFFICES ASSUME Init
             PROVE  CInv
  OBVIOUS
<1>1. ADDR \in Nat \ {0}
  BY Address
<1>2. datap = 0 /\ begin = 0 /\ pc = "getline" /\ clean = FALSE
  BY DEF Init
<1>3. 0 \in 0..(ADDR - 1)
  <2> HIDE DEF ADDR
  <2> QED
    BY <1>1
<1> QED
  BY <1>2, <1>3 DEF CInv, Ranges

\* The keys of a command that are left, its line, and what it has stored or shown
\* belong together, all the way through it.
THEOREM CommandsInductive == Spec => []CInv
BY StartsCInv, NextCInv, Inductive, FilesInductive, PTL DEF Spec

LEMMA IsExact == FInv /\ CInv => CommandsExact
<1> SUFFICES ASSUME FInv, CInv
             PROVE  CommandsExact
  OBVIOUS
<1>1. FillExact
  <2> SUFFICES ASSUME Done, cmd.kind = "F"
               PROVE  LET Run0(a, b) == [i \in 1..(IF a <= b THEN b - a + 1 ELSE 0) |-> <<a + i - 1, cmd.byte % BYTE>>]
                      IN  stored = IF cmd.from = (cmd.to + 1) % ADDR THEN <<>>
                                   ELSE IF cmd.from <= cmd.to THEN Run0(cmd.from, cmd.to)
                                   ELSE Run0(cmd.from, ADDR - 1) \o Run0(0, cmd.to)
    BY Zenon DEF FillExact
  <2>1. clean /\ pc = "getline" /\ cmd \in Commands \cup Followers
    BY DEF Done, FInv
  <2>2. PICK k \in Nat : Left(k) /\ Filling(cmd, k)
    BY <2>1 DEF CInv
  <2>3. \A c \in Commands \cup Followers : c = cmd /\ c.kind = "F" /\ Filling(c, k) => stored = FillOf(c)
    BY <2>2, FillExactly
  <2>4. stored = FillOf(cmd)
    BY <2>1, <2>2, <2>3
  <2> QED
    BY <2>4, Zenon DEF FillOf, Run
<1>2. SubstExact
  <2> DEFINE c == cmd
  <2> SUFFICES ASSUME Done, cmd.kind = "S"
               PROVE  /\ Len(stored) = Cardinality(Answered(cmd))
                      /\ \A i \in Answered(cmd) : stored[Cardinality({h \in Answered(cmd) : h <= i})]
                                                    = <<Spot(cmd)[i] % ADDR, cmd.answers[i] % BYTE>>
    BY Zenon DEF SubstExact, Answered, Spot
  <2>1. clean /\ pc = "getline" /\ cmd \in Commands \cup Followers
    BY DEF Done, FInv
  <2>2. PICK k \in Nat : Left(k) /\ Setting(cmd, k)
    BY <2>1 DEF CInv
  <2>3. \A x \in Commands \cup Followers : x = cmd /\ x.kind = "S" /\ Setting(x, k) =>
          /\ Len(stored) = Cardinality(Answered(x))
          /\ \A h \in Answered(x) : stored[Count(x, h)] = <<Spot(x)[h] % ADDR, x.answers[h] % BYTE>>
    BY <2>2, SetExactly
  <2>4. /\ Len(stored) = Cardinality(Answered(cmd))
        /\ \A h \in Answered(cmd) : stored[Count(cmd, h)] = <<Spot(cmd)[h] % ADDR, cmd.answers[h] % BYTE>>
    BY <2>1, <2>2, <2>3, Zenon
  <2> QED
    BY <2>4, Zenon DEF Count
<1>3. DumpShows
  <2> SUFFICES ASSUME clean, cmd.kind = "D"
               PROVE  LET first == DumpFrom(cmd, begin)
                          last  == DumpTo(cmd, begin)
                          size  == IF last < first THEN 0 ELSE ROW * ((last - first) \div ROW + 1)
                          want  == {(first + i) % ADDR : i \in 0..(size - 1)}
                      IN  /\ shown \subseteq want
                          /\ Done => shown = want /\ datap = (first + size) % ADDR
    BY Zenon DEF DumpShows, DumpFrom, DumpTo
  <2> DEFINE F == DumpFrom(cmd, begin)
             T == DumpTo(cmd, begin)
             size == IF T < F THEN 0 ELSE ROW * ((T - F) \div ROW + 1)
             want == {(F + i) % ADDR : i \in 0..(size - 1)}
  <2>1. cmd \in Commands \cup Followers /\ begin \in 0..(ADDR - 1)
    BY DEF FInv, CInv, Ranges
  <2>2. size = ROW * Rows(F, T) /\ want = Shown(F, Rows(F, T))
    <3>1. ROW * 0 = 0
      BY MonitorSizes
    <3> HIDE DEF F, T
    <3>2. size = ROW * Rows(F, T)
      BY <3>1, Zenon DEF Rows
    <3> QED
      BY <3>2, Zenon DEF Shown
  <2>4. ASSUME NEW k \in Nat, Left(k), Dumping(cmd, begin, k)
        PROVE  /\ shown \subseteq Shown(F, Rows(F, T))
               /\ Done => shown = Shown(F, Rows(F, T)) /\ datap = (F + ROW * Rows(F, T)) % ADDR
    <3>1. \A c \in Commands \cup Followers, d \in 0..(ADDR - 1) :
            c = cmd /\ d = begin /\ c.kind = "D" /\ Dumping(c, d, k) =>
               /\ shown \subseteq Shown(DumpFrom(c, d), Rows(DumpFrom(c, d), DumpTo(c, d)))
               /\ Done => /\ shown = Shown(DumpFrom(c, d), Rows(DumpFrom(c, d), DumpTo(c, d)))
                          /\ datap = (DumpFrom(c, d) + ROW * Rows(DumpFrom(c, d), DumpTo(c, d))) % ADDR
      BY <2>4, DumpExactly, Zenon
    <3> QED
      BY <2>1, <2>4, <3>1, Zenon
  <2>5. (pc = "overrun" /\ shown = {}) \/ \E k \in Nat : Left(k) /\ Dumping(cmd, begin, k)
    BY DEF CInv
  <2>6. shown \subseteq want /\ (Done => shown = want /\ datap = (F + size) % ADDR)
    <3>1. ASSUME pc = "overrun", shown = {}
          PROVE  shown \subseteq want /\ (Done => shown = want /\ datap = (F + size) % ADDR)
      <4>1. ~Done
        BY <3>1 DEF Done
      <4>2. shown \subseteq want
        <5> HIDE DEF want
        <5> QED
          BY <3>1
      <4> QED
        BY <4>1, <4>2, Zenon
    <3>2. ASSUME NEW k \in Nat, Left(k), Dumping(cmd, begin, k)
          PROVE  shown \subseteq want /\ (Done => shown = want /\ datap = (F + size) % ADDR)
      <4>1. /\ shown \subseteq Shown(F, Rows(F, T))
            /\ Done => shown = Shown(F, Rows(F, T)) /\ datap = (F + ROW * Rows(F, T)) % ADDR
        BY <2>4, <3>2, Zenon
      <4> HIDE DEF F, T, want, size
      <4> QED
        BY <4>1, <2>2, Zenon
    <3> HIDE DEF F, T, want, size
    <3> QED
      BY <2>5, <3>1, <3>2, Zenon
  <2> QED
    BY <2>6
<1> QED
  BY <1>1, <1>2, <1>3 DEF CommandsExact

\* The commands that touch memory, for all addresses, bytes and answers and all
\* sizes of an address and a row: a fill, a set command and a dump do to memory
\* what the line typed says, whatever was rubbed out of it.
THEOREM CommandsAreExact == Spec => []CommandsExact
BY FilesInductive, CommandsInductive, IsExact, PTL
=============================================================================
