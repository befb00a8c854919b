------------------------------ MODULE Xprintf ------------------------------
(***************************************************************************)
(* src/briey/xprintf.c: what xvprintf makes of a format string and its     *)
(* arguments.  A string is a sequence of characters without its NUL; an    *)
(* argument is a word of the machine or a string.                          *)
(***************************************************************************)
EXTENDS Integers, Sequences, SequencesExt

CONSTANT WordSize       \* 2^32 in the code

ASSUME WordSizeIsEven == WordSize \in Nat \ {0} /\ WordSize % 2 = 0

Signed(w) == IF 2 * w < WordSize THEN w ELSE w - WordSize
Negate(w) == (WordSize - w) % WordSize

Figure == <<"0", "1", "2", "3", "4", "5", "6", "7", "8", "9">>
Upper  == <<"A", "B", "C", "D", "E", "F">>
Lower  == <<"a", "b", "c", "d", "e", "f">>

\* One character of a numeral; only %x prints small letters.
DigitChar(d, c) == IF d < 10 THEN Figure[d + 1]
                   ELSE IF c = "x" THEN Lower[d - 9] ELSE Upper[d - 9]

\* The digits, which the code finds from the last to the first.
Numeral(v, r, c) ==
    LET numeral[n \in 0..v] == (IF n < r THEN <<>> ELSE numeral[n \div r]) \o <<DigitChar(n % r, c)>>
    IN  numeral[v]

Radix(type) == CASE type = "B" -> 2 [] type = "O" -> 8 [] type \in {"D", "U"} -> 10
                 [] type = "X" -> 16

Fill(c, n) == [i \in 1..(IF n > 0 THEN n ELSE 0) |-> c]

\* Mutant: one blank too few, as for a string that ends in a NUL.
PaddedShort(s, w, left, c) ==
    IF left THEN s \o Fill(" ", w - Len(s)) ELSE Fill(c, w - 1 - Len(s)) \o s

\* At least w characters, filled up with blanks on the right or c on the left.
Padded(s, w, left, c) ==
    IF left THEN s \o Fill(" ", w - Len(s)) ELSE Fill(c, w - Len(s)) \o s

\* Type letters are folded by their codes, so a few other characters with them;
\* none of those is a type.
TypeOf(c) == CASE c \in {"s", "S"} -> "S" [] c \in {"c", "C"} -> "C" [] c \in {"b", "B"} -> "B"
               [] c \in {"o", "O"} -> "O" [] c \in {"d", "D"} -> "D" [] c \in {"u", "U"} -> "U"
               [] c \in {"x", "X"} -> "X" [] OTHER -> "none"

IsFigure(c) == c \in ToSet(Figure)
FigureOf(c) == (CHOOSE i \in 1..10 : Figure[i] = c) - 1
NumberOf(s) ==
    LET number[n \in 0..Len(s)] == IF n = 0 THEN 0 ELSE (number[n - 1] * 10 + FigureOf(s[n])) % WordSize
    IN  number[Len(s)]

At(fmt, i) == IF i <= Len(fmt) THEN fmt[i] ELSE "NUL"

\* Where the figures that start at i end.
PastFigures(fmt, i) ==
    CHOOSE j \in i..(Len(fmt) + 1) : /\ ~IsFigure(At(fmt, j))
                                     /\ \A h \in i..(j - 1) : IsFigure(fmt[h])

\* The field of a conversion.  A sign goes before the digits and after the fill.
Converted(c, zero, left, w, arg) ==
    LET type == TypeOf(c)
        minus == type = "D" /\ Signed(arg) < 0
        digits == Numeral(IF minus THEN Negate(arg) ELSE arg, Radix(type), c)
    IN  CASE type = "S" -> Padded(arg, w, left, " ")
          [] type = "C" -> <<arg>>
          [] OTHER -> Padded(IF minus THEN <<"-">> \o digits ELSE digits, w, left,
                             IF zero THEN "0" ELSE " ")

\* What xvprintf makes of the conversion at at.i.  A format that ends within it
\* prints nothing of it, an unknown one its last character.
Conversion(fmt, at) ==
    LET flag  == At(fmt, at.i + 1)
        b     == IF flag \in {"0", "-"} THEN at.i + 2 ELSE at.i + 1
        star  == At(fmt, b) = "*"
        e     == IF star THEN b + 1 ELSE PastFigures(fmt, b)
        width == IF star THEN Signed(at.arp[1]) ELSE NumberOf(SubSeq(fmt, b, e - 1))
        args  == IF star THEN Tail(at.arp) ELSE at.arp
        t     == IF At(fmt, e) \in {"l", "L"} THEN e + 1 ELSE e
    IN  IF t > Len(fmt) THEN [at EXCEPT !.i = t]
        ELSE IF TypeOf(fmt[t]) = "none" THEN [i |-> t + 1, arp |-> args, out |-> Append(at.out, fmt[t])]
        ELSE [i |-> t + 1, arp |-> Tail(args),
              out |-> at.out \o Converted(fmt[t], flag = "0" /\ width >= 0, flag = "-" \/ width < 0,
                                          IF width < 0 THEN -width ELSE width, args[1])]

\* One turn of its loop from [i, arp, out], the place in the format, the arguments
\* that are left and everything handed to xputc.
Turn(fmt, at) ==
    IF at.i > Len(fmt) THEN at
    ELSE IF fmt[at.i] = "%" THEN Conversion(fmt, at)
    ELSE [i |-> at.i + 1, arp |-> at.arp, out |-> Append(at.out, fmt[at.i])]

\* The loop ends at the end of the format, after no more turns than it is long.
xvprintf(fmt, arguments) ==
    LET after[n \in 0..Len(fmt)] ==
          IF n = 0 THEN [i |-> 1, arp |-> arguments, out |-> <<>>] ELSE Turn(fmt, after[n - 1])
    IN  after[Len(fmt)].out

\* xputc: a line feed goes out as two characters.
CrLf(s) == FlattenSeq([i \in DOMAIN s |-> IF s[i] = "LF" THEN <<"CR", "LF">> ELSE <<s[i]>>])
=============================================================================
