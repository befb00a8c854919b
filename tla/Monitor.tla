------------------------------- MODULE Monitor -------------------------------
(***************************************************************************)
(* The monitor of src/briey/deb.c: the line editor, the commands and the   *)
(* two loaders of HEX files, one action per key or row or record.  Keys    *)
(* wait in the receive queue of the UART, which a user may fill faster     *)
(* than the monitor empties it.  The user, the card and a program that is  *)
(* started are external.  Memory is what has been stored into it; what the *)
(* commands print is left out, but for the line being edited and the       *)
(* addresses dumped.  The touch test is in module Touch.                   *)
(***************************************************************************)
EXTENDS Integers, FiniteSets, SequencesExt

CONSTANTS
    Digit,          \* the HEX digits; an address has eight of them
    Upper,          \* toupper, for the other characters
    NUL,
    ROW, ROWS,      \* of a dump: 16 and 8 in the code
    LINE, LEN,      \* sizeof(line) and the longest record of a file: 80 and 40
    LINEAR, ENTRY,  \* types of records: 4 and 5
    FirstEntry,     \* STARTADDR before a file has set it
    FifoDepth,      \* of the UART
    Commands,       \* what the user wants first, see TextOf
    Followers,      \* and after that
    MaxCommands,    \* bounds: on the commands given, on the keys lost,
    MaxLost, Lossy  \* and the kinds of commands in which one is

HEX  == Len(Digit)
BYTE == HEX * HEX
WORD == BYTE * BYTE
ADDR == WORD * WORD
TOP  == WORD * BYTE * HEX       \* the weight of the first digit
RAM  == (HEX \div 2) * TOP      \* 0x80000000
Least(a, b) == IF a < b THEN a ELSE b
Byte == 0..(BYTE - 1)
Room == IF LINE > 2 * LEN + 8 THEN LINE ELSE 2 * LEN + 8

ASSUME MonitorSizes == HEX > 1 /\ ROW \in Nat \ {0} /\ ROWS \in Nat \ {0}
                       /\ LINE \in Nat \ {0, 1} /\ LEN \in Nat
                       /\ ROW * ROWS < TOP /\ FifoDepth \in Nat \ {0}
                       /\ {LINEAR, ENTRY} \subseteq Byte \ {0} /\ LINEAR # ENTRY

\* The keys getline acts on, the letters of the commands, and what is no letter:
\* no two digits are the same, only "D" and "F" are both, capitals stay, and "f"
\* is a small "F".
Controls == {"BS", "CAN", "CR", "LF", "ESC"}
Letters  == {"D", "F", "G", "R", "S", "!", "T"}
Marks    == {":", ",", "^", ".", " "}

ASSUME Alphabet ==
    /\ Digit \in Seq(STRING) /\ \A i, j \in DOMAIN Digit : Digit[i] = Digit[j] => i = j
    /\ ToSet(Digit) \cap (Controls \cup Marks \cup {NUL} \cup (Letters \ {"D", "F"})) = {}
    /\ NUL \notin Letters \cup Marks
    /\ DOMAIN Upper \cap (ToSet(Digit) \cup Letters \cup Marks \cup {"N"}) = {}
    /\ "f" \in DOMAIN Upper /\ Upper["f"] = "F"

VARIABLES
    rx,             \* the receive queue
    pc, inner,      \* where the monitor is; getline was called by xsubst
    line, ct,       \* the line, and the characters in it
    echo, cursor,   \* what the terminal shows of it
    datap, STARTADDR,
    p, from, to,            \* locals of xdump and xsubst
    bytes, nibble, seg,     \* of xread: the record so far, and half a byte
    sdfile, len,            \* of xsdread: what is left of the file
    script,         \* the keys the user is still to press
    cmd, given, lost,       \* the command, and the number given and of keys lost
    clean, begin,   \* history: it was typed at a prompt and not garbled; datap then
    stored, shown,  \* history: what it stored, and the addresses it dumped
    cut             \* history: the card gave less than the file, or no file

editVars == <<inner, line, ct, echo, cursor>>
keptVars == <<datap, STARTADDR>>
dumpVars == <<p, from, to>>
readVars == <<bytes, nibble>>
fileVars == <<sdfile, len>>
locals   == <<dumpVars, readVars, seg, fileVars>>
userVars == <<script, cmd, given, lost, clean, begin>>
seenVars == <<stored, shown, cut>>
vars == <<rx, pc, editVars, keptVars, locals, userVars, seenVars>>

None  == -1
Back  == -2     \* answers to a set command, besides None and bytes
Leave == -3
NoCommand == [kind |-> "none"]

Init ==
    /\ rx = <<>> /\ pc = "getline" /\ inner = FALSE
    /\ line = [i \in 1..Room |-> NUL] /\ ct = 0 /\ echo = <<>> /\ cursor = 0
    /\ datap = 0 /\ STARTADDR = FirstEntry /\ p = 0 /\ from = 0 /\ to = 0
    /\ bytes = <<>> /\ nibble = None /\ seg = RAM /\ sdfile = <<>> /\ len = 0
    /\ script = <<>> /\ cmd = NoCommand /\ given = 0 /\ lost = 0 /\ clean = FALSE /\ begin = 0
    /\ stored = <<>> /\ shown = {} /\ cut = FALSE

-----------------------------------------------------------------------------
\* Numbers.

\* inhex: lower case is no digit.
inhex(c) == IF c \in ToSet(Digit) THEN (CHOOSE i \in DOMAIN Digit : Digit[i] = c) - 1 ELSE None

\* hx1 and hx1lp: what is no digit counts as 0.
hx1(c) == IF inhex(c) = None THEN 0 ELSE inhex(c)
hxbyte(a, b) == hx1(a) * HEX + hx1(b)
hxword(a, b) == a * BYTE + b

\* The first character of the line from i on that is no digit, and the number
\* before it.
After(i)   == CHOOSE j \in i..Room : inhex(line[j]) = None /\ \A h \in i..(j - 1) : inhex(line[h]) # None
getdata(i) ==
    LET data[j \in 0..(After(i) - i)] ==
          IF j = 0 THEN 0 ELSE (data[j - 1] * HEX + inhex(line[i + j - 1])) % ADDR
    IN  data[After(i) - i]
ogetdata(i, default) == IF line[i] \in {",", NUL} THEN default ELSE getdata(i)

\* An address without a first digit is taken for one in memory.
InRam(a) == IF a < TOP THEN a + RAM ELSE a

-----------------------------------------------------------------------------
\* The user (external), who may press keys at any time, and has a card with the
\* file to be read.  A number is typed without leading zeros, a line may be
\* typed with slips, and a HEX file is sent or stored as it is.

\* HEX to the powers 0, 1 and so on.
Weight == <<1, HEX, BYTE, BYTE * HEX, WORD, WORD * HEX, WORD * BYTE, TOP, ADDR>>
Places(n) == CHOOSE w \in 1..8 : n < Weight[w + 1] /\ \A u \in 1..(w - 1) : n >= Weight[u + 1]
Figures(n, w) == [i \in 1..w |-> Digit[((n \div Weight[w - i + 1]) % HEX) + 1]]
Number(n) == IF n = None THEN <<>> ELSE Figures(n, Places(n))
Line(s)   == s \o <<"CR">>

SumOf(s) == LET sum[n \in 0..Len(s)] == IF n = 0 THEN 0 ELSE (sum[n - 1] + s[n]) % BYTE
            IN  sum[Len(s)]

\* The bytes of a record [type, off, data, bad], and its text.
RecordBytes(r) ==
    LET b == <<Len(r.data), r.off \div BYTE, r.off % BYTE, r.type>> \o r.data
    IN  Append(b, ((IF r.bad THEN 1 ELSE 0) - SumOf(b)) % BYTE)
RecordText(r) == <<":">> \o FlattenSeq([i \in DOMAIN RecordBytes(r) |-> Figures(RecordBytes(r)[i], 2)])
                 \o <<"CR">>
FileText(f) == FlattenSeq([i \in DOMAIN f |-> RecordText(f[i])])

TextOf == [c \in Commands \cup Followers |->
    CASE c.kind = "D" -> c.slip \o Line(<<"D">> \o Number(c.from)
                           \o (IF c.to = None THEN <<>> ELSE <<",">> \o Number(c.to)))
      [] c.kind = "F" -> Line(<<"f">> \o Number(c.from) \o <<",">> \o Number(c.to)
                              \o <<",">> \o Number(c.byte))
      [] c.kind = "S" -> Line(<<"S">> \o Number(c.from)) \o FlattenSeq([i \in DOMAIN c.answers |->
                           Line(CASE c.answers[i] = Back -> <<"^">> [] c.answers[i] = Leave -> <<".">>
                                  [] OTHER -> Number(c.answers[i]))])
      [] c.kind = "R" -> Line(<<"R">>) \o FileText(c.file)
      [] c.kind = "!" -> Line(<<"!", "N">>)
      [] OTHER -> c.slip \o Line(c.keys)]

\* The files are of records as the format has them.
Files == {c.file : c \in {d \in Commands \cup Followers : d.kind \in {"R", "!"}}}
ASSUME HexFiles == \A f \in Files :
    /\ f \in Seq([type : Byte, off : 0..(WORD - 1), data : Seq(Byte), bad : BOOLEAN])
    /\ \A i \in DOMAIN f : LET n == Len(f[i].data)
                          IN  /\ n \in Byte /\ (f[i].type = LINEAR => n = 2)
                              /\ (f[i].type = ENTRY => n = 4)

\* Slips are rubbed out again; n[k] characters of one stay after k of its keys.
Rubbed(s) == \E n \in [0..Len(s) -> 0..Len(s)] :
    /\ n[0] = 0 /\ n[Len(s)] = 0
    /\ \A k \in 1..Len(s) : /\ s[k] \notin {"CR", "LF"}
                            /\ n[k] = CASE s[k] = "BS" -> IF n[k - 1] = 0 THEN 0 ELSE n[k - 1] - 1
                                        [] s[k] = "CAN" -> 0
                                        [] s[k] = "ESC" -> n[k - 1]
                                        [] OTHER -> n[k - 1] + 1

\* Numbers are addresses, and a set command is ended last if at all.
ASSUME AsTyped == \A c \in Commands \cup Followers :
    LET Address == 0..(ADDR - 1)
    IN  /\ c.kind = "D" => /\ c.from \in Address \cup {None} /\ c.to \in Address \cup {None}
                           /\ c.slip \in Seq(STRING) /\ Rubbed(c.slip)
        /\ c.kind = "F" => c.from \in Address /\ c.to \in Address /\ c.byte \in Address
        /\ c.kind = "S" => /\ c.from \in Address /\ c.answers \in Seq(Address \cup {None, Back, Leave})
                           /\ \A i \in DOMAIN c.answers : c.answers[i] = Leave => i = Len(c.answers)

\* The file on the card.
CardFile == IF cmd.kind = "!" THEN FileText(cmd.file) ELSE <<>>

-----------------------------------------------------------------------------
\* getline.

Key(c) == rx # <<>> /\ c = Head(rx) /\ rx' = Tail(rx)

\* Back in _main, which calls getline; the locals of the command are gone.
Return ==
    /\ pc' = "getline" /\ inner' = FALSE /\ ct' = 0 /\ echo' = <<>> /\ cursor' = 0
    /\ p' = 0 /\ from' = 0 /\ to' = 0 /\ bytes' = <<>> /\ nibble' = None /\ seg' = RAM
    /\ sdfile' = <<>> /\ len' = 0
Prompt == Return /\ UNCHANGED line

\* putback n times: back, a blank, back.
Erased(n) == [i \in DOMAIN echo |-> IF i \in (cursor - n + 1)..cursor THEN " " ELSE echo[i]]

Backspace ==
    /\ pc = "getline" /\ Key("BS")
    /\ IF ct = 0 THEN UNCHANGED <<ct, echo, cursor>>
                 ELSE ct' = ct - 1 /\ echo' = Erased(1) /\ cursor' = cursor - 1
    /\ UNCHANGED <<pc, inner, line, keptVars, locals, userVars, seenVars>>

\* Mutant: the line is forgotten on the screen only.
KillShownOnly ==
    /\ pc = "getline" /\ Key("CAN")
    /\ echo' = Erased(ct) /\ cursor' = cursor - ct
    /\ UNCHANGED <<pc, inner, line, ct, keptVars, locals, userVars, seenVars>>

Kill ==
    /\ pc = "getline" /\ Key("CAN")
    /\ ct' = 0 /\ echo' = Erased(ct) /\ cursor' = cursor - ct
    /\ UNCHANGED <<pc, inner, line, keptVars, locals, userVars, seenVars>>

Ignored ==
    /\ pc = "getline" /\ Key("ESC")
    /\ UNCHANGED <<pc, editVars, keptVars, locals, userVars, seenVars>>

ToUpper(c) == IF c \in DOMAIN Upper THEN Upper[c] ELSE c

\* What is stored past the line's end may change anything.
Typed ==
    /\ pc = "getline"
    /\ \E c \in {rx[i] : i \in DOMAIN rx} \ Controls :
         /\ Key(c)
         /\ IF ct = LINE THEN pc' = "overrun" /\ UNCHANGED editVars
            ELSE /\ line' = [line EXCEPT ![ct + 1] = ToUpper(c)]
                 /\ ct' = ct + 1 /\ cursor' = cursor + 1
                 /\ echo' = IF cursor < Len(echo) THEN [echo EXCEPT ![cursor + 1] = c]
                                                  ELSE Append(echo, c)
                 /\ UNCHANGED <<pc, inner>>
    /\ UNCHANGED <<keptVars, locals, userVars, seenVars>>

Enter ==
    /\ pc = "getline" /\ (Key("CR") \/ Key("LF"))
    /\ IF ct = LINE THEN pc' = "overrun" /\ UNCHANGED line
       ELSE /\ line' = [line EXCEPT ![ct + 1] = NUL]
            /\ pc' = IF inner THEN "reply" ELSE "dispatch"
    /\ UNCHANGED <<inner, ct, echo, cursor, keptVars, locals, userVars, seenVars>>

Editing == Backspace \/ Kill \/ Ignored \/ Typed \/ Enter

-----------------------------------------------------------------------------
\* _main's dispatch, and the commands that end at once: the empty line, help,
\* the directory and what is no command.

Is(c) == pc = "dispatch" /\ line[1] = c

Nothing ==
    /\ pc = "dispatch" /\ line[1] \notin Letters
    /\ Prompt
    /\ UNCHANGED <<rx, keptVars, userVars, seenVars>>

xdump ==
    LET b == InRam(ogetdata(2, datap))
        i == After(2)
        h == IF line[i] = "," THEN i + 1 ELSE i
        e == InRam(ogetdata(h, (b + ROW * ROWS - 1) % ADDR))
    IN  /\ Is("D")
        /\ IF line[i] \notin {",", NUL} \/ line[After(h)] # NUL THEN Prompt
           ELSE /\ pc' = "dump" /\ from' = b /\ to' = e /\ p' = b
                /\ UNCHANGED <<editVars, readVars, seg, fileVars>>
        /\ UNCHANGED <<rx, keptVars, userVars, seenVars>>

InDump == from <= p /\ p <= to

DumpRow ==
    /\ pc = "dump" /\ InDump /\ rx = <<>>
    /\ shown' = shown \cup {(p + i) % ADDR : i \in 0..(ROW - 1)}
    /\ p' = (p + ROW) % ADDR
    /\ UNCHANGED <<rx, pc, editVars, keptVars, from, to, readVars, seg, fileVars, userVars,
                   stored, cut>>

\* sensebrk: a key ends the dump and is lost.
DumpBreak ==
    /\ pc = "dump" /\ InDump /\ \E c \in ToSet(rx) : Key(c)
    /\ Prompt
    /\ UNCHANGED <<keptVars, userVars, seenVars>>

DumpEnd ==
    /\ pc = "dump" /\ ~InDump
    /\ datap' = p /\ Prompt
    /\ UNCHANGED <<rx, STARTADDR, userVars, seenVars>>

\* xsubst reads its answers by getline.
AskAt(a) ==
    /\ pc' = "getline" /\ inner' = TRUE /\ ct' = 0 /\ echo' = <<>> /\ cursor' = 0 /\ p' = a
    /\ UNCHANGED <<line, from, to, readVars, seg, fileVars>>

xsubst ==
    /\ Is("S")
    /\ IF line[After(2)] # NUL THEN Prompt ELSE AskAt(InRam(ogetdata(2, datap)))
    /\ UNCHANGED <<rx, keptVars, userVars, seenVars>>

AnswerMoves ==
    /\ pc = "reply" /\ line[1] \in {"^", NUL}
    /\ AskAt(IF line[1] = "^" THEN (p - 1) % ADDR ELSE (p + 1) % ADDR)
    /\ UNCHANGED <<rx, keptVars, userVars, seenVars>>

AnswerStores ==
    /\ pc = "reply" /\ line[1] \notin {"^", NUL, "."}
    /\ stored' = Append(stored, <<p, getdata(1) % BYTE>>)
    /\ IF line[After(1)] = NUL THEN AskAt((p + 1) % ADDR) ELSE Prompt
    /\ UNCHANGED <<rx, keptVars, userVars, shown, cut>>

AnswerEnds ==
    /\ pc = "reply" /\ line[1] = "."
    /\ Prompt
    /\ UNCHANGED <<rx, keptVars, userVars, seenVars>>

\* Mutant: begin and end the wrong way round are refused.
FillCountChecked(a, b) == IF a <= b THEN b - a + 1 ELSE 0

FillCount(a, b) == (b - a + 1) % ADDR

xfill ==
    LET i == After(2)
        j == After(i + 1)
        a == getdata(2)
        n == FillCount(a, getdata(i + 1))
    IN  /\ Is("F") /\ Prompt
        /\ stored' = IF line[i] # "," \/ line[j] # "," \/ line[After(j + 1)] # NUL THEN stored
                     ELSE stored \o [k \in 1..n |-> <<(a + k - 1) % ADDR, getdata(j + 1) % BYTE>>]
        /\ UNCHANGED <<rx, keptVars, userVars, shown, cut>>

\* A program, and the touch test until a key is pressed.
xgo ==
    /\ Is("G") /\ pc' = "program"
    /\ UNCHANGED <<rx, editVars, keptVars, locals, userVars, seenVars>>

ProgramReturns ==
    /\ pc = "program" /\ Prompt
    /\ UNCHANGED <<rx, keptVars, userVars, seenVars>>

xtptest ==
    /\ Is("T") /\ pc' = "tptest"
    /\ UNCHANGED <<rx, editVars, keptVars, locals, userVars, seenVars>>

TpTestEnds ==
    /\ pc = "tptest" /\ \E c \in ToSet(rx) : Key(c)
    /\ Prompt
    /\ UNCHANGED <<keptVars, userVars, seenVars>>

Commanding == Nothing \/ xdump \/ DumpRow \/ DumpBreak \/ DumpEnd \/ xsubst \/ AnswerMoves
              \/ AnswerStores \/ AnswerEnds \/ xfill \/ xgo \/ xtptest \/ TpTestEnds

-----------------------------------------------------------------------------
\* xread, which takes a HEX file from the UART.

readKeeps == <<dumpVars, fileVars, userVars, shown, cut>>

xread ==
    /\ Is("R") /\ pc' = "colon" /\ seg' = RAM
    /\ UNCHANGED <<rx, editVars, keptVars, readVars, stored, readKeeps>>

Colon ==
    /\ pc = "colon"
    /\ \E c \in ToSet(rx) : Key(c) /\ pc' = IF c = ":" THEN "record" ELSE "colon"
    /\ bytes' = <<>> /\ nibble' = None
    /\ UNCHANGED <<editVars, keptVars, seg, stored, readKeeps>>

HalfByte ==
    /\ pc = "record" /\ nibble = None
    /\ \E c \in ToSet(rx) : Key(c) /\ nibble' = hx1(c)
    /\ UNCHANGED <<pc, editVars, keptVars, bytes, seg, stored, readKeeps>>

\* A record is its length, the two bytes of its offset, its type, data, sum.
\* b is byte i of it, whose second half comes.
ByteComes(i, b) ==
    /\ pc = "record" /\ nibble # None /\ i = Len(bytes) + 1
    /\ \E c \in ToSet(rx) : Key(c) /\ b = nibble * HEX + hx1(c)

Collect(b) == bytes' = Append(bytes, b) /\ nibble' = None

\* Mutant: neither an empty record nor an unknown one ends the file.
HeaderByteOn ==
    /\ \E i \in 1..4, b \in Byte : ByteComes(i, b) /\ Collect(b)
    /\ UNCHANGED <<pc, editVars, keptVars, dumpVars, seg, fileVars, userVars, seenVars>>

HeaderByte ==
    /\ \E i \in 1..4, b \in Byte :
         /\ ByteComes(i, b)
         /\ IF (i = 1 /\ b = 0) \/ (i = 4 /\ b \notin {0, LINEAR, ENTRY}) THEN Prompt
            ELSE Collect(b) /\ UNCHANGED <<pc, editVars, dumpVars, seg, fileVars>>
    /\ UNCHANGED <<keptVars, userVars, seenVars>>

\* The data of an address record; its length and its sum are not looked at.
SegmentByte ==
    /\ Len(bytes) >= 4 /\ bytes[4] \in {LINEAR, ENTRY}
    /\ \E i \in 5..9, b \in Byte :
         /\ ByteComes(i, b) /\ Collect(b)
         /\ seg' = CASE i = 6 -> hxword(bytes[5], b) * WORD
                     [] i = 8 -> seg + hxword(bytes[7], b)
                     [] OTHER -> seg
         /\ pc' = IF i = (IF bytes[4] = LINEAR THEN 7 ELSE 9) THEN "colon" ELSE "record"
         /\ STARTADDR' = IF i = 9 THEN seg ELSE STARTADDR
    /\ UNCHANGED <<editVars, datap, stored, readKeeps>>

\* Mutant: the segment is not added.
DataByteLow ==
    /\ Len(bytes) >= 4 /\ bytes[4] = 0
    /\ \E i \in 5..(4 + bytes[1]), b \in Byte :
         /\ ByteComes(i, b) /\ Collect(b)
         /\ stored' = Append(stored, <<(RAM + hxword(bytes[2], bytes[3]) + i - 5) % ADDR, b>>)
    /\ UNCHANGED <<pc, editVars, keptVars, seg, readKeeps>>

DataByte ==
    /\ Len(bytes) >= 4 /\ bytes[4] = 0
    /\ \E i \in 5..(4 + bytes[1]), b \in Byte :
         /\ ByteComes(i, b) /\ Collect(b)
         /\ stored' = Append(stored, <<(seg + hxword(bytes[2], bytes[3]) + i - 5) % ADDR, b>>)
    /\ UNCHANGED <<pc, editVars, keptVars, seg, readKeeps>>

SumByte ==
    /\ Len(bytes) >= 4 /\ bytes[4] = 0
    /\ \E b \in Byte :
         /\ ByteComes(5 + bytes[1], b)
         /\ IF SumOf(Append(bytes, b)) # 0 THEN Prompt
            ELSE pc' = "colon" /\ Collect(b) /\ UNCHANGED <<editVars, dumpVars, seg, fileVars>>
    /\ UNCHANGED <<keptVars, userVars, seenVars>>

Receiving == xread \/ Colon \/ HalfByte \/ HeaderByte \/ SegmentByte \/ DataByte \/ SumByte

-----------------------------------------------------------------------------
\* xsdread, which takes one from the card.  The card may not have it, or fail
\* at any place in it, which FatFs reports as its end for good.

xsdread ==
    /\ Is("!")
    /\ \/ Prompt /\ cut' = TRUE
       \/ /\ \E n \in 0..Len(CardFile) : sdfile' = SubSeq(CardFile, 1, n) /\ cut' = (n < Len(CardFile))
          /\ pc' = "file" /\ UNCHANGED <<editVars, dumpVars, readVars, seg, len>>
    /\ UNCHANGED <<rx, keptVars, userVars, stored, shown>>

\* f_read of n characters into the line; rc of them come.
f_read(n, rc) ==
    /\ rc = Least(n, Len(sdfile))
    /\ line' = [i \in 1..Room |-> IF i <= rc THEN sdfile[i] ELSE line[i]]

\* L_EOF after it, and the rest of the file otherwise.
GoOn(step, rc) ==
    /\ pc' = step /\ sdfile' = SubSeq(sdfile, rc + 1, Len(sdfile))
    /\ UNCHANGED <<inner, ct, echo, cursor, dumpVars, readVars>>

GetStart ==
    /\ pc = "file"
    /\ \E rc \in 0..1 :
         /\ f_read(1, rc)
         /\ IF rc < 1 THEN Return
            ELSE /\ GoOn(IF line'[1] \in Controls \cup {" "} THEN "file" ELSE "length", rc)
                 /\ UNCHANGED <<seg, len>>
    /\ UNCHANGED <<rx, keptVars, userVars, seenVars>>

GetLength ==
    /\ pc = "length"
    /\ \E rc \in 0..2 :
         /\ f_read(2, rc)
         /\ LET n == hxbyte(line'[1], line'[2])
            IN  IF rc < 2 \/ n \notin 1..LEN THEN Return
                ELSE len' = n /\ GoOn("rest", rc) /\ UNCHANGED seg
    /\ UNCHANGED <<rx, keptVars, userVars, seenVars>>

\* Mutant: the end of the line is read too.
RestOfMore(n) == 6 + n * 2 + 2 + 2

\* Offset, type, data and sum of a record.
RestOf(n) == 6 + n * 2 + 2

GetRecord ==
    /\ pc = "rest"
    /\ \E rc \in 0..RestOf(len) :
         LET part(i) == hxbyte(line'[2 * i - 1], line'[2 * i])
             word(i) == hxword(part(i), part(i + 1))
             upper   == word(4) * WORD
             whole   == rc = RestOf(len)
             start   == upper + word(6)
         IN  /\ f_read(RestOf(len), rc)
             /\ stored' = IF ~whole \/ part(3) # 0 THEN stored
                          ELSE stored \o [i \in 1..len |->
                                            <<(seg + word(1) + i - 1) % ADDR, part(3 + i)>>]
             /\ STARTADDR' = IF whole /\ part(3) = ENTRY THEN start ELSE STARTADDR
             /\ IF rc > LINE THEN pc' = "overrun" /\ UNCHANGED <<inner, ct, echo, cursor, locals>>
                ELSE IF ~whole \/ part(3) \notin {0, LINEAR, ENTRY} THEN Return
                ELSE IF part(3) = 0 /\ SumOf(<<len>> \o [i \in 1..(len + 4) |-> part(i)]) # 0
                     THEN Return
                ELSE /\ GoOn("file", rc) /\ UNCHANGED len
                     /\ seg' = CASE part(3) = LINEAR -> upper [] part(3) = ENTRY -> start
                                 [] OTHER -> seg
    /\ UNCHANGED <<rx, datap, userVars, shown, cut>>

Loading == xsdread \/ GetStart \/ GetLength \/ GetRecord

Begin ==
    /\ script = <<>> /\ given < MaxCommands /\ lost = 0 /\ given' = given + 1
    /\ cmd' \in IF given = 0 THEN Commands ELSE Followers
    /\ script' = TextOf[cmd']
    /\ clean' = (pc = "getline" /\ ~inner /\ ct = 0 /\ rx = <<>>) /\ begin' = datap
    /\ stored' = <<>> /\ shown' = {} /\ cut' = FALSE
    /\ UNCHANGED <<rx, pc, editVars, keptVars, locals, lost>>

\* A full queue takes no more.
Press ==
    /\ script # <<>> /\ script' = Tail(script)
    /\ IF Len(rx) < FifoDepth THEN rx' = Append(rx, Head(script)) /\ UNCHANGED <<lost, clean>>
       ELSE cmd.kind \in Lossy /\ lost < MaxLost /\ lost' = lost + 1 /\ clean' = FALSE /\ UNCHANGED rx
    /\ UNCHANGED <<pc, editVars, keptVars, locals, cmd, given, begin, seenVars>>

Next == Editing \/ Commanding \/ ProgramReturns \/ Receiving \/ Loading \/ Begin \/ Press
Spec == Init /\ [][Next]_vars

\* The monitor goes on, and a command begun is typed to its end.
FairSpec == Spec /\ WF_vars(Editing \/ Commanding \/ Receiving \/ Loading) /\ WF_vars(Press)

-----------------------------------------------------------------------------
\* Properties.

\* The command was typed and answered, and nothing is left to be read.
Done == clean /\ script = <<>> /\ rx = <<>> /\ pc = "getline" /\ ~inner /\ ct = 0

\* What the terminal shows of the line is what the command will be given, but
\* for capitals, whatever was rubbed out.
EchoShowsLine == pc = "getline" =>
    /\ cursor = ct /\ Len(echo) >= ct
    /\ \A i \in DOMAIN echo : IF i <= ct THEN ToUpper(echo[i]) = line[i] ELSE echo[i] = " "

\* A dump shows every address from its begin to its end, whole rows of them,
\* and no other, up to the top of the address space and not around it; the next
\* dump goes on behind it.  (So close to the top that a dump of ROWS rows would
\* pass it, one without an end shows nothing.)
DumpShows == clean /\ cmd.kind = "D" =>
    LET first == InRam(IF cmd.from = None THEN begin ELSE cmd.from)
        last  == IF cmd.to # None THEN InRam(cmd.to)
                 ELSE IF first + ROW * ROWS > ADDR THEN 0 ELSE first + ROW * ROWS - 1
        size  == IF last < first THEN 0 ELSE ROW * ((last - first) \div ROW + 1)
        want  == {(first + i) % ADDR : i \in 0..(size - 1)}
    IN  /\ shown \subseteq want
        /\ Done => shown = want /\ datap = (first + size) % ADDR

\* A fill stores its byte from begin to end once each; with the end before the
\* begin it goes on at the top of the address space and around, unless the end
\* is just before the begin: then, and so for all of the address space, nothing.
FillExact == Done /\ cmd.kind = "F" =>
    LET Run(a, b) == [i \in 1..(IF a <= b THEN b - a + 1 ELSE 0) |-> <<a + i - 1, cmd.byte % BYTE>>]
    IN  stored = IF cmd.from = (cmd.to + 1) % ADDR THEN <<>>
                 ELSE IF cmd.from <= cmd.to THEN Run(cmd.from, cmd.to)
                 ELSE Run(cmd.from, ADDR - 1) \o Run(0, cmd.to)

\* The answers to a set command act on successive addresses.
SubstExact == Done /\ cmd.kind = "S" =>
    LET At[i \in DOMAIN cmd.answers] ==
          IF i = 1 THEN InRam(cmd.from)
          ELSE IF cmd.answers[i - 1] = Back THEN At[i - 1] - 1 ELSE At[i - 1] + 1
        answered == {i \in DOMAIN cmd.answers : cmd.answers[i] >= 0}
    IN  /\ Len(stored) = Cardinality(answered)
        /\ \A i \in answered : stored[Cardinality({h \in answered : h <= i})]
                                   = <<At[i] % ADDR, cmd.answers[i] % BYTE>>

\* The commands that touch memory do to it what the line typed says, at both ends
\* of the address space too.
CommandsExact == DumpShows /\ FillExact /\ SubstExact

\* The memory image of a HEX file, up to the record that ends it: one without
\* data, of unknown type, too long, or wrong, which is stored all the same.
Reads(r, limit) == Len(r.data) \in 1..limit /\ r.type \in {0, LINEAR, ENTRY}
Ends(f, limit)  == {i \in DOMAIN f : ~Reads(f[i], limit) \/ (f[i].type = 0 /\ f[i].bad)}
LastOf(f, limit) == IF Ends(f, limit) = {} THEN Len(f)
                    ELSE CHOOSE i \in Ends(f, limit) : \A j \in Ends(f, limit) : i <= j

\* Where the data of record i lie, after the address record last before it.
BaseOf(f, i) ==
    LET above == {j \in 1..(i - 1) : f[j].type # 0}
    IN  IF above = {} THEN RAM
        ELSE LET r == f[CHOOSE j \in above : \A h \in above : h <= j]
                 w == hxword(r.data[1], r.data[2]) * WORD
             IN  IF r.type = LINEAR THEN w ELSE w + hxword(r.data[3], r.data[4])

PartOf(f, i, limit) ==
    IF f[i].type # 0 \/ ~Reads(f[i], limit) THEN <<>>
    ELSE [h \in 1..Len(f[i].data) |-> <<(BaseOf(f, i) + f[i].off + h - 1) % ADDR, f[i].data[h]>>]

Image(f, limit) == FlattenSeq([i \in 1..LastOf(f, limit) |-> PartOf(f, i, limit)])

\* The images of the files as the two loaders see them, and of their first
\* records.
Sent   == [f \in Files |-> Image(f, BYTE)]
Stored == [f \in Files |-> [n \in 0..Len(f) |-> Image(SubSeq(f, 1, n), LEN)]]

\* A file sent to xread is in memory when the monitor answers again, nothing
\* else is, and on the way there never was anything but the beginning of it.
\* What the loader leaves unread of the file, and the monitor takes for
\* commands, changes no more.
SentIsLoaded == clean /\ cmd.kind = "R" =>
    /\ IsPrefix(stored, Sent[cmd.file])
    /\ Done => stored = Sent[cmd.file]

\* So is a file on the card, unless the card fails; then whole records of it.
FileIsLoaded == clean /\ cmd.kind = "!" /\ pc # "overrun" =>
    /\ \E n \in 0..Len(cmd.file) : stored = Stored[cmd.file][n]
    /\ Done /\ ~cut => stored = Stored[cmd.file][Len(cmd.file)]

\* Either way a program in memory is the one that was sent, or a beginning of it.
FilesLoaded == SentIsLoaded /\ FileIsLoaded

\* The line is written past its end by a line too long or by a record of a file
\* of more than (LINE - 8) / 2 bytes, which LEN admits, and by nothing else.
OverrunByLong == pc = "overrun" =>
    ct = LINE \/ 2 * len + 8 > LINE

\* Every command but the two that wait for more ends at the prompt, a dump to
\* the top of the address space too.
Answers == (clean /\ cmd.kind \notin {"G", "T"} /\ script # <<>>) ~> (Done \/ ~clean \/ pc = "overrun")
=============================================================================
