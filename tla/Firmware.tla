------------------------------ MODULE Firmware ------------------------------
(***************************************************************************)
(* The start of the firmware and its services: main of src/briey/main.c    *)
(* step by step, with the UART of uart.c, the display of vga.c, the output *)
(* of xprintf.c and the symbol table, and the programs that use them when  *)
(* the monitor has loaded one.  The UART's transmit queue and the display  *)
(* controller run beside the processor and may be busy with what a run     *)
(* before a warm boot left them.                                           *)
(***************************************************************************)
EXTENDS SymTable, Xprintf

CONSTANTS
    Exports,        \* the names main registers, in order
    AddressOf,      \* the address of each
    TableAddress,   \* of _SYMTABLE
    Lines,          \* the formats of the lines main prints
    SavedWords,     \* what sys_mepc and its like may hold
    FifoDepth,      \* of the UART
    RES_X, RES_Y,   \* of the display, in pixels of half a word
    Calls,          \* the xprintf calls of programs
    MaxEdits,       \* bound on a program's changes of the symbol table
    OwnNames, OwnAddresses,     \* what programs look up and add
    Texts           \* what programs print by uart_puts

ASSUME ExportsAreNames == Exports \in Seq(Names) /\ AddressOf \in [DOMAIN Exports -> Addresses]
\* The table has room for main's names, which are told apart by what it keeps of them.
ASSUME ExportsFit ==
    /\ Len(Exports) \in 1..SYMTABLESIZ
    /\ \A i, j \in DOMAIN Exports : i # j => KeyFor(Exports[i]) # KeyFor(Exports[j])
ASSUME OwnAreNames == OwnNames \subseteq Names /\ OwnAddresses \subseteq Addresses
ASSUME DisplaySizes == RES_X % 2 = 0 /\ RES_X \in Nat \ {0} /\ RES_Y \in Nat \ {0}
ASSUME FifoHoldsSome == FifoDepth \in Nat \ {0}

VARIABLES
    pc,             \* the step of main, "monitor" when it is done
    k,              \* the number of the next name or line
    clockDivider,   \* of the UART
    tx, wire,       \* its transmit queue, and (history) what it has sent
    vga,            \* the display controller
    frame,          \* the frame buffer, by words; 1 is a picture of before
    text,           \* what console_putc was given since the screen was cleared
    xfunc_out,
    SYMTABLETOP,
    todo,           \* characters still to put, and by which function
    said,           \* history: everything to be put
    program, call,  \* the kind of program that runs, and its last xprintf call
    edits           \* history: its changes of the symbol table

screenVars == <<clockDivider, vga, frame>>
outVars    == <<tx, wire, text, todo, said>>
tableVars  == <<symVars, SYMTABLETOP>>
vars       == <<pc, k, screenVars, outVars, xfunc_out, tableVars, program, call, edits>>

Word == 0..((RES_X * RES_Y) \div 2 - 1)
NoCall == [flag |-> <<"none">>]

Init ==
    /\ SymInit /\ SYMTABLETOP = 0
    /\ pc = "uart_init" /\ k = 1 /\ clockDivider \in {0, 53}
    /\ tx \in {<<>>, <<"old">>} /\ wire = <<>> /\ said = tx
    /\ \E run, busy \in BOOLEAN :
         vga = [run |-> run, busy |-> busy \/ run, timing |-> "unset", size |-> 0]
    /\ frame = [w \in Word |-> 1]
    /\ text = <<"old">> /\ xfunc_out = "NULL" /\ todo = <<>>
    /\ program = "none" /\ call = NoCall /\ edits = 0

Goto(step) == pc' = step /\ UNCHANGED k

-----------------------------------------------------------------------------
\* The hardware (external).

Send ==
    /\ tx # <<>>
    /\ wire' = Append(wire, Head(tx)) /\ tx' = Tail(tx)
    /\ UNCHANGED <<pc, k, screenVars, text, todo, said, xfunc_out, tableVars, program, call, edits>>

\* The controller ends its frame before it is idle.
FrameEnds ==
    /\ vga.busy # vga.run
    /\ vga' = [vga EXCEPT !.busy = vga.run]
    /\ UNCHANGED <<pc, k, clockDivider, frame, outVars, xfunc_out, tableVars, program, call, edits>>

-----------------------------------------------------------------------------
\* The steps of main before it prints.

\* uart_init; the divider is 50000000/8/115200-1.
UartInit ==
    /\ pc = "uart_init" /\ Goto("vga_stop")
    /\ clockDivider' = 53
    /\ UNCHANGED <<vga, frame, outVars, xfunc_out, tableVars, program, call, edits>>

vga_stop ==
    /\ pc = "vga_stop" /\ Goto("vga_set")
    /\ vga' = [vga EXCEPT !.run = FALSE]
    /\ UNCHANGED <<clockDivider, frame, outVars, xfunc_out, tableVars, program, call, edits>>

\* The end of vga_stop's wait, the registers, and vga_run.
VgaSet ==
    /\ pc = "vga_set" /\ ~vga.busy /\ Goto("vga_clear")
    /\ vga' = [vga EXCEPT !.timing = "h800_v480_r60", !.size = RES_X * RES_Y * 2 - 1, !.run = TRUE]
    /\ UNCHANGED <<clockDivider, frame, outVars, xfunc_out, tableVars, program, call, edits>>

vga_clear ==
    /\ pc = "vga_clear" /\ Goto("console_clear")
    /\ frame' = [w \in Word |-> IF w < RES_Y * (RES_X \div 2) THEN 0 ELSE frame[w]]
    /\ UNCHANGED <<clockDivider, vga, outVars, xfunc_out, tableVars, program, call, edits>>

ConsoleClear ==
    /\ pc = "console_clear" /\ Goto("xdev_out")
    /\ text' = <<>>
    /\ UNCHANGED <<screenVars, tx, wire, todo, said, xfunc_out, tableVars, program, call, edits>>

\* Mutant: the device is not set.
XdevOutForgotten ==
    /\ pc = "xdev_out" /\ Goto("symt_init")
    /\ UNCHANGED <<screenVars, outVars, xfunc_out, tableVars, program, call, edits>>

xdev_out ==
    /\ pc = "xdev_out" /\ Goto("symt_init")
    /\ xfunc_out' = "putcon"
    /\ UNCHANGED <<screenVars, outVars, tableVars, program, call, edits>>

symt_init ==
    /\ pc = "symt_init" /\ Goto("symt_clear")
    /\ SYMTABLETOP' = TableAddress
    /\ UNCHANGED <<screenVars, outVars, xfunc_out, symVars, program, call, edits>>

MainClears ==
    /\ pc = "symt_clear" /\ Goto("symt_put")
    /\ symt_clear
    /\ UNCHANGED <<screenVars, outVars, xfunc_out, SYMTABLETOP, program, call, edits>>

\* Mutant: the same name again and again.
MainPutsFirst ==
    /\ pc = "symt_put"
    /\ symt_put(Exports[k], AddressOf[k])
    /\ IF k < Len(Exports) THEN UNCHANGED <<k, pc>> ELSE k' = 1 /\ pc' = "print"
    /\ UNCHANGED <<screenVars, outVars, xfunc_out, SYMTABLETOP, program, call, edits>>

MainPuts ==
    /\ pc = "symt_put"
    /\ symt_put(Exports[k], AddressOf[k])
    /\ IF k < Len(Exports) THEN k' = k + 1 /\ UNCHANGED pc ELSE k' = 1 /\ pc' = "print"
    /\ UNCHANGED <<screenVars, outVars, xfunc_out, SYMTABLETOP, program, call, edits>>

-----------------------------------------------------------------------------
\* Output.  by tells the function every character goes to.

Job(chars, by) == todo' = [i \in DOMAIN chars |-> [char |-> chars[i], by |-> by]]

\* xprintf through xputc; without a device the characters are dropped.
Emits(chars) ==
    /\ said' = said \o chars
    /\ IF xfunc_out = "NULL" THEN UNCHANGED todo ELSE Job(chars, xfunc_out)

\* Mutant: the queue is not asked for room, and a full one takes nothing.
UartWriteBlind ==
    /\ todo # <<>> /\ Head(todo).by # "console"
    /\ tx' = IF Len(tx) < FifoDepth THEN Append(tx, Head(todo).char) ELSE tx
    /\ todo' = IF Head(todo).by = "putcon" THEN [todo EXCEPT ![1].by = "console"] ELSE Tail(todo)
    /\ UNCHANGED <<pc, k, screenVars, wire, text, said, xfunc_out, tableVars, program, call, edits>>

\* uart_write, the first half of putcon, and uart_putc.
UartWrite ==
    /\ todo # <<>> /\ Head(todo).by # "console" /\ Len(tx) < FifoDepth
    /\ tx' = Append(tx, Head(todo).char)
    /\ todo' = IF Head(todo).by = "putcon" THEN [todo EXCEPT ![1].by = "console"] ELSE Tail(todo)
    /\ UNCHANGED <<pc, k, screenVars, wire, text, said, xfunc_out, tableVars, program, call, edits>>

\* console_putc, the second half.
PutConsole ==
    /\ todo # <<>> /\ Head(todo).by = "console"
    /\ text' = Append(text, Head(todo).char)
    /\ todo' = Tail(todo)
    /\ UNCHANGED <<pc, k, screenVars, tx, wire, said, xfunc_out, tableVars, program, call, edits>>

Putting == UartWrite \/ PutConsole

\* What line i of main prints: the saved words of the trap before, and the
\* address SYSCALL 4000 gives programs.
LineOf == [i \in DOMAIN Lines |->
             [w \in SavedWords \cup {0, TableAddress} |->
                CrLf(xvprintf(Lines[i], IF i < Len(Lines) THEN <<w>> ELSE <<4000, w>>))]]

MainPrints ==
    /\ pc = "print" /\ todo = <<>>
    /\ \E w \in IF k < Len(Lines) THEN SavedWords ELSE {SYMTABLETOP} : Emits(LineOf[k][w])
    /\ IF k < Len(Lines) THEN k' = k + 1 /\ UNCHANGED pc ELSE Goto("monitor")
    /\ UNCHANGED <<screenVars, tx, wire, text, xfunc_out, tableVars, program, call, edits>>

Main == UartInit \/ vga_stop \/ VgaSet \/ vga_clear \/ ConsoleClear \/ xdev_out
        \/ symt_init \/ MainClears \/ MainPuts \/ MainPrints

-----------------------------------------------------------------------------
\* Programs (external), which find the table by SYSCALL 4000: one that prints,
\* and one that looks names up and adds its own.  The first waits for the queue
\* to drain after each call, and the histories begin anew.

Load(kind) ==
    /\ pc = "monitor" /\ todo = <<>> /\ program = "none"
    /\ program' = kind
    /\ text' = <<>> /\ wire' = <<>> /\ said' = tx
    /\ UNCHANGED <<pc, k, screenVars, tx, todo, xfunc_out, tableVars, call, edits>>

\* The format of a call: one conversion between two marks.
FormatOf(c) == <<"<", "%">> \o c.flag \o c.width \o <<c.type, ">">>
ArgsOf(c)   == IF c.width = <<"*">> THEN <<c.star, c.arg>> ELSE <<c.arg>>

\* A width is a number without a zero before it, or a star.
ASSUME CallsAreWellFormed == \A c \in Calls :
    /\ c.flag \in {<<>>, <<"0">>, <<"-">>}
    /\ c.width = <<"*">> => c.star \in 0..(WordSize - 1)
    /\ c.width # <<"*">> => c.width \in Seq(ToSet(Figure)) /\ (c.width # <<>> => c.width[1] # "0")
    /\ c.type \in {"s", "d", "u", "x", "X", "b", "o"}
    /\ c.type = "s" => c.arg \in Seq(STRING) /\ \A i \in DOMAIN c.arg : c.arg[i] \notin {" ", "LF"}
    /\ c.type # "s" => c.arg \in 0..(WordSize - 1)

Printed     == [c \in Calls |-> CrLf(xvprintf(FormatOf(c), ArgsOf(c)))]

ProgramPrints ==
    /\ program = "printer" /\ said = <<>>
    /\ call' \in Calls
    /\ Job(Printed[call'], xfunc_out) /\ said' = Printed[call']
    /\ UNCHANGED <<pc, k, screenVars, tx, wire, text, xfunc_out, tableVars, program, edits>>

\* uart_puts, past the console.
ProgramPuts ==
    /\ program = "printer" /\ said = <<>>
    /\ \E s \in Texts : Job(s, "uart") /\ said' = s
    /\ UNCHANGED <<pc, k, screenVars, tx, wire, text, xfunc_out, tableVars, program, call, edits>>

ProgramGoesOn ==
    /\ program = "printer" /\ todo = <<>> /\ tx = <<>>
    /\ call' = NoCall /\ text' = <<>> /\ wire' = <<>> /\ said' = <<>>
    /\ UNCHANGED <<pc, k, screenVars, tx, todo, xfunc_out, tableVars, program, edits>>

ProgramLinks ==
    /\ program = "linker"
    /\ \/ /\ \E n \in OwnNames : symt_get(n)
          /\ UNCHANGED edits
       \/ /\ edits < MaxEdits /\ edits' = edits + 1
          /\ symt_clear \/ \E n \in OwnNames, a \in OwnAddresses : symt_put(n, a)
    /\ UNCHANGED <<pc, k, screenVars, outVars, xfunc_out, SYMTABLETOP, program, call>>

\* What is printed is text, and no line of main is empty.
ASSUME OutputIsText ==
    /\ Len(Lines) \in Nat \ {0} /\ DOMAIN Lines = 1..Len(Lines)
    /\ \A l \in DOMAIN Lines, w \in SavedWords \cup {0, TableAddress} :
         LineOf[l][w] \in Seq(STRING) \ {<<>>}
    /\ \A c \in Calls : Printed[c] \in Seq(STRING)
    /\ Texts \subseteq Seq(STRING)

Program == Load("printer") \/ Load("linker") \/ ProgramPrints \/ ProgramPuts \/ ProgramGoesOn
           \/ ProgramLinks

Next == Send \/ FrameEnds \/ Main \/ Putting \/ Program
Spec == Init /\ [][Next]_vars
FairSpec == Spec /\ WF_vars(Send) /\ WF_vars(FrameEnds) /\ WF_vars(Main) /\ WF_vars(Putting)

-----------------------------------------------------------------------------
\* Properties.

\* Nothing printed is lost or reordered on its way through the transmit queue,
\* however slow the line is and whatever it still held; nothing is printed
\* before there is a device for it.
Chars(jobs) == [i \in DOMAIN jobs |-> jobs[i].char]
OnTheWire ==
    LET sent == todo # <<>> /\ Head(todo).by = "console"
    IN  wire \o tx \o Chars(IF sent THEN Tail(todo) ELSE todo) = said

\* What main leaves behind, from whatever state it started in.  The screen shows
\* all of its report and nothing else; every name it registered leads to its own
\* function, though the table keeps twelve characters of it; what the display
\* shows from the frame buffer has been cleared, all of it.
ReportOnScreen == program = "none" /\ todo = <<>> =>
    /\ text # <<>>
    /\ text = said \/ <<"old">> \o text = said
ExportsFound == program # "linker" =>
    \A i \in DOMAIN Exports : /\ Find(Exports[i]) # 0
                              /\ table[Find(Exports[i])].address = AddressOf[i]
FrameCleared == \A w \in Word : 4 * w <= vga.size => frame[w] = 0
StartedUp == pc = "monitor" => ReportOnScreen /\ ExportsFound /\ FrameCleared

\* The field a call printed, between its marks, the number it reads as, whatever
\* else is in it, and what of it is not blank.
Field == SubSeq(text, 2, Len(text) - 1)
Digits == ToSet(Figure) \cup ToSet(Upper) \cup ToSet(Lower)
ValueOf(c) == IF IsFigure(c) THEN FigureOf(c)
              ELSE 9 + CHOOSE i \in 1..6 : Upper[i] = c \/ Lower[i] = c
Read(s, r) ==
    LET sum[n \in 0..Len(s)] == IF n = 0 THEN 0
                                ELSE IF s[n] \in Digits THEN sum[n - 1] * r + ValueOf(s[n]) ELSE sum[n - 1]
    IN  IF "-" \in ToSet(s) THEN -sum[Len(s)] ELSE sum[Len(s)]
Kept(s) ==
    LET kept[n \in 0..Len(s)] == IF n = 0 THEN <<>>
                                 ELSE IF s[n] = " " THEN kept[n - 1] ELSE Append(kept[n - 1], s[n])
    IN  kept[Len(s)]

\* xprintf prints the argument: the field reads as its value in the radix
\* asked for, is as wide as asked and no wider than it must, and filled on the
\* side asked for.  (A minus sign may stand behind zeros.)
PrintsTheValue == call # NoCall /\ todo = <<>> =>
    LET want  == IF call.width = <<"*">> THEN Signed(call.star) ELSE NumberOf(call.width)
        least == IF want < 0 THEN -want ELSE want
        left  == want < 0 \/ call.flag = <<"-">>
    IN  /\ Len(Field) >= least
        /\ least > 0 /\ ~(call.type = "s" /\ call.arg = <<>>) => Field[IF left THEN 1 ELSE Len(Field)] # " "
        /\ CASE call.type = "s" -> Kept(Field) = call.arg
             [] call.type = "d" -> Read(Field, 10) = Signed(call.arg)
             [] OTHER -> Read(Field, Radix(TypeOf(call.type))) = call.arg
        /\ Len(Field) > least /\ call.type # "s" =>
              \/ Field = <<"0">>
              \/ Field[1] \notin {"0", " "} /\ Field[Len(Field)] # " "
        /\ call.flag = <<"0">> /\ want > 0 /\ call.type # "s" => " " \notin ToSet(Field)

\* The start-up reaches the monitor, whatever state the UART and the display are in.
BootEnds == <>(pc = "monitor")
=============================================================================
