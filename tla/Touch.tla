------------------------------- MODULE Touch -------------------------------
(***************************************************************************)
(* The touch panel as the program sees it: the sampler of src/tpi2c.v (by  *)
(* its abstract specification TpSampler), the millisecond timer, the timer *)
(* interrupt of src/briey/traphandler.c and the monitor's touch test       *)
(* xtptest of src/briey/deb.c, which the interrupt may stop between any    *)
(* two of its reads.  One action is one access to a device register.       *)
(***************************************************************************)
EXTENDS TpSampler

CONSTANTS
    MainPrompt          \* xtptest ends its reads before a conversion begun
                        \* meanwhile delivers

ASSUME TouchTiming == MainPrompt \in BOOLEAN
ASSUME SampleNumbers == Word \subseteq 0..4095 /\ Zero = 0 /\ AllOnes = 4095

VARIABLES
    pending,            \* TIMER_INTERRUPT->PENDINGS
    ipc, reg, timerPending, TPOK,      \* the interrupt handler and its locals
    TPX, TPY, TPEN,     \* the touch registers of top.v
    mpc, mreg,          \* xtptest and its locals
    last,               \* history: the triple of the last whole conversion
    fresh,              \* history: no interrupt has reported that triple
    spanned             \* history: a trigger hit between xtptest's reads

isrVars   == <<ipc, reg, timerPending, TPOK>>
touchRegs == <<TPX, TPY, TPEN>>
mainVars  == <<mpc, mreg, spanned>>
history   == <<last, fresh>>
vars      == <<svars, pending, isrVars, touchRegs, mainVars, history>>

SENSE == 120
TPXS == 176
TPXE == 3904
TPYS == 336
TPYE == 3940

\* Mutant: one scale for both axes.
ScreenXOfY(x) == ((x - TPXS) * 800) \div (TPYE - TPYS)

ScreenX(x) == ((x - TPXS) * 800) \div (TPXE - TPXS)
ScreenY(y) == ((y - TPYS) * 480) \div (TPYE - TPYS)

\* Mutant: no test of the position.
MainTouchedPartly(r) == r["Z"] > SENSE

\* The handler's test of its three reads, and xtptest's, whose bounds are inclusive.
Touched(r) == /\ r["Z"] > SENSE
              /\ r["X"] > TPXS /\ r["X"] < TPXE
              /\ r["Y"] > TPYS /\ r["Y"] < TPYE
MainTouched(r) == /\ r["Z"] > SENSE
                  /\ r["X"] >= TPXS /\ r["X"] <= TPXE
                  /\ r["Y"] >= TPYS /\ r["Y"] <= TPYE

NoReads == [a \in Axis |-> 0]

Init ==
    /\ SInit
    /\ pending = FALSE
    /\ ipc = "off" /\ reg = NoReads /\ timerPending = FALSE /\ TPOK = 0
    /\ TPX = 0 /\ TPY = 0 /\ TPEN = 0
    /\ mpc = "Z" /\ mreg = NoReads
    /\ last = NoReads /\ fresh = FALSE /\ spanned = FALSE

-----------------------------------------------------------------------------
\* The hardware.

Sample ==
    /\ MainPrompt => ~(spanned /\ mpc # "Z")
    /\ Convert
    /\ IF phase = "Y" THEN last' = data' /\ fresh' = TRUE
                      ELSE UNCHANGED history
    /\ UNCHANGED <<pending, isrVars, touchRegs, mainVars>>

TimerTick ==
    /\ pending' = TRUE
    /\ UNCHANGED <<svars, isrVars, touchRegs, mainVars, history>>

-----------------------------------------------------------------------------
\* irqCallback, entered with interrupts off.

\* Mutant: the panel is triggered before its last samples are read.
IrqEnterTriggers ==
    /\ ipc = "off" /\ pending
    /\ ipc' = "Z"
    /\ \/ Trigger /\ spanned' = TRUE
       \/ phase # "idle" /\ UNCHANGED <<svars, spanned>>
    /\ UNCHANGED <<pending, reg, timerPending, TPOK, touchRegs, mpc, mreg, history>>

IrqEnter ==
    /\ ipc = "off" /\ pending
    /\ ipc' = "Z"
    /\ UNCHANGED <<svars, pending, reg, timerPending, TPOK, touchRegs, mainVars, history>>

\* The reads of NS2009_DATAZ1, DATAX and DATAY, and the test after the last.
IrqRead(a) ==
    /\ ipc = a
    /\ reg' = [reg EXCEPT ![a] = data[a]]
    /\ CASE a = "Z" -> ipc' = "X" /\ UNCHANGED TPOK
         [] a = "X" -> ipc' = "Y" /\ UNCHANGED TPOK
         [] a = "Y" -> IF Touched(reg') THEN ipc' = "TPX" /\ TPOK' = 1
                                        ELSE ipc' = "TPEN" /\ TPOK' = 0
    /\ fresh' = IF a = "Y" /\ Touched(reg') THEN FALSE ELSE fresh
    /\ UNCHANGED <<svars, pending, timerPending, touchRegs, mainVars, last>>

IrqWriteX ==
    /\ ipc = "TPX" /\ ipc' = "TPY"
    /\ TPX' = ScreenX(reg["X"])
    /\ UNCHANGED <<svars, pending, reg, timerPending, TPOK, TPY, TPEN, mainVars, history>>

IrqWriteY ==
    /\ ipc = "TPY" /\ ipc' = "TPEN"
    /\ TPY' = ScreenY(reg["Y"])
    /\ UNCHANGED <<svars, pending, reg, timerPending, TPOK, TPX, TPEN, mainVars, history>>

\* Mutant: the pressure written for the flag.
IrqWritePressure ==
    /\ ipc = "TPEN" /\ ipc' = "trigger"
    /\ TPEN' = reg["Z"]
    /\ UNCHANGED <<svars, pending, reg, timerPending, TPOK, TPX, TPY, mainVars, history>>

IrqWriteEn ==
    /\ ipc = "TPEN" /\ ipc' = "trigger"
    /\ TPEN' = TPOK
    /\ UNCHANGED <<svars, pending, reg, timerPending, TPOK, TPX, TPY, mainVars, history>>

\* Mutant: no trigger after a touch.
IrqTriggerUntouched ==
    /\ ipc = "trigger" /\ ipc' = "pendings"
    /\ \/ TPOK = 0 /\ Trigger /\ spanned' = TRUE
       \/ (TPOK = 1 \/ phase # "idle") /\ UNCHANGED <<svars, spanned>>
    /\ UNCHANGED <<pending, reg, timerPending, TPOK, touchRegs, mpc, mreg, history>>

\* NS2009_STATE = 0: a trigger, dropped by a busy sampler.
IrqTrigger ==
    /\ ipc = "trigger" /\ ipc' = "pendings"
    /\ \/ Trigger /\ spanned' = TRUE
       \/ phase # "idle" /\ UNCHANGED <<svars, spanned>>
    /\ UNCHANGED <<pending, reg, timerPending, TPOK, touchRegs, mpc, mreg, history>>

IrqReadPendings ==
    /\ ipc = "pendings" /\ ipc' = "clear"
    /\ timerPending' = pending
    /\ UNCHANGED <<svars, pending, reg, TPOK, touchRegs, mainVars, history>>

\* Writing the read value back clears what it names; a tick between the two
\* is cleared with it.
IrqClearPendings ==
    /\ ipc = "clear" /\ ipc' = "off"
    /\ pending' = (pending /\ ~timerPending)
    /\ UNCHANGED <<svars, reg, timerPending, TPOK, touchRegs, mainVars, history>>

Irq == \/ IrqEnter \/ \E a \in Axis : IrqRead(a)
       \/ IrqWriteX \/ IrqWriteY \/ IrqWriteEn
       \/ IrqTrigger \/ IrqReadPendings \/ IrqClearPendings

-----------------------------------------------------------------------------
\* One round of xtptest: three reads, then the test and the print.

MainRead(a) ==
    /\ ipc = "off" /\ mpc = a
    /\ mreg' = [mreg EXCEPT ![a] = data[a]]
    /\ mpc' = CASE a = "Z" -> "X" [] a = "X" -> "Y" [] a = "Y" -> "print"
    /\ spanned' = IF a = "Z" THEN FALSE ELSE spanned
    /\ UNCHANGED <<svars, pending, isrVars, touchRegs, history>>

MainPrint ==
    /\ ipc = "off" /\ mpc = "print"
    /\ mpc' = "Z"
    /\ UNCHANGED <<svars, pending, isrVars, touchRegs, mreg, spanned, history>>

Main == MainPrint \/ \E a \in Axis : MainRead(a)

Next == Sample \/ TimerTick \/ Irq \/ Main
Spec == Init /\ [][Next]_vars

\* The hardware keeps converting and ticking; the processor keeps running.
FairSpec == Spec /\ WF_vars(Sample) /\ WF_vars(TimerTick /\ ~pending)
                 /\ WF_vars(Irq) /\ WF_vars(Main)

-----------------------------------------------------------------------------
\* Properties.

Flags ==
    /\ present \in BOOLEAN /\ pending \in BOOLEAN /\ timerPending \in BOOLEAN
    /\ fresh \in BOOLEAN /\ spanned \in BOOLEAN
Numbers ==
    /\ phase \in Axis \cup {"idle"} /\ data \in [Axis -> Word] /\ dirty = 0
    /\ TPOK \in {0, 1} /\ TPEN \in {0, 1}
    /\ ipc \in Axis \cup {"off", "TPX", "TPY", "TPEN", "trigger", "pendings", "clear"}
    /\ mpc \in Axis \cup {"print"}
    /\ reg \in [Axis -> Word] /\ mreg \in [Axis -> Word] /\ last \in [Axis -> Word]
Registers == TPX \in 0..65535 /\ TPY \in 0..65535
TypeOK == Flags /\ Numbers /\ Registers

Reporting == ipc \in {"TPX", "TPY", "TPEN"} /\ TPOK = 1

\* The handler takes three separate reads of registers a conversion is writing;
\* a triple it accepts is nevertheless the triple of one whole conversion.
ReportIsOneConversion == Reporting => reg = last

\* No conversion is reported by two interrupts: an accepted triple is always
\* followed by a trigger that is not dropped.
ReportedOnce ==
    [][\A a \in Axis : IrqRead(a) /\ a = "Y" /\ Touched(reg') => fresh]_vars

\* The touch registers hold a point of the 800 x 480 screen; the pair they
\* show outside the handler's two writes is that of one accepted triple.
PointOnScreen ==
    /\ TPX < 800 /\ TPY < 480
    /\ ipc = "TPEN" /\ TPOK = 1 => TPX = ScreenX(last["X"]) /\ TPY = ScreenY(last["Y"])

\* xtptest prints triples of one conversion too, as long as the processor gets
\* through its reads before a conversion started meanwhile delivers.
PrintIsOneConversion == mpc = "print" /\ MainTouched(mreg) => mreg = last

\* A touch held inside the active area is reported again and again, as long as
\* a conversion has ended when the next tick comes.
Prompt == <>[][TimerTick => phase = "idle"]_vars
HeldTouchReported == present /\ Prompt /\ <>[]Touched(last) => []<>Reporting
=============================================================================
