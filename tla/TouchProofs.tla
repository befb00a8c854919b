---------------------------- MODULE TouchProofs ----------------------------
(***************************************************************************)
(* Proofs about Touch, for every set of samples and with no assumption on  *)
(* how the interrupt, the sampler and the ticks interleave.                *)
(***************************************************************************)
EXTENDS Touch, TLAPS

USE DEF Axis, SENSE, TPXS, TPXE, TPYS, TPYE

\* The types the argument needs.
Types ==
    /\ phase \in Axis \cup {"idle"}
    /\ data \in [Axis -> Nat] /\ reg \in [Axis -> Nat]

\* What is not yet delivered is zero; what is delivered whole is the last triple.
SamplerInv ==
    /\ phase = "idle" => data = last
    /\ phase = "Z" => data["X"] = 0
    /\ phase \in {"Z", "X", "Y"} => data["Y"] = 0
    /\ phase = "Z" => data["Z"] = 0
    /\ phase = "X" => data["X"] = 0

\* A sample the handler read and can accept is still in its register, and the
\* conversion has got past it.
ReadInv ==
    /\ ipc \in {"X", "Y"} /\ reg["Z"] > SENSE => reg["Z"] = data["Z"] /\ phase # "Z"
    /\ ipc = "Y" /\ reg["X"] > TPXS => reg["X"] = data["X"] /\ phase \in {"Y", "idle"}
    /\ ipc \in {"TPX", "TPY", "TPEN", "trigger"} /\ TPOK = 1 => reg = last /\ phase = "idle"
    /\ ipc \in {"TPX", "TPY"} => TPOK = 1

\* A triple already reported is gone from the registers, or about to go.
FreshInv ==
    phase = "idle" /\ ~fresh =>
        \/ data = NoReads
        \/ ipc \in {"TPX", "TPY", "TPEN", "trigger"} /\ TPOK = 1

IInv == Types /\ SamplerInv /\ ReadInv /\ FreshInv

\* The inductive invariant holds at first.
LEMMA InitIInv == Init => IInv
<1> SUFFICES ASSUME Init
             PROVE  IInv
  OBVIOUS
<1> USE DEF Init, SInit
<1>1. Types /\ data = NoReads
  BY SampleNumbers DEF Types, NoReads
<1>2. SamplerInv
  BY <1>1 DEF SamplerInv
<1>3. ReadInv
  BY DEF ReadInv
<1>4. FreshInv
  BY <1>1 DEF FreshInv
<1> QED
  BY <1>1, <1>2, <1>3, <1>4 DEF IInv

\* A delivery gives a number.
LEMMA DeliverableType ==
    ASSUME NEW a \in Axis
    PROVE  Deliverable(a) \subseteq Nat
<1>1. Samples[a] \subseteq Word /\ {AllOnes} \subseteq Word
  BY SamplerValues
<1>2. Word \subseteq Nat
  BY SampleNumbers
<1>3. \/ Deliverable(a) = Word
      \/ Deliverable(a) = Samples[a]
      \/ Deliverable(a) = {AllOnes}
  BY Zenon DEF Deliverable
<1> QED
  BY <1>1, <1>2, <1>3

\* A delivery keeps the invariant: the last one completes the triple.
LEMMA SampleStep ==
    ASSUME IInv, Sample
    PROVE  IInv'
<1>1. PICK a \in Axis : Deliver(a)
  BY DEF Sample, Convert
<1>2. PICK w \in Deliverable(a) : data' = [data EXCEPT ![a] = w]
  BY <1>1 DEF Deliver
<1>3. w \in Nat
  BY <1>2, DeliverableType
<1>4. phase = a /\ phase' = After(a)
  BY <1>1 DEF Deliver
<1>5. /\ UNCHANGED <<ipc, reg, timerPending, TPOK>>
      /\ phase = "Y" => last' = data' /\ fresh' = TRUE
      /\ phase # "Y" => last' = last /\ fresh' = fresh
  BY DEF Sample, isrVars, history
<1>6. Types'
  BY <1>2, <1>3, <1>4, <1>5 DEF IInv, Types, After
<1>7. SamplerInv'
  BY <1>2, <1>3, <1>4, <1>5 DEF IInv, Types, SamplerInv, After
<1>8. ReadInv'
  BY <1>2, <1>3, <1>4, <1>5 DEF IInv, Types, SamplerInv, ReadInv, After
<1>9. FreshInv'
  BY <1>4, <1>5 DEF FreshInv, After
<1> QED
  BY <1>6, <1>7, <1>8, <1>9 DEF IInv

\* Every access of the handler keeps the invariant; the third read is the one that decides.
LEMMA IrqStep ==
    ASSUME IInv, Irq
    PROVE  IInv'
<1> USE DEF IInv
<1>1. CASE IrqEnter
  BY <1>1 DEF IrqEnter, Types, SamplerInv, ReadInv, FreshInv, svars, history
<1>2. CASE IrqRead("Z")
  <2>1. /\ ipc = "Z" /\ ipc' = "X" /\ reg' = [reg EXCEPT !["Z"] = data["Z"]]
        /\ UNCHANGED <<phase, data, TPOK, last, fresh>>
    BY <1>2 DEF IrqRead, svars
  <2>2. Types' /\ SamplerInv' /\ FreshInv'
    BY <2>1 DEF Types, SamplerInv, FreshInv
  <2>3. reg'["Z"] = data["Z"]
    BY <2>1 DEF Types
  <2>4. data["Z"] > SENSE => phase # "Z"
    BY DEF Types, SamplerInv
  <2>5. ReadInv'
    BY <2>1, <2>3, <2>4 DEF ReadInv
  <2> QED
    BY <2>2, <2>5
<1>3. CASE IrqRead("X")
  <2>1. /\ ipc = "X" /\ ipc' = "Y" /\ reg' = [reg EXCEPT !["X"] = data["X"]]
        /\ UNCHANGED <<phase, data, TPOK, last, fresh>>
    BY <1>3 DEF IrqRead, svars
  <2>2. Types' /\ SamplerInv' /\ FreshInv'
    BY <2>1 DEF Types, SamplerInv, FreshInv
  <2>3. reg'["Z"] = reg["Z"] /\ reg'["X"] = data["X"]
    BY <2>1 DEF Types
  <2>4. data["X"] > TPXS => phase \in {"Y", "idle"}
    BY DEF Types, SamplerInv
  <2>5. ReadInv'
    BY <2>1, <2>3, <2>4 DEF ReadInv
  <2> QED
    BY <2>2, <2>5
<1>4. CASE IrqRead("Y")
  <2>1. reg' = [reg EXCEPT !["Y"] = data["Y"]] /\ UNCHANGED svars /\ last' = last
    BY <1>4 DEF IrqRead
  <2>2. UNCHANGED <<phase, data>>
    BY <2>1 DEF svars
  <2>3. Types' /\ SamplerInv'
    BY <2>1, <2>2 DEF Types, SamplerInv
  <2>4. CASE Touched(reg')
    <3>1. ipc = "Y" /\ ipc' = "TPX" /\ TPOK' = 1
      BY <1>4, <2>4 DEF IrqRead
    <3>2. phase = "idle" /\ reg' = data /\ data = last
      <4>1. reg["Z"] > SENSE /\ reg["X"] > TPXS /\ data["Y"] > TPYS
        BY <2>1, <2>4 DEF Types, Touched
      <4>2. phase = "idle"
        BY <4>1 DEF Types, SamplerInv
      <4>3. reg["Z"] = data["Z"] /\ reg["X"] = data["X"]
        BY <3>1, <4>1 DEF ReadInv
      <4> QED
        BY <2>1, <4>2, <4>3 DEF Types, SamplerInv
    <3>3. ReadInv'
      BY <2>1, <2>2, <3>1, <3>2 DEF ReadInv
    <3>4. FreshInv'
      BY <3>1 DEF FreshInv
    <3> QED
      BY <2>3, <3>3, <3>4
  <2>5. CASE ~Touched(reg')
    <3>1. ipc = "Y" /\ ipc' = "TPEN" /\ TPOK' = 0 /\ fresh' = fresh
      BY <1>4, <2>5 DEF IrqRead
    <3>2. ReadInv' /\ FreshInv'
      BY <2>1, <2>2, <3>1 DEF ReadInv, FreshInv
    <3> QED
      BY <2>3, <3>2
  <2> QED
    BY <2>4, <2>5
<1>5. CASE IrqWriteX \/ IrqWriteY \/ IrqWriteEn
  BY <1>5 DEF IrqWriteX, IrqWriteY, IrqWriteEn, Types, SamplerInv, ReadInv, FreshInv,
     svars, history
<1>6. CASE IrqTrigger
  <2>1. ipc = "trigger" /\ ipc' = "pendings" /\ UNCHANGED <<reg, TPOK, last, fresh>>
    BY <1>6 DEF IrqTrigger, history
  <2>2. CASE phase = "idle"
    <3>1. phase' = "Z" /\ data' = [a \in Axis |-> 0]
      BY <1>6, <2>2, SampleNumbers DEF IrqTrigger, Trigger
    <3> QED
      BY <2>1, <3>1 DEF Types, SamplerInv, ReadInv, FreshInv
  <2>3. CASE phase # "idle"
    <3>1. UNCHANGED <<phase, data>>
      BY <1>6, <2>3 DEF IrqTrigger, Trigger, svars
    <3> QED
      BY <2>1, <2>3, <3>1 DEF Types, SamplerInv, ReadInv, FreshInv
  <2> QED
    BY <2>2, <2>3
<1>7. CASE IrqReadPendings \/ IrqClearPendings
  <2>1. /\ UNCHANGED <<phase, data, reg, TPOK, last, fresh>>
        /\ ipc \in {"pendings", "clear"} /\ ipc' \in {"clear", "off"}
    BY <1>7 DEF IrqReadPendings, IrqClearPendings, svars, history
  <2> QED
    BY <2>1 DEF Types, SamplerInv, ReadInv, FreshInv
<1> QED
  BY <1>1, <1>2, <1>3, <1>4, <1>5, <1>6, <1>7 DEF Irq

\* Every step keeps the invariant; the timer and xtptest do not touch it.
LEMMA NextIInv == IInv /\ [Next]_vars => IInv'
<1> SUFFICES ASSUME IInv, [Next]_vars
             PROVE  IInv'
  OBVIOUS
<1>1. CASE Sample
  BY <1>1, SampleStep
<1>2. CASE Irq
  BY <1>2, IrqStep
<1>3. CASE TimerTick \/ Main \/ UNCHANGED vars
  <2>1. UNCHANGED <<phase, data, ipc, reg, TPOK, last, fresh>>
    BY <1>3 DEF TimerTick, Main, MainPrint, MainRead, vars, svars, isrVars, history
  <2> QED
    BY <2>1 DEF IInv, Types, SamplerInv, ReadInv, FreshInv
<1> QED
  BY <1>1, <1>2, <1>3 DEF Next

\* The three reads of the handler are not atomic, and a triple it accepts is
\* still one conversion's, whenever the reads fall.
THEOREM CoherentReport == Spec => []ReportIsOneConversion
<1>1. IInv => ReportIsOneConversion
  BY DEF IInv, ReadInv, ReportIsOneConversion, Reporting
<1> QED
  BY <1>1, InitIInv, NextIInv, PTL DEF Spec

\* The handler triggers the next conversion only when it has reported the last:
\* no two interrupts report the same one, whatever xtptest reads in between.
THEOREM SingleReport == Spec => ReportedOnce
<1>1. IInv /\ [Next]_vars =>
        [\A a \in Axis : IrqRead(a) /\ a = "Y" /\ Touched(reg') => fresh]_vars
  <2> SUFFICES ASSUME IInv, IrqRead("Y"), Touched(reg')
               PROVE  fresh
    OBVIOUS
  <2>1. ipc = "Y" /\ reg' = [reg EXCEPT !["Y"] = data["Y"]]
    BY DEF IrqRead
  <2>2. data["Y"] > TPYS
    BY <2>1 DEF Touched, IInv, Types
  <2>3. phase = "idle" /\ data # NoReads
    BY <2>2 DEF IInv, Types, SamplerInv, NoReads
  <2> QED
    BY <2>1, <2>3 DEF IInv, FreshInv
<1> QED
  BY <1>1, InitIInv, NextIInv, PTL DEF Spec, ReportedOnce

-----------------------------------------------------------------------------
\* Types and the point on the screen.

\* The coordinates of a touch are pixels of the screen.
LEMMA ScreenRange ==
    ASSUME NEW x \in Word, NEW y \in Word, x > TPXS, x < TPXE, y > TPYS, y < TPYE
    PROVE  ScreenX(x) \in 0..799 /\ ScreenY(y) \in 0..479
<1>1. x \in Int /\ y \in Int
  BY SampleNumbers
<1>2. ((x - 176) * 800) \div 3728 \in 0..799
  BY <1>1
<1>3. ((y - 336) * 480) \div 3604 \in 0..479
  BY <1>1
<1> QED
  BY <1>2, <1>3 DEF ScreenX, ScreenY

\* What the writes of the handler have put into the touch registers.
PointInv ==
    /\ ipc \in {"TPX", "TPY"} => Touched(reg)
    /\ ipc \in {"TPY", "TPEN"} /\ TPOK = 1 => TPX = ScreenX(reg["X"])
    /\ ipc = "TPEN" /\ TPOK = 1 => TPY = ScreenY(reg["Y"])
    /\ TPX \in 0..799 /\ TPY \in 0..479

PInv == Numbers /\ PointInv

\* The flags keep their type.
LEMMA NextFlags == Flags /\ [Next]_vars => Flags'
<1> SUFFICES ASSUME Flags, [Next]_vars
             PROVE  Flags'
  OBVIOUS
<1> USE DEF Flags
<1>1. CASE Sample
  BY <1>1, Zenon DEF Sample, Convert, Deliver, isrVars, mainVars, history
<1>2. CASE TimerTick
  BY <1>2, Zenon DEF TimerTick, svars, isrVars, mainVars, history
<1>3. CASE Irq
  <2>1. CASE IrqEnter
    BY <2>1, Zenon DEF IrqEnter, svars, mainVars, history
  <2>2. ASSUME NEW a \in Axis, IrqRead(a)
        PROVE  Flags'
    <3>1. fresh' \in {FALSE, fresh} /\ UNCHANGED <<present, pending, timerPending, spanned>>
      BY <2>2, Zenon DEF IrqRead, svars, mainVars
    <3> QED
      BY <3>1, Zenon
  <2>3. CASE IrqWriteX \/ IrqWriteY \/ IrqWriteEn
    BY <2>3, Zenon DEF IrqWriteX, IrqWriteY, IrqWriteEn, svars, mainVars, history
  <2>4. CASE IrqTrigger
    BY <2>4, Zenon DEF IrqTrigger, Trigger, svars, history
  <2>5. CASE IrqReadPendings
    BY <2>5, Zenon DEF IrqReadPendings, svars, mainVars, history
  <2>6. CASE IrqClearPendings
    BY <2>6, Zenon DEF IrqClearPendings, svars, mainVars, history
  <2> QED
    BY <1>3, <2>1, <2>2, <2>3, <2>4, <2>5, <2>6 DEF Irq
<1>4. CASE Main
  <2>1. /\ UNCHANGED <<present, pending, timerPending, fresh>>
        /\ spanned' \in {FALSE, spanned}
    BY <1>4, Zenon DEF Main, MainPrint, MainRead, svars, isrVars, history
  <2> QED
    BY <2>1, Zenon
<1>5. CASE UNCHANGED vars
  BY <1>5, Zenon DEF vars, svars, isrVars, mainVars, history
<1> QED
  BY <1>1, <1>2, <1>3, <1>4, <1>5 DEF Next

\* A word fits every axis of the samples.
LEMMA DeliverableWord ==
    ASSUME NEW a \in Axis
    PROVE  Deliverable(a) \subseteq Word
<1>1. Samples[a] \subseteq Word /\ {AllOnes} \subseteq Word
  BY SamplerValues
<1>2. \/ Deliverable(a) = Word
      \/ Deliverable(a) = Samples[a]
      \/ Deliverable(a) = {AllOnes}
  BY Zenon DEF Deliverable
<1> QED
  BY <1>1, <1>2

LEMMA InitPInv == Init => PInv /\ Flags
<1> SUFFICES ASSUME Init
             PROVE  PInv /\ Flags
  OBVIOUS
<1>1. NoReads \in [Axis -> Word] /\ data \in [Axis -> Word]
  BY SamplerValues, SampleNumbers DEF NoReads, Init, SInit
<1>2. PInv
  BY <1>1 DEF Init, SInit, PInv, Numbers, PointInv
<1>3. Flags
  BY Zenon DEF Init, SInit, Flags
<1> QED
  BY <1>2, <1>3

\* The hardware writes neither the handler's locals nor the touch registers.
LEMMA SamplePInv ==
    ASSUME PInv, Sample
    PROVE  PInv'
<1>1. PICK a \in Axis : Deliver(a)
  BY DEF Sample, Convert
<1>2. PICK w \in Deliverable(a) : data' = [data EXCEPT ![a] = w]
  BY <1>1 DEF Deliver
<1>3. data' \in [Axis -> Word]
  BY <1>2, DeliverableWord DEF PInv, Numbers
<1>4. phase' \in Axis \cup {"idle"} /\ dirty' = dirty
  BY <1>1 DEF Deliver, After
<1>5. last' \in {last, data'}
  BY DEF Sample, history
<1>6. UNCHANGED <<ipc, reg, TPOK, TPX, TPY, TPEN, mpc, mreg>>
  BY DEF Sample, isrVars, touchRegs, mainVars
<1> QED
  BY <1>3, <1>4, <1>5, <1>6 DEF PInv, Numbers, PointInv, Touched

\* The handler writes the coordinates it has just accepted.
LEMMA IrqPInv ==
    ASSUME PInv, Irq
    PROVE  PInv'
<1> USE DEF PInv
<1>1. CASE IrqEnter \/ IrqReadPendings \/ IrqClearPendings
  BY <1>1 DEF IrqEnter, IrqReadPendings, IrqClearPendings, Numbers, PointInv, Touched, svars,
     touchRegs, mainVars, history
<1>2. ASSUME NEW a \in Axis, IrqRead(a)
      PROVE  PInv'
  <2>1. /\ UNCHANGED <<phase, data, dirty, TPX, TPY, TPEN, mpc, mreg, last>>
        /\ reg' = [reg EXCEPT ![a] = data[a]] /\ ipc = a
    BY <1>2 DEF IrqRead, svars, touchRegs, mainVars
  <2>2. reg' \in [Axis -> Word]
    BY <2>1 DEF Numbers
  <2>3. CASE a # "Y"
    <3>1. ipc' \in {"X", "Y"} /\ TPOK' = TPOK
      BY <1>2, <2>3 DEF IrqRead
    <3> QED
      BY <2>1, <2>2, <3>1 DEF Numbers, PointInv
  <2>4. CASE a = "Y"
    <3>1. \/ Touched(reg') /\ ipc' = "TPX" /\ TPOK' = 1
          \/ ipc' = "TPEN" /\ TPOK' = 0
      BY <1>2, <2>4 DEF IrqRead
    <3> QED
      BY <2>1, <2>2, <3>1 DEF Numbers, PointInv
  <2> QED
    BY <2>3, <2>4
<1>3. CASE IrqWriteX \/ IrqWriteY
  <2>1. ScreenX(reg["X"]) \in 0..799 /\ ScreenY(reg["Y"]) \in 0..479
    BY <1>3, ScreenRange DEF IrqWriteX, IrqWriteY, Numbers, PointInv, Touched
  <2>2. UNCHANGED <<phase, data, dirty, reg, TPOK, TPEN, mpc, mreg, last>>
    BY <1>3 DEF IrqWriteX, IrqWriteY, svars, mainVars, history
  <2>3. \/ ipc = "TPX" /\ ipc' = "TPY" /\ TPX' = ScreenX(reg["X"]) /\ TPY' = TPY
        \/ ipc = "TPY" /\ ipc' = "TPEN" /\ TPY' = ScreenY(reg["Y"]) /\ TPX' = TPX
    BY <1>3 DEF IrqWriteX, IrqWriteY
  <2> QED
    BY <2>1, <2>2, <2>3 DEF Numbers, PointInv, Touched
<1>4. CASE IrqWriteEn
  BY <1>4 DEF IrqWriteEn, Numbers, PointInv, svars, mainVars, history
<1>5. CASE IrqTrigger
  <2>1. /\ UNCHANGED <<reg, TPOK, TPX, TPY, TPEN, mpc, mreg, last>> /\ ipc' = "pendings"
        /\ \/ Trigger
           \/ UNCHANGED svars
    BY <1>5 DEF IrqTrigger, touchRegs, history
  <2>2. [x \in Axis |-> Zero] \in [Axis -> Word]
    BY SamplerValues
  <2>3. data' \in [Axis -> Word] /\ phase' \in Axis \cup {"idle"} /\ dirty' = 0
    BY <2>1, <2>2 DEF Trigger, svars, Numbers
  <2> QED
    BY <2>1, <2>3 DEF Numbers, PointInv
<1> QED
  BY <1>1, <1>2, <1>3, <1>4, <1>5 DEF Irq

LEMMA NextPInv == PInv /\ [Next]_vars => PInv'
<1> SUFFICES ASSUME PInv, [Next]_vars
             PROVE  PInv'
  OBVIOUS
<1>1. CASE Sample
  BY <1>1, SamplePInv
<1>2. CASE Irq
  BY <1>2, IrqPInv
<1>3. CASE TimerTick \/ UNCHANGED vars
  BY <1>3 DEF TimerTick, vars, PInv, Numbers, PointInv, Touched, svars, isrVars, touchRegs,
     mainVars, history
<1>4. CASE Main
  <2>1. UNCHANGED <<phase, data, dirty, ipc, reg, TPOK, TPX, TPY, TPEN, last>>
    BY <1>4 DEF Main, MainPrint, MainRead, svars, isrVars, touchRegs, history
  <2>2. mreg' \in [Axis -> Word] /\ mpc' \in Axis \cup {"print"}
    BY <1>4 DEF Main, MainPrint, MainRead, PInv, Numbers
  <2> QED
    BY <2>1, <2>2 DEF PInv, Numbers, PointInv, Touched
<1> QED
  BY <1>1, <1>2, <1>3, <1>4 DEF Next

\* The handler's variables, the touch registers and the histories keep their types.
THEOREM TypesKept == Spec => []TypeOK
<1>1. PInv => Numbers /\ Registers
  BY DEF PInv, PointInv, Registers
<1>2. PInv /\ Flags => TypeOK
  BY <1>1 DEF TypeOK
<1> QED
  BY <1>2, InitPInv, NextPInv, NextFlags, PTL DEF Spec

\* The touch registers never hold a point off the screen, and what they hold when
\* the flag is written is the point of the last whole conversion.
THEOREM PointsOnScreen == Spec => []PointOnScreen
<1>1. PInv /\ IInv => PointOnScreen
  BY DEF PInv, PointInv, IInv, ReadInv, PointOnScreen
<1> QED
  BY <1>1, InitPInv, NextPInv, InitIInv, NextIInv, PTL DEF Spec

-----------------------------------------------------------------------------
\* The touch test.

\* What xtptest has read of a conversion that no trigger has swept away: as ReadInv,
\* with its own bounds.
OwnReads ==
    /\ mpc \in {"X", "Y", "print"} /\ mreg["Z"] > SENSE => mreg["Z"] = data["Z"] /\ phase # "Z"
    /\ mpc \in {"Y", "print"} /\ mreg["X"] >= TPXS => mreg["X"] = data["X"] /\ phase \in {"Y", "idle"}
    /\ mpc = "print" /\ mreg["Y"] >= TPYS => mreg["Y"] = data["Y"] /\ phase = "idle"

\* After a trigger between its reads the samples are zero until it is done: what it
\* has read, and can accept, is of the conversion before.
SweptReads ==
    mpc # "Z" =>
    /\ phase = "Z" /\ data = NoReads
    /\ mpc \in {"X", "Y", "print"} /\ mreg["Z"] > SENSE => mreg["Z"] = last["Z"]
    /\ mpc \in {"Y", "print"} /\ mreg["X"] >= TPXS => mreg["X"] = last["X"]
    /\ mpc = "print" /\ mreg["Y"] >= TPYS => mreg["Y"] = last["Y"]

MainInv == (~spanned => OwnReads) /\ (spanned => SweptReads)

\* The types the steps of xtptest need, from PInv.
LEMMA MainTypes ==
    ASSUME PInv
    PROVE  /\ mreg \in [Axis -> Nat] /\ data \in [Axis -> Nat] /\ last \in [Axis -> Nat]
           /\ mpc \in {"Z", "X", "Y", "print"} /\ phase \in {"Z", "X", "Y", "idle"}
<1>1. Word \subseteq Nat
  BY SampleNumbers
<1> QED
  BY <1>1 DEF PInv, Numbers

LEMMA InitMainInv == Init => MainInv
  BY DEF Init, MainInv, OwnReads

\* A delivery is to a register xtptest has not yet read, or read as too small;
\* MainPrompt excludes one after a trigger.
LEMMA SampleMainInv ==
    ASSUME MainPrompt, PInv, MainInv, Sample
    PROVE  MainInv'
<1>1. PICK a \in Axis : Deliver(a)
  BY DEF Sample, Convert
<1>2. PICK w \in Deliverable(a) : data' = [data EXCEPT ![a] = w]
  BY <1>1 DEF Deliver
<1>3. phase = a /\ phase' = After(a)
  BY <1>1 DEF Deliver
<1>4. UNCHANGED <<mpc, mreg>> /\ spanned' = spanned
  BY Zenon DEF Sample, mainVars
<1>5. CASE mpc = "Z"
  <2>1. OwnReads' /\ SweptReads'
    BY <1>4, <1>5 DEF OwnReads, SweptReads
  <2> QED
    BY <2>1, Zenon DEF MainInv
<1>6. CASE mpc # "Z"
  <2>1. ~spanned /\ ~spanned'
    BY <1>4, <1>6, Zenon DEF Sample
  <2>2. OwnReads
    BY <2>1, Zenon DEF MainInv
  <2>3. OwnReads'
    BY <1>2, <1>3, <1>4, <2>2, MainTypes DEF OwnReads, After
  <2> QED
    BY <2>1, <2>3, Zenon DEF MainInv
<1> QED
  BY <1>5, <1>6

\* A trigger that is taken comes when the samples are those of the last conversion.
LEMMA TriggerMainInv ==
    ASSUME PInv, IInv, MainInv, IrqTrigger
    PROVE  MainInv'
<1>1. UNCHANGED <<mpc, mreg, last>>
  BY DEF IrqTrigger, history
<1>2. CASE phase # "idle"
  <2>1. UNCHANGED <<phase, data>> /\ spanned' = spanned
    BY <1>2, Zenon DEF IrqTrigger, Trigger, svars
  <2>2. (OwnReads' <=> OwnReads) /\ (SweptReads' <=> SweptReads)
    BY <1>1, <2>1 DEF OwnReads, SweptReads
  <2> QED
    BY <2>1, <2>2, Zenon DEF MainInv
<1>3. CASE phase = "idle"
  <2>1. spanned' /\ Trigger
    BY <1>3, Zenon DEF IrqTrigger
  <2>2. phase' = "Z" /\ data' = NoReads
    BY <2>1, SampleNumbers DEF Trigger, NoReads
  <2>3. data = last
    BY <1>3 DEF IInv, SamplerInv
  <2>4. CASE mpc = "Z"
    <3>1. SweptReads'
      BY <1>1, <2>4 DEF SweptReads
    <3> QED
      BY <2>1, <3>1, Zenon DEF MainInv
  <2>5. CASE mpc # "Z"
    <3>1. ~spanned
      <4>1. ~SweptReads
        BY <1>3, <2>5 DEF SweptReads
      <4> QED
        BY <4>1, Zenon DEF MainInv
    <3>2. OwnReads
      BY <3>1, Zenon DEF MainInv
    <3>3. SweptReads'
      BY <1>1, <2>2, <2>3, <3>2 DEF OwnReads, SweptReads, NoReads
    <3> QED
      BY <2>1, <3>3, Zenon DEF MainInv
  <2> QED
    BY <2>4, <2>5
<1> QED
  BY <1>2, <1>3

\* A read of xtptest finds a sample of the conversion it is in, or zero.
LEMMA ReadMainInv ==
    ASSUME PInv, IInv, MainInv, NEW a \in Axis, MainRead(a)
    PROVE  MainInv'
<1>1. /\ mpc = a /\ mreg' = [mreg EXCEPT ![a] = data[a]]
      /\ mpc' = CASE a = "Z" -> "X" [] a = "X" -> "Y" [] a = "Y" -> "print"
      /\ UNCHANGED <<phase, data, last>>
  BY DEF MainRead, svars, history
<1>2. CASE a = "Z"
  <2>1. ~spanned'
    BY <1>2, Zenon DEF MainRead
  <2>2. data["Z"] > SENSE => phase # "Z"
    BY MainTypes DEF IInv, SamplerInv
  <2>3. mpc' = "X" /\ mreg'["Z"] = data["Z"]
    BY <1>1, <1>2, MainTypes
  <2>4. OwnReads'
    BY <1>1, <2>2, <2>3 DEF OwnReads
  <2> QED
    BY <2>1, <2>4, Zenon DEF MainInv
<1>3. CASE a # "Z"
  <2>1. spanned' = spanned
    BY <1>3, Zenon DEF MainRead
  <2>2. \/ a = "X" /\ mpc = "X" /\ mpc' = "Y"
        \/ a = "Y" /\ mpc = "Y" /\ mpc' = "print"
    BY <1>1, <1>3
  <2>3. OwnReads => OwnReads'
    <3>1. data["X"] >= TPXS => phase \in {"Y", "idle"}
      BY MainTypes DEF IInv, SamplerInv
    <3>2. data["Y"] >= TPYS => phase = "idle"
      BY MainTypes DEF IInv, SamplerInv
    <3> QED
      BY <1>1, <2>2, <3>1, <3>2, MainTypes DEF OwnReads
  <2>4. SweptReads => SweptReads'
    BY <1>1, <2>2, MainTypes DEF SweptReads, NoReads
  <2> QED
    BY <2>1, <2>3, <2>4, Zenon DEF MainInv
<1> QED
  BY <1>2, <1>3

LEMMA NextMainInv ==
    ASSUME MainPrompt, PInv, IInv, MainInv, [Next]_vars
    PROVE  MainInv'
<1>1. CASE Sample
  BY <1>1, SampleMainInv
<1>2. CASE IrqTrigger
  BY <1>2, TriggerMainInv
<1>3. ASSUME NEW a \in Axis, MainRead(a)
      PROVE  MainInv'
  BY <1>3, ReadMainInv
<1>4. CASE MainPrint
  <2>1. OwnReads' /\ SweptReads'
    BY <1>4 DEF MainPrint, OwnReads, SweptReads
  <2> QED
    BY <2>1, Zenon DEF MainInv
<1>5. CASE \/ TimerTick \/ IrqEnter \/ (\E a \in Axis : IrqRead(a)) \/ IrqWriteX \/ IrqWriteY
           \/ IrqWriteEn \/ IrqReadPendings \/ IrqClearPendings \/ UNCHANGED vars
  <2>1. UNCHANGED <<phase, data, mpc, mreg, last>> /\ spanned' = spanned
    BY <1>5, Zenon DEF TimerTick, IrqEnter, IrqRead, IrqWriteX, IrqWriteY, IrqWriteEn,
       IrqReadPendings, IrqClearPendings, vars, svars, mainVars, history
  <2>2. (OwnReads' <=> OwnReads) /\ (SweptReads' <=> SweptReads)
    BY <2>1 DEF OwnReads, SweptReads
  <2> QED
    BY <2>1, <2>2, Zenon DEF MainInv
<1> QED
  BY <1>1, <1>2, <1>3, <1>4, <1>5, Zenon DEF Next, Irq, Main

\* xtptest has no protection of its own, and the interrupt may trigger a conversion
\* between any two of its reads; what it prints is one conversion's all the same, if
\* it gets through its reads before that one delivers.
THEOREM WholePrint == MainPrompt => (Spec => []PrintIsOneConversion)
<1> SUFFICES ASSUME MainPrompt
             PROVE  Spec => []PrintIsOneConversion
  OBVIOUS
<1>1. PInv /\ IInv /\ MainInv => PrintIsOneConversion
  <2> SUFFICES ASSUME PInv, IInv, MainInv, mpc = "print", MainTouched(mreg)
               PROVE  mreg = last
    BY DEF PrintIsOneConversion
  <2>1. mreg["Z"] > SENSE /\ mreg["X"] >= TPXS /\ mreg["Y"] >= TPYS
    BY DEF MainTouched
  <2>2. CASE spanned
    <3>1. SweptReads
      BY <2>2, Zenon DEF MainInv
    <3>2. mreg["Z"] = last["Z"] /\ mreg["X"] = last["X"] /\ mreg["Y"] = last["Y"]
      BY <2>1, <3>1 DEF SweptReads
    <3> QED
      BY <3>2, MainTypes
  <2>3. CASE ~spanned
    <3>1. OwnReads
      BY <2>3, Zenon DEF MainInv
    <3>2. mreg["Z"] = data["Z"] /\ mreg["X"] = data["X"] /\ mreg["Y"] = data["Y"] /\ phase = "idle"
      BY <2>1, <3>1 DEF OwnReads
    <3>3. data = last
      BY <3>2 DEF IInv, SamplerInv
    <3> QED
      BY <3>2, <3>3, MainTypes
  <2> QED
    BY <2>2, <2>3
<1>2. PInv /\ IInv /\ MainInv /\ [Next]_vars => MainInv'
  BY NextMainInv
<1> QED
  BY <1>1, <1>2, InitMainInv, InitPInv, NextPInv, InitIInv, NextIInv, PTL DEF Spec
=============================================================================
