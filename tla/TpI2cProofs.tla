---------------------------- MODULE TpI2cProofs ----------------------------
(***************************************************************************)
(* Proofs about TpI2c, for every delay, lag, stretch and sample set.       *)
(***************************************************************************)
EXTENDS TpI2c, TLAPS

USE DEF Bit, Axis, TX, RX, WriteRaised, ReadRaised, Writing, Reading, Commanding

\* The bytes and words the definitions build are bytes and words.
LEMMA OnesType == \A S : Ones(S) \in Byte
  BY DEF Ones, Byte

\* The bytes of the design are bytes.
LEMMA ConstantTypes ==
    /\ NS2009_WADDR \in Byte /\ NS2009_RADDR \in Byte /\ NoByte \in Byte
    /\ NoWord \in Word
    /\ READ \in [Axis -> Byte]
<1>1. /\ NS2009_WADDR \in Byte /\ NS2009_RADDR \in Byte /\ NoByte \in Byte
  BY OnesType DEF NS2009_WADDR, NS2009_RADDR, NoByte
<1>2. NoWord \in Word
  BY DEF NoWord, Word
<1>3. READ \in [Axis -> Byte]
  BY OnesType DEF READ
<1> QED
  BY <1>1, <1>2, <1>3

\* The word put together from two received bytes is a word.
LEMMA ReceivedType ==
    ASSUME i2crecv \in [0..1 -> Byte]
    PROVE  Received \in Word
  BY DEF Received, Word, Byte

\* The open-drain lines carry bits.
LEMMA LinesType == Scl \in Bit /\ Sda \in Bit
  BY DEF Scl, Sda

\* What of the type invariant speaks of the engine, with what it rests on: the
\* byte counter never leaves the bytes of the mode, and a bit is sent or taken
\* only where its byte exists.
EngineType ==
    /\ i2cstep \in Steps /\ i2ccnt \in 0..2 /\ i2cmode \in 0..2 /\ i2cbit \in 0..7
    /\ i2csend \in [0..1 -> Byte] /\ i2crecv \in [0..1 -> Byte] /\ i2cwait \in Nat
    /\ sda_out \in Bit /\ scl_out \in Bit

SeqType ==
    /\ smstate \in 0..13 /\ wtrg \in BOOLEAN /\ rtrg \in BOOLEAN
    /\ iaddr \in Byte /\ wdata \in Byte /\ data \in [Axis -> Word]
    /\ dirty \in 0..2

BusType ==
    /\ sdain \in Bit /\ sclin \in Bit
    /\ panel \in PanelStates /\ present \in BOOLEAN

ByteInv ==
    /\ i2cstep # "idle" => i2cmode \in {TX, RX}
    /\ i2cmode = TX => i2ccnt \in 0..1
    /\ i2cstep = "txBit" => i2cmode = TX \/ i2ccnt = 0
    /\ i2cstep \in {"rxBit", "rxHold"} => i2cmode = RX /\ i2ccnt \in 1..2

\* The sequencer keeps its types, one case per action.
LEMMA SeqTypeStep ==
    ASSUME SeqType, EngineType, NEW we \in BOOLEAN, SeqStep(we)
    PROVE  SeqType'
<1>1. Received \in Word
  BY ReceivedType DEF EngineType
<1>2. CASE SeqAccept(we)
  BY <1>2, ConstantTypes DEF SeqAccept, SeqType
<1>3. CASE SeqRest(we) \/ SeqWait
  BY <1>3 DEF SeqRest, SeqWait, SeqType, seqVars
<1>4. CASE SeqCommand
  <2>1. data' \in [Axis -> Word]
    BY <1>4, <1>1 DEF SeqCommand, AxisRead, SeqType
  <2>2. wdata' \in Byte
    BY <1>4, ConstantTypes DEF SeqCommand, AxisOf, SeqType
  <2> QED
    BY <1>4, <2>1, <2>2, ConstantTypes DEF SeqCommand, SeqType
<1>5. CASE SeqWriteStarted
  <2>1. wtrg' \in BOOLEAN
    BY <1>5 DEF SeqWriteStarted
  <2> QED
    BY <1>5, <2>1 DEF SeqWriteStarted, SeqType
<1>6. CASE SeqRead
  BY <1>6, ConstantTypes DEF SeqRead, SeqType
<1>7. CASE SeqReadStarted
  <2>1. rtrg' \in BOOLEAN
    BY <1>7 DEF SeqReadStarted
  <2> QED
    BY <1>7, <2>1 DEF SeqReadStarted, SeqType
<1>8. CASE SeqFinish
  BY <1>8, <1>1 DEF SeqFinish, SeqType
<1> QED
  BY <1>2, <1>3, <1>4, <1>5, <1>6, <1>7, <1>8 DEF SeqStep

\* The engine keeps its types and its byte counter, one case per group of steps.
LEMMA EngineStep ==
    ASSUME SeqType, EngineType, ByteInv, BusType, I2cStep
    PROVE  EngineType' /\ ByteInv'
<1> USE DelaysAreNaturals DEF EngineType, ByteInv, Goto
<1>1. CASE I2cStart
  <2>1. i2csend' \in [0..1 -> Byte]
    BY <1>1, ConstantTypes DEF I2cStart, SeqType
  <2>2. i2crecv' \in [0..1 -> Byte]
    BY <1>1, ConstantTypes DEF I2cStart
  <2> QED
    BY <1>1, <2>1, <2>2 DEF I2cStart, Steps
<1>2. CASE I2cRest \/ I2cStretched
  BY <1>2 DEF I2cRest, I2cStretched, engineVars
<1>3. CASE I2cClock
  BY <1>3 DEF I2cClock, Steps
<1>4. CASE I2cWaitLow
  BY <1>4 DEF I2cWaitLow, Steps
<1>5. CASE I2cWaitHigh
  BY <1>5 DEF I2cWaitHigh, Steps
<1>6. CASE I2cAckDrive
  BY <1>6 DEF I2cAckDrive, Steps
<1>7. CASE I2cAckWait
  BY <1>7 DEF I2cAckWait, Steps
<1>8. CASE I2cBit
  <2>1. sda_out' \in Bit
    BY <1>8 DEF I2cBit, Byte
  <2> QED
    BY <1>8, <2>1 DEF I2cBit, Steps
<1>9. CASE I2cDelay
  <2>1. i2crecv' \in [0..1 -> Byte]
    BY <1>9 DEF I2cDelay, Delay, Byte, BusType
  <2>2. i2cwait' \in Nat
    BY <1>9 DEF I2cDelay, Delay
  <2>3. i2cstep' \in Steps /\ scl_out' \in Bit
    BY <1>9 DEF I2cDelay, Delay, Steps
  <2>4. ByteInv'
    BY <1>9 DEF I2cDelay, Delay
  <2> QED
    BY <1>9, <2>1, <2>2, <2>3, <2>4 DEF I2cDelay
<1>10. CASE I2cByteEnd
  BY <1>10 DEF I2cByteEnd, LastByte, Steps
<1>11. CASE I2cStop
  BY <1>11 DEF I2cStop, Steps
<1>12. CASE I2cStopWait
  BY <1>12 DEF I2cStopWait, Delay, Steps
<1> QED
  BY <1>1, <1>2, <1>3, <1>4, <1>5, <1>6, <1>7, <1>8, <1>9, <1>10, <1>11, <1>12
     DEF I2cStep

\* The panel stays a panel whatever the master puts on the lines.
LEMMA TargetSet ==
    ASSUME NEW p \in PanelStates, NEW bit \in Bit
    PROVE  [p EXCEPT !.target = bit] \in PanelStates
<1> HIDE DEF Bit
<1> QED
  BY DEF PanelStates

\* A panel that lets go of the bus is a panel.
LEMMA OffSet ==
    ASSUME NEW p \in PanelStates, NEW bit \in Bit
    PROVE  [p EXCEPT !.mode = "off", !.target = bit] \in PanelStates
<1> HIDE DEF Bit
<1> QED
  BY DEF PanelStates

\* A panel that waits for a command is a panel.
LEMMA ListenSet ==
    ASSUME NEW p \in PanelStates, NEW bit \in Bit, NEW n \in 0..9
    PROVE  [p EXCEPT !.mode = "command", !.clocks = n, !.target = bit] \in PanelStates
<1> HIDE DEF Bit
<1> QED
  BY DEF PanelStates

\* A panel that has converted a word is a panel.
LEMMA ConvertSet ==
    ASSUME NEW p \in PanelStates, NEW bit \in Bit, NEW value \in Word
    PROVE  [p EXCEPT !.target = bit, !.value = value] \in PanelStates
<1> HIDE DEF Bit
<1> QED
  BY DEF PanelStates

\* A panel that starts on a byte is a panel.
LEMMA SendSet ==
    ASSUME NEW p \in PanelStates, NEW bit \in Bit, NEW n \in 0..9, NEW half \in Bit
    PROVE  [p EXCEPT !.mode = "send", !.clocks = n, !.half = half, !.target = bit] \in PanelStates
<1> HIDE DEF Bit
<1> QED
  BY DEF PanelStates

\* A panel that saw a START is a panel.
LEMMA StartSet ==
    ASSUME NEW p \in PanelStates, NEW bit \in Bit, NEW n \in 0..9,
           NEW flag \in BOOLEAN
    PROVE  [p EXCEPT !.mode = "address", !.clocks = n, !.target = bit, !.started = flag] \in PanelStates
<1> HIDE DEF Bit
<1> QED
  BY DEF PanelStates

\* A panel that saw a STOP is a panel.
LEMMA StopSet ==
    ASSUME NEW p \in PanelStates, NEW bit \in Bit, NEW flag \in BOOLEAN
    PROVE  [p EXCEPT !.mode = "off", !.target = bit, !.started = flag] \in PanelStates
<1> HIDE DEF Bit
<1> QED
  BY DEF PanelStates

\* A panel that took a bit is a panel.
LEMMA RiseSet ==
    ASSUME NEW p \in PanelStates, NEW n \in 0..9, NEW byte \in Byte
    PROVE  [p EXCEPT !.clocks = n, !.byte = byte] \in PanelStates
<1> HIDE DEF Bit
<1> QED
  BY DEF PanelStates

\* A panel with a lag and a stretch drawn is a panel.
LEMMA FallSet ==
    ASSUME NEW p \in PanelStates, NEW lag \in 0..MaxLag, NEW hold \in 0..MaxStretch
    PROVE  [p EXCEPT !.lag = lag, !.hold = hold] \in PanelStates
<1> HIDE DEF Bit
<1> QED
  BY DEF PanelStates

\* Time alone keeps the panel a panel.
LEMMA SettledType ==
    ASSUME BusType
    PROVE  Settled \in PanelStates
<1> DEFINE lag   == IF panel.lag = 0 THEN 0 ELSE panel.lag - 1
           drive == IF panel.lag = 0 THEN panel.target ELSE panel.drive
           hold  == IF panel.hold = 0 THEN 0 ELSE panel.hold - 1
<1>1. /\ panel.lag \in 0..MaxLag /\ panel.hold \in 0..MaxStretch
      /\ panel.target \in Bit /\ panel.drive \in Bit
  BY DEF BusType, PanelStates
<1>2. lag \in 0..MaxLag /\ hold \in 0..MaxStretch
  BY <1>1, DelaysAreNaturals
<1>3. drive \in Bit
  BY <1>1
<1>4. Settled = [panel EXCEPT !.scl = Scl, !.sda = Sda, !.lag = lag, !.drive = drive,
                              !.hold = hold]
  BY DEF Settled
<1>5. panel \in PanelStates /\ Scl \in Bit /\ Sda \in Bit
  BY LinesType DEF BusType
<1> HIDE DEF Bit, lag, drive, hold
<1>6. [panel EXCEPT !.scl = Scl, !.sda = Sda, !.lag = lag, !.drive = drive, !.hold = hold]
        \in PanelStates
  BY <1>2, <1>3, <1>5 DEF PanelStates
<1> QED
  BY <1>4, <1>6

\* What the panel sends is a bit.
LEMMA SendBitType ==
    ASSUME BusType, NEW half \in Bit, NEW b \in 0..7
    PROVE  SendBit(half, b) \in Bit
  BY DEF BusType, PanelStates, SendBit, Word

\* What the panel converts is a word.
LEMMA ConvertedType ==
    ASSUME BusType
    PROVE  Converted \subseteq Word
<1>1. CASE \E a \in Axis : panel.byte = READ[a]
  <2>1. (CHOOSE a \in Axis : panel.byte = READ[a]) \in Axis
    BY <1>1
  <2> QED
    BY <1>1, <2>1, SamplesAreWords DEF Converted
<1>2. CASE ~ \E a \in Axis : panel.byte = READ[a]
  BY <1>2 DEF Converted, BusType, PanelStates
<1> QED
  BY <1>1, <1>2

\* After a falling edge the panel is a panel.
LEMMA AfterFallType ==
    ASSUME BusType, NEW value \in Word
    PROVE  AfterFall(value) \in PanelStates
<1>1. Settled \in PanelStates
  BY SettledType
<1>0. 0 \in Bit /\ 1 \in Bit /\ 0 \in 0..9
  OBVIOUS
<1>2. Drive(0) \in PanelStates /\ Drive(1) \in PanelStates
  BY <1>0, <1>1, TargetSet, Zenon DEF Drive
<1>3. Off \in PanelStates /\ Listen \in PanelStates
  BY <1>0, <1>1, OffSet, ListenSet, Zenon DEF Off, Listen
<1>4. Convert(value) \in PanelStates
  BY <1>0, <1>1, ConvertSet, Zenon DEF Convert
<1>5. Send(0) \in PanelStates /\ Send(1) \in PanelStates
  <2>1. SendBit(0, 7) \in Bit /\ SendBit(1, 7) \in Bit
    BY SendBitType
  <2> QED
    BY <1>0, <1>1, <2>1, SendSet, Zenon DEF Send
<1>6. ASSUME panel.clocks \in 1..7
      PROVE  Drive(SendBit(panel.half, 7 - panel.clocks)) \in PanelStates
  <2>1. panel.half \in Bit /\ 7 - panel.clocks \in 0..7
    BY <1>6 DEF BusType, PanelStates
  <2>2. SendBit(panel.half, 7 - panel.clocks) \in Bit
    BY <2>1, SendBitType
  <2> QED
    BY <1>1, <2>2, TargetSet, Zenon DEF Drive
<1> QED
  BY <1>1, <1>2, <1>3, <1>4, <1>5, <1>6 DEF AfterFall

\* One clock of the bus keeps its types.
LEMMA LinesStep ==
    ASSUME BusType, Lines
    PROVE  BusType'
<1>1. Settled \in PanelStates
  BY SettledType
<1>2. panel \in PanelStates
  BY DEF BusType
<1>0. 1 \in Bit /\ 0 \in 0..9 /\ TRUE \in BOOLEAN /\ FALSE \in BOOLEAN
  OBVIOUS
<1>3. panel' \in PanelStates
  <2>1. CASE ~present
    BY <2>1, <1>2 DEF Lines, PanelStep
  <2>2. CASE PanelStart
    BY <2>2, <1>0, <1>1, StartSet, Zenon DEF PanelStart
  <2>3. CASE PanelStop
    BY <2>3, <1>0, <1>1, StopSet, Zenon DEF PanelStop
  <2>4. CASE PanelQuiet
    BY <2>4, <1>1 DEF PanelQuiet
  <2>5. CASE PanelRise
    <3> DEFINE clocks == IF panel.clocks = 9 THEN 9 ELSE panel.clocks + 1
               byte == IF panel.mode = "send" \/ panel.clocks > 7 THEN panel.byte
                       ELSE [panel.byte EXCEPT ![7 - panel.clocks] = Sda]
    <3>1. panel.clocks \in 0..9 /\ panel.byte \in Byte
      BY <1>2 DEF PanelStates
    <3>2. clocks \in 0..9
      BY <3>1
    <3>3. byte \in Byte
      BY <3>1, LinesType DEF Byte
    <3>4. Settled.clocks = panel.clocks /\ Settled.byte = panel.byte
      BY <1>2 DEF Settled, PanelStates
    <3>5. panel' = Settled \/ panel' = [Settled EXCEPT !.clocks = clocks, !.byte = byte]
      BY <2>5, <3>4 DEF PanelRise
    <3> HIDE DEF clocks, byte
    <3> QED
      BY <1>1, <3>2, <3>3, <3>5, RiseSet, Zenon
  <2>6. CASE PanelFall
    <3>1. PICK value \in IF panel.mode = "command" /\ panel.clocks = 8
                         THEN Converted ELSE {panel.value},
               lag \in 0..MaxLag, hold \in 0..MaxStretch :
               panel' = [AfterFall(value) EXCEPT !.lag = lag, !.hold = hold]
      BY <2>6 DEF PanelFall
    <3>2. value \in Word
      BY <3>1, <1>2, ConvertedType DEF PanelStates
    <3>3. AfterFall(value) \in PanelStates
      BY <3>2, AfterFallType
    <3> QED
      BY <3>1, <3>3, FallSet, Zenon
  <2> QED
    BY <2>1, <2>2, <2>3, <2>4, <2>5, <2>6 DEF Lines, PanelStep
<1> QED
  BY <1>3, LinesType DEF Lines, BusType

-----------------------------------------------------------------------------
\* Every register keeps its type, and the engine never sends or takes a byte
\* its mode does not have (ByteInv), for every panel and every run of resets.
TypeInv == TypeOK /\ ByteInv

\* The types and the byte counter hold at first.
LEMMA InitTypes == Init => TypeInv
<1> SUFFICES ASSUME Init
             PROVE  TypeInv
  OBVIOUS
<1> USE ConstantTypes, DelaysAreNaturals DEF Init
<1>0. wtrg \in BOOLEAN /\ rtrg \in BOOLEAN
  OBVIOUS
<1>1. SeqType
  BY <1>0 DEF SeqType
<1>2. EngineType /\ ByteInv
  BY DEF EngineType, ByteInv, Steps
<1>3. PanelInit \in PanelStates
  BY DEF PanelInit, PanelStates
<1>4. BusType
  BY <1>3 DEF BusType
<1> QED
  BY <1>1, <1>2, <1>4 DEF TypeInv, TypeOK, SeqType, EngineType, BusType

\* Every clock and every reset keeps the types and the byte counter.
LEMMA NextTypes == TypeInv /\ [Next]_vars => TypeInv'
<1> SUFFICES ASSUME TypeInv, [Next]_vars
             PROVE  TypeInv'
  OBVIOUS
<1>1. SeqType /\ EngineType /\ BusType /\ ByteInv /\ resets \in 0..MaxResets
  BY DEF TypeInv, TypeOK, SeqType, EngineType, BusType
<1>2. ASSUME NEW we \in BOOLEAN, Clock(we)
      PROVE  TypeInv'
  <2>1. SeqType'
    BY <1>1, <1>2, SeqTypeStep DEF Clock
  <2>2. EngineType' /\ ByteInv'
    BY <1>1, <1>2, EngineStep DEF Clock
  <2>3. BusType'
    BY <1>1, <1>2, LinesStep DEF Clock
  <2> QED
    BY <1>1, <1>2, <2>1, <2>2, <2>3
       DEF TypeInv, TypeOK, SeqType, EngineType, BusType, Clock
<1>3. ASSUME Reset
      PROVE  TypeInv'
  <2>1. SeqType'
    BY <1>1, <1>3 DEF Reset, SeqType
  <2>2. EngineType' /\ ByteInv'
    BY <1>1, <1>3 DEF Reset, EngineType, ByteInv, Steps
  <2>3. BusType'
    BY <1>1, <1>3, LinesStep DEF Reset
  <2>4. resets' \in 0..MaxResets
    BY <1>1, <1>3, DelaysAreNaturals DEF Reset
  <2> QED
    BY <2>1, <2>2, <2>3, <2>4 DEF TypeInv, TypeOK, SeqType, EngineType, BusType
<1>4. ASSUME UNCHANGED vars
      PROVE  TypeInv'
  BY <1>4 DEF TypeInv, TypeOK, ByteInv, vars, seqVars, engineVars, busVars
<1> QED
  BY <1>2, <1>3, <1>4 DEF Next, Tick

\* Type correctness of the touch-panel master.
THEOREM TypeCorrect == Spec => []TypeOK
<1>1. TypeInv => TypeOK
  BY DEF TypeInv
<1> QED
  BY InitTypes, NextTypes, <1>1, PTL DEF Spec

-----------------------------------------------------------------------------
\* The bus discipline rests on where SCL is low and SDA released.
LineInv ==
    /\ i2cstep \in {"waitLow", "txBit", "txHold", "rxBit", "rxHold", "ackDrive", "ackHigh",
                    "stop"} => scl_out = 0
    /\ i2cstep \in {"stop", "stopWait"} => sda_out = 1

\* SCL stays low, as driven, through the states that may move SDA.
LEMMA LineInvStep ==
    ASSUME LineInv, I2cStep
    PROVE  LineInv'
<1> USE DEF LineInv, Goto
<1>1. CASE I2cStart \/ I2cRest \/ I2cStretched
  BY <1>1 DEF I2cStart, I2cRest, I2cStretched, engineVars
<1>2. CASE I2cClock \/ I2cWaitLow \/ I2cWaitHigh \/ I2cAckDrive \/ I2cAckWait
  BY <1>2 DEF I2cClock, I2cWaitLow, I2cWaitHigh, I2cAckDrive, I2cAckWait
<1>3. CASE I2cBit
  BY <1>3 DEF I2cBit
<1>4. CASE I2cDelay
  BY <1>4 DEF I2cDelay, Delay
<1>5. CASE I2cByteEnd \/ I2cStop
  BY <1>5 DEF I2cByteEnd, I2cStop
<1>6. CASE I2cStopWait
  BY <1>6 DEF I2cStopWait, Delay
<1> QED
  BY <1>1, <1>2, <1>3, <1>4, <1>5, <1>6 DEF I2cStep

\* From there, no clock moves SDA under a high SCL.
LEMMA SdaStep ==
    ASSUME LineInv, I2cStep, sda_out' # sda_out
    PROVE  scl_out' = 0 \/ (i2cstep = "idle" /\ (wtrg \/ rtrg))
<1> USE DEF LineInv, Goto
<1>1. CASE I2cStart
  BY <1>1 DEF I2cStart
<1>2. CASE \/ I2cRest \/ I2cStretched \/ I2cClock
           \/ I2cWaitLow \/ I2cWaitHigh \/ I2cAckWait
  BY <1>2 DEF I2cRest, I2cStretched, I2cClock, I2cWaitLow, I2cWaitHigh, I2cAckWait,
              engineVars
<1>3. CASE I2cBit \/ I2cAckDrive
  <2>1. scl_out = 0 /\ scl_out' = scl_out
    BY <1>3 DEF I2cBit, I2cAckDrive
  <2> QED
    BY <2>1
<1>4. CASE I2cDelay
  BY <1>4 DEF I2cDelay
<1>5. CASE I2cByteEnd
  <2>1. scl_out' = 0
    BY <1>5 DEF I2cByteEnd
  <2> QED
    BY <2>1
<1>6. CASE I2cStop
  BY <1>6 DEF I2cStop
<1>7. CASE I2cStopWait
  BY <1>7 DEF I2cStopWait
<1> QED
  BY <1>1, <1>2, <1>3, <1>4, <1>5, <1>6, <1>7 DEF I2cStep

\* The master's data line never makes a START or a STOP the engine did not mean.
THEOREM SdaDiscipline == Spec => SdaMovesWhileSclLow
<1>1. Init => LineInv
  BY DEF Init, LineInv
<1>2. LineInv /\ TypeInv /\ [Next]_vars => LineInv'
  <2> SUFFICES ASSUME LineInv, TypeInv, [Next]_vars
               PROVE  LineInv'
    OBVIOUS
  <2>1. CASE Tick
    BY <2>1, LineInvStep DEF Tick, Clock
  <2>2. CASE Reset
    BY <2>2 DEF Reset, LineInv
  <2>3. CASE UNCHANGED vars
    BY <2>3 DEF LineInv, vars, engineVars
  <2> QED
    BY <2>1, <2>2, <2>3 DEF Next
<1>3. LineInv /\ TypeInv /\ [Next]_vars =>
        [sda_out' # sda_out => \/ scl_out' = 0
                               \/ i2cstep = "idle" /\ (wtrg \/ rtrg)
                               \/ resets' # resets]_vars
  <2> SUFFICES ASSUME LineInv, TypeInv, [Next]_vars, sda_out' # sda_out
               PROVE  \/ scl_out' = 0
                      \/ i2cstep = "idle" /\ (wtrg \/ rtrg)
                      \/ resets' # resets
    OBVIOUS
  <2>1. CASE Tick
    BY <2>1, SdaStep DEF Tick, Clock
  <2>2. CASE Reset
    BY <2>2, DelaysAreNaturals DEF Reset, TypeInv, TypeOK
  <2>3. CASE UNCHANGED vars
    BY <2>3 DEF vars, engineVars
  <2> QED
    BY <2>1, <2>2, <2>3 DEF Next
<1> QED
  BY <1>1, <1>2, <1>3, InitTypes, NextTypes, PTL DEF Spec, SdaMovesWhileSclLow

-----------------------------------------------------------------------------
\* The handshake.  HandshakeInv alone is not inductive: after a reset it holds
\* again only from the first read request on, and until then a request line may
\* still be up from before.
HandshakeIInv ==
    /\ HandshakeInv
    /\ dirty = 2 => smstate = 0
    /\ dirty = 1 /\ smstate = 3 => ~wtrg

\* The handshake invariant, one case per action of the sequencer.
LEMMA HandshakeStep ==
    ASSUME TypeInv, HandshakeIInv, NEW we \in BOOLEAN, Clock(we)
    PROVE  HandshakeIInv'
<1>1. I2cStep /\ SeqStep(we)
  BY DEF Clock
<1>2. /\ smstate \in 0..13 /\ dirty \in 0..2
      /\ i2cstep \in Steps
      /\ wtrg \in BOOLEAN /\ rtrg \in BOOLEAN
  BY DEF TypeInv, TypeOK
\* What a step of the engine can do to the step and the mode.
<1>3. CASE i2cstep = "idle"
  <2>1. /\ ~wtrg /\ ~rtrg => i2cstep' = "idle"
        /\ wtrg => i2cstep' = "low" /\ i2cmode' = TX
        /\ rtrg /\ ~wtrg => i2cstep' = "low" /\ i2cmode' = RX
    <3>1. I2cStart \/ I2cRest
      BY <1>1, <1>3 DEF I2cStep, I2cClock, I2cWaitLow, I2cWaitHigh, I2cAckDrive,
         I2cAckWait, I2cStretched, I2cBit, I2cDelay, I2cByteEnd, I2cStop, I2cStopWait
    <3>2. CASE I2cStart
      BY <1>2, <1>3, <3>2 DEF I2cStart, Goto
    <3>3. CASE I2cRest
      BY <1>2, <1>3, <3>3 DEF I2cRest, engineVars
    <3> QED
      BY <3>1, <3>2, <3>3
  <2> QED
    BY <1>1, <1>2, <1>3, <2>1 DEF HandshakeIInv, HandshakeInv, Recovered, SeqStep,
       SeqAccept, SeqRest, SeqCommand, SeqWriteStarted, SeqRead, SeqReadStarted,
       SeqFinish, SeqWait, seqVars
<1>4. CASE i2cstep # "idle"
  <2>1. i2cmode' = i2cmode
    BY <1>1, <1>4 DEF I2cStep, I2cStart, I2cRest, I2cClock, I2cWaitLow, I2cWaitHigh,
       I2cAckDrive, I2cAckWait, I2cStretched, I2cBit, I2cDelay, I2cByteEnd, I2cStop,
       I2cStopWait, engineVars
  <2> QED
    BY <1>1, <1>2, <1>4, <2>1 DEF HandshakeIInv, HandshakeInv, Recovered, SeqStep,
       SeqAccept, SeqRest, SeqCommand, SeqWriteStarted, SeqRead, SeqReadStarted,
       SeqFinish, SeqWait, seqVars
<1> QED
  BY <1>3, <1>4

\* It holds at first, and every clock and every reset keeps it.
LEMMA InitHandshake == Init => HandshakeIInv
  BY DEF Init, HandshakeIInv, HandshakeInv, Recovered

\* Every clock and every reset keeps the requests and the transfers in step.
LEMMA NextHandshake == TypeInv /\ HandshakeIInv /\ [Next]_vars => HandshakeIInv'
<1> SUFFICES ASSUME TypeInv, HandshakeIInv, [Next]_vars
             PROVE  HandshakeIInv'
  OBVIOUS
<1>1. CASE Tick
  BY <1>1, HandshakeStep DEF Tick
<1>2. CASE Reset
  BY <1>2 DEF Reset, HandshakeIInv, HandshakeInv, Recovered
<1>3. CASE UNCHANGED vars
  BY <1>3 DEF HandshakeIInv, HandshakeInv, Recovered, vars, seqVars, engineVars
<1> QED
  BY <1>1, <1>2, <1>3 DEF Next

\* A request starts one transfer, in its own mode, and a transfer answers one
\* request; after a reset this is true again from the first read request on.
THEOREM HandshakeCorrect == Spec => []HandshakeInv
<1>1. HandshakeIInv => HandshakeInv
  BY DEF HandshakeIInv
<1> QED
  BY <1>1, InitTypes, NextTypes, InitHandshake, NextHandshake, PTL DEF Spec

-----------------------------------------------------------------------------
\* Storing a received word is a delivery of the abstract sampler.
LEMMA Delivery ==
    ASSUME NEW a \in Axis, Phase = a, Phase' = AnyWord!After(a), dirty' = dirty,
           NEW word \in Word, data' = [data EXCEPT ![a] = word]
    PROVE  AnyWord!SNext
<1>1. AnyWord!Deliverable(a) = Word
  BY DEF AnyWord!Deliverable
<1>2. \E w \in AnyWord!Deliverable(a) : data' = [data EXCEPT ![a] = w]
  BY <1>1, Zenon
<1>3. AnyWord!Deliver(a)
  BY <1>2 DEF AnyWord!Deliver
<1> QED
  BY <1>3 DEF AnyWord!SNext, AnyWord!Convert, AnyWord!Axis

\* Whatever is on the bus, the registers behave as the abstract sampler's: the
\* three samples of a conversion appear once each, Z1 then X then Y, over the
\* zeros of the trigger, and the state register is 0 again with the last one.
THEOREM SamplesInOrder == Spec => DeliversInOrder
<1> USE DEF AnyWord!svars, AnyWord!Axis
<1>1. Init => AnyWord!SInit
  BY DEF Init, AnyWord!SInit, Phase
<1>2. TypeInv /\ [Next]_vars => [AnyWord!SNext]_AnyWord!svars
  <2> SUFFICES ASSUME TypeInv, [Next]_vars
               PROVE  AnyWord!SNext \/ UNCHANGED AnyWord!svars
    BY DEF AnyWord!svars
  <2>1. /\ smstate \in 0..13 /\ data \in [Axis -> Word] /\ Received \in Word
        /\ dirty \in 0..2
    BY ReceivedType DEF TypeInv, TypeOK
  <2>2. ASSUME NEW we \in BOOLEAN, Clock(we)
        PROVE  AnyWord!SNext \/ UNCHANGED AnyWord!svars
    <3>1. CASE SeqAccept(we)
      BY <3>1 DEF SeqAccept, AnyWord!SNext, AnyWord!Trigger, Phase
    <3>2. CASE SeqRest(we) \/ SeqWait
      BY <3>2 DEF SeqRest, SeqWait, seqVars, Phase
    <3>3. CASE SeqCommand
      <4>1. CASE smstate = 1
        BY <3>3, <4>1 DEF SeqCommand, Phase
      <4>2. CASE smstate = 5
        <5>1. data' = [data EXCEPT !["Z"] = Received] /\ smstate' = 6 /\ dirty' = dirty
          BY <3>3, <4>2 DEF SeqCommand, AxisRead
        <5>2. Phase = "Z" /\ Phase' = AnyWord!After("Z")
          BY <4>2, <5>1 DEF Phase, AnyWord!After
        <5> QED
          BY <2>1, <5>1, <5>2, Delivery
      <4>3. CASE smstate = 9
        <5>1. data' = [data EXCEPT !["X"] = Received] /\ smstate' = 10 /\ dirty' = dirty
          BY <3>3, <4>3 DEF SeqCommand, AxisRead
        <5>2. Phase = "X" /\ Phase' = AnyWord!After("X")
          BY <4>3, <5>1 DEF Phase, AnyWord!After
        <5> QED
          BY <2>1, <5>1, <5>2, Delivery
      <4> QED
        BY <3>3, <4>1, <4>2, <4>3 DEF SeqCommand
    <3>4. CASE SeqWriteStarted
      BY <3>4 DEF SeqWriteStarted, Phase
    <3>5. CASE SeqRead
      BY <3>5 DEF SeqRead, Phase
    <3>6. CASE SeqReadStarted
      BY <3>6 DEF SeqReadStarted, Phase
    <3>7. CASE SeqFinish
      <4>1. data' = [data EXCEPT !["Y"] = Received] /\ dirty' = dirty
        BY <3>7 DEF SeqFinish
      <4>2. Phase = "Y" /\ Phase' = AnyWord!After("Y")
        BY <3>7 DEF SeqFinish, Phase, AnyWord!After
      <4> QED
        BY <2>1, <4>1, <4>2, Delivery
    <3> QED
      BY <2>2, <3>1, <3>2, <3>3, <3>4, <3>5, <3>6, <3>7 DEF Clock, SeqStep
  <2>3. ASSUME Reset
        PROVE  AnyWord!SNext
    BY <2>3 DEF Reset, AnyWord!SNext, AnyWord!SReset, Phase
  <2>4. ASSUME UNCHANGED vars
        PROVE  UNCHANGED AnyWord!svars
    BY <2>4 DEF vars, seqVars, Phase
  <2> QED
    BY <2>2, <2>3, <2>4 DEF Next, Tick
<1> QED
  BY <1>1, <1>2, InitTypes, NextTypes, PTL DEF Spec, DeliversInOrder, AnyWord!Sampling

-----------------------------------------------------------------------------
\* The values.  That the registers hold the words of the panel needs all of the
\* master, the lines and the panel in one invariant: where the lines are in each
\* step of the engine, what the panel counts and drives, how late its output may
\* be, and what has been sent, heard, converted and taken so far.

\* The panel can settle its data before the master looks, and its acknowledge before
\* the next transfer.
InTime == MaxLag <= NS2009_DELAY /\ MaxLag <= NS2009_POLLP

\* The clock that begins a transfer, and the rest of it.
Fresh == i2cstep = "low" /\ i2ccnt = 0 /\ i2cbit = 0
Busy  == i2cstep # "idle" /\ ~Fresh

BitSteps == {"low", "waitLow", "txBit", "txHold", "rxBit", "rxHold", "waitHigh", "nextBit"}
AckSteps == {"ackHigh", "ackWait", "ackHold", "byteEnd"}

\* Where the two lines are in each step of the engine, and that it has seen them there.
SeenInv ==
    /\ i2cstep \in {"waitLow", "txBit", "txHold", "rxBit", "rxHold", "ackDrive",
                    "ackHigh", "stop"} => scl_out = 0
    /\ i2cstep \in {"idle", "waitHigh", "nextBit", "lastBit", "ackLow", "ackWait",
                    "ackHold", "byteEnd", "stopWait"} => scl_out = 1
    /\ i2cstep = "low" => scl_out = IF i2cbit = 0 /\ i2ccnt > 0 THEN 0 ELSE 1
    /\ i2cstep \in {"txBit", "txHold", "rxBit", "rxHold", "ackHigh"} => sclin = 0
    /\ i2cstep \in {"nextBit", "lastBit", "ackLow", "ackHold", "byteEnd", "stop"} => sclin = 1
    /\ i2cstep = "low" /\ ~Fresh => sclin = 1
    /\ i2cstep = "waitLow" /\ i2cbit = 0 /\ i2ccnt > 0 => sclin = 0
    /\ i2cstep = "nextBit" => i2cbit > 0

\* A transfer ends after the last byte of its mode.
EndInv == i2cstep \in {"stop", "stopWait"} => i2ccnt = LastByte

\* What the master puts on SDA, and that a zero was seen before SCL is high.
SdaInv ==
    /\ i2cstep \in {"idle", "stop", "stopWait"} => sda_out = 1
    /\ Fresh => sda_out = 0
    /\ i2cstep = "txHold" => i2cmode = TX \/ i2ccnt = 0
    /\ (i2cstep = "txHold" \/ (i2cstep = "waitHigh" /\ (i2cmode = TX \/ i2ccnt = 0)))
           => sda_out = i2csend[i2ccnt][7 - i2cbit]
    /\ i2cmode = RX /\ i2ccnt > 0 /\ i2cstep \in BitSteps \cup {"lastBit", "ackLow", "ackDrive"}
           => sda_out = 1
    /\ i2cstep \in AckSteps => sda_out = IF i2cmode = RX /\ i2ccnt = 1 THEN 0 ELSE 1
    /\ (\/ i2cstep \in {"waitHigh", "nextBit", "lastBit", "ackLow"} \cup (AckSteps \ {"ackHigh"})
        \/ i2cstep = "low" /\ i2cbit > 0) /\ sda_out = 0 => sdain = 0
    /\ i2cstep = "low" /\ i2cbit = 0 /\ i2ccnt = 2 => sdain = 0

\* What the panel drives after the fall that followed n rises.
TargetAfter(n) ==
    IF panel.mode = "send" THEN (IF n = 8 THEN 1 ELSE SendBit(panel.half, 7 - n))
    ELSE IF panel.mode = "off" THEN 1
    ELSE IF n = 8 THEN 0 ELSE 1

\* What can be said of the panel whatever the master does.
PanelInv ==
    IF ~present THEN panel = PanelInit
    ELSE /\ panel.scl = sclin /\ panel.sda = sdain
         /\ sclin = 1 => panel.hold = 0
         /\ panel.mode # "off" /\ sclin = 0 => panel.clocks <= 8
         /\ panel.mode \in {"command", "send"} /\ sclin = 1 => panel.clocks > 0
         /\ panel.mode = "off" => panel.target = 1
         /\ panel.mode # "off" =>
              panel.target = TargetAfter(IF sclin = 1 /\ panel.clocks > 0
                                         THEN panel.clocks - 1 ELSE panel.clocks)

\* The byte of the transfer the panel is in, and the rises of SCL in it.
InByte  == IF i2cstep = "low" /\ i2cbit = 0 THEN i2ccnt - 1 ELSE i2ccnt
Clocked == CASE i2cstep = "low" -> IF i2cbit = 0 THEN 9 ELSE i2cbit
             [] i2cstep \in {"waitLow", "txBit", "txHold", "rxBit", "rxHold", "nextBit"} -> i2cbit
             [] i2cstep = "waitHigh" -> i2cbit + sclin
             [] i2cstep \in {"lastBit", "ackLow", "ackDrive", "ackHigh"} -> 8
             [] i2cstep = "ackWait" -> 8 + sclin
             [] OTHER -> 9

\* The rises a panel has counted since the START it knows of; one that has left
\* the transfer has none to come.
Counted == CASE panel.mode = "address" -> panel.clocks
             [] panel.mode = "command" -> 9 + panel.clocks
             [] panel.mode = "send"    -> IF panel.half = 1 THEN 9 + panel.clocks ELSE 18 + panel.clocks
             [] panel.mode = "off"     -> 27

\* Even a panel that a reset left within an old transfer is done with it after the
\* 27 clocks of a read.
CountedInv == present /\ Busy => Counted >= 9 * InByte + Clocked

\* The panel drives what it is to drive, or will in less than n clocks.
Late(n) == panel.drive = panel.target \/ panel.lag < n

Exact == dirty = 0

\* Nobody holds the bus.
Resting == panel.drive = 1 /\ panel.target = 1 /\ panel.hold = 0 /\ sdain = 1 /\ sclin = 1

\* The bus after a transfer that the panel has left.
ReleasedInv ==
    present /\ (i2cmode = RX \/ Exact) =>
      /\ i2cstep = "stopWait" =>
           /\ panel.mode = "off"
           /\ Late(NS2009_POLLP + 1)
           /\ IF sclin = 0 THEN i2cwait = NS2009_POLLP ELSE Late(i2cwait)
      /\ i2cstep = "idle" => Resting

\* In an exact conversion the panel is where the engine is, but that the late
\* end of its last bit may look like a STOP to it.
ModeIn(n) == IF n = 0 THEN "address" ELSE IF i2cmode = TX THEN "command" ELSE "send"
Lock ==
    \/ /\ panel.mode = ModeIn(InByte) /\ panel.clocks = Clocked
       /\ panel.mode = "send" => panel.half = 2 - InByte
    \/ /\ i2cmode = RX /\ i2ccnt = 2 /\ i2cstep \in {"ackWait", "ackHold", "byteEnd", "stop"}
       /\ panel.mode = "off"
LockInv ==
    present /\ Exact =>
      /\ Busy /\ i2cstep # "stopWait" => Lock
      /\ Fresh => Resting

\* How late the panel's data may still be.
LateInv ==
    present /\ Exact =>
      /\ i2cstep = "waitLow" => IF sclin = 1 THEN Late(0) ELSE Late(MaxLag + 1)
      /\ i2cstep \in {"txBit", "rxBit"} => Late(MaxLag)
      /\ i2cstep \in {"txHold", "rxHold"} => Late(i2cwait - 1)
      /\ i2cstep = "rxHold" /\ i2cwait = 0 => sdain = panel.target
      /\ i2cstep \in {"waitHigh", "nextBit", "lastBit", "ackLow"} \/ (i2cstep = "low" /\ i2cbit > 0)
           => panel.drive = panel.target /\ (sclin = 1 => sdain = Sda)
      /\ i2cstep \in {"ackWait", "ackHold", "byteEnd"} /\ (i2cmode = TX \/ i2ccnt = 0)
           => (sdain = 0 => panel.drive = 0)

\* A conversion after a reset begins once a read has cleared the bus, and a word is
\* kept when a whole read has brought it.
ModeInv ==
    /\ dirty = 1 /\ smstate = 0 => i2cmode = RX
    /\ Recovered /\ smstate \in Reading =>
         i2cmode = RX /\ (i2cstep = "idle" => i2ccnt = 2)

\* What the sequencer asked for is what is sent, and what the panel has heard.
AskedInv ==
    Exact =>
      /\ smstate \in WriteRaised => iaddr = NS2009_WADDR /\ wdata = READ[Phase]
      /\ smstate \in ReadRaised => iaddr = NS2009_RADDR
      /\ i2cstep # "idle" => i2csend[0] = IF i2cmode = TX THEN NS2009_WADDR ELSE NS2009_RADDR
      /\ i2cstep # "idle" /\ i2cmode = TX => i2csend[1] = READ[Phase]
HeardInv ==
    present /\ Exact /\ Busy /\ panel.mode \in {"address", "command"} =>
      \A k \in 0..7 : k < panel.clocks => panel.byte[7 - k] = i2csend[InByte][7 - k]

\* From the acknowledge of the command on the panel holds a word of the axis asked for.
Converting ==
    \/ smstate \in ReadRaised \cup Reading
    \/ smstate \in Writing /\ i2cstep = "idle"
    \/ /\ i2cmode = TX /\ i2ccnt = 1
       /\ \/ i2cstep \in AckSteps \cup {"stop", "stopWait"}
          \/ i2cstep = "ackDrive" /\ sclin = 0
ValueInv == present /\ Exact /\ Converting => panel.value \in Samples[Phase]

\* The bits taken of each half of the word are the panel's, or the idle bus's.
Due(h, b) == IF present THEN SendBit(h, b) ELSE 1
TakenOf(h) ==
    IF i2ccnt < 2 - h THEN 0
    ELSE IF i2ccnt > 2 - h THEN 8
    ELSE IF i2cstep \in {"low", "waitLow", "rxBit", "rxHold", "nextBit"} THEN i2cbit
    ELSE IF i2cstep = "waitHigh" THEN i2cbit + 1
    ELSE 8
TakenInv ==
    /\ Exact /\ i2cmode = RX /\ (i2cstep # "idle" \/ smstate \in Reading) =>
         \A h \in 0..1, k \in 0..7 : k < TakenOf(h) => i2crecv[h][7 - k] = Due(h, 7 - k)
    /\ ~present /\ i2cstep = "rxHold" => sdain = 1

-----------------------------------------------------------------------------
\* What one clock of the bus is to the panel, field by field.
Becomes(mode, clocks, byte, half, value, target) ==
    /\ panel'.mode = mode /\ panel'.clocks = clocks /\ panel'.byte = byte
    /\ panel'.half = half /\ panel'.value = value /\ panel'.target = target

Ages == /\ panel'.lag  = IF panel.lag = 0 THEN 0 ELSE panel.lag - 1
        /\ panel'.hold = IF panel.hold = 0 THEN 0 ELSE panel.hold - 1

SeesStart ==
    /\ sclin = 1 /\ sclin' = 1 /\ sdain = 1 /\ sdain' = 0 /\ panel.drive = 1
    /\ Becomes("address", 0, panel.byte, panel.half, panel.value, 1) /\ Ages

SeesStop ==
    /\ sclin = 1 /\ sclin' = 1 /\ sdain = 0 /\ sdain' = 1
    /\ Becomes("off", panel.clocks, panel.byte, panel.half, panel.value, 1) /\ Ages

SeesNothing ==
    /\ sclin' = sclin
    /\ sdain' = sdain \/ sclin = 0 \/ (sdain' = 0 /\ panel.drive = 0)
    /\ Becomes(panel.mode, panel.clocks, panel.byte, panel.half, panel.value, panel.target)
    /\ Ages

SeesRise ==
    /\ sclin = 0 /\ sclin' = 1 /\ Ages
    /\ Becomes(panel.mode,
               IF panel.mode = "off" \/ panel.clocks = 9 THEN panel.clocks ELSE panel.clocks + 1,
               IF panel.mode \in {"off", "send"} \/ panel.clocks > 7 THEN panel.byte
               ELSE [panel.byte EXCEPT ![7 - panel.clocks] = Sda],
               panel.half, panel.value, panel.target)

\* Where a falling edge leaves the panel.
Keeps == Becomes(panel.mode, panel.clocks, panel.byte, panel.half, panel.value, panel.target)
Pulls(bit) == Becomes(panel.mode, panel.clocks, panel.byte, panel.half, panel.value, bit)
Leaves == Becomes("off", panel.clocks, panel.byte, panel.half, panel.value, 1)
Sends(half) == Becomes("send", 0, panel.byte, half, panel.value, SendBit(half, 7))

Falls ==
    \/ /\ \/ panel.mode = "off" \/ panel.clocks = 0
          \/ panel.mode \in {"address", "command"} /\ panel.clocks \in 1..7
       /\ Keeps
    \/ /\ panel.mode = "address" /\ panel.clocks = 8
       /\ panel.byte \in {NS2009_WADDR, NS2009_RADDR} /\ Pulls(0)
    \/ /\ panel.mode = "address" /\ panel.clocks = 8
       /\ panel.byte \notin {NS2009_WADDR, NS2009_RADDR} /\ Leaves
    \/ /\ panel.mode = "address" /\ panel.clocks = 9
       /\ panel.byte = NS2009_RADDR /\ Sends(1)
    \/ /\ panel.mode = "address" /\ panel.clocks = 9 /\ panel.byte # NS2009_RADDR
       /\ Becomes("command", 0, panel.byte, panel.half, panel.value, 1)
    \/ /\ panel.mode = "command" /\ panel.clocks = 8
       /\ \E value \in Converted : Becomes("command", 8, panel.byte, panel.half, value, 0)
    \/ panel.mode = "command" /\ panel.clocks = 9 /\ Leaves
    \/ /\ panel.mode = "send" /\ panel.clocks \in 1..7
       /\ Pulls(SendBit(panel.half, 7 - panel.clocks))
    \/ panel.mode = "send" /\ panel.clocks = 8 /\ Pulls(1)
    \/ panel.mode = "send" /\ panel.clocks = 9 /\ sdain = 0 /\ panel.half = 1 /\ Sends(0)
    \/ panel.mode = "send" /\ panel.clocks = 9 /\ ~(sdain = 0 /\ panel.half = 1) /\ Leaves

SeesFall ==
    /\ sclin = 1 /\ sclin' = 0
    /\ panel'.lag \in 0..MaxLag /\ panel'.hold \in 0..MaxStretch
    /\ Falls

\* The fields of a panel that time has passed for.
LEMMA SettledFields ==
    ASSUME BusType
    PROVE  /\ Settled.mode = panel.mode /\ Settled.clocks = panel.clocks
           /\ Settled.byte = panel.byte /\ Settled.half = panel.half
           /\ Settled.value = panel.value /\ Settled.target = panel.target
           /\ Settled.lag  = IF panel.lag = 0 THEN 0 ELSE panel.lag - 1
           /\ Settled.hold = IF panel.hold = 0 THEN 0 ELSE panel.hold - 1
           /\ Settled.drive = IF panel.lag = 0 THEN panel.target ELSE panel.drive
           /\ Settled.scl = Scl /\ Settled.sda = Sda
           /\ Settled \in PanelStates
<1>1. Settled \in PanelStates
  BY SettledType
<1>2. panel \in PanelStates
  BY DEF BusType
<1> HIDE DEF Bit
<1> QED
  BY <1>1, <1>2 DEF PanelStates, Settled

\* A panel with its inputs seen: every step of the bus is one of these events.
LEMMA PanelEvents ==
    ASSUME BusType, PanelInv, present, Lines
    PROVE  /\ panel'.drive = IF panel.lag = 0 THEN panel.target ELSE panel.drive
           /\ panel'.scl = sclin' /\ panel'.sda = sdain'
           /\ sclin' = Scl /\ sdain' = Sda
           /\ present' = present
           /\ SeesStart \/ SeesStop \/ SeesNothing \/ SeesRise \/ SeesFall
<1>1. /\ sclin' = Scl /\ sdain' = Sda /\ present' = present
      /\ panel.scl = sclin /\ panel.sda = sdain
      /\ Scl \in Bit /\ Sda \in Bit /\ sclin \in Bit /\ sdain \in Bit
  BY LinesType DEF Lines, PanelInv, BusType
<1>2. panel \in PanelStates
  BY DEF BusType
<1> DEFINE S == Settled
           Old(p) == /\ p.scl = sclin' /\ p.sda = sdain'
                     /\ p.drive = IF panel.lag = 0 THEN panel.target ELSE panel.drive
<1>3. Old(S) /\ S \in PanelStates
  BY <1>1, SettledFields
<1> HIDE DEF Bit
<1>4. CASE PanelStart
  <2> DEFINE s == Settled
  <2>1. /\ s.byte = panel.byte /\ s.half = panel.half /\ s.value = panel.value
        /\ s.lag  = IF panel.lag = 0 THEN 0 ELSE panel.lag - 1
        /\ s.hold = IF panel.hold = 0 THEN 0 ELSE panel.hold - 1
        /\ Old(s) /\ s \in PanelStates
    BY SettledFields, <1>3
  <2>2. /\ panel' = [s EXCEPT !.mode = "address", !.clocks = 0, !.target = 1, !.started = TRUE]
        /\ sclin = 1 /\ sclin' = 1 /\ sdain = 1 /\ sdain' = 0 /\ panel.drive = 1
    BY <1>1, <1>4 DEF PanelStart
  <2> HIDE DEF s
  <2>3. Old(panel') /\ SeesStart
    BY <2>1, <2>2 DEF PanelStates, SeesStart, Becomes, Ages
  <2> QED
    BY <2>3, <1>1
<1>5. CASE PanelStop
  <2> DEFINE s == Settled
  <2>1. /\ s.byte = panel.byte /\ s.half = panel.half /\ s.value = panel.value
        /\ s.clocks = panel.clocks
        /\ s.lag  = IF panel.lag = 0 THEN 0 ELSE panel.lag - 1
        /\ s.hold = IF panel.hold = 0 THEN 0 ELSE panel.hold - 1
        /\ Old(s) /\ s \in PanelStates
    BY SettledFields, <1>3
  <2>2. /\ panel' = [s EXCEPT !.mode = "off", !.target = 1, !.started = FALSE]
        /\ sclin = 1 /\ sclin' = 1 /\ sdain = 0 /\ sdain' = 1
    BY <1>1, <1>5 DEF PanelStop
  <2> HIDE DEF s
  <2>3. Old(panel') /\ SeesStop
    BY <2>1, <2>2 DEF PanelStates, SeesStop, Becomes, Ages
  <2> QED
    BY <2>3, <1>1
<1>6. CASE PanelQuiet
  <2>1. panel' = Settled /\ sclin' = sclin
        /\ (sdain' = sdain \/ sclin = 0 \/ (sdain' = 0 /\ panel.drive = 0))
    BY <1>1, <1>6 DEF PanelQuiet
  <2>2. SeesNothing /\ Old(panel')
    BY <2>1, <1>3, SettledFields DEF SeesNothing, Becomes, Ages
  <2> QED
    BY <2>2, <1>1
<1>7. CASE PanelRise
  <2> DEFINE s == Settled
             clocks == IF panel.clocks = 9 THEN 9 ELSE panel.clocks + 1
             byte == IF panel.mode = "send" \/ panel.clocks > 7 THEN panel.byte
                     ELSE [panel.byte EXCEPT ![7 - panel.clocks] = Sda]
  <2>1. /\ s.mode = panel.mode /\ s.byte = panel.byte /\ s.half = panel.half
        /\ s.value = panel.value /\ s.clocks = panel.clocks /\ s.target = panel.target
        /\ s.lag  = IF panel.lag = 0 THEN 0 ELSE panel.lag - 1
        /\ s.hold = IF panel.hold = 0 THEN 0 ELSE panel.hold - 1
        /\ Old(s) /\ s \in PanelStates
    BY SettledFields, <1>3
  <2>2. sclin = 0 /\ sclin' = 1
    BY <1>1, <1>7 DEF PanelRise
  <2>3. CASE panel.mode = "off"
    <3>1. panel' = s
      BY <1>7, <2>3 DEF PanelRise
    <3> HIDE DEF s
    <3>2. SeesRise /\ Old(panel')
      BY <2>1, <2>2, <2>3, <3>1 DEF SeesRise, Becomes, Ages
    <3> QED
      BY <3>2, <1>1
  <2>4. CASE panel.mode # "off"
    <3>1. panel' = [s EXCEPT !.clocks = clocks, !.byte = byte]
      BY <1>7, <2>1, <2>4 DEF PanelRise
    <3> HIDE DEF s, clocks, byte
    <3>2. /\ Becomes(panel.mode, clocks, byte, panel.half, panel.value, panel.target)
          /\ Ages /\ Old(panel')
      BY <2>1, <3>1 DEF Becomes, Ages, PanelStates
    <3>3. SeesRise
      BY <2>2, <2>4, <3>2 DEF SeesRise, Becomes, clocks, byte
    <3> QED
      BY <3>2, <3>3, <1>1
  <2> QED
    BY <2>3, <2>4
<1>8. CASE PanelFall
  <2>1. PICK value \in IF panel.mode = "command" /\ panel.clocks = 8
                       THEN Converted ELSE {panel.value},
             lag \in 0..MaxLag, hold \in 0..MaxStretch :
             panel' = [AfterFall(value) EXCEPT !.lag = lag, !.hold = hold]
    BY <1>8 DEF PanelFall
  <2>2. sclin = 1 /\ sclin' = 0
    BY <1>1, <1>8 DEF PanelFall
  <2> DEFINE a == AfterFall(value)
             B(mode, clocks, half, val, target) ==
                 /\ a.mode = mode /\ a.clocks = clocks /\ a.byte = panel.byte
                 /\ a.half = half /\ a.value = val /\ a.target = target
  <2>3. value \in Word
    BY <2>1, <1>2, ConvertedType DEF PanelStates
  <2>4. a \in PanelStates
    BY <2>3, AfterFallType
  <2>5. Old(a)
    BY <1>3, SettledFields DEF AfterFall, Drive, Off, Listen, Convert, Send, PanelStates
  <2>6. /\ panel'.mode = a.mode /\ panel'.clocks = a.clocks /\ panel'.byte = a.byte
        /\ panel'.half = a.half /\ panel'.value = a.value /\ panel'.target = a.target
        /\ panel'.lag = lag /\ panel'.hold = hold
        /\ Old(panel')
    <3> HIDE DEF a
    <3> QED
      BY <2>1, <2>4, <2>5 DEF a, PanelStates
  <2>7. Falls
    <3>1. panel.mode \in {"off", "address", "command", "send"} /\ panel.clocks \in 0..9
      BY <1>2 DEF PanelStates
    <3>2. CASE panel.mode = "off" \/ panel.clocks = 0
      <4>1. a = Settled
        BY <3>2 DEF AfterFall
      <4> QED
        BY <2>6, <3>2, <4>1, SettledFields DEF Falls, Keeps, Becomes
    <3>3. CASE panel.mode = "address" /\ panel.clocks = 8
      <4>1. a = IF panel.byte \in {NS2009_WADDR, NS2009_RADDR} THEN Drive(0) ELSE Off
        BY <3>3 DEF AfterFall
      <4>2. /\ panel.byte \in {NS2009_WADDR, NS2009_RADDR} => B("address", 8, panel.half, panel.value, 0)
            /\ panel.byte \notin {NS2009_WADDR, NS2009_RADDR} => B("off", 8, panel.half, panel.value, 1)
        BY <3>3, <4>1, SettledFields DEF PanelStates, Drive, Off
      <4> QED
        BY <2>6, <3>3, <4>2 DEF Falls, Pulls, Leaves, Becomes
    <3>4. CASE panel.mode = "address" /\ panel.clocks = 9
      <4>1. a = IF panel.byte = NS2009_RADDR THEN Send(1) ELSE Listen
        BY <3>4 DEF AfterFall
      <4>2. /\ panel.byte = NS2009_RADDR => B("send", 0, 1, panel.value, SendBit(1, 7))
            /\ panel.byte # NS2009_RADDR => B("command", 0, panel.half, panel.value, 1)
        BY <3>4, <4>1, SettledFields DEF PanelStates, Send, Listen
      <4> QED
        BY <2>6, <3>4, <4>2 DEF Falls, Sends, Becomes
    <3>5. CASE panel.mode = "command" /\ panel.clocks = 8
      <4>1. a = Convert(value) /\ value \in Converted
        BY <2>1, <3>5 DEF AfterFall
      <4>2. B("command", 8, panel.half, value, 0)
        BY <3>5, <4>1, SettledFields DEF PanelStates, Convert
      <4> QED
        BY <2>6, <3>5, <4>1, <4>2 DEF Falls, Becomes
    <3>6. CASE panel.mode = "command" /\ panel.clocks = 9
      <4>1. a = Off
        BY <3>6 DEF AfterFall
      <4>2. B("off", 9, panel.half, panel.value, 1)
        BY <3>6, <4>1, SettledFields DEF PanelStates, Off
      <4> QED
        BY <2>6, <3>6, <4>2 DEF Falls, Leaves, Becomes
    <3>7. CASE panel.mode = "send" /\ panel.clocks \in 1..7
      <4> DEFINE bit == SendBit(panel.half, 7 - panel.clocks)
      <4>1. a = Drive(bit)
        BY <3>7 DEF AfterFall
      <4>2. B("send", panel.clocks, panel.half, panel.value, bit)
        <5> HIDE DEF bit
        <5> QED
          BY <3>7, <4>1, SettledFields DEF PanelStates, Drive
      <4> QED
        BY <2>6, <3>7, <4>2 DEF Falls, Pulls, Becomes
    <3>8. CASE panel.mode = "send" /\ panel.clocks = 8
      <4>1. a = Drive(1)
        BY <3>8 DEF AfterFall
      <4>2. B("send", 8, panel.half, panel.value, 1)
        BY <3>8, <4>1, SettledFields DEF PanelStates, Drive
      <4> QED
        BY <2>6, <3>8, <4>2 DEF Falls, Pulls, Becomes
    <3>9. CASE panel.mode = "send" /\ panel.clocks = 9
      <4>1. a = IF panel.sda = 0 /\ panel.half = 1 THEN Send(0) ELSE Off
        BY <3>9 DEF AfterFall
      <4>2. /\ sdain = 0 /\ panel.half = 1 => B("send", 0, 0, panel.value, SendBit(0, 7))
            /\ ~(sdain = 0 /\ panel.half = 1) => B("off", 9, panel.half, panel.value, 1)
        BY <1>1, <3>9, <4>1, SettledFields DEF PanelStates, Send, Off
      <4> QED
        BY <2>6, <3>9, <4>2 DEF Falls, Sends, Leaves, Becomes
    <3>10. CASE panel.mode \in {"address", "command"} /\ panel.clocks \in 1..7
      <4>1. a = Settled
        BY <3>10 DEF AfterFall
      <4> QED
        BY <2>6, <3>10, <4>1, SettledFields DEF Falls, Keeps, Becomes
    <3>11. panel.clocks = 0 \/ panel.clocks \in 1..7 \/ panel.clocks = 8 \/ panel.clocks = 9
      BY <3>1
    <3> QED
      BY <3>1, <3>2, <3>3, <3>4, <3>5, <3>6, <3>7, <3>8, <3>9, <3>10, <3>11
  <2> QED
    BY <2>1, <2>2, <2>6, <2>7, <1>1 DEF SeesFall
<1> QED
  BY <1>4, <1>5, <1>6, <1>7, <1>8 DEF Lines, PanelStep

-----------------------------------------------------------------------------
\* The lines, the end of a transfer and what the master drives.

\* A panel that holds SCL low is seen to.
LEMMA HeldLow ==
    ASSUME PanelInv, sclin = 1
    PROVE  panel.hold = 0
  BY DEF PanelInv, PanelInit

\* The engine moves on only when it has seen the lines where it put them.
LEMMA SeenStep ==
    ASSUME TypeInv, SeenInv, PanelInv, I2cStep, Lines
    PROVE  SeenInv'
<1>1. /\ sclin' = IF scl_out = 1 /\ panel.hold = 0 THEN 1 ELSE 0
      /\ sclin = 1 => panel.hold = 0
  BY HeldLow DEF Lines, Scl
<1>2. /\ i2cstep \in Steps /\ i2ccnt \in 0..2 /\ i2cmode \in 0..2 /\ i2cbit \in 0..7
      /\ i2cwait \in Nat /\ sclin \in Bit /\ scl_out \in Bit
      /\ i2cstep # "idle" => i2cmode \in {TX, RX}
      /\ i2cmode = TX => i2ccnt \in 0..1
  BY DEF TypeInv, TypeOK, ByteInv
<1> USE DEF SeenInv, Fresh, Goto
<1>3. CASE I2cStart
  BY <1>1, <1>2, <1>3 DEF I2cStart
<1>4. CASE I2cRest \/ I2cStretched
  BY <1>1, <1>2, <1>4 DEF I2cRest, I2cStretched, engineVars
<1>5. CASE I2cClock
  BY <1>1, <1>2, <1>5 DEF I2cClock
<1>6. CASE I2cWaitLow \/ I2cWaitHigh
  BY <1>1, <1>2, <1>6 DEF I2cWaitLow, I2cWaitHigh
<1>7. CASE I2cAckDrive \/ I2cAckWait
  BY <1>1, <1>2, <1>7 DEF I2cAckDrive, I2cAckWait
<1>8. CASE I2cBit
  BY <1>1, <1>2, <1>8 DEF I2cBit
<1>9. CASE I2cDelay
  BY <1>1, <1>2, <1>9 DEF I2cDelay, Delay
<1>10. CASE I2cByteEnd
  BY <1>1, <1>2, <1>10 DEF I2cByteEnd, LastByte
<1>11. CASE I2cStop \/ I2cStopWait
  BY <1>1, <1>2, <1>11 DEF I2cStop, I2cStopWait, Delay
<1> QED
  BY <1>3, <1>4, <1>5, <1>6, <1>7, <1>8, <1>9, <1>10, <1>11 DEF I2cStep

\* The engine stops after the last byte.
LEMMA EndStep ==
    ASSUME TypeInv, EndInv, I2cStep
    PROVE  EndInv'
<1> USE DEF EndInv, LastByte, Goto
<1>1. CASE I2cStart \/ I2cRest \/ I2cStretched
  BY <1>1 DEF I2cStart, I2cRest, I2cStretched, engineVars
<1>2. CASE I2cClock \/ I2cWaitLow \/ I2cWaitHigh \/ I2cAckDrive \/ I2cAckWait
  BY <1>2 DEF I2cClock, I2cWaitLow, I2cWaitHigh, I2cAckDrive, I2cAckWait
<1>3. CASE I2cBit \/ I2cDelay
  BY <1>3 DEF I2cBit, I2cDelay, Delay
<1>4. CASE I2cByteEnd
  BY <1>4 DEF I2cByteEnd
<1>5. CASE I2cStop \/ I2cStopWait
  BY <1>5 DEF I2cStop, I2cStopWait, Delay
<1> QED
  BY <1>1, <1>2, <1>3, <1>4, <1>5 DEF I2cStep

\* The master drives SDA as its step says, and a zero it drives is seen.
LEMMA SdaInvStep ==
    ASSUME TypeInv, SeenInv, EndInv, SdaInv, I2cStep, Lines
    PROVE  SdaInv'
<1>1. sda_out = 0 => sdain' = 0
  BY DEF Lines, Sda
<1>2. /\ i2cstep \in Steps /\ i2ccnt \in 0..2 /\ i2cmode \in 0..2 /\ i2cbit \in 0..7
      /\ i2cwait \in Nat /\ sda_out \in Bit
      /\ i2cstep # "idle" => i2cmode \in {TX, RX}
      /\ i2cmode = TX => i2ccnt \in 0..1
      /\ i2cstep = "txBit" => i2cmode = TX \/ i2ccnt = 0
      /\ i2cstep \in {"rxBit", "rxHold"} => i2cmode = RX /\ i2ccnt \in 1..2
  BY DEF TypeInv, TypeOK, ByteInv
<1> USE DEF SdaInv, BitSteps, AckSteps, Fresh, Goto
<1>3. CASE I2cStart
  BY <1>1, <1>2, <1>3 DEF I2cStart
<1>4. CASE I2cRest \/ I2cStretched
  BY <1>1, <1>2, <1>4 DEF I2cRest, I2cStretched, engineVars
<1>5. CASE I2cClock
  BY <1>1, <1>2, <1>5 DEF I2cClock
<1>6. CASE I2cWaitLow \/ I2cWaitHigh
  BY <1>1, <1>2, <1>6 DEF I2cWaitLow, I2cWaitHigh
<1>7. CASE I2cAckDrive \/ I2cAckWait
  BY <1>1, <1>2, <1>7 DEF I2cAckDrive, I2cAckWait
<1>8. CASE I2cBit
  BY <1>1, <1>2, <1>8 DEF I2cBit
<1>9. CASE I2cDelay
  BY <1>1, <1>2, <1>9 DEF I2cDelay, Delay, SeenInv
<1>10. CASE I2cByteEnd
  BY <1>1, <1>2, <1>10 DEF I2cByteEnd, LastByte
<1>11. CASE I2cStop \/ I2cStopWait
  BY <1>1, <1>2, <1>11 DEF I2cStop, I2cStopWait, Delay
<1> QED
  BY <1>3, <1>4, <1>5, <1>6, <1>7, <1>8, <1>9, <1>10, <1>11 DEF I2cStep

-----------------------------------------------------------------------------
\* The panel on its own.

\* The panel drives what its place in the byte says, whatever the master does.
LEMMA PanelInvStep ==
    ASSUME TypeInv, PanelInv, Lines
    PROVE  PanelInv'
<1>1. BusType
  BY DEF TypeInv, TypeOK, BusType
<1>2. CASE ~present
  BY <1>2 DEF PanelInv, Lines, PanelStep
<1>3. CASE present
  <2>1. /\ panel.mode \in {"off", "address", "command", "send"} /\ panel.clocks \in 0..9
        /\ panel.hold \in 0..MaxStretch /\ panel.half \in Bit
    BY <1>1 DEF BusType, PanelStates
  <2>2. sclin' = Scl /\ Scl \in Bit /\ sclin \in Bit
    BY <1>1, LinesType DEF Lines, BusType
  <2>3. panel'.scl = sclin' /\ panel'.sda = sdain' /\ present'
    BY <1>1, <1>3, PanelEvents
  <2>4. sclin' = 1 => panel.hold = 0
    BY <2>2 DEF Scl
  <2> DEFINE Tail ==
               /\ sclin = 1 => panel.hold = 0
               /\ panel.mode # "off" /\ sclin = 0 => panel.clocks <= 8
               /\ panel.mode \in {"command", "send"} /\ sclin = 1 => panel.clocks > 0
               /\ panel.mode = "off" => panel.target = 1
               /\ panel.mode # "off" =>
                    panel.target = TargetAfter(IF sclin = 1 /\ panel.clocks > 0
                                               THEN panel.clocks - 1 ELSE panel.clocks)
  <2>0. Tail
    BY <1>3 DEF PanelInv
  <2>5. CASE SeesStart
    <3>1. Tail'
      BY <2>0, <2>1, <2>2, <2>4, <2>5 DEF SeesStart, Becomes, Ages, TargetAfter, SendBit
    <3> QED
      BY <1>3, <2>3, <3>1 DEF PanelInv
  <2>6. CASE SeesStop
    <3>1. Tail'
      BY <2>0, <2>1, <2>2, <2>4, <2>6 DEF SeesStop, Becomes, Ages, TargetAfter, SendBit
    <3> QED
      BY <1>3, <2>3, <3>1 DEF PanelInv
  <2>7. CASE SeesNothing
    <3>1. Tail'
      BY <2>0, <2>1, <2>2, <2>4, <2>7 DEF SeesNothing, Becomes, Ages, TargetAfter, SendBit
    <3> QED
      BY <1>3, <2>3, <3>1 DEF PanelInv
  <2>8. CASE SeesRise
    <3>1. Tail'
      BY <2>0, <2>1, <2>2, <2>4, <2>8 DEF SeesRise, Becomes, Ages, TargetAfter, SendBit
    <3> QED
      BY <1>3, <2>3, <3>1 DEF PanelInv
  <2>9. CASE SeesFall
    <3> USE DEF SeesFall, Becomes, TargetAfter
    <3>1. Tail'
      BY <2>0, <2>1, <2>2, <2>4, <2>9 DEF Falls, Keeps, Pulls, Leaves, Sends, SendBit
    <3> QED
      BY <1>3, <2>3, <3>1 DEF PanelInv
  <2> QED
    BY <1>1, <1>3, <2>5, <2>6, <2>7, <2>8, <2>9, PanelEvents
<1> QED
  BY <1>2, <1>3

\* A START is what begins a transfer, and nothing else.
LEMMA OnlyStart ==
    ASSUME TypeInv, SeenInv, SdaInv, PanelInv, present, Lines, SeesStart
    PROVE  Fresh
<1>1. scl_out = 1 /\ sda_out = 0 /\ sdain = 1
  BY DEF SeesStart, Lines, Scl, Sda, TypeInv, TypeOK
<1>2. i2cstep \in Steps /\ i2cbit \in 0..7 /\ i2ccnt \in 0..2
  BY DEF TypeInv, TypeOK
<1> QED
  BY <1>1, <1>2 DEF SeenInv, SdaInv, AckSteps, Steps, Fresh

\* The rises of SCL in the transfer so far.
Rises == 9 * InByte + Clocked

\* A clock of a transfer adds to them only a rise of the line.
LEMMA RisesStep ==
    ASSUME TypeInv, SeenInv, EndInv, PanelInv, I2cStep, Lines, Busy'
    PROVE  /\ Rises' <= 27
           /\ Fresh => Rises' = 0
           /\ Busy => Rises' <= Rises \/ (Rises' = Rises + 1 /\ sclin = 0 /\ sclin' = 1)
<1>1. /\ sclin' = IF scl_out = 1 /\ panel.hold = 0 THEN 1 ELSE 0
      /\ sclin = 1 => panel.hold = 0
  BY HeldLow DEF Lines, Scl
<1>2. /\ i2cstep \in Steps /\ i2ccnt \in 0..2 /\ i2cmode \in 0..2 /\ i2cbit \in 0..7
      /\ i2cwait \in Nat /\ sclin \in Bit /\ scl_out \in Bit
      /\ i2cstep # "idle" => i2cmode \in {TX, RX}
      /\ i2cmode = TX => i2ccnt \in 0..1
  BY DEF TypeInv, TypeOK, ByteInv
<1> USE DEF Rises, InByte, Clocked, Busy, Fresh, Goto
<1>3. CASE I2cStart
  BY <1>3 DEF I2cStart
<1>4. CASE I2cRest \/ I2cStretched
  BY <1>1, <1>2, <1>4 DEF I2cRest, I2cStretched, engineVars, Steps
<1>5. CASE I2cClock
  BY <1>1, <1>2, <1>5 DEF I2cClock, SeenInv
<1>6. CASE I2cWaitLow \/ I2cWaitHigh
  BY <1>1, <1>2, <1>6 DEF I2cWaitLow, I2cWaitHigh, SeenInv
<1>7. CASE I2cAckDrive \/ I2cAckWait
  BY <1>1, <1>2, <1>7 DEF I2cAckDrive, I2cAckWait, SeenInv
<1>8. CASE I2cBit
  BY <1>1, <1>2, <1>8 DEF I2cBit, SeenInv
<1>9. CASE I2cDelay
  BY <1>1, <1>2, <1>9 DEF I2cDelay, Delay, SeenInv
<1>10. CASE I2cByteEnd
  BY <1>1, <1>2, <1>10 DEF I2cByteEnd, LastByte, SeenInv
<1>11. CASE I2cStop \/ I2cStopWait
  BY <1>1, <1>2, <1>11 DEF I2cStop, I2cStopWait, Delay, SeenInv
<1> QED
  BY <1>3, <1>4, <1>5, <1>6, <1>7, <1>8, <1>9, <1>10, <1>11 DEF I2cStep

\* The panel counts every rise of its transfer.
LEMMA CountedStep ==
    ASSUME TypeInv, SeenInv, EndInv, SdaInv, PanelInv, CountedInv, I2cStep, Lines
    PROVE  CountedInv'
<1> SUFFICES ASSUME present, Busy'
             PROVE  Counted' >= Rises'
  BY DEF CountedInv, Lines, Rises
<1>1. BusType
  BY DEF TypeInv, TypeOK, BusType
<1>2. /\ panel.mode \in {"off", "address", "command", "send"} /\ panel.clocks \in 0..9
      /\ panel.half \in Bit
  BY <1>1 DEF BusType, PanelStates
<1>3. /\ Rises' <= 27
      /\ Fresh => Rises' = 0
      /\ Busy => Rises' <= Rises \/ (Rises' = Rises + 1 /\ sclin = 0 /\ sclin' = 1)
  BY RisesStep
<1>4. Counted \in Nat /\ Counted' \in Nat
  <2>1. BusType'
    BY <1>1, LinesStep
  <2> QED
    BY <1>2, <2>1 DEF Counted, BusType, PanelStates
<1>5. Rises \in Int /\ Rises' \in Int
  <2>1. /\ i2ccnt \in 0..2 /\ i2cbit \in 0..7 /\ sclin \in Bit
        /\ i2ccnt' \in 0..2 /\ i2cbit' \in 0..7 /\ sclin' \in Bit
    BY <1>1, EngineStep, LinesStep DEF TypeInv, TypeOK, SeqType, EngineType, BusType
  <2> QED
    BY <2>1 DEF Rises, InByte, Clocked
<1>6. Fresh \/ Busy
  BY DEF Busy, Fresh, I2cStep, I2cStart, I2cRest, I2cClock, I2cWaitLow, I2cWaitHigh,
     I2cAckDrive, I2cAckWait, I2cStretched, I2cBit, I2cDelay, I2cByteEnd, I2cStop,
     I2cStopWait, Goto, engineVars
<1>7. CASE Fresh
  BY <1>3, <1>4, <1>5, <1>7
<1>8. CASE Busy
  <2>1. Counted >= Rises
    BY <1>8 DEF CountedInv, Rises
  <2>2. ~SeesStart
    BY <1>8, OnlyStart DEF Busy
  <2>3. CASE SeesStop
    <3>1. Counted' = 27
      BY <2>3 DEF SeesStop, Becomes, Counted
    <3> QED
      BY <1>3, <3>1
  <2>4. CASE SeesNothing
    <3>1. Counted' = Counted /\ sclin' = sclin
      BY <2>4 DEF SeesNothing, Becomes, Counted
    <3> QED
      BY <1>3, <1>4, <1>5, <1>8, <2>1, <3>1
  <2>5. CASE SeesRise
    <3>1. panel.mode = "off" \/ panel.clocks <= 8
      BY <2>5 DEF SeesRise, PanelInv
    <3>2. Counted' = IF panel.mode = "off" THEN 27 ELSE Counted + 1
      BY <1>2, <2>5, <3>1 DEF SeesRise, Becomes, Counted
    <3> QED
      BY <1>3, <1>4, <1>5, <1>8, <2>1, <3>2
  <2>6. CASE SeesFall
    <3>1. Counted' >= Counted /\ sclin = 1
      BY <1>2, <2>6 DEF SeesFall, Falls, Keeps, Pulls, Leaves, Sends, Becomes, Counted
    <3> QED
      BY <1>3, <1>4, <1>5, <1>8, <2>1, <3>1
  <2> QED
    BY <1>1, <2>2, <2>3, <2>4, <2>5, <2>6, PanelEvents
<1> QED
  BY <1>6, <1>7, <1>8

-----------------------------------------------------------------------------
\* The sequencer and the modes of the transfers.

\* An idle engine begins what it is asked for, and rests otherwise.
LEMMA IdleStep ==
    ASSUME I2cStep, i2cstep = "idle"
    PROVE  I2cStart \/ I2cRest
  BY DEF I2cStep, I2cClock, I2cWaitLow, I2cWaitHigh, I2cAckDrive, I2cAckWait,
     I2cStretched, I2cBit, I2cDelay, I2cByteEnd, I2cStop, I2cStopWait

\* A transfer keeps its mode and its bytes, and ends in the wait after the STOP.
LEMMA TransferStep ==
    ASSUME I2cStep, i2cstep # "idle"
    PROVE  /\ i2cmode' = i2cmode /\ i2csend' = i2csend
           /\ i2cstep' = "stopWait" => i2cstep \in {"stop", "stopWait"}
           /\ i2cstep' = "idle" => i2cstep = "stopWait" /\ i2ccnt' = i2ccnt
  BY DEF I2cStep, I2cStart, I2cRest, I2cClock, I2cWaitLow, I2cWaitHigh, I2cAckDrive,
     I2cAckWait, I2cStretched, I2cBit, I2cDelay, Delay, I2cByteEnd, I2cStop, I2cStopWait,
     engineVars, Fresh, Goto

\* A word is kept only when a read has brought all of it.
LEMMA ModeStep ==
    ASSUME TypeInv, HandshakeIInv, EndInv, ModeInv, NEW we \in BOOLEAN, Clock(we)
    PROVE  ModeInv'
<1>1. I2cStep /\ SeqStep(we)
  BY DEF Clock
<1>2. smstate \in 0..13 /\ dirty \in 0..2 /\ i2cstep \in Steps
  BY DEF TypeInv, TypeOK
<1>3. CASE i2cstep = "idle"
  <2>1. CASE I2cRest
    BY <1>1, <1>2, <1>3, <2>1 DEF ModeInv, Recovered, I2cRest, engineVars,
       HandshakeIInv, HandshakeInv, SeqStep, SeqAccept, SeqRest, SeqCommand,
       SeqWriteStarted, SeqRead, SeqReadStarted, SeqFinish, SeqWait, seqVars
  <2>2. CASE I2cStart
    BY <1>1, <1>2, <1>3, <2>2 DEF ModeInv, Recovered, I2cStart, Goto,
       HandshakeIInv, HandshakeInv, SeqStep, SeqAccept, SeqRest, SeqCommand,
       SeqWriteStarted, SeqRead, SeqReadStarted, SeqFinish, SeqWait, seqVars
  <2> QED
    BY <1>1, <1>3, <2>1, <2>2, IdleStep
<1>4. CASE i2cstep # "idle"
  <2>1. /\ i2cmode' = i2cmode
        /\ i2cstep' = "idle" => i2cstep = "stopWait" /\ i2ccnt' = i2ccnt
    BY <1>1, <1>4, TransferStep
  <2> QED
    BY <1>1, <1>2, <1>4, <2>1 DEF ModeInv, EndInv, LastByte, Recovered,
       HandshakeIInv, HandshakeInv, SeqStep, SeqAccept, SeqRest, SeqCommand,
       SeqWriteStarted, SeqRead, SeqReadStarted, SeqFinish, SeqWait, seqVars
<1> QED
  BY <1>3, <1>4

\* The samples become exact again only when the bus has been cleared by a read.
LEMMA ExactStep ==
    ASSUME TypeInv, HandshakeIInv, ModeInv, NEW we \in BOOLEAN, Clock(we), Exact', ~Exact
    PROVE  i2cstep = "idle" /\ i2cmode = RX /\ smstate' = 1 /\ UNCHANGED engineVars
<1>1. SeqAccept(we) /\ dirty = 1
  BY DEF Clock, SeqStep, SeqAccept, SeqRest, SeqCommand, SeqWriteStarted, SeqRead,
     SeqReadStarted, SeqFinish, SeqWait, seqVars, Exact, TypeInv, TypeOK
<1>2. smstate = 0 /\ i2cstep = "idle" /\ smstate' = 1
  BY <1>1 DEF SeqAccept
<1>3. ~wtrg /\ ~rtrg
  BY <1>1, <1>2 DEF HandshakeIInv, HandshakeInv, Recovered
<1>4. I2cRest
  BY <1>2, <1>3, IdleStep DEF Clock, I2cStart
<1> QED
  BY <1>1, <1>2, <1>4 DEF ModeInv, I2cRest

-----------------------------------------------------------------------------
\* The bus at rest.

\* A bus that nobody holds stays so until the master pulls on it.
LEMMA RestStays ==
    ASSUME TypeInv, PanelInv, present, Lines, Resting, sda_out = 1, scl_out = 1
    PROVE  Resting'
<1>1. BusType
  BY DEF TypeInv, TypeOK, BusType
<1>2. sclin' = 1 /\ sdain' = 1 /\ panel'.drive = 1
  BY <1>1, PanelEvents DEF Resting, Scl, Sda
<1>3. SeesNothing
  BY <1>1, <1>2, PanelEvents DEF Resting, SeesStart, SeesStop, SeesRise, SeesFall
<1> QED
  BY <1>2, <1>3 DEF Resting, SeesNothing, Becomes, Ages

\* The last fall of SCL in a transfer finds the panel at its end.
LEMMA LastFall ==
    ASSUME TypeInv, InTime, SeenInv, EndInv, PanelInv, CountedInv, LockInv, present, Lines,
           i2cmode = RX \/ Exact, i2cstep = "stop"
    PROVE  panel'.mode = "off" /\ Late(NS2009_POLLP + 1)' /\ sclin' = 0
<1>1. BusType
  BY DEF TypeInv, TypeOK, BusType
<1>2. sclin' = 0
  BY <1>1, PanelEvents DEF SeenInv, Scl
<1>3. SeesFall
  BY <1>1, <1>2, PanelEvents DEF SeenInv, SeesStart, SeesStop, SeesNothing, SeesRise
<1>4. panel'.lag < NS2009_POLLP + 1
  BY <1>3, DelaysAreNaturals DEF SeesFall, InTime
<1>5. /\ panel.mode \in {"off", "address", "command", "send"} /\ panel.clocks \in 0..9
      /\ panel.half \in Bit /\ i2cmode \in {TX, RX}
  BY <1>1 DEF BusType, PanelStates, TypeInv, ByteInv
<1>6. panel.mode = "off" \/ (panel.mode \in {"command", "send"} /\ panel.clocks = 9
                              /\ (panel.mode = "send" => panel.half = 0))
  <2>1. i2ccnt = LastByte /\ Busy /\ InByte = i2ccnt /\ Clocked = 9
    BY DEF EndInv, Busy, Fresh, InByte, Clocked
  <2>2. CASE i2cmode = RX
    <3>1. Counted >= 27
      BY <2>1, <2>2 DEF CountedInv, LastByte
    <3> QED
      BY <1>5, <3>1 DEF Counted
  <2>3. CASE i2cmode = TX
    <3>1. i2ccnt = 1 /\ Exact /\ Lock
      BY <2>1, <2>3 DEF LastByte, LockInv
    <3> QED
      BY <2>1, <2>3, <3>1 DEF Lock, ModeIn
  <2> QED
    BY <1>5, <2>2, <2>3
<1>7. panel'.mode = "off"
  BY <1>3, <1>6 DEF SeesFall, Falls, Keeps, Pulls, Leaves, Sends, Becomes
<1> QED
  BY <1>2, <1>4, <1>7 DEF Late

\* A transfer leaves a free bus behind, however late the panel lets go.
LEMMA ReleasedStep ==
    ASSUME TypeInv, HandshakeIInv, InTime, SeenInv, EndInv, SdaInv, PanelInv, CountedInv,
           ReleasedInv, LockInv, ModeInv, NEW we \in BOOLEAN, Clock(we)
    PROVE  ReleasedInv'
<1> SUFFICES ASSUME present, i2cmode' = RX \/ Exact'
             PROVE  /\ i2cstep' = "stopWait" =>
                         /\ panel'.mode = "off"
                         /\ Late(NS2009_POLLP + 1)'
                         /\ IF sclin' = 0 THEN i2cwait' = NS2009_POLLP ELSE Late(i2cwait)'
                    /\ i2cstep' = "idle" => Resting'
  BY DEF ReleasedInv, Clock, Lines
<1>1. I2cStep /\ Lines /\ BusType /\ i2cwait \in Nat
  BY DEF Clock, TypeInv, TypeOK, BusType
<1>2. CASE i2cstep = "idle"
  <2>1. CASE I2cStart
    BY <2>1 DEF I2cStart, Goto
  <2>2. CASE I2cRest
    <3>1. i2cmode = RX \/ Exact
      BY <2>2, ExactStep DEF I2cRest, engineVars
    <3>2. Resting /\ sda_out = 1 /\ scl_out = 1
      BY <1>2, <3>1 DEF ReleasedInv, SeenInv, SdaInv
    <3> QED
      BY <1>1, <1>2, <2>2, <3>2, RestStays DEF I2cRest, engineVars
  <2> QED
    BY <1>1, <1>2, <2>1, <2>2, IdleStep
<1>3. ASSUME i2cstep # "idle"
      PROVE  /\ i2cmode = RX \/ Exact
             /\ i2cstep' = "stopWait" => i2cstep \in {"stop", "stopWait"}
             /\ i2cstep' = "idle" => i2cstep = "stopWait"
  BY <1>1, <1>3, TransferStep, ExactStep
<1>4. CASE i2cstep = "stop"
  <2>1. i2cstep' = "stopWait" /\ i2cwait' = NS2009_POLLP
    BY <1>1, <1>4 DEF I2cStep, I2cStart, I2cRest, I2cClock, I2cWaitLow, I2cWaitHigh,
       I2cAckDrive, I2cAckWait, I2cStretched, I2cBit, I2cDelay, I2cByteEnd, I2cStop,
       I2cStopWait, Goto
  <2> QED
    BY <1>1, <1>3, <1>4, <2>1, LastFall
<1>5. CASE i2cstep = "stopWait"
  <2>1. /\ panel.mode = "off" /\ panel.target = 1 /\ Late(NS2009_POLLP + 1)
        /\ IF sclin = 0 THEN i2cwait = NS2009_POLLP ELSE Late(i2cwait)
        /\ scl_out = 1 /\ sda_out = 1
        /\ sclin = 1 => panel.hold = 0
    BY <1>3, <1>5 DEF ReleasedInv, PanelInv, SeenInv, SdaInv
  <2>2. SeesStop \/ SeesNothing \/ SeesRise
    BY <1>1, <2>1, <1>5, OnlyStart, PanelEvents DEF SeesFall, Scl, Fresh
  <2>3. /\ panel'.mode = "off" /\ panel'.target = 1 /\ Ages
        /\ sclin = 1 => sclin' = 1
    BY <2>1, <2>2 DEF SeesStop, SeesNothing, SeesRise, Becomes
  <2>4. panel.lag \in Nat /\ panel'.drive = IF panel.lag = 0 THEN panel.target ELSE panel.drive
    <3>1. panel.lag \in 0..MaxLag
      BY <1>1 DEF BusType, PanelStates
    <3> QED
      BY <1>1, <3>1, PanelEvents
  <2>5. \A n \in Nat : Late(n) => /\ panel'.drive = panel'.target \/ panel'.lag < n - 1
                                  /\ Late(n)'
    BY <2>1, <2>3, <2>4 DEF Late, Ages
  <2>6. Late(NS2009_POLLP + 1)'
    BY <2>1, <2>5, DelaysAreNaturals
  <2>7. CASE sclin = 0
    <3>1. i2cstep' = "stopWait" /\ i2cwait' = i2cwait
      BY <1>1, <1>5, <2>7 DEF I2cStep, I2cStart, I2cRest, I2cClock, I2cWaitLow,
         I2cWaitHigh, I2cAckDrive, I2cAckWait, I2cStretched, I2cBit, I2cDelay, I2cByteEnd,
         I2cStop, I2cStopWait, Goto, engineVars
    <3>2. panel'.drive = panel'.target \/ panel'.lag < NS2009_POLLP
      BY <2>1, <2>5, DelaysAreNaturals
    <3> QED
      BY <2>1, <2>3, <2>6, <2>7, <3>1, <3>2 DEF Late
  <2>8. CASE sclin = 1
    <3>1. I2cStopWait /\ Late(i2cwait)
      BY <1>1, <1>5, <2>1, <2>8 DEF I2cStep, I2cStart, I2cRest, I2cClock, I2cWaitLow,
         I2cWaitHigh, I2cAckDrive, I2cAckWait, I2cStretched, I2cBit, I2cDelay, I2cByteEnd,
         I2cStop
    <3>2. panel'.drive = panel'.target \/ panel'.lag < i2cwait - 1
      BY <1>1, <2>5, <3>1
    <3>3. CASE i2cwait > 0
      <4>1. i2cwait' = i2cwait - 1 /\ i2cstep' = "stopWait"
        BY <1>5, <3>1, <3>3 DEF I2cStopWait, Delay
      <4> QED
        BY <2>3, <2>6, <2>8, <3>2, <4>1 DEF Late
    <3>4. CASE i2cwait = 0
      <4>1. i2cstep' = "idle"
        BY <3>1, <3>4 DEF I2cStopWait, Delay, Goto
      <4>2. panel.drive = 1
        BY <2>1, <2>4, <3>1, <3>4 DEF Late
      <4>3. sclin' = 1 /\ sdain' = 1
        BY <1>1, <2>1, <2>3, <2>8, <4>2, PanelEvents DEF Sda
      <4>4. panel'.drive = 1 /\ panel'.hold = 0
        BY <2>1, <2>3, <2>4, <2>8, <4>2 DEF Ages
      <4> QED
        BY <2>3, <4>1, <4>3, <4>4 DEF Resting
    <3> QED
      BY <1>1, <3>3, <3>4
  <2> QED
    BY <1>1, <2>7, <2>8 DEF BusType
<1>6. CASE i2cstep \notin {"idle", "stop", "stopWait"}
  BY <1>3, <1>6
<1> QED
  BY <1>2, <1>4, <1>5, <1>6

-----------------------------------------------------------------------------
\* Master and panel in step.

\* A clock that begins a transfer is the first after the idle bus.
LEMMA FreshStep ==
    ASSUME TypeInv, SeenInv, I2cStep, Fresh'
    PROVE  I2cStart /\ i2cstep = "idle"
<1>1. i2ccnt \in 0..2
  BY DEF TypeInv, TypeOK
<1> QED
  BY <1>1 DEF I2cStep, I2cStart, I2cRest, I2cClock, I2cWaitLow, I2cWaitHigh, I2cAckDrive,
     I2cAckWait, I2cStretched, I2cBit, I2cDelay, Delay, I2cByteEnd, I2cStop, I2cStopWait,
     engineVars, Fresh, SeenInv, Goto

\* What of the master bears on the panel during a transfer.
MasterOK == SeenInv /\ EndInv /\ SdaInv

\* In an exact transfer the panel sees its edges where the engine makes them.
LEMMA TransferEvents ==
    ASSUME TypeInv, MasterOK, PanelInv, LateInv, Lines, present, Exact, Busy,
           i2cstep # "stopWait"
    PROVE  \/ SeesNothing
           \/ SeesRise /\ i2cstep \in {"waitHigh", "ackWait"}
           \/ /\ SeesFall
              /\ i2cstep \in {"waitLow", "ackDrive", "stop"} \/ (i2cstep = "low" /\ i2cbit = 0)
           \/ /\ SeesStop /\ i2cmode = RX /\ i2ccnt = 2
              /\ i2cstep \in {"ackWait", "ackHold", "byteEnd"}
<1>1. /\ BusType /\ i2cstep \in Steps /\ i2cbit \in 0..7 /\ i2ccnt \in 0..2
      /\ i2cmode \in {TX, RX} /\ scl_out \in Bit /\ sda_out \in Bit
      /\ i2cmode = TX => i2ccnt \in 0..1
  BY DEF TypeInv, TypeOK, ByteInv, BusType, Busy
<1>2. sclin' = Scl /\ sdain' = Sda
  BY DEF Lines
<1>3. ~SeesStart
  BY OnlyStart DEF MasterOK, Busy
<1>4. CASE SeesNothing
  BY <1>4
<1>5. CASE SeesRise
  <2>1. scl_out = 1 /\ sclin = 0
    BY <1>2, <1>5 DEF SeesRise, Scl
  <2> QED
    BY <1>1, <1>5, <2>1 DEF MasterOK, SeenInv, Busy, Fresh, Steps
<1>6. CASE SeesFall
  <2>1. scl_out = 0 /\ sclin = 1
    BY <1>1, <1>2, <1>6 DEF SeesFall, Scl, PanelInv
  <2> QED
    BY <1>1, <1>6, <2>1 DEF MasterOK, SeenInv, Busy, Fresh, Steps
<1>7. CASE SeesStop
  <2>1. /\ scl_out = 1 /\ sclin = 1 /\ sda_out = 1 /\ panel.drive = 1 /\ sdain = 0
        /\ Sda = 1
    BY <1>2, <1>7 DEF SeesStop, Scl, Sda
  <2>2. ~(i2cstep \in {"waitHigh", "nextBit", "lastBit", "ackLow"} \/ (i2cstep = "low" /\ i2cbit > 0))
    BY <2>1 DEF LateInv
  <2>3. i2cstep \in {"ackWait", "ackHold", "byteEnd"}
    BY <1>1, <2>1, <2>2 DEF MasterOK, SeenInv, Busy, Fresh, Steps
  <2>4. i2cmode = RX /\ i2ccnt = 2
    BY <1>1, <2>1, <2>3 DEF LateInv, MasterOK, SdaInv, AckSteps
  <2> QED
    BY <1>7, <2>3, <2>4
<1> QED
  BY <1>1, <1>3, <1>4, <1>5, <1>6, <1>7, PanelEvents

\* The START that begins a transfer.
LEMMA BeginEvent ==
    ASSUME TypeInv, MasterOK, PanelInv, LockInv, Lines, present, Exact, Fresh
    PROVE  SeesStart /\ panel'.drive = panel'.target
<1>1. BusType
  BY DEF TypeInv, TypeOK, BusType
<1>2. /\ Resting /\ scl_out = 1 /\ sda_out = 0
  BY DEF LockInv, MasterOK, SeenInv, SdaInv, Fresh
<1>3. sclin' = 1 /\ sdain' = 0
  BY <1>1, <1>2, PanelEvents DEF Resting, Scl, Sda
<1>4. SeesStart
  BY <1>1, <1>2, <1>3, PanelEvents DEF Resting, SeesStop, SeesNothing, SeesRise, SeesFall
<1> QED
  BY <1>1, <1>2, <1>4, PanelEvents DEF Resting, SeesStart, Becomes

\* How a clock of the engine moves it through the bits and bytes of a transfer.
LEMMA PlaceStep ==
    ASSUME TypeInv, SeenInv, PanelInv, I2cStep, Lines, Busy,
           i2cstep \notin {"stop", "stopWait"}
    PROVE  IF i2cstep = "low" /\ i2cbit = 0
           THEN /\ InByte' = InByte + 1 /\ Clocked = 9 /\ Clocked' = 0
                /\ sclin = 1 /\ sclin' = 0 /\ i2ccnt' = i2ccnt
                /\ InByte = i2ccnt - 1 /\ i2ccnt > 0
           ELSE /\ InByte' = InByte
                /\ Clocked' = IF sclin = 0 /\ sclin' = 1 THEN Clocked + 1 ELSE Clocked
<1>1. /\ sclin' = IF scl_out = 1 /\ panel.hold = 0 THEN 1 ELSE 0
      /\ sclin = 1 => panel.hold = 0
  BY HeldLow DEF Lines, Scl
<1>2. /\ i2cstep \in Steps /\ i2ccnt \in 0..2 /\ i2cmode \in 0..2 /\ i2cbit \in 0..7
      /\ i2cwait \in Nat /\ sclin \in Bit /\ scl_out \in Bit
  BY DEF TypeInv, TypeOK, ByteInv
<1> USE DEF InByte, Clocked, Busy, Fresh, Goto
<1>4. CASE I2cStart \/ I2cRest \/ I2cStretched
  BY <1>1, <1>2, <1>4 DEF I2cStart, I2cRest, I2cStretched, engineVars, SeenInv
<1>5. CASE I2cClock
  BY <1>1, <1>2, <1>5 DEF I2cClock, SeenInv
<1>6. CASE I2cWaitLow \/ I2cWaitHigh
  BY <1>1, <1>2, <1>6 DEF I2cWaitLow, I2cWaitHigh, SeenInv
<1>7. CASE I2cAckDrive \/ I2cAckWait
  BY <1>1, <1>2, <1>7 DEF I2cAckDrive, I2cAckWait, SeenInv
<1>8. CASE I2cBit
  BY <1>1, <1>2, <1>8 DEF I2cBit, SeenInv
<1>9. CASE I2cDelay
  BY <1>1, <1>2, <1>9 DEF I2cDelay, Delay, SeenInv
<1>10. CASE I2cByteEnd
  BY <1>1, <1>2, <1>10 DEF I2cByteEnd, LastByte, SeenInv
<1>11. CASE I2cStop \/ I2cStopWait
  BY <1>11 DEF I2cStop, I2cStopWait
<1> QED
  BY <1>4, <1>5, <1>6, <1>7, <1>8, <1>9, <1>10, <1>11 DEF I2cStep

\* The panel tells its two addresses apart.
LEMMA AddressesDiffer == NS2009_WADDR # NS2009_RADDR
<1>1. NS2009_WADDR[0] = 0 /\ NS2009_RADDR[0] = 1
  BY DEF NS2009_WADDR, NS2009_RADDR, Ones
<1> QED
  BY <1>1

\* It tells the commands of the axes apart.
LEMMA CommandsDiffer ==
    ASSUME NEW a \in Axis, NEW b \in Axis, READ[a] = READ[b]
    PROVE  a = b
<1>1. /\ READ["X"][4] = 0 /\ READ["Y"][4] = 1 /\ READ["Z"][4] = 0
      /\ READ["X"][5] = 0 /\ READ["Y"][5] = 0 /\ READ["Z"][5] = 1
  BY DEF READ, Ones
<1> QED
  BY <1>1

\* The byte a panel in step has heard is the one that was sent.
LEMMA HeardByte ==
    ASSUME TypeInv, HeardInv, present, Exact, Busy, panel.mode = ModeIn(InByte),
           panel.mode \in {"address", "command"}, panel.clocks > 7
    PROVE  panel.byte = i2csend[InByte]
<1>1. panel.byte \in Byte /\ panel.clocks \in 0..9 /\ i2csend \in [0..1 -> Byte]
      /\ i2ccnt \in 0..2 /\ i2cbit \in 0..7
  BY DEF TypeInv, TypeOK, PanelStates
<1>2. InByte \in 0..1
  BY <1>1 DEF ModeIn, InByte, Busy, Fresh, TypeInv, ByteInv
<1>3. i2csend[InByte] \in Byte
  BY <1>1, <1>2
<1>4. \A k \in 0..7 : panel.byte[7 - k] = i2csend[InByte][7 - k]
  BY <1>1 DEF HeardInv
<1>5. ASSUME NEW b \in 0..7
      PROVE  panel.byte[b] = i2csend[InByte][b]
  <2>1. 7 - b \in 0..7 /\ 7 - (7 - b) = b
    OBVIOUS
  <2> QED
    BY <1>4, <2>1
<1> QED
  BY <1>1, <1>3, <1>5 DEF Byte

\* After the last acknowledge of a read the engine goes on to the STOP.
LEMMA ReadEnds ==
    ASSUME I2cStep, i2cmode = RX, i2ccnt = 2, i2cstep \in {"ackWait", "ackHold", "byteEnd"}
    PROVE  i2ccnt' = 2 /\ i2cstep' \in {"ackWait", "ackHold", "byteEnd", "stop"}
  BY DEF I2cStep, I2cStart, I2cRest, I2cClock, I2cWaitLow, I2cWaitHigh, I2cAckDrive,
     I2cAckWait, I2cStretched, I2cBit, I2cDelay, Delay, I2cByteEnd, LastByte, I2cStop,
     I2cStopWait, engineVars, Goto

\* An exact transfer keeps the panel where the engine is.
LEMMA LockStep ==
    ASSUME TypeInv, HandshakeIInv, MasterOK, PanelInv, ReleasedInv, LockInv, LateInv, ModeInv,
           HeardInv, AskedInv, NEW we \in BOOLEAN, Clock(we)
    PROVE  LockInv'
<1>1. I2cStep /\ Lines /\ BusType
  BY DEF Clock, TypeInv, TypeOK, BusType
<1>2. /\ i2ccnt \in 0..2 /\ i2cbit \in 0..7 /\ i2cstep \in Steps
      /\ panel.mode \in {"off", "address", "command", "send"} /\ panel.clocks \in 0..9
      /\ sclin \in Bit /\ sclin' \in Bit
  BY <1>1, LinesType DEF TypeInv, TypeOK, BusType, PanelStates, Lines
<1> SUFFICES ASSUME present, Exact'
             PROVE  /\ Busy' /\ i2cstep' # "stopWait" => Lock'
                    /\ Fresh' => Resting'
  BY <1>1 DEF LockInv, Lines
<1>3. CASE ~Exact
  <2>1. i2cstep' = "idle"
    BY <1>3, ExactStep DEF engineVars
  <2> QED
    BY <2>1 DEF Busy, Fresh
<1>4. CASE Exact /\ i2cstep = "idle"
  <2>1. Resting /\ sda_out = 1 /\ scl_out = 1
    BY <1>4 DEF ReleasedInv, MasterOK, SeenInv, SdaInv
  <2>2. Resting'
    BY <1>1, <2>1, RestStays
  <2>3. ~Busy'
    BY <1>1, <1>4, IdleStep DEF I2cStart, I2cRest, engineVars, Busy, Fresh, Goto
  <2> QED
    BY <2>2, <2>3
<1>5. CASE Exact /\ Fresh
  <2>1. panel'.mode = "address" /\ panel'.clocks = 0
    BY <1>1, <1>5, BeginEvent DEF SeesStart, Becomes
  <2>2. i2cstep' = "waitLow" /\ i2cbit' = 0 /\ i2ccnt' = 0
    BY <1>1, <1>5 DEF Fresh, I2cStep, I2cStart, I2cRest, I2cClock, I2cWaitLow, I2cWaitHigh,
       I2cAckDrive, I2cAckWait, I2cStretched, I2cBit, I2cDelay, I2cByteEnd, I2cStop,
       I2cStopWait, Goto
  <2> QED
    BY <2>1, <2>2 DEF Lock, ModeIn, InByte, Clocked, Fresh
<1>6. CASE Exact /\ Busy
  <2>1. ~Fresh'
    BY <1>1, <1>6, FreshStep DEF MasterOK, Busy
  <2> SUFFICES ASSUME i2cstep' # "stopWait", Busy'
               PROVE  Lock'
    BY <2>1
  <2>2. i2cmode' = i2cmode /\ i2cmode \in {TX, RX} /\ i2cstep \notin {"stop", "stopWait"}
    <3>1. i2cstep \notin {"stop", "stopWait"}
      BY <1>1, <1>6 DEF I2cStep, I2cStart, I2cRest, I2cClock, I2cWaitLow, I2cWaitHigh,
       I2cAckDrive, I2cAckWait, I2cStretched, I2cBit, I2cDelay, Delay, I2cByteEnd, I2cStop,
       I2cStopWait, Goto, engineVars, Busy
    <3> QED
      BY <1>1, <1>6, <3>1, TransferStep DEF Busy, TypeInv, ByteInv
  <2>3. IF i2cstep = "low" /\ i2cbit = 0
        THEN /\ InByte' = InByte + 1 /\ Clocked = 9 /\ Clocked' = 0
             /\ sclin = 1 /\ sclin' = 0 /\ i2ccnt' = i2ccnt
             /\ InByte = i2ccnt - 1 /\ i2ccnt > 0
        ELSE /\ InByte' = InByte
             /\ Clocked' = IF sclin = 0 /\ sclin' = 1 THEN Clocked + 1 ELSE Clocked
    BY <1>1, <1>6, <2>2, PlaceStep DEF MasterOK
  <2>4. Lock
    BY <1>6, <2>2 DEF LockInv
  <2> DEFINE In == /\ panel.mode = ModeIn(InByte) /\ panel.clocks = Clocked
                   /\ panel.mode = "send" => panel.half = 2 - InByte
             Out == /\ i2cmode = RX /\ i2ccnt = 2
                    /\ i2cstep \in {"ackWait", "ackHold", "byteEnd", "stop"}
                    /\ panel.mode = "off"
  <2>5. (In \/ Out) /\ (In' \/ Out' => Lock')
    BY <2>4 DEF Lock
  <2>6. CASE i2cstep = "low" /\ i2cbit = 0
    <3>1. SeesFall /\ In
      BY <1>1, <1>6, <2>2, <2>3, <2>5, <2>6, TransferEvents
         DEF SeesNothing, SeesRise, SeesStop
    <3>2. panel.clocks = 9 /\ panel.mode = ModeIn(InByte)
      BY <2>3, <2>6, <3>1
    <3>3. CASE InByte = 0
      <4>1. panel.mode = "address" /\ panel.byte = i2csend[0]
        BY <1>6, <3>2, <3>3, HeardByte DEF ModeIn
      <4>2. panel.byte = IF i2cmode = TX THEN NS2009_WADDR ELSE NS2009_RADDR
        BY <1>6, <4>1 DEF AskedInv, Busy
      <4>3. /\ panel'.clocks = 0
            /\ panel'.mode = IF i2cmode = TX THEN "command" ELSE "send"
            /\ panel'.mode = "send" => panel'.half = 1
        BY <2>2, <3>1, <3>2, <4>1, <4>2, AddressesDiffer
           DEF SeesFall, Falls, Sends, Becomes
      <4>4. In'
        BY <2>2, <2>3, <2>6, <3>3, <4>3 DEF ModeIn
      <4> QED
        BY <2>5, <4>4
    <3>4. CASE InByte = 1
      <4>1. sdain = 0 /\ i2ccnt = 2
        BY <2>3, <2>6, <3>4, <1>2 DEF MasterOK, SdaInv
      <4>2. i2cmode = RX
        BY <2>2, <4>1 DEF TypeInv, ByteInv
      <4>3. panel.mode = "send" /\ panel.half = 1
        BY <3>1, <3>2, <3>4, <4>2 DEF ModeIn
      <4>4. panel'.mode = "send" /\ panel'.clocks = 0 /\ panel'.half = 0
        BY <3>1, <3>2, <4>1, <4>3 DEF SeesFall, Falls, Sends, Becomes
      <4>5. In'
        BY <2>2, <2>3, <2>6, <3>4, <4>2, <4>4 DEF ModeIn
      <4> QED
        BY <2>5, <4>5
    <3> QED
      BY <1>2, <2>3, <2>6, <3>3, <3>4
  <2>7. CASE ~(i2cstep = "low" /\ i2cbit = 0) /\ In
    <3>1. CASE SeesNothing
      <4>1. In'
        BY <2>2, <2>3, <2>7, <3>1 DEF SeesNothing, Becomes, ModeIn
      <4> QED
        BY <2>5, <4>1
    <3>2. CASE SeesRise
      <4>1. panel.mode # "off" /\ panel.clocks <= 8
        BY <2>7, <3>2, <1>2 DEF SeesRise, PanelInv, ModeIn
      <4>2. In'
        BY <1>2, <2>2, <2>3, <2>7, <3>2, <4>1 DEF SeesRise, Becomes, ModeIn
      <4> QED
        BY <2>5, <4>2
    <3>3. CASE SeesFall
      <4>1. i2cstep \in {"waitLow", "ackDrive"} /\ sclin = 1 /\ sclin' = 0
        BY <1>1, <1>6, <2>2, <2>7, <3>3, TransferEvents
           DEF SeesFall, SeesNothing, SeesRise, SeesStop
      <4>2. panel.clocks = IF i2cstep = "waitLow" THEN i2cbit ELSE 8
        BY <2>7, <4>1 DEF Clocked
      <4>3. ASSUME panel.mode = "address", panel.clocks = 8
            PROVE  panel.byte \in {NS2009_WADDR, NS2009_RADDR}
        <5>1. InByte = 0 /\ panel.byte = i2csend[InByte]
          BY <1>6, <2>7, <4>3, HeardByte DEF ModeIn
        <5> QED
          BY <1>6, <5>1 DEF AskedInv, Busy
      <4>4. /\ panel'.mode = panel.mode /\ panel'.clocks = panel.clocks
            /\ panel'.half = panel.half
        BY <1>2, <3>3, <4>2, <4>3 DEF SeesFall, Falls, Keeps, Pulls, Leaves, Sends, Becomes
      <4>5. In'
        BY <2>2, <2>3, <2>7, <4>1, <4>4 DEF ModeIn
      <4> QED
        BY <2>5, <4>5
    <3>4. CASE SeesStop
      <4>1. /\ i2cmode = RX /\ i2ccnt = 2 /\ i2cstep \in {"ackWait", "ackHold", "byteEnd"}
        BY <1>1, <1>6, <2>2, <3>4, TransferEvents
           DEF SeesFall, SeesNothing, SeesRise, SeesStop
      <4>2. Out'
        BY <1>1, <2>2, <3>4, <4>1, ReadEnds DEF SeesStop, Becomes
      <4> QED
        BY <2>5, <4>2
    <3> QED
      BY <1>1, <1>6, <2>2, <3>1, <3>2, <3>3, <3>4, TransferEvents DEF MasterOK
  <2>8. CASE ~(i2cstep = "low" /\ i2cbit = 0) /\ Out
    <3>1. ~SeesStart
      BY <1>1, <1>6, <2>2, OnlyStart DEF MasterOK, Busy
    <3>2. panel'.mode = "off"
      BY <1>1, <2>8, <3>1, PanelEvents DEF SeesStop, SeesNothing, SeesRise, SeesFall, Falls,
         Keeps, Pulls, Leaves, Sends, Becomes
    <3>3. Out'
      BY <1>1, <2>2, <2>8, <3>2, ReadEnds
    <3> QED
      BY <2>5, <3>3
  <2> QED
    BY <2>5, <2>6, <2>7, <2>8
<1> QED
  BY <1>3, <1>4, <1>5, <1>6 DEF Busy, Fresh

\* A panel whose output is late is a clock less late a clock on.
LEMMA LessLate ==
    ASSUME BusType, PanelInv, present, Lines, Ages, panel'.target = panel.target,
           NEW n \in Int, Late(n)
    PROVE  panel'.drive = panel'.target \/ panel'.lag < n - 1
<1>1. panel'.drive = IF panel.lag = 0 THEN panel.target ELSE panel.drive
  BY PanelEvents
<1>2. panel.lag \in Nat
  <2>1. panel.lag \in 0..MaxLag
    BY DEF BusType, PanelStates
  <2> QED
    BY <2>1
<1> QED
  BY <1>1, <1>2 DEF Late, Ages

\* The steps in which nothing can move SDA but the lag of the panel.
HighSteps == i2cstep \in {"waitHigh", "nextBit", "lastBit", "ackLow"}
             \/ (i2cstep = "low" /\ i2cbit > 0)

\* An exact transfer gives the panel the time it needs.
LEMMA LateStep ==
    ASSUME TypeInv, InTime, HandshakeIInv, MasterOK, PanelInv, LockInv, LateInv, ModeInv,
           NEW we \in BOOLEAN, Clock(we)
    PROVE  LateInv'
<1>1. I2cStep /\ Lines /\ BusType /\ BusType'
  BY LinesStep DEF Clock, TypeInv, TypeOK, BusType
<1>2. /\ i2ccnt \in 0..2 /\ i2cbit \in 0..7 /\ i2cstep \in Steps /\ i2cwait \in Nat
      /\ sclin' = Scl /\ sdain' = Sda
  BY <1>1 DEF TypeInv, TypeOK, Lines
<1> SUFFICES ASSUME present, Exact'
             PROVE  LateInv'
  BY <1>1 DEF LateInv, Lines
<1>3. CASE ~Exact \/ i2cstep = "idle"
  <2>1. i2cstep' = "idle" \/ (i2cstep' = "low" /\ i2cbit' = 0)
    BY <1>1, <1>3, ExactStep, IdleStep DEF I2cStart, I2cRest, engineVars, Goto
  <2> QED
    BY <2>1 DEF LateInv
<1>4. CASE Exact /\ Fresh
  <2>1. panel'.drive = panel'.target
    BY <1>1, <1>4, BeginEvent
  <2>2. i2cstep' = "waitLow" /\ sclin' = 1
    BY <1>1, <1>4, BeginEvent DEF SeesStart, Fresh, I2cStep, I2cStart, I2cRest, I2cClock,
       I2cWaitLow, I2cWaitHigh, I2cAckDrive, I2cAckWait, I2cStretched, I2cBit, I2cDelay,
       I2cByteEnd, I2cStop, I2cStopWait, Goto
  <2> QED
    BY <2>1, <2>2 DEF LateInv, Late
<1>5. CASE Exact /\ Busy
  <2>1. Late(MaxLag + 1)'
    <3>1. panel'.lag \in 0..MaxLag
      BY <1>1 DEF BusType, PanelStates
    <3> QED
      BY <3>1, DelaysAreNaturals DEF Late
  <2>2. \A n \in Int : /\ panel.target = panel'.target /\ Ages /\ Late(n)
                       => panel'.drive = panel'.target \/ panel'.lag < n - 1
    BY <1>1, LessLate
  <2>3. CASE i2cstep = "low" /\ i2cbit = 0
    <3>1. i2cstep' = "waitLow" /\ sclin' = 0
      BY <1>1, <1>2, <1>5, <2>3 DEF MasterOK, SeenInv, Busy, Fresh, Scl, I2cStep, I2cStart,
         I2cRest, I2cClock, I2cWaitLow, I2cWaitHigh, I2cAckDrive, I2cAckWait, I2cStretched,
         I2cBit, I2cDelay, I2cByteEnd, I2cStop, I2cStopWait, Goto
    <3> QED
      BY <2>1, <3>1 DEF LateInv
  <2>4. CASE HighSteps
    <3>1. /\ panel.drive = panel.target
          /\ sclin = 1 => sdain = Sda
          /\ scl_out = 1
          /\ sclin = 0 => i2cstep = "waitHigh"
      BY <1>1, <1>2, <1>5, <2>4 DEF HighSteps, LateInv, MasterOK, SeenInv, BusType, Fresh
    <3>2. SeesNothing \/ SeesRise
      BY <1>1, <1>5, <2>4, TransferEvents DEF HighSteps
    <3>3. panel'.target = panel.target /\ Ages
      BY <3>2 DEF SeesNothing, SeesRise, Becomes
    <3>4. panel'.drive = panel'.target /\ panel'.drive = panel.drive
      BY <1>1, <3>1, <3>3, PanelEvents
    <3>5. /\ sda_out' = sda_out
          /\ i2cstep' \notin {"waitLow", "rxHold"} => HighSteps' \/ i2cstep' = "ackDrive"
          /\ i2cstep' = "waitLow" => i2cstep = "low"
          /\ i2cstep' # "rxHold"
      BY <1>1, <1>2, <1>5, <2>4 DEF HighSteps, MasterOK, SeenInv, I2cStep, I2cStart,
         I2cRest, I2cClock, I2cWaitLow, I2cWaitHigh, I2cAckDrive, I2cAckWait, I2cStretched,
         I2cBit, I2cDelay, Delay, I2cByteEnd, I2cStop, I2cStopWait, engineVars, Goto
    <3>6. sdain' = Sda'
      BY <1>2, <3>4, <3>5 DEF Sda
    <3>7. i2cstep' = "waitLow" => Late(0)' /\ sclin' = 1
      <4>1. sclin \in Bit
        BY <1>1 DEF BusType
      <4> QED
        BY <1>2, <2>4, <3>1, <3>4, <3>5, <4>1, HeldLow DEF HighSteps, Late, Scl
    <3> QED
      BY <3>4, <3>5, <3>6, <3>7 DEF LateInv, HighSteps
  <2>5. CASE i2cstep = "waitLow"
    <3>1. sclin' = 0
      BY <1>2, <2>5 DEF MasterOK, SeenInv, Scl
    <3>2. CASE sclin = 1
      <4>1. i2cstep' = "waitLow"
        BY <1>1, <2>5, <3>2 DEF I2cStep, I2cStart, I2cRest, I2cClock, I2cWaitLow, I2cWaitHigh,
           I2cAckDrive, I2cAckWait, I2cStretched, I2cBit, I2cDelay, I2cByteEnd, I2cStop,
           I2cStopWait, engineVars, Goto
      <4> QED
        BY <2>1, <3>1, <4>1 DEF LateInv
    <3>3. CASE sclin = 0
      <4>1. i2cstep' \in {"txBit", "rxBit"}
        BY <1>1, <2>5, <3>3 DEF I2cStep, I2cStart, I2cRest, I2cClock, I2cWaitLow, I2cWaitHigh,
           I2cAckDrive, I2cAckWait, I2cStretched, I2cBit, I2cDelay, I2cByteEnd, I2cStop,
           I2cStopWait, Goto
      <4>2. panel'.target = panel.target /\ Ages
        BY <1>1, <1>5, <2>5, <3>1, <3>3, TransferEvents
           DEF SeesNothing, SeesRise, SeesFall, SeesStop, Becomes
      <4>3. Late(MaxLag + 1)
        BY <1>5, <2>5, <3>3 DEF LateInv
      <4>4. panel'.drive = panel'.target \/ panel'.lag < MaxLag + 1 - 1
        BY <2>2, <4>2, <4>3, DelaysAreNaturals
      <4>5. Late(MaxLag)'
        BY <4>4, DelaysAreNaturals DEF Late
      <4> QED
        BY <4>1, <4>5 DEF LateInv
    <3> QED
      BY <1>1, <3>2, <3>3 DEF BusType
  <2>6. CASE i2cstep \in {"txBit", "rxBit", "txHold", "rxHold"}
    <3>1. sclin = 0 /\ sclin' = 0
      BY <1>2, <2>6 DEF MasterOK, SeenInv, Scl
    <3>2. panel'.target = panel.target /\ Ages
      BY <1>1, <1>5, <2>6, <3>1, TransferEvents
         DEF SeesNothing, SeesRise, SeesFall, SeesStop, Becomes
    <3>3. /\ panel'.drive = IF panel.lag = 0 THEN panel.target ELSE panel.drive
          /\ panel.lag \in Nat
      <4>1. panel.lag \in 0..MaxLag
        BY <1>1 DEF BusType, PanelStates
      <4> QED
        BY <1>1, <4>1, PanelEvents
    <3>4. i2cstep \in {"rxBit", "rxHold"} => sda_out = 1
      BY <1>2, <1>5 DEF MasterOK, SdaInv, BitSteps, TypeInv, ByteInv
    <3>5. CASE i2cstep \in {"txBit", "rxBit"}
      <4>1. /\ i2cstep' = IF i2cstep = "txBit" THEN "txHold" ELSE "rxHold"
            /\ i2cwait' = NS2009_DELAY
        BY <1>1, <3>5 DEF I2cStep, I2cStart, I2cRest, I2cClock, I2cWaitLow, I2cWaitHigh,
           I2cAckDrive, I2cAckWait, I2cStretched, I2cBit, I2cDelay, I2cByteEnd, I2cStop,
           I2cStopWait, Goto
      <4>2. Late(MaxLag)
        BY <1>5, <3>5 DEF LateInv
      <4>3. panel'.drive = panel'.target \/ panel'.lag < MaxLag - 1
        BY <2>2, <3>2, <4>2, DelaysAreNaturals
      <4>4. panel'.lag \in Nat
        BY <3>2, <3>3 DEF Ages
      <4>5. panel'.drive = panel'.target \/ panel'.lag < i2cwait' - 1
        BY <4>1, <4>3, <4>4, DelaysAreNaturals DEF InTime
      <4>6. ASSUME i2cstep' = "rxHold", i2cwait' = 0
            PROVE  sdain' = panel'.target
        <5>1. panel.drive = panel.target
          BY <3>3, <4>1, <4>2, <4>6, DelaysAreNaturals DEF InTime, Late
        <5>2. panel.target \in Bit /\ i2cstep = "rxBit"
          BY <1>1, <3>5, <4>1, <4>6 DEF BusType, PanelStates
        <5> QED
          BY <1>2, <3>2, <3>4, <5>1, <5>2 DEF Sda
      <4> QED
        BY <4>1, <4>5, <4>6 DEF LateInv, Late
    <3>6. CASE i2cstep \in {"txHold", "rxHold"} /\ i2cwait > 0
      <4>1. i2cstep' = i2cstep /\ i2cwait' = i2cwait - 1
        BY <1>1, <3>6 DEF I2cStep, I2cStart, I2cRest, I2cClock, I2cWaitLow, I2cWaitHigh,
           I2cAckDrive, I2cAckWait, I2cStretched, I2cBit, I2cDelay, Delay, I2cByteEnd,
           I2cStop, I2cStopWait, Goto
      <4>2. Late(i2cwait - 1)
        BY <1>5, <3>6 DEF LateInv
      <4>3. panel'.drive = panel'.target \/ panel'.lag < i2cwait' - 1
        BY <1>2, <2>2, <3>2, <4>1, <4>2
      <4>4. ASSUME i2cstep' = "rxHold", i2cwait' = 0
            PROVE  sdain' = panel'.target
        <5>1. panel.drive = panel.target
          BY <1>2, <3>3, <4>1, <4>2, <4>4 DEF Late
        <5>2. panel.target \in Bit
          BY <1>1 DEF BusType, PanelStates
        <5> QED
          BY <1>2, <3>2, <3>4, <4>1, <4>4, <5>1, <5>2 DEF Sda
      <4> QED
        BY <3>6, <4>1, <4>3, <4>4 DEF LateInv, Late
    <3>7. CASE i2cstep \in {"txHold", "rxHold"} /\ i2cwait = 0
      <4>1. i2cstep' = "waitHigh"
        BY <1>1, <3>7 DEF I2cStep, I2cStart, I2cRest, I2cClock, I2cWaitLow, I2cWaitHigh,
           I2cAckDrive, I2cAckWait, I2cStretched, I2cBit, I2cDelay, Delay, I2cByteEnd,
           I2cStop, I2cStopWait, Goto
      <4>2. Late(0 - 1)
        BY <1>5, <3>7 DEF LateInv
      <4>3. panel'.drive = panel'.target
        BY <3>2, <3>3, <4>2 DEF Late
      <4> QED
        BY <3>1, <4>1, <4>3 DEF LateInv
    <3> QED
      BY <1>2, <2>6, <3>5, <3>6, <3>7
  <2>7. CASE i2cstep \in {"ackDrive", "byteEnd", "stop", "stopWait"}
    <3>1. \/ i2cstep' \in {"ackDrive", "ackHigh", "stop", "stopWait", "idle"}
          \/ i2cstep' = "low" /\ i2cbit' = 0
      BY <1>1, <2>7 DEF I2cStep, I2cStart, I2cRest, I2cClock, I2cWaitLow, I2cWaitHigh,
         I2cAckDrive, I2cAckWait, I2cStretched, I2cBit, I2cDelay, Delay, I2cByteEnd,
         I2cStop, I2cStopWait, engineVars, Goto
    <3> QED
      BY <3>1 DEF LateInv
  <2>8. CASE i2cstep \in {"ackHigh", "ackWait", "ackHold"}
    <3>1. /\ i2cstep' \in {"ackWait", "ackHold", "byteEnd"}
          /\ i2cmode' = i2cmode /\ i2ccnt' = i2ccnt
      BY <1>1, <2>8 DEF I2cStep, I2cStart, I2cRest, I2cClock, I2cWaitLow, I2cWaitHigh,
         I2cAckDrive, I2cAckWait, I2cStretched, I2cBit, I2cDelay, Delay, I2cByteEnd,
         I2cStop, I2cStopWait, engineVars, Goto
    <3>2. ASSUME i2cmode = TX \/ i2ccnt = 0, sdain' = 0
          PROVE  panel'.drive = 0
      <4>1. sda_out = 1 /\ i2cmode \in {TX, RX}
        BY <1>5, <2>8, <3>2 DEF MasterOK, SdaInv, AckSteps, TypeInv, ByteInv, Busy
      <4>2. panel.drive = 0
        BY <1>1, <1>2, <3>2, <4>1 DEF Sda, BusType, PanelStates
      <4>3. /\ panel.mode = ModeIn(i2ccnt)
            /\ panel.clocks = IF i2cstep = "ackHigh" THEN 8
                              ELSE IF i2cstep = "ackWait" THEN 8 + sclin ELSE 9
        BY <1>5, <2>8, <3>2 DEF LockInv, Lock, InByte, Clocked
      <4>4. i2cstep \in {"ackHigh"} => sclin = 0
        BY DEF MasterOK, SeenInv
      <4>5. i2cstep = "ackHold" => sclin = 1
        BY DEF MasterOK, SeenInv
      <4>6. panel.mode \in {"address", "command"}
        BY <3>2, <4>1, <4>3 DEF ModeIn
      <4>7. panel.target = 0
        BY <1>1, <2>8, <4>3, <4>4, <4>5, <4>6 DEF PanelInv, TargetAfter, BusType
      <4> QED
        BY <1>1, <4>2, <4>7, PanelEvents
    <3> QED
      BY <3>1, <3>2 DEF LateInv
  <2> QED
    BY <1>2, <1>5, <2>3, <2>4, <2>5, <2>6, <2>7, <2>8 DEF Busy, HighSteps, Steps
<1> QED
  BY <1>3, <1>4, <1>5 DEF Busy, Fresh

-----------------------------------------------------------------------------
\* What is sent and heard, converted and taken.

\* What was asked for is what is sent.
LEMMA AskedStep ==
    ASSUME TypeInv, HandshakeIInv, ModeInv, AskedInv, NEW we \in BOOLEAN, Clock(we)
    PROVE  AskedInv'
<1>1. I2cStep /\ SeqStep(we)
  BY DEF Clock
<1>2. smstate \in 0..13 /\ i2cstep \in Steps /\ wtrg \in BOOLEAN /\ rtrg \in BOOLEAN
  BY DEF TypeInv, TypeOK
<1> SUFFICES ASSUME Exact'
             PROVE  AskedInv'
  BY DEF AskedInv
<1>3. CASE ~Exact
  <2>1. i2cstep' = "idle" /\ smstate' = 1
    BY <1>3, ExactStep DEF engineVars
  <2> QED
    BY <2>1 DEF AskedInv
<1>4. CASE Exact /\ i2cstep = "idle"
  <2>1. /\ smstate \in WriteRaised => iaddr = NS2009_WADDR /\ wdata = READ[Phase]
        /\ smstate \in ReadRaised => iaddr = NS2009_RADDR
        /\ wtrg <=> smstate \in WriteRaised
        /\ rtrg <=> smstate \in ReadRaised
    BY <1>4 DEF AskedInv, HandshakeIInv, HandshakeInv, Recovered, Exact
  <2>2. /\ smstate' \in WriteRaised => iaddr' = NS2009_WADDR /\ wdata' = READ[Phase]'
        /\ smstate' \in ReadRaised => iaddr' = NS2009_RADDR
        /\ smstate \in WriteRaised \cup ReadRaised => smstate' = smstate
    BY <1>1, <1>2, <1>4, <2>1 DEF Phase, AxisOf, SeqStep, SeqAccept, SeqRest, SeqCommand,
       SeqWriteStarted, SeqRead, SeqReadStarted, SeqFinish, SeqWait, seqVars
  <2>3. CASE I2cRest
    BY <1>4, <2>2, <2>3 DEF AskedInv, I2cRest, engineVars
  <2>4. CASE I2cStart
    <3>1. /\ i2csend'[0] = iaddr
          /\ wtrg => i2csend'[1] = wdata /\ i2cmode' = TX
          /\ ~wtrg => rtrg /\ i2cmode' = RX
      BY <2>4 DEF I2cStart
    <3>2. Phase' = Phase
      BY <2>1, <2>2, <3>1 DEF Phase
    <3>3. CASE wtrg
      BY <2>1, <2>2, <3>1, <3>2, <3>3 DEF AskedInv
    <3>4. CASE ~wtrg
      BY <2>1, <2>2, <3>1, <3>4 DEF AskedInv
    <3> QED
      BY <3>3, <3>4
  <2> QED
    BY <1>1, <1>4, <2>3, <2>4, IdleStep
<1>5. CASE Exact /\ i2cstep # "idle"
  <2>1. i2cmode' = i2cmode /\ i2csend' = i2csend
    BY <1>1, <1>5, TransferStep
  <2>2. /\ Phase' = Phase /\ iaddr' = iaddr /\ wdata' = wdata
        /\ smstate' \in WriteRaised => smstate \in WriteRaised
        /\ smstate' \in ReadRaised => smstate \in ReadRaised
    BY <1>1, <1>2, <1>5 DEF Phase, SeqStep, SeqAccept, SeqRest, SeqCommand,
       SeqWriteStarted, SeqRead, SeqReadStarted, SeqFinish, SeqWait, seqVars
  <2> QED
    BY <1>5, <2>1, <2>2 DEF AskedInv
<1> QED
  BY <1>3, <1>4, <1>5

\* What is sent is what the panel hears.
LEMMA HeardStep ==
    ASSUME TypeInv, InTime, HandshakeIInv, MasterOK, PanelInv, CountedInv, ReleasedInv,
           LockInv, LateInv, ModeInv, HeardInv, NEW we \in BOOLEAN, Clock(we)
    PROVE  HeardInv'
<1>1. I2cStep /\ Lines /\ BusType /\ BusType'
  BY LinesStep DEF Clock, TypeInv, TypeOK, BusType
<1>2. /\ sclin' = Scl /\ sdain' = Sda /\ panel.clocks \in 0..9 /\ panel.byte \in Byte
  BY <1>1 DEF Lines, BusType, PanelStates
<1> SUFFICES ASSUME present, Exact', Busy', panel'.mode \in {"address", "command"},
                    NEW k \in 0..7, k < panel'.clocks
             PROVE  panel'.byte[7 - k] = i2csend'[InByte'][7 - k]
  BY <1>1 DEF HeardInv, Lines
<1>3. Exact
  BY ExactStep DEF engineVars, Busy
<1>4. CASE i2cstep = "idle"
  BY <1>1, <1>4, IdleStep DEF I2cStart, I2cRest, engineVars, Busy, Fresh, Goto
<1>5. CASE Fresh
  BY <1>1, <1>3, <1>5, BeginEvent DEF SeesStart, Becomes
<1>6. CASE i2cstep = "stop"
  BY <1>1, <1>3, <1>6, LastFall DEF MasterOK
<1>7. CASE i2cstep = "stopWait"
  <2>1. panel.mode = "off" /\ ~SeesStart
    BY <1>1, <1>3, <1>7, OnlyStart DEF ReleasedInv, MasterOK, Fresh
  <2> QED
    BY <1>1, <2>1, PanelEvents DEF SeesStop, SeesNothing, SeesRise, SeesFall, Falls, Keeps,
       Pulls, Leaves, Sends, Becomes
<1>8. CASE Busy /\ i2cstep \notin {"stop", "stopWait"}
  <2>1. i2csend' = i2csend
    BY <1>1, <1>8, TransferStep DEF Busy
  <2>2. IF i2cstep = "low" /\ i2cbit = 0
        THEN sclin = 1 /\ sclin' = 0 /\ Clocked = 9
        ELSE InByte' = InByte
    BY <1>1, <1>8, PlaceStep DEF MasterOK
  <2>3. ASSUME panel'.mode = panel.mode, InByte' = InByte, k < panel.clocks,
               panel'.byte[7 - k] = panel.byte[7 - k]
        PROVE  panel'.byte[7 - k] = i2csend'[InByte'][7 - k]
    BY <1>3, <1>8, <2>1, <2>3 DEF HeardInv
  <2>4. CASE SeesNothing
    <3>1. InByte' = InByte
      BY <2>2, <2>4 DEF SeesNothing
    <3> QED
      BY <2>3, <2>4, <3>1 DEF SeesNothing, Becomes
  <2>5. CASE SeesFall
    <3>1. /\ panel'.mode = panel.mode /\ panel'.clocks = panel.clocks
          /\ panel'.byte = panel.byte /\ panel.clocks \in 1..8
      BY <1>2, <2>5 DEF SeesFall, Falls, Keeps, Pulls, Leaves, Sends, Becomes
    <3>2. Lock
      BY <1>3, <1>8 DEF LockInv
    <3>3. InByte' = InByte
      BY <2>2, <3>1, <3>2 DEF Lock
    <3> QED
      BY <2>3, <3>1, <3>3
  <2>6. CASE SeesRise /\ i2cstep \in {"waitHigh", "ackWait"}
    <3>1. /\ panel'.mode = panel.mode /\ panel.clocks <= 8 /\ panel'.clocks = panel.clocks + 1
          /\ panel'.byte = IF panel.clocks > 7 THEN panel.byte
                           ELSE [panel.byte EXCEPT ![7 - panel.clocks] = Sda]
      BY <1>2, <2>6 DEF SeesRise, Becomes, PanelInv
    <3>2. InByte' = InByte /\ InByte = i2ccnt
      BY <2>2, <2>6 DEF InByte
    <3>3. panel.mode = ModeIn(InByte) /\ panel.clocks = Clocked
      BY <1>3, <1>8, <2>6, <3>1 DEF LockInv, Lock
    <3>4. CASE k < panel.clocks
      <4>1. panel'.byte[7 - k] = panel.byte[7 - k]
        BY <1>2, <3>1, <3>4 DEF Byte
      <4> QED
        BY <2>3, <3>1, <3>2, <3>4, <4>1
    <3>5. CASE k = panel.clocks
      <4>1. i2cstep = "waitHigh" /\ k = i2cbit /\ sclin = 0
        BY <1>2, <2>6, <3>3, <3>5 DEF Clocked, SeesRise, TypeInv, TypeOK
      <4>2. i2cmode = TX \/ i2ccnt = 0
        BY <3>1, <3>2, <3>3 DEF ModeIn
      <4>3. sda_out = i2csend[i2ccnt][7 - k]
        BY <4>1, <4>2 DEF MasterOK, SdaInv
      <4>4. panel.drive = 1
        <5>1. panel.drive = panel.target
          BY <1>3, <4>1 DEF LateInv
        <5>2. panel.target = TargetAfter(k)
          BY <3>1, <3>5, <4>1 DEF PanelInv
        <5> QED
          BY <3>1, <5>1, <5>2 DEF TargetAfter
      <4>5. Sda = sda_out
        BY <4>4 DEF Sda, TypeInv, TypeOK
      <4>6. panel'.byte[7 - k] = Sda
        BY <1>2, <3>1, <3>5 DEF Byte
      <4> QED
        BY <2>1, <3>2, <4>3, <4>5, <4>6
    <3> QED
      BY <1>2, <3>1, <3>4, <3>5
  <2>7. CASE SeesStop
    BY <2>7 DEF SeesStop, Becomes
  <2> QED
    BY <1>1, <1>3, <1>8, <2>4, <2>5, <2>6, <2>7, TransferEvents
<1> QED
  BY <1>4, <1>5, <1>6, <1>7, <1>8 DEF Busy

\* A panel that hears a command converts a word of its axis.
LEMMA ConvertedAxis ==
    ASSUME NEW a \in Axis, panel.byte = READ[a]
    PROVE  Converted = Samples[a]
<1>1. (CHOOSE b \in Axis : panel.byte = READ[b]) = a
  BY CommandsDiffer
<1> QED
  BY <1>1 DEF Converted

\* The end of a command has the panel convert a word of the axis asked for.
LEMMA CommandEnds ==
    ASSUME TypeInv, HandshakeIInv, MasterOK, PanelInv, LockInv, LateInv, HeardInv, AskedInv,
           I2cStep, Lines, present, Exact,
           i2cstep = "ackDrive", i2cmode = TX, i2ccnt = 1, sclin = 1
    PROVE  panel'.value \in Samples[Phase]
<1>1. BusType /\ Busy /\ InByte = 1 /\ Clocked = 8
  BY DEF TypeInv, TypeOK, BusType, Busy, Fresh, InByte, Clocked
<1>2. panel.mode = "command" /\ panel.clocks = 8 /\ panel.mode = ModeIn(InByte)
  BY <1>1 DEF LockInv, Lock, ModeIn
<1>3. sclin' = 0
  BY DEF Lines, Scl, MasterOK, SeenInv
<1>4. panel'.value \in Converted
  <2>1. SeesFall
    BY <1>1, <1>3, PanelEvents DEF SeesStart, SeesStop, SeesNothing, SeesRise
  <2> QED
    BY <1>2, <2>1 DEF SeesFall, Falls, Becomes
<1>5. panel.byte = READ[Phase]
  BY <1>1, <1>2, HeardByte DEF AskedInv
<1>6. Phase \in Axis
  <2>1. smstate \notin {0, 1}
    BY DEF HandshakeIInv, HandshakeInv, Recovered, Exact
  <2> QED
    BY <2>1 DEF Phase, TypeInv, TypeOK
<1> QED
  BY <1>4, <1>5, <1>6, ConvertedAxis

\* Nothing else changes the word the panel holds.
LEMMA WordStep ==
    ASSUME TypeInv, MasterOK, PanelInv, LockInv, LateInv, I2cStep, Lines, present, Exact,
           panel'.value # panel.value
    PROVE  i2cstep = "ackDrive" /\ i2cmode = TX /\ i2ccnt = 1 /\ sclin = 1
<1>1. BusType
  BY DEF TypeInv, TypeOK, BusType
<1>2. /\ SeesFall /\ sclin = 1 /\ sclin' = 0
      /\ panel.mode = "command" /\ panel.clocks = 8
  BY <1>1, PanelEvents DEF SeesStart, SeesStop, SeesNothing, SeesRise, SeesFall, Falls,
     Keeps, Pulls, Leaves, Sends, Becomes
<1>3. scl_out = 0
  BY <1>2, HeldLow DEF Lines, Scl, TypeInv, TypeOK
<1>4. Busy /\ i2cstep # "stopWait"
  BY <1>3 DEF MasterOK, SeenInv, Busy, Fresh
<1>5. panel.mode = ModeIn(InByte) /\ panel.clocks = Clocked
  BY <1>2, <1>4 DEF LockInv, Lock
<1>6. i2cstep \in {"waitLow", "ackDrive", "stop"} \/ (i2cstep = "low" /\ i2cbit = 0)
  BY <1>1, <1>2, <1>4, TransferEvents DEF SeesStop, SeesNothing, SeesRise
<1>7. i2cbit \in 0..7 /\ i2ccnt \in 0..2 /\ (i2cmode = TX => i2ccnt \in 0..1)
  BY DEF TypeInv, TypeOK, ByteInv
<1>8. i2cstep = "ackDrive"
  BY <1>2, <1>5, <1>6, <1>7 DEF Clocked
<1> QED
  BY <1>2, <1>5, <1>7, <1>8 DEF ModeIn, InByte

\* Converted for an axis, the word stays until that axis has been read.
LEMMA ValueStep ==
    ASSUME TypeInv, InTime, HandshakeIInv, MasterOK, PanelInv, CountedInv, ReleasedInv, LockInv,
           LateInv, ModeInv, HeardInv, AskedInv, ValueInv, NEW we \in BOOLEAN, Clock(we)
    PROVE  ValueInv'
<1>1. I2cStep /\ SeqStep(we) /\ Lines
  BY DEF Clock
<1>2. smstate \in 0..13 /\ i2cstep \in Steps /\ sclin \in Bit
  BY DEF TypeInv, TypeOK
<1> SUFFICES ASSUME present, Exact', Converting'
             PROVE  panel'.value \in Samples[Phase]'
  BY <1>1 DEF ValueInv, Lines
<1>3. CASE ~Exact
  <2>1. i2cstep' = "idle" /\ smstate' = 1
    BY <1>3, ExactStep DEF engineVars
  <2> QED
    BY <2>1 DEF Converting, AckSteps
<1>4. CASE Exact /\ i2cstep = "idle"
  <2>1. panel'.value = panel.value
    BY <1>1, <1>4, WordStep
  <2>2. /\ i2cstep' = "idle" \/ i2cstep' = "low"
    BY <1>1, <1>4, IdleStep DEF I2cStart, I2cRest, engineVars, Goto
  <2>3. Converting /\ Phase' = Phase
    BY <1>1, <1>2, <1>4, <2>2 DEF Converting, Phase, AckSteps, SeqStep, SeqAccept, SeqRest,
       SeqCommand, SeqWriteStarted, SeqRead, SeqReadStarted, SeqFinish, SeqWait, seqVars
  <2> QED
    BY <1>4, <2>1, <2>3 DEF ValueInv
<1>5. CASE Exact /\ i2cstep # "idle"
  <2>1. Phase' = Phase
    BY <1>1, <1>2, <1>5 DEF Phase, SeqStep, SeqAccept, SeqRest, SeqCommand,
       SeqWriteStarted, SeqRead, SeqReadStarted, SeqFinish, SeqWait, seqVars
  <2>2. CASE i2cstep = "ackDrive" /\ i2cmode = TX /\ i2ccnt = 1 /\ sclin = 1
    BY <1>1, <1>5, <2>1, <2>2, CommandEnds
  <2>3. CASE ~(i2cstep = "ackDrive" /\ i2cmode = TX /\ i2ccnt = 1 /\ sclin = 1)
    <3>1. panel'.value = panel.value
      BY <1>1, <1>5, <2>3, WordStep
    <3>2. CASE smstate' \in ReadRaised \cup Reading
      <4>1. smstate \in ReadRaised \cup Reading
        BY <1>1, <1>2, <1>5, <3>2 DEF SeqStep, SeqAccept, SeqRest, SeqCommand,
           SeqWriteStarted, SeqRead, SeqReadStarted, SeqFinish, SeqWait, seqVars
      <4> QED
        BY <1>5, <2>1, <3>1, <4>1 DEF ValueInv, Converting
    <3>3. CASE smstate' \in Writing /\ i2cstep' = "idle"
      <4>1. i2cstep = "stopWait"
        BY <1>1, <1>5, <3>3, TransferStep
      <4>2. smstate \in WriteRaised \cup Writing
        BY <1>1, <1>2, <1>5, <3>3 DEF SeqStep, SeqAccept, SeqRest, SeqCommand,
           SeqWriteStarted, SeqRead, SeqReadStarted, SeqFinish, SeqWait, seqVars
      <4>3. i2cmode = TX /\ i2ccnt = 1
        BY <1>5, <4>1, <4>2 DEF HandshakeIInv, HandshakeInv, Recovered, Exact, MasterOK,
           EndInv, LastByte
      <4> QED
        BY <1>5, <2>1, <3>1, <4>1, <4>3 DEF ValueInv, Converting
    <3>4. CASE /\ i2cmode' = TX /\ i2ccnt' = 1
               /\ \/ i2cstep' \in AckSteps \cup {"stop", "stopWait"}
                  \/ i2cstep' = "ackDrive" /\ sclin' = 0
      <4>1. i2cmode = TX
        BY <1>1, <1>5, <3>4, TransferStep
      <4>2. i2cstep = "ackLow" => sclin' = 1
        BY <1>1, HeldLow DEF Lines, Scl, MasterOK, SeenInv
      <4>3. /\ i2ccnt = 1
            /\ \/ i2cstep \in AckSteps \cup {"stop", "stopWait"}
               \/ i2cstep = "ackDrive" /\ sclin = 0
        BY <1>1, <1>2, <1>5, <2>3, <3>4, <4>1, <4>2 DEF AckSteps, I2cStep, I2cStart, I2cRest,
           I2cClock, I2cWaitLow, I2cWaitHigh, I2cAckDrive, I2cAckWait, I2cStretched, I2cBit,
           I2cDelay, Delay, I2cByteEnd, LastByte, I2cStop, I2cStopWait, engineVars, Goto
      <4> QED
        BY <1>5, <2>1, <3>1, <4>1, <4>3 DEF ValueInv, Converting
    <3> QED
      BY <3>2, <3>3, <3>4 DEF Converting
  <2> QED
    BY <2>2, <2>3
<1> QED
  BY <1>3, <1>4, <1>5

\* The bits of a read are taken in their places.
LEMMA TakenStep ==
    ASSUME TypeInv, InTime, HandshakeIInv, MasterOK, PanelInv, CountedInv, ReleasedInv, LockInv,
           LateInv, ModeInv, TakenInv, NEW we \in BOOLEAN, Clock(we)
    PROVE  TakenInv'
<1>1. I2cStep /\ SeqStep(we) /\ Lines /\ present' = present
  BY DEF Clock, Lines
<1>2. /\ smstate \in 0..13 /\ i2cstep \in Steps /\ sclin \in Bit
      /\ i2ccnt \in 0..2 /\ i2cbit \in 0..7 /\ i2cwait \in Nat
      /\ i2crecv \in [0..1 -> Byte]
      /\ i2cstep \in {"rxBit", "rxHold"} => i2cmode = RX /\ i2ccnt \in 1..2
  BY DEF TypeInv, TypeOK, ByteInv
<1>3. ~present' /\ i2cstep' = "rxHold" => sdain' = 1
  <2> SUFFICES ASSUME ~present, i2cstep' = "rxHold"
               PROVE  sdain' = 1
    BY <1>1
  <2>1. i2cstep \in {"rxBit", "rxHold"}
    BY <1>1 DEF I2cStep, I2cStart, I2cRest, I2cClock, I2cWaitLow, I2cWaitHigh,
       I2cAckDrive, I2cAckWait, I2cStretched, I2cBit, I2cDelay, Delay, I2cByteEnd,
       I2cStop, I2cStopWait, engineVars, Goto
  <2>2. sda_out = 1 /\ panel.drive = 1
    BY <1>2, <2>1 DEF MasterOK, SdaInv, BitSteps, PanelInv, PanelInit
  <2> QED
    BY <1>1, <2>2 DEF Lines, Sda
<1> SUFFICES ASSUME Exact', i2cmode' = RX, i2cstep' # "idle" \/ smstate' \in Reading,
                    NEW h \in 0..1, NEW k \in 0..7, k < TakenOf(h)'
             PROVE  i2crecv'[h][7 - k] = Due(h, 7 - k)'
  BY <1>3 DEF TakenInv
<1>4. Exact
  BY ExactStep DEF engineVars
<1>5. CASE i2cstep = "idle"
  <2>1. i2cstep' # "idle"
    BY <1>1, <1>2, <1>5 DEF SeqStep, SeqAccept, SeqRest, SeqCommand, SeqWriteStarted,
       SeqRead, SeqReadStarted, SeqFinish, SeqWait, seqVars
  <2>2. I2cStart
    BY <1>1, <1>5, <2>1, IdleStep DEF I2cRest, engineVars
  <2>3. i2ccnt' = 0
    BY <2>2 DEF I2cStart
  <2> QED
    BY <2>3 DEF TakenOf
<1>6. CASE i2cstep # "idle"
  <2>1. i2cmode = RX /\ (i2cstep' = "idle" => i2cstep = "stopWait" /\ i2ccnt' = i2ccnt)
    BY <1>1, <1>6, TransferStep
  <2>2. \A b \in 0..7 : Due(h, b)' = Due(h, b)
    <3>1. CASE ~present
      BY <1>1, <3>1 DEF Due
    <3>2. CASE present
      <4>1. panel'.value = panel.value
        BY <1>1, <1>4, <2>1, <3>2, WordStep
      <4> QED
        BY <1>1, <3>2, <4>1 DEF Due, SendBit
    <3> QED
      BY <3>1, <3>2
  <2>3. ASSUME k < TakenOf(h)
        PROVE  i2crecv[h][7 - k] = Due(h, 7 - k)
    BY <1>4, <1>6, <2>1, <2>3 DEF TakenInv
  <2>4. CASE i2cstep = "rxHold" /\ i2cwait = 0
    <3>1. /\ i2crecv' = [i2crecv EXCEPT ![2 - i2ccnt][7 - i2cbit] = sdain]
          /\ i2cstep' = "waitHigh" /\ i2cbit' = i2cbit /\ i2ccnt' = i2ccnt
      BY <1>1, <2>4 DEF I2cStep, I2cStart, I2cRest, I2cClock, I2cWaitLow, I2cWaitHigh,
         I2cAckDrive, I2cAckWait, I2cStretched, I2cBit, I2cDelay, Delay, I2cByteEnd,
         I2cStop, I2cStopWait, Goto
    <3>2. CASE h = 2 - i2ccnt /\ k = i2cbit
      <4>1. sdain = Due(h, 7 - k)
        <5>1. CASE ~present
          BY <2>4, <5>1 DEF Due, TakenInv
        <5>2. CASE present
          <6>1. Busy /\ InByte = i2ccnt /\ Clocked = k /\ sclin = 0
            BY <2>4, <3>2 DEF Busy, Fresh, InByte, Clocked, MasterOK, SeenInv
          <6>2. panel.mode = "send" /\ panel.half = h /\ panel.clocks = k
            BY <1>2, <1>4, <2>1, <2>4, <3>2, <5>2, <6>1 DEF LockInv, Lock, ModeIn
          <6>3. panel.target = SendBit(h, 7 - k)
            BY <5>2, <6>1, <6>2 DEF PanelInv, TargetAfter
          <6> QED
            BY <1>4, <2>4, <5>2, <6>3 DEF Due, LateInv
        <5> QED
          BY <5>1, <5>2
      <4> QED
        BY <1>2, <2>2, <3>1, <3>2, <4>1 DEF Byte
    <3>3. CASE ~(h = 2 - i2ccnt /\ k = i2cbit)
      <4>1. k < TakenOf(h)
        BY <1>2, <2>4, <3>1, <3>3 DEF TakenOf
      <4>2. i2crecv'[h][7 - k] = i2crecv[h][7 - k]
        BY <1>2, <2>4, <3>1, <3>3 DEF Byte
      <4> QED
        BY <2>2, <2>3, <4>1, <4>2
    <3> QED
      BY <3>2, <3>3
  <2>5. CASE ~(i2cstep = "rxHold" /\ i2cwait = 0)
    <3>1. i2crecv' = i2crecv
      BY <1>1, <1>2, <1>6, <2>1, <2>5 DEF I2cStep, I2cStart, I2cRest, I2cClock, I2cWaitLow,
         I2cWaitHigh, I2cAckDrive, I2cAckWait, I2cStretched, I2cBit, I2cDelay, Delay,
         I2cByteEnd, I2cStop, I2cStopWait, engineVars, Goto
    <3>2. k < TakenOf(h)
      <4>1. i2cmode = RX /\ (i2cstep \in {"txBit", "txHold"} => i2ccnt = 0)
        BY <2>1 DEF MasterOK, SdaInv, TypeInv, ByteInv
      <4>2. CASE I2cStart \/ I2cRest \/ I2cStretched \/ I2cClock
        BY <1>2, <1>6, <4>1, <4>2
           DEF TakenOf, I2cStart, I2cRest, I2cStretched, I2cClock, engineVars, Goto
      <4>3. CASE I2cWaitLow \/ I2cWaitHigh
        BY <1>2, <4>1, <4>3 DEF TakenOf, I2cWaitLow, I2cWaitHigh, Goto
      <4>4. CASE I2cAckDrive \/ I2cAckWait \/ I2cBit
        BY <1>2, <4>1, <4>4 DEF TakenOf, I2cAckDrive, I2cAckWait, I2cBit, Goto
      <4>5. CASE I2cDelay
        BY <1>2, <2>5, <4>1, <4>5 DEF TakenOf, I2cDelay, Delay, Goto
      <4>6. CASE I2cByteEnd \/ I2cStop \/ I2cStopWait
        BY <1>2, <4>1, <4>6 DEF TakenOf, I2cByteEnd, LastByte, I2cStop, I2cStopWait, Delay, Goto
      <4> QED
        BY <1>1, <4>2, <4>3, <4>4, <4>5, <4>6 DEF I2cStep
    <3> QED
      BY <2>2, <2>3, <3>1, <3>2
  <2> QED
    BY <2>4, <2>5
<1> QED
  BY <1>5, <1>6

-----------------------------------------------------------------------------
\* Everything that ties the sequencer, the engine, the lines and the panel together.
LinkInv ==
    /\ MasterOK /\ PanelInv /\ CountedInv /\ ReleasedInv /\ LockInv /\ LateInv
    /\ ModeInv /\ AskedInv /\ HeardInv /\ ValueInv /\ TakenInv

\* At first the bus is at rest.
LEMMA InitLink == Init => LinkInv
<1> SUFFICES ASSUME Init
             PROVE  LinkInv
  OBVIOUS
<1>1. /\ i2cstep = "idle" /\ scl_out = 1 /\ sda_out = 1 /\ sclin = 1 /\ sdain = 1
      /\ panel = PanelInit /\ present \in BOOLEAN /\ dirty = 0 /\ smstate = 0 /\ i2cmode = 0
  BY DEF Init
<1>2. MasterOK
  BY <1>1 DEF MasterOK, SeenInv, EndInv, SdaInv, BitSteps, AckSteps, Fresh
<1>3. PanelInv
  BY <1>1 DEF PanelInv, PanelInit
<1>4. ~Busy /\ ~Fresh
  BY <1>1 DEF Busy, Fresh
<1>5. CountedInv /\ HeardInv /\ LockInv
  BY <1>4 DEF CountedInv, HeardInv, LockInv
<1>6. ReleasedInv /\ LateInv
  BY <1>1 DEF ReleasedInv, LateInv, Resting, PanelInit
<1>7. ModeInv /\ AskedInv /\ ValueInv /\ TakenInv
  BY <1>1 DEF ModeInv, AskedInv, ValueInv, Converting, AckSteps, TakenInv, Recovered
<1> QED
  BY <1>2, <1>3, <1>5, <1>6, <1>7 DEF LinkInv

\* Every clock and every reset keeps the ties.
LEMMA NextLink == InTime /\ TypeInv /\ HandshakeIInv /\ LinkInv /\ [Next]_vars => LinkInv'
<1> SUFFICES ASSUME InTime, TypeInv, HandshakeIInv, LinkInv, [Next]_vars
             PROVE  LinkInv'
  OBVIOUS
<1>1. /\ MasterOK /\ PanelInv /\ CountedInv /\ ReleasedInv /\ LockInv /\ LateInv
      /\ ModeInv /\ AskedInv /\ HeardInv /\ ValueInv /\ TakenInv
      /\ SeenInv /\ EndInv /\ SdaInv
  BY DEF LinkInv, MasterOK
<1>2. ASSUME NEW we \in BOOLEAN, Clock(we)
      PROVE  LinkInv'
  <2>1. I2cStep /\ Lines
    BY <1>2 DEF Clock
  <2>2. MasterOK'
    BY <1>1, <2>1, SeenStep, EndStep, SdaInvStep DEF MasterOK
  <2>3. PanelInv' /\ CountedInv'
    BY <1>1, <2>1, PanelInvStep, CountedStep
  <2>4. ReleasedInv' /\ LockInv' /\ LateInv'
    BY <1>1, <1>2, ReleasedStep, LockStep, LateStep
  <2>5. ModeInv' /\ AskedInv' /\ HeardInv'
    BY <1>1, <1>2, ModeStep, AskedStep, HeardStep
  <2>6. ValueInv' /\ TakenInv'
    BY <1>1, <1>2, ValueStep, TakenStep
  <2> QED
    BY <2>2, <2>3, <2>4, <2>5, <2>6 DEF LinkInv
<1>3. ASSUME Reset
      PROVE  LinkInv'
  <2>1. /\ i2cstep' = "idle" /\ scl_out' = 1 /\ sda_out' = 1 /\ dirty' = 2
        /\ smstate' = 0 /\ i2cmode' = 0 /\ Lines
    BY <1>3 DEF Reset
  <2>2. MasterOK'
    BY <2>1 DEF MasterOK, SeenInv, EndInv, SdaInv, BitSteps, AckSteps, Fresh
  <2>3. PanelInv'
    BY <1>1, <2>1, PanelInvStep
  <2>4. ~Busy' /\ ~Fresh' /\ ~Exact'
    BY <2>1 DEF Busy, Fresh, Exact
  <2>5. CountedInv' /\ HeardInv' /\ LockInv'
    BY <2>4 DEF CountedInv, HeardInv, LockInv
  <2>6. ReleasedInv' /\ LateInv'
    BY <2>1, <2>4 DEF ReleasedInv, LateInv
  <2>7. ModeInv' /\ AskedInv' /\ ValueInv' /\ TakenInv'
    BY <2>1, <2>4 DEF ModeInv, AskedInv, ValueInv, TakenInv, Recovered
  <2> QED
    BY <2>2, <2>3, <2>5, <2>6, <2>7 DEF LinkInv
<1>4. ASSUME UNCHANGED vars
      PROVE  LinkInv'
  <2> USE <1>1, <1>4 DEF vars, seqVars, engineVars, busVars
  <2>1. MasterOK'
    BY DEF MasterOK, SeenInv, EndInv, SdaInv, BitSteps, AckSteps, Fresh, LastByte
  <2>2. PanelInv'
    BY DEF PanelInv, TargetAfter, SendBit
  <2>3. CountedInv' /\ HeardInv'
    BY DEF CountedInv, HeardInv, Busy, Fresh, Counted, InByte, Clocked, Exact
  <2>4. ReleasedInv' /\ LateInv'
    BY DEF ReleasedInv, LateInv, Resting, Late, Exact, Sda
  <2>5. LockInv'
    BY DEF LockInv, Lock, ModeIn, Busy, Fresh, InByte, Clocked, Resting, Exact
  <2>6. ModeInv' /\ AskedInv'
    BY DEF ModeInv, AskedInv, Recovered, Exact, Phase
  <2>7. ValueInv' /\ TakenInv'
    BY DEF ValueInv, Converting, Phase, AckSteps, TakenInv, TakenOf, Due, SendBit, Exact
  <2> QED
    BY <2>1, <2>2, <2>3, <2>4, <2>5, <2>6, <2>7 DEF LinkInv
<1> QED
  BY <1>2, <1>3, <1>4 DEF Next, Tick

\* At the end of a read the two bytes hold a word that the axis may deliver.
LEMMA WholeWord ==
    ASSUME TypeInv, LinkInv, smstate \in Reading, i2cstep = "idle"
    PROVE  Received \in Sampler!Deliverable(Phase)
<1>1. Received \in Word
  BY ReceivedType DEF TypeInv, TypeOK
<1>2. CASE dirty # 0
  BY <1>1, <1>2 DEF Sampler!Deliverable
<1>3. CASE dirty = 0
  <2>1. i2cmode = RX /\ i2ccnt = 2
    BY <1>3 DEF LinkInv, ModeInv, Recovered
  <2>2. \A h \in 0..1, k \in 0..7 : i2crecv[h][7 - k] = Due(h, 7 - k)
    BY <1>3, <2>1 DEF LinkInv, TakenInv, TakenOf, Exact
  <2>3. ASSUME NEW h \in 0..1, NEW b \in 0..7
        PROVE  i2crecv[h][b] = Due(h, b)
    <3>1. 7 - b \in 0..7 /\ 7 - (7 - b) = b
      OBVIOUS
    <3> QED
      BY <2>2, <3>1
  <2>4. CASE present
    <3>1. panel.value \in Samples[Phase] /\ panel.value \in Word
      BY <1>3, <2>4 DEF LinkInv, ValueInv, Converting, Exact, TypeInv, TypeOK, PanelStates
    <3>2. ASSUME NEW b \in 0..11
          PROVE  Received[b] = panel.value[b]
      <4>1. CASE b >= 4
        <5>1. b - 4 \in 0..7 /\ Received[b] = i2crecv[1][b - 4]
          BY <4>1 DEF Received
        <5> QED
          BY <2>3, <2>4, <5>1 DEF Due, SendBit
      <4>2. CASE b < 4
        <5>1. b + 4 \in 0..7 /\ Received[b] = i2crecv[0][b + 4]
          BY <4>2 DEF Received
        <5> QED
          BY <2>3, <2>4, <4>2, <5>1 DEF Due, SendBit
      <4> QED
        BY <4>1, <4>2
    <3>3. Received = panel.value
      BY <1>1, <3>1, <3>2 DEF Word
    <3> QED
      BY <1>3, <2>4, <3>1, <3>3 DEF Sampler!Deliverable
  <2>5. CASE ~present
    <3>1. ASSUME NEW b \in 0..11
          PROVE  Received[b] = 1
      <4>1. CASE b >= 4
        BY <2>3, <2>5, <4>1 DEF Due, Received
      <4>2. CASE b < 4
        BY <2>3, <2>5, <4>2 DEF Due, Received
      <4> QED
        BY <4>1, <4>2
    <3>2. Received = [b \in 0..11 |-> 1]
      BY <3>1 DEF Received
    <3> QED
      BY <1>3, <2>5, <3>2 DEF Sampler!Deliverable
  <2> QED
    BY <2>4, <2>5
<1> QED
  BY <1>2, <1>3

\* Storing it is a delivery of the abstract sampler.
LEMMA ExactDelivery ==
    ASSUME NEW a \in Axis, Phase = a, Phase' = Sampler!After(a), dirty' = dirty,
           present' = present, Received \in Sampler!Deliverable(a),
           data' = [data EXCEPT ![a] = Received]
    PROVE  Sampler!SNext
<1>1. \E w \in Sampler!Deliverable(a) : data' = [data EXCEPT ![a] = w]
  BY Zenon
<1>2. Sampler!Deliver(a)
  BY <1>1 DEF Sampler!Deliver
<1> QED
  BY <1>2 DEF Sampler!SNext, Sampler!Convert, Sampler!Axis

\* If the panel settles its data within a half bit and lets go of the bus within the
\* pause between transfers, the registers take exactly the words the panel converted
\* for each axis, all ones without a panel; after a reset at any clock the second
\* conversion is exact again.
THEOREM ExactSamples ==
    ASSUME InTime
    PROVE  Spec => Implements
<1> USE DEF Sampler!svars, Sampler!Axis
<1>1. Init => Sampler!SInit
  BY DEF Init, Sampler!SInit, Phase
<1>2. TypeInv /\ LinkInv /\ [Next]_vars => [Sampler!SNext]_Sampler!svars
  <2> SUFFICES ASSUME TypeInv, LinkInv, [Next]_vars
               PROVE  Sampler!SNext \/ UNCHANGED Sampler!svars
    BY DEF Sampler!svars
  <2>1. /\ smstate \in 0..13 /\ data \in [Axis -> Word] /\ dirty \in 0..2
    BY DEF TypeInv, TypeOK
  <2>2. ASSUME NEW we \in BOOLEAN, Clock(we)
        PROVE  Sampler!SNext \/ UNCHANGED Sampler!svars
    <3>0. present' = present
      BY <2>2 DEF Clock, Lines
    <3>1. CASE SeqAccept(we)
      BY <3>0, <3>1 DEF SeqAccept, Sampler!SNext, Sampler!Trigger, Phase
    <3>2. CASE SeqRest(we) \/ SeqWait
      BY <3>0, <3>2 DEF SeqRest, SeqWait, seqVars, Phase
    <3>3. CASE SeqCommand
      <4>1. CASE smstate = 1
        BY <3>0, <3>3, <4>1 DEF SeqCommand, Phase
      <4>2. CASE smstate = 5
        <5>1. data' = [data EXCEPT !["Z"] = Received] /\ smstate' = 6 /\ dirty' = dirty
          BY <3>3, <4>2 DEF SeqCommand, AxisRead
        <5>2. Phase = "Z" /\ Phase' = Sampler!After("Z")
          BY <4>2, <5>1 DEF Phase, Sampler!After
        <5>3. Received \in Sampler!Deliverable("Z")
          BY <3>3, <4>2, <5>2, WholeWord DEF SeqCommand
        <5> QED
          BY <3>0, <5>1, <5>2, <5>3, ExactDelivery
      <4>3. CASE smstate = 9
        <5>1. data' = [data EXCEPT !["X"] = Received] /\ smstate' = 10 /\ dirty' = dirty
          BY <3>3, <4>3 DEF SeqCommand, AxisRead
        <5>2. Phase = "X" /\ Phase' = Sampler!After("X")
          BY <4>3, <5>1 DEF Phase, Sampler!After
        <5>3. Received \in Sampler!Deliverable("X")
          BY <3>3, <4>3, <5>2, WholeWord DEF SeqCommand
        <5> QED
          BY <3>0, <5>1, <5>2, <5>3, ExactDelivery
      <4> QED
        BY <3>3, <4>1, <4>2, <4>3 DEF SeqCommand
    <3>4. CASE SeqWriteStarted
      BY <3>0, <3>4 DEF SeqWriteStarted, Phase
    <3>5. CASE SeqRead
      BY <3>0, <3>5 DEF SeqRead, Phase
    <3>6. CASE SeqReadStarted
      BY <3>0, <3>6 DEF SeqReadStarted, Phase
    <3>7. CASE SeqFinish
      <4>1. data' = [data EXCEPT !["Y"] = Received] /\ dirty' = dirty
        BY <3>7 DEF SeqFinish
      <4>2. Phase = "Y" /\ Phase' = Sampler!After("Y")
        BY <3>7 DEF SeqFinish, Phase, Sampler!After
      <4>3. Received \in Sampler!Deliverable("Y")
        BY <3>7, <4>2, WholeWord DEF SeqFinish
      <4> QED
        BY <3>0, <4>1, <4>2, <4>3, ExactDelivery
    <3> QED
      BY <2>2, <3>1, <3>2, <3>3, <3>4, <3>5, <3>6, <3>7 DEF Clock, SeqStep
  <2>3. ASSUME Reset
        PROVE  Sampler!SNext
    BY <2>3 DEF Reset, Lines, Sampler!SNext, Sampler!SReset, Phase
  <2>4. ASSUME UNCHANGED vars
        PROVE  UNCHANGED Sampler!svars
    BY <2>4 DEF vars, seqVars, busVars, Phase
  <2> QED
    BY <2>2, <2>3, <2>4 DEF Next, Tick
<1> QED
  BY <1>1, <1>2, InitTypes, NextTypes, InitHandshake, NextHandshake, InitLink, NextLink, PTL
     DEF Spec, Implements, Sampler!Sampling
=============================================================================
