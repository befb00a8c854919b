------------------------------- MODULE TpI2c -------------------------------
(***************************************************************************)
(* src/tpi2c.v: the two always blocks of the touch-panel master, clocked   *)
(* together, with the input registers and open-drain pins of src/top.v and *)
(* an NS2009 panel on the bus (external: modelled from how tpi2c.v drives  *)
(* it).  The sequencer asks the I2C engine for a write and a read per      *)
(* axis; one step of this module is one rising edge of clk.                *)
(*                                                                         *)
(* Registers narrower than their use allows are kept to the values they    *)
(* reach (TypeOK says which).  i2crecv[2..3] and i2csend[2..3], which are  *)
(* cleared or never written and never read, and i2cack, which is written   *)
(* and never read, are left out.                                           *)
(***************************************************************************)
EXTENDS Integers

CONSTANTS
    NS2009_DELAY,   \* clocks of a half bit
    NS2009_POLLP,   \* clocks of idle bus after a transfer
    Samples,        \* the words the panel may convert, per axis
    MaxLag,         \* clocks the panel takes to drive SDA after SCL fell
    MaxStretch,     \* clocks the panel may hold SCL low
    MaxResets       \* bound on the number of resets

Axis == {"Z", "X", "Y"}
Bit  == {0, 1}
Byte == [0..7 -> Bit]
Word == [0..11 -> Bit]

ASSUME DelaysAreNaturals ==
    /\ NS2009_DELAY \in Nat /\ NS2009_POLLP \in Nat
    /\ MaxLag \in Nat /\ MaxStretch \in Nat /\ MaxResets \in Nat
ASSUME SamplesAreWords == Samples \in [Axis -> SUBSET Word]

VARIABLES
    smstate, wtrg, rtrg, iaddr, wdata,
    data,           \* zdata, xdata and ydata, by axis
    i2cstep, i2ccnt, i2cmode, i2cbit, i2csend, i2crecv, i2cwait,
    sda_out, scl_out, sdain, sclin,
    panel, present,
    dirty,          \* history: conversions until the samples are exact again
    resets

seqVars    == <<smstate, wtrg, rtrg, iaddr, wdata, data, dirty>>
engineVars == <<i2cstep, i2ccnt, i2cmode, i2cbit, i2csend, i2crecv, i2cwait,
                sda_out, scl_out>>
busVars    == <<sdain, sclin, panel, present>>
vars       == <<seqVars, engineVars, busVars, resets>>

-----------------------------------------------------------------------------
\* Constants of the design.

Ones(S) == [b \in 0..7 |-> IF b \in S THEN 1 ELSE 0]

NS2009_WADDR == Ones({7, 4})          \* 8'h90
NS2009_RADDR == Ones({7, 4, 0})       \* 8'h91
READ == [a \in Axis |-> CASE a = "X" -> Ones({7, 6})       \* 8'hC0
                          [] a = "Y" -> Ones({7, 6, 4})    \* 8'hD0
                          [] a = "Z" -> Ones({7, 6, 5})]   \* 8'hE0
NoByte == Ones({})
NoWord == [b \in 0..11 |-> 0]

\* The smstate values of one kind, and the axis each of them works for.
Commanding   == {1, 5, 9}
WriteRaised  == {2, 6, 10}
Writing      == {3, 7, 11}
ReadRaised   == {4, 8, 12}
Reading      == {5, 9, 13}
AxisOf(s) == CASE s \in 1..4 -> "Z" [] s \in 5..8 -> "X" [] OTHER -> "Y"
AxisRead(s) == CASE s = 5 -> "Z" [] s = 9 -> "X" [] OTHER -> "Y"

\* i2cstep: 0, 1, 2, 3, 35, 4, 45, 5, 51, 56, 6, 7, 8, 9, 9A, A, F, FF.
Steps == {"idle", "low", "waitLow", "txBit", "txHold", "rxBit", "rxHold",
          "waitHigh", "nextBit", "lastBit", "ackLow", "ackDrive", "ackHigh",
          "ackWait", "ackHold", "byteEnd", "stop", "stopWait"}
TX == 2
RX == 1

\* {4'b0, i2crecv[1][7:4], i2crecv[1][3:0], i2crecv[0][7:4]}
Received == [b \in 0..11 |-> IF b >= 4 THEN i2crecv[1][b - 4] ELSE i2crecv[0][b + 4]]

\* The open-drain lines.
Scl == IF scl_out = 1 /\ panel.hold = 0 THEN 1 ELSE 0
Sda == IF sda_out = 1 /\ panel.drive = 1 THEN 1 ELSE 0

-----------------------------------------------------------------------------
\* The sequencer.

\* A write to register 0 starts a conversion only when both machines rest.
SeqAccept(we) ==
    /\ smstate = 0 /\ i2cstep = "idle" /\ we
    /\ smstate' = 1
    /\ data' = [a \in Axis |-> NoWord]
    /\ dirty' = IF dirty = 0 THEN 0 ELSE dirty - 1
    /\ UNCHANGED <<wtrg, rtrg, iaddr, wdata>>

\* Every other write is dropped.
SeqRest(we) ==
    /\ smstate = 0 /\ ~(i2cstep = "idle" /\ we)
    /\ UNCHANGED seqVars

\* Ask for the command write of an axis, keeping the word just read.
SeqCommand ==
    /\ smstate \in Commanding /\ i2cstep = "idle"
    /\ data' = IF smstate = 1 THEN data
               ELSE [data EXCEPT ![AxisRead(smstate)] = Received]
    /\ wtrg' = TRUE
    /\ iaddr' = NS2009_WADDR
    /\ wdata' = READ[AxisOf(smstate)]
    /\ smstate' = smstate + 1
    /\ UNCHANGED <<rtrg, dirty>>

\* Mutant: the write request stays up.
SeqWriteStaysUp ==
    /\ smstate \in WriteRaised /\ i2cstep # "idle"
    /\ smstate' = smstate + 1
    /\ UNCHANGED <<wtrg, rtrg, iaddr, wdata, data, dirty>>

SeqWriteStarted ==
    /\ smstate \in WriteRaised /\ i2cstep # "idle"
    /\ wtrg' = FALSE
    /\ smstate' = smstate + 1
    /\ UNCHANGED <<rtrg, iaddr, wdata, data, dirty>>

\* Mutant: the read request is never raised.
SeqReadForgotten ==
    /\ smstate \in Writing /\ i2cstep = "idle"
    /\ iaddr' = NS2009_RADDR
    /\ smstate' = smstate + 1
    /\ UNCHANGED <<wtrg, rtrg, wdata, data, dirty>>

SeqRead ==
    /\ smstate \in Writing /\ i2cstep = "idle"
    /\ rtrg' = TRUE
    /\ iaddr' = NS2009_RADDR
    /\ smstate' = smstate + 1
    /\ UNCHANGED <<wtrg, wdata, data, dirty>>

SeqReadStarted ==
    /\ smstate \in ReadRaised /\ i2cstep # "idle"
    /\ rtrg' = FALSE
    /\ smstate' = smstate + 1
    /\ UNCHANGED <<wtrg, iaddr, wdata, data, dirty>>

SeqFinish ==
    /\ smstate = 13 /\ i2cstep = "idle"
    /\ data' = [data EXCEPT !["Y"] = Received]
    /\ smstate' = 0
    /\ UNCHANGED <<wtrg, rtrg, iaddr, wdata, dirty>>

SeqWait ==
    /\ \/ smstate \in Commanding \cup Writing \cup Reading /\ i2cstep # "idle"
       \/ smstate \in WriteRaised \cup ReadRaised /\ i2cstep = "idle"
    /\ UNCHANGED seqVars

SeqStep(we) ==
    \/ SeqAccept(we) \/ SeqRest(we) \/ SeqCommand \/ SeqWriteStarted
    \/ SeqRead \/ SeqReadStarted \/ SeqFinish \/ SeqWait

-----------------------------------------------------------------------------
\* The I2C engine.

Goto(step) == i2cstep' = step

\* Count i2cwait down and go on at zero, doing onward on the way.
Delay(onward) ==
    IF i2cwait > 0 THEN /\ i2cwait' = i2cwait - 1
                        /\ UNCHANGED <<i2cstep, i2crecv, scl_out>>
                   ELSE /\ onward
                        /\ UNCHANGED i2cwait

I2cStart ==
    /\ i2cstep = "idle"
    /\ wtrg \/ rtrg
    /\ i2csend' = [i \in 0..1 |-> IF i = 0 THEN iaddr ELSE IF wtrg THEN wdata ELSE NoByte]
    /\ i2crecv' = IF wtrg THEN i2crecv ELSE [i \in 0..1 |-> NoByte]
    /\ i2cmode' = IF wtrg THEN TX ELSE RX
    /\ i2ccnt' = 0 /\ i2cbit' = 0 /\ i2cwait' = 0
    /\ scl_out' = 1 /\ sda_out' = 0
    /\ Goto("low")

I2cRest ==
    /\ i2cstep = "idle" /\ ~wtrg /\ ~rtrg
    /\ UNCHANGED engineVars

\* Steps 1 and 6 pull SCL down, step 8 lets it go.
I2cClock ==
    /\ \/ i2cstep = "low"     /\ scl_out' = 0 /\ Goto("waitLow")
       \/ i2cstep = "ackLow"  /\ scl_out' = 0 /\ Goto("ackDrive")
       \/ i2cstep = "ackHigh" /\ scl_out' = 1 /\ Goto("ackWait")
    /\ UNCHANGED <<i2ccnt, i2cmode, i2cbit, i2csend, i2crecv, i2cwait, sda_out>>

\* Steps 2, 5, 7 and 9 wait to see the line where the engine drove it.
I2cWaitLow ==
    /\ i2cstep = "waitLow" /\ sclin = 0
    /\ Goto(IF i2ccnt # 0 /\ i2cmode = RX THEN "rxBit" ELSE "txBit")
    /\ UNCHANGED <<i2ccnt, i2cmode, i2cbit, i2csend, i2crecv, i2cwait, sda_out, scl_out>>

I2cWaitHigh ==
    /\ i2cstep = "waitHigh" /\ sclin = 1
    /\ i2cwait' = NS2009_DELAY
    /\ IF i2cbit = 7 THEN Goto("lastBit") /\ UNCHANGED i2cbit
                     ELSE Goto("nextBit") /\ i2cbit' = i2cbit + 1
    /\ UNCHANGED <<i2ccnt, i2cmode, i2csend, i2crecv, sda_out, scl_out>>

\* Mutant: the master acknowledges no byte of a read.
I2cAckNever ==
    /\ i2cstep = "ackDrive" /\ sclin = 0
    /\ sda_out' = 1
    /\ Goto("ackHigh")
    /\ UNCHANGED <<i2ccnt, i2cmode, i2cbit, i2csend, i2crecv, i2cwait, scl_out>>

I2cAckDrive ==
    /\ i2cstep = "ackDrive" /\ sclin = 0
    /\ sda_out' = IF i2cmode = RX /\ i2ccnt = 1 THEN 0 ELSE 1
    /\ Goto("ackHigh")
    /\ UNCHANGED <<i2ccnt, i2cmode, i2cbit, i2csend, i2crecv, i2cwait, scl_out>>

I2cAckWait ==
    /\ i2cstep = "ackWait" /\ sclin = 1
    /\ i2cwait' = NS2009_DELAY
    /\ Goto("ackHold")
    /\ UNCHANGED <<i2ccnt, i2cmode, i2cbit, i2csend, i2crecv, sda_out, scl_out>>

I2cStretched ==
    /\ \/ i2cstep \in {"waitLow", "ackDrive"} /\ sclin = 1
       \/ i2cstep \in {"waitHigh", "ackWait", "stopWait"} /\ sclin = 0
    /\ UNCHANGED engineVars

\* Steps 3 and 4 begin a bit.
I2cBit ==
    /\ \/ /\ i2cstep = "txBit"
          /\ sda_out' = i2csend[i2ccnt][7 - i2cbit]
          /\ Goto("txHold")
       \/ i2cstep = "rxBit" /\ Goto("rxHold") /\ UNCHANGED sda_out
    /\ i2cwait' = NS2009_DELAY
    /\ UNCHANGED <<i2ccnt, i2cmode, i2cbit, i2csend, i2crecv, scl_out>>

\* Steps 35, 45, 51, 56 and 9A; 45 takes the bit just before SCL rises.
I2cDelay ==
    /\ \/ /\ i2cstep = "txHold"
          /\ Delay(scl_out' = 1 /\ Goto("waitHigh") /\ UNCHANGED i2crecv)
       \/ /\ i2cstep = "rxHold"
          /\ Delay(/\ i2crecv' = [i2crecv EXCEPT ![2 - i2ccnt][7 - i2cbit] = sdain]
                   /\ scl_out' = 1 /\ Goto("waitHigh"))
       \/ i2cstep = "nextBit" /\ Delay(Goto("low") /\ UNCHANGED <<i2crecv, scl_out>>)
       \/ i2cstep = "lastBit" /\ Delay(Goto("ackLow") /\ UNCHANGED <<i2crecv, scl_out>>)
       \/ i2cstep = "ackHold" /\ Delay(Goto("byteEnd") /\ UNCHANGED <<i2crecv, scl_out>>)
    /\ UNCHANGED <<i2ccnt, i2cmode, i2cbit, i2csend, sda_out>>

\* Mutant: a read of one byte too many.
LastByteLate == IF i2cmode = TX THEN 1 ELSE 3

LastByte == IF i2cmode = TX THEN 1 ELSE 2

\* Mutant: SDA let go before SCL is pulled low.
I2cByteEndHigh ==
    /\ i2cstep = "byteEnd"
    /\ sda_out' = 1
    /\ IF i2ccnt = LastByte
       THEN Goto("stop") /\ UNCHANGED <<i2ccnt, i2cbit>>
       ELSE Goto("low") /\ i2ccnt' = i2ccnt + 1 /\ i2cbit' = 0
    /\ UNCHANGED <<i2cmode, i2csend, i2crecv, i2cwait, scl_out>>

I2cByteEnd ==
    /\ i2cstep = "byteEnd"
    /\ scl_out' = 0 /\ sda_out' = 1
    /\ IF i2ccnt = LastByte
       THEN Goto("stop") /\ UNCHANGED <<i2ccnt, i2cbit>>
       ELSE Goto("low") /\ i2ccnt' = i2ccnt + 1 /\ i2cbit' = 0
    /\ UNCHANGED <<i2cmode, i2csend, i2crecv, i2cwait>>

I2cStop ==
    /\ i2cstep = "stop"
    /\ scl_out' = 1
    /\ i2cwait' = NS2009_POLLP
    /\ Goto("stopWait")
    /\ UNCHANGED <<i2ccnt, i2cmode, i2cbit, i2csend, i2crecv, sda_out>>

I2cStopWait ==
    /\ i2cstep = "stopWait" /\ sclin = 1
    /\ sda_out' = 1
    /\ Delay(Goto("idle") /\ UNCHANGED <<i2crecv, scl_out>>)
    /\ UNCHANGED <<i2ccnt, i2cmode, i2cbit, i2csend>>

I2cStep ==
    \/ I2cStart \/ I2cRest \/ I2cClock \/ I2cWaitLow \/ I2cWaitHigh
    \/ I2cAckDrive \/ I2cAckWait \/ I2cStretched \/ I2cBit \/ I2cDelay
    \/ I2cByteEnd \/ I2cStop \/ I2cStopWait

-----------------------------------------------------------------------------
\* The panel (external): an I2C slave with no timing of its own but the lag
\* of its SDA driver and a bounded stretch of SCL.  clocks counts the rising
\* edges of SCL in the current byte; the ninth carries the acknowledge.

PanelStates == [mode : {"off", "address", "command", "send"}, clocks : 0..9,
                byte : Byte, half : Bit, value : Word,
                drive : Bit, target : Bit, lag : 0..MaxLag, hold : 0..MaxStretch,
                scl : Bit, sda : Bit, started : BOOLEAN]

PanelInit == [mode |-> "off", clocks |-> 0, byte |-> NoByte, half |-> 1,
              value |-> NoWord, drive |-> 1, target |-> 1, lag |-> 0, hold |-> 0,
              scl |-> 1, sda |-> 1, started |-> FALSE]

\* What time does to the panel: outputs settle, inputs are seen.
Settled == [panel EXCEPT !.scl = Scl, !.sda = Sda,
                         !.lag = IF @ = 0 THEN 0 ELSE @ - 1,
                         !.drive = IF panel.lag = 0 THEN panel.target ELSE @,
                         !.hold = IF @ = 0 THEN 0 ELSE @ - 1]

\* A late acknowledge may pull SDA under a high SCL: the panel does not take
\* its own pull for a START.
PanelStart ==
    /\ panel.scl = 1 /\ Scl = 1 /\ panel.sda = 1 /\ Sda = 0 /\ panel.drive = 1
    /\ panel' = [Settled EXCEPT !.mode = "address", !.clocks = 0, !.target = 1,
                                !.started = TRUE]

PanelStop ==
    /\ panel.scl = 1 /\ Scl = 1 /\ panel.sda = 0 /\ Sda = 1
    /\ panel' = [Settled EXCEPT !.mode = "off", !.target = 1, !.started = FALSE]

PanelQuiet ==
    /\ panel.scl = Scl
    /\ panel.sda = Sda \/ Scl = 0 \/ (Sda = 0 /\ panel.drive = 0)
    /\ panel' = Settled

PanelRise ==
    /\ panel.scl = 0 /\ Scl = 1
    /\ panel' = IF panel.mode = "off" THEN Settled
                ELSE [Settled EXCEPT
                        !.clocks = IF @ = 9 THEN 9 ELSE @ + 1,
                        !.byte = IF panel.mode = "send" \/ panel.clocks > 7 THEN @
                                 ELSE [@ EXCEPT ![7 - panel.clocks] = Sda]]

\* The bit the panel sends: D11..D4 in the first byte, D3..D0 and zeros in the second.
SendBit(half, b) == IF half = 1 THEN panel.value[b + 4]
                    ELSE IF b >= 4 THEN panel.value[b - 4] ELSE 0

Converted == IF \E a \in Axis : panel.byte = READ[a]
             THEN Samples[CHOOSE a \in Axis : panel.byte = READ[a]]
             ELSE {panel.value}

\* What the panel may do at a falling edge, before lag and stretch.
Drive(bit)     == [Settled EXCEPT !.target = bit]
Off            == [Settled EXCEPT !.mode = "off", !.target = 1]
Listen         == [Settled EXCEPT !.mode = "command", !.clocks = 0, !.target = 1]
Convert(value) == [Settled EXCEPT !.target = 0, !.value = value]
Send(half)     == [Settled EXCEPT !.mode = "send", !.clocks = 0, !.half = half,
                                  !.target = SendBit(half, 7)]

AfterFall(value) ==
    CASE panel.mode = "off" \/ panel.clocks = 0 -> Settled
      [] panel.mode = "address" /\ panel.clocks = 8 ->
           IF panel.byte \in {NS2009_WADDR, NS2009_RADDR} THEN Drive(0) ELSE Off
      [] panel.mode = "address" /\ panel.clocks = 9 ->
           IF panel.byte = NS2009_RADDR THEN Send(1) ELSE Listen
      [] panel.mode = "command" /\ panel.clocks = 8 -> Convert(value)
      [] panel.mode = "command" /\ panel.clocks = 9 -> Off
      [] panel.mode = "send" /\ panel.clocks \in 1..7 ->
           Drive(SendBit(panel.half, 7 - panel.clocks))
      [] panel.mode = "send" /\ panel.clocks = 8 -> Drive(1)
      [] panel.mode = "send" /\ panel.clocks = 9 ->
           IF panel.sda = 0 /\ panel.half = 1 THEN Send(0) ELSE Off
      [] OTHER -> Settled

PanelFall ==
    /\ panel.scl = 1 /\ Scl = 0
    /\ \E value \in IF panel.mode = "command" /\ panel.clocks = 8
                    THEN Converted ELSE {panel.value},
          lag \in 0..MaxLag, hold \in 0..MaxStretch :
         panel' = [AfterFall(value) EXCEPT !.lag = lag, !.hold = hold]

PanelStep ==
    \/ present /\ (PanelStart \/ PanelStop \/ PanelQuiet \/ PanelRise \/ PanelFall)
    \/ ~present /\ UNCHANGED panel

\* top.v registers both lines before the engine sees them.
Lines ==
    /\ sdain' = Sda /\ sclin' = Scl
    /\ PanelStep
    /\ UNCHANGED present

-----------------------------------------------------------------------------
Init ==
    /\ smstate = 0 /\ wtrg = FALSE /\ rtrg = FALSE
    /\ iaddr = NoByte /\ wdata = NoByte /\ data = [a \in Axis |-> NoWord]
    /\ i2cstep = "idle" /\ i2ccnt = 0 /\ i2cmode = 0 /\ i2cbit = 0 /\ i2cwait = 0
    /\ i2csend = [i \in 0..1 |-> NoByte] /\ i2crecv = [i \in 0..1 |-> NoByte]
    /\ sda_out = 1 /\ scl_out = 1 /\ sdain = 1 /\ sclin = 1
    /\ panel = PanelInit /\ present \in BOOLEAN
    /\ dirty = 0 /\ resets = 0

\* One clock; we is the write strobe of top.v for register 0.
Clock(we) ==
    /\ SeqStep(we)
    /\ I2cStep
    /\ Lines
    /\ UNCHANGED resets

\* A clock with resetb low.  The request and address registers keep their
\* values: neither block resets them.
Reset ==
    /\ resets < MaxResets
    /\ resets' = resets + 1
    /\ dirty' = 2
    /\ smstate' = 0
    /\ i2cstep' = "idle" /\ i2ccnt' = 0 /\ i2cmode' = 0 /\ i2cbit' = 0 /\ i2cwait' = 0
    /\ sda_out' = 1 /\ scl_out' = 1
    /\ Lines
    /\ UNCHANGED <<wtrg, rtrg, iaddr, wdata, data, i2csend, i2crecv>>

Tick == \E we \in BOOLEAN : Clock(we)
Next == Tick \/ Reset
Spec == Init /\ [][Next]_vars
FairSpec == Spec /\ WF_vars(Tick)

-----------------------------------------------------------------------------
\* Properties.

\* Types of the registers, and the values the wider ones are confined to.
TypeOK ==
    /\ smstate \in 0..13 /\ wtrg \in BOOLEAN /\ rtrg \in BOOLEAN
    /\ iaddr \in Byte /\ wdata \in Byte /\ data \in [Axis -> Word]
    /\ i2cstep \in Steps /\ i2ccnt \in 0..2 /\ i2cmode \in 0..2 /\ i2cbit \in 0..7
    /\ i2csend \in [0..1 -> Byte] /\ i2crecv \in [0..1 -> Byte] /\ i2cwait \in Nat
    /\ sda_out \in Bit /\ scl_out \in Bit /\ sdain \in Bit /\ sclin \in Bit
    /\ panel \in PanelStates /\ present \in BOOLEAN
    /\ dirty \in 0..2 /\ resets \in 0..MaxResets

\* Clocks of no reset, or of a conversion after one that has got past its first
\* read request: whatever the reset left behind is then gone.
Recovered == dirty = 0 \/ (dirty = 1 /\ smstate \notin 1..3)

\* The sequencer's requests and the engine's transfers stay in step, over the
\* clock of delay in each direction: a request line is up exactly in the two
\* states that wait for the engine to take it, the engine has taken it for at
\* most one clock, and every transfer runs in the mode that was asked for.
HandshakeInv ==
    Recovered =>
      /\ wtrg <=> smstate \in WriteRaised
      /\ rtrg <=> smstate \in ReadRaised
      /\ smstate \in WriteRaised \cup ReadRaised => i2cstep \in {"idle", "low"}
      /\ smstate \in {0, 1} => i2cstep = "idle"
      /\ i2cstep # "idle" /\ smstate \in WriteRaised \cup Writing => i2cmode = TX
      /\ i2cstep # "idle" /\ smstate \in ReadRaised \cup Reading => i2cmode = RX

\* The master moves SDA only where SCL is low after the clock, except to begin
\* a transfer (a START) or in a reset: a data bit is never taken for a START or
\* a STOP.
SdaMovesWhileSclLow ==
    [][sda_out' # sda_out => \/ scl_out' = 0
                             \/ i2cstep = "idle" /\ (wtrg \/ rtrg)
                             \/ resets' # resets]_vars

\* What the abstract sampler sees: the axis whose word is awaited.
Phase == CASE smstate = 0 -> "idle" [] smstate \in 1..5 -> "Z"
           [] smstate \in 6..9 -> "X" [] OTHER -> "Y"

\* The registers read as the abstract sampler's: exact words of the panel, in
\* order, all ones without a panel, and exact again from the second conversion
\* after a reset that may come at any clock.
Sampler == INSTANCE TpSampler
    WITH phase <- Phase, Zero <- NoWord, AllOnes <- [b \in 0..11 |-> 1]
Implements == Sampler!Sampling

\* The same without the values: what holds whatever is on the bus.
AnyWord == INSTANCE TpSampler
    WITH phase <- Phase, Zero <- NoWord, AllOnes <- NoWord,
         present <- TRUE, Samples <- [a \in Axis |-> Word]
DeliversInOrder == AnyWord!Sampling

\* The comments of steps F and FF ("STOP CONDITION"): a bus at rest has been
\* released by a STOP, so the panel no longer waits for this master.
StopReleasesBus == i2cstep = "idle" => ~panel.started

\* Every conversion ends, whatever the panel answers and however it stretches.
ConversionEnds == smstate # 0 ~> smstate = 0
=============================================================================
