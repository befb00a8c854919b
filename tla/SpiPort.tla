------------------------------ MODULE SpiPort ------------------------------
(***************************************************************************)
(* The SPI shifter of src/top.v, driven by the transfers of xmit_mmc and   *)
(* rcvr_mmc (src/briey/sdmm.c): load gpioa_spiout, write the bit count,    *)
(* poll it down to zero.  Any other write to the APB2 window (the timer    *)
(* interrupt makes several) takes a clock from the shifter.  The card is   *)
(* external: it takes MOSI as SCK rises and moves MISO as SCK falls.       *)
(***************************************************************************)
EXTENDS Integers, Sequences

CONSTANTS
    WIDTH,      \* bits of the shift registers; 32 in top.v
    Lengths     \* bit counts the driver uses; 8 and 32 in sdmm.c

ASSUME SpiSizes == WIDTH \in Nat \ {0} /\ Lengths \subseteq 1..WIDTH

VARIABLES
    gpioa_spiout, gpioa_spiin, gpioa_spicnt, gpioa_spista, spi_nextbit,
    mosi, sck,          \* gpioa_out[1] and gpioa_out[2]
    last_iowr,
    miso,
    driver,             \* "free", or "wait" between the count and its zero
    length,             \* history: the count written
    got, sent           \* history: what the card took and what it gave

shifter == <<gpioa_spicnt, gpioa_spista, spi_nextbit, gpioa_spiin, mosi, sck, miso,
             got, sent>>
spiVars == <<shifter, gpioa_spiout, last_iowr, driver, length>>

Bit == {0, 1}
Index == 0..(WIDTH - 1)

SpiInit ==
    /\ gpioa_spiout = [b \in Index |-> 0] /\ gpioa_spiin = [b \in Index |-> 0]
    /\ gpioa_spicnt = 0 /\ gpioa_spista = 0 /\ spi_nextbit = 0
    /\ mosi = 1 /\ sck = 0 /\ last_iowr = FALSE
    /\ miso \in Bit
    /\ driver = "free" /\ length = 0 /\ got = <<>> /\ sent = <<>>

-----------------------------------------------------------------------------
\* Clocks that take a write, at the rising edge of the write strobe.

Strobe == ~last_iowr /\ last_iowr' = TRUE

\* GPIOA_SPIDAT = ...
LoadOut ==
    /\ Strobe /\ driver = "free"
    /\ gpioa_spiout' \in [Index -> Bit]
    /\ UNCHANGED <<shifter, driver, length>>

\* Mutant: the last transfer's bits stay in gpioa_spiin.
LoadCntKeeps(n) ==
    /\ Strobe /\ driver = "free"
    /\ spi_nextbit' = (n - 1) % WIDTH
    /\ mosi' = gpioa_spiout[(n - 1) % WIDTH]
    /\ sck' = 0
    /\ gpioa_spista' = 0
    /\ gpioa_spicnt' = n
    /\ driver' = "wait" /\ length' = n /\ got' = <<>> /\ sent' = <<>>
    /\ UNCHANGED <<gpioa_spiout, gpioa_spiin, miso>>

\* GPIOA_SPICNT = n: the first bit goes out at once.
LoadCnt(n) ==
    /\ Strobe /\ driver = "free"
    /\ spi_nextbit' = (n - 1) % WIDTH
    /\ mosi' = gpioa_spiout[(n - 1) % WIDTH]
    /\ sck' = 0
    /\ gpioa_spiin' = [b \in Index |-> 0]
    /\ gpioa_spista' = 0
    /\ gpioa_spicnt' = n
    /\ driver' = "wait" /\ length' = n /\ got' = <<>> /\ sent' = <<>>
    /\ UNCHANGED <<gpioa_spiout, miso>>

\* DI_L, CS_H and CS_L write the whole of gpioa_out back, DI_L with MOSI low.
PortWrite ==
    /\ Strobe /\ driver = "free"
    /\ mosi' \in {0, mosi}
    /\ UNCHANGED <<gpioa_spicnt, gpioa_spista, spi_nextbit, gpioa_spiin, sck, miso,
                   got, sent, gpioa_spiout, driver, length>>

\* A write to a register of the touch panel, the cursor or the pin directions.
OtherWrite ==
    /\ Strobe
    /\ UNCHANGED <<shifter, gpioa_spiout, driver, length>>

-----------------------------------------------------------------------------
\* Clocks without one; the strobe may stay up or be down.

NoStrobe == last_iowr' \in IF last_iowr THEN BOOLEAN ELSE {FALSE}

ShiftIn ==
    /\ NoStrobe /\ gpioa_spicnt > 0 /\ gpioa_spista = 0
    /\ gpioa_spiin' = [gpioa_spiin EXCEPT ![spi_nextbit] = miso]
    /\ sck' = 1
    /\ spi_nextbit' = (spi_nextbit - 1) % WIDTH
    /\ gpioa_spista' = 3
    /\ got' = Append(got, mosi) /\ sent' = Append(sent, miso)
    /\ UNCHANGED <<gpioa_spicnt, gpioa_spiout, mosi, miso, driver, length>>

\* Mutant: the last bit is never counted.
ShiftOutStopsAtOne ==
    /\ NoStrobe /\ gpioa_spicnt > 0 /\ gpioa_spista # 0
    /\ mosi' = gpioa_spiout[spi_nextbit]
    /\ sck' = 0
    /\ IF gpioa_spicnt > 1 THEN gpioa_spista' = 0 /\ gpioa_spicnt' = gpioa_spicnt - 1
                           ELSE UNCHANGED <<gpioa_spista, gpioa_spicnt>>
    /\ miso' \in Bit
    /\ UNCHANGED <<spi_nextbit, gpioa_spiin, gpioa_spiout, got, sent, driver, length>>

ShiftOut ==
    /\ NoStrobe /\ gpioa_spicnt > 0 /\ gpioa_spista # 0
    /\ mosi' = gpioa_spiout[spi_nextbit]
    /\ sck' = 0
    /\ gpioa_spista' = 0
    /\ gpioa_spicnt' = gpioa_spicnt - 1
    /\ miso' \in Bit
    /\ UNCHANGED <<spi_nextbit, gpioa_spiin, gpioa_spiout, got, sent, driver, length>>

Rest ==
    /\ NoStrobe /\ gpioa_spicnt = 0
    /\ UNCHANGED <<shifter, gpioa_spiout, driver, length>>

\* Mutant: the driver goes on at the last bit.
PollEarly ==
    /\ driver = "wait" /\ gpioa_spicnt <= 1
    /\ driver' = "free"
    /\ UNCHANGED <<shifter, gpioa_spiout, last_iowr, length>>

\* while (GPIOA_SPICNT) ends, and the driver reads gpioa_spiin.
Poll ==
    /\ driver = "wait" /\ gpioa_spicnt = 0
    /\ driver' = "free"
    /\ UNCHANGED <<shifter, gpioa_spiout, last_iowr, length>>

Clock == \/ LoadOut \/ PortWrite \/ OtherWrite \/ ShiftIn \/ ShiftOut \/ Rest
         \/ \E n \in Lengths : LoadCnt(n)
SpiNext == Clock \/ Poll
SpiSpec == SpiInit /\ [][SpiNext]_spiVars

\* Clocks without a rising strobe come again and again: last_iowr makes a
\* write take one clock however long it holds the strobe, so no rate of
\* writes can take them all.
FairSpiSpec == SpiSpec /\ WF_spiVars(Clock) /\ WF_spiVars(Poll)

-----------------------------------------------------------------------------
\* Properties.

SpiTypeOK ==
    /\ gpioa_spiout \in [Index -> Bit] /\ gpioa_spiin \in [Index -> Bit]
    /\ gpioa_spicnt \in 0..WIDTH /\ gpioa_spista \in {0, 3} /\ spi_nextbit \in Index
    /\ mosi \in Bit /\ sck \in Bit /\ miso \in Bit /\ last_iowr \in BOOLEAN
    /\ driver \in {"free", "wait"} /\ length \in {0} \cup Lengths
    /\ got \in Seq(Bit) /\ sent \in Seq(Bit)

\* When the count reads zero the card has taken exactly the asked-for bits of
\* gpioa_spiout, highest first, and gpioa_spiin holds the bits it gave, highest
\* first and right-aligned, however many clocks other writes took.
TransferExact ==
    driver = "wait" /\ gpioa_spicnt = 0 =>
      /\ Len(got) = length /\ Len(sent) = length
      /\ \A i \in 1..length : /\ got[i] = gpioa_spiout[length - i]
                              /\ sent[i] = gpioa_spiin[length - i]
      /\ \A b \in Index : b >= length => gpioa_spiin[b] = 0

\* MOSI moves only with SCK low: the card never samples a bit in flight, not even
\* where a write to the window comes between the two halves of a clock.
MosiStableWhileSckHigh == [][mosi' # mosi => sck' = 0]_spiVars

\* A transfer ends whatever else is written to the window meanwhile.
TransferEnds == driver = "wait" ~> driver = "free"
=============================================================================
