----------------------------- MODULE TpSampler -----------------------------
(***************************************************************************)
(* What src/tpi2c.v promises the program that reads its registers: a write *)
(* to register 0 zeroes the three samples and starts a conversion; the     *)
(* words of Z1, X and Y then appear in that order, each once and whole;    *)
(* the state register is back at 0 with the last of them.  A write during  *)
(* a conversion does nothing.  After a reset the first conversion may be   *)
(* wrong, the next one is right.                                           *)
(***************************************************************************)
EXTENDS Integers

CONSTANTS
    Word,       \* the values of a sample register
    Zero,       \* what a trigger leaves in it
    AllOnes,    \* what an empty bus reads as
    Samples     \* the words the panel may convert, per axis

Axis == {"Z", "X", "Y"}

ASSUME SamplerValues ==
    /\ Zero \in Word /\ AllOnes \in Word
    /\ Samples \in [Axis -> SUBSET Word]

VARIABLES
    phase,      \* "idle" or the axis being converted
    data,       \* the sample registers
    present,    \* whether a panel is on the bus
    dirty       \* conversions until the samples are exact again

svars == <<phase, data, present, dirty>>

After(a) == CASE a = "Z" -> "X" [] a = "X" -> "Y" [] a = "Y" -> "idle"

\* The words a conversion of axis a can deliver.
Deliverable(a) == IF dirty # 0 THEN Word
                  ELSE IF present THEN Samples[a] ELSE {AllOnes}

SInit ==
    /\ phase = "idle"
    /\ data = [a \in Axis |-> Zero]
    /\ present \in BOOLEAN
    /\ dirty = 0

\* Mutant: the registers keep the last words.
TriggerKeeps ==
    /\ phase = "idle"
    /\ phase' = "Z"
    /\ dirty' = IF dirty = 0 THEN 0 ELSE dirty - 1
    /\ UNCHANGED <<data, present>>

Trigger ==
    /\ phase = "idle"
    /\ phase' = "Z"
    /\ data' = [a \in Axis |-> Zero]
    /\ dirty' = IF dirty = 0 THEN 0 ELSE dirty - 1
    /\ UNCHANGED present

Deliver(a) ==
    /\ phase = a
    /\ phase' = After(a)
    /\ \E w \in Deliverable(a) : data' = [data EXCEPT ![a] = w]
    /\ UNCHANGED <<present, dirty>>

SReset ==
    /\ phase' = "idle"
    /\ dirty' = 2
    /\ UNCHANGED <<data, present>>

Convert == \E a \in Axis : Deliver(a)
SNext == Trigger \/ Convert \/ SReset
Sampling == SInit /\ [][SNext]_svars

\* A conversion that has begun ends, unless resets go on forever.
FairSampling == Sampling /\ WF_svars(Convert)
=============================================================================
