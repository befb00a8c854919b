----------------------------- MODULE SdmmProofs -----------------------------
(***************************************************************************)
(* Proofs about Sdmm.tla, for every sector size, every set of sectors and  *)
(* any number of cards and polls: what a call that succeeds has moved, that*)
(* no card is left in the middle of a transfer, and that FatFs holds a     *)
(* volume open only on a card the driver knows.  And about SpiPort.tla, the*)
(* port its bytes go through, for every width and every count: a transfer  *)
(* moves exactly the bits asked for, and MOSI moves only with SCK low.     *)
(***************************************************************************)
EXTENDS Sdmm, SpiPort, TLAPS

Pcs == {"idle", "CMD0", "CMD8", "CMD55", "ACMD41", "CMD1", "CMD58", "CMD16", "finish",
        "read", "block", "CMD12", "return", "erase", "ACMD23", "CMD24", "CMD25", "xmit",
        "stoptran", "CMD9", "csd", "deselect"}
InitPcs == {"CMD0", "CMD8", "CMD55", "ACMD41", "CMD1", "CMD58", "CMD16", "finish"}
Types4 == {"MMC", "SD1", "SD2", "BLOCK"}

\* The types the argument needs; those of the Boolean variables stand apart.
Types ==
    /\ pc \in Pcs /\ stage \in {"hcs", "probe", "poll"} /\ tmr \in 0..Tries
    /\ ty \subseteq Types4 /\ CardType \subseteq Types4
    /\ sector \in Nat /\ asked \in 0..MaxCount /\ count \in 0..asked
    /\ fs \in {"none", "mounted", "open"} /\ opened \in Nat
    /\ card \in [id : Nat, kind : Kinds, mode : {"native", "idle", "ready"},
                 sending : {"no", "one", "many", "takesone", "takes"}, pos : Nat]
Flags == Stat \in BOOLEAN /\ selected \in BOOLEAN /\ unstopped \in BOOLEAN

\* The driver initializes for a mounted volume and transfers for an open one.
FsInv ==
    /\ pc \in InitPcs => fs = "mounted"
    /\ pc \notin InitPcs \cup {"idle"} => fs = "open"

\* A poll that counts has one left.
PollInv ==
    /\ pc \in {"CMD55", "ACMD41", "CMD1"} /\ stage # "probe" => tmr >= 1
    /\ pc \in {"CMD8", "CMD55", "ACMD41", "CMD1", "CMD16"} => "BLOCK" \notin ty
    /\ pc = "CMD16" => stage # "hcs"
    /\ pc \in {"CMD0", "CMD8"} => ty = {}

\* The type found is that of the card: one of high capacity comes out of idle
\* only for a driver that says it knows them.
KindInv ==
    /\ pc = "CMD8" => card.mode # "ready"
    /\ pc \in {"CMD55", "ACMD41", "CMD1", "CMD16"} /\ stage # "hcs" /\ card.kind = "SDHC" =>
           card.mode # "ready"
    /\ pc = "finish" /\ ty # {} /\ card.mode # "native" =>
           ("BLOCK" \in ty <=> card.kind = "SDHC")

\* A card that answers more than CMD0 is the one the volume was opened on.
OwnInv ==
    fs = "open" /\ card.mode # "native" =>
        card.id = opened /\ ("BLOCK" \in CardType <=> card.kind = "SDHC")

\* The blocks counted.
Moved(k) == [i \in 1..k |-> <<opened, sector + i - 1>>]

Transferring == {"read", "block", "CMD12", "erase", "ACMD23", "CMD24", "CMD25", "xmit", "stoptran"}

CountInv ==
    /\ pc \in {"read", "erase", "ACMD23", "CMD24", "CMD25", "block", "xmit"} => count >= 1
    /\ pc \in {"read", "erase", "ACMD23", "CMD24", "CMD25"} => count = asked
    /\ pc \in {"CMD12", "stoptran", "erase", "ACMD23", "CMD25"} => asked > 1
    /\ pc = "CMD24" => asked = 1
    /\ pc \in {"CMD9", "csd", "deselect"} => asked = 0

BuffInv ==
    /\ pc \in Transferring => buff = Moved(asked - count)
    /\ pc = "return" /\ count = 0 => buff = Moved(asked)
    /\ pc \in {"CMD9", "csd", "deselect"} => buff = Moved(asked)
    /\ pc = "idle" /\ result = "RES_OK" => buff = Moved(asked)

\* A card in the middle of a transfer is at the block to come.
SendInv ==
    /\ pc \in {"block", "CMD12"} => card.sending \in {"no", "one", "many"}
    /\ pc \in {"xmit", "stoptran"} => card.sending \in {"no", "takesone", "takes"}
    /\ pc \in {"block", "xmit"} /\ card.sending # "no" =>
           card.id = opened /\ card.pos = sector + (asked - count)

\* A stream that goes on belongs to the transfer, or was given up.
StreamInv ==
    card.sending \in {"many", "takes"} =>
        unstopped \/ (Multi /\ pc \in {"block", "CMD12", "xmit", "stoptran"})

IInv == /\ Types /\ FsInv /\ PollInv /\ KindInv /\ OwnInv /\ CountInv /\ BuffInv /\ SendInv
        /\ StreamInv /\ OpenIsInitialized

-----------------------------------------------------------------------------
\* The card.

CardRecord == [id : Nat, kind : Kinds, mode : {"native", "idle", "ready"},
               sending : {"no", "one", "many", "takesone", "takes"}, pos : Nat]

\* CMD0 is answered by one that is idle from then on.
LEMMA GoIdleAnswer ==
    ASSUME card \in CardRecord, NEW r, send_cmd("CMD0", 0, r)
    PROVE  \/ r = "idle" /\ card' = [card EXCEPT !.mode = "idle", !.sending = "no"]
           \/ r = "none" /\ card' = card
BY DEF send_cmd, Answers

\* Commands that ask the card and leave it as it is.
LEMMA AskingAnswer ==
    ASSUME card \in CardRecord, NEW r, NEW a,
           NEW cmd \in {"CMD8", "CMD55", "CMD58", "CMD16", "ACMD23"}, send_cmd(cmd, a, r)
    PROVE  /\ card' = card
           /\ r # "none" => card.mode # "native"
           /\ cmd \in {"CMD58", "CMD16"} /\ r = "ready" => card.mode = "ready"
<1>1. CASE card.mode = "native"
  BY <1>1 DEF send_cmd, Answers, CardRecord
<1>2. CASE card.mode # "native"
  BY <1>2 DEF send_cmd, Answers, CardRecord, R1
<1> QED
  BY <1>1, <1>2

\* ACMD41 and CMD1 may take the card out of idle.
LEMMA OpCondAnswer ==
    ASSUME card \in CardRecord, NEW r, NEW a, NEW cmd \in {"ACMD41", "CMD1"}, send_cmd(cmd, a, r)
    PROVE  \/ card' = card
           \/ /\ card' = [card EXCEPT !.mode = "ready"] /\ card.mode # "native"
              /\ card.kind = "SDHC" => a = "hcs"
BY DEF send_cmd, Answers, CardRecord, Leave

\* CMD12 ends what the card sends, if it comes through.
LEMMA StopAnswer ==
    ASSUME card \in CardRecord, NEW r, send_cmd("CMD12", 0, r)
    PROVE  \/ card' = [card EXCEPT !.sending = "no"]
           \/ card' = card /\ (r # "none" => card.sending # "many")
BY DEF send_cmd, Answers, CardRecord

Sends == [CMD17 |-> "one", CMD18 |-> "many", CMD24 |-> "takesone", CMD25 |-> "takes"]

\* A read or write that is begun stands at its first block.
LEMMA DataAnswer ==
    ASSUME card \in CardRecord, NEW r, NEW a \in Nat,
           NEW cmd \in {"CMD17", "CMD18", "CMD24", "CMD25"}, send_cmd(cmd, a, r)
    PROVE  IF r = "ready"
           THEN /\ card.mode # "native" /\ card.sending \notin {"many", "takes"}
                /\ card' = [card EXCEPT !.sending = Sends[cmd],
                              !.pos = IF card.kind = "SDHC" THEN a ELSE a \div BLOCKLEN]
           ELSE card' = card
<1>1. CASE card.mode = "native" \/ card.sending \in {"many", "takes"}
  BY <1>1 DEF send_cmd, Answers, CardRecord
<1>2. CASE card.mode # "native" /\ card.sending \notin {"many", "takes"}
  <2>1. CASE r = "ready"
    <3> USE <1>2, <2>1 DEF send_cmd, Answers, CardRecord, Sends
    <3>1. CASE cmd = "CMD17"
      BY <3>1
    <3>2. CASE cmd = "CMD18"
      BY <3>2
    <3>3. CASE cmd = "CMD24"
      BY <3>3
    <3>4. CASE cmd = "CMD25"
      BY <3>4
    <3> QED
      BY <3>1, <3>2, <3>3, <3>4
  <2>2. CASE r # "ready"
    BY <1>2, <2>2 DEF send_cmd, Answers, CardRecord
  <2> QED
    BY <2>1, <2>2
<1> QED
  BY <1>1, <1>2

\* CMD9 makes it send one block, of its own.
LEMMA CsdAnswer ==
    ASSUME card \in CardRecord, NEW r, send_cmd("CMD9", 0, r)
    PROVE  \/ /\ card' = [card EXCEPT !.sending = "one"] /\ card.mode # "native"
              /\ card.sending \notin {"many", "takes"}
           \/ card' = card
BY DEF send_cmd, Answers, CardRecord

-----------------------------------------------------------------------------
\* The invariant.

LEMMA InitIInv == Init => IInv /\ Flags
<1> SUFFICES ASSUME Init
             PROVE  IInv /\ Flags
  OBVIOUS
<1>1. card \in CardRecord /\ card.mode = "native" /\ card.sending = "no"
  BY DEF Init, Fresh, CardRecord
<1>2. Types
  BY <1>1, SdSizes DEF Init, Types, CardRecord, Pcs, Types4
<1>3. FsInv /\ PollInv /\ OwnInv /\ CountInv /\ SendInv
  BY DEF Init, FsInv, PollInv, OwnInv, CountInv, SendInv, InitPcs
<1>4. KindInv /\ StreamInv
  BY <1>1 DEF Init, KindInv, StreamInv
<1>5. BuffInv /\ OpenIsInitialized
  BY DEF Init, BuffInv, OpenIsInitialized, Transferring
<1>6. Flags
  BY DEF Init, Flags
<1> QED
  BY <1>2, <1>3, <1>4, <1>5, <1>6 DEF IInv

\* Between calls and in disk_initialize, what was read or written stays.
LEMMA AwayStep ==
    ASSUME IInv, UNCHANGED <<sector, asked, count, buff, opened>>,
           pc' \in InitPcs \/ (pc' = "idle" /\ result' # "RES_OK")
    PROVE  CountInv' /\ BuffInv' /\ SendInv'
<1>1. CountInv'
  BY DEF CountInv, InitPcs
<1>2. BuffInv'
  BY DEF BuffInv, InitPcs, Transferring
<1>3. SendInv'
  BY DEF SendInv, InitPcs
<1> QED
  BY <1>1, <1>2, <1>3

\* A round of the loops that wait for the card, or the probe before them.
LEMMA PollStep ==
    ASSUME IInv, NEW r, After41(r), pc \in {"CMD55", "ACMD41", "CMD1"},
           UNCHANGED <<CardType, sector, asked, count, fs, opened, unstopped>>,
           \/ card' = card
           \/ /\ card' = [card EXCEPT !.mode = "ready"] /\ card.mode # "native"
              /\ card.kind = "SDHC" => stage = "hcs"
    PROVE  Types' /\ PollInv' /\ KindInv' /\ StreamInv'
<1>1. Types /\ PollInv /\ KindInv /\ StreamInv /\ card \in CardRecord
  BY DEF IInv, Types, CardRecord
<1>2. /\ card' \in CardRecord /\ card'.kind = card.kind /\ card'.sending = card.sending
      /\ card.kind = "SDHC" /\ stage # "hcs" => card'.mode = card.mode
  BY <1>1 DEF CardRecord
<1>3. StreamInv'
  BY <1>1, <1>2 DEF StreamInv
<1>4. CASE stage = "probe"
  <2>1. /\ stage' = "poll" /\ tmr' = Tries /\ pc' \in {"CMD55", "CMD1"}
        /\ ty' = {"SD1"} \/ ty' = {"MMC"}
    BY <1>4 DEF After41
  <2>2. Types'
    BY <1>1, <1>2, <2>1, SdSizes DEF Types, Types4, Pcs, CardRecord
  <2>3. PollInv'
    BY <2>1, SdSizes DEF PollInv
  <2>4. KindInv'
    BY <1>1, <1>2, <1>4, <2>1 DEF KindInv
  <2> QED
    BY <1>3, <2>2, <2>3, <2>4
<1>5. CASE stage # "probe" /\ r = "ready"
  <2>1. UNCHANGED <<stage, tmr, ty>> /\ pc' = (IF stage = "hcs" THEN "CMD58" ELSE "CMD16")
    BY <1>5 DEF After41, Polled, initVars
  <2>2. Types'
    BY <1>1, <1>2, <2>1 DEF Types, Pcs, CardRecord
  <2>3. PollInv' /\ KindInv'
    BY <1>1, <1>2, <2>1 DEF PollInv, KindInv
  <2> QED
    BY <1>3, <2>2, <2>3
<1>6. CASE stage # "probe" /\ r # "ready"
  <2>1. /\ stage' = stage /\ tmr' = tmr - 1
        /\ tmr = 1 => pc' = "finish" /\ ty' = {}
        /\ tmr # 1 => pc' \in {"CMD1", "CMD55"} /\ ty' = ty
    BY <1>6 DEF After41, Polled
  <2>2. tmr \in 1..Tries
    BY <1>1, <1>6, SdSizes DEF Types, PollInv
  <2>3. Types'
    BY <1>1, <1>2, <2>1, <2>2, SdSizes DEF Types, Types4, Pcs, CardRecord
  <2>4. PollInv'
    BY <1>1, <2>1, <2>2, SdSizes DEF PollInv
  <2>5. KindInv'
    BY <1>1, <1>2, <1>6, <2>1 DEF KindInv
  <2> QED
    BY <1>3, <2>3, <2>4, <2>5
<1> QED
  BY <1>4, <1>5, <1>6

LEMMA InitializingStep ==
    ASSUME IInv, disk_initialize \/ GoIdle \/ SendIfCond \/ AppCmd \/ SendOpCond \/ ReadOcr \/ SetBlockLen
    PROVE  IInv'
<1>1. Types /\ card \in CardRecord
  BY DEF IInv, Types, CardRecord
<1>2. UNCHANGED <<Stat, CardType, sector, asked, count, buff, fs, opened, result>> /\ fs = "mounted" /\ pc' \in InitPcs
  BY DEF disk_initialize, GoIdle, SendIfCond, AppCmd, SendOpCond, ReadOcr, SetBlockLen, others, readVars,
         IInv, FsInv, InitPcs, After41, Polled
<1>3. CountInv' /\ BuffInv' /\ SendInv'
  BY <1>2, AwayStep
<1>4. FsInv' /\ OwnInv' /\ OpenIsInitialized'
  BY <1>2 DEF FsInv, OwnInv, OpenIsInitialized, InitPcs
<1>5. CASE disk_initialize
  <2>1. Types' /\ PollInv' /\ KindInv'
    BY <1>1, <1>5 DEF disk_initialize, others, readVars, Types, Pcs, PollInv, KindInv
  <2>2. StreamInv'
    BY <1>5 DEF disk_initialize, others, readVars, IInv, StreamInv
  <2> QED
    BY <1>3, <1>4, <2>1, <2>2 DEF IInv
<1>6. CASE GoIdle
  <2>1. PICK r \in Responses : /\ send_cmd("CMD0", 0, r)
                              /\ pc' = (IF r = "idle" THEN "CMD8" ELSE "finish")
                              /\ unstopped' = (unstopped /\ r # "idle")
    BY <1>6, Zenon DEF GoIdle
  <2>2. pc = "CMD0" /\ UNCHANGED initVars
    BY <1>6 DEF GoIdle
  <2>3. CASE r = "idle"
    <3>1. card' = [card EXCEPT !.mode = "idle", !.sending = "no"] /\ pc' = "CMD8"
      BY <1>1, <2>1, <2>3, GoIdleAnswer
    <3>2. card' \in CardRecord /\ card'.mode = "idle" /\ card'.sending = "no"
      BY <1>1, <3>1 DEF CardRecord
    <3>3. ty' = {}
      BY <2>2 DEF IInv, PollInv, initVars
    <3>4. Types'
      BY <1>1, <1>2, <2>2, <3>1, <3>2 DEF Types, Pcs, initVars, CardRecord
    <3>5. PollInv' /\ KindInv' /\ StreamInv'
      BY <3>1, <3>2, <3>3 DEF PollInv, KindInv, StreamInv
    <3> QED
      BY <1>3, <1>4, <3>4, <3>5 DEF IInv
  <2>4. CASE r # "idle"
    <3>1. card' = card /\ pc' = "finish"
      BY <1>1, <2>1, <2>4, GoIdleAnswer
    <3>2. unstopped => unstopped'
      BY <2>1, <2>4, Zenon
    <3>3. ty' = {}
      BY <2>2 DEF IInv, PollInv, initVars
    <3>4. Types' /\ PollInv' /\ KindInv'
      BY <1>1, <1>2, <2>2, <3>1, <3>3 DEF Types, Pcs, PollInv, KindInv, initVars
    <3>5. StreamInv'
      BY <2>2, <3>1, <3>2 DEF IInv, StreamInv
    <3> QED
      BY <1>3, <1>4, <3>4, <3>5 DEF IInv
  <2> QED
    BY <2>3, <2>4
\* The other commands leave the stream alone and ask for the kind.
<1>7. CASE SendIfCond
  <2>1. PICK r \in Responses, echoed \in BOOLEAN :
           /\ send_cmd("CMD8", 0, r)
           /\ IF r = "idle" THEN /\ pc' = (IF echoed THEN "CMD55" ELSE "finish")
                                 /\ stage' = "hcs" /\ tmr' = Tries
              ELSE pc' = "CMD55" /\ stage' = "probe" /\ UNCHANGED tmr
    BY <1>7, Zenon DEF SendIfCond
  <2>2. pc = "CMD8" /\ ty' = ty /\ ty = {} /\ unstopped' = unstopped
    BY <1>7 DEF SendIfCond, others, IInv, PollInv
  <2>3. card' = card /\ card.mode # "ready"
    BY <1>1, <2>1, <2>2, AskingAnswer DEF IInv, KindInv
  <2>4. pc' \in {"CMD55", "finish"} /\ stage' \in {"hcs", "probe"} /\ tmr' \in 0..Tries
        /\ (stage' = "hcs" => tmr' >= 1)
    BY <1>1, <2>1, SdSizes DEF Types
  <2>5. Types' /\ PollInv' /\ KindInv'
    BY <1>1, <1>2, <2>2, <2>3, <2>4 DEF Types, Pcs, PollInv, KindInv
  <2>6. StreamInv'
    BY <2>2, <2>3 DEF IInv, StreamInv
  <2> QED
    BY <1>3, <1>4, <2>5, <2>6 DEF IInv
<1>8. CASE AppCmd
  <2>1. PICK r \in Responses : /\ send_cmd("CMD55", 0, r)
                              /\ IF r \in {"ready", "idle"} THEN pc' = "ACMD41" /\ UNCHANGED initVars
                                                            ELSE After41(r)
    BY <1>8, Zenon DEF AppCmd
  <2>2. pc = "CMD55" /\ unstopped' = unstopped /\ card' = card
    BY <1>1, <1>8, <2>1, AskingAnswer DEF AppCmd, others
  <2>3. CASE r \in {"ready", "idle"}
    <3>1. pc' = "ACMD41" /\ UNCHANGED <<stage, tmr, ty>>
      BY <2>1, <2>3 DEF initVars
    <3>2. Types' /\ PollInv' /\ KindInv'
      BY <1>1, <1>2, <2>2, <3>1 DEF Types, Pcs, IInv, PollInv, KindInv
    <3>3. StreamInv'
      BY <2>2 DEF IInv, StreamInv
    <3> QED
      BY <1>3, <1>4, <3>2, <3>3 DEF IInv
  <2>4. CASE r \notin {"ready", "idle"}
    <3>1. Types' /\ PollInv' /\ KindInv' /\ StreamInv'
      BY <1>2, <2>1, <2>2, <2>4, PollStep
    <3> QED
      BY <1>3, <1>4, <3>1 DEF IInv
  <2> QED
    BY <2>3, <2>4
<1>9. CASE SendOpCond
  <2>1. PICK r \in Responses : send_cmd(pc, stage, r) /\ After41(r)
    BY <1>9, Zenon DEF SendOpCond
  <2>2. pc \in {"ACMD41", "CMD1"} /\ unstopped' = unstopped
    BY <1>9 DEF SendOpCond, others
  <2>3. \/ card' = card
        \/ /\ card' = [card EXCEPT !.mode = "ready"] /\ card.mode # "native"
           /\ card.kind = "SDHC" => stage = "hcs"
    BY <1>1, <2>1, <2>2, OpCondAnswer, Zenon
  <2>4. Types' /\ PollInv' /\ KindInv' /\ StreamInv'
    BY <1>2, <2>1, <2>2, <2>3, PollStep
  <2> QED
    BY <1>3, <1>4, <2>4 DEF IInv
<1>10. CASE ReadOcr
  <2>1. PICK r \in Responses :
           /\ send_cmd("CMD58", 0, r)
           /\ ty' = IF r # "ready" THEN {}
                    ELSE IF card.kind = "SDHC" THEN {"SD2", "BLOCK"} ELSE {"SD2"}
    BY <1>10, Zenon DEF ReadOcr
  <2>2. pc = "CMD58" /\ pc' = "finish" /\ UNCHANGED <<stage, tmr, unstopped>> /\ card' = card
    BY <1>1, <1>10, <2>1, AskingAnswer DEF ReadOcr, others
  <2>3. Types' /\ PollInv'
    BY <1>1, <1>2, <2>1, <2>2 DEF Types, Types4, Pcs, PollInv
  <2>4. KindInv'
    BY <2>1, <2>2 DEF KindInv
  <2>5. StreamInv'
    BY <2>2 DEF IInv, StreamInv
  <2> QED
    BY <1>3, <1>4, <2>3, <2>4, <2>5 DEF IInv
<1>11. CASE SetBlockLen
  <2>1. PICK r \in Responses : /\ send_cmd("CMD16", BLOCKLEN, r)
                              /\ ty' = (IF r = "ready" THEN ty ELSE {})
    BY <1>11, Zenon DEF SetBlockLen
  <2>2. /\ pc = "CMD16" /\ pc' = "finish" /\ UNCHANGED <<stage, tmr, unstopped>> /\ card' = card
        /\ r = "ready" => card.mode = "ready"
    BY <1>1, <1>11, <2>1, AskingAnswer DEF SetBlockLen, others
  <2>3. Types' /\ PollInv'
    BY <1>1, <1>2, <2>1, <2>2 DEF Types, Types4, Pcs, PollInv
  <2>4. KindInv'
    BY <2>1, <2>2 DEF IInv, PollInv, KindInv
  <2>5. StreamInv'
    BY <2>2 DEF IInv, StreamInv
  <2> QED
    BY <1>3, <1>4, <2>3, <2>4, <2>5 DEF IInv
<1> QED
  BY <1>5, <1>6, <1>7, <1>8, <1>9, <1>10, <1>11

\* The end of disk_initialize: the volume is open on the card that was found.
LEMMA FinishStep ==
    ASSUME IInv, Finish
    PROVE  IInv'
<1>1. /\ pc = "finish" /\ pc' = "idle" /\ CardType' = ty /\ Stat' = (ty = {}) /\ result' = "none"
      /\ UNCHANGED <<stage, tmr, ty, sector, asked, count, buff, card, unstopped>>
  BY DEF Finish, initVars, readVars
<1>2. Types /\ fs = "mounted"
  BY <1>1 DEF IInv, FsInv, InitPcs
<1>3. PollInv' /\ KindInv' /\ CountInv' /\ BuffInv' /\ SendInv' /\ FsInv'
  BY <1>1 DEF PollInv, KindInv, CountInv, BuffInv, SendInv, FsInv, Transferring, InitPcs
<1>4. StreamInv'
  BY <1>1 DEF IInv, StreamInv
<1>5. CASE ty = {}
  <2>1. UNCHANGED <<fs, opened>>
    BY <1>5 DEF Finish
  <2> QED
    BY <1>1, <1>2, <1>3, <1>4, <2>1 DEF IInv, Types, Pcs, OwnInv, OpenIsInitialized
<1>6. CASE ty # {}
  <2>1. fs' = "open" /\ opened' = card.id
    BY <1>6 DEF Finish
  <2>2. Types'
    BY <1>1, <1>2, <2>1 DEF Types, Pcs
  <2>3. OwnInv'
    BY <1>1, <1>6, <2>1 DEF IInv, KindInv, OwnInv
  <2>4. OpenIsInitialized'
    BY <1>1, <1>6, <2>1 DEF OpenIsInitialized
  <2> QED
    BY <1>3, <1>4, <2>2, <2>3, <2>4 DEF IInv
<1> QED
  BY <1>5, <1>6

CallPcs == Pcs \ InitPcs

\* In a call for an open volume, what the volume rests on stays.
LEMMA CallStep ==
    ASSUME IInv, UNCHANGED readKeeps, fs = "open", pc' \in CallPcs,
           card' \in CardRecord, card'.id = card.id, card'.kind = card.kind, card'.mode = card.mode
    PROVE  FsInv' /\ PollInv' /\ KindInv' /\ OwnInv' /\ OpenIsInitialized'
<1>1. UNCHANGED <<Stat, CardType, stage, tmr, ty, fs, opened>>
  BY DEF readKeeps, initVars
<1>2. FsInv' /\ PollInv' /\ KindInv'
  BY <1>1 DEF FsInv, PollInv, KindInv, CallPcs, InitPcs, Pcs
<1>3. OwnInv'
  BY <1>1 DEF IInv, OwnInv
<1>4. OpenIsInitialized'
  BY <1>1 DEF IInv, OpenIsInitialized
<1> QED
  BY <1>2, <1>3, <1>4

\* No block yet, and one more.
LEMMA NoneMoved == Moved(0) = <<>>
BY DEF Moved

LEMMA OneMoved ==
    ASSUME NEW k \in Nat, sector \in Nat
    PROVE  Append(Moved(k), <<opened, sector + k>>) = Moved(k + 1)
BY DEF Moved

\* The calls begin.
LEMMA BeginStep ==
    ASSUME IInv, disk_read \/ disk_write \/ disk_ioctl
    PROVE  IInv'
<1>1. /\ pc = "idle" /\ fs = "open" /\ UNCHANGED <<card, unstopped>> /\ UNCHANGED readKeeps
      /\ sector' \in Sectors \cup {sector} /\ asked' \in 0..MaxCount /\ count' = asked' /\ buff' = <<>>
  BY SdSizes DEF disk_read, disk_write, disk_ioctl
<1>2. Types /\ card \in CardRecord /\ ~Stat
  BY <1>1 DEF IInv, Types, CardRecord, OpenIsInitialized
<1>3. \/ pc' = "read" /\ asked' >= 1
      \/ pc' = "CMD24" /\ asked' = 1
      \/ pc' \in {"erase", "CMD25"} /\ asked' > 1
      \/ pc' \in {"CMD9", "deselect"} /\ asked' = 0
  <2>1. CASE disk_read
    BY <1>2, <2>1, SdSizes DEF disk_read
  <2>2. CASE disk_write
    BY <1>2, <2>2, SdSizes DEF disk_write
  <2>3. CASE disk_ioctl
    BY <1>2, <2>3 DEF disk_ioctl
  <2> QED
    BY <2>1, <2>2, <2>3
<1>4. pc' \in CallPcs
  BY <1>3 DEF CallPcs, Pcs, InitPcs
<1>5. FsInv' /\ PollInv' /\ KindInv' /\ OwnInv' /\ OpenIsInitialized'
  BY <1>1, <1>2, <1>4, CallStep
<1>6. Types'
  BY <1>1, <1>2, <1>4, SdSizes DEF Types, CallPcs, readKeeps, initVars
<1>7. CountInv'
  BY <1>1, <1>3, SdSizes DEF CountInv
<1>8. BuffInv'
  <2>1. PICK n \in 0..MaxCount : asked' = n /\ count' = n
    BY <1>1, Zenon
  <2>2. n - n = 0
    BY SdSizes
  <2>3. [i \in 1..0 |-> <<opened', sector' + i - 1>>] = <<>>
    OBVIOUS
  <2>4. Moved(asked - count)' = <<>> /\ (asked' = 0 => Moved(asked)' = <<>>)
    BY <2>1, <2>2, <2>3, Zenon DEF Moved
  <2> QED
    BY <1>1, <1>3, <2>4 DEF BuffInv
<1>9. SendInv' /\ StreamInv'
  BY <1>1, <1>3 DEF IInv, SendInv, StreamInv
<1> QED
  BY <1>5, <1>6, <1>7, <1>8, <1>9 DEF IInv

\* The sector, in the units of the card that answers.
LEMMA AddressOfSector ==
    ASSUME Types, OwnInv, fs = "open", card.mode # "native"
    PROVE  /\ Address \in Nat
           /\ (IF card.kind = "SDHC" THEN Address ELSE Address \div BLOCKLEN) = sector
<1>1. sector \in Nat /\ BLOCKLEN \in Nat \ {0}
  BY SdSizes DEF Types
<1>2. sector * BLOCKLEN \in Nat /\ (sector * BLOCKLEN) \div BLOCKLEN = sector
  BY <1>1
<1>3. "BLOCK" \in CardType <=> card.kind = "SDHC"
  BY DEF OwnInv
<1> QED
  BY <1>1, <1>2, <1>3 DEF Address

\* The command of a read or write.
LEMMA CommandStep ==
    ASSUME IInv, ReadCmd \/ WriteCmd
    PROVE  IInv'
<1>1. Types /\ OwnInv /\ card \in CardRecord /\ fs = "open"
  BY DEF IInv, Types, CardRecord, ReadCmd, WriteCmd, FsInv, InitPcs
<1>2. /\ UNCHANGED readKeeps
      /\ UNCHANGED <<sector, asked, count, buff, result, unstopped>>
  BY DEF ReadCmd, WriteCmd, readVars
<1>3. PICK cmd \in {"CMD17", "CMD18", "CMD24", "CMD25"}, r \in Responses :
         /\ send_cmd(cmd, Address, r)
         /\ r # "ready" => pc' = "return"
         /\ r = "ready" => pc' = IF cmd \in {"CMD17", "CMD18"} THEN "block" ELSE "xmit"
         /\ cmd \in {"CMD18", "CMD25"} <=> Multi
         /\ pc \in {"read", "CMD24", "CMD25"}
  <2>1. CASE ReadCmd
    BY <2>1 DEF ReadCmd
  <2>2. CASE WriteCmd
    BY <2>2 DEF WriteCmd, IInv, CountInv, Multi
  <2> QED
    BY <2>1, <2>2
<1>4. count = asked /\ asked \in Nat \ {0} /\ sector \in Nat /\ asked - count = 0
  BY <1>1, <1>3, SdSizes DEF IInv, CountInv, Types
<1>5. buff = Moved(asked - count)
  BY <1>3 DEF IInv, BuffInv, Transferring
<1>6. Address \in Nat
  BY <1>1, SdSizes DEF Types, Address
<1>7. CASE r = "ready"
  <2>1. /\ card.mode # "native" /\ card.sending \notin {"many", "takes"}
        /\ card' = [card EXCEPT !.sending = Sends[cmd],
                      !.pos = IF card.kind = "SDHC" THEN Address ELSE Address \div BLOCKLEN]
    BY <1>1, <1>3, <1>6, <1>7, DataAnswer
  <2>2. card' = [card EXCEPT !.sending = Sends[cmd], !.pos = sector]
    BY <1>1, <2>1, AddressOfSector
  <2>3. /\ card' \in CardRecord /\ card'.id = card.id /\ card'.kind = card.kind
        /\ card'.mode = card.mode /\ card'.sending = Sends[cmd] /\ card'.pos = sector
    <3>1. Sends[cmd] \in {"one", "many", "takesone", "takes"}
      BY DEF Sends
    <3> QED
      BY <1>1, <1>4, <2>2, <3>1 DEF CardRecord
  <2>4. pc' = (IF cmd \in {"CMD17", "CMD18"} THEN "block" ELSE "xmit") /\ pc' \in CallPcs
    BY <1>3, <1>7 DEF CallPcs, Pcs, InitPcs
  <2>5. FsInv' /\ PollInv' /\ KindInv' /\ OwnInv' /\ OpenIsInitialized'
    BY <1>1, <1>2, <2>3, <2>4, CallStep
  <2>6. Types'
    BY <1>1, <1>2, <2>3, <2>4 DEF Types, CallPcs, CardRecord, readKeeps, initVars
  <2>7. CountInv'
    BY <1>2, <1>4, <2>4 DEF CountInv
  <2>8. BuffInv'
    BY <1>2, <1>5, <2>4 DEF BuffInv, Moved, readKeeps
  <2>9. SendInv'
    <3>1. card.id = opened /\ opened' = opened /\ sector' + (asked' - count') = sector
      BY <1>1, <1>2, <1>4, <2>1 DEF OwnInv, readKeeps
    <3>2. pc' = "block" => card'.sending \in {"one", "many"}
      BY <2>3, <2>4 DEF Sends
    <3>3. pc' = "xmit" => card'.sending \in {"takesone", "takes"}
      BY <2>3, <2>4 DEF Sends
    <3> QED
      BY <2>3, <2>4, <3>1, <3>2, <3>3 DEF SendInv
  <2>10. StreamInv'
    <3>1. card'.sending \in {"many", "takes"} => Multi'
      BY <1>2, <1>3, <2>3 DEF Sends, Multi
    <3> QED
      BY <2>4, <3>1 DEF StreamInv
  <2> QED
    BY <2>5, <2>6, <2>7, <2>8, <2>9, <2>10 DEF IInv
<1>8. CASE r # "ready"
  <2>1. card' = card /\ pc' = "return"
    <3>1. send_cmd(cmd, Address, r) /\ pc' = "return"
      BY <1>3, <1>8, Zenon
    <3>2. card' = card
      <4>1. IF r = "ready"
            THEN /\ card.mode # "native" /\ card.sending \notin {"many", "takes"}
                 /\ card' = [card EXCEPT !.sending = Sends[cmd],
                               !.pos = IF card.kind = "SDHC" THEN Address ELSE Address \div BLOCKLEN]
            ELSE card' = card
        BY <1>1, <1>6, <3>1, DataAnswer
      <4> QED
        BY <1>8, <4>1
    <3> QED
      BY <3>1, <3>2
  <2>2. pc' \in CallPcs
    BY <2>1 DEF CallPcs, Pcs, InitPcs
  <2>3. FsInv' /\ PollInv' /\ KindInv' /\ OwnInv' /\ OpenIsInitialized'
    BY <1>1, <1>2, <2>1, <2>2, CallStep
  <2>4. Types' /\ CountInv' /\ SendInv'
    BY <1>1, <1>2, <2>1, <2>2 DEF Types, CallPcs, CountInv, SendInv, readKeeps, initVars
  <2>5. BuffInv'
    BY <1>2, <1>4, <2>1 DEF BuffInv, Transferring
  <2>6. StreamInv'
    BY <1>2, <1>3, <2>1 DEF IInv, StreamInv
  <2> QED
    BY <2>3, <2>4, <2>5, <2>6 DEF IInv
<1> QED
  BY <1>7, <1>8

\* A block comes, or is taken.
LEMMA BlockStep ==
    ASSUME IInv, BlockComes \/ BlockTaken
    PROVE  IInv'
<1>1. Types /\ card \in CardRecord /\ fs = "open"
  BY DEF IInv, Types, CardRecord, BlockComes, BlockTaken, FsInv, InitPcs
<1>2. /\ UNCHANGED readKeeps /\ UNCHANGED <<sector, asked, result, unstopped>>
      /\ buff' = Append(buff, <<card.id, card.pos>>) /\ count' = count - 1
      /\ pc \in {"block", "xmit"} /\ card.sending # "no"
  BY DEF BlockComes, BlockTaken
<1>3. \/ card' = [card EXCEPT !.sending = "no"]
      \/ card' = [card EXCEPT !.pos = @ + 1] /\ card.sending \in {"many", "takes"}
  BY DEF BlockComes, BlockTaken
<1>4. /\ sector \in Nat /\ asked \in Nat /\ count \in Nat /\ count >= 1 /\ count <= asked
      /\ count' \in Nat /\ (asked - count) \in Nat /\ asked - count' = (asked - count) + 1
  BY <1>1, <1>2, SdSizes DEF IInv, Types, CountInv
<1>5. card.id = opened /\ card.pos = sector + (asked - count) /\ buff = Moved(asked - count)
  BY <1>2 DEF IInv, SendInv, BuffInv, Transferring
<1>6. buff' = Moved((asked - count) + 1)
  BY <1>2, <1>4, <1>5, OneMoved
<1>7. buff' = Moved(asked - count)' /\ (count' = 0 => buff' = Moved(asked)')
  <2>1. Moved((asked - count) + 1) = Moved(asked - count')
    BY <1>4
  <2>2. buff' = Moved(asked - count)'
    BY <1>2, <1>6, <2>1 DEF Moved, readKeeps
  <2>3. count' = 0 => asked - count' = asked
    BY <1>4
  <2> QED
    BY <1>2, <1>6, <2>1, <2>2, <2>3 DEF Moved, readKeeps
<1>8. /\ card' \in CardRecord /\ card'.id = card.id /\ card'.kind = card.kind
      /\ card'.mode = card.mode
      /\ \/ card'.sending = "no"
         \/ card'.sending = card.sending /\ card'.pos = card.pos + 1 /\ card.sending \in {"many", "takes"}
  <2>1. card.pos + 1 \in Nat
    BY <1>1 DEF CardRecord
  <2> QED
    BY <1>1, <1>3, <2>1 DEF CardRecord
<1>9. /\ pc = "block" => pc' = IF count' > 0 THEN "block" ELSE IF Multi THEN "CMD12" ELSE "return"
      /\ pc = "xmit" => pc' = IF ~Multi THEN "return" ELSE IF count' > 0 THEN "xmit" ELSE "stoptran"
  BY DEF BlockComes, BlockTaken
<1>10. pc' \in {"block", "CMD12", "return", "xmit", "stoptran"} /\ pc' \in CallPcs
  BY <1>2, <1>9 DEF CallPcs, Pcs, InitPcs
<1>11. FsInv' /\ PollInv' /\ KindInv' /\ OwnInv' /\ OpenIsInitialized'
  BY <1>1, <1>2, <1>8, <1>10, CallStep
<1>12. Types'
  BY <1>1, <1>2, <1>4, <1>8, <1>10 DEF Types, CallPcs, CardRecord, readKeeps, initVars
<1>13. CountInv'
  BY <1>2, <1>4, <1>9, <1>10 DEF CountInv, Multi
<1>14. BuffInv'
  BY <1>7, <1>10 DEF BuffInv
<1>15. SendInv'
  <2>1. card'.sending # "no" => card'.id = opened' /\ card'.pos = sector' + (asked' - count')
    <3>1. sector + (asked - count') = (sector + (asked - count)) + 1
      <4>1. sector + (asked - count') = sector + ((asked - count) + 1)
        BY <1>4, Zenon
      <4>2. sector + ((asked - count) + 1) = (sector + (asked - count)) + 1
        BY <1>4
      <4> QED
        BY <4>1, <4>2, Zenon
    <3>2. UNCHANGED <<opened, sector, asked>>
      BY <1>2 DEF readKeeps
    <3>3. card'.sending # "no" => card'.id = card.id /\ card'.pos = (sector + (asked - count)) + 1
      BY <1>5, <1>8, Zenon
    <3> QED
      BY <1>5, <3>1, <3>2, <3>3, Zenon
  <2> QED
    BY <1>2, <1>8, <1>9, <1>10, <2>1 DEF IInv, SendInv
<1>16. StreamInv'
  <2>1. Multi' = Multi
    BY <1>2 DEF Multi
  <2> QED
    BY <1>2, <1>8, <1>9, <2>1 DEF IInv, StreamInv
<1> QED
  BY <1>11, <1>12, <1>13, <1>14, <1>15, <1>16 DEF IInv

\* A block does not come, or is refused.
LEMMA FailStep ==
    ASSUME IInv, BlockFails \/ BlockRefused
    PROVE  IInv'
<1>1. Types /\ card \in CardRecord /\ fs = "open"
  BY DEF IInv, Types, CardRecord, BlockFails, BlockRefused, FsInv, InitPcs
<1>2. /\ UNCHANGED readKeeps /\ UNCHANGED <<sector, asked, count, buff, result, unstopped>>
      /\ card' \in {card, [card EXCEPT !.sending = "no"]}
      /\ pc \in {"block", "xmit"}
      /\ pc = "block" => pc' = IF Multi THEN "CMD12" ELSE "return"
      /\ pc = "xmit" => pc' = IF Multi THEN "stoptran" ELSE "return"
  BY DEF BlockFails, BlockRefused, readVars
<1>3. /\ card' \in CardRecord /\ card'.id = card.id /\ card'.kind = card.kind
      /\ card'.mode = card.mode /\ card'.sending \in {"no", card.sending}
  BY <1>1, <1>2 DEF CardRecord
<1>4. count >= 1 /\ count' = count /\ asked' = asked
  BY <1>2 DEF IInv, CountInv
<1>5. pc' \in {"CMD12", "return", "stoptran"} /\ pc' \in CallPcs
  BY <1>2 DEF CallPcs, Pcs, InitPcs
<1>6. FsInv' /\ PollInv' /\ KindInv' /\ OwnInv' /\ OpenIsInitialized'
  BY <1>1, <1>2, <1>3, <1>5, CallStep
<1>7. Types'
  BY <1>1, <1>2, <1>3, <1>5 DEF Types, CallPcs, CardRecord, readKeeps, initVars
<1>8. CountInv'
  BY <1>2, <1>5 DEF CountInv, Multi
<1>9. BuffInv'
  <2>1. buff = Moved(asked - count)
    BY <1>2 DEF IInv, BuffInv, Transferring
  <2>2. buff' = Moved(asked - count)'
    BY <1>2, <2>1 DEF Moved, readKeeps
  <2>3. count' # 0
    BY <1>1, <1>4, SdSizes DEF Types
  <2> QED
    BY <1>5, <2>2, <2>3 DEF BuffInv
<1>10. SendInv' /\ StreamInv'
  BY <1>2, <1>3, <1>5 DEF IInv, SendInv, StreamInv, Multi
<1> QED
  BY <1>6, <1>7, <1>8, <1>9, <1>10 DEF IInv

\* The hint before a multiple write.
LEMMA PreEraseStep ==
    ASSUME IInv, PreErase
    PROVE  IInv'
<1>1. Types /\ card \in CardRecord /\ fs = "open"
  BY DEF IInv, Types, CardRecord, PreErase, FsInv, InitPcs
<1>2. UNCHANGED readKeeps /\ UNCHANGED <<sector, asked, count, buff, result, unstopped>>
  BY DEF PreErase, readVars
<1>3. pc \in {"erase", "ACMD23"} /\ pc' \in {"ACMD23", "CMD25"} /\ card' = card
  <2>1. CASE pc = "erase"
    <3>1. \E r \in Responses : /\ send_cmd("CMD55", 0, r)
                               /\ pc' = IF r \in {"ready", "idle"} THEN "ACMD23" ELSE "CMD25"
      BY <2>1 DEF PreErase
    <3> QED
      BY <1>1, <2>1, <3>1, AskingAnswer
  <2>2. CASE pc # "erase"
    <3>1. /\ pc = "ACMD23" /\ pc' = "CMD25"
          /\ \E r \in Responses : send_cmd("ACMD23", count, r)
      BY <2>2 DEF PreErase
    <3> QED
      BY <1>1, <3>1, AskingAnswer
  <2> QED
    BY <2>1, <2>2
<1>4. pc' \in CallPcs
  BY <1>3 DEF CallPcs, Pcs, InitPcs
<1>5. FsInv' /\ PollInv' /\ KindInv' /\ OwnInv' /\ OpenIsInitialized'
  BY <1>1, <1>2, <1>3, <1>4, CallStep
<1>6. Types'
  BY <1>1, <1>2, <1>3, <1>4 DEF Types, CallPcs, readKeeps, initVars
<1>7. CountInv' /\ SendInv'
  BY <1>2, <1>3 DEF IInv, CountInv, SendInv
<1>8. BuffInv'
  BY <1>2, <1>3 DEF IInv, BuffInv, Transferring, Moved, readKeeps
<1>9. StreamInv'
  BY <1>2, <1>3 DEF IInv, StreamInv
<1> QED
  BY <1>5, <1>6, <1>7, <1>8, <1>9 DEF IInv

\* The end of a multiple transfer.
LEMMA StopStep ==
    ASSUME IInv, StopTransmission \/ StopTran
    PROVE  IInv'
<1>1. Types /\ card \in CardRecord /\ fs = "open"
  BY DEF IInv, Types, CardRecord, StopTransmission, StopTran, FsInv, InitPcs
<1>2. UNCHANGED readKeeps /\ UNCHANGED <<sector, asked, buff, result>> /\ pc' = "return"
  BY DEF StopTransmission, StopTran, readVars
<1>3. asked \in Nat /\ count \in Nat /\ count <= asked /\ asked > 1
  BY <1>1, SdSizes DEF IInv, Types, CountInv, StopTransmission, StopTran
<1>4. /\ card' \in {card, [card EXCEPT !.sending = "no"]} /\ count' \in {count, 1}
      /\ card'.sending \in {"many", "takes"} => unstopped'
  <2>1. CASE StopTransmission
    <3>1. PICK r \in Responses : send_cmd("CMD12", 0, r) /\ unstopped' = (r = "none")
      BY <2>1, Zenon DEF StopTransmission
    <3>2. pc = "CMD12" /\ count' = count
      BY <2>1 DEF StopTransmission, readVars
    <3>3. card.sending \in {"no", "one", "many"}
      BY <3>2 DEF IInv, SendInv
    <3>4. \/ card' = [card EXCEPT !.sending = "no"]
          \/ card' = card /\ (r # "none" => card.sending # "many")
      BY <1>1, <3>1, StopAnswer
    <3>5. CASE card' = [card EXCEPT !.sending = "no"]
      BY <1>1, <3>2, <3>5 DEF CardRecord
    <3>6. CASE card' = card /\ (r # "none" => card.sending # "many")
      BY <3>1, <3>2, <3>3, <3>6
    <3> QED
      BY <3>4, <3>5, <3>6
  <2>2. CASE StopTran
    <3>1. PICK done \in BOOLEAN :
             /\ card' = IF done /\ card.sending = "takes" THEN [card EXCEPT !.sending = "no"] ELSE card
             /\ count' = IF done THEN count ELSE 1
             /\ unstopped' = (unstopped \/ ~done)
      BY <2>2, Zenon DEF StopTran
    <3>2. card.sending \in {"no", "takesone", "takes"}
      BY <2>2 DEF IInv, SendInv, StopTran
    <3>3. CASE done
      BY <1>1, <3>1, <3>2, <3>3 DEF CardRecord
    <3>4. CASE ~done
      <4>1. card' = card /\ count' = 1 /\ unstopped'
        BY <3>1, <3>4, Zenon
      <4> QED
        BY <4>1
    <3> QED
      BY <3>3, <3>4
  <2> QED
    BY <2>1, <2>2
<1>5. /\ card' \in CardRecord /\ card'.id = card.id /\ card'.kind = card.kind
      /\ card'.mode = card.mode
  BY <1>1, <1>4 DEF CardRecord
<1>6. pc' \in CallPcs
  BY <1>2 DEF CallPcs, Pcs, InitPcs
<1>7. FsInv' /\ PollInv' /\ KindInv' /\ OwnInv' /\ OpenIsInitialized'
  BY <1>1, <1>2, <1>5, <1>6, CallStep
<1>8. Types'
  <2>1. count' \in 0..asked
    BY <1>3, <1>4
  <2> QED
    BY <1>1, <1>2, <1>5, <1>6, <2>1 DEF Types, CallPcs, CardRecord, readKeeps, initVars
<1>9. CountInv' /\ SendInv'
  BY <1>2 DEF CountInv, SendInv
<1>10. BuffInv'
  <2>1. buff = Moved(asked - count)
    BY DEF IInv, BuffInv, Transferring, StopTransmission, StopTran
  <2>2. ASSUME count' = 0 PROVE buff' = Moved(asked)'
    <3>1. count = 0 /\ asked - count = asked
      BY <1>3, <1>4, <2>2
    <3> QED
      BY <1>2, <2>1, <3>1 DEF Moved, readKeeps
  <2> QED
    BY <1>2, <2>2 DEF BuffInv, Transferring
<1>11. StreamInv'
  BY <1>4 DEF StreamInv
<1> QED
  BY <1>7, <1>8, <1>9, <1>10, <1>11 DEF IInv

\* The rest of disk_ioctl, and the ends of the calls.
LEMMA ReturnStep ==
    ASSUME IInv, SendCsd \/ IoctlReturn \/ ReadReturn
    PROVE  IInv'
<1>1. Types /\ card \in CardRecord /\ fs = "open"
  BY DEF IInv, Types, CardRecord, SendCsd, IoctlReturn, ReadReturn, FsInv, InitPcs
<1>2. UNCHANGED readKeeps /\ UNCHANGED <<sector, asked, count, buff, unstopped>>
  BY DEF SendCsd, IoctlReturn, ReadReturn, readVars
<1>3. /\ card' \in CardRecord /\ card'.id = card.id /\ card'.kind = card.kind
      /\ card'.mode = card.mode
      /\ card'.sending \in {card.sending, "no", "one"}
  <2>1. CASE IoctlReturn \/ ReadReturn
    BY <1>1, <2>1 DEF IoctlReturn, ReadReturn
  <2>2. CASE SendCsd
    <3>1. card' \in {card, [card EXCEPT !.sending = "one"], [card EXCEPT !.sending = "no"]}
      <4>1. CASE pc = "CMD9"
        <5>1. \E r \in Responses : send_cmd("CMD9", 0, r)
          BY <2>2, <4>1 DEF SendCsd
        <5> QED
          BY <1>1, <5>1, CsdAnswer
      <4>2. CASE pc # "CMD9"
        BY <2>2, <4>2 DEF SendCsd
      <4> QED
        BY <4>1, <4>2
    <3> QED
      BY <1>1, <3>1 DEF CardRecord
  <2> QED
    BY <2>1, <2>2
<1>4. \/ pc \in {"CMD9", "csd"} /\ pc' \in {"csd", "deselect"}
      \/ pc = "deselect" /\ pc' = "idle" /\ result' = result
      \/ pc = "return" /\ pc' = "idle" /\ (result' = "RES_OK" => ~(count > 0))
  <2>1. CASE SendCsd
    BY <2>1 DEF SendCsd
  <2>2. CASE IoctlReturn \/ ReadReturn
    BY <2>2 DEF IoctlReturn, ReadReturn
  <2> QED
    BY <2>1, <2>2
<1>5. pc' \in CallPcs
  BY <1>4 DEF CallPcs, Pcs, InitPcs
<1>6. FsInv' /\ PollInv' /\ KindInv' /\ OwnInv' /\ OpenIsInitialized'
  BY <1>1, <1>2, <1>3, <1>5, CallStep
<1>7. Types'
  BY <1>1, <1>2, <1>3, <1>5 DEF Types, CallPcs, CardRecord, readKeeps, initVars
<1>8. CountInv' /\ SendInv'
  BY <1>2, <1>4 DEF IInv, CountInv, SendInv
<1>9. BuffInv'
  <2>1. Moved(asked)' = Moved(asked)
    BY <1>2 DEF Moved, readKeeps
  <2>2. CASE pc \in {"CMD9", "csd"} /\ pc' \in {"csd", "deselect"}
    BY <1>2, <2>1, <2>2 DEF IInv, BuffInv, Transferring
  <2>3. CASE pc = "deselect" /\ pc' = "idle"
    BY <1>2, <2>1, <2>3 DEF IInv, BuffInv, Transferring
  <2>4. CASE pc = "return" /\ pc' = "idle" /\ (result' = "RES_OK" => ~(count > 0))
    <3>1. ~(count > 0) => count = 0
      BY <1>1, SdSizes DEF Types
    <3> QED
      BY <1>2, <2>1, <2>4, <3>1 DEF IInv, BuffInv, Transferring
  <2> QED
    BY <1>4, <2>2, <2>3, <2>4
<1>10. StreamInv'
  BY <1>2, <1>3, <1>4 DEF IInv, StreamInv
<1> QED
  BY <1>6, <1>7, <1>8, <1>9, <1>10 DEF IInv

\* The monitor, a reset and the user.
LEMMA WorldStep ==
    ASSUME IInv, Mount \/ Restart \/ Swap
    PROVE  IInv'
<1>1. Types /\ card \in CardRecord
  BY DEF IInv, Types, CardRecord
<1>2. CASE Mount
  <2>1. /\ pc = "idle" /\ fs' = "mounted" /\ result' = "none"
        /\ UNCHANGED <<pc, stage, tmr, ty, CardType, sector, asked, count, buff, card, opened, unstopped>>
    BY <1>2 DEF Mount, driverVars
  <2>2. Types' /\ FsInv' /\ PollInv' /\ KindInv' /\ OwnInv' /\ OpenIsInitialized'
    BY <1>1, <2>1 DEF Types, FsInv, PollInv, KindInv, OwnInv, OpenIsInitialized, InitPcs
  <2>3. CountInv' /\ BuffInv' /\ SendInv' /\ StreamInv'
    BY <2>1 DEF IInv, CountInv, BuffInv, SendInv, StreamInv, Transferring
  <2> QED
    BY <2>2, <2>3 DEF IInv
<1>3. CASE Restart
  <2>1. /\ pc' = "idle" /\ CardType' = {} /\ fs' = "none" /\ result' = "none"
        /\ UNCHANGED <<stage, tmr, ty, sector, asked, count, buff, card, opened>>
    BY <1>3 DEF Restart, initVars, readVars
  <2>2. Types' /\ FsInv' /\ PollInv' /\ KindInv' /\ OwnInv' /\ OpenIsInitialized'
    BY <1>1, <2>1 DEF Types, Pcs, FsInv, PollInv, KindInv, OwnInv, OpenIsInitialized, InitPcs
  <2>3. CountInv' /\ BuffInv' /\ SendInv'
    BY <2>1 DEF CountInv, BuffInv, SendInv, Transferring
  <2>4. card.sending \in {"many", "takes"} => unstopped'
    BY <1>3, Zenon DEF Restart
  <2>5. StreamInv'
    BY <2>1, <2>4 DEF StreamInv
  <2> QED
    BY <2>2, <2>3, <2>5 DEF IInv
<1>4. CASE Swap
  <2>1. /\ UNCHANGED <<Stat, CardType, pc, stage, tmr, ty, sector, asked, count, buff, fs, opened, result>>
        /\ \E kind \in Kinds : card' = Fresh(card.id + 1, kind)
    BY <1>4 DEF Swap, driverVars
  <2>2. card' \in CardRecord /\ card'.mode = "native" /\ card'.sending = "no"
    BY <1>1, <2>1 DEF Fresh, CardRecord
  <2>3. Types' /\ FsInv' /\ PollInv' /\ KindInv'
    BY <1>1, <2>1, <2>2 DEF Types, CardRecord, IInv, FsInv, PollInv, KindInv
  <2>4. OwnInv' /\ SendInv' /\ StreamInv'
    BY <2>2 DEF OwnInv, SendInv, StreamInv
  <2>5. CountInv' /\ BuffInv' /\ OpenIsInitialized'
    BY <2>1 DEF IInv, CountInv, BuffInv, OpenIsInitialized, Moved
  <2> QED
    BY <2>3, <2>4, <2>5 DEF IInv
<1> QED
  BY <1>2, <1>3, <1>4

LEMMA StutterStep ==
    ASSUME IInv, UNCHANGED vars
    PROVE  IInv'
<1>1. UNCHANGED <<Stat, CardType, pc, stage, tmr, ty, sector, asked, count, buff, fs, card,
                  opened, result, unstopped>>
  BY DEF vars, driverVars
<1>2. Types' /\ FsInv' /\ PollInv' /\ KindInv' /\ OwnInv'
  BY <1>1 DEF IInv, Types, FsInv, PollInv, KindInv, OwnInv
<1>3. CountInv' /\ BuffInv' /\ SendInv' /\ OpenIsInitialized'
  BY <1>1 DEF IInv, CountInv, BuffInv, SendInv, OpenIsInitialized, Moved
<1>4. StreamInv'
  BY <1>1 DEF IInv, StreamInv, Multi
<1> QED
  BY <1>2, <1>3, <1>4 DEF IInv

LEMMA NextIInv == IInv /\ [Next]_vars => IInv'
<1> SUFFICES ASSUME IInv, [Next]_vars
             PROVE  IInv'
  OBVIOUS
<1>1. CASE disk_initialize \/ Initializing
  BY <1>1, InitializingStep, FinishStep DEF Initializing
<1>2. CASE disk_read \/ disk_write \/ disk_ioctl
  BY <1>2, BeginStep
<1>3. CASE Reading
  BY <1>3, CommandStep, BlockStep, FailStep, StopStep, ReturnStep DEF Reading
<1>4. CASE Writing
  BY <1>4, PreEraseStep, CommandStep, BlockStep, FailStep, StopStep DEF Writing
<1>5. CASE Asking
  BY <1>5, ReturnStep DEF Asking
<1>6. CASE Mount \/ Restart \/ Swap
  BY <1>6, WorldStep
<1>7. CASE UNCHANGED vars
  BY <1>7, StutterStep
<1> QED
  BY <1>1, <1>2, <1>3, <1>4, <1>5, <1>6, <1>7 DEF Next

\* The Boolean variables.
LEMMA NextFlags == Flags /\ [Next]_vars => Flags'
<1> SUFFICES ASSUME Flags, [Next]_vars
             PROVE  Flags'
  OBVIOUS
<1>1. Stat' \in BOOLEAN
  BY Zenon DEF Flags, Next, vars, driverVars, disk_initialize, Initializing, GoIdle, SendIfCond, AppCmd,
     SendOpCond, ReadOcr, SetBlockLen, Finish, disk_read, Reading, ReadCmd, BlockComes, BlockFails,
     StopTransmission, ReadReturn, disk_write, Writing, PreErase, WriteCmd, BlockTaken,
     BlockRefused, StopTran, disk_ioctl, Asking, SendCsd, IoctlReturn, Mount, Restart, Swap,
     readKeeps
<1>2. unstopped' \in BOOLEAN
  BY Zenon DEF Flags, Next, vars, driverVars, disk_initialize, Initializing, GoIdle, SendIfCond, AppCmd,
     SendOpCond, ReadOcr, SetBlockLen, Finish, disk_read, Reading, ReadCmd, BlockComes, BlockFails,
     StopTransmission, ReadReturn, disk_write, Writing, PreErase, WriteCmd, BlockTaken,
     BlockRefused, StopTran, disk_ioctl, Asking, SendCsd, IoctlReturn, Mount, Restart, Swap,
     others
<1>3. selected' \in BOOLEAN
  <2>1. ASSUME NEW c, NEW a, NEW r, send_cmd(c, a, r)
        PROVE  selected' \in BOOLEAN
    BY <2>1, Zenon DEF send_cmd, Flags
  <2>2. CASE Initializing
    <3>1. CASE Finish
      BY <3>1, Zenon DEF Finish
    <3>2. CASE Initializing /\ ~Finish
      BY <3>2, <2>1, Zenon DEF Initializing, GoIdle, SendIfCond, AppCmd, SendOpCond, ReadOcr,
         SetBlockLen
    <3> QED
      BY <2>2, <3>1, <3>2
  <2>3. CASE Reading
    BY <2>3, <2>1, Zenon DEF Flags, Reading, ReadCmd, BlockComes, BlockFails, StopTransmission,
       ReadReturn
  <2>4. CASE Writing
    BY <2>4, <2>1, Zenon DEF Flags, Writing, PreErase, WriteCmd, BlockTaken, BlockRefused, StopTran
  <2>5. CASE disk_ioctl \/ Asking
    BY <2>5, <2>1, Zenon DEF Flags, disk_ioctl, Asking, SendCsd, IoctlReturn
  <2>6. CASE disk_initialize \/ disk_read \/ disk_write \/ Mount \/ Restart \/ Swap
           \/ UNCHANGED vars
    BY <2>6, Zenon DEF Flags, vars, driverVars, disk_initialize, disk_read, disk_write, Mount, Restart,
       Swap
  <2> QED
    BY <2>2, <2>3, <2>4, <2>5, <2>6 DEF Next
<1> QED
  BY <1>1, <1>2, <1>3 DEF Flags

\* Every variable keeps its type, and every counter its bounds: the retries of
\* disk_initialize stay between 0 and Tries and the blocks left of a transfer
\* between 0 and those asked for, whatever the card answers.
THEOREM TypesKept == Spec => []TypeOK
<1>1. IInv /\ Flags => TypeOK
  <2> SUFFICES ASSUME IInv, Flags
               PROVE  TypeOK
    OBVIOUS
  <2>1. Types
    BY DEF IInv
  <2>2. card.sending \in {"no", "one", "many", "takesone", "takes"}
    BY <2>1 DEF Types
  <2>3. card.mode \in {"native", "idle", "ready"}
    BY <2>1 DEF Types
  <2> QED
    BY <2>1, <2>2, <2>3, Zenon DEF Flags, Types, TypeOK, Pcs, Types4
<1> QED
  BY <1>1, InitIInv, NextIInv, NextFlags, PTL DEF Spec

\* disk_read and disk_write: a call that returns RES_OK has moved the sectors
\* asked for, in order, from or to the card the volume was opened on, for any
\* change of card and any reset in between.
THEOREM ReadsWhatWasAsked == Spec => []ReadsRight
<1>1. IInv => ReadsRight
  BY DEF IInv, BuffInv, Moved, ReadsRight
<1> QED
  BY <1>1, InitIInv, NextIInv, PTL DEF Spec

\* disk_read and disk_write: no card is left sending or waiting for blocks when
\* a call has returned, unless it would not hear the command that stops it or a
\* reset came before that command.
THEOREM StreamsStopped == Spec => []StreamStopped
<1>1. IInv => StreamStopped
  BY DEF IInv, StreamInv, StreamStopped
<1> QED
  BY <1>1, InitIInv, NextIInv, PTL DEF Spec

\* Stat is in .data and CardType in .bss: after any number of warm boots FatFs
\* still holds a volume open only while the two agree that a card was found.
THEOREM OpenInitialized == Spec => []OpenIsInitialized
<1>1. IInv => OpenIsInitialized
  BY DEF IInv
<1> QED
  BY <1>1, InitIInv, NextIInv, PTL DEF Spec

-----------------------------------------------------------------------------
\* The SPI port under the driver, for every width of its shift registers and every
\* count the driver may write.

\* The bits already exchanged.
Exchanged == length - gpioa_spicnt + (IF gpioa_spista = 3 THEN 1 ELSE 0)

\* Where the shifter stands in a transfer.
ClockInv ==
    /\ gpioa_spicnt <= length
    /\ gpioa_spicnt = 0 => gpioa_spista = 0
    /\ driver = "free" => gpioa_spicnt = 0
    /\ driver = "wait" => length \in Lengths
    /\ sck = 1 <=> gpioa_spista = 3
    /\ Len(got) = Exchanged /\ Len(sent) = Exchanged

\* The bit to come is out before SCK rises, and the next one is known after.
NextBitInv ==
    /\ gpioa_spista = 0 /\ gpioa_spicnt > 0 =>
           spi_nextbit = gpioa_spicnt - 1 /\ mosi = gpioa_spiout[gpioa_spicnt - 1]
    /\ gpioa_spista = 3 /\ gpioa_spicnt > 1 => spi_nextbit = gpioa_spicnt - 2

\* What was exchanged so far, and that nothing else is in gpioa_spiin.
BitsInv ==
    driver = "wait" =>
      /\ \A i \in 1..Len(got) : got[i] = gpioa_spiout[length - i]
      /\ \A i \in 1..Len(sent) : sent[i] = gpioa_spiin[length - i]
      /\ \A b \in Index : b >= length => gpioa_spiin[b] = 0

SpiInv == SpiTypeOK /\ ClockInv /\ NextBitInv /\ BitsInv

-----------------------------------------------------------------------------
\* The position counts down within the register.
LEMMA Positions ==
    ASSUME NEW x \in Int
    PROVE  /\ (x - 1) % WIDTH \in Index
           /\ x \in 1..WIDTH => (x - 1) % WIDTH = x - 1
<1>1. WIDTH \in Nat \ {0}
  BY SpiSizes
<1>2. (x - 1) % WIDTH \in Index
  BY <1>1 DEF Index
<1>3. ASSUME x \in 1..WIDTH PROVE (x - 1) % WIDTH = x - 1
  BY <1>1, <1>3
<1> QED
  BY <1>2, <1>3

LEMMA SpiStarts == SpiInit => SpiInv
<1> SUFFICES ASSUME SpiInit
             PROVE  SpiInv
  OBVIOUS
<1>1. WIDTH \in Nat \ {0}
  BY SpiSizes
<1>2. SpiTypeOK
  BY <1>1 DEF SpiInit, SpiTypeOK, Bit, Index
<1>3. ClockInv
  BY DEF SpiInit, ClockInv, Exchanged
<1>4. NextBitInv
  BY DEF SpiInit, NextBitInv
<1>5. BitsInv
  BY DEF SpiInit, BitsInv
<1> QED
  BY <1>2, <1>3, <1>4, <1>5 DEF SpiInv

\* Clocks that change nothing of a transfer.
IdleClock == OtherWrite \/ Rest

LEMMA SpiCases ==
    ASSUME [SpiNext]_spiVars
    PROVE  \/ UNCHANGED spiVars \/ IdleClock \/ LoadOut \/ PortWrite \/ ShiftIn \/ ShiftOut \/ Poll
           \/ \E n \in Lengths : LoadCnt(n)
BY DEF SpiNext, Clock, IdleClock

LEMMA SpiTypes ==
    ASSUME SpiTypeOK, ClockInv, [SpiNext]_spiVars
    PROVE  SpiTypeOK'
<1> USE DEF SpiTypeOK, shifter
<1>1. last_iowr' \in BOOLEAN
  BY Zenon DEF SpiNext, Clock, LoadOut, LoadCnt, PortWrite, OtherWrite, Rest, ShiftIn, ShiftOut,
               Poll, Strobe, NoStrobe, spiVars
<1>2. WIDTH \in Nat \ {0} /\ Lengths \subseteq 1..WIDTH
  BY SpiSizes
<1>3. CASE UNCHANGED spiVars
  BY <1>1, <1>3 DEF spiVars
<1>4. CASE IdleClock
  BY <1>1, <1>4 DEF IdleClock, OtherWrite, Rest
<1>5. CASE LoadOut \/ PortWrite
  BY <1>1, <1>5 DEF LoadOut, PortWrite, Bit
<1>6. CASE ShiftIn
  <2>1. spi_nextbit' \in Index
    BY <1>6, Positions DEF ShiftIn, Index
  <2>2. gpioa_spiin' \in [Index -> Bit]
    BY <1>6 DEF ShiftIn
  <2>3. got' \in Seq(Bit) /\ sent' \in Seq(Bit)
    BY <1>6 DEF ShiftIn
  <2> QED
    BY <1>1, <1>6, <2>1, <2>2, <2>3 DEF ShiftIn, Bit
<1>7. CASE ShiftOut
  <2>1. gpioa_spicnt' \in 0..WIDTH
    BY <1>2, <1>7 DEF ShiftOut
  <2>2. mosi' \in Bit
    BY <1>7 DEF ShiftOut
  <2> QED
    BY <1>1, <1>7, <2>1, <2>2 DEF ShiftOut, Bit
<1>8. CASE Poll
  BY <1>1, <1>8 DEF Poll
<1>9. ASSUME NEW n \in Lengths, LoadCnt(n) PROVE SpiTypeOK'
  <2>1. n \in 1..WIDTH
    BY <1>2
  <2>2. (n - 1) % WIDTH \in Index
    BY <2>1, Positions
  <2>3. mosi' \in Bit /\ spi_nextbit' \in Index
    BY <1>9, <2>2 DEF LoadCnt
  <2>4. gpioa_spicnt' \in 0..WIDTH /\ length' \in {0} \cup Lengths
    BY <1>2, <1>9, <2>1 DEF LoadCnt
  <2> QED
    BY <1>1, <1>9, <2>3, <2>4 DEF LoadCnt, Bit
<1> QED
  BY <1>3, <1>4, <1>5, <1>6, <1>7, <1>8, <1>9, SpiCases

LEMMA SpiClocks ==
    ASSUME SpiTypeOK, ClockInv, [SpiNext]_spiVars
    PROVE  ClockInv'
<1> USE DEF ClockInv, Exchanged, shifter
<1>1. gpioa_spicnt \in Nat /\ length \in Nat /\ gpioa_spista \in {0, 3} /\ sck \in {0, 1}
  BY SpiSizes DEF SpiTypeOK, Bit
<1>2. got \in Seq(Bit) /\ sent \in Seq(Bit)
  BY DEF SpiTypeOK
<1>3. CASE UNCHANGED spiVars
  BY <1>3 DEF spiVars
<1>4. CASE IdleClock
  BY <1>4 DEF IdleClock, OtherWrite, Rest
<1>5. CASE LoadOut \/ PortWrite
  BY <1>5 DEF LoadOut, PortWrite
<1>6. CASE ShiftIn
  <2>1. Len(got') = Len(got) + 1 /\ Len(sent') = Len(sent) + 1
    BY <1>2, <1>6 DEF ShiftIn
  <2> QED
    BY <1>1, <1>6, <2>1 DEF ShiftIn, SpiTypeOK
<1>7. CASE ShiftOut
  BY <1>1, <1>7 DEF ShiftOut, SpiTypeOK
<1>8. CASE Poll
  BY <1>8 DEF Poll
<1>9. ASSUME NEW n \in Lengths, LoadCnt(n) PROVE ClockInv'
  <2>1. n \in 1..WIDTH /\ WIDTH \in Nat
    BY SpiSizes
  <2> QED
    BY <1>9, <2>1 DEF LoadCnt
<1> QED
  BY <1>3, <1>4, <1>5, <1>6, <1>7, <1>8, <1>9, SpiCases

LEMMA SpiNextBit ==
    ASSUME SpiInv, [SpiNext]_spiVars
    PROVE  NextBitInv'
<1> USE DEF NextBitInv, shifter
<1>1. /\ gpioa_spicnt \in 0..WIDTH /\ WIDTH \in Nat \ {0}
      /\ gpioa_spista \in {0, 3} /\ spi_nextbit \in Int
  BY SpiSizes DEF SpiInv, SpiTypeOK, Index
<1>2. gpioa_spicnt = 0 => gpioa_spista = 0
  BY DEF SpiInv, ClockInv
<1>3. CASE UNCHANGED spiVars
  BY <1>3 DEF SpiInv, spiVars
<1>4. CASE IdleClock
  BY <1>4 DEF SpiInv, IdleClock, OtherWrite, Rest
<1>5. CASE LoadOut \/ PortWrite
  <2>1. gpioa_spicnt = 0 /\ UNCHANGED <<gpioa_spicnt, gpioa_spista>>
    BY <1>5 DEF SpiInv, ClockInv, LoadOut, PortWrite
  <2> QED
    BY <1>2, <2>1
<1>6. CASE ShiftIn
  <2>1. gpioa_spicnt > 0 /\ gpioa_spicnt' = gpioa_spicnt /\ gpioa_spista' = 3
    BY <1>6 DEF ShiftIn
  <2>2. spi_nextbit = gpioa_spicnt - 1 /\ spi_nextbit' = (spi_nextbit - 1) % WIDTH
    BY <1>6 DEF SpiInv, ShiftIn
  <2>3. ASSUME gpioa_spicnt > 1 PROVE spi_nextbit' = gpioa_spicnt - 2
    <3>1. spi_nextbit \in 1..WIDTH
      BY <1>1, <2>2, <2>3
    <3> QED
      BY <1>1, <2>2, <3>1, Positions
  <2> QED
    BY <2>1, <2>3
<1>7. CASE ShiftOut
  <2>1. /\ gpioa_spista = 3 /\ gpioa_spista' = 0 /\ gpioa_spicnt' = gpioa_spicnt - 1
        /\ mosi' = gpioa_spiout[spi_nextbit] /\ UNCHANGED <<spi_nextbit, gpioa_spiout>>
    BY <1>1, <1>7 DEF ShiftOut
  <2>2. ASSUME gpioa_spicnt' > 0 PROVE spi_nextbit = gpioa_spicnt' - 1
    BY <1>1, <2>1, <2>2 DEF SpiInv
  <2> QED
    BY <2>1, <2>2
<1>8. CASE Poll
  BY <1>8 DEF SpiInv, Poll
<1>9. ASSUME NEW n \in Lengths, LoadCnt(n) PROVE NextBitInv'
  <2>1. n \in 1..WIDTH
    BY SpiSizes
  <2>2. (n - 1) % WIDTH = n - 1
    BY <1>1, <2>1, Positions
  <2> QED
    BY <1>9, <2>2 DEF LoadCnt
<1> QED
  BY <1>3, <1>4, <1>5, <1>6, <1>7, <1>8, <1>9, SpiCases

\* A bit that is exchanged goes to the place its number says.
LEMMA ShiftInBits ==
    ASSUME SpiInv, ShiftIn, driver = "wait"
    PROVE  BitsInv'
<1> USE DEF Exchanged
<1>1. /\ gpioa_spicnt \in 1..length /\ length \in 1..WIDTH /\ WIDTH \in Nat \ {0}
      /\ gpioa_spista = 0
  BY SpiSizes DEF SpiInv, SpiTypeOK, ClockInv, ShiftIn
<1>2. /\ spi_nextbit = gpioa_spicnt - 1 /\ mosi = gpioa_spiout[gpioa_spicnt - 1]
  BY <1>1 DEF SpiInv, NextBitInv
<1>3. /\ got \in Seq(Bit) /\ sent \in Seq(Bit) /\ Len(got) = length - gpioa_spicnt
      /\ Len(sent) = length - gpioa_spicnt /\ gpioa_spiin \in [Index -> Bit]
  BY <1>1 DEF SpiInv, SpiTypeOK, ClockInv
<1>4. /\ got' = Append(got, mosi) /\ sent' = Append(sent, miso)
      /\ gpioa_spiin' = [gpioa_spiin EXCEPT ![gpioa_spicnt - 1] = miso]
      /\ UNCHANGED <<gpioa_spiout, driver, length>>
  BY <1>2 DEF ShiftIn
<1>5. Len(got') = Len(got) + 1 /\ Len(sent') = Len(sent) + 1
  BY <1>3, <1>4
<1>6. ASSUME NEW i \in 1..Len(got') PROVE got'[i] = gpioa_spiout'[length' - i]
  <2>1. CASE i = Len(got) + 1
    <3>1. length - i = gpioa_spicnt - 1
      BY <1>1, <1>3, <2>1
    <3>4. got'[i] = mosi
      BY <1>3, <1>4, <2>1
    <3> QED
      BY <1>2, <1>4, <3>1, <3>4
  <2>2. CASE i # Len(got) + 1
    <3>1. i \in 1..Len(got) /\ got'[i] = got[i]
      BY <1>3, <1>4, <1>5, <2>2
    <3> QED
      BY <1>4, <3>1 DEF SpiInv, BitsInv
  <2> QED
    BY <2>1, <2>2
<1>7. ASSUME NEW i \in 1..Len(sent') PROVE sent'[i] = gpioa_spiin'[length' - i]
  <2>1. CASE i = Len(sent) + 1
    <3>1. length - i = gpioa_spicnt - 1
      BY <1>1, <1>3, <2>1
    <3>4. sent'[i] = miso
      BY <1>3, <1>4, <2>1
    <3>2. gpioa_spicnt - 1 \in Index
      BY <1>1 DEF Index
    <3> QED
      BY <1>3, <1>4, <3>1, <3>2, <3>4
  <2>2. CASE i # Len(sent) + 1
    <3>1. i \in 1..Len(sent) /\ sent'[i] = sent[i]
      BY <1>3, <1>4, <1>5, <2>2
    <3>2. sent[i] = gpioa_spiin[length - i]
      BY <3>1 DEF SpiInv, BitsInv
    <3>3. length - i \in Index /\ length - i # gpioa_spicnt - 1
      BY <1>1, <1>3, <3>1 DEF Index
    <3> QED
      BY <1>3, <1>4, <3>1, <3>2, <3>3
  <2> QED
    BY <2>1, <2>2
<1>8. ASSUME NEW b \in Index, b >= length PROVE gpioa_spiin'[b] = 0
  <2>1. gpioa_spiin[b] = 0
    BY <1>8 DEF SpiInv, BitsInv
  <2>2. b # gpioa_spicnt - 1
    BY <1>1, <1>8 DEF Index
  <2> QED
    BY <1>3, <1>4, <2>1, <2>2
<1> QED
  BY <1>4, <1>6, <1>7, <1>8 DEF BitsInv

LEMMA SpiBits ==
    ASSUME SpiInv, [SpiNext]_spiVars
    PROVE  BitsInv'
<1> USE DEF BitsInv, shifter
<1>1. CASE UNCHANGED spiVars
  BY <1>1 DEF SpiInv, spiVars
<1>2. CASE IdleClock
  BY <1>2 DEF SpiInv, IdleClock, OtherWrite, Rest
<1>3. CASE LoadOut \/ PortWrite \/ Poll
  BY <1>3 DEF LoadOut, PortWrite, Poll
<1>4. CASE ShiftIn
  <2>1. driver = "wait"
    BY <1>4 DEF SpiInv, SpiTypeOK, ClockInv, ShiftIn
  <2> QED
    BY <1>4, <2>1, ShiftInBits
<1>5. CASE ShiftOut
  BY <1>5 DEF SpiInv, ShiftOut
<1>6. ASSUME NEW n \in Lengths, LoadCnt(n) PROVE BitsInv'
  BY <1>6 DEF LoadCnt
<1> QED
  BY <1>1, <1>2, <1>3, <1>4, <1>5, <1>6, SpiCases

LEMMA SpiKept == SpiInv /\ [SpiNext]_spiVars => SpiInv'
BY SpiTypes, SpiClocks, SpiNextBit, SpiBits DEF SpiInv

-----------------------------------------------------------------------------
\* The theorems about the port.

\* The registers of the shifter in top.v, and the driver's word, stay within their
\* widths, for every WIDTH and set of Lengths.
THEOREM SpiTypesKept == SpiSpec => []SpiTypeOK
<1>1. SpiInv => SpiTypeOK
  BY DEF SpiInv
<1> QED
  BY <1>1, SpiStarts, SpiKept, PTL DEF SpiSpec

\* When xmit_mmc or rcvr_mmc sees the count at zero, the card took the bits of
\* gpioa_spiout and gpioa_spiin holds the bits it gave, whatever clocks other
\* writes to the window took.
THEOREM ExactTransfer == SpiSpec => []TransferExact
<1>1. SpiInv => TransferExact
  <2> SUFFICES ASSUME SpiInv, driver = "wait", gpioa_spicnt = 0
               PROVE  /\ Len(got) = length /\ Len(sent) = length
                      /\ \A i \in 1..length : /\ got[i] = gpioa_spiout[length - i]
                                              /\ sent[i] = gpioa_spiin[length - i]
                      /\ \A b \in Index : b >= length => gpioa_spiin[b] = 0
    BY DEF TransferExact
  <2>1. length \in Nat /\ gpioa_spista = 0
    BY SpiSizes DEF SpiInv, SpiTypeOK, ClockInv
  <2>2. Len(got) = length /\ Len(sent) = length
    BY <2>1 DEF SpiInv, ClockInv, Exchanged
  <2> QED
    BY <2>2 DEF SpiInv, BitsInv
<1> QED
  BY <1>1, SpiStarts, SpiKept, PTL DEF SpiSpec

\* The shifter moves MOSI only as SCK is low: the card never samples a bit in
\* flight, for any order of writes and clocks.
THEOREM StableMosi == SpiSpec => MosiStableWhileSckHigh
<1>1. SpiInv /\ [SpiNext]_spiVars => [mosi' # mosi => sck' = 0]_spiVars
  <2> SUFFICES ASSUME SpiInv, [SpiNext]_spiVars, mosi' # mosi
               PROVE  sck' = 0
    OBVIOUS
  <2> USE DEF shifter
  <2>1. CASE PortWrite
    BY <2>1 DEF PortWrite, SpiInv, ClockInv, SpiTypeOK, Bit
  <2>2. CASE ShiftOut \/ \E n \in Lengths : LoadCnt(n)
    BY <2>2 DEF ShiftOut, LoadCnt
  <2> QED
    BY <2>1, <2>2, SpiCases DEF IdleClock, OtherWrite, Rest, LoadOut, ShiftIn, Poll, spiVars
<1> QED
  BY <1>1, SpiStarts, SpiKept, PTL DEF SpiSpec, MosiStableWhileSckHigh
=============================================================================
