-------------------------------- MODULE Sdmm --------------------------------
(***************************************************************************)
(* The SD/MMC driver src/briey/sdmm.c: disk_initialize, disk_read,         *)
(* disk_write and disk_ioctl, one action per command or data block         *)
(* exchanged with the card.  The card is external: four kinds, which any   *)
(* command may find silent, and which may be exchanged for another at any  *)
(* time.  A reset or warm boot may come at any time too; it clears .bss    *)
(* and not .data, and does not reach the card.  FatFs and the monitor are  *)
(* external, as far as they decide when the driver is called; FatFs as it  *)
(* is configured (FF_FS_READONLY) only reads, and the rest of the driver's *)
(* interface is called here wherever a read may be.                        *)
(***************************************************************************)
EXTENDS Integers, Sequences

CONSTANTS
    BLOCKLEN,       \* bytes of a sector; 512 in the code
    Sectors,        \* sectors FatFs asks for
    MaxCount,       \* sectors of one call
    Tries,          \* polls for the end of initialization; 1000 in the code
    MaxSwaps        \* bound on the number of card changes

ASSUME SdSizes ==
    /\ BLOCKLEN \in Nat \ {0} /\ Sectors \subseteq Nat
    /\ MaxCount \in Nat \ {0} /\ Tries \in Nat \ {0} /\ MaxSwaps \in Nat

VARIABLES
    Stat,           \* in .data: TRUE is STA_NOINIT
    CardType,       \* in .bss
    selected,       \* chip select is low
    pc,             \* the driver: "idle", or the command or block to come next
    stage, tmr, ty, \* locals of disk_initialize: what ACMD41 is sent for, ...
    sector, asked, count, buff,     \* of disk_read and disk_write
    fs,             \* FatFs: "none", "mounted" (fs_type = 0) or "open"
    card,
    opened,         \* history: the card disk_initialize found
    result,         \* history: what the last call returned
    unstopped       \* history: a CMD12 was not answered, or a reset came before it

driverVars == <<Stat, CardType, selected, pc, stage, tmr, ty, sector, asked, count, buff>>
vars   == <<driverVars, fs, card, opened, result, unstopped>>

Kinds == {"MMC", "SD1", "SD2", "SDHC"}
Fresh(id, kind) == [id |-> id, kind |-> kind, mode |-> "native", sending |-> "no", pos |-> 0]

Init ==
    /\ Stat = TRUE /\ CardType = {} /\ selected = FALSE
    /\ pc = "idle" /\ stage = "hcs" /\ tmr = 0 /\ ty = {}
    /\ sector = 0 /\ asked = 0 /\ count = 0 /\ buff = <<>>
    /\ fs = "none"
    /\ \E kind \in Kinds : card = Fresh(0, kind)
    /\ opened = 0 /\ result = "none" /\ unstopped = FALSE

-----------------------------------------------------------------------------
\* The card (external): the response, and what becomes of the card.  R1 is 0
\* ("ready"), 1 ("idle"), another value ("error") or none in ten bytes.

R1 == card.mode
Leave == {<<"idle", card>>, <<"ready", [card EXCEPT !.mode = "ready"]>>}

Answers(cmd, arg) ==
    IF cmd = "CMD0" THEN {<<"idle", [card EXCEPT !.mode = "idle", !.sending = "no"]>>}
    ELSE IF card.mode = "native" THEN {}
    ELSE IF cmd = "CMD12" THEN IF card.sending = "many"
                               THEN {<<"ready", [card EXCEPT !.sending = "no"]>>}
                               ELSE {<<"error", card>>}
    ELSE IF card.sending \in {"many", "takes"} THEN {}
    ELSE CASE cmd = "CMD8" -> {<<IF card.kind \in {"SD2", "SDHC"} THEN "idle" ELSE "error", card>>}
           [] cmd \in {"CMD55", "ACMD23"} -> {<<IF card.kind = "MMC" THEN "error" ELSE R1, card>>}
           [] cmd \in {"ACMD41", "CMD1"} ->
                IF card.kind = "SDHC" /\ arg # "hcs" THEN {<<"idle", card>>} ELSE Leave
           [] cmd = "CMD58" -> {<<R1, card>>}
           [] cmd = "CMD16" -> {<<IF card.mode = "ready" THEN "ready" ELSE "error", card>>}
           [] cmd = "CMD9" -> IF card.mode = "idle" THEN {<<"error", card>>}
                              ELSE {<<"ready", [card EXCEPT !.sending = "one"]>>}
           [] cmd \in {"CMD17", "CMD18", "CMD24", "CMD25"} ->
                IF card.mode = "idle" \/ (card.kind # "SDHC" /\ arg % BLOCKLEN # 0)
                THEN {<<"error", card>>}
                ELSE {<<"ready", [card EXCEPT
                          !.sending = CASE cmd = "CMD17" -> "one" [] cmd = "CMD18" -> "many"
                                        [] cmd = "CMD24" -> "takesone" [] cmd = "CMD25" -> "takes",
                          !.pos = IF card.kind = "SDHC" THEN arg ELSE arg \div BLOCKLEN]>>}

\* send_cmd: CMD12 goes to the selected card as it is; the others select it
\* first, which may fail, and then leaves it deselected.
send_cmd(cmd, arg, r) ==
    \/ /\ cmd = "CMD12" => selected
       /\ \E a \in Answers(cmd, arg) : r = a[1] /\ card' = a[2]
       /\ selected' = TRUE
    \/ /\ r = "none"
       /\ IF cmd = "CMD12" THEN UNCHANGED selected ELSE selected' \in BOOLEAN
       /\ UNCHANGED card

Responses == {"ready", "idle", "error", "none"}

-----------------------------------------------------------------------------
\* disk_initialize, called by mount_volume of FatFs.

initVars == <<stage, tmr, ty>>
readVars == <<sector, asked, count, buff>>  \* of disk_write too
others   == <<readVars, fs, opened, result, unstopped>>

disk_initialize ==
    /\ pc = "idle" /\ fs = "mounted"
    /\ pc' = "CMD0" /\ ty' = {} /\ selected' = FALSE
    /\ UNCHANGED <<Stat, CardType, stage, tmr, card, others>>

GoIdle ==
    /\ pc = "CMD0"
    /\ \E r \in Responses : /\ send_cmd("CMD0", 0, r)
                            /\ pc' = IF r = "idle" THEN "CMD8" ELSE "finish"
                            /\ unstopped' = (unstopped /\ r # "idle")
    /\ UNCHANGED <<Stat, CardType, initVars, readVars, fs, opened, result>>

\* A card that answers CMD8 must also send its argument back.
SendIfCond ==
    /\ pc = "CMD8"
    /\ \E r \in Responses, echoed \in BOOLEAN :
         /\ send_cmd("CMD8", 0, r)
         /\ IF r = "idle" THEN /\ pc' = IF echoed THEN "CMD55" ELSE "finish"
                               /\ stage' = "hcs" /\ tmr' = Tries
            ELSE pc' = "CMD55" /\ stage' = "probe" /\ UNCHANGED tmr
    /\ UNCHANGED <<Stat, CardType, ty, others>>

\* Mutant: polls are not counted.
PolledForEver(r) ==
    IF r = "ready" THEN pc' = (IF stage = "hcs" THEN "CMD58" ELSE "CMD16") /\ UNCHANGED initVars
    ELSE pc' = (IF ty = {"MMC"} THEN "CMD1" ELSE "CMD55") /\ UNCHANGED initVars

\* The end of a round of the two loops that wait for the card.
Polled(r) ==
    IF r = "ready" THEN pc' = (IF stage = "hcs" THEN "CMD58" ELSE "CMD16") /\ UNCHANGED initVars
    ELSE /\ tmr' = tmr - 1
         /\ pc' = IF tmr = 1 THEN "finish" ELSE IF ty = {"MMC"} THEN "CMD1" ELSE "CMD55"
         /\ ty' = IF tmr = 1 THEN {} ELSE ty
         /\ UNCHANGED stage

\* What ACMD41 was sent for: to poll, or to tell SD 1 from MMC.
After41(r) ==
    IF stage # "probe" THEN Polled(r)
    ELSE /\ stage' = "poll" /\ tmr' = Tries
         /\ IF r \in {"ready", "idle"} THEN ty' = {"SD1"} /\ pc' = "CMD55"
                                       ELSE ty' = {"MMC"} /\ pc' = "CMD1"

AppCmd ==
    /\ pc = "CMD55"
    /\ \E r \in Responses : /\ send_cmd("CMD55", 0, r)
                            /\ IF r \in {"ready", "idle"} THEN pc' = "ACMD41" /\ UNCHANGED initVars
                                                          ELSE After41(r)
    /\ UNCHANGED <<Stat, CardType, others>>

SendOpCond ==
    /\ pc \in {"ACMD41", "CMD1"}
    /\ \E r \in Responses : send_cmd(pc, stage, r) /\ After41(r)
    /\ UNCHANGED <<Stat, CardType, others>>

ReadOcr ==
    /\ pc = "CMD58"
    /\ \E r \in Responses :
         /\ send_cmd("CMD58", 0, r)
         /\ ty' = IF r # "ready" THEN {}
                  ELSE IF card.kind = "SDHC" THEN {"SD2", "BLOCK"} ELSE {"SD2"}
    /\ pc' = "finish"
    /\ UNCHANGED <<Stat, CardType, stage, tmr, others>>

SetBlockLen ==
    /\ pc = "CMD16"
    /\ \E r \in Responses : /\ send_cmd("CMD16", BLOCKLEN, r)
                            /\ ty' = IF r = "ready" THEN ty ELSE {}
    /\ pc' = "finish"
    /\ UNCHANGED <<Stat, CardType, stage, tmr, others>>

\* The end of disk_initialize; FatFs goes on only if it succeeded.
Finish ==
    /\ pc = "finish" /\ pc' = "idle"
    /\ CardType' = ty /\ Stat' = (ty = {}) /\ selected' = FALSE
    /\ IF ty = {} THEN UNCHANGED <<fs, opened>> ELSE fs' = "open" /\ opened' = card.id
    /\ result' = "none"
    /\ UNCHANGED <<initVars, readVars, card, unstopped>>

-----------------------------------------------------------------------------
\* disk_read.

readKeeps == <<Stat, CardType, initVars, fs, opened>>
Multi == asked > 1

disk_read ==
    /\ pc = "idle" /\ fs = "open"
    /\ sector' \in Sectors /\ asked' \in 1..MaxCount
    /\ count' = asked' /\ buff' = <<>>
    /\ IF Stat THEN pc' = "idle" /\ result' = "RES_NOTRDY" ELSE pc' = "read" /\ UNCHANGED result
    /\ UNCHANGED <<readKeeps, selected, card, unstopped>>

\* Mutant: every card addressed by byte.
ByteAddress == sector * BLOCKLEN

\* The sector in the units of the card.
Address == IF "BLOCK" \in CardType THEN sector ELSE sector * BLOCKLEN

ReadCmd ==
    /\ pc = "read"
    /\ \E r \in Responses : /\ send_cmd(IF Multi THEN "CMD18" ELSE "CMD17", Address, r)
                            /\ pc' = IF r = "ready" THEN "block" ELSE "return"
    /\ UNCHANGED <<readKeeps, readVars, result, unstopped>>

\* Mutant: one block too many is asked for.
BlockComesOn ==
    /\ pc = "block" /\ card.sending \in {"one", "many"}
    /\ buff' = Append(buff, <<card.id, card.pos>>)
    /\ count' = count - 1
    /\ card' = IF card.sending = "one" THEN [card EXCEPT !.sending = "no"]
                                       ELSE [card EXCEPT !.pos = @ + 1]
    /\ pc' = IF count > 0 THEN "block" ELSE IF Multi THEN "CMD12" ELSE "return"
    /\ UNCHANGED <<readKeeps, selected, sector, asked, result, unstopped>>

\* rcvr_datablock: the block comes, or an error token, or nothing in time.
BlockComes ==
    /\ pc = "block" /\ card.sending \in {"one", "many"}
    /\ buff' = Append(buff, <<card.id, card.pos>>)
    /\ count' = count - 1
    /\ card' = IF card.sending = "one" THEN [card EXCEPT !.sending = "no"]
                                       ELSE [card EXCEPT !.pos = @ + 1]
    /\ pc' = IF count' > 0 THEN "block" ELSE IF Multi THEN "CMD12" ELSE "return"
    /\ UNCHANGED <<readKeeps, selected, sector, asked, result, unstopped>>

\* Mutant: a broken multiple read is not stopped.
BlockFailsOut ==
    /\ pc = "block" /\ pc' = "return"
    /\ card' = IF card.sending = "one" THEN [card EXCEPT !.sending = "no"] ELSE card
    /\ UNCHANGED <<readKeeps, readVars, selected, result, unstopped>>

BlockFails ==
    /\ pc = "block"
    /\ pc' = IF Multi THEN "CMD12" ELSE "return"
    /\ card' = IF card.sending = "one" THEN [card EXCEPT !.sending = "no"] ELSE card
    /\ UNCHANGED <<readKeeps, readVars, selected, result, unstopped>>

StopTransmission ==
    /\ pc = "CMD12" /\ pc' = "return"
    /\ \E r \in Responses : /\ send_cmd("CMD12", 0, r)
                            /\ unstopped' = (r = "none")
    /\ UNCHANGED <<readKeeps, readVars, result>>

ReadReturn ==
    /\ pc = "return" /\ pc' = "idle"
    /\ selected' = FALSE
    /\ result' = IF count > 0 THEN "RES_ERROR" ELSE "RES_OK"
    /\ UNCHANGED <<readKeeps, readVars, card, unstopped>>

-----------------------------------------------------------------------------
\* disk_write.  buff records the blocks the card accepted, and where.

disk_write ==
    /\ pc = "idle" /\ fs = "open"
    /\ sector' \in Sectors /\ asked' \in 1..MaxCount
    /\ count' = asked' /\ buff' = <<>>
    /\ IF Stat THEN pc' = "idle" /\ result' = "RES_NOTRDY"
       ELSE /\ pc' = IF asked' = 1 THEN "CMD24"
                     ELSE IF CardType \intersect {"SD1", "SD2"} # {} THEN "erase" ELSE "CMD25"
            /\ UNCHANGED result
    /\ UNCHANGED <<readKeeps, selected, card, unstopped>>

\* ACMD23, how many blocks come: a hint, and its response is not looked at.
PreErase ==
    \/ /\ pc = "erase"
       /\ \E r \in Responses : /\ send_cmd("CMD55", 0, r)
                               /\ pc' = IF r \in {"ready", "idle"} THEN "ACMD23" ELSE "CMD25"
       /\ UNCHANGED <<readKeeps, readVars, result, unstopped>>
    \/ /\ pc = "ACMD23" /\ pc' = "CMD25"
       /\ \E r \in Responses : send_cmd("ACMD23", count, r)
       /\ UNCHANGED <<readKeeps, readVars, result, unstopped>>

WriteCmd ==
    /\ pc \in {"CMD24", "CMD25"}
    /\ \E r \in Responses : /\ send_cmd(pc, Address, r)
                            /\ pc' = IF r = "ready" THEN "xmit" ELSE "return"
    /\ UNCHANGED <<readKeeps, readVars, result, unstopped>>

\* xmit_datablock with data: the card is ready for the block and accepts it, or
\* not.  A single write is then done.
BlockTaken ==
    /\ pc = "xmit" /\ card.sending \in {"takes", "takesone"}
    /\ buff' = Append(buff, <<card.id, card.pos>>)
    /\ count' = count - 1
    /\ card' = IF card.sending = "takesone" THEN [card EXCEPT !.sending = "no"]
                                            ELSE [card EXCEPT !.pos = @ + 1]
    /\ pc' = IF ~Multi THEN "return" ELSE IF count' > 0 THEN "xmit" ELSE "stoptran"
    /\ UNCHANGED <<readKeeps, selected, sector, asked, result, unstopped>>

BlockRefused ==
    /\ pc = "xmit"
    /\ pc' = IF Multi THEN "stoptran" ELSE "return"
    /\ card' = IF card.sending = "takesone" THEN [card EXCEPT !.sending = "no"] ELSE card
    /\ UNCHANGED <<readKeeps, readVars, selected, result, unstopped>>

\* xmit_datablock(0, 0xFD): the stop token, unless the card stays busy.
StopTran ==
    /\ pc = "stoptran" /\ pc' = "return"
    /\ \E sent \in BOOLEAN :
         /\ card' = IF sent /\ card.sending = "takes" THEN [card EXCEPT !.sending = "no"] ELSE card
         /\ count' = IF sent THEN count ELSE 1
         /\ unstopped' = (unstopped \/ ~sent)
    /\ UNCHANGED <<readKeeps, sector, asked, buff, selected, result>>

-----------------------------------------------------------------------------
\* disk_ioctl.  The size read from the CSD is left out.

disk_ioctl ==
    /\ pc = "idle" /\ fs = "open"
    /\ asked' = 0 /\ count' = 0 /\ buff' = <<>>
    /\ IF Stat THEN pc' = "idle" /\ result' = "RES_NOTRDY" /\ UNCHANGED selected
       ELSE \/ \E r \in {"RES_OK", "RES_ERROR"} :         \* CTRL_SYNC: select
                 pc' = "deselect" /\ result' = r /\ selected' = (r = "RES_OK")
            \/ pc' = "CMD9" /\ UNCHANGED <<result, selected>>   \* GET_SECTOR_COUNT
            \/ \E r \in {"RES_OK", "RES_PARERR"} :        \* GET_BLOCK_SIZE, no such code
                 pc' = "deselect" /\ result' = r /\ UNCHANGED selected
    /\ UNCHANGED <<readKeeps, sector, card, unstopped>>

SendCsd ==
    \/ /\ pc = "CMD9"
       /\ \E r \in Responses : /\ send_cmd("CMD9", 0, r)
                               /\ IF r = "ready" THEN pc' = "csd" /\ UNCHANGED result
                                  ELSE pc' = "deselect" /\ result' = "RES_ERROR"
       /\ UNCHANGED <<readKeeps, readVars, unstopped>>
    \/ /\ pc = "csd" /\ pc' = "deselect"
       /\ result' \in IF card.sending = "one" THEN {"RES_OK", "RES_ERROR"} ELSE {"RES_ERROR"}
       /\ card' = IF card.sending = "one" THEN [card EXCEPT !.sending = "no"] ELSE card
       /\ UNCHANGED <<readKeeps, readVars, selected, unstopped>>

IoctlReturn ==
    /\ pc = "deselect" /\ pc' = "idle" /\ selected' = FALSE
    /\ UNCHANGED <<readKeeps, readVars, card, result, unstopped>>

-----------------------------------------------------------------------------
\* The rest of the world.

\* f_mount, which every command of the monitor begins with.
Mount ==
    /\ pc = "idle" /\ fs' = "mounted" /\ result' = "none"
    /\ UNCHANGED <<driverVars, card, opened, unstopped>>

\* Mutant: the work area of FatFs survives.
RestartKeepsFs ==
    /\ pc' = "idle" /\ CardType' = {} /\ result' = "none"
    /\ unstopped' = (unstopped \/ card.sending \in {"many", "takes"})
    /\ UNCHANGED <<Stat, selected, initVars, readVars, fs, card, opened>>

\* A reset or warm boot: .bss (CardType, FatFs) is cleared, .data (Stat) is not.
Restart ==
    /\ pc' = "idle" /\ CardType' = {} /\ fs' = "none" /\ result' = "none"
    /\ unstopped' = (unstopped \/ card.sending \in {"many", "takes"})
    /\ UNCHANGED <<Stat, selected, initVars, readVars, card, opened>>

Swap ==
    /\ card.id < MaxSwaps
    /\ \E kind \in Kinds : card' = Fresh(card.id + 1, kind)
    /\ unstopped' = FALSE
    /\ UNCHANGED <<driverVars, fs, opened, result>>

Initializing == \/ GoIdle \/ SendIfCond \/ AppCmd \/ SendOpCond \/ ReadOcr \/ SetBlockLen
                \/ Finish
Reading == ReadCmd \/ BlockComes \/ BlockFails \/ StopTransmission \/ ReadReturn
Writing == PreErase \/ WriteCmd \/ BlockTaken \/ BlockRefused \/ StopTran
Asking == SendCsd \/ IoctlReturn

Next == \/ disk_initialize \/ Initializing \/ disk_read \/ Reading
        \/ disk_write \/ Writing \/ disk_ioctl \/ Asking \/ Mount \/ Restart \/ Swap
Spec == Init /\ [][Next]_vars

\* A call that has begun goes on.
FairSpec == Spec /\ WF_vars(Initializing \/ Reading \/ Writing \/ Asking)

-----------------------------------------------------------------------------
\* Properties.

TypeOK ==
    /\ Stat \in BOOLEAN /\ CardType \subseteq {"MMC", "SD1", "SD2", "BLOCK"}
    /\ selected \in BOOLEAN
    /\ pc \in {"idle", "CMD0", "CMD8", "CMD55", "ACMD41", "CMD1", "CMD58", "CMD16", "finish",
               "read", "block", "CMD12", "return", "erase", "ACMD23", "CMD24", "CMD25", "xmit",
               "stoptran", "CMD9", "csd", "deselect"}
    /\ stage \in {"hcs", "probe", "poll"} /\ tmr \in 0..Tries
    /\ ty \subseteq {"MMC", "SD1", "SD2", "BLOCK"}
    /\ asked \in 0..MaxCount /\ count \in 0..asked
    /\ fs \in {"none", "mounted", "open"}
    /\ card.sending \in {"no", "one", "many", "takesone", "takes"}
    /\ card.mode \in {"native", "idle", "ready"}

\* A read or write that succeeds has moved the sectors asked for, in order, all
\* from or to the card FatFs opened: not one that took its place, nor at an
\* address of the wrong unit because .bss and .data disagree after a warm boot.
ReadsRight ==
    pc = "idle" /\ result = "RES_OK" =>
        buff = [i \in 1..asked |-> <<opened, sector + i - 1>>]

\* Between calls no card is left sending or waiting for blocks, whichever block
\* of a multiple transfer failed, unless the card ignored the stop command,
\* stayed busy, or a reset kept the driver from stopping it.
StreamStopped == pc = "idle" /\ card.sending \in {"many", "takes"} => unstopped

\* FatFs holds a volume open only on a card the driver knows the type of: Stat
\* survives a warm boot and CardType does not, but FatFs forgets with it.
OpenIsInitialized == fs = "open" => ~Stat /\ CardType # {}

\* Every call ends, whatever card is there or is put in its place.
CallEnds == pc # "idle" ~> pc = "idle"
=============================================================================
