# testvex in TLA+

testvex is a small computer in an Anlogic FPGA: a VexRiscv core inside the
generated SoC `Briey`, the hand-written top level `top.v` around it (LCD text
screen, SPI port, touch panel), and a monitor program in C and assembly that
reads an SD card, loads Intel HEX and starts other programs. This directory
models the parts of it that decide something: clocked state machines, interrupt
and trap code, and the way the firmware uses the registers of the hardware.

Paths are relative to the repository (`top.v`, `briey/deb.c`, ...).

## 1. The system

| Component | Source | State | Operations | Talks to |
|---|---|---|---|---|
| Touch I2C master | `tpi2c.v` | sequencer `smstate`, requests `wtrg`/`rtrg`, engine `i2cstep`, bit and byte counters, samples | one clock: two `always` blocks; reset; a write to register 0 | NS2009 panel over two open-drain lines; `top.v` by write strobe and read mux |
| APB2 window | `top.v:270-457` | `gpioa_*`, cursor, touch registers, SPI shifter | register write, register read, one shifter step | processor; SD card; LCD |
| Timer interrupt | `briey/traphandler.c` | `TPX/TPY/TPEN`, `PENDINGS`, cause words | `irqCallback`, `sysCallback` | touch master, timer, `crt.S` |
| Trap entry and start-up | `briey/crt.S` | CSRs, trap frame, `sys_*` words | `crtInit`, `trap_entry` and its four exits | `main.c`, `traphandler.c`, any program `xgo` runs |
| SD driver | `briey/sdmm.c` | `Stat`, `CardType`, chip select | `disk_initialize/read/write/ioctl/status` | SPI shifter, FatFs |
| FatFs | `briey/ff.c` | `FATFS` with one sector window, `FIL`, `DIR` | `f_mount`, `f_open`, `f_read`, `f_findfirst`, `f_findnext` | SD driver, monitor |
| Monitor | `briey/deb.c` | `line[80]`, `datap`, `STARTADDR`, memory | `getline` and the commands | UART, FatFs, touch master, memory |
| Start of the firmware | `briey/main.c`, `uart.c`, `vga.c` | UART queues, display controller, frame buffer | `main` to the monitor; `uart_putc`, `vga_init`, `vga_clear` | all drivers |
| Formatted output | `briey/xprintf.c` | `xfunc_out` | `xputc`, `xputs`, `xvprintf` | console, UART |
| Text console | `briey/console.c` | `cursorX/Y`, text VRAM, escape buffer | `putch`-level output, scrolling, ESC sequences | LCD scan, `xprintf` |
| Symbol table | `briey/symtable.c` | fixed table | clear, put, get | `main`, programs, through system calls |
| LCD scan | `top.v:60-270` | `px`, `py`, blink and reset counters | one pixel clock | text VRAM, font ROM |
| `create_mif.rb` | `briey/create_mif.rb` | none | one pass | build |
| SoC | `Briey.scala`, `Briey.v` | generated | - | everything |

How they interact:

- The processor and the hardware share **registers, without a lock**. A
  conversion fills the three sample registers one by one while the interrupt
  handler, or the program it interrupts, reads them one by one.
- The **timer interrupt** (1 ms, `main.c:44`) may fall between any two
  instructions of the program: between two reads of the panel, in the middle of
  an SPI transfer, in the middle of start-up after a warm boot.
- The two state machines of `tpi2c.v` see each other **one clock late**, and see
  the bus two clocks late (input registers of `top.v` behind the pins).
- Every write to the APB2 window, whatever register it names, takes one clock
  **from the SPI shifter** (`top.v:386-445`, one `if/else` chain).
- A bus error does not stop the program: `trap_entry` **returns into
  `crtInit`**, with interrupts on and `.data` as it was.

- What survives a warm boot was left by **another run**: characters in the
  transmit queue, a display that is scanning, the driver's `Stat`, the card.
- The **card may be pulled out** between any two sectors, and FatFs keeps a mount, a
  window of one sector and a file object of it.
- **Keys queue up** in the UART while a command runs. What a command leaves in the
  queue is the beginning of the next line.

What must be right, and is hard to test:

| Component | Must hold | Why a test hardly reaches it |
|---|---|---|
| I2C master | exact words in order; requests and transfers in step after a reset at any clock; data edges only under a low SCL; every conversion ends | a reset or a stretched clock at one of tens of thousands of clocks |
| Interrupt, `xtptest` | an accepted triple is one conversion's; a held touch is seen again and again | two readers and a writer with no lock |
| SPI shifter | exactly the asked-for bits each way, whatever else is written; no MOSI edge under a high SCK | a write strobe in one particular clock of a bit |
| Trap entry | the interrupted code finds its registers; each trap ends where its kind says; a fault reaches `main`, which prints that fault | the interrupt must hit one of a few instructions of start-up |
| SD driver | sectors addressed in the card's units; every wait ends; a failure is reported | needs cards of every kind, failing on cue |
| Console | text in the order of output, cursor on the screen | corner cases of wrapping and escape sequences |
| FatFs | the bytes read are the file's; only files that are there open; a listing is the directory; no sector outside the volume is used; every call ends | damaged tables, entries across two sectors, failures and exchanged cards between any two sectors |
| Monitor | a command does to memory what the line says; a file in memory is the file sent, or a beginning of it; an echo shows the line | addresses at both ends, keys typed ahead, slips, bad and cut records, buffers at their limits |
| Start of the firmware | everything printed leaves the UART, in order; the frame buffer is clear, the functions are registered; `main` reaches the monitor | needs a UART and a display in the state an earlier run left |
| Formatted output | the field reads as the argument, in its width | combinations of flag, width, type and extreme value |
| Symbol table | a name put is found with the last address put for it | names at the field's width, a full table, a table used before |

## 2. The modules

```
 TpSampler   abstract: what the touch master promises
   ^   ^
   |   +---- TpI2c        tpi2c.v clock by clock, implements TpSampler
   |           MCTpI2c, TpI2cProofs
   +-------- Touch        traphandler.c, xtptest, over TpSampler
               MCTouch, TouchProofs
 SpiPort     the shifter of top.v under xmit_mmc and rcvr_mmc
               SdmmProofs (with those of Sdmm)
 Trap        crt.S, the callbacks, the warm boot
               TrapProofs
 Paper       abstract: what the console promises
   ^
   +-------- Console      console.c over the text memory, implements Paper
               MCConsole, ConsoleProofs
 SymDict     abstract: a dictionary of cut names
   ^
   +-------- SymTable     symtable.c, implements SymDict
               ^
               |
 Xprintf <---- Firmware   main.c, uart.c, vga.c, and programs that print or link
               MCFirmware, FirmwareProofs (with those of SymTable)
 Monitor     deb.c: line editor, commands, HEX loaders, over the receive queue
               MCMonitor, MonitorProofs
 FatNames    names, paths and patterns of ff.c
   ^
   +-------- FatFs        ff.c read path under xdir and xsdread, over a card
               MCFatFs, FatFsProofs
 Sdmm        sdmm.c under FatFs, with the card
               SdmmProofs
```

`MC` modules hold values for TLC, `Proofs` modules theorems. `TpI2c` is shown to
implement `TpSampler`, and `Touch` is built on `TpSampler`: what the handler
relies on is what the hardware was shown to do.

### TpSampler

Five lines of promise: a trigger zeroes the samples and starts a conversion;
Z1, X and Y are delivered in that order, each whole; a trigger during a
conversion is dropped; a reset abandons it. After a reset the *first* conversion
may be wrong, because nothing clears the request lines and the bus may be in the
middle of a byte; the variable `dirty` counts the conversions until the samples
are exact again. A panel that is absent reads as all ones.

### TpI2c

One step is one rising edge of `clk`. Both `always` blocks step together
(`SeqStep` and `I2cStep` are conjoined), with the input registers of `top.v`
(`sdain`, `sclin`) and the panel.

- The 14 values of `smstate` repeat the same four states per axis; the module
  groups them (`Commanding`, `WriteRaised`, `Writing`, `ReadRaised`, `Reading`).
- `i2cstep` has names for the code's 0, 1, 2, 3, 35, 4, 45, ... FF; the list is
  at `Steps`. The six countdown steps share `Delay`.
- `Reset` sets what the two reset branches set and no more: `wtrg`, `rtrg`,
  `iaddr`, `wdata` and the samples keep their values, as in the code.
- The write strobe of `top.v` is an input of each clock, free at every clock.
- Left out: `i2cack` and the upper halves of `i2csend`/`i2crecv`, which nothing
  reads.
- The **panel is external**, an I2C slave modelled from how `tpi2c.v` talks to
  an NS2009: address, command, two bytes of data, an acknowledge after each. It
  may be absent, may drive SDA up to `MaxLag` clocks late and hold SCL up to
  `MaxStretch` clocks at every falling edge. It does not take its own late
  acknowledge for a START.

### Touch

One action per device-register access, of the handler (`Irq...`) and of one
round of `xtptest` (`Main...`), with the sampler converting and the timer
ticking in between. The handler runs with interrupts off, so the program does
not step while it runs; the hardware does. `TPX` and `TPY` use integer division:
the handler's floating point computes `(x - TPXS) * 800.0 / (TPXE - TPXS)` and
truncates, which is the same number for every 12-bit `x`.

Two assumptions of time are made where they are needed and nowhere else:

- `Prompt`, the antecedent of `HeldTouchReported`: from some time on a conversion
  has ended when the next tick comes. One takes about 5900 clocks, a tick 50000
  (`main.c:44`). Without it the property is false.
- `MainPrompt`: `xtptest`'s three reads, about a hundred clocks, end before a
  conversion that an interrupt triggered between them delivers its first word,
  at least 2000 clocks later. Without it `PrintIsOneConversion` is false: the
  program has no other protection.

### SpiPort

A write to a register, by its strobe's rising edge (`LoadOut`, `LoadCnt`,
`PortWrite`, `OtherWrite`), or a shifter step (`ShiftIn`, `ShiftOut`, `Rest`).
`OtherWrite` is anyone else's write, which may come at every clock. The driver
is the loop of `xmit_mmc` and `rcvr_mmc`: load, write the count, poll. The card
is external and is recorded in `got` and `sent`. The registers have no reset in
the code; power-up values are 0, `mosi` as the initial `gpioa_out`.

### Trap

`stage` is where in `trap_entry` the processor is, `at` the code that runs or
was interrupted: start-up in its four parts, or a program started by `xgo`. The
frame is sixteen words, saved in the order of `Saved` and restored through the
separate table `Offset`, as the code writes the sixteen offsets twice.
Processor behaviour (`Enter`, the last half of `Restore`) is external. A handler
leaves `"junk"` in every saved register, so that a register that is not restored
shows.

### Paper and Console

`Paper` is a roll of lines that only grows and a column on the last of them;
glyphs wrap at the right margin onto a new empty line. `Console` shows that the
text memory is always the end of that roll: `gone`, the rows scrolled off, with
the rows down to the cursor, is the roll. An action is a call of `console_putc`
(one per branch of its two `switch`es), `console_scroll` or `console_clear`;
`console_puts` is a run of `console_putc`. A report of an unknown character or
sequence (`debugout`) prints its four or seven glyphs in the same call.

The promise has two holes, which `astray` marks until the screen is cleared:

- `ESC [ D` without a number subtracts one from an unsigned `cursorX`, at column
  0 too. `cursorX` is modelled modulo `Modulus` and added to an address as the code
  does it.
- `debugout` scrolls once, at its end. A report that passes the bottom right corner
  writes its tail into the row below the screen, which the text memory has and
  the scroll does not move.

### SymDict and SymTable

`SymTable` has the three calls over an array of fixed fields. `SymDict` is a
dictionary that tells names apart by their first `SYMNAMELEN` characters, refuses a
new name when it is full and answers an insertion with the slot, an update with
nothing. `FindsWhatWasPut` is the refinement. It has one hole, marked by `lost`
(the abstract `astray`): `strncpy` with the length of the name stores no NUL, so in
a slot that held a longer name before `symt_clear` a new name keeps the tail of
the old one. `symt_clear` also writes one word past the table (`beyond`).

### Xprintf

`xvprintf` as an operator from a format and arguments to the characters handed to
`xputc`: every type letter, the flags `0` and `-`, a width from the format or by
`*`, numbers modulo `WordSize`. Digits are computed as in the code, by division and
from the last to the first; the buffer of 32 characters holds the longest of them.
The code's loop is `Turn`, one character or one `Conversion`, taken as often as the format
is long. Like the conversions of `FatNames`, loops are recursive functions and no
recursive operators, so that the modules above it can be proved about.

### Firmware

`main` one call or loop turn at a time, from a cold or a warm start: `uart_init`,
`vga_init` (waits for the display), `vga_clear`, `console_clear`, `xdev_out`,
`symt_clear`, fifteen `symt_put`, the report. The UART's transmit queue drains
(`Send`) and the display's frame ends (`FrameEnds`) beside it; at the start the
queue may hold characters, the display may be scanning and the frame buffer holds
an old picture. Then the monitor is reached and programs are loaded, one that
prints fields and strings and one that looks names up and edits the table.
`Firmware` extends `SymTable` and `Xprintf`: its steps are their actions.

Two of its assumptions are facts about the code's tables and formats, which TLC
computes for the code's own: `ExportsFit` (there is room for `main`'s names, and twelve
characters tell them apart) and `OutputIsText` (the conversion of every format that is
printed is a sequence of characters, and no line of `main` is empty). A third,
`CallsAreWellFormed`, says what a program prints with: one of the two flags or none, a width that is a
star or a number without a zero before it (that zero would be the flag), a type of
a string or a number, a word of the machine for a number. Its strings have no blank, by
which a reader finds where they end, and no line feed.

### Monitor

One action per key of `getline` (character, backspace, `^X`, ignored controls, end),
per fill, row of a dump, answer to a set command, character of a HEX file the
terminal sends, and `f_read` of one on the card. The user is external and may
press keys at any time: the receive queue holds them, and drops what does not fit.
`stored` is the sequence of writes to memory; a dump shows addresses. A
program `xgo` starts is external and may return. In the state `overrun` `line` has
been written past its end; what follows is undefined and the model stops
there. Numbers, records and files are text on the way in, made by the user
(`Number`, `RecordText`, `TextOf`, external) and taken apart again by the code
(`getdata`, `hxbyte`); that the two agree is part of the properties, not of the
model. Three assumptions say what the user types: `Alphabet` (which keys are
digits, letters, controls), `HexFiles` (records as the HEX format has them; their
order, lengths, types and sums are free) and `AsTyped` (numbers are addresses, a
slip is rubbed out again). Left out: what commands print, the touch
test (module `Touch`) and the directory (module `FatFs`).

### FatNames and FatFs

`FatNames` has the conversions of names: a path's segment to directory form
(`create_name`, with DBCS and escapes of `E5`), an entry to the shown name, pattern
matching. `FatFs` has the functions the monitor calls, down to the FAT. A step is
one sector examined, one directory entry looked at or one turn of `f_read`'s loop.
A card is a sequence of sectors, each a record of the fields the code takes from
it; file data has no value, only a place `<<card, sector, offset>>`. The one window
(`win`), the mount (`fs`) with its ID, the file object and the directory object are
as in the code, with the checks of `validate`. The card may be pulled out between
any two steps, another may be put in between commands, and any read may fail.

Sums of sector numbers are not cut to 32 bits: a boot sector whose geometry passes
2^32 is not modelled.

What was written on a card is said a second time, without the code's arithmetic, as
`Volumes`: which sectors hold which file. The properties compare the two.

### Sdmm

One action per command or data block. The driver's program counter is the command
to be sent next; both polling loops of `disk_initialize` share `Polled`. `Stat` is
in `.data` and `CardType` in `.bss`, so `Restart` (a reset, a warm boot) clears one
and keeps the other.

- The **card is external**: MMC, SD 1, SD 2 by byte or SDHC by block, native after
  power-up, with what it is sending and from where. Any command may find it
  silent, any block may fail, and `Swap` puts another card in its place at any
  step. A reset does not reach it, so it may still be sending when CMD0 comes.
- **FatFs and the monitor are external** here: `Mount` is `f_mount`, which clears
  `fs_type` (`ff.c:3642-3677`), so that the next access runs `disk_initialize`
  (`ff.c:3399-3413`); only a volume that is open is read. Conversely `FatFs` takes
  `disk_initialize` and `disk_read` as single calls that succeed or fail: that a
  call that succeeds gives the sectors asked for is what `ReadsRight` shows here.
- `disk_write` and `disk_ioctl` are called wherever a read may be. FatFs is
  configured read-only (`ffconf.h:11`) and calls neither.
- `select` and `wait_ready` are folded into the answer: their failure is a command
  that finds no response.
- Left out: the number of sectors computed from the CSD, the overflow of
  `sector * 512`, and an answer that comes after the driver has given up on it.

## 3. The runs

| Run | Module | Bounds | Distinct states | Shows |
|---|---|---|---|---|
| `tpi2c` | MCTpI2c | delays 4 and 6, lag up to 4 clocks, stretch 1, 1 reset at any clock, two words per axis | 342 thousand | types, the handshake, the data-edge rule, the refinement of TpSampler with values, every conversion ends |
| `tpi2c_stop` | MCTpI2c | delays 2 and 1 | - | *violation*, section 6 |
| `touch` | MCTouch | words on both sides of each bound | 563 thousand | triples, screen points, no double report; a held touch is reported again and again |
| `spi` | SpiPort | registers of 4 bits, counts 2 and 4 | 30 thousand | exact transfers, still MOSI, transfers end |
| `trap` | Trap | codes 2, 3 and 5, sp may break | 10 thousand | registers, return places, the printed fault; a fault with an aligned sp leads to `main` |
| `trap_irqcause`, `trap_sp` | Trap | - | - | *violations*, section 6 |
| `console_safety` | MCConsole | 7 columns, 2 rows, 8 calls after a clear | 675 thousand | the cursor on the screen, the refinement of Paper |
| `sdmm` | Sdmm | 4 kinds of card, transfers of 1 or 2 sectors, 2 polls, 1 card change | 301 thousand | transfers are right, streams stopped, `Stat` and `CardType` agree, every call ends |
| `firmware` | MCFirmware | the code's 15 names, 12 characters, 16 slots; words of 16 bits, a queue of 2, 4 by 2 pixels, 4 edits of the table | 77 thousand | output arrives whole, start-up is complete and ends, fields read as their arguments, the refinement of SymDict |
| `monitor` | MCMonitor | 3 digits, rows of 4, a line of 20, records up to 7, a queue of 2, 2 commands, 1 key lost | 252 thousand | echo, dumps, fills, sets, loaded files, what overruns the line, every command ends |
| `fatfs` | MCFatFs | sectors of 8 bytes, names of 2 + 1, 7 cards, 10 paths, reads of 1, 2 and 5 bytes | 56 thousand | bytes, opening, listing, bounds of the volume, every call ends |

Why the bounds are enough.

- *Delays.* 4 and 6 stand for the code's 16 and 64. Each is the value a down counter is
  loaded with, compared with nothing else; the longer one stays the longer. The
  theorems of section 5 hold for any.
- *Lag.* Up to the half bit, which is the largest that works: with one clock more
  `Implements` fails, because the bit is taken two clocks of input registers behind
  the line, when the delay runs out. With the code's 16 clocks at 50 MHz the panel
  has 0.32 microseconds to drive SDA.
- *Resets.* One, at any clock of any conversion. What a reset leaves depends only
  on the registers, all of which the first conversion after it overwrites, so two
  resets reach no state of the request lines that one does not. The theorems have
  no such bound.
- *Samples.* Two words per axis that differ in every bit, so that exchanged
  nibbles, bytes or axes are different words. `touch` has the words just inside and
  just outside the handler's bounds, and those `xtptest` takes and the handler does not.
- *Width of the shifter.* 4 and counts {2, 4} stand for 32 and {8, 32}: one count
  is the width (the index wraps at the last bit), one is shorter (bits of the
  last transfer must not show). 32-bit data would be 2^64 states.
- *Exception codes.* 2 and 5 are faults, 3 is the breakpoint `crt.S` tests first;
  the other codes take the same branch as 5.
- *Console.* Seven columns are the length of the longest report, so a report can
  start at any column and pass the margin at all of them; the code has 100. Two rows have
  a top, a bottom and a row that moves. Eight calls fill a row and scroll, or
  move, clear to the end of the line and overwrite; a number has at most two
  digits, one above and one below the width. `Modulus` stands for 2^32.
- *SD driver.* Two polls are one that goes on and one that runs out, of 1000. Two
  sectors make a multiple transfer with a first and a last block. One change of card
  at any step gives every pair of kinds; a second one would start again from a
  native card, which a driver that has not initialized it cannot read. Sectors 1
  and 2 with 2 bytes each make the block address 2 and the byte address of
  sector 1 the same number, so an address of the wrong unit reads another sector
  instead of being refused.
- *Firmware.* The table has the code's size and `main`'s own names, of which one is
  longer than the field; a program adds a name that is shorter than one of
  them, one that is cut to one of them, and one more, which fills the table. Words of
  16 bits have the sign, the extreme values and every digit; the code has 32. A
  queue of 2 is full after one character left over and one put. The frame is 4 words.
- *Monitor.* Three digits make addresses of 3^8 and bytes of 0..8, the smallest in
  which a byte can tell the types of records apart. A line of 20 and records up to 7
  bytes keep the code's relation of 80 to 40: the longest record the loader admits, 2
  \* 7 + 8 characters, does not fit. There are commands at both ends of the address
  space, with the end before the begin, with slips, and files that are good, bad,
  too long, of unknown type, empty or cut anywhere. Two commands show what the first
  leaves to the second; the second may be typed before the first is done. One lost
  key anywhere already shifts all that follow.
- *FatFs.* Each card is one way a volume lies on a card or is damaged: FAT12
  without a partition table, with clusters of two sectors, an entry across two
  sectors of the FAT and a full root; FAT16 in the second partition; FAT32 with a root
  of two clusters; a root whose chain is a circle; chains cut or leading outside; a
  blank card; a boot sector the code must reject. The limits between FAT types and of a
  directory are scaled so that these cards have the types they need; entries of a
  FAT have their widths. 1, 2 and 5 bytes of a sector of 8 make reads that end
  inside, at and across a sector's end.

Deadlock is checked in every run but `monitor`, where the commands are bounded, and an
overrun of `line` ends what the model says.

## 4. Fairness

- `TpI2c`: `WF(Tick)`, the clock runs. Resets are bounded by `MaxResets`, and a
  reset is no part of `Tick`.
- `TpSampler`: a conversion that has begun ends. `ConversionEnds` is what
  justifies it.
- `Touch`: the sampler converts, the timer ticks, the processor executes the
  handler or the program. Nothing assumes that the program ever reads between
  two conversions.
- `SpiPort`: clocks go on, and the driver's poll is executed. No fairness says
  that other writes stop: the edge detection on the strobe (`top.v:386`) is what
  leaves clocks to the shifter.
- `Trap`: the handler's instructions are executed. Start-up is strongly fair: an
  interrupt disables it, but ticks come a millisecond apart and the handler needs
  a fraction of that.
- `Sdmm`, `FatFs`: a call that has begun goes on. The card need not answer: the
  driver's loops count. Nothing is assumed of FatFs in `Sdmm`, of new commands, of
  resets or of changes of card.
- `Firmware`: the UART sends what is queued, a frame that is being scanned ends when
  the controller has been stopped, `main` and the output loop go on. Nothing says that
  a program is loaded.
- `Monitor`: the monitor goes on, and a command the user has begun is typed to its
  end. Nothing says that a user begins one, nor that a program returns.

## 5. The proofs

The eight modules named `...Proofs` are checked by TLAPS from the assumptions on the
constants (naturals for delays, bounds and sizes, words for the samples), and from a
hypothesis where a theorem names one. They hold for every delay, lag, stretch, number
of resets, width, set of samples, table size and number of retries, where the runs show
one instance.

`TpI2cProofs`

- `TypeCorrect`: `Spec => []TypeOK`. `TypeOK` alone is not inductive: `i2ccnt`
  indexes two bytes in a write and three in a read, and the bound depends on the
  mode and on the step. `TypeInv` adds that.
- `SdaDiscipline`: `SdaMovesWhileSclLow`, from `LineInv`, which says at which
  steps of the engine the two lines are where, that SCL is down in the steps that
  change SDA and SDA is up where a transfer ends. It needs no fact about the panel.
- `HandshakeCorrect`: `HandshakeInv`. Inductive form `HandshakeIInv`: the relation
  of requests, mode and step, *guarded by how far the sequencer has come since a
  reset*; a stale request is absorbed by the first write and the first read.
- `SamplesInOrder`: `TpI2c` implements the sampler, up to the values on the bus
  (`DeliversInOrder`). The initial state maps to an initial state; each clock maps
  to a trigger, a delivery, a reset or a stutter. It needs `TypeInv` only, and holds
  for every lag of the panel.
- `ExactSamples`: `TpI2c` implements the sampler *with* the values (`Implements`), for
  every stretch, number of resets and set of samples and all delays with `InTime`: the
  panel drives SDA no later than a half bit after SCL fell (TLC finds a wrong sample
  one clock beyond that) and no later than the pause between transfers, which in the
  code is four half bits. The invariant, `LinkInv`, puts together
  - the master: `SeenInv`, where the lines are in each step and that the engine has
    seen them there, `EndInv`, `SdaInv`, what it drives on SDA;
  - the panel: `PanelInv`, what it drives by its place in the byte, and `CountedInv`:
    from its last START it has counted at least the rises of SCL of this transfer. So a
    panel that a reset left in the middle of an old byte is out of it after the 27
    clocks of a read. `ModeInv` and `ReleasedInv` say that such a read precedes the
    first conversion that counts as exact, and that it leaves the bus free;
  - both in step: `LockInv` (byte and clock are the same on both sides) and `LateInv`
    (how many clocks late the panel's data may still be at each step), which exclude
    every START but the first clock's and every STOP but after a read's last byte;
  - the data: `AskedInv`, `HeardInv`, `ValueInv`, `TakenInv`: what the sequencer asked
    for is what is sent, heard, converted and taken.

  `PanelEvents` turns a clock of the panel into five events (START, STOP, nothing, rise,
  fall) with their effect on each field; every preservation lemma goes by them and by
  the steps of the engine.

`TouchProofs`

- `CoherentReport`: `ReportIsOneConversion`, for every interleaving and every set
  of samples. Why three unlocked reads are safe: a trigger zeroes all three
  samples and the handler refuses a Z1, X or Y of zero, so it can only accept what
  was there before the next trigger; the only trigger comes from the handler itself,
  after its reads. `ReadInv` says that a register already read and above its bound
  is what `data` holds and, if the phase has passed that axis, will be of `last`;
  `SamplerInv` relates `data` to `last` when the sampler is idle. `Types` carries
  the types and `FreshInv` the history variable of the next theorem.
- `SingleReport`: `ReportedOnce`, from the same invariant `IInv`: an accepted
  triple means the sampler is idle, so the trigger that follows is not dropped.
- `TypesKept` and `PointsOnScreen`, from `PInv`: between the test and the writes the
  locals still pass the test, and a pair that does is scaled into the screen
  (`ScreenRange`).
- `WholePrint`: with `MainPrompt`, `PrintIsOneConversion`. `MainInv` has two halves.
  While no trigger has come between its reads, what `xtptest` has read and can accept
  is still in the registers (`OwnReads`); after one, the registers are zero until it is
  done and what it has read is the last triple's (`SweptReads`). The step between the
  halves is `TriggerMainInv`: a trigger that is taken finds the sampler idle.

`SdmmProofs`, the part on `SpiPort` (the port the driver's bytes go through)

- `ExactTransfer` and `StableMosi`, for every width. `CountInv` relates the shifter's
  bit counter to the driver's transfer, `NextBitInv` says which bit is on
  MOSI and which comes next in each half of a clock of SCK, `BitsInv` which have gone
  and come. Another write to the window takes a clock but leaves all of them,
  whatever it is.

`TrapProofs`

- `RegistersSurvive`, `TrapsReturn`: `FrameInv` follows the saving and restoring of
  the frame register by register; `FrameOrder` is the fact that the two tables of
  offsets in `crt.S` are each other's inverse.
- `FaultPrinted`: `CauseInv` and `FaultInv`. The words for `main` are shared by all
  traps; between a fault and `main`'s printing only interrupts can come, and what they
  store goes elsewhere. This is why finding 2 does not spoil the report.

`ConsoleProofs`

- `CursorStays` (`CursorOnScreen`) and `ShowsThePaper` (`Implements`), for every width
  of at least seven columns, every height and every sequence of calls. The inductive
  invariant is small: types, and `Intact`: until the promise is broken the cursor's
  column is on the screen and every row below the cursor is empty, the hidden one
  behind the last row included. The work is in what one glyph does to the roll
  (`Out` against `Printed`, with and without a scroll) and in carrying that over the
  glyphs of a report: `Can(n)` says, glyph by glyph up to the seven of a report, that a
  run of either exists.

`MonitorProofs`

- `TerminalShowsLine` (`EchoShowsLine`) and `OverrunOnlyByLong` (`OverrunByLong`), for
  every size of the line and of records, every table of capitals and whatever keys
  come or are lost. The two with `Counts` are inductive: every step either edits the
  line and its picture at the same place, or leaves both alone, or begins anew.
- `FilesAreLoaded` (`FilesLoaded`), for every file, base of the digits, size of the
  line and of records and depth of the queue, as long as no key of it is lost, and wherever
  the card fails. `FInv`, inductive by `FilesInductive`, numbers the keys of the command: `Left(k)` says that k of
  them have been taken and the rest is in the queue or still to be typed, in order.
  `Reading` then says for each k what `xread` must have: `Typing` and
  `Entered` the command itself, `Seeking(f, n, k)` that the first n records are in
  memory (`Have`), `InRecord(f, n, m, k)` that m bytes of the next one are, with half a
  byte or not, and `Ended` that the loader is done, so that what it leaves of the
  ending record comes to the monitor as a line and starts nothing. `OnCard` says the
  same of `xsdread`, by what `f_read` has left of the file (`Behind`).
- `CommandsAreExact` (`CommandsExact`), for all addresses, bytes and answers, every base
  of the digits and every size of a row, at both ends of the address space. `CInv`,
  inductive by `CommandsInductive`, has the same shape: `Filling`, `Setting` and `Dumping` say
  for each k what the line holds (`Amid`, and `Slipping` for a slip being rubbed out,
  where the line is as long as `Rubbed` has it), which answer is acted on
  (`Asking`, with `HasStored` for those before it) and which row comes next
  (`Spans`, `Dumped`).

  Both rest on a theory of what the user types. `Chain` gives the recursive
  functions of the model their equations; `Pieces` and `Lies` find the record and the
  byte a key belongs to in a flattened sequence; `Made` shows by the weights of the places that
  `getdata` returns the number that was typed, in any base. An induction over a
  file, a number or a list of answers is made without a parameter, by the least place
  at which the claim would fail (`WFMin` over the naturals).

`FirmwareProofs`

- `IsDictionary`: `SymTable` implements `SymDict`, call by call. `KeysApart` (no two
  slots in use have the same key, until a tail was left) makes the set of entries a
  function; `SameKey` turns the code's comparison of strings into equality of keys, and
  `EntryCount` the number of slots in use into the size of the dictionary.
- `NothingLostOnTheLine` (`OnTheWire`), `LeavesItReady` (`StartedUp`) and
  `StaysDictionary` (`FindsWhatWasPut` under `Firmware`'s own steps), for every depth of
  the queue, size of the display, table and list of names, whatever a run before left.
  `IInv` says for each step of `main` what has been done by then: `TableFilled` that
  the first n names are whole in the first n slots and nothing is in the others
  (so that `Find` gives slot i for name i), `OnScreen` that what was said is on the
  screen or on its way, `Queue` that only the first character is ever half put (on the
  line and not yet on the screen), `PictureCleared` that the words of the frame are zero,
  for which the width must be even. `OnTheWire` is part of it.
- `PrintsWhatItIsGiven` (`PrintsTheValue`), for every call: each number of a word
  of any size (`WordSize` even), each string, type letter, flag and width. The state has
  little to do with it: `CallShown`, the invariant, says that what is on the screen and what is
  still to go out are together what `xprintf` made of the call (`PrintedIs`, that is
  a field between its marks). What that field is needs an induction over each
  of the model's recursive functions. `NumeralRead`: the sum of the digits of a
  numeral, weighed by the radix, is the number it was made of, and only that of zero
  begins with a zero. `PaddedIs` and `Shape`: a field is a fill, the numeral and a fill,
  one of the fills empty. `FieldRead`: neither a fill nor the sign adds to the sum.
  `PrintsField`: of the turns of `xvprintf`'s loop the first prints the mark, the second the
  field (`SecondTurn`, by `WidthEnds` on where the width's figures end), the third the
  other mark, and the rest nothing. As for the HEX loaders, each induction is made
  by the least place at which the claim would fail.

`FatFsProofs`

- `StaysInVolume` (`InsideVolume`), for every card, geometry, path and sequence of
  calls, with the card pulled out or exchanged at any step. `GeometryOK` is what
  `check_fs` establishes of a volume it accepts; the rest of `IInv` says that a
  cluster number in use was compared with `n_fatent` before it became a sector
  (`DirInside`, `FileInside`), where each step of a call stands (`Phases`), and that the
  window holds a sector of the volume or was declared lost (`WindowInside`). The FAT
  itself may say anything.

`SdmmProofs`

- `ReadsWhatWasAsked`, `StreamsStopped`, `OpenInitialized`, for every number of polls,
  sectors and card changes. `FsInv`: the driver
  initializes for a mounted volume and transfers for an open one, which
  `OpenIsInitialized` says it knows the type of. `KindInv` and `OwnInv`: as long as the
  opened card is in the slot and ready,
  `CardType` addresses it in its unit; another card is native and gives no block.
  `CountInv`, `BuffInv` and `SendInv` are the transfer's progress, `StreamInv` where a
  card may still be sending. Lemmas on the card's answers keep the cases small.

Each preservation lemma has a step per action and a QED per level; facts about
words, nibbles and phases that several steps need are lemmas at the head of the
module.

Only model-checked, and why:

- `ReadsTheFile`, `OpensWhatExists`, `ListsTheDirectory`: they compare the code's walk over FAT,
  directory and names with `Volumes`, the second account of what was written on the
  cards, which is given by value for the cards of the run. A proof for every card needs a
  definition of a well-formed volume of each FAT type, down to its bytes, which neither the code
  nor its documents have.
- `AlignedFaultReboots`, `BootEnds`, `CallEnds`, `Answers` and all other liveness: the
  prover does none.

Only proved, and not in a run: the type invariants of `SpiPort` and `Trap`.

## 6. What the checks found

1. **No STOP condition** (`tpi2c_stop`). Step A releases SDA in the clock that pulls
   SCL low (`tpi2c.v:369-370`), so the step commented `STOP CONDITION` only raises
   SCL with SDA already high. The panel sees repeated STARTs. Only a late release
   of an acknowledge may make a STOP, by accident. Conversions are right all the
   same (`Implements`).
2. **irqcause is not the interrupt's cause** (`trap_irqcause`). `is_irq` stores into
   `sys_irqcause` and `sys_irqpc`, and `irqCallback` copies `sys_mcause` and
   `sys_mepc`: the last system call or fault.
3. **A misaligned sp ends the program for good** (`trap_sp`). `trap_entry` stores its
   frame at `sp` before it looks at the cause; if the store faults, the trap
   enters itself and never reaches the warm boot.

Facts met on the way that no document denies. The models have all of them.

- A tick between the read of `PENDINGS` and its write-back is lost (harmless: the
  next comes a millisecond later).
- After a trigger the engine waits for SCL without a timeout.
- `xtptest` has inclusive bounds where the handler's are strict: X = 3904 prints
  column 800 of an 800-column screen.
- `getline` bounds nothing, and `xsdread` admits records of 40 bytes, 88 characters,
  into `line[80]`.
- The HEX loaders store a record before they test its sum, and test none of a type
  04 or 05 record. What `xread` leaves of the ending record is the next command line.
- `xsdread` takes a read that fails for the end of the file.
- A dump without an end so close to the top that eight rows would pass it shows
  nothing; a fill with its end before its begin goes around the address space, and one
  with its end just before its begin, so that of all of memory, stores nothing, because
  `to - from + 1` is then 0. (The proof found the second half: a model checked with no
  such fill had it go around like the others.)
- `symt_clear` writes a word past the table; a name stored in a slot that held a
  longer one before a clear keeps the tail of it.
- FatFs passes over a partition it cannot read and may mount the next. A directory
  entry just before a broken link of the chain is not shown, since the listing moves
  on before it returns the entry.

## 7. What is left

In this order:

1. What a well-formed FAT volume is, as a definition, so that what `f_open`, `f_read` and
   `f_findnext` return can be proved and not only checked on seven cards.
2. `FatFs` with reads of a sector and more, if a program comes to use them.
3. Code loaded through the data cache and run through the instruction cache, when the
   cache configuration is part of the source.

## 8. Not modelled

- The generated core and SoC (`Briey.v`, `Briey160.v`, `murax.h`): 36000 lines of
  SpinalHDL output. What the firmware relies on of it, traps and the timer, is
  external in `Trap` and `Touch`. With it goes the instruction cache, which `xgo` does
  not flush: the source says nothing of its size.
- The LCD scan, hardware cursor and reset counter of `top.v`: counters that run
  freely, for which no code waits.
- `create_mif.rb`: a build script without state.
- Of FatFs: everything its configuration compiles out (`FF_FS_READONLY` above all), and what
  `deb.c` never reaches (transfers of whole sectors, `f_lseek`, patterns other than
  `*`, listing a sub-directory).
- Of `xprintf.c`: `xsprintf`, `xfprintf`, `put_dump`, `xgets`, `xatoi`, which nothing
  calls.
- Of the start-up: registers of GPIO and timer that are written once.
- Vendor IP (`al_ip`), pin and timing constraints, frame-buffer demos, MicroPython
  scripts and images.
