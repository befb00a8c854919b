-------------------------------- MODULE Trap --------------------------------
(***************************************************************************)
(* src/briey/crt.S: start-up, the trap entry and its four ways out, and    *)
(* the cause words that traphandler.c and main.c read.  The processor's    *)
(* own part of a trap (VexRiscv's CsrPlugin) is external.  One action is   *)
(* one stretch of crt.S that an exception or an interrupt cannot split, or *)
(* one step of the program it serves.                                      *)
(***************************************************************************)
EXTENDS Integers, Sequences

CONSTANTS
    Faults          \* exception codes the program may raise, ecall apart

ASSUME FaultCodes == Faults \subseteq 0..7

VARIABLES
    at,             \* the code that runs, or that the trap interrupted
    stage,          \* "run", or the part of trap_entry reached
    MIE, MPIE, mie, mcause, mepc,
    irqline,        \* the timer's interrupt output
    spOk,           \* sp is a multiple of four
    regs, frame,    \* the registers trap_entry saves, and where
    sys,            \* sys_mcause ... sys_irqpc of .data
    callback,       \* irqcause, irqpc, trapcause and trappc of .bss
    printed,        \* what main last printed of sys_mcause and sys_mepc
    fault           \* history: cause and pc of the last fault

csrs   == <<MIE, MPIE, mie, mcause, mepc>>
memory == <<frame, sys, callback>>
vars   == <<at, stage, csrs, irqline, spOk, regs, memory, printed, fault>>

\* Saved[k] goes to -4k(sp); Offset[r] is the word of the frame r comes back from.
Saved == <<"x1", "x5", "x6", "x7", "x10", "x11", "x12", "x13",
           "x14", "x15", "x16", "x17", "x28", "x29", "x30", "x31">>
Register == {Saved[k] : k \in 1..16}
Offset == [x1 |-> 15, x5 |-> 14, x6 |-> 13, x7 |-> 12,
           x10 |-> 11, x11 |-> 10, x12 |-> 9, x13 |-> 8,
           x14 |-> 7, x15 |-> 6, x16 |-> 5, x17 |-> 4,
           x28 |-> 3, x29 |-> 2, x30 |-> 1, x31 |-> 0]
A1Offset == 10          \* mutant: the result stored in the next slot
A0Offset == 11          \* where is_syscall stores the result
Slot(offset) == 16 - offset

\* Every register holds its own name while its owner runs.
Own == [r \in Register |-> r]
Junk == [r \in Register |-> "junk"]

Cause(irq, code) == [irq |-> irq, code |-> code]
None  == Cause(FALSE, 0)
Timer == Cause(TRUE, 7)
Ecall == Cause(FALSE, 11)
IsFault(c) == ~c.irq /\ c.code <= 7 /\ c.code # 3

Places == {"crtInit", "bss", "ctors", "main", "user", "user+4"}
Stages == {"run", "save", "dispatch", "irq", "syscall", "buserr", "unhandled", "restore"}

Init ==
    /\ at = "crtInit" /\ stage = "run"
    /\ MIE = FALSE /\ MPIE = FALSE /\ mie = FALSE /\ mcause = None /\ mepc = "crtInit"
    /\ irqline = FALSE /\ spOk = TRUE
    /\ regs = Own /\ frame = [k \in 1..16 |-> "junk"]
    /\ sys = [mcause |-> None, mepc |-> "none", ucause |-> None, uepc |-> "none",
              irqcause |-> None, irqpc |-> "none"]
    /\ callback = [irqcause |-> None, irqpc |-> "none", trapcause |-> None, trappc |-> "none"]
    /\ printed = <<None, "none">> /\ fault = <<None, "none">>

-----------------------------------------------------------------------------
\* The processor.

\* An exception or interrupt: trap_entry runs with interrupts off.
Enter(cause, pc) ==
    /\ mcause' = cause /\ mepc' = pc
    /\ MPIE' = MIE /\ MIE' = FALSE
    /\ stage' = "save"
    /\ UNCHANGED <<at, mie, irqline, spOk, regs, memory, printed>>

TimerTick ==
    /\ irqline' = TRUE
    /\ UNCHANGED <<at, stage, csrs, spOk, regs, memory, printed, fault>>

Interrupt ==
    /\ stage = "run" /\ MIE /\ mie /\ irqline
    /\ Enter(Timer, at) /\ UNCHANGED fault

-----------------------------------------------------------------------------
\* Start-up.

CrtInit ==
    /\ stage = "run" /\ at = "crtInit"
    /\ at' = "bss" /\ spOk' = TRUE /\ regs' = Own
    /\ UNCHANGED <<stage, csrs, irqline, memory, printed, fault>>

\* Clears .bss; .data, where the sys_ words are, is not touched.
BssInit ==
    /\ stage = "run" /\ at = "bss"
    /\ at' = "ctors"
    /\ callback' = [irqcause |-> None, irqpc |-> "none", trapcause |-> None, trappc |-> "none"]
    /\ UNCHANGED <<stage, csrs, irqline, spOk, regs, frame, sys, printed, fault>>

CtorsInit ==
    /\ stage = "run" /\ at = "ctors"
    /\ at' = "main" /\ mie' = TRUE /\ MIE' = TRUE
    /\ UNCHANGED <<stage, MPIE, mcause, mepc, irqline, spOk, regs, memory, printed, fault>>

\* main prints the cause words on its way to the monitor.
Main ==
    /\ stage = "run" /\ at = "main"
    /\ printed' = <<sys.mcause, sys.mepc>>
    /\ at' = "user"
    /\ UNCHANGED <<stage, csrs, irqline, spOk, regs, memory, fault>>

-----------------------------------------------------------------------------
\* The program.

UserEcall ==
    /\ stage = "run" /\ at = "user"
    /\ Enter(Ecall, at) /\ UNCHANGED fault

UserFault ==
    /\ stage = "run" /\ at = "user"
    /\ \E code \in Faults :
         /\ Enter(Cause(FALSE, code), at)
         /\ fault' = IF IsFault(mcause') THEN <<mcause', at>> ELSE fault

UserGoesOn ==
    /\ stage = "run" /\ at = "user+4"
    /\ at' = "user" /\ regs' = Own
    /\ UNCHANGED <<stage, csrs, irqline, spOk, memory, printed, fault>>

UserBreaksSp ==
    /\ stage = "run" /\ at = "user"
    /\ spOk' = FALSE
    /\ UNCHANGED <<at, stage, csrs, irqline, regs, memory, printed, fault>>

-----------------------------------------------------------------------------
\* trap_entry.

\* Save sixteen registers below sp; a misaligned sp faults on the first store.
Save ==
    /\ stage = "save" /\ spOk
    /\ frame' = [k \in 1..16 |-> regs[Saved[k]]]
    /\ stage' = "dispatch"
    /\ UNCHANGED <<at, csrs, irqline, spOk, regs, sys, callback, printed, fault>>

SaveFaults ==
    /\ stage = "save" /\ ~spOk
    /\ Enter(Cause(FALSE, 6), "trap_entry")
    /\ fault' = <<mcause', "trap_entry">>

\* The four compares, in their order.
Dispatch ==
    /\ stage = "dispatch"
    /\ stage' = IF mcause = Ecall THEN "syscall"
                ELSE IF mcause = Cause(FALSE, 3) THEN "unhandled"
                ELSE IF ~mcause.irq /\ mcause.code <= 7 THEN "buserr"
                ELSE IF mcause.irq /\ mcause.code > 0 THEN "irq" ELSE "unhandled"
    /\ UNCHANGED <<at, csrs, irqline, spOk, regs, memory, printed, fault>>

\* Mutant: the interrupt's words stored where the callback looks for them.
IsIrqStoresMcause ==
    /\ stage = "irq"
    /\ sys' = [sys EXCEPT !.mcause = mcause, !.mepc = mepc]
    /\ callback' = [callback EXCEPT !.irqcause = mcause, !.irqpc = mepc]
    /\ irqline' = FALSE
    /\ regs' = Junk
    /\ stage' = "restore"
    /\ UNCHANGED <<at, csrs, spOk, frame, printed, fault>>

\* irqCallback copies the words of the last system call or fault.
IrqCallback == [callback EXCEPT !.irqcause = sys.mcause, !.irqpc = sys.mepc]

\* is_irq; the callback also clears the timer.
IsIrq ==
    /\ stage = "irq"
    /\ sys' = [sys EXCEPT !.irqcause = mcause, !.irqpc = mepc]
    /\ callback' = IrqCallback
    /\ irqline' = FALSE
    /\ regs' = Junk
    /\ stage' = "restore"
    /\ UNCHANGED <<at, csrs, spOk, frame, printed, fault>>

\* Mutant: mepc left at the ecall.
IsSyscallStays ==
    /\ stage = "syscall"
    /\ sys' = [sys EXCEPT !.mcause = mcause, !.mepc = mepc]
    /\ callback' = [callback EXCEPT !.trapcause = mcause, !.trappc = mepc]
    /\ frame' = [frame EXCEPT ![Slot(A0Offset)] = "result"]
    /\ mepc' = mepc
    /\ regs' = Junk
    /\ stage' = "restore"
    /\ UNCHANGED <<at, MIE, MPIE, mie, mcause, irqline, spOk, printed, fault>>

\* sysCallback copies the words is_syscall has just stored.
SysCallback == [callback EXCEPT !.trapcause = sys'.mcause, !.trappc = sys'.mepc]

\* is_syscall: the result replaces a0 in the frame, and mepc passes the ecall.
IsSyscall ==
    /\ stage = "syscall"
    /\ sys' = [sys EXCEPT !.mcause = mcause, !.mepc = mepc]
    /\ callback' = SysCallback
    /\ frame' = [frame EXCEPT ![Slot(A0Offset)] = "result"]
    /\ mepc' = "user+4"
    /\ regs' = Junk
    /\ stage' = "restore"
    /\ UNCHANGED <<at, MIE, MPIE, mie, mcause, irqline, spOk, printed, fault>>

\* Mutant: the way out leads back to the fault.
IsBuserrReturns ==
    /\ stage = "buserr"
    /\ sys' = [sys EXCEPT !.mcause = mcause, !.mepc = mepc]
    /\ regs' = Junk
    /\ stage' = "restore"
    /\ UNCHANGED <<at, csrs, irqline, spOk, frame, callback, printed, fault>>

\* is_buserr: the way out leads to crtInit.
IsBuserr ==
    /\ stage = "buserr"
    /\ sys' = [sys EXCEPT !.mcause = mcause, !.mepc = mepc]
    /\ mepc' = "crtInit"
    /\ regs' = Junk
    /\ stage' = "restore"
    /\ UNCHANGED <<at, MIE, MPIE, mie, mcause, irqline, spOk, frame, callback, printed, fault>>

IsUnhandled ==
    /\ stage = "unhandled"
    /\ sys' = [sys EXCEPT !.ucause = mcause, !.uepc = mepc]
    /\ regs' = Junk
    /\ stage' = "restore"
    /\ UNCHANGED <<at, csrs, irqline, spOk, frame, callback, printed, fault>>

\* retirq and mret.
Restore ==
    /\ stage = "restore"
    /\ regs' = [r \in Register |-> frame[Slot(Offset[r])]]
    /\ at' = mepc
    /\ MIE' = MPIE /\ MPIE' = TRUE
    /\ stage' = "run"
    /\ UNCHANGED <<mie, mcause, mepc, irqline, spOk, memory, printed, fault>>

Handler == \/ Save \/ SaveFaults \/ Dispatch \/ IsIrq \/ IsSyscall
           \/ IsBuserr \/ IsUnhandled \/ Restore
Startup == CrtInit \/ BssInit \/ CtorsInit \/ Main
User    == UserEcall \/ UserFault \/ UserGoesOn \/ UserBreaksSp

Next == TimerTick \/ Interrupt \/ Startup \/ User \/ Handler
Spec == Init /\ [][Next]_vars

\* The handler runs on; start-up gets its turn between interrupts, which come
\* a millisecond apart.
FairSpec == Spec /\ WF_vars(Handler) /\ SF_vars(Startup)

-----------------------------------------------------------------------------
\* Properties.

Causes == [irq : BOOLEAN, code : 0..11]
Pcs == Places \cup {"none", "trap_entry"}

TypeOK ==
    /\ at \in Places /\ stage \in Stages
    /\ MIE \in BOOLEAN /\ MPIE \in BOOLEAN /\ mie \in BOOLEAN
    /\ mcause \in Causes /\ mepc \in Pcs
    /\ irqline \in BOOLEAN /\ spOk \in BOOLEAN
    /\ regs \in [Register -> Register \cup {"junk", "result"}]
    /\ frame \in [1..16 -> Register \cup {"junk", "result"}]
    /\ sys \in [mcause : Causes, mepc : Pcs, ucause : Causes, uepc : Pcs,
                irqcause : Causes, irqpc : Pcs]
    /\ callback \in [irqcause : Causes, irqpc : Pcs, trapcause : Causes, trappc : Pcs]
    /\ printed \in Causes \X Pcs /\ fault \in Causes \X Pcs

\* Whatever a trap interrupts (the program, start-up after a warm boot, the
\* clearing of .bss) finds its registers as it left them; a system call
\* changes a0 alone, and leaves it the result.
RegistersKept ==
    stage = "run" => regs = [Own EXCEPT !["x10"] = IF at = "user+4" THEN "result" ELSE @]

\* Each trap ends where its kind says: past the ecall, at crtInit, or where it
\* interrupted.
ReturnsToPlace ==
    [][Restore => at' = CASE mcause = Ecall -> "user+4"
                          [] IsFault(mcause) -> "crtInit"
                          [] OTHER -> at]_vars

\* What main prints after a warm boot is the fault that caused it, though system
\* calls wrote the same words before and interrupts run again from mret on, all
\* through start-up.
PrintsTheFault == [][Main /\ fault[1] # None => printed' = fault]_vars

\* crt.S: "the MSB of the mcause register is used to indicate whether an
\* exception is the result of an interrupt(1)": so should the handler's irqcause.
IrqCauseIsTheInterrupt ==
    stage = "restore" /\ mcause.irq => callback.irqcause = mcause

\* A fault leads to main, however many interrupts and system calls come between,
\* if sp was aligned.
AlignedFaultReboots ==
    (stage = "save" /\ spOk /\ IsFault(mcause)) ~> (stage = "run" /\ at = "main")

\* crt.S, is_buserr: "show buserr and return worm boot": a fault leads to main.
FaultReboots == (stage = "save" /\ IsFault(mcause)) ~> (stage = "run" /\ at = "main")
=============================================================================
