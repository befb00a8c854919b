----------------------------- MODULE TrapProofs -----------------------------
(***************************************************************************)
(* Proofs about Trap.tla, for every set of exception codes: a trap keeps   *)
(* the registers of what it interrupts, it returns where its kind says,    *)
(* and main prints the fault that caused a warm boot.                      *)
(***************************************************************************)
EXTENDS Trap, TLAPS

\* The registers of the code at a place, as it left them.
Present(p) == [Own EXCEPT !["x10"] = IF p = "user+4" THEN "result" ELSE @]

Ways == {"dispatch", "irq", "syscall", "buserr", "unhandled"}
Boot == {"crtInit", "bss", "ctors", "main"}

\* Where a trap returns to.
Return == CASE mcause = Ecall -> "user+4"
            [] IsFault(mcause) -> "crtInit"
            [] OTHER -> at

\* What trap_entry brings back from the frame.
Restored(f) == [r \in Register |-> f[Slot(Offset[r])]]

\* From the end of Save to mret the frame holds what the owner left.
FrameInv ==
    /\ stage \in {"run", "save"} => regs = Present(at)
    /\ stage \in Ways => frame = [k \in 1..16 |-> Present(at)[Saved[k]]]
    /\ stage = "restore" => Restored(frame) = Present(mepc)

\* What a trap is for, and where it was met.  A misaligned sp, which only the
\* program makes, does not get past Save.
CauseInv ==
    /\ ~spOk => at = "user" /\ stage \in {"run", "save"}
    /\ stage # "run" => \/ mcause = Timer
                        \/ at = "user" /\ mcause \in {Ecall} \cup {Cause(FALSE, c) : c \in 0..7}
    /\ stage = "save" /\ spOk => mepc = at
    /\ stage \in Ways => mepc = at
    /\ stage = "syscall" => mcause = Ecall
    /\ stage = "buserr" => IsFault(mcause)
    /\ stage = "irq" => mcause = Timer
    /\ stage = "unhandled" => mcause = Cause(FALSE, 3)
    /\ stage = "restore" => mepc = Return

\* From a fault to main, sys_mcause and sys_mepc come to hold it and keep it.
FaultInv ==
    /\ stage \in {"save", "dispatch", "buserr"} /\ IsFault(mcause) => fault = <<mcause, mepc>>
    /\ at \in Boot \/ (stage = "restore" /\ mepc = "crtInit") =>
           fault[1] = None \/ <<sys.mcause, sys.mepc>> = fault

IInv == FrameInv /\ CauseInv /\ FaultInv

-----------------------------------------------------------------------------
\* The frame.

\* Each register comes back from the word it was saved to, and a0 from A0Offset.
LEMMA FrameOrder ==
    ASSUME NEW r \in Register
    PROVE  /\ Slot(Offset[r]) \in 1..16 /\ Saved[Slot(Offset[r])] = r
           /\ Slot(Offset[r]) = Slot(A0Offset) <=> r = "x10"
<1>1. r \in {"x1", "x5", "x6", "x7", "x10", "x11", "x12", "x13",
             "x14", "x15", "x16", "x17", "x28", "x29", "x30", "x31"}
  BY DEF Register, Saved
<1>2. Offset[r] \in 0..15 /\ (Offset[r] = 11 <=> r = "x10")
  BY <1>1 DEF Offset
<1>3. Saved[16 - Offset[r]] = r
  <2>1. CASE r \in {"x1", "x5", "x6", "x7"}
    BY <2>1, SMTT(30) DEF Offset, Saved
  <2>2. CASE r \in {"x10", "x11", "x12", "x13"}
    BY <2>2, SMTT(30) DEF Offset, Saved
  <2>3. CASE r \in {"x14", "x15", "x16", "x17"}
    BY <2>3, SMTT(30) DEF Offset, Saved
  <2>4. CASE r \in {"x28", "x29", "x30", "x31"}
    BY <2>4, SMTT(30) DEF Offset, Saved
  <2> QED
    BY <1>1, <2>1, <2>2, <2>3, <2>4
<1> QED
  BY <1>2, <1>3 DEF Slot, A0Offset

\* What Save put into the frame is what Restore takes out.
LEMMA SavedComesBack ==
    ASSUME NEW p
    PROVE  Restored([k \in 1..16 |-> Present(p)[Saved[k]]]) = Present(p)
<1> DEFINE f == [k \in 1..16 |-> Present(p)[Saved[k]]]
<1>1. ASSUME NEW r \in Register PROVE f[Slot(Offset[r])] = Present(p)[r]
  BY <1>1, FrameOrder
<1>2. Present(p) = [r \in Register |-> Present(p)[r]]
  BY DEF Present, Own
<1> QED
  BY <1>1, <1>2 DEF Restored

\* With the result stored, the frame holds what the program finds after its ecall.
LEMMA ResultComesBack ==
    ASSUME NEW f, f = [k \in 1..16 |-> Present("user")[Saved[k]]]
    PROVE  Restored([f EXCEPT ![Slot(A0Offset)] = "result"]) = Present("user+4")
<1> DEFINE g == [f EXCEPT ![Slot(A0Offset)] = "result"]
<1>1. ASSUME NEW r \in Register PROVE g[Slot(Offset[r])] = Present("user+4")[r]
  <2>1. Slot(Offset[r]) \in 1..16
    BY FrameOrder
  <2>2. CASE r = "x10"
    BY <2>1, <2>2, FrameOrder DEF Present, Own
  <2>3. CASE r # "x10"
    BY <2>1, <2>3, FrameOrder DEF Present, Own
  <2> QED
    BY <2>2, <2>3
<1>2. Present("user+4") = [r \in Register |-> Present("user+4")[r]]
  BY DEF Present, Own
<1> QED
  BY <1>1, <1>2 DEF Restored

-----------------------------------------------------------------------------
\* The invariant.

LEMMA InitIInv == Init => IInv
<1> SUFFICES ASSUME Init
             PROVE  IInv
  OBVIOUS
<1>1. FrameInv
  BY DEF Init, FrameInv, Present, Own, Ways
<1>2. CauseInv
  BY DEF Init, CauseInv, Ways
<1>3. FaultInv
  BY DEF Init, FaultInv, Boot, IsFault, None, Cause
<1> QED
  BY <1>1, <1>2, <1>3 DEF IInv

\* The actions that leave trap_entry, the frame and the csrs alone.
Outside == TimerTick \/ Startup \/ UserGoesOn \/ UserBreaksSp
Entering == Interrupt \/ UserEcall \/ UserFault \/ SaveFaults
Body == IsIrq \/ IsSyscall \/ IsBuserr \/ IsUnhandled

LEMMA NextCases ==
    ASSUME [Next]_vars
    PROVE  UNCHANGED vars \/ Outside \/ Entering \/ Save \/ Dispatch \/ Body \/ Restore
BY DEF Next, Startup, User, Handler, Outside, Entering, Body

\* What a cause can be when a trap begins.
LEMMA OtherCauses == Timer.irq /\ Timer.code = 7 /\ ~IsFault(Timer) /\ ~IsFault(Ecall) /\ Timer # Ecall
<1>1. Timer.irq /\ Timer.code = 7 /\ ~IsFault(Timer)
  BY DEF Timer, Cause, IsFault
<1>2. ~Ecall.irq /\ ~IsFault(Ecall)
  BY DEF Ecall, Cause, IsFault
<1> QED
  BY <1>1, <1>2

LEMMA ExceptionCause ==
    ASSUME NEW m, NEW c \in 0..7, m = Cause(FALSE, c)
    PROVE  /\ m # Ecall /\ m # Timer /\ ~m.irq /\ m.code = c
           /\ IsFault(m) <=> c # 3
<1>1. m.code = c
  BY DEF Cause
<1>5. ~m.irq
  BY DEF Cause
<1>2. Ecall.code = 11 /\ Timer.irq
  BY DEF Ecall, Timer, Cause
<1>3. m # Ecall
  <2>1. c # 11
    OBVIOUS
  <2> QED
    BY <1>1, <1>2, <2>1, Zenon
<1>4. IsFault(m) <=> c # 3
  <2>1. IsFault(m) <=> ~m.irq /\ m.code <= 7 /\ m.code # 3
    BY DEF IsFault
  <2>2. c <= 7
    OBVIOUS
  <2> QED
    BY <1>1, <1>5, <2>1, <2>2, Zenon
<1> QED
  BY <1>1, <1>2, <1>3, <1>4, <1>5, Zenon

LEMMA NextFrame ==
    ASSUME IInv, [Next]_vars
    PROVE  FrameInv'
<1> USE DEF FrameInv, Ways
<1>1. CASE UNCHANGED vars
  BY <1>1 DEF IInv, vars, csrs, memory, Present, Own, Restored
<1>2. CASE Outside
  <2>1. CASE TimerTick \/ UserBreaksSp
    BY <2>1 DEF IInv, TimerTick, UserBreaksSp, csrs, memory, Restored
  <2>2. CASE Startup
    BY <2>2 DEF IInv, Startup, CrtInit, BssInit, CtorsInit, Main, csrs, memory, Present, Own
  <2>3. CASE UserGoesOn
    BY <2>3 DEF UserGoesOn, csrs, memory, Present, Own
  <2> QED
    BY <1>2, <2>1, <2>2, <2>3 DEF Outside
<1>3. CASE Entering
  BY <1>3 DEF IInv, Entering, Interrupt, UserEcall, UserFault, SaveFaults, Enter, memory
<1>4. CASE Save
  BY <1>4 DEF IInv, Save, csrs
<1>5. CASE Dispatch
  <2>1. stage' \in Ways /\ UNCHANGED <<at, frame>> /\ stage = "dispatch"
    BY <1>5 DEF Dispatch, memory
  <2> QED
    BY <2>1 DEF IInv
<1>6. CASE Body
  <2>1. CASE IsIrq \/ IsUnhandled
    BY <2>1, SavedComesBack DEF IInv, CauseInv, IsIrq, IsUnhandled, csrs
  <2>2. CASE IsSyscall
    <3>1. at = "user"
      BY <2>2, OtherCauses, ExceptionCause DEF IInv, CauseInv, IsSyscall
    <3>2. frame = [k \in 1..16 |-> Present("user")[Saved[k]]]
      BY <2>2, <3>1 DEF IInv, IsSyscall
    <3>3. stage' = "restore" /\ mepc' = "user+4"
      BY <2>2 DEF IsSyscall
    <3>4. frame' = [frame EXCEPT ![Slot(A0Offset)] = "result"]
      BY <2>2 DEF IsSyscall
    <3>5. Restored(frame') = Present("user+4")
      BY <3>2, <3>4, ResultComesBack
    <3> QED
      BY <3>3, <3>5 DEF Restored
  <2>3. CASE IsBuserr
    <3>1. at = "user"
      BY <2>3, OtherCauses, ExceptionCause DEF IInv, CauseInv, IsBuserr
    <3>2. Present(at) = Present("crtInit")
      BY <3>1 DEF Present
    <3>3. Restored(frame) = Present("crtInit")
      BY <2>3, <3>2, SavedComesBack DEF IInv, IsBuserr
    <3> QED
      BY <2>3, <3>3 DEF IsBuserr, Restored
  <2> QED
    BY <1>6, <2>1, <2>2, <2>3 DEF Body
<1>7. CASE Restore
  BY <1>7 DEF IInv, Restore, Restored, memory
<1> QED
  BY <1>1, <1>2, <1>3, <1>4, <1>5, <1>6, <1>7, NextCases

LEMMA NextCause ==
    ASSUME IInv, [Next]_vars
    PROVE  CauseInv'
<1> USE DEF CauseInv, Ways
<1>1. CASE UNCHANGED vars
  BY <1>1 DEF IInv, vars, csrs, Return
<1>2. CASE Outside
  <2>1. CASE TimerTick \/ UserBreaksSp
    <3>1. UNCHANGED <<at, stage, mcause, mepc>> /\ (~spOk' => ~spOk \/ (at = "user" /\ stage = "run"))
      BY <2>1 DEF TimerTick, UserBreaksSp, csrs
    <3>2. stage = "save" /\ spOk' => spOk
      BY <2>1 DEF TimerTick, UserBreaksSp, csrs
    <3> QED
      BY <3>1, <3>2 DEF IInv, Return
  <2>2. CASE Startup \/ UserGoesOn
    <3>1. stage = "run" /\ stage' = "run" /\ at # "user"
      BY <2>2 DEF Startup, CrtInit, BssInit, CtorsInit, Main, UserGoesOn
    <3>2. spOk => spOk'
      BY <2>2 DEF Startup, CrtInit, BssInit, CtorsInit, Main, UserGoesOn
    <3> QED
      BY <3>1, <3>2 DEF IInv
  <2> QED
    BY <1>2, <2>1, <2>2 DEF Outside
<1>3. CASE Entering
  <2>1. CASE Interrupt \/ UserEcall
    BY <2>1, OtherCauses, ExceptionCause DEF IInv, Interrupt, UserEcall, Enter
  <2>2. CASE UserFault
    BY <2>2, FaultCodes DEF IInv, UserFault, Enter
  <2>3. CASE SaveFaults
    BY <2>3 DEF IInv, SaveFaults, Enter
  <2> QED
    BY <1>3, <2>1, <2>2, <2>3 DEF Entering
<1>4. CASE Save
  BY <1>4 DEF IInv, Save, csrs
<1>5. CASE Dispatch
  <2>1. stage' = IF mcause = Ecall THEN "syscall"
                 ELSE IF mcause = Cause(FALSE, 3) THEN "unhandled"
                 ELSE IF ~mcause.irq /\ mcause.code <= 7 THEN "buserr"
                 ELSE IF mcause.irq /\ mcause.code > 0 THEN "irq" ELSE "unhandled"
    BY <1>5 DEF Dispatch
  <2>2. stage = "dispatch" /\ UNCHANGED <<at, mcause, mepc, spOk>>
    BY <1>5 DEF Dispatch, csrs
  <2>3. mcause = Timer \/ (at = "user" /\ mcause \in {Ecall} \cup {Cause(FALSE, c) : c \in 0..7})
    BY <2>2 DEF IInv
  <2>4. CASE mcause = Timer
    <3>1. stage' = "irq"
      BY <2>1, <2>4 DEF Timer, Ecall, Cause
    <3> QED
      BY <2>2, <2>3, <3>1, <2>4 DEF IInv
  <2>5. CASE mcause = Ecall
    <3>1. stage' = "syscall"
      BY <2>1, <2>5
    <3> QED
      BY <2>2, <2>3, <3>1, <2>5 DEF IInv
  <2>6. CASE \E c \in 0..7 : mcause = Cause(FALSE, c)
    <3>1. CASE mcause = Cause(FALSE, 3)
      <4>1. stage' = "unhandled"
        <5>1. mcause # Ecall
          <6>1. 3 \in 0..7
            OBVIOUS
          <6> QED
            BY <3>1, <6>1, ExceptionCause, Zenon
        <5> QED
          BY <2>1, <3>1, <5>1, Zenon
      <4> QED
        BY <2>2, <2>3, <3>1, <4>1 DEF IInv
    <3>2. CASE mcause # Cause(FALSE, 3)
      <4>1. stage' = "buserr" /\ IsFault(mcause)
        <5>1. PICK c \in 0..7 : mcause = Cause(FALSE, c)
          BY <2>6
        <5>2. mcause # Ecall /\ ~mcause.irq /\ mcause.code = c /\ IsFault(mcause)
          BY <3>2, <5>1, ExceptionCause, Zenon
        <5>3. mcause.code <= 7
          BY <5>2
        <5> QED
          BY <2>1, <3>2, <5>2, <5>3, Zenon
      <4> QED
        BY <2>2, <2>3, <4>1 DEF IInv
    <3> QED
      BY <3>1, <3>2
  <2> QED
    BY <2>3, <2>4, <2>5, <2>6
<1>6. CASE Body
  <2>1. CASE IsIrq
    BY <2>1, OtherCauses, ExceptionCause DEF IInv, IsIrq, csrs, Return
  <2>2. CASE IsUnhandled
    <3>1. stage = "unhandled" /\ stage' = "restore" /\ UNCHANGED <<at, mcause, mepc, spOk>>
      BY <2>2 DEF IsUnhandled, csrs
    <3>2. mcause = Cause(FALSE, 3)
      BY <3>1 DEF IInv
    <3>3. ~IsFault(mcause) /\ mcause # Ecall
      <4>1. 3 \in 0..7
        OBVIOUS
      <4> QED
        BY <3>2, <4>1, ExceptionCause, Zenon
    <3> QED
      BY <3>1, <3>3 DEF IInv, Return
  <2>3. CASE IsSyscall
    BY <2>3, OtherCauses, ExceptionCause DEF IInv, IsSyscall, Return
  <2>4. CASE IsBuserr
    BY <2>4, OtherCauses, ExceptionCause DEF IInv, IsBuserr, Return
  <2> QED
    BY <1>6, <2>1, <2>2, <2>3, <2>4 DEF Body
<1>7. CASE Restore
  BY <1>7 DEF IInv, Restore
<1> QED
  BY <1>1, <1>2, <1>3, <1>4, <1>5, <1>6, <1>7, NextCases

LEMMA NextFault ==
    ASSUME TypeOK, IInv, [Next]_vars
    PROVE  FaultInv'
<1> USE DEF FaultInv, Boot
<1>1. CASE UNCHANGED vars
  BY <1>1 DEF IInv, vars, csrs, memory
<1>2. CASE Outside
  <2>1. UNCHANGED <<mcause, mepc, sys, fault, stage>>
    BY <1>2 DEF Outside, TimerTick, UserBreaksSp, Startup, CrtInit, BssInit, CtorsInit, Main,
                UserGoesOn, csrs, memory
  <2>2. at' = at \/ (stage = "run" /\ (at \in Boot \/ at' \notin Boot))
    BY <1>2 DEF Outside, TimerTick, UserBreaksSp, Startup, CrtInit, BssInit, CtorsInit, Main,
                UserGoesOn
  <2> QED
    BY <2>1, <2>2 DEF IInv
<1>3. CASE Entering
  <2>1. stage' = "save" /\ UNCHANGED <<at, sys>> /\ (Interrupt \/ at = "user")
    BY <1>3 DEF Entering, Interrupt, UserEcall, UserFault, SaveFaults, Enter, memory,
                IInv, CauseInv
  <2>2. CASE Interrupt
    <3>1. mcause' = Timer /\ fault' = fault
      BY <2>2 DEF Interrupt, Enter
    <3> QED
      BY <2>1, <3>1, OtherCauses DEF IInv
  <2>3. CASE UserEcall
    <3>1. mcause' = Ecall /\ fault' = fault /\ at = "user"
      BY <2>3 DEF UserEcall, Enter
    <3> QED
      BY <2>1, <3>1, OtherCauses DEF IInv
  <2>4. CASE UserFault
    <3>1. mepc' = at /\ at = "user" /\ fault' = IF IsFault(mcause') THEN <<mcause', at>> ELSE fault
      BY <2>4 DEF UserFault, Enter
    <3> QED
      BY <2>1, <3>1
  <2>5. CASE SaveFaults
    <3>1. at = "user" /\ fault' = <<mcause', mepc'>>
      BY <2>5 DEF SaveFaults, Enter, IInv, CauseInv
    <3> QED
      BY <2>1, <3>1
  <2> QED
    BY <1>3, <2>2, <2>3, <2>4, <2>5 DEF Entering
<1>4. CASE Save \/ Dispatch
  <2>1. UNCHANGED <<at, mcause, mepc, sys, fault>> /\ stage \in {"save", "dispatch"} /\ stage' # "restore"
    BY <1>4 DEF Save, Dispatch, csrs, memory
  <2> QED
    BY <2>1 DEF IInv
<1>5. CASE Body
  <2>1. stage' = "restore" /\ UNCHANGED <<at, fault, mcause>>
    BY <1>5 DEF Body, IsIrq, IsSyscall, IsBuserr, IsUnhandled, csrs
  <2>2. CASE IsIrq \/ IsUnhandled
    <3>1. mepc' = mepc /\ mepc = at
      BY <2>2 DEF IsIrq, IsUnhandled, csrs, IInv, CauseInv, Ways
    <3>2. sys'.mcause = sys.mcause /\ sys'.mepc = sys.mepc
      BY <2>2, TypeOK DEF IsIrq, IsUnhandled, TypeOK
    <3> QED
      BY <2>1, <3>1, <3>2 DEF IInv
  <2>3. CASE IsSyscall
    <3>1. at = "user" /\ mepc' = "user+4"
      BY <2>3, OtherCauses DEF IsSyscall, IInv, CauseInv
    <3> QED
      BY <2>1, <3>1
  <2>4. CASE IsBuserr
    <3>1. fault = <<mcause, mepc>> /\ sys' = [sys EXCEPT !.mcause = mcause, !.mepc = mepc]
      BY <2>4 DEF IsBuserr, IInv, CauseInv
    <3> QED
      BY <2>1, <3>1
  <2> QED
    BY <1>5, <2>2, <2>3, <2>4 DEF Body
<1>6. CASE Restore
  <2>1. mepc \in {"user+4", "crtInit", at}
    BY <1>6 DEF Restore, IInv, CauseInv, Return
  <2> QED
    BY <1>6, <2>1 DEF IInv, Restore, memory
<1> QED
  BY <1>1, <1>2, <1>3, <1>4, <1>5, <1>6, NextCases

LEMMA InitTypes == Init => TypeOK
<1> SUFFICES ASSUME Init
             PROVE  TypeOK
  OBVIOUS
<1>1. None \in Causes
  BY DEF None, Cause, Causes
<1>2. MIE \in BOOLEAN /\ MPIE \in BOOLEAN /\ mie \in BOOLEAN /\ irqline \in BOOLEAN /\ spOk \in BOOLEAN
  BY DEF Init
<1> QED
  BY <1>1, <1>2 DEF Init, TypeOK, Places, Stages, Pcs, Own

LEMMA CausesTyped ==
    /\ None \in Causes /\ Timer \in Causes /\ Ecall \in Causes
    /\ \A c \in 0..7 : Cause(FALSE, c) \in Causes
BY DEF None, Timer, Ecall, Cause, Causes

LEMMA NextTypes ==
    ASSUME TypeOK, IInv, [Next]_vars
    PROVE  TypeOK'
<1> DEFINE Values == Register \cup {"junk", "result"}
<1>1. at' \in Places /\ stage' \in Stages
  <2>1. CASE UNCHANGED vars
    BY <2>1 DEF vars, TypeOK
  <2>2. CASE Outside
    BY <2>2 DEF TypeOK, Outside, TimerTick, UserBreaksSp, Startup, CrtInit, BssInit, CtorsInit,
                Main, UserGoesOn, Places, Stages
  <2>3. CASE Entering
    BY <2>3 DEF TypeOK, Entering, Interrupt, UserEcall, UserFault, SaveFaults, Enter, Stages
  <2>4. CASE Save \/ Dispatch \/ Body
    BY <2>4 DEF TypeOK, Save, Dispatch, Body, IsIrq, IsSyscall, IsBuserr, IsUnhandled, Stages
  <2>5. CASE Restore
    BY <2>5 DEF TypeOK, Restore, IInv, CauseInv, Return, Stages, Places
  <2> QED
    BY <2>1, <2>2, <2>3, <2>4, <2>5, NextCases
<1>2. /\ MIE' \in BOOLEAN /\ MPIE' \in BOOLEAN /\ mie' \in BOOLEAN
      /\ irqline' \in BOOLEAN /\ spOk' \in BOOLEAN
  <2>1. /\ MIE \in BOOLEAN /\ MPIE \in BOOLEAN /\ mie \in BOOLEAN
        /\ irqline \in BOOLEAN /\ spOk \in BOOLEAN
    BY DEF TypeOK
  <2>2. /\ MIE' \in {MIE, MPIE, TRUE, FALSE} /\ MPIE' \in {MIE, MPIE, TRUE} /\ mie' \in {mie, TRUE}
        /\ irqline' \in {irqline, TRUE, FALSE} /\ spOk' \in {spOk, TRUE, FALSE}
    BY DEF Next, Interrupt, TimerTick, UserBreaksSp, Startup, CrtInit, BssInit, CtorsInit, Main,
           User, UserGoesOn, Handler, UserEcall, UserFault, SaveFaults, Enter, Save, Dispatch,
           IsIrq, IsSyscall, IsBuserr, IsUnhandled, Restore, vars, csrs, memory
  <2> QED
    BY <2>1, <2>2
<1>3. mcause' \in Causes /\ mepc' \in Pcs
  <2>1. CASE UNCHANGED <<mcause, mepc>>
    BY <2>1 DEF TypeOK
  <2>2. CASE Entering
    <3>1. mepc' \in {at, "trap_entry"}
      BY <2>2 DEF Entering, Interrupt, UserEcall, UserFault, SaveFaults, Enter
    <3>2. CASE Interrupt \/ UserEcall
      <4>1. mcause' \in {Timer, Ecall}
        BY <3>2 DEF Interrupt, UserEcall, Enter
      <4> QED
        BY <3>1, <4>1, CausesTyped DEF TypeOK, Pcs
    <3>3. CASE UserFault
      <4>1. PICK c \in Faults : mcause' = Cause(FALSE, c)
        BY <3>3, Zenon DEF UserFault, Enter
      <4>2. c \in 0..7
        BY FaultCodes
      <4>3. mcause' \in Causes
        BY <4>1, <4>2, CausesTyped, Zenon
      <4> QED
        BY <3>1, <4>3 DEF TypeOK, Pcs
    <3>4. CASE SaveFaults
      <4>1. mcause' = Cause(FALSE, 6)
        BY <3>4, Zenon DEF SaveFaults, Enter
      <4>2. 6 \in 0..7
        OBVIOUS
      <4>3. mcause' \in Causes
        BY <4>1, <4>2, CausesTyped, Zenon
      <4> QED
        BY <3>1, <4>3 DEF TypeOK, Pcs
    <3> QED
      BY <2>2, <3>2, <3>3, <3>4 DEF Entering
  <2>3. CASE IsSyscall \/ IsBuserr
    BY <2>3 DEF TypeOK, IsSyscall, IsBuserr, Pcs, Places
  <2> QED
    BY <2>1, <2>2, <2>3, NextCases
       DEF Outside, TimerTick, UserBreaksSp, Startup, CrtInit, BssInit, CtorsInit, Main,
           UserGoesOn, Save, Dispatch, Body, IsIrq, IsUnhandled, Restore, vars, csrs
<1>4. regs' \in [Register -> Values] /\ frame' \in [1..16 -> Values]
  <2>1. CASE UNCHANGED <<regs, frame>>
    BY <2>1 DEF TypeOK
  <2>2. CASE CrtInit \/ UserGoesOn
    BY <2>2 DEF TypeOK, CrtInit, UserGoesOn, Own, memory
  <2>3. CASE Save
    <3>1. \A k \in 1..16 : Saved[k] \in Register
      BY DEF Register
    <3> QED
      BY <2>3, <3>1 DEF TypeOK, Save
  <2>4. CASE Body
    BY <2>4 DEF TypeOK, Body, IsIrq, IsSyscall, IsBuserr, IsUnhandled, Junk, A0Offset, Slot
  <2>5. CASE Restore
    BY <2>5, FrameOrder DEF TypeOK, Restore, memory
  <2> QED
    BY <2>1, <2>2, <2>3, <2>4, <2>5, NextCases
       DEF Outside, TimerTick, UserBreaksSp, Startup, BssInit, CtorsInit, Main, Entering,
           Interrupt, UserEcall, UserFault, SaveFaults, Enter, Dispatch, vars, memory
<1>5. /\ sys' \in [mcause : Causes, mepc : Pcs, ucause : Causes, uepc : Pcs,
                   irqcause : Causes, irqpc : Pcs]
      /\ callback' \in [irqcause : Causes, irqpc : Pcs, trapcause : Causes, trappc : Pcs]
  <2>1. CASE UNCHANGED <<sys, callback>>
    BY <2>1 DEF TypeOK
  <2>2. CASE BssInit
    BY <2>2, CausesTyped DEF TypeOK, BssInit, Pcs
  <2>3. CASE Body
    <3>1. mcause \in Causes /\ mepc \in Pcs
      BY DEF TypeOK
    <3>2. CASE IsIrq
      BY <3>1, <3>2 DEF TypeOK, IsIrq, IrqCallback
    <3>3. CASE IsSyscall
      <4>1. sys' = [sys EXCEPT !.mcause = mcause, !.mepc = mepc]
        BY <3>3 DEF IsSyscall
      <4>2. sys' \in [mcause : Causes, mepc : Pcs, ucause : Causes, uepc : Pcs,
                      irqcause : Causes, irqpc : Pcs]
        BY <3>1, <4>1 DEF TypeOK
      <4>3. callback' = [callback EXCEPT !.trapcause = sys'.mcause, !.trappc = sys'.mepc]
        BY <3>3 DEF IsSyscall, SysCallback
      <4>4. sys'.mcause \in Causes /\ sys'.mepc \in Pcs
        BY <4>2
      <4> QED
        BY <4>2, <4>3, <4>4 DEF TypeOK
    <3>4. CASE IsBuserr \/ IsUnhandled
      BY <3>1, <3>4 DEF TypeOK, IsBuserr, IsUnhandled
    <3> QED
      BY <2>3, <3>2, <3>3, <3>4 DEF Body
  <2> QED
    BY <2>1, <2>2, <2>3, NextCases
       DEF Outside, TimerTick, UserBreaksSp, Startup, CrtInit, CtorsInit, Main, UserGoesOn,
           Entering, Interrupt, UserEcall, UserFault, SaveFaults, Enter, Save, Dispatch, Restore,
           vars, memory
<1>6. printed' \in Causes \X Pcs /\ fault' \in Causes \X Pcs
  <2>1. CASE UNCHANGED <<printed, fault>>
    BY <2>1 DEF TypeOK
  <2>2. CASE Main
    BY <2>2 DEF TypeOK, Main
  <2>3. CASE UserFault \/ SaveFaults
    <3>1. at \in Pcs /\ "trap_entry" \in Pcs /\ UNCHANGED printed
      BY <2>3 DEF TypeOK, Pcs, UserFault, SaveFaults, Enter
    <3>2. fault' \in {fault, <<mcause', at>>, <<mcause', "trap_entry">>}
      BY <2>3, Zenon DEF UserFault, SaveFaults
    <3> QED
      BY <1>3, <3>1, <3>2 DEF TypeOK
  <2> QED
    BY <2>1, <2>2, <2>3, NextCases
       DEF Outside, TimerTick, UserBreaksSp, Startup, CrtInit, BssInit, CtorsInit, UserGoesOn,
           Entering, Interrupt, UserEcall, Enter, Save, Dispatch, Body, IsIrq, IsSyscall,
           IsBuserr, IsUnhandled, Restore, vars
<1> QED
  BY <1>1, <1>2, <1>3, <1>4, <1>5, <1>6 DEF TypeOK

\* The types and the rest keep each other.
TInv == TypeOK /\ IInv

LEMMA InitTInv == Init => TInv
BY InitTypes, InitIInv DEF TInv

LEMMA NextTInv == TInv /\ [Next]_vars => TInv'
BY NextFrame, NextCause, NextFault, NextTypes DEF IInv, TInv

-----------------------------------------------------------------------------
\* The theorems.

\* The frames on the stack, the saved causes and the words of .data stay what
\* crt.S and the processor put into them.
THEOREM TypesKept == Spec => []TypeOK
<1>1. TInv => TypeOK
  BY DEF TInv
<1> QED
  BY <1>1, InitTInv, NextTInv, PTL DEF Spec

\* trap_entry and its four ways out: whatever runs, runs with the registers it
\* left, and after a system call with the result in a0, for any handlers.
THEOREM RegistersSurvive == Spec => []RegistersKept
<1>1. TInv => RegistersKept
  BY DEF TInv, IInv, FrameInv, RegistersKept, Present
<1> QED
  BY <1>1, InitTInv, NextTInv, PTL DEF Spec

\* mret goes past the ecall, to crtInit or to where the trap came, by its cause.
THEOREM TrapsReturn == Spec => ReturnsToPlace
<1>1. TInv /\ [Next]_vars => [Restore => at' = Return]_vars
  BY DEF TInv, IInv, CauseInv, Restore
<1> QED
  BY <1>1, InitTInv, NextTInv, PTL DEF Spec, ReturnsToPlace, Return

\* irqCallback, syscall and crtInit share the words of .data with is_buserr: main
\* still prints the fault a warm boot came from.
THEOREM FaultPrinted == Spec => PrintsTheFault
<1>1. TInv /\ [Next]_vars => [Main /\ fault[1] # None => printed' = fault]_vars
  BY DEF TInv, IInv, FaultInv, Boot, Main
<1> QED
  BY <1>1, InitTInv, NextTInv, PTL DEF Spec, PrintsTheFault
=============================================================================
