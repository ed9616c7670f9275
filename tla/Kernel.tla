-------------------------------- MODULE Kernel --------------------------------
(***************************************************************************)
(* kernel_main and user_main, and the way between them: run_user and       *)
(* user_trap (trampoline.s), TrapState (trap.rs), the handler, and the     *)
(* trap and mret of the hart (CSR.bsv).  Everything runs in machine mode.  *)
(*                                                                         *)
(* A word is <<kind, n>>: a value of the user's or of the kernel's         *)
(* computations (n tells the register and one of two versions), an address *)
(* of their code, a place of the kernel stack, the address of state.  The  *)
(* routines are split where they change from one context to the other, so  *)
(* that a trap could come in between.                                      *)
(***************************************************************************)
EXTENDS Naturals, Sequences, SequencesExt

(* struct Registers, which is repr(C): its fields in memory order.         *)
Registers ==
  << "ra", "sp", "gp", "tp", "t0", "t1", "t2", "s0", "s1",
     "a0", "a1", "a2", "a3", "a4", "a5", "a6", "a7",
     "s2", "s3", "s4", "s5", "s6", "s7", "s8", "s9", "s10", "s11",
     "t3", "t4", "t5", "t6" >>

(* struct TrapState.                                                       *)
TrapState == Registers \o << "mepc", "kernel_sp" >>
field(f) == CHOOSE k \in 1 .. Len(TrapState) : TrapState[k] = f

(* The registers x1 .. x31 of the hart; trampoline.s keeps xk in word k of *)
(* the trap state.                                                         *)
X == << "ra", "sp", "gp", "tp", "t0", "t1", "t2", "s0", "s1",
        "a0", "a1", "a2", "a3", "a4", "a5", "a6", "a7",
        "s2", "s3", "s4", "s5", "s6", "s7", "s8", "s9", "s10", "s11",
        "t3", "t4", "t5", "t6" >>
Reg == ToSet(X)
x(r) == CHOOSE k \in 1 .. Len(X) : X[k] = r
MepcSlot == 32
KernelSpSlot == 33

(* The frame of run_user on the kernel stack.                              *)
Frame == << "gp", "tp", "ra", "s0", "s1", "s2", "s3", "s4", "s5", "s6", "s7",
            "s8", "s9", "s10", "s11" >>
CalleeSaved == ToSet(Frame) \cup {"sp"}

VARIABLES pc, regs, mscratch, mepc, mcause, mtvec,
          mie, mpie,         \* fields of mstatus
          pending,           \* whether mip & mie # 0, or "masked": the CSR mie is 0
          state, kstack,     \* memory: the trap state, the kernel stack
          owed,              \* the registers and pc the user must find again
          kept               \* the registers of the kernel at its call of run_user

hart == <<pc, regs, mscratch, mepc, mcause, mtvec, mie, mpie>>
vars == <<hart, pending, state, kstack, owed, kept>>

Version == 0 .. 1
userWord(r, v) == <<"user", x(r) + 32 * v>>
kernelWord(r, v) == <<"kernel", x(r) + 32 * v>>
Zero == <<"zero", 0>>
StateAddr == <<"state", 0>>
UserStack == <<"user", 0>>
kernelStack(n) == <<"kstack", n>>      \* n words are in use
KernelDepth == 2                       \* words of kernel_main's own frame
StackWords == 32

userText(n) == <<"user_text", n>>
kernelText(n) == <<"kernel_text", n>>
KernelMain == kernelText(0)
Loop == kernelText(4)
AfterRun == kernelText(8)
RunUser == kernelText(12)
RunUserLoad == kernelText(16)
UserTrap == kernelText(20)
UserTrapLoad == kernelText(24)
UserMain == userText(0)
Ecall == userText(4)
CboClean == userText(8)

inUser == pc[1] = "user_text"
next(addr) == <<addr[1], addr[2] + 4>>

(* Out of reset and through init.s: kernel_main on an empty stack.  The    *)
(* statements that write mie are commented out (lines 195 and 196), so it  *)
(* is 0; without the comment, pending would tell what the devices ask for. *)
Init ==
  /\ pc = KernelMain
  /\ regs = [r \in Reg |-> IF r = "sp" THEN kernelStack(0) ELSE Zero]
  /\ mscratch = Zero /\ mepc = Zero /\ mcause = "none" /\ mtvec = Zero
  /\ mie = 0 /\ mpie = 0 /\ pending \in {"masked", "no"}
  /\ state = [k \in 1 .. Len(TrapState) |-> Zero]
  /\ kstack = [n \in 1 .. StackWords |-> Zero]
  /\ owed = [regs |-> regs, pc |-> pc]
  /\ kept = regs

-----------------------------------------------------------------------------
(* Code compiled from Rust keeps the callee-saved registers of its caller  *)
(* and leaves words of its own in the others.                              *)
clobbered(v) == [r \in Reg |-> IF r \in CalleeSaved THEN regs[r] ELSE kernelWord(r, v)]

(* Registers::default.                                                     *)
defaultRegisters == [k \in 1 .. Len(Registers) |-> Zero]

(* kernel_main up to its loop: the allocators are modules of their own,    *)
(* trap::init writes mtvec, set_mpie sets MPIE, and the state of the user  *)
(* is made: all zero but for sp and mepc.                                  *)
kernel_main ==
  /\ pc = KernelMain
  /\ mtvec' = UserTrap
  /\ mpie' = 1
  /\ state' = [defaultRegisters \o << UserMain, Zero >> EXCEPT ![field("sp")] = UserStack]
  /\ owed' = [regs |-> [r \in Reg |-> IF r = "sp" THEN UserStack ELSE Zero], pc |-> UserMain]
  /\ \E v \in Version :
       regs' = [r \in Reg |-> IF r = "sp" THEN kernelStack(KernelDepth) ELSE kernelWord(r, v)]
  /\ pc' = Loop
  /\ UNCHANGED <<mscratch, mepc, mcause, mie, pending, kstack, kept>>

(* The loop of kernel_main calls run_user with the address of state.       *)
callRunUser ==
  /\ pc = Loop
  /\ regs' = [regs EXCEPT !["a0"] = StateAddr, !["ra"] = AfterRun]
  /\ kept' = regs'
  /\ pc' = RunUser
  /\ UNCHANGED <<mscratch, mepc, mcause, mtvec, mie, mpie, pending, state, kstack, owed>>

(* csrw mscratch, a0.  Faulty variant: mscratch is only set once.          *)
newScratch_once == IF mscratch = Zero THEN regs["a0"] ELSE mscratch
newScratch == regs["a0"]

(* run_user, first half: the frame is pushed, mscratch and mepc are set.   *)
run_user ==
  LET top == regs["sp"][2] + Len(Frame) IN
  /\ pc = RunUser
  /\ kstack' = [n \in DOMAIN kstack |->
                  IF n \in top - Len(Frame) + 1 .. top THEN regs[Frame[top - n + 1]]
                  ELSE kstack[n]]
  /\ mscratch' = newScratch
  /\ state' = [state EXCEPT ![KernelSpSlot] = kernelStack(top)]
  /\ mepc' = state[MepcSlot]
  /\ regs' = [regs EXCEPT !["sp"] = kernelStack(top), !["t0"] = state[MepcSlot]]
  /\ pc' = RunUserLoad
  /\ UNCHANGED <<mcause, mtvec, mie, mpie, pending, owed, kept>>

(* run_user, second half: the registers of the user, a0 last, and mret.    *)
run_user_load ==
  /\ pc = RunUserLoad
  /\ regs' = [r \in Reg |-> state[x(r)]]
  /\ pc' = mepc
  /\ mie' = mpie /\ mpie' = 0
  /\ UNCHANGED <<mscratch, mepc, mcause, mtvec, pending, state, kstack, owed, kept>>

-----------------------------------------------------------------------------
(* user_main: print and matmul_bench leave any words in the registers.     *)
user_main ==
  /\ pc = UserMain
  /\ \E v \in Version : regs' = [r \in Reg |-> userWord(r, v)]
  /\ pc' = Ecall
  /\ UNCHANGED <<mscratch, mepc, mcause, mtvec, mie, mpie, pending, state, kstack, owed, kept>>

(* cbo.clean 0(a0), and back to the start of the loop.                     *)
cboClean ==
  /\ pc = CboClean
  /\ regs' = [regs EXCEPT !["a0"] = Zero]
  /\ pc' = UserMain
  /\ UNCHANGED <<mscratch, mepc, mcause, mtvec, mie, mpie, pending, state, kstack, owed, kept>>

(* What a trap keeps of MIE in MPIE.  Faulty variant: nothing.             *)
savedMie_lost == mpie
savedMie == mie

(* A trap of the hart, to the base in mtvec.  The user is owed what it     *)
(* had; the instruction that trapped counts as done.                       *)
exec_exception(cause) ==
  /\ mepc' = pc /\ mcause' = cause
  /\ mpie' = savedMie /\ mie' = 0
  /\ pc' = mtvec
  /\ owed' = [regs |-> regs, pc |-> IF cause = "exception" THEN next(pc) ELSE pc]
  /\ UNCHANGED <<regs, mscratch, mtvec, pending, state, kstack, kept>>

(* asm!("ecall").                                                          *)
ecall == pc = Ecall /\ exec_exception("exception")

(* readyInterruptFunc: at any instruction while MIE is set.                *)
readyInterrupt == mie = 1 /\ pending = "yes" /\ exec_exception("interrupt")

(* Devices raise and withdraw interrupts when the kernel enables them.     *)
devices ==
  /\ pending # "masked" /\ pc # KernelMain
  /\ pending' = IF pending = "no" THEN "yes" ELSE "no"
  /\ UNCHANGED <<hart, state, kstack, owed, kept>>

-----------------------------------------------------------------------------
(* The a0 of the user, which the swap has put in mscratch.  Faulty         *)
(* variant: what the swap has put in a0.                                   *)
userA0_swapped == mscratch
userA0 == regs["a0"]

(* user_trap, first half: a0 and mscratch are swapped, the registers are   *)
(* saved in the state that a0 now points to, a0's from mscratch.           *)
user_trap ==
  /\ pc = UserTrap
  /\ state' = [k \in DOMAIN state |->
                 CASE k = x("a0") -> userA0
                   [] k = MepcSlot -> mepc
                   [] k = KernelSpSlot -> state[k]
                   [] OTHER -> regs[X[k]]]
  /\ mscratch' = regs["a0"]
  /\ regs' = [regs EXCEPT !["a0"] = mscratch, !["t0"] = mepc, !["sp"] = state[KernelSpSlot]]
  /\ pc' = UserTrapLoad
  /\ UNCHANGED <<mepc, mcause, mtvec, mie, mpie, pending, kstack, owed, kept>>

(* addi sp, sp, 15*4.  Faulty variant: the frame stays.                    *)
popped_not(top) == top
popped(top) == top - Len(Frame)

(* user_trap, second half: the frame of run_user is popped and its call    *)
(* returns.                                                                *)
user_trap_load ==
  LET top == regs["sp"][2] IN
  /\ pc = UserTrapLoad
  /\ regs' = [r \in Reg |->
                CASE r = "sp" -> kernelStack(popped(top))
                  [] r \in ToSet(Frame) -> kstack[top + 1 - CHOOSE k \in 1 .. Len(Frame) : Frame[k] = r]
                  [] OTHER -> regs[r]]
  /\ pc' = regs'["ra"]
  /\ UNCHANGED <<mscratch, mepc, mcause, mtvec, mie, mpie, pending, state, kstack, owed, kept>>

(* state.mepc += 4.  Faulty variant: the same instruction again.           *)
skipped_not(addr) == addr
skipped(addr) == next(addr)

(* handler: an exception is skipped, an interrupt is only reported.        *)
handler ==
  /\ pc = AfterRun
  /\ state' = IF mcause = "exception"
              THEN [state EXCEPT ![field("mepc")] = skipped(@)] ELSE state
  /\ \E v \in Version : regs' = clobbered(v)
  /\ pc' = Loop
  /\ UNCHANGED <<mscratch, mepc, mcause, mtvec, mie, mpie, pending, kstack, owed, kept>>

kernel == \/ kernel_main \/ callRunUser \/ run_user \/ run_user_load
          \/ user_trap \/ user_trap_load \/ handler
user == user_main \/ ecall

Next == kernel \/ user \/ cboClean \/ readyInterrupt \/ devices

(* The hart goes on executing, but nothing obliges a cbo.clean to          *)
(* complete: on the core of this repository the second one does not.       *)
Spec == Init /\ [][Next]_vars /\ WF_vars(kernel \/ user)

-----------------------------------------------------------------------------
Word == {"user", "kernel", "zero", "state", "kstack", "user_text", "kernel_text"} \X Nat

(* The stack pointer of the kernel is back at kernel_main's frame whenever *)
(* its loop runs, and the trap state has its 33 words.                     *)
KernelTypeOK ==
  /\ regs \in [Reg -> Word] /\ state \in [1 .. 33 -> Word]
  /\ kstack \in [1 .. StackWords -> Word]
  /\ {pc, mepc, mscratch, mtvec} \subseteq Word
  /\ mie \in 0 .. 1 /\ mpie \in 0 .. 1 /\ pending \in {"masked", "no", "yes"}
  /\ pc \in {Loop, AfterRun} => regs["sp"] = kernelStack(KernelDepth)

(* run_user keeps its calling convention across a whole excursion to user  *)
(* mode and back through a trap: the kernel finds its callee-saved         *)
(* registers, its gp and tp and its stack pointer.                         *)
KernelContextKept == pc = AfterRun => \A r \in CalleeSaved : regs[r] = kept[r]

(* Interrupts are masked in all the kernel, where user_trap would save the *)
(* kernel's registers over the user's, and open whenever the user runs,    *)
(* after the first mret as after the hundredth trap.                       *)
MaskedInKernel == mie = IF inUser THEN 1 ELSE 0

(* While the user runs and when it traps, mscratch holds the address of    *)
(* state, where user_trap stores the registers and finds the kernel stack. *)
TrapFindsState == inUser \/ pc = UserTrap => mscratch = StateAddr

(* A trap at any moment finds what it needs, and run_user returns as a     *)
(* function would, however many rounds there have been.                    *)
ContextsKept == KernelTypeOK /\ KernelContextKept /\ MaskedInKernel /\ TrapFindsState

(* The user goes on with the registers it had at the trap, at the          *)
(* instruction after an exception and at the same one after an interrupt;  *)
(* it starts with the registers and the pc of kernel_main.                 *)
ResumesUser ==
  [][~ inUser /\ inUser' => regs' = owed.regs /\ pc' = owed.pc]_vars

(* With no interrupts, as kernel_main leaves it, the user always gets to   *)
(* the instruction after its ecall: every ecall is handled, returned from  *)
(* and skipped.  Whether that instruction, the cbo.clean, then completes   *)
(* is left open.                                                           *)
EcallsReturn == pending = "masked" => []<>(pc = CboClean)
=============================================================================
