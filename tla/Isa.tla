--------------------------------- MODULE Isa ---------------------------------
(***************************************************************************)
(* The promise of a core to its software: instructions take effect one at  *)
(* a time, in program order, each reading the registers its predecessors   *)
(* left.  A trap leaves the registers as they were before the faulting or  *)
(* interrupted instruction and records its pc in mepc.                     *)
(*                                                                         *)
(* An instruction executed at the head of the reorder buffer (tag DIRECT)  *)
(* retires in two steps: its CSR effect, then its register and its pc.     *)
(* Nothing may come between the two, an interrupt least of all.            *)
(***************************************************************************)
EXTENDS ExecUnits

CONSTANT Programs      \* the programs considered, functions from Pc to Instr

VARIABLES prog,        \* the program in memory
          pc,          \* the next instruction
          regs,        \* architectural registers
          csr,         \* CSR file
          done         \* <<result>> of a direct instruction half retired

isaVars == <<prog, pc, regs, csr, done>>

IsaInit ==
  /\ prog \in Programs
  /\ pc = 0
  /\ regs = [a \in ArchReg |-> 0]
  /\ csr = mkCsrFile
  /\ done = <<>>

Retire(i, r) ==
  /\ regs' = [a \in ArchReg |->
                IF a = destination(i) /\ a # zeroReg THEN r.val ELSE regs[a]]
  /\ pc' = r.npc
  /\ UNCHANGED csr

Trap ==
  /\ csr' = exec_exception(csr, pc)
  /\ pc' = TrapPc
  /\ UNCHANGED regs

Finish(i, r) == IF r.ok THEN Retire(i, r) ELSE Trap

(* An instruction of the functional units or of the load-store unit.       *)
Execute ==
  LET i == prog[pc] IN
  /\ done = <<>>
  /\ tagOfInstr(i) # "DIRECT"
  /\ \E r \in unitResults(i, pc, regs[register1(i)], regs[register2(i)]) : Finish(i, r)
  /\ UNCHANGED <<prog, done>>

DecodeFault ==
  /\ done = <<>>
  /\ prog[pc].op = "illegal"
  /\ Trap
  /\ UNCHANGED <<prog, done>>

Direct ==
  LET i == prog[pc]
      d == execDirect(i, pc, regs[register1(i)], csr)
  IN
  /\ done = <<>>
  /\ tagOfInstr(i) = "DIRECT" /\ i.op # "illegal"
  /\ csr' = d.csr
  /\ done' = <<d.res>>
  /\ UNCHANGED <<prog, pc, regs>>

DirectFinish ==
  /\ done # <<>>
  /\ Finish(prog[pc], done[1])
  /\ done' = <<>>
  /\ UNCHANGED prog

(* An interrupt is taken instead of an instruction without side effects.   *)
Interrupt ==
  /\ done = <<>>
  /\ csr.mie
  /\ tagOfInstr(prog[pc]) \notin {"DMEM", "DIRECT"}
  /\ Trap
  /\ UNCHANGED <<prog, done>>

IsaNext == Execute \/ DecodeFault \/ Direct \/ DirectFinish \/ Interrupt

IsaSpec == IsaInit /\ [][IsaNext]_isaVars
=============================================================================
