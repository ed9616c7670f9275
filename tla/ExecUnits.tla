------------------------------ MODULE ExecUnits ------------------------------
(***************************************************************************)
(* The instruction vocabulary of the DOoOM cores and what executing one    *)
(* instruction computes: the tags of Utils.bsv, the results of OOO.bsv,    *)
(* the pure functions of FunctionalUnit.bsv and the part of CSR.bsv that   *)
(* traps and the CSR instructions touch.  Words of 32 bits are abstracted  *)
(* to 0..NumVal-1 and program counters to 0..NumPc-1, with pc + 4 as the   *)
(* cyclic successor; the set Misaligned plays the pcs with pc[1:0] # 0.    *)
(***************************************************************************)
EXTENDS OOOTypes

CONSTANTS NumVal,      \* number of register values
          NumPc,       \* number of program counters
          TrapPc,      \* where mtvec points
          Misaligned   \* pcs that raise INSTRUCTION_ADDRESS_MISALIGNED

ASSUME ExecUnitsAssumption ==
  /\ NumVal \in Nat \ {0}
  /\ NumPc \in Nat \ {0}
  /\ TrapPc \in 0 .. NumPc - 1
  /\ Misaligned \subseteq 0 .. NumPc - 1

Value == 0 .. NumVal - 1
Pc    == 0 .. NumPc - 1

(***************************************************************************)
(* Instructions.  "csrrw" swaps mscratch with rs1, "csrrs" is CSRRSI on    *)
(* mstatus.MIE, "illegal" is what decodeFn marks as an exception (an       *)
(* illegal encoding or an access fault of the fetch).                      *)
(***************************************************************************)
Op == {"alu", "branch", "jal", "load", "store",
       "csrrw", "csrrs", "fence_i", "ecall", "mret", "illegal"}

Instr == [op : Op, rd : ArchReg, rs1 : ArchReg, rs2 : ArchReg, target : Pc]

ExecTag == {"EXEC", "CONTROL", "DMEM", "DIRECT"}

tagOfInstr(i) ==
  CASE i.op = "alu"                -> "EXEC"
    [] i.op \in {"branch", "jal"}  -> "CONTROL"
    [] i.op \in {"load", "store"}  -> "DMEM"
    [] OTHER                       -> "DIRECT"

(* Registers read and written; x0 stands for none.                         *)
register1(i) == IF i.op \in {"alu", "branch", "load", "store", "csrrw"} THEN i.rs1 ELSE zeroReg
register2(i) == IF i.op \in {"alu", "branch", "store"} THEN i.rs2 ELSE zeroReg
destination(i) == IF i.op \in {"alu", "jal", "load", "csrrw", "csrrs"} THEN i.rd ELSE zeroReg

isLoad(i) == i.op = "load"

(***************************************************************************)
(* Results of an execution: Ok {flush, rd_val, next_pc} or Error.          *)
(***************************************************************************)
ExecResult == [ok : BOOLEAN, val : Value, npc : Pc, flush : BOOLEAN]

Ok(v, npc, flush) == [ok |-> TRUE, val |-> v, npc |-> npc, flush |-> flush]
Error == [ok |-> FALSE, val |-> 0, npc |-> 0, flush |-> FALSE]

plus4(pc) == (pc + 1) % NumPc

execALU(pc, v1, v2) == Ok((v1 + v2 + 1) % NumVal, plus4(pc), FALSE)

controlFlow(i, pc, v1, v2) ==
  LET npc == IF i.op = "branch" /\ v1 # v2 THEN plus4(pc) ELSE i.target
      val == IF i.op = "branch" THEN 0 ELSE plus4(pc) % NumVal
  IN  IF (i.op = "branch" => v1 = v2) /\ npc \in Misaligned
        THEN Error
        ELSE Ok(val, npc, FALSE)

(* What the load-store unit may answer: a loaded word, or an alignment     *)
(* fault; a store answers 0.  The memory itself is the LSU's business.     *)
dmemResults(i, pc) ==
  {Error} \cup IF isLoad(i) THEN {Ok(v, plus4(pc), FALSE) : v \in Value}
                            ELSE {Ok(0, plus4(pc), FALSE)}

(* All the results an issued instruction may be given by its unit.         *)
unitResults(i, pc, v1, v2) ==
  CASE tagOfInstr(i) = "EXEC"    -> {execALU(pc, v1, v2)}
    [] tagOfInstr(i) = "CONTROL" -> {controlFlow(i, pc, v1, v2)}
    [] OTHER                     -> dmemResults(i, pc)

(***************************************************************************)
(* Control and status registers touched by traps and CSR instructions.     *)
(***************************************************************************)
Csr == [mscratch : Value, mepc : Pc, mie : BOOLEAN, mpie : BOOLEAN]

mkCsrFile == [mscratch |-> 0, mepc |-> 0, mie |-> FALSE, mpie |-> FALSE]

exec_exception(c, epc) == [c EXCEPT !.mepc = epc, !.mpie = c.mie, !.mie = FALSE]

mret(c) == [c EXCEPT !.mie = c.mpie, !.mpie = FALSE]

(* execDirect: the result of an instruction executed at the head of the    *)
(* reorder buffer, and the CSR file it leaves.                             *)
execDirect(i, pc, v1, c) ==
  CASE i.op = "ecall"   -> [res |-> Error, csr |-> c]
    [] i.op = "fence_i" -> [res |-> Ok(0, plus4(pc), TRUE), csr |-> c]
    [] i.op = "mret"    -> [res |-> Ok(0, c.mepc, FALSE), csr |-> mret(c)]
    [] i.op = "csrrw"   -> [res |-> Ok(IF i.rd = 0 THEN 0 ELSE c.mscratch, plus4(pc), FALSE),
                            csr |-> [c EXCEPT !.mscratch = v1]]
    [] i.op = "csrrs"   -> [res |-> Ok((IF c.mie THEN 1 ELSE 0) % NumVal, plus4(pc), FALSE),
                            csr |-> [c EXCEPT !.mie = TRUE]]
    [] OTHER            -> [res |-> Error, csr |-> c]
=============================================================================
