------------------------------ MODULE MCOOOCore ------------------------------
(***************************************************************************)
(* Instances of OOOCore.                                                   *)
(***************************************************************************)
EXTENDS OOOCore

I(op, rd, rs1, rs2, target) ==
  [op |-> op, rd |-> rd, rs1 |-> rs1, rs2 |-> rs2, target |-> target]

NoMisaligned == {}

Loop(i, j) == [p \in Pc |-> IF p = 0 THEN i ELSE IF p = 1 THEN j ELSE I("alu", 1, 1, 1, 0)]

(* Dependences, mispredicted branches, loads that are killed.              *)
DataPrograms ==
  {Loop(I("alu", 1, 1, 2, 0), I("branch", 0, 1, 2, 0)),
   Loop(I("alu", 1, 2, 1, 0), I("alu", 2, 1, 1, 0)),
   Loop(I("store", 0, 1, 2, 0), I("load", 1, 1, 0, 0)),
   Loop(I("load", 2, 1, 0, 0), I("jal", 1, 0, 0, 0))}

(* Exceptions, interrupts, CSR accesses and flushes.                       *)
TrapPrograms ==
  {Loop(I("csrrs", 0, 0, 0, 0), I("alu", 1, 1, 1, 0)),
   Loop(I("mret", 0, 0, 0, 0), I("csrrw", 1, 1, 0, 0)),
   Loop(I("illegal", 0, 0, 0, 0), I("alu", 1, 1, 1, 0)),
   Loop(I("fence_i", 0, 0, 0, 0), I("csrrw", 1, 1, 0, 0)),
   Loop(I("alu", 1, 1, 1, 0), I("ecall", 0, 0, 0, 0)),
   Loop(I("jal", 1, 0, 0, 1), I("store", 0, 1, 1, 0))}

AllPrograms == DataPrograms \cup TrapPrograms

(* One kind of retirement after the other. *)
LivePrograms ==
  {Loop(I("store", 0, 1, 0, 0), I("load", 1, 1, 0, 0)),
   Loop(I("illegal", 0, 0, 0, 0), I("csrrw", 1, 1, 0, 0))}

LastPc == {NumPc - 1}

(* CoreView identifies states that differ by a rotation of the reorder     *)
(* buffer or of the epochs, in the names of the physical registers (each   *)
(* is shown by who holds it: OneHolder and NoLeak, which are proved, make  *)
(* that a name) or in data nobody can read again (free slots, values of    *)
(* free registers, results of entries of an old epoch).  Next treats all   *)
(* the names alike and looks at no dead datum.                             *)
Current(i) == i \in Live /\ data[i].epoch = epoch

at(p) == (firstP + p) % RobSize
relEpoch(e) == (epoch + NumEpoch - e) % NumEpoch

Holder(p) ==
  IF p = 0 THEN <<"zero", 0>>
  ELSE IF \E a \in ArchReg : naming[a] = p
         THEN <<"arch", CHOOSE a \in ArchReg : naming[a] = p>>
  ELSE IF \E i \in Live : data[i].pdst = p
         THEN <<"rob", robPos(CHOOSE i \in Live : data[i].pdst = p)>>
  ELSE <<"free", IF p \in FreeRegs
                   THEN Len(freeList) - (CHOOSE k \in 1 .. Len(freeList) : freeList[k] = p)
                   ELSE 0>>

Seen(e) == <<robPos(e.index), e.pc, e.rdy,
             [j \in 1 .. 2 |-> IF e.rdy[j] /\ ~Current(e.index)
                                 THEN <<"old", 0>> ELSE Holder(e.regs[j])]>>

SeenDecoded(d) == <<d.pc, d.pred, relEpoch(d.epoch)>>

CoreView ==
  <<prog, fetchPc, csr, archPc, empty, full, robPos(nextP), Len(freeList), speculated,
    [k \in 1 .. Len(fetched) |-> SeenDecoded(fetched[k])],
    [k \in 1 .. Len(renamed) |->
       <<SeenDecoded(renamed[k].dec), [j \in 1 .. 2 |-> Holder(renamed[k].regs[j])]>>],
    [p \in 0 .. RobSize - 1 |->
       <<at(p) \in killed, at(p) \in waitDmemCommit, at(p) \in resultValid,
         IF at(p) \in Live THEN SeenDecoded(data[at(p)]) ELSE <<>>,
         IF Current(at(p)) /\ at(p) \in resultValid
           THEN <<results[at(p)], registers[data[at(p)].pdst]>> ELSE <<>> >>],
    [a \in ArchReg |-> registers[naming[a]]],
    [a \in speculated |-> Holder(backup[a])],
    {Holder(p) : p \in scoreboard},
    [t \in IqTag |-> [k \in 1 .. Len(iq[t]) |-> Seen(iq[t][k])]],
    [t \in IqTag |-> {<<robPos(o.index), IF Current(o.index) THEN o.result ELSE Error>> : o \in fu[t]}],
    [k \in 1 .. Len(direct) |-> [j \in 1 .. 2 |-> Holder(direct[k][j])]],
    [k \in 1 .. Len(decodeFail) |-> robPos(decodeFail[k])]>>
=============================================================================
