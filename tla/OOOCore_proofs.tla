---------------------------- MODULE OOOCore_proofs ----------------------------
(***************************************************************************)
(* Theorems about the out-of-order core, for every size of its structures, *)
(* every program and every number of registers, values and epochs.         *)
(***************************************************************************)
EXTENDS OOOCore, ROB_proofs

USE DEF IqTag

-----------------------------------------------------------------------------
(* Typing of the operators the actions are built from.                     *)

LEMMA InstrType ==
  ASSUME NEW i \in Instr
  PROVE  /\ i.target \in Pc
         /\ register1(i) \in ArchReg /\ register2(i) \in ArchReg
         /\ destination(i) \in ArchReg
BY NumArchRegAssumption DEF Instr, register1, register2, destination, ArchReg, zeroReg

LEMMA ModType ==
  ASSUME NEW n \in Nat \ {0}, NEW k \in Nat
  PROVE  k % n \in 0 .. n - 1
OBVIOUS

LEMMA ResultType ==
  /\ Error \in ExecResult
  /\ \A v \in Value, npc \in Pc, f \in BOOLEAN : Ok(v, npc, f) \in ExecResult
  /\ 0 \in Value /\ 0 \in Pc
  /\ \A pc \in Pc : plus4(pc) \in Pc
  /\ \A k \in Nat : k % NumVal \in Value
<1>1. 0 \in Value /\ 0 \in Pc
  BY ExecUnitsAssumption DEF Value, Pc
<1>2. \A pc \in Pc : plus4(pc) \in Pc
  BY ExecUnitsAssumption, ModType DEF plus4, Pc
<1>3. \A k \in Nat : k % NumVal \in Value
  BY ExecUnitsAssumption, ModType DEF Value
<1>4. Error \in ExecResult
  BY <1>1 DEF Error, ExecResult
<1>5. \A v \in Value, npc \in Pc, f \in BOOLEAN : Ok(v, npc, f) \in ExecResult
  BY DEF Ok, ExecResult
<1> QED  BY <1>1, <1>2, <1>3, <1>4, <1>5

LEMMA UnitResultsType ==
  ASSUME NEW i \in Instr, NEW pc \in Pc, NEW v1 \in Value, NEW v2 \in Value
  PROVE  unitResults(i, pc, v1, v2) \subseteq ExecResult
<1>1. execALU(pc, v1, v2) \in ExecResult
  <2>1. v1 + v2 + 1 \in Nat
    BY ExecUnitsAssumption DEF Value
  <2> QED  BY <2>1, ResultType DEF execALU
<1>2. controlFlow(i, pc, v1, v2) \in ExecResult
  <2>1. plus4(pc) \in Nat
    BY ResultType, ExecUnitsAssumption DEF Pc
  <2> QED  BY <2>1, ResultType, InstrType DEF controlFlow
<1>3. dmemResults(i, pc) \subseteq ExecResult
  BY ResultType DEF dmemResults
<1> QED  BY <1>1, <1>2, <1>3 DEF unitResults

LEMMA ExecDirectType ==
  ASSUME NEW i \in Instr, NEW pc \in Pc, NEW v \in Value, NEW c \in Csr
  PROVE  /\ execDirect(i, pc, v, c).res \in ExecResult
         /\ execDirect(i, pc, v, c).csr \in Csr
         /\ exec_exception(c, pc) \in Csr
<1>1. exec_exception(c, pc) \in Csr /\ mret(c) \in Csr
  BY DEF exec_exception, mret, Csr
<1>2. [c EXCEPT !.mscratch = v] \in Csr /\ [c EXCEPT !.mie = TRUE] \in Csr
  BY DEF Csr
<1>3. c.mepc \in Pc /\ c.mscratch \in Value
  BY DEF Csr
<1>4. (IF c.mie THEN 1 ELSE 0) % NumVal \in Value
  BY ResultType
<1>5. (IF i.rd = 0 THEN 0 ELSE c.mscratch) \in Value
  BY <1>3, ResultType
<1> QED  BY <1>1, <1>2, <1>3, <1>4, <1>5, ResultType DEF execDirect

LEMMA IqType ==
  ASSUME NEW q \in Seq(IqEntry)
  PROVE  /\ \A k \in 1 .. Len(q) : iqDeq(q, k) \in Seq(IqEntry)
         /\ \A p : iqWakeup(q, p) \in Seq(IqEntry)
<1>1. ASSUME NEW k \in 1 .. Len(q) PROVE iqDeq(q, k) \in Seq(IqEntry)
  BY DEF iqDeq
<1>2. ASSUME NEW p PROVE iqWakeup(q, p) \in Seq(IqEntry)
  <2>1. \A k \in 1 .. Len(q) :
          [q[k] EXCEPT !.rdy = [j \in 1 .. 2 |-> q[k].rdy[j] \/ q[k].regs[j] = p]] \in IqEntry
    <3> TAKE k \in 1 .. Len(q)
    <3> DEFINE r == [j \in 1 .. 2 |-> q[k].rdy[j] \/ q[k].regs[j] = p]
    <3>1. q[k] \in IqEntry
      OBVIOUS
    <3>2. r \in [1 .. 2 -> BOOLEAN]
      OBVIOUS
    <3> HIDE DEF r
    <3> QED  BY <3>1, <3>2 DEF IqEntry
  <2> QED  BY <2>1 DEF iqWakeup
<1> QED  BY <1>1, <1>2

-----------------------------------------------------------------------------
(* Type correctness.                                                       *)

LEMMA InitTypeOK == Init => TypeOK
<1> SUFFICES ASSUME Init PROVE TypeOK
  OBVIOUS
<1>1. 0 \in Epoch /\ 0 \in PhysReg /\ 0 \in RobIndex
  BY CoreAssumption, RenamingAssumption, NumArchRegAssumption, RobSizeAssumption
    DEF Epoch, PhysReg, RobIndex
<1>2. FrontTypeOK
  BY <1>1, CoreAssumption, ResultType DEF Init, FrontTypeOK, mkCsrFile, Csr
<1>3. ExecTypeOK
  BY <1>1, ResultType DEF Init, ExecTypeOK
<1>4. RobTypeOK
  BY <1>1, ResultType DEF Init, mkROB, RobTypeOK, RobEntry, RingOK
<1>5. RenamingTypeOK
  BY <1>1, RenamingAssumption, NumArchRegAssumption
    DEF Init, mkRenamingTable, RenamingTypeOK, PhysReg, ArchReg
<1> QED  BY <1>2, <1>3, <1>4, <1>5 DEF TypeOK

LEMMA EnqType ==
  ASSUME RobTypeOK, NEW e \in RobEntry, enq(e)
  PROVE  RobTypeOK'
BY EnqLive DEF RobTypeOK, enq

LEMMA WriteBackType ==
  ASSUME RobTypeOK, NEW i \in RobIndex, NEW r \in ExecResult, writeBack(i, r)
  PROVE  RobTypeOK'
BY DEF RobTypeOK, writeBack, RingOK

LEMMA FirstType ==
  ASSUME TypeOK
  PROVE  /\ firstP \in RobIndex /\ nextP \in RobIndex
         /\ first \in RobEntry /\ first_result \in ExecResult
         /\ first.pc \in Pc /\ first.pdst \in PhysReg
         /\ first_result.npc \in Pc /\ first_result.flush \in BOOLEAN
         /\ instrOf(first) \in Instr
         /\ destination(instrOf(first)) \in ArchReg
<1>1. firstP \in RobIndex /\ first \in RobEntry /\ first_result \in ExecResult
  BY DEF TypeOK, RobTypeOK, RingOK, first, first_result
<1>2. first.pc \in Pc /\ first.pdst \in PhysReg
  BY <1>1 DEF RobEntry
<1>3. instrOf(first) \in Instr
  BY <1>2 DEF TypeOK, FrontTypeOK, instrOf
<1>4. first_result.npc \in Pc /\ first_result.flush \in BOOLEAN
  BY <1>1 DEF ExecResult
<1>5. nextP \in RobIndex
  BY DEF TypeOK, RobTypeOK, RingOK
<1> QED  BY <1>1, <1>2, <1>3, <1>4, <1>5, InstrType

LEMMA FreeType ==
  ASSUME freeList \in Seq(PhysReg), NEW p \in PhysReg
  PROVE  free(p) \in Seq(PhysReg)
BY DEF free

LEMMA DeqRobType ==
  ASSUME TypeOK, NEW keep \in BOOLEAN, NEW flush \in BOOLEAN, NEW npc \in Pc,
         deqRob(keep, flush, npc)
  PROVE  RobTypeOK' /\ RenamingTypeOK' /\ epoch' \in Epoch /\ fetchPc' \in Pc
<1> USE FirstType
<1>1. RobTypeOK'
  BY DeqLive DEF TypeOK, RobTypeOK, deqRob, deq
<1>2. RenamingTypeOK'
  <2>1. naming[destination(instrOf(first))] \in PhysReg
    BY DEF TypeOK, RenamingTypeOK
  <2>2. commit(destination(instrOf(first)), first.pdst, keep, flush)
    BY DEF deqRob
  <2>3. freeList' \in Seq(PhysReg) /\ naming' \in [ArchReg -> PhysReg]
    BY <2>1, <2>2, FreeType DEF commit, TypeOK, RenamingTypeOK
  <2>4. speculated' \subseteq ArchReg
    BY <2>2 DEF commit, TypeOK, RenamingTypeOK
  <2> QED  BY <2>2, <2>3, <2>4 DEF commit, TypeOK, RenamingTypeOK
<1>3. nextEpoch \in Epoch
  BY CoreAssumption, ModType DEF nextEpoch, Epoch, TypeOK, FrontTypeOK
<1>4. epoch' \in Epoch /\ fetchPc' \in Pc
  BY <1>3 DEF deqRob, TypeOK, FrontTypeOK
<1> QED  BY <1>1, <1>2, <1>4

LEMMA CommitDmemType ==
  ASSUME TypeOK, commit_dmem
  PROVE  killed' \subseteq RobIndex /\ waitDmemCommit' \subseteq RobIndex
<1>1. Live \subseteq RobIndex
  BY DEF Live
<1> QED  BY <1>1 DEF commit_dmem, TypeOK, ExecTypeOK

LEMMA WakeupFnType ==
  ASSUME TypeOK, NEW p \in PhysReg, NEW r \in ExecResult, wakeupFn(p, r)
  PROVE  /\ iq' \in [IqTag -> Seq(IqEntry)]
         /\ registers' \in [PhysReg -> Value]
         /\ RenamingTypeOK'
<1>1. iq' \in [IqTag -> Seq(IqEntry)]
  BY IqType DEF wakeupFn, TypeOK, ExecTypeOK
<1>2. r.val \in Value
  BY DEF ExecResult
<1>3. registers' \in [PhysReg -> Value]
  BY <1>2 DEF wakeupFn, TypeOK, ExecTypeOK
<1> QED  BY <1>1, <1>3 DEF wakeupFn, wakeup, TypeOK, RenamingTypeOK

LEMMA RenamedType ==
  ASSUME TypeOK, renamed # <<>>
  PROVE  /\ renamed[1] \in Renamed
         /\ renamed[1].dec \in Fetched
         /\ renamed[1].dec.pc \in Pc /\ renamed[1].dec.pred \in Pc
         /\ renamed[1].dec.epoch \in Epoch
         /\ instrOf(renamed[1].dec) \in Instr
<1>1. renamed[1] \in Renamed
  BY DEF TypeOK, FrontTypeOK
<1>2. renamed[1].dec \in Fetched
  BY <1>1 DEF Renamed
<1>3. renamed[1].dec.pc \in Pc /\ renamed[1].dec.pred \in Pc /\ renamed[1].dec.epoch \in Epoch
  BY <1>2 DEF Fetched
<1> QED  BY <1>1, <1>2, <1>3 DEF TypeOK, FrontTypeOK, instrOf

LEMMA AllocateType ==
  ASSUME RenamingTypeOK, NEW a \in ArchReg, allocate(a)
  PROVE  /\ allocated(a) \in PhysReg
         /\ RenamingTypeOK'
<1>1. 0 \in PhysReg
  BY RenamingAssumption, NumArchRegAssumption DEF PhysReg
<1>2. freeList \in Seq(PhysReg) /\ Len(freeList) > 0
  BY DEF RenamingTypeOK, allocate, canAlloc
<1>3. allocated(a) \in PhysReg
  BY <1>1, <1>2 DEF allocated
<1>4. SubSeq(freeList, 1, Len(freeList) - 1) \in Seq(PhysReg)
  BY <1>2
<1> QED  BY <1>3, <1>4 DEF allocate, RenamingTypeOK

(* A step of the front end keeps the types.                                *)
LEMMA FrontTypeNext ==
  ASSUME TypeOK,
         \/ \E pred \in Pc : fetch(pred)
         \/ rename_rule \/ dispatch_stale \/ dispatch_exception
         \/ \E t \in ExecTag : dispatch(t)
  PROVE  TypeOK'
<1>1. CASE \E pred \in Pc : fetch(pred)
  <2>1. PICK pred \in Pc : fetch(pred)
    BY <1>1
  <2>2. [pc |-> fetchPc, pred |-> pred, epoch |-> epoch] \in Fetched
    BY DEF Fetched, TypeOK, FrontTypeOK
  <2>3. FrontTypeOK'
    BY <2>1, <2>2 DEF TypeOK, FrontTypeOK, fetch
  <2> QED
    BY <2>1, <2>3 DEF fetch, TypeOK, ExecTypeOK, RobTypeOK, RenamingTypeOK, RingOK,
                      robVars, renamingVars
<1>2. CASE rename_rule
  <2>1. Head(fetched) \in Fetched /\ Tail(fetched) \in Seq(Fetched)
    BY <1>2 DEF rename_rule, TypeOK, FrontTypeOK
  <2>2. instrOf(Head(fetched)) \in Instr
    BY <2>1 DEF Fetched, instrOf, TypeOK, FrontTypeOK
  <2>3. \A a \in ArchReg : rename(a) \in PhysReg
    BY DEF rename, TypeOK, RenamingTypeOK
  <2>4. FrontTypeOK'
    BY <1>2, <2>1, <2>2, <2>3, InstrType DEF rename_rule, TypeOK, FrontTypeOK, Renamed
  <2> QED
    BY <1>2, <2>4 DEF rename_rule, TypeOK, ExecTypeOK, RobTypeOK, RenamingTypeOK, RingOK,
                      robVars, renamingVars
<1>3. CASE dispatch_stale
  <2>1. FrontTypeOK'
    BY <1>3 DEF dispatch_stale, TypeOK, FrontTypeOK, frontVars
  <2> QED
    BY <1>3, <2>1 DEF dispatch_stale, TypeOK, ExecTypeOK, RobTypeOK, RenamingTypeOK, RingOK,
                      robVars, renamingVars
<1>4. CASE dispatch_exception
  <2>1. [pc |-> renamed[1].dec.pc, pred |-> renamed[1].dec.pred,
         epoch |-> renamed[1].dec.epoch, pdst |-> 0] \in RobEntry
    BY <1>4, RenamedType, RenamingAssumption, NumArchRegAssumption
      DEF dispatch_exception, RobEntry, PhysReg
  <2>2. RobTypeOK'
    BY <1>4, <2>1, EnqType DEF dispatch_exception, TypeOK
  <2>3. FrontTypeOK'
    BY <1>4 DEF dispatch_exception, TypeOK, FrontTypeOK, frontVars
  <2>4. ExecTypeOK'
    BY <1>4, FirstType DEF dispatch_exception, TypeOK, ExecTypeOK
  <2> QED
    BY <1>4, <2>2, <2>3, <2>4 DEF dispatch_exception, TypeOK, RenamingTypeOK, renamingVars
<1>5. CASE \E t \in ExecTag : dispatch(t)
  <2>1. PICK t \in ExecTag : dispatch(t)
    BY <1>5
  <2> DEFINE r == renamed[1]
             a == destination(instrOf(r.dec))
             e == [index |-> nextP, pc |-> r.dec.pc, pdst |-> allocated(a), regs |-> r.regs,
                   rdy |-> [j \in 1 .. 2 |-> ready(r.regs[j])]]
  <2>2. a \in ArchReg /\ r.regs \in [1 .. 2 -> PhysReg]
    BY <2>1, RenamedType, InstrType DEF dispatch, Renamed
  <2>3. allocated(a) \in PhysReg /\ RenamingTypeOK'
    BY <2>1, <2>2, AllocateType DEF dispatch, TypeOK
  <2>4. [pc |-> r.dec.pc, pred |-> r.dec.pred, epoch |-> r.dec.epoch, pdst |-> allocated(a)]
          \in RobEntry
    BY <2>1, <2>3, RenamedType DEF dispatch, RobEntry
  <2>5. RobTypeOK'
    BY <2>1, <2>4, EnqType DEF dispatch, TypeOK
  <2>6. FrontTypeOK'
    BY <2>1 DEF dispatch, TypeOK, FrontTypeOK, frontVars
  <2>7. e \in IqEntry
    <3>1. [j \in 1 .. 2 |-> ready(r.regs[j])] \in [1 .. 2 -> BOOLEAN]
      BY DEF ready
    <3>2. nextP \in RobIndex /\ r.dec.pc \in Pc
      BY <2>1, FirstType, RenamedType DEF dispatch
    <3> HIDE DEF r, a
    <3> QED  BY <2>2, <2>3, <3>1, <3>2 DEF IqEntry
  <2>8. iq' \in [IqTag -> Seq(IqEntry)] /\ direct' \in Seq([1 .. 2 -> PhysReg])
    <3> HIDE DEF e
    <3>1. CASE t = "DIRECT"
      <4>1. direct' = Append(direct, r.regs) /\ iq' = iq
        BY <2>1, <3>1, Zenon DEF dispatch
      <4> HIDE DEF r
      <4> QED  BY <2>2, <4>1 DEF TypeOK, ExecTypeOK
    <3>2. CASE t # "DIRECT"
      <4>1. t \in IqTag /\ Append(iq[t], e) \in Seq(IqEntry)
        BY <2>7, <3>2 DEF ExecTag, TypeOK, ExecTypeOK
      <4>2. iq' = [iq EXCEPT ![t] = Append(iq[t], e)] /\ direct' = direct
        BY <2>1, <3>2, Zenon DEF dispatch, iqEnq, e
      <4> QED  BY <4>1, <4>2 DEF TypeOK, ExecTypeOK
    <3> QED  BY <3>1, <3>2
  <2>9. ExecTypeOK'
    BY <2>1, <2>8, FirstType DEF dispatch, TypeOK, ExecTypeOK
  <2> QED  BY <2>3, <2>5, <2>6, <2>9 DEF TypeOK
<1> QED  BY <1>1, <1>2, <1>3, <1>4, <1>5

(* A step of the execution units keeps the types.                          *)
LEMMA ExecTypeNext ==
  ASSUME TypeOK,
         \/ \E t \in IqTag : connect(t)
         \/ \E t \in IqTag : write_back(t)
         \/ write_back_fail \/ execute_direct
  PROVE  TypeOK'
<1>1. CASE \E t \in IqTag : connect(t)
  <2>0. PICK t \in IqTag : connect(t)
    BY <1>1
  <2>1. PICK k \in 1 .. Len(iq[t]) :
          /\ \E r \in unitResults(prog[iq[t][k].pc], iq[t][k].pc,
                                  registers[iq[t][k].regs[1]], registers[iq[t][k].regs[2]]) :
               fu' = [fu EXCEPT ![t] = @ \cup {[index |-> iq[t][k].index,
                                               pdst |-> iq[t][k].pdst, result |-> r]}]
          /\ iq' = [iq EXCEPT ![t] = iqDeq(iq[t], k)]
          /\ UNCHANGED <<prog, frontVars, renamed, epoch, killed, waitDmemCommit, registers,
                         direct, decodeFail, csr, archPc, robVars, renamingVars>>
    BY <2>0, Zenon DEF connect
  <2>2. iq[t] \in Seq(IqEntry) /\ iq[t][k] \in IqEntry
    BY DEF TypeOK, ExecTypeOK
  <2>3. /\ prog[iq[t][k].pc] \in Instr /\ iq[t][k].pc \in Pc
        /\ registers[iq[t][k].regs[1]] \in Value /\ registers[iq[t][k].regs[2]] \in Value
    BY <2>2 DEF TypeOK, FrontTypeOK, ExecTypeOK, IqEntry
  <2>4. PICK r \in ExecResult :
          fu' = [fu EXCEPT ![t] = @ \cup {[index |-> iq[t][k].index,
                                          pdst |-> iq[t][k].pdst, result |-> r]}]
    BY <2>1, <2>3, UnitResultsType
  <2>5. [index |-> iq[t][k].index, pdst |-> iq[t][k].pdst, result |-> r] \in ExecOutput
    BY <2>2 DEF IqEntry, ExecOutput
  <2>6. fu' \in [IqTag -> SUBSET ExecOutput]
    BY <2>4, <2>5 DEF TypeOK, ExecTypeOK
  <2>7. iq' \in [IqTag -> Seq(IqEntry)]
    BY <2>1, <2>2, IqType DEF TypeOK, ExecTypeOK
  <2>8. ExecTypeOK'
    BY <2>1, <2>6, <2>7 DEF TypeOK, ExecTypeOK
  <2> QED
    BY <2>1, <2>8 DEF TypeOK, FrontTypeOK, RobTypeOK, RenamingTypeOK, RingOK,
                      frontVars, robVars, renamingVars
<1>2. CASE \E t \in IqTag : write_back(t)
  <2>0. PICK t \in IqTag : write_back(t)
    BY <1>2
  <2>1. PICK o \in fu[t] :
          /\ fu' = [fu EXCEPT ![t] = @ \ {o}]
          /\ writeBack(o.index, o.result)
          /\ wakeupFn(o.pdst, o.result)
          /\ UNCHANGED <<prog, frontVars, renamed, epoch, killed, waitDmemCommit, direct,
                         decodeFail, csr, archPc>>
    BY <2>0, Zenon DEF write_back
  <2>2. o.index \in RobIndex /\ o.pdst \in PhysReg /\ o.result \in ExecResult
    BY DEF TypeOK, ExecTypeOK, ExecOutput
  <2>3. RobTypeOK'
    BY <2>1, <2>2, WriteBackType DEF TypeOK
  <2>4. ExecTypeOK'
    BY <2>1, <2>2, WakeupFnType DEF TypeOK, ExecTypeOK
  <2>5. RenamingTypeOK'
    BY <2>1, <2>2, WakeupFnType
  <2> QED  BY <2>1, <2>3, <2>4, <2>5 DEF TypeOK, FrontTypeOK, frontVars
<1>3. CASE write_back_fail
  <2>1. 0 \in PhysReg
    BY RenamingAssumption, NumArchRegAssumption DEF PhysReg
  <2>2. Head(decodeFail) \in RobIndex /\ Tail(decodeFail) \in Seq(RobIndex)
    BY <1>3 DEF write_back_fail, TypeOK, ExecTypeOK
  <2>3. RobTypeOK'
    BY <1>3, <2>2, WriteBackType, ResultType DEF TypeOK, write_back_fail
  <2>4. ExecTypeOK' /\ RenamingTypeOK'
    BY <1>3, <2>1, <2>2, WakeupFnType, ResultType DEF TypeOK, ExecTypeOK, write_back_fail
  <2> QED  BY <1>3, <2>3, <2>4 DEF write_back_fail, TypeOK, FrontTypeOK, frontVars
<1>4. CASE execute_direct
  <2> DEFINE v == registers[direct[1][1]]
             d == execDirect(instrOf(first), first.pc, v, csr)
  <2>1. v \in Value /\ Tail(direct) \in Seq([1 .. 2 -> PhysReg])
    <3>1. direct[1] \in [1 .. 2 -> PhysReg] /\ Tail(direct) \in Seq([1 .. 2 -> PhysReg])
      BY <1>4 DEF execute_direct, TypeOK, ExecTypeOK
    <3> QED  BY <3>1 DEF TypeOK, ExecTypeOK
  <2>2. d.res \in ExecResult /\ d.csr \in Csr
    <3> HIDE DEF v
    <3> QED  BY <2>1, FirstType, ExecDirectType DEF TypeOK, FrontTypeOK
  <2>3. \A val \in Value : Ok(val, 0, FALSE) \in ExecResult
    BY ResultType
  <2>4. /\ csr' \in Csr
        /\ \E r \in ExecResult : writeBack(firstP, r) /\ wakeupFn(first.pdst, r)
    <3>1. CASE first.epoch = epoch
      BY <1>4, <2>2, <3>1 DEF execute_direct
    <3>2. CASE first.epoch # epoch
      BY <1>4, <2>3, <3>2, ResultType DEF execute_direct, TypeOK, FrontTypeOK
    <3> QED  BY <3>1, <3>2
  <2>5. PICK r \in ExecResult : writeBack(firstP, r) /\ wakeupFn(first.pdst, r)
    BY <2>4
  <2>6. RobTypeOK'
    BY <2>5, FirstType, WriteBackType DEF TypeOK
  <2>7. ExecTypeOK' /\ RenamingTypeOK'
    BY <1>4, <2>1, <2>5, FirstType, WakeupFnType DEF TypeOK, ExecTypeOK, execute_direct
  <2> QED
    BY <1>4, <2>4, <2>6, <2>7 DEF execute_direct, TypeOK, FrontTypeOK, frontVars
<1> QED  BY <1>1, <1>2, <1>3, <1>4

(* What the five ways of retiring the head have in common.                 *)
LEMMA RetirementStep ==
  ASSUME TypeOK, Retirement
  PROVE  /\ \E keep \in BOOLEAN, flush \in BOOLEAN, npc \in Pc : deqRob(keep, flush, npc)
         /\ first_done /\ commit_dmem
         /\ csr' \in Csr /\ archPc' \in Pc
         /\ UNCHANGED retireVars
<1> USE FirstType
<1>1. csr \in Csr /\ archPc \in Pc /\ 0 \in Pc /\ TrapPc \in Pc
  BY ResultType, ExecUnitsAssumption DEF TypeOK, FrontTypeOK, Pc
<1>2. exec_exception(csr, first.pc) \in Csr
  BY <1>1 DEF Csr, exec_exception
<1>3. CASE discard_instruction
  BY <1>1, <1>3 DEF discard_instruction
<1>4. CASE commit_killed
  BY <1>1, <1>4 DEF commit_killed
<1>5. CASE commit_interrupt
  BY <1>1, <1>2, <1>5 DEF commit_interrupt, trap
<1>6. CASE commit_exception
  BY <1>1, <1>2, <1>6 DEF commit_exception, trap
<1>7. CASE commit_ok
  <2>1. (first_result.npc # first.pred \/ first_result.flush) \in BOOLEAN
    OBVIOUS
  <2>2. deqRob(TRUE, first_result.npc # first.pred \/ first_result.flush, first_result.npc)
    BY <1>7, Zenon DEF commit_ok
  <2>3. \E keep \in BOOLEAN, flush \in BOOLEAN, npc \in Pc : deqRob(keep, flush, npc)
    BY <2>1, <2>2, Zenon
  <2> QED  BY <1>1, <1>7, <2>3 DEF commit_ok
<1> QED  BY <1>3, <1>4, <1>5, <1>6, <1>7 DEF Retirement

LEMMA RetirementTypeNext ==
  ASSUME TypeOK, Retirement
  PROVE  TypeOK'
<1>1. RobTypeOK' /\ RenamingTypeOK' /\ epoch' \in Epoch /\ fetchPc' \in Pc
  BY RetirementStep, DeqRobType
<1>2. FrontTypeOK'
  BY <1>1, RetirementStep DEF TypeOK, FrontTypeOK, retireVars
<1>3. ExecTypeOK'
  BY RetirementStep, CommitDmemType DEF TypeOK, ExecTypeOK, retireVars
<1> QED  BY <1>1, <1>2, <1>3 DEF TypeOK

LEMMA TypeNext ==
  ASSUME TypeOK, [Next]_vars
  PROVE  TypeOK'
<1>1. CASE Next
  BY <1>1, FrontTypeNext, ExecTypeNext, RetirementTypeNext, Zenon DEF Next
<1>2. CASE UNCHANGED vars
  BY <1>2 DEF TypeOK, FrontTypeOK, ExecTypeOK, RobTypeOK, RenamingTypeOK, RingOK,
              vars, coreVars, frontVars, robVars, renamingVars
<1> QED  BY <1>1, <1>2

(* Every variable keeps its type, and the flags and the pointers of the    *)
(* reorder buffer agree, for every program and every size.                 *)
THEOREM TypeCorrect == Spec => []TypeOK
<1>1. Init => TypeOK
  BY InitTypeOK
<1>2. TypeOK /\ [Next]_vars => TypeOK'
  BY TypeNext
<1> QED  BY <1>1, <1>2, PTL DEF Spec

-----------------------------------------------------------------------------
(* Physical registers have exactly one holder: OneHolder and NoLeak.  The  *)
(* two are not inductive: retiring the mapping arch -> phys is only safe   *)
(* if phys is p0 exactly when arch is x0, and if p0 is never in the free   *)
(* list and always x0.  HolderInv adds that.                               *)

(* x0 is p0, which is never allocated.                                     *)
ZeroInv == naming[zeroReg] = 0 /\ 0 \notin FreeRegs

(* An instruction in flight holds p0 if and only if it writes no register. *)
PdstInv == \A i \in Live : data[i].pdst = 0 <=> destination(instrOf(data[i])) = zeroReg

HolderInv == ZeroInv /\ PdstInv /\ OneHolder /\ NoLeak

-----------------------------------------------------------------------------
(* The free list as a stack without duplicates.                            *)

Elements(q) == {q[k] : k \in 1 .. Len(q)}
Distinct(q) == \A j, k \in 1 .. Len(q) : q[j] = q[k] => j = k

LEMMA PopElements ==
  ASSUME NEW S, NEW q \in Seq(S), Len(q) > 0, Distinct(q)
  PROVE  LET r == SubSeq(q, 1, Len(q) - 1)
             x == q[Len(q)]
         IN  Distinct(r) /\ Elements(r) = Elements(q) \ {x} /\ x \in Elements(q)
<1> DEFINE r == SubSeq(q, 1, Len(q) - 1)
           n == Len(q)
<1>1. n \in Nat /\ n > 0
  OBVIOUS
<1>2. r \in Seq(S) /\ Len(r) = n - 1 /\ \A k \in 1 .. n - 1 : r[k] = q[k]
  <2>1. \A i \in 1 .. n - 1 : q[i] \in S
    BY <1>1
  <2>2. /\ r \in Seq(S) /\ Len(r) = IF 1 <= n - 1 THEN n - 1 - 1 + 1 ELSE 0
        /\ \A i \in 1 .. n - 1 - 1 + 1 : r[i] = q[1 + i - 1]
    BY <1>1, <2>1, SubSeqProperties
  <2> HIDE DEF r, n
  <2> QED  BY <1>1, <2>2
<1> HIDE DEF r
<1>3. Distinct(r)
  BY <1>1, <1>2 DEF Distinct
<1>4. Elements(r) = Elements(q) \ {q[n]}
  <2>1. \A k \in 1 .. n : k \in 1 .. n - 1 \/ k = n
    BY <1>1
  <2>2. \A k \in 1 .. n - 1 : k \in 1 .. n /\ q[k] # q[n]
    BY <1>1 DEF Distinct
  <2> HIDE DEF n
  <2> QED  BY <1>2, <2>1, <2>2 DEF Elements, n
<1>5. q[n] \in Elements(q)
  BY <1>1 DEF Elements
<1> QED  BY <1>3, <1>4, <1>5 DEF r

LEMMA PushElements ==
  ASSUME NEW S, NEW q \in Seq(S), NEW x \in S, Distinct(q), x \notin Elements(q)
  PROVE  Distinct(Append(q, x)) /\ Elements(Append(q, x)) = Elements(q) \cup {x}
<1> DEFINE r == Append(q, x)
           n == Len(q)
<1>1. /\ n \in Nat /\ r \in Seq(S) /\ Len(r) = n + 1 /\ r[n + 1] = x
      /\ \A k \in 1 .. n : r[k] = q[k]
  OBVIOUS
<1> HIDE DEF r
<1>2. \A k \in 1 .. n + 1 : k \in 1 .. n \/ k = n + 1
  BY <1>1
<1>3. \A k \in 1 .. n : k \in 1 .. n + 1 /\ q[k] # x
  BY <1>1 DEF Elements
<1>4. Elements(r) = Elements(q) \cup {x}
  <2>1. n + 1 \in 1 .. n + 1
    BY <1>1
  <2> QED  BY <1>1, <1>2, <1>3, <2>1 DEF Elements
<1>5. Distinct(r)
  BY <1>1, <1>2, <1>3 DEF Distinct
<1> QED  BY <1>4, <1>5 DEF r

-----------------------------------------------------------------------------
(* The initial state: the architectural registers hold the first physical  *)
(* ones, the free list the others.                                         *)

LEMMA HolderInit == Init => HolderInv
<1> SUFFICES ASSUME Init PROVE HolderInv
  OBVIOUS
<1> USE RenamingAssumption, NumArchRegAssumption
<1>1. Live = {}
  BY DEF Init, mkROB, Live
<1>2. naming = [a \in ArchReg |-> a]
  BY DEF Init, mkRenamingTable
<1>3. /\ Len(freeList) = NumPhysReg - NumArchReg
      /\ \A k \in 1 .. NumPhysReg - NumArchReg : freeList[k] = NumPhysReg - k
  BY DEF Init, mkRenamingTable
<1>4. FreeRegs = NumArchReg .. NumPhysReg - 1
  <2>1. \A p \in NumArchReg .. NumPhysReg - 1 :
          NumPhysReg - p \in 1 .. NumPhysReg - NumArchReg /\ freeList[NumPhysReg - p] = p
    BY <1>3
  <2>2. \A k \in 1 .. NumPhysReg - NumArchReg : freeList[k] \in NumArchReg .. NumPhysReg - 1
    BY <1>3
  <2>3. FreeRegs = {freeList[k] : k \in 1 .. NumPhysReg - NumArchReg}
    BY <1>3, Zenon DEF FreeRegs
  <2> QED  BY <2>1, <2>2, <2>3, Zenon
<1>5. NamedRegs = ArchReg
  BY <1>2 DEF NamedRegs
<1>6. InFlightRegs = {}
  BY <1>1 DEF InFlightRegs
<1>7. ZeroInv
  BY <1>2, <1>4 DEF ZeroInv, zeroReg, ArchReg
<1>8. OneHolder
  <2>1. FreeRegs \cap NamedRegs = {}
    BY <1>4, <1>5 DEF ArchReg
  <2>2. \A j, k \in 1 .. Len(freeList) : freeList[j] = freeList[k] => j = k
    BY <1>3
  <2> QED  BY <1>1, <1>2, <1>6, <2>1, <2>2 DEF OneHolder
<1>9. NoLeak
  BY <1>4, <1>5 DEF NoLeak, PhysReg, ArchReg
<1> QED  BY <1>1, <1>7, <1>8, <1>9 DEF HolderInv, PdstInv

-----------------------------------------------------------------------------
(* dispatch: the register taken from the free list, if any, becomes that   *)
(* of the new entry.                                                       *)

LEMMA HolderEnq ==
  ASSUME TypeOK, HolderInv, NEW e \in RobEntry, enq(e), prog' = prog,
         NEW a \in ArchReg, destination(instrOf(e)) = a,
         \/ /\ a # zeroReg /\ Len(freeList) > 0 /\ e.pdst = freeList[Len(freeList)]
            /\ freeList' = SubSeq(freeList, 1, Len(freeList) - 1)
         \/ a = zeroReg /\ e.pdst = 0 /\ freeList' = freeList,
         naming' = naming
  PROVE  HolderInv'
<1>1. /\ nextP \in RobIndex /\ nextP \notin Live /\ Live' = Live \cup {nextP}
  BY EnqLive DEF TypeOK, RobTypeOK
<1>2. data'[nextP] = e /\ \A i \in Live : data'[i] = data[i] /\ i # nextP
  BY <1>1 DEF enq, TypeOK, RobTypeOK, Live
<1>3. freeList \in Seq(PhysReg) /\ Distinct(freeList) /\ Elements(freeList) = FreeRegs
  BY DEF TypeOK, RenamingTypeOK, HolderInv, OneHolder, Distinct, Elements, FreeRegs
<1>4. /\ Distinct(freeList') /\ FreeRegs' = FreeRegs \ {e.pdst}
      /\ e.pdst # 0 => e.pdst \in FreeRegs
      /\ e.pdst = 0 <=> a = zeroReg
  <2>1. CASE a # zeroReg
    <3>1. /\ Distinct(freeList') /\ Elements(freeList') = Elements(freeList) \ {e.pdst}
          /\ e.pdst \in Elements(freeList)
      BY <1>3, <2>1, PopElements
    <3>2. FreeRegs' = Elements(freeList')
      BY DEF FreeRegs, Elements
    <3> QED  BY <1>3, <2>1, <3>1, <3>2 DEF HolderInv, ZeroInv
  <2>2. CASE a = zeroReg
    BY <1>3, <2>2 DEF FreeRegs, HolderInv, ZeroInv
  <2> QED  BY <2>1, <2>2
<1>5. InFlightRegs' = InFlightRegs \cup ({e.pdst} \ {0})
  <2>1. \A i \in Live : data'[i].pdst = data[i].pdst
    BY <1>2
  <2> QED  BY <1>1, <1>2, <2>1 DEF InFlightRegs
<1>6. NamedRegs' = NamedRegs
  BY DEF NamedRegs
<1>7. ZeroInv'
  BY <1>4 DEF HolderInv, ZeroInv
<1>8. PdstInv'
  BY <1>1, <1>2, <1>4 DEF HolderInv, PdstInv, instrOf
<1>9. NoLeak'
  BY <1>4, <1>5, <1>6 DEF HolderInv, ZeroInv, NoLeak
<1>10. OneHolder'
  <2>1. /\ FreeRegs' \cap NamedRegs' = {}
        /\ FreeRegs' \cap InFlightRegs' = {}
        /\ NamedRegs' \cap InFlightRegs' = {}
    BY <1>4, <1>5, <1>6 DEF HolderInv, OneHolder
  <2>2. \A i, j \in Live' : data'[i].pdst = data'[j].pdst /\ data'[i].pdst # 0 => i = j
    <3>1. \A i \in Live : data[i].pdst # 0 => data[i].pdst # e.pdst
      BY <1>4 DEF HolderInv, OneHolder, InFlightRegs
    <3> QED  BY <1>1, <1>2, <3>1 DEF HolderInv, OneHolder
  <2> QED  BY <1>4, <2>1, <2>2 DEF HolderInv, OneHolder, Distinct
<1> QED  BY <1>7, <1>8, <1>9, <1>10 DEF HolderInv

-----------------------------------------------------------------------------
(* Retirement: kept, the register of the head replaces the committed one,  *)
(* which becomes free; abandoned, it becomes free itself.                  *)

(* Freeing a register nobody else holds adds it to the free list.          *)
LEMMA HolderFree ==
  ASSUME freeList \in Seq(PhysReg), Distinct(freeList), 0 \notin FreeRegs,
         NEW p \in PhysReg, p \notin FreeRegs, freeList' = free(p)
  PROVE  Distinct(freeList') /\ FreeRegs' = FreeRegs \cup ({p} \ {0})
<1>1. Elements(freeList) = FreeRegs /\ Elements(freeList') = FreeRegs'
  BY DEF Elements, FreeRegs
<1>2. CASE p # 0
  BY <1>1, <1>2, PushElements DEF free
<1>3. CASE p = 0
  BY <1>1, <1>3 DEF free
<1> QED  BY <1>2, <1>3

LEMMA HolderDeq ==
  ASSUME TypeOK, HolderInv, NEW keep \in BOOLEAN, NEW flush \in BOOLEAN, NEW npc \in Pc,
         deqRob(keep, flush, npc), prog' = prog
  PROVE  HolderInv'
<1> DEFINE a == destination(instrOf(first))
           p == first.pdst
<1>1. a \in ArchReg /\ p \in PhysReg /\ firstP \in RobIndex /\ p = data[firstP].pdst
  BY FirstType DEF first
<1>2. firstP \in Live /\ Live' = Live \ {firstP} /\ data' = data
  BY DeqLive DEF deqRob, deq, TypeOK, RobTypeOK
<1>3. /\ IF keep THEN freeList' = free(naming[a]) /\ naming' = [naming EXCEPT ![a] = p]
                ELSE freeList' = free(p) /\ naming' = naming
  BY DEF deqRob, commit
<1>4. p = 0 <=> a = zeroReg
  BY <1>2 DEF HolderInv, PdstInv, first
<1> HIDE DEF a, p
<1>5. InFlightRegs' = InFlightRegs \ {p} /\ (p # 0 => p \in InFlightRegs)
  <2>1. \A i \in Live : data[i].pdst = p /\ p # 0 => i = firstP
    BY <1>1, <1>2 DEF HolderInv, OneHolder
  <2> QED  BY <1>1, <1>2, <2>1 DEF InFlightRegs
<1>6. /\ naming \in [ArchReg -> PhysReg] /\ freeList \in Seq(PhysReg)
      /\ Distinct(freeList) /\ 0 \notin FreeRegs /\ zeroReg \in ArchReg
      /\ naming[zeroReg] = 0 /\ 0 \in NamedRegs
  BY NumArchRegAssumption
    DEF TypeOK, RenamingTypeOK, HolderInv, OneHolder, ZeroInv, Distinct, NamedRegs,
        zeroReg, ArchReg
<1>7. p \notin FreeRegs
  BY <1>5, <1>6 DEF HolderInv, OneHolder
<1>8. PdstInv'
  BY <1>2 DEF HolderInv, PdstInv, instrOf
<1>9. \A i, j \in Live' : data'[i].pdst = data'[j].pdst /\ data'[i].pdst # 0 => i = j
  BY <1>2 DEF HolderInv, OneHolder
<1>10. CASE ~keep
  <2>1. naming' = naming /\ NamedRegs' = NamedRegs
    BY <1>3, <1>10 DEF NamedRegs
  <2>2. Distinct(freeList') /\ FreeRegs' = FreeRegs \cup ({p} \ {0})
    BY <1>1, <1>3, <1>6, <1>7, <1>10, HolderFree
  <2>3. ZeroInv'
    BY <1>6, <2>1, <2>2 DEF ZeroInv
  <2>4. NoLeak'
    BY <1>5, <1>6, <2>1, <2>2 DEF HolderInv, NoLeak
  <2>5. OneHolder'
    <3>1. /\ FreeRegs' \cap NamedRegs' = {}
          /\ FreeRegs' \cap InFlightRegs' = {}
          /\ NamedRegs' \cap InFlightRegs' = {}
      BY <1>5, <1>6, <2>1, <2>2 DEF HolderInv, OneHolder
    <3> QED  BY <1>9, <2>1, <2>2, <3>1 DEF HolderInv, OneHolder, Distinct
  <2> QED  BY <1>8, <2>3, <2>4, <2>5 DEF HolderInv
<1>11. CASE keep
  <2> DEFINE o == naming[a]
  <2>1. o \in PhysReg /\ o \in NamedRegs /\ o \notin FreeRegs /\ (o = 0 <=> p = 0)
    BY <1>1, <1>4, <1>6 DEF NamedRegs, HolderInv, OneHolder
  <2>2. Distinct(freeList') /\ FreeRegs' = FreeRegs \cup ({o} \ {0})
    BY <1>3, <1>6, <1>11, <2>1, HolderFree
  <2>3. naming' = [naming EXCEPT ![a] = p]
    BY <1>3, <1>11
  <2>4. \A b, c \in ArchReg : naming'[b] = naming'[c] => b = c
    <3>1. \A b \in ArchReg : b # a => naming[b] # p
      BY <1>1, <1>4, <1>5, <1>6 DEF HolderInv, OneHolder, NamedRegs
    <3>2. \A b, c \in ArchReg : naming[b] = naming[c] => b = c
      BY DEF HolderInv, OneHolder
    <3> QED  BY <1>1, <1>6, <2>3, <3>1, <3>2
  <2>5. NamedRegs' = (NamedRegs \ {o}) \cup {p}
    <3>1. \A b \in ArchReg : b # a => naming[b] # o
      BY <1>1 DEF HolderInv, OneHolder
    <3>2. naming'[a] = p /\ \A b \in ArchReg : b # a => naming'[b] = naming[b]
      BY <1>1, <1>6, <2>3
    <3> QED  BY <1>1, <3>1, <3>2 DEF NamedRegs
  <2> HIDE DEF o
  <2>6. ZeroInv'
    BY <1>1, <1>4, <1>6, <2>2, <2>3 DEF ZeroInv
  <2>7. NoLeak'
    BY <1>5, <1>6, <2>1, <2>2, <2>5 DEF HolderInv, NoLeak
  <2>8. OneHolder'
    <3>1. /\ FreeRegs' \cap NamedRegs' = {}
          /\ FreeRegs' \cap InFlightRegs' = {}
          /\ NamedRegs' \cap InFlightRegs' = {}
      BY <1>5, <1>6, <1>7, <2>1, <2>2, <2>5 DEF HolderInv, OneHolder
    <3> QED  BY <1>9, <2>2, <2>4, <3>1 DEF OneHolder, Distinct
  <2> QED  BY <1>8, <2>6, <2>7, <2>8 DEF HolderInv
<1> QED  BY <1>10, <1>11

-----------------------------------------------------------------------------

(* Any other step leaves the holders alone.                                *)
LEMMA HolderFrame ==
  ASSUME HolderInv, UNCHANGED <<prog, data, firstP, nextP, empty, full, naming, freeList>>
  PROVE  HolderInv'
<1>1. Live' = Live
  BY DEF Live, robPos
<1>2. FreeRegs' = FreeRegs /\ NamedRegs' = NamedRegs /\ InFlightRegs' = InFlightRegs
  BY <1>1 DEF FreeRegs, NamedRegs, InFlightRegs
<1> QED
  BY <1>1, <1>2 DEF HolderInv, ZeroInv, PdstInv, OneHolder, NoLeak, instrOf

LEMMA HolderNext ==
  ASSUME TypeOK, HolderInv, [Next]_vars
  PROVE  HolderInv'
<1> USE DEF robVars, renamingVars
<1>1. CASE \E pred \in Pc : fetch(pred)
  BY <1>1, HolderFrame DEF fetch
<1>2. CASE rename_rule
  BY <1>2, HolderFrame DEF rename_rule
<1>3. CASE dispatch_stale
  BY <1>3, HolderFrame DEF dispatch_stale
<1>4. CASE dispatch_exception
  <2> DEFINE e == [pc |-> renamed[1].dec.pc, pred |-> renamed[1].dec.pred,
                   epoch |-> renamed[1].dec.epoch, pdst |-> 0]
  <2>1. e \in RobEntry
    BY <1>4, RenamedType, RenamingAssumption, NumArchRegAssumption
      DEF dispatch_exception, RobEntry, PhysReg
  <2>2. instrOf(e).op = "illegal"
    BY <1>4 DEF dispatch_exception, decodeErr, instrOf
  <2>3. destination(instrOf(e)) = zeroReg
    BY <2>2 DEF destination
  <2>4. enq(e) /\ prog' = prog /\ freeList' = freeList /\ naming' = naming
    BY <1>4 DEF dispatch_exception
  <2>5. zeroReg \in ArchReg /\ e.pdst = 0
    BY NumArchRegAssumption DEF ArchReg, zeroReg
  <2> HIDE DEF e
  <2> QED  BY <2>1, <2>3, <2>4, <2>5, HolderEnq
<1>5. CASE \E t \in ExecTag : dispatch(t)
  <2>1. PICK t \in ExecTag : dispatch(t)
    BY <1>5
  <2> DEFINE d == renamed[1].dec
             a == destination(instrOf(d))
             e == [pc |-> d.pc, pred |-> d.pred, epoch |-> d.epoch, pdst |-> allocated(a)]
  <2>2. a \in ArchReg
    BY <2>1, RenamedType, InstrType DEF dispatch
  <2>3. enq(e) /\ allocate(a) /\ prog' = prog
    BY <2>1 DEF dispatch
  <2>4. allocated(a) \in PhysReg
    BY <2>2, <2>3, AllocateType DEF TypeOK
  <2>5. e \in RobEntry
    BY <2>1, <2>4, RenamedType DEF dispatch, RobEntry
  <2>6. instrOf(e) = instrOf(d) /\ e.pdst = allocated(a)
    BY DEF instrOf
  <2> HIDE DEF a, d, e
  <2>7. /\ \/ /\ a # zeroReg /\ Len(freeList) > 0 /\ e.pdst = freeList[Len(freeList)]
              /\ freeList' = SubSeq(freeList, 1, Len(freeList) - 1)
           \/ a = zeroReg /\ e.pdst = 0 /\ freeList' = freeList
        /\ naming' = naming
    BY <2>3, <2>6 DEF allocate, allocated, canAlloc, TypeOK, RenamingTypeOK
  <2>8. destination(instrOf(e)) = a
    BY <2>6 DEF a
  <2> QED  BY <2>2, <2>3, <2>5, <2>7, <2>8, HolderEnq
<1>6. CASE \E t \in IqTag : connect(t)
  BY <1>6, HolderFrame DEF connect
<1>7. CASE \E t \in IqTag : write_back(t)
  BY <1>7, HolderFrame DEF write_back, writeBack, wakeupFn, wakeup
<1>8. CASE write_back_fail
  BY <1>8, HolderFrame DEF write_back_fail, writeBack, wakeupFn, wakeup
<1>9. CASE execute_direct
  BY <1>9, HolderFrame DEF execute_direct, writeBack, wakeupFn, wakeup
<1>10. CASE Retirement
  BY <1>10, RetirementStep, HolderDeq DEF retireVars
<1>11. CASE UNCHANGED vars
  BY <1>11, HolderFrame DEF vars, coreVars
<1> QED
  BY <1>1, <1>2, <1>3, <1>4, <1>5, <1>6, <1>7, <1>8, <1>9, <1>10, <1>11, Zenon DEF Next

(* The holders of the physical registers stay as they should be.           *)
THEOREM HolderCorrect == Spec => []HolderInv
<1>1. Init => HolderInv
  BY HolderInit
<1>2. TypeOK /\ HolderInv /\ [Next]_vars => HolderInv'
  BY HolderNext
<1> QED  BY <1>1, <1>2, TypeCorrect, PTL DEF Spec

(* No physical register is ever held twice: neither free and in use, nor   *)
(* by two instructions or two architectural registers at once, whatever is *)
(* speculated, killed, trapped or flushed.                                 *)
THEOREM OneHolderCorrect == Spec => []OneHolder
<1>1. HolderInv => OneHolder
  BY DEF HolderInv
<1> QED  BY <1>1, HolderCorrect, PTL

(* No physical register is ever lost.                                      *)
THEOREM NoLeakCorrect == Spec => []NoLeak
<1>1. HolderInv => NoLeak
  BY DEF HolderInv
<1> QED  BY <1>1, HolderCorrect, PTL

-----------------------------------------------------------------------------
(* Program order across the pipeline.  The instructions in the machine, in *)
(* the reorder buffer, renamed or fetched, form one sequence, stageSeq;    *)
(* fetching appends to it, retirement takes its head, and rename and       *)
(* dispatch only move a border inside it.  Two facts about it are kept:    *)
(* epochs (EpochWindow of OOOCore) and the chain of predicted pcs.  At the *)
(* end, the kill bits (KilledIsLive).                                      *)

stages == robLen + Len(renamed) + Len(fetched)

stageSeq ==
  [k \in 1 .. stages |->
     IF k <= robLen THEN data[slot(k - 1)]
     ELSE IF k <= robLen + Len(renamed) THEN renamed[k - robLen].dec
     ELSE fetched[k - robLen - Len(renamed)]]

(* Instructions of the current epoch e follow those of the one before.     *)
Window(q, n, e) ==
  \A k \in 1 .. n :
    \/ \A j \in k .. n : q[j].epoch = e
    \/ (q[k].epoch + 1) % NumEpoch = e

(* The pc at which a current instruction at place k must be: the one its   *)
(* predecessor predicts, or the architectural one if it is the first.      *)
pcBefore(q, k, e, arch) == IF k > 1 /\ q[k - 1].epoch = e THEN q[k - 1].pred ELSE arch

Chain(q, n, e, arch, fetching) ==
  /\ \A k \in 1 .. n : q[k].epoch = e => q[k].pc = pcBefore(q, k, e, arch)
  /\ fetching = pcBefore(q, n + 1, e, arch)

OrderInv ==
  /\ Window(stageSeq, stages, epoch)
  /\ Chain(stageSeq, stages, epoch, archPc, fetchPc)

-----------------------------------------------------------------------------
(* Windows and chains as such.                                             *)

LEMMA EpochStep ==
  ASSUME NEW e \in Epoch
  PROVE  (e + 1) % NumEpoch \in Epoch /\ (e + 1) % NumEpoch # e
<1>1. CASE e = NumEpoch - 1
  BY <1>1, CoreAssumption DEF Epoch
<1>2. CASE e + 1 \in 0 .. NumEpoch - 1
  BY <1>2, CoreAssumption DEF Epoch
<1> QED  BY <1>1, <1>2, CoreAssumption DEF Epoch

LEMMA WindowAppend ==
  ASSUME NEW n \in Nat, NEW q, NEW r, NEW e, NEW arch, NEW f, NEW pred,
         Window(q, n, e), Chain(q, n, e, arch, f),
         \A k \in 1 .. n : r[k] = q[k],
         r[n + 1].epoch = e, r[n + 1].pc = f, r[n + 1].pred = pred
  PROVE  Window(r, n + 1, e) /\ Chain(r, n + 1, e, arch, pred)
<1>1. ASSUME NEW k \in 1 .. n + 1
      PROVE  (\A j \in k .. n + 1 : r[j].epoch = e) \/ (r[k].epoch + 1) % NumEpoch = e
  <2>1. CASE k = n + 1
    BY <2>1
  <2>2. CASE k \in 1 .. n
    BY <2>2 DEF Window
  <2> QED  BY <2>2
<1>2. ASSUME NEW k \in 1 .. n + 1, r[k].epoch = e
      PROVE  r[k].pc = pcBefore(r, k, e, arch)
  BY <1>2 DEF Chain, pcBefore
<1>3. pred = pcBefore(r, n + 2, e, arch)
  BY DEF pcBefore
<1> QED  BY <1>1, <1>2, <1>3 DEF Window, Chain

LEMMA WindowSame ==
  ASSUME NEW n \in Nat, NEW q, NEW r, NEW e, NEW arch, NEW f,
         Window(q, n, e), Chain(q, n, e, arch, f),
         \A k \in 1 .. n : /\ r[k].epoch = q[k].epoch
                           /\ r[k].pc = q[k].pc /\ r[k].pred = q[k].pred
  PROVE  Window(r, n, e) /\ Chain(r, n, e, arch, f)
BY DEF Window, Chain, pcBefore

(* A stale instruction drops out: those before it are stale too.           *)
LEMMA WindowDrop ==
  ASSUME NEW n \in Nat, NEW m \in 1 .. n, NEW q, NEW r, NEW e \in Epoch, NEW arch, NEW f,
         Window(q, n, e), Chain(q, n, e, arch, f), q[m].epoch # e,
         \A k \in 1 .. m - 1 : r[k] = q[k],
         \A k \in m .. n - 1 : r[k] = q[k + 1]
  PROVE  Window(r, n - 1, e) /\ Chain(r, n - 1, e, arch, f)
<1>1. \A k \in 1 .. m : q[k].epoch # e /\ (q[k].epoch + 1) % NumEpoch = e
  BY EpochStep DEF Window
<1>2. ASSUME NEW k \in 1 .. n - 1
      PROVE  (\A j \in k .. n - 1 : r[j].epoch = e) \/ (r[k].epoch + 1) % NumEpoch = e
  <2>1. CASE k < m
    BY <1>1, <2>1
  <2>2. CASE k >= m
    BY <2>2 DEF Window
  <2> QED  BY <2>1, <2>2
<1>3. ASSUME NEW k \in 1 .. n
      PROVE  pcBefore(r, k, e, arch) = IF k < m THEN arch ELSE pcBefore(q, k + 1, e, arch)
  BY <1>1 DEF pcBefore
<1>4. ASSUME NEW k \in 1 .. n - 1, r[k].epoch = e
      PROVE  r[k].pc = pcBefore(r, k, e, arch)
  BY <1>1, <1>3, <1>4 DEF Chain
<1>5. f = pcBefore(r, n, e, arch)
  BY <1>3 DEF Chain
<1> QED  BY <1>2, <1>4, <1>5 DEF Window, Chain

(* The head leaves and the rest goes on in the same epoch.                 *)
LEMMA WindowTail ==
  ASSUME NEW n \in Nat \ {0}, NEW q, NEW r, NEW e \in Epoch, NEW arch, NEW f,
         Window(q, n, e), Chain(q, n, e, arch, f),
         \A k \in 1 .. n - 1 : r[k] = q[k + 1]
  PROVE  Window(r, n - 1, e) /\ Chain(r, n - 1, e, pcBefore(q, 2, e, arch), f)
<1>1. ASSUME NEW k \in 1 .. n - 1
      PROVE  (\A j \in k .. n - 1 : r[j].epoch = e) \/ (r[k].epoch + 1) % NumEpoch = e
  BY DEF Window
<1>2. ASSUME NEW k \in 1 .. n
      PROVE  pcBefore(r, k, e, pcBefore(q, 2, e, arch)) = pcBefore(q, k + 1, e, arch)
  <2>1. CASE k = 1
    BY <2>1 DEF pcBefore
  <2>2. CASE k > 1
    <3>1. r[k - 1] = q[k] /\ k + 1 > 1 /\ (k + 1) - 1 = k
      BY <2>2
    <3>2. pcBefore(q, k + 1, e, arch) = IF q[k].epoch = e THEN q[k].pred ELSE arch
      BY <3>1 DEF pcBefore
    <3>3. q[k].epoch # e => pcBefore(q, 2, e, arch) = arch
      BY <2>2, EpochStep DEF Window, pcBefore
    <3> QED  BY <2>2, <3>1, <3>2, <3>3 DEF pcBefore
  <2> QED  BY <2>1, <2>2
<1> QED  BY <1>1, <1>2 DEF Window, Chain

(* A current head leaves with a flush: what follows is the old epoch.      *)
LEMMA WindowFlush ==
  ASSUME NEW n \in Nat \ {0}, NEW q, NEW r, NEW e \in Epoch, NEW arch,
         Window(q, n, e), q[1].epoch = e,
         \A k \in 1 .. n - 1 : r[k] = q[k + 1]
  PROVE  LET d == (e + 1) % NumEpoch
         IN  Window(r, n - 1, d) /\ Chain(r, n - 1, d, arch, arch)
<1> DEFINE d == (e + 1) % NumEpoch
<1>1. \A k \in 1 .. n : q[k].epoch = e
  BY EpochStep DEF Window
<1>2. d # e
  BY EpochStep
<1>3. \A k \in 1 .. n - 1 : r[k].epoch = e
  BY <1>1
<1> HIDE DEF d
<1>4. Window(r, n - 1, d)
  BY <1>3 DEF Window, d
<1>5. Chain(r, n - 1, d, arch, arch)
  BY <1>2, <1>3 DEF Chain, pcBefore
<1> QED  BY <1>4, <1>5 DEF d

-----------------------------------------------------------------------------
(* The sequence of the stages.                                             *)

LEMMA OneRenamed ==
  ASSUME TypeOK, renamed # <<>>
  PROVE  Len(renamed) = 1
<1> DEFINE n == Len(renamed)
<1>1. renamed \in Seq(Renamed) /\ n <= 1
  BY DEF TypeOK, FrontTypeOK
<1>2. n \in Nat /\ n # 0
  BY <1>1, EmptySeq
<1> HIDE DEF n
<1>3. n = 1
  BY <1>1, <1>2
<1> QED  BY <1>3 DEF n

StageShape ==
  /\ robLen \in 0 .. RobSize /\ Len(renamed) \in Nat /\ Len(renamed) <= 1 /\ Len(fetched) \in Nat
  /\ stages = robLen + Len(renamed) + Len(fetched) /\ stages \in Nat
  /\ \A k \in 1 .. robLen : stageSeq[k] = data[slot(k - 1)]
  /\ \A k \in 1 .. Len(renamed) : stageSeq[robLen + k] = renamed[k].dec
  /\ \A k \in 1 .. Len(fetched) : stageSeq[robLen + Len(renamed) + k] = fetched[k]

LEMMA StageParts == TypeOK => StageShape
<1> HAVE TypeOK
<1>0. RingOK
  BY DEF TypeOK, RobTypeOK
<1>1. robLen \in 0 .. RobSize /\ RobSize \in Nat
  BY <1>0, RingOrder, RobSizeAssumption
<1>2. Len(renamed) \in Nat /\ Len(renamed) <= 1 /\ Len(fetched) \in Nat
  BY DEF TypeOK, FrontTypeOK
<1>3. stages \in Nat
  BY <1>1, <1>2 DEF stages
<1>4. \A k \in 1 .. robLen : stageSeq[k] = data[slot(k - 1)]
  BY <1>1, <1>2 DEF stageSeq, stages
<1>5. \A k \in 1 .. Len(renamed) : stageSeq[robLen + k] = renamed[k].dec
  BY <1>1, <1>2 DEF stageSeq, stages
<1>6. \A k \in 1 .. Len(fetched) : stageSeq[robLen + Len(renamed) + k] = fetched[k]
  BY <1>1, <1>2 DEF stageSeq, stages
<1> QED  BY <1>1, <1>2, <1>3, <1>4, <1>5, <1>6 DEF stages, StageShape

LEMMA StageSizes ==
  ASSUME StageShape
  PROVE  /\ robLen \in Nat /\ Len(renamed) \in Nat /\ Len(fetched) \in Nat /\ stages \in Nat
         /\ stages = robLen + Len(renamed) + Len(fetched)
BY RobSizeAssumption DEF StageShape

LEMMA StagePartsNext == TypeOK' => StageShape'
BY StageParts, PTL

LEMMA StageSplit ==
  ASSUME StageShape, NEW k \in 1 .. stages
  PROVE  \/ k \in 1 .. robLen
         \/ \E j \in 1 .. Len(renamed) : k = robLen + j
         \/ \E j \in 1 .. Len(fetched) : k = robLen + Len(renamed) + j
<1>1. /\ robLen \in Nat /\ Len(renamed) \in Nat /\ Len(fetched) \in Nat
      /\ stages = robLen + Len(renamed) + Len(fetched)
  BY RobSizeAssumption DEF StageShape
<1>2. CASE k <= robLen
  BY <1>1, <1>2
<1>3. CASE k > robLen /\ k <= robLen + Len(renamed)
  <2>1. k - robLen \in 1 .. Len(renamed) /\ k = robLen + (k - robLen)
    BY <1>1, <1>3
  <2> QED  BY <2>1
<1>4. CASE k > robLen + Len(renamed)
  <2>1. /\ k - robLen - Len(renamed) \in 1 .. Len(fetched)
        /\ k = robLen + Len(renamed) + (k - robLen - Len(renamed))
    BY <1>1, <1>4
  <2> QED  BY <2>1
<1> QED  BY <1>1, <1>2, <1>3, <1>4

LEMMA OrderInit == Init => OrderInv
<1> HAVE Init
<1>1. stages = 0 /\ archPc = 0 /\ fetchPc = 0
  BY DEF Init, mkROB, stages, robLen
<1> QED  BY <1>1 DEF OrderInv, Window, Chain, pcBefore

LEMMA OrderFrame ==
  ASSUME OrderInv,
         UNCHANGED <<data, firstP, nextP, empty, full, renamed, fetched, epoch, archPc, fetchPc>>
  PROVE  OrderInv'
<1>1. robLen' = robLen /\ \A k : slot(k)' = slot(k)
  BY DEF robLen, slot, robPos
<1>2. stages' = stages
  BY <1>1 DEF stages
<1>3. stageSeq' = stageSeq
  BY <1>1, <1>2 DEF stageSeq
<1> QED  BY <1>2, <1>3 DEF OrderInv, Window, Chain, pcBefore

(* The fetch unit appends an instruction at its pc.                        *)
LEMMA OrderFetch ==
  ASSUME TypeOK, TypeOK', OrderInv, NEW pred \in Pc, fetch(pred)
  PROVE  OrderInv'
<1> DEFINE f == [pc |-> fetchPc, pred |-> pred, epoch |-> epoch]
<1>1. /\ fetched' = Append(fetched, f) /\ fetchPc' = pred
      /\ UNCHANGED <<data, firstP, nextP, empty, full, renamed, epoch, archPc>>
  BY DEF fetch, robVars
<1>2. robLen' = robLen /\ \A k : slot(k)' = slot(k)
  BY <1>1 DEF robLen, slot, robPos
<1>3. Len(fetched') = Len(fetched) + 1 /\ fetched'[Len(fetched) + 1] = f
      /\ \A k \in 1 .. Len(fetched) : fetched'[k] = fetched[k]
  BY <1>1 DEF TypeOK, FrontTypeOK
<1>4. StageShape /\ StageShape'
  BY StageParts, StagePartsNext
<1>5. stages' = stages + 1
  BY <1>1, <1>2, <1>3, <1>4 DEF StageShape
<1>6. \A k \in 1 .. stages : stageSeq'[k] = stageSeq[k]
  <2> TAKE k \in 1 .. stages
  <2>1. stageSeq[k] = IF k <= robLen THEN data[slot(k - 1)]
                      ELSE IF k <= robLen + Len(renamed) THEN renamed[k - robLen].dec
                      ELSE fetched[k - robLen - Len(renamed)]
    BY DEF stageSeq
  <2>2. stageSeq'[k] = IF k <= robLen THEN data[slot(k - 1)]
                       ELSE IF k <= robLen + Len(renamed) THEN renamed[k - robLen].dec
                       ELSE fetched'[k - robLen - Len(renamed)]
    BY <1>1, <1>2, <1>4, <1>5 DEF stageSeq, StageShape
  <2>0. /\ robLen \in Nat /\ Len(renamed) \in Nat /\ Len(fetched) \in Nat
        /\ stages = robLen + Len(renamed) + Len(fetched)
    BY <1>4, StageSizes
  <2>3. k > robLen + Len(renamed) => k - robLen - Len(renamed) \in 1 .. Len(fetched)
    BY <2>0
  <2>4. k > robLen + Len(renamed) \/ k <= robLen + Len(renamed)
    BY <2>0
  <2> HIDE DEF f
  <2> QED  BY <1>3, <2>1, <2>2, <2>3, <2>4
<1> HIDE DEF f
<1>7. stageSeq'[stages + 1] = f
  <2>1. /\ stages + 1 = robLen' + Len(renamed') + (Len(fetched) + 1)
        /\ Len(fetched) + 1 \in 1 .. Len(fetched')
    BY <1>1, <1>2, <1>3, <1>4 DEF StageShape
  <2> QED  BY <1>3, <1>4, <2>1 DEF StageShape
<1>8. f.epoch = epoch /\ f.pc = fetchPc /\ f.pred = pred
  BY DEF f
<1>9. Window(stageSeq', stages + 1, epoch) /\ Chain(stageSeq', stages + 1, epoch, archPc, pred)
  <2>1. stageSeq'[stages + 1].epoch = epoch /\ stageSeq'[stages + 1].pc = fetchPc
        /\ stageSeq'[stages + 1].pred = pred
    BY <1>7, <1>8
  <2>2. Window(stageSeq, stages, epoch) /\ Chain(stageSeq, stages, epoch, archPc, fetchPc)
    BY DEF OrderInv
  <2>3. stages \in Nat
    BY <1>4 DEF StageShape
  <2> QED  BY <1>6, <2>1, <2>2, <2>3, WindowAppend
<1> QED  BY <1>1, <1>5, <1>9 DEF OrderInv, Window, Chain, pcBefore

(* Renaming moves the border between two stages.                           *)
LEMMA OrderRename ==
  ASSUME TypeOK, TypeOK', OrderInv, rename_rule
  PROVE  OrderInv'
<1>1. /\ fetched # <<>> /\ renamed = <<>> /\ fetched' = Tail(fetched)
      /\ Len(renamed') = 1 /\ renamed'[1].dec = Head(fetched)
      /\ UNCHANGED <<data, firstP, nextP, empty, full, epoch, archPc, fetchPc>>
  BY DEF rename_rule, robVars
<1>2. robLen' = robLen /\ \A k : slot(k)' = slot(k)
  BY <1>1 DEF robLen, slot, robPos
<1>3. /\ Len(fetched) > 0 /\ Len(fetched') = Len(fetched) - 1 /\ Head(fetched) = fetched[1]
      /\ \A k \in 1 .. Len(fetched) - 1 : fetched'[k] = fetched[k + 1]
  BY <1>1 DEF TypeOK, FrontTypeOK
<1>4. StageShape /\ StageShape' /\ Len(renamed) = 0
  BY <1>1, StageParts, StagePartsNext
<1>5. stages' = stages
  BY <1>1, <1>2, <1>3, <1>4 DEF StageShape
<1>6. ASSUME NEW k \in 1 .. stages
      PROVE  stageSeq'[k] = stageSeq[k]
  <2>1. CASE k \in 1 .. robLen
    BY <1>1, <1>2, <1>4, <2>1 DEF StageShape
  <2>2. ASSUME NEW j \in 1 .. Len(fetched), k = robLen + Len(renamed) + j
        PROVE  stageSeq'[k] = stageSeq[k]
    <3>1. stageSeq[k] = fetched[j] /\ j \in Nat /\ robLen \in Nat /\ k = robLen + j
      BY <1>4, <2>2, RobSizeAssumption DEF StageShape
    <3>2. CASE j = 1
      <4>1. stageSeq'[robLen' + 1] = renamed'[1].dec
        BY <1>1, <1>4 DEF StageShape
      <4> QED  BY <1>1, <1>2, <1>3, <3>1, <3>2, <4>1
    <3>3. CASE j > 1
      <4>1. Len(fetched) \in Nat /\ j \in Nat /\ j <= Len(fetched)
        BY <1>4 DEF StageShape
      <4>5. j - 1 \in 1 .. Len(fetched) - 1 /\ (j - 1) + 1 = j
        BY <3>3, <4>1
      <4>4. j - 1 \in 1 .. Len(fetched') /\ fetched'[j - 1] = fetched[j]
        BY <1>3, <4>5
      <4>2. stageSeq'[robLen' + Len(renamed') + (j - 1)] = fetched'[j - 1]
        BY <1>4, <4>4 DEF StageShape
      <4>3. robLen' + Len(renamed') + (j - 1) = k
        BY <1>1, <1>2, <3>1
      <4> QED  BY <3>1, <4>4, <4>2, <4>3
    <3> QED  BY <3>1, <3>2, <3>3
  <2> QED  BY <1>4, <2>1, <2>2, StageSplit
<1>7. Window(stageSeq, stages, epoch) /\ Chain(stageSeq, stages, epoch, archPc, fetchPc)
  BY DEF OrderInv
<1>8. stages \in Nat
  BY <1>4 DEF StageShape
<1>9. Window(stageSeq', stages, epoch) /\ Chain(stageSeq', stages, epoch, archPc, fetchPc)
  BY <1>6, <1>7, <1>8, WindowSame
<1> QED  BY <1>1, <1>5, <1>9 DEF OrderInv, Window, Chain, pcBefore

(* dispatch moves the renamed instruction to the reorder buffer.           *)
LEMMA OrderEnq ==
  ASSUME TypeOK, TypeOK', OrderInv, renamed # <<>>, renamed' = <<>>, NEW e, enq(e),
         e.pc = renamed[1].dec.pc, e.pred = renamed[1].dec.pred,
         e.epoch = renamed[1].dec.epoch,
         UNCHANGED <<fetched, epoch, archPc, fetchPc>>
  PROVE  OrderInv'
<1>0. RingOK
  BY DEF TypeOK, RobTypeOK
<1>1. /\ robLen < RobSize /\ robLen' = robLen + 1 /\ slot(robLen) = nextP
      /\ \A k : slot(k)' = slot(k)
  BY <1>0, EnqOrder
<1>2. StageShape /\ StageShape' /\ Len(renamed') = 0
  BY StageParts, StagePartsNext
<1>3. Len(renamed) = 1
  BY OneRenamed
<1>4. stages' = stages /\ stages \in Nat /\ robLen \in Nat
  BY <1>1, <1>2, <1>3, RobSizeAssumption DEF StageShape
<1>5. ASSUME NEW k \in 1 .. robLen
      PROVE  stageSeq'[k] = stageSeq[k]
  <2>1. k - 1 \in RobIndex /\ robLen \in RobIndex
    BY <1>1, <1>4, RobSizeAssumption DEF RobIndex
  <2>2. slot(k - 1) \in RobIndex /\ slot(k - 1) # slot(robLen)
    <3>1. robPos(slot(k - 1)) = k - 1 /\ robPos(slot(robLen)) = robLen /\ slot(k - 1) \in RobIndex
      BY <1>0, <2>1, RingOrder
    <3> QED  BY <1>4, <3>1
  <2>3. data'[slot(k - 1)] = data[slot(k - 1)]
    BY <1>1, <2>2 DEF enq, TypeOK, RobTypeOK
  <2>4. stageSeq'[k] = data'[slot(k - 1)'] /\ stageSeq[k] = data[slot(k - 1)]
    BY <1>1, <1>2, <1>4 DEF StageShape
  <2> QED  BY <1>1, <2>3, <2>4
<1>6. stageSeq'[robLen + 1] = e /\ stageSeq[robLen + 1] = renamed[1].dec
  <2>1. stageSeq'[robLen + 1] = data'[slot(robLen)]
    <3>1. robLen + 1 \in 1 .. robLen' /\ (robLen + 1) - 1 = robLen
      BY <1>1, <1>4
    <3> QED  BY <1>1, <1>2, <3>1 DEF StageShape
  <2>2. data'[nextP] = e
    BY <1>0 DEF enq, TypeOK, RobTypeOK, RingOK
  <2> QED  BY <1>1, <1>2, <1>3, <2>1, <2>2 DEF StageShape
<1>7. ASSUME NEW j \in 1 .. Len(fetched)
      PROVE  stageSeq'[robLen + 1 + j] = stageSeq[robLen + 1 + j]
  <2>1. stageSeq'[robLen' + Len(renamed') + j] = fetched[j]
    BY <1>2 DEF StageShape
  <2>2. stageSeq[robLen + Len(renamed) + j] = fetched[j]
    BY <1>2 DEF StageShape
  <2>3. robLen' + Len(renamed') + j = robLen + 1 + j
    BY <1>1, <1>2, <1>4
  <2> QED  BY <1>3, <2>1, <2>2, <2>3
<1>8. ASSUME NEW k \in 1 .. stages
      PROVE  /\ stageSeq'[k].epoch = stageSeq[k].epoch /\ stageSeq'[k].pc = stageSeq[k].pc
             /\ stageSeq'[k].pred = stageSeq[k].pred
  <2>1. CASE k \in 1 .. robLen
    BY <1>5, <2>1
  <2>2. CASE k = robLen + 1
    BY <1>6, <2>2
  <2>3. CASE \E j \in 1 .. Len(fetched) : k = robLen + 1 + j
    BY <1>7, <2>3
  <2>4. ASSUME NEW j \in 1 .. Len(renamed), k = robLen + j PROVE k = robLen + 1
    BY <1>3, <2>4
  <2> QED  BY <1>2, <1>3, <2>1, <2>2, <2>3, <2>4, StageSplit
<1>9. Window(stageSeq, stages, epoch) /\ Chain(stageSeq, stages, epoch, archPc, fetchPc)
  BY DEF OrderInv
<1>10. Window(stageSeq', stages, epoch) /\ Chain(stageSeq', stages, epoch, archPc, fetchPc)
  BY <1>4, <1>8, <1>9, WindowSame
<1> QED  BY <1>4, <1>10 DEF OrderInv, Window, Chain, pcBefore

(* A renamed instruction of an older epoch drops out.                      *)
LEMMA OrderStale ==
  ASSUME TypeOK, TypeOK', OrderInv, dispatch_stale
  PROVE  OrderInv'
<1>1. /\ renamed # <<>> /\ renamed' = <<>> /\ renamed[1].dec.epoch # epoch
      /\ UNCHANGED <<data, firstP, nextP, empty, full, fetched, epoch, archPc, fetchPc>>
  BY DEF dispatch_stale, robVars, frontVars
<1>2. robLen' = robLen /\ \A k : slot(k)' = slot(k)
  BY <1>1 DEF robLen, slot, robPos
<1>3. StageShape /\ StageShape' /\ Len(renamed') = 0
  BY <1>1, StageParts, StagePartsNext
<1>4. Len(renamed) = 1
  BY <1>1, OneRenamed
<1>5. /\ stages \in Nat /\ robLen \in Nat /\ stages' = stages - 1
      /\ robLen + 1 \in 1 .. stages
  BY <1>1, <1>2, <1>3, <1>4, RobSizeAssumption DEF StageShape
<1>6. stageSeq[robLen + 1].epoch # epoch
  BY <1>1, <1>3, <1>4 DEF StageShape
<1>7. \A k \in 1 .. robLen : stageSeq'[k] = stageSeq[k]
  BY <1>1, <1>2, <1>3 DEF StageShape
<1>8. ASSUME NEW k \in robLen + 1 .. stages - 1
      PROVE  stageSeq'[k] = stageSeq[k + 1]
  <2>0. /\ robLen \in Nat /\ Len(renamed) \in Nat /\ Len(fetched) \in Nat
        /\ stages = robLen + Len(renamed) + Len(fetched)
    BY <1>3, StageSizes
  <2>1. k - robLen \in 1 .. Len(fetched)
    BY <1>4, <2>0
  <2>2. /\ stageSeq'[robLen' + Len(renamed') + (k - robLen)] = fetched[k - robLen]
        /\ stageSeq[robLen + Len(renamed) + (k - robLen)] = fetched[k - robLen]
    BY <1>1, <1>3, <2>1 DEF StageShape
  <2>3. robLen' + Len(renamed') + (k - robLen) = k /\ robLen + Len(renamed) + (k - robLen) = k + 1
    BY <1>2, <1>3, <1>4, <1>5
  <2> QED  BY <2>2, <2>3
<1>9. Window(stageSeq, stages, epoch) /\ Chain(stageSeq, stages, epoch, archPc, fetchPc)
  BY DEF OrderInv
<1>10. epoch \in Epoch
  BY DEF TypeOK, FrontTypeOK
<1>11. Window(stageSeq', stages - 1, epoch) /\ Chain(stageSeq', stages - 1, epoch, archPc, fetchPc)
  <2>1. \A k \in 1 .. (robLen + 1) - 1 : stageSeq'[k] = stageSeq[k]
    BY <1>5, <1>7
  <2> QED  BY <1>5, <1>6, <1>8, <1>9, <1>10, <2>1, WindowDrop
<1> QED  BY <1>1, <1>5, <1>11 DEF OrderInv, Window, Chain, pcBefore

(* Retirement takes the head of the sequence.                              *)
LEMMA StageDeq ==
  ASSUME TypeOK, TypeOK', deq, UNCHANGED <<renamed, fetched>>
  PROVE  /\ stages \in Nat \ {0} /\ stages' = stages - 1 /\ stageSeq[1] = first
         /\ \A k \in 1 .. stages - 1 : stageSeq'[k] = stageSeq[k + 1]
<1>0. RingOK /\ data' = data
  BY DEF TypeOK, RobTypeOK, deq
<1>1. /\ robLen > 0 /\ robLen' = robLen - 1 /\ slot(0) = firstP
      /\ \A k \in 0 .. RobSize - 2 : slot(k)' = slot(k + 1)
  BY <1>0, DeqOrder
<1>2. StageShape /\ StageShape'
  BY StageParts, StagePartsNext
<1>3. /\ stages \in Nat \ {0} /\ stages' = stages - 1 /\ robLen \in 1 .. RobSize
      /\ robLen \in Nat /\ stages = robLen + Len(renamed) + Len(fetched)
      /\ Len(renamed) \in Nat /\ Len(fetched) \in Nat
  <2>1. /\ robLen \in Nat /\ Len(renamed) \in Nat /\ Len(fetched) \in Nat
        /\ stages \in Nat /\ stages = robLen + Len(renamed) + Len(fetched)
    BY <1>2, StageSizes
  <2>2. stages' = robLen' + Len(renamed) + Len(fetched) /\ robLen <= RobSize
    BY <1>2, RobSizeAssumption DEF StageShape
  <2> QED  BY <1>1, <2>1, <2>2, RobSizeAssumption
<1>4. stageSeq[1] = first
  <2>1. stageSeq[1] = data[slot(1 - 1)]
    BY <1>2, <1>3 DEF StageShape
  <2> QED  BY <1>1, <2>1 DEF first
<1>5. ASSUME NEW k \in 1 .. stages - 1
      PROVE  stageSeq'[k] = stageSeq[k + 1]
  <2>0. k + 1 \in 1 .. stages
    BY <1>3
  <2>1. CASE k + 1 \in 1 .. robLen
    <3>1. k \in 1 .. robLen' /\ k - 1 \in 0 .. RobSize - 2 /\ (k - 1) + 1 = k /\ (k + 1) - 1 = k
      BY <1>1, <1>3, <2>1, RobSizeAssumption
    <3>2. stageSeq'[k] = data[slot(k - 1)'] /\ stageSeq[k + 1] = data[slot((k + 1) - 1)]
      BY <1>0, <1>2, <2>1, <3>1 DEF StageShape
    <3> QED  BY <1>1, <3>1, <3>2
  <2>2. ASSUME NEW j \in 1 .. Len(renamed), k + 1 = robLen + j
        PROVE  stageSeq'[k] = stageSeq[k + 1]
    <3>1. stageSeq'[robLen' + j] = renamed[j].dec /\ stageSeq[robLen + j] = renamed[j].dec
      BY <1>2 DEF StageShape
    <3>2. robLen' + j = k
      BY <1>1, <1>3, <2>2
    <3> QED  BY <2>2, <3>1, <3>2
  <2>3. ASSUME NEW j \in 1 .. Len(fetched), k + 1 = robLen + Len(renamed) + j
        PROVE  stageSeq'[k] = stageSeq[k + 1]
    <3>1. /\ stageSeq'[robLen' + Len(renamed') + j] = fetched[j]
          /\ stageSeq[robLen + Len(renamed) + j] = fetched[j]
      BY <1>2 DEF StageShape
    <3>2. robLen' + Len(renamed') + j = k
      BY <1>1, <1>3, <2>3
    <3> QED  BY <2>3, <3>1, <3>2
  <2> QED  BY <1>2, <2>0, <2>1, <2>2, <2>3, StageSplit
<1> QED  BY <1>3, <1>4, <1>5

(* A current head that retires without a flush was followed as predicted.  *)
LEMMA OrderTail ==
  ASSUME TypeOK, TypeOK', OrderInv, deq,
         UNCHANGED <<renamed, fetched, epoch, fetchPc>>,
         archPc' = IF first.epoch = epoch THEN first.pred ELSE archPc
  PROVE  OrderInv'
<1>1. /\ stages \in Nat \ {0} /\ stages' = stages - 1 /\ stageSeq[1] = first
      /\ \A k \in 1 .. stages - 1 : stageSeq'[k] = stageSeq[k + 1]
  BY StageDeq
<1>2. epoch \in Epoch
  BY DEF TypeOK, FrontTypeOK
<1>3. Window(stageSeq, stages, epoch) /\ Chain(stageSeq, stages, epoch, archPc, fetchPc)
  BY DEF OrderInv
<1>4. /\ Window(stageSeq', stages - 1, epoch)
      /\ Chain(stageSeq', stages - 1, epoch, pcBefore(stageSeq, 2, epoch, archPc), fetchPc)
  BY <1>1, <1>2, <1>3, WindowTail
<1>5. pcBefore(stageSeq, 2, epoch, archPc) = archPc'
  BY <1>1 DEF pcBefore
<1>6. Window(stageSeq', stages - 1, epoch) /\ Chain(stageSeq', stages - 1, epoch, archPc', fetchPc)
  BY <1>4, <1>5
<1> QED  BY <1>1, <1>6 DEF OrderInv, Window, Chain, pcBefore

(* A flush opens an epoch that starts where the machine goes on.           *)
LEMMA OrderFlush ==
  ASSUME TypeOK, TypeOK', OrderInv, deq, first.epoch = epoch, epoch' = nextEpoch,
         fetchPc' = archPc', UNCHANGED <<renamed, fetched>>
  PROVE  OrderInv'
<1>1. /\ stages \in Nat \ {0} /\ stages' = stages - 1 /\ stageSeq[1] = first
      /\ \A k \in 1 .. stages - 1 : stageSeq'[k] = stageSeq[k + 1]
  BY StageDeq
<1>2. epoch \in Epoch /\ stageSeq[1].epoch = epoch
  BY <1>1 DEF TypeOK, FrontTypeOK
<1>3. Window(stageSeq, stages, epoch)
  BY DEF OrderInv
<1>4. /\ Window(stageSeq', stages - 1, nextEpoch)
      /\ Chain(stageSeq', stages - 1, nextEpoch, archPc', archPc')
  BY <1>1, <1>2, <1>3, WindowFlush DEF nextEpoch
<1>5. stages - 1 = stages' /\ nextEpoch = epoch' /\ archPc' = fetchPc'
  BY <1>1
<1>6. /\ Window(stageSeq', stages', epoch')
      /\ Chain(stageSeq', stages', epoch', archPc', fetchPc')
  BY <1>4, <1>5
<1> QED  BY <1>6 DEF OrderInv, Window, Chain, pcBefore

(* The head, if current, is at the architectural pc.                       *)
LEMMA HeadPc ==
  ASSUME TypeOK, OrderInv, ~empty, first.epoch = epoch
  PROVE  first.pc = archPc
<1>1. RingOK /\ StageShape
  BY StageParts DEF TypeOK, RobTypeOK
<1>2. robLen \in 1 .. RobSize /\ slot(0) = firstP
  BY <1>1, RobSizeAssumption DEF RingOK, robLen, robPos, slot, RobIndex
<1>3. stageSeq[1] = first /\ 1 \in 1 .. stages
  <2>1. stageSeq[1] = data[slot(1 - 1)]
    BY <1>1, <1>2 DEF StageShape
  <2>2. 1 \in 1 .. stages
    BY <1>1, <1>2, RobSizeAssumption DEF StageShape
  <2> QED  BY <1>2, <2>1, <2>2 DEF first
<1>4. Chain(stageSeq, stages, epoch, archPc, fetchPc)
  BY DEF OrderInv
<1> QED  BY <1>3, <1>4 DEF Chain, pcBefore

LEMMA OrderRetire ==
  ASSUME TypeOK, TypeOK', OrderInv, Retirement
  PROVE  OrderInv'
<1>0. UNCHANGED <<renamed, fetched>>
  BY RetirementStep DEF retireVars
<1>1. CASE discard_instruction
  BY <1>0, <1>1, OrderTail DEF discard_instruction, deqRob
<1>2. CASE commit_killed
  <2>1. first.pc = archPc
    BY <1>2, HeadPc DEF commit_killed, first_done
  <2> QED  BY <1>0, <1>2, <2>1, OrderFlush DEF commit_killed, deqRob
<1>3. CASE commit_interrupt
  BY <1>0, <1>3, OrderFlush DEF commit_interrupt, trap, deqRob
<1>4. CASE commit_exception
  BY <1>0, <1>4, OrderFlush DEF commit_exception, trap, deqRob
<1>5. CASE commit_ok
  <2> DEFINE flush == first_result.npc # first.pred \/ first_result.flush
  <2>1. /\ first.epoch = epoch /\ archPc' = first_result.npc
        /\ deqRob(TRUE, flush, first_result.npc)
    BY <1>5 DEF commit_ok
  <2>2. CASE flush
    BY <1>0, <2>1, <2>2, OrderFlush DEF deqRob
  <2>3. CASE ~flush
    BY <1>0, <2>1, <2>3, OrderTail DEF deqRob
  <2> QED  BY <2>2, <2>3
<1> QED  BY <1>1, <1>2, <1>3, <1>4, <1>5 DEF Retirement

LEMMA OrderNext ==
  ASSUME TypeOK, OrderInv, [Next]_vars
  PROVE  OrderInv'
<1> USE DEF robVars, renamingVars, frontVars
<1>0. TypeOK'
  BY TypeNext
<1>1. CASE \E pred \in Pc : fetch(pred)
  BY <1>0, <1>1, OrderFetch
<1>2. CASE rename_rule
  BY <1>0, <1>2, OrderRename
<1>3. CASE dispatch_stale
  BY <1>0, <1>3, OrderStale
<1>4. CASE dispatch_exception
  <2> DEFINE e == [pc |-> renamed[1].dec.pc, pred |-> renamed[1].dec.pred,
                   epoch |-> renamed[1].dec.epoch, pdst |-> 0]
  <2>1. /\ enq(e) /\ renamed # <<>> /\ renamed' = <<>>
        /\ UNCHANGED <<fetched, epoch, archPc, fetchPc>>
    BY <1>4 DEF dispatch_exception
  <2>2. /\ e.pc = renamed[1].dec.pc /\ e.pred = renamed[1].dec.pred
        /\ e.epoch = renamed[1].dec.epoch
    OBVIOUS
  <2> HIDE DEF e
  <2> QED  BY <1>0, <2>1, <2>2, OrderEnq
<1>5. CASE \E t \in ExecTag : dispatch(t)
  <2>1. PICK t \in ExecTag : dispatch(t)
    BY <1>5
  <2> DEFINE d == renamed[1].dec
             e == [pc |-> d.pc, pred |-> d.pred, epoch |-> d.epoch,
                   pdst |-> allocated(destination(instrOf(d)))]
  <2>2. /\ enq(e) /\ renamed # <<>> /\ renamed' = <<>>
        /\ UNCHANGED <<fetched, epoch, archPc, fetchPc>>
    BY <2>1 DEF dispatch
  <2>3. e.pc = d.pc /\ e.pred = d.pred /\ e.epoch = d.epoch
    OBVIOUS
  <2> HIDE DEF e
  <2> QED  BY <1>0, <2>2, <2>3, OrderEnq
<1>6. CASE \E t \in IqTag : connect(t)
  BY <1>6, OrderFrame DEF connect
<1>7. CASE \E t \in IqTag : write_back(t)
  BY <1>7, OrderFrame DEF write_back, writeBack
<1>8. CASE write_back_fail
  BY <1>8, OrderFrame DEF write_back_fail, writeBack
<1>9. CASE execute_direct
  BY <1>9, OrderFrame DEF execute_direct, writeBack
<1>10. CASE Retirement
  BY <1>0, <1>10, OrderRetire
<1>11. CASE UNCHANGED vars
  BY <1>11, OrderFrame DEF vars, coreVars
<1> QED
  BY <1>1, <1>2, <1>3, <1>4, <1>5, <1>6, <1>7, <1>8, <1>9, <1>10, <1>11, Zenon DEF Next

-----------------------------------------------------------------------------
(* From the sequence of the stages to EpochWindow.                         *)

LEMMA LiveCount ==
  ASSUME RingOK
  PROVE  Cardinality(Live) = robLen
<1> DEFINE f == [k \in 1 .. robLen |-> slot(k - 1)]
<1>1. /\ robLen \in Nat /\ robLen <= RobSize /\ RobSize \in Nat
      /\ Live = {i \in RobIndex : robPos(i) < robLen}
  BY RingOrder, RobSizeAssumption
<1>2. \A k \in 1 .. robLen :
        k - 1 \in RobIndex /\ slot(k - 1) \in RobIndex /\ robPos(slot(k - 1)) = k - 1
  <2> TAKE k \in 1 .. robLen
  <2>1. k - 1 \in RobIndex
    BY <1>1 DEF RobIndex
  <2> QED  BY <2>1, RingOrder
<1>3. f \in [1 .. robLen -> Live]
  BY <1>1, <1>2
<1>4. \A j, k \in 1 .. robLen : f[j] = f[k] => j = k
  BY <1>1, <1>2
<1>5. \A i \in Live : \E k \in 1 .. robLen : f[k] = i
  <2> TAKE i \in Live
  <2>1. robPos(i) \in RobIndex /\ slot(robPos(i)) = i /\ robPos(i) < robLen
    BY <1>1, RingOrder
  <2>2. robPos(i) + 1 \in 1 .. robLen /\ (robPos(i) + 1) - 1 = robPos(i)
    BY <1>1, <2>1 DEF RobIndex
  <2> QED  BY <2>1, <2>2
<1> HIDE DEF f
<1> QED  BY <1>1, <1>3, <1>4, <1>5, CountByList

LEMMA SlotIsModulo ==
  ASSUME RingOK, NEW k \in RobIndex
  PROVE  (firstP + k) % RobSize = slot(k)
<1>1. firstP \in RobIndex
  BY DEF RingOK
<1>2. CASE firstP + k < RobSize
  BY <1>1, <1>2, RobSizeAssumption DEF slot, RobIndex
<1>3. CASE ~(firstP + k < RobSize)
  <2>1. slot(k) \in 0 .. RobSize - 1 /\ firstP + k = 1 * RobSize + slot(k)
    BY <1>1, <1>3, RobSizeAssumption DEF slot, RobIndex
  <2> QED  BY <1>1, <2>1, RobSizeAssumption DEF RobIndex
<1> QED  BY <1>2, <1>3

LEMMA Concat3 ==
  ASSUME NEW S, NEW a \in Seq(S), NEW b \in Seq(S), NEW c \in Seq(S)
  PROVE  /\ Len(a \o b \o c) = Len(a) + Len(b) + Len(c)
         /\ \A k \in 1 .. Len(a) : (a \o b \o c)[k] = a[k]
         /\ \A k \in 1 .. Len(b) : (a \o b \o c)[Len(a) + k] = b[k]
         /\ \A k \in 1 .. Len(c) : (a \o b \o c)[Len(a) + Len(b) + k] = c[k]
<1> DEFINE d == a \o b
<1>1. /\ d \in Seq(S) /\ Len(d) = Len(a) + Len(b)
      /\ \A i \in 1 .. Len(a) + Len(b) : d[i] = IF i <= Len(a) THEN a[i] ELSE b[i - Len(a)]
  BY ConcatProperties, Zenon
<1> HIDE DEF d
<1>2. /\ Len(d \o c) = Len(d) + Len(c)
      /\ \A i \in 1 .. Len(d) + Len(c) : (d \o c)[i] = IF i <= Len(d) THEN d[i] ELSE c[i - Len(d)]
  <2>1. d \in Seq(S) /\ c \in Seq(S)
    BY <1>1
  <2> QED  BY <2>1, ConcatProperties, Zenon
<1> DEFINE la == Len(a)  lb == Len(b)  lc == Len(c)  e == d \o c
<1>3. la \in Nat /\ lb \in Nat /\ lc \in Nat
  OBVIOUS
<1>4. /\ \A i \in 1 .. la + lb : d[i] = IF i <= la THEN a[i] ELSE b[i - la]
      /\ \A i \in 1 .. la + lb + lc : e[i] = IF i <= la + lb THEN d[i] ELSE c[i - (la + lb)]
  BY <1>1, <1>2
<1>5. Len(e) = la + lb + lc
  BY <1>1, <1>2
<1> HIDE DEF la, lb, lc, e
<1>6. /\ \A k \in 1 .. la : e[k] = a[k]
      /\ \A k \in 1 .. lb : e[la + k] = b[k]
      /\ \A k \in 1 .. lc : e[la + lb + k] = c[k]
  <2>1. \A k \in 1 .. la : e[k] = a[k]
    BY <1>3, <1>4
  <2>2. ASSUME NEW k \in 1 .. lb PROVE e[la + k] = b[k]
    <3>1. la + k \in 1 .. la + lb /\ ~(la + k <= la) /\ (la + k) - la = k
      BY <1>3
    <3> QED  BY <1>3, <1>4, <3>1
  <2>3. ASSUME NEW k \in 1 .. lc PROVE e[la + lb + k] = c[k]
    <3>1. /\ la + lb + k \in 1 .. la + lb + lc /\ ~(la + lb + k <= la + lb)
          /\ (la + lb + k) - (la + lb) = k
      BY <1>3
    <3> QED  BY <1>4, <3>1
  <2> QED  BY <2>1, <2>2, <2>3
<1> QED  BY <1>5, <1>6 DEF la, lb, lc, d, e

LEMMA StageEpochs ==
  ASSUME TypeOK
  PROVE  Len(stageEpochs) = stages /\ \A k \in 1 .. stages : stageEpochs[k] = stageSeq[k].epoch
<1> DEFINE A == [k \in 1 .. robLen |-> data[(firstP + k - 1) % RobSize].epoch]
           B == [k \in 1 .. Len(renamed) |-> renamed[k].dec.epoch]
           C == [k \in 1 .. Len(fetched) |-> fetched[k].epoch]
<1>0. RingOK /\ StageShape
  BY StageParts DEF TypeOK, RobTypeOK
<1>1. stageEpochs = A \o B \o C
  BY <1>0, LiveCount DEF stageEpochs
<1>2. robLen \in Nat /\ Len(renamed) \in Nat /\ Len(fetched) \in Nat /\ robLen <= RobSize
  BY <1>0, RobSizeAssumption DEF StageShape
<1>4. \A k \in 1 .. robLen : A[k] = stageSeq[k].epoch
  <2> TAKE k \in 1 .. robLen
  <2>1. k - 1 \in RobIndex /\ firstP \in Nat /\ firstP + k - 1 = firstP + (k - 1)
    BY <1>0, <1>2, RobSizeAssumption DEF RobIndex, RingOK
  <2>2. (firstP + (k - 1)) % RobSize = slot(k - 1)
    BY <1>0, <2>1, SlotIsModulo
  <2>3. stageSeq[k] = data[slot(k - 1)]
    BY <1>0 DEF StageShape
  <2> QED  BY <2>1, <2>2, <2>3
<1>5. \A k \in 1 .. Len(renamed) : B[k] = stageSeq[robLen + k].epoch
  BY <1>0 DEF StageShape
<1>6. \A k \in 1 .. Len(fetched) : C[k] = stageSeq[robLen + Len(renamed) + k].epoch
  BY <1>0 DEF StageShape
<1>3. /\ Len(A) = robLen /\ Len(B) = Len(renamed) /\ Len(C) = Len(fetched)
      /\ A \in Seq(Epoch) /\ B \in Seq(Epoch) /\ C \in Seq(Epoch)
  <2>1. \A k \in 1 .. robLen : A[k] \in Epoch
    <3> TAKE k \in 1 .. robLen
    <3>1. k - 1 \in RobIndex /\ stageSeq[k] = data[slot(k - 1)]
      BY <1>0, <1>2, RobSizeAssumption DEF RobIndex, StageShape
    <3>2. data[slot(k - 1)] \in RobEntry
      BY <1>0, <3>1, RingOrder DEF TypeOK, RobTypeOK
    <3> HIDE DEF A
    <3> QED  BY <1>4, <3>1, <3>2 DEF RobEntry
  <2>2. \A k \in 1 .. Len(renamed) : B[k] \in Epoch
    <3> TAKE k \in 1 .. Len(renamed)
    <3>1. renamed[k] \in Renamed
      BY DEF TypeOK, FrontTypeOK
    <3>2. renamed[k].dec \in Fetched
      BY <3>1 DEF Renamed
    <3> QED  BY <3>2 DEF Fetched
  <2>3. \A k \in 1 .. Len(fetched) : C[k] \in Epoch
    <3> TAKE k \in 1 .. Len(fetched)
    <3>1. fetched[k] \in Fetched
      BY DEF TypeOK, FrontTypeOK
    <3> QED  BY <3>1 DEF Fetched
  <2> QED  BY <1>2, <2>1, <2>2, <2>3
<1> HIDE DEF A, B, C
<1>7. /\ Len(A \o B \o C) = robLen + Len(renamed) + Len(fetched)
      /\ \A k \in 1 .. robLen : (A \o B \o C)[k] = A[k]
      /\ \A k \in 1 .. Len(renamed) : (A \o B \o C)[robLen + k] = B[k]
      /\ \A k \in 1 .. Len(fetched) : (A \o B \o C)[robLen + Len(renamed) + k] = C[k]
  <2>1. /\ Len(A \o B \o C) = Len(A) + Len(B) + Len(C)
        /\ \A k \in 1 .. Len(A) : (A \o B \o C)[k] = A[k]
        /\ \A k \in 1 .. Len(B) : (A \o B \o C)[Len(A) + k] = B[k]
        /\ \A k \in 1 .. Len(C) : (A \o B \o C)[Len(A) + Len(B) + k] = C[k]
    <3>1. A \in Seq(Epoch) /\ B \in Seq(Epoch) /\ C \in Seq(Epoch)
      BY <1>3
    <3>2. \A a, b, c \in Seq(Epoch) :
            /\ Len(a \o b \o c) = Len(a) + Len(b) + Len(c)
            /\ \A k \in 1 .. Len(a) : (a \o b \o c)[k] = a[k]
            /\ \A k \in 1 .. Len(b) : (a \o b \o c)[Len(a) + k] = b[k]
            /\ \A k \in 1 .. Len(c) : (a \o b \o c)[Len(a) + Len(b) + k] = c[k]
      BY Concat3
    <3> QED  BY <3>1, <3>2, Zenon
  <2>2. Len(A) = robLen /\ Len(B) = Len(renamed) /\ Len(C) = Len(fetched)
    BY <1>3
  <2> DEFINE E == A \o B \o C
             la == Len(A)  lb == Len(B)  lc == Len(C)  lr == Len(renamed)  lf == Len(fetched)
  <2>3. /\ Len(E) = la + lb + lc /\ la = robLen /\ lb = lr /\ lc = lf
        /\ \A k \in 1 .. la : E[k] = A[k]
        /\ \A k \in 1 .. lb : E[la + k] = B[k]
        /\ \A k \in 1 .. lc : E[la + lb + k] = C[k]
    BY <2>1, <2>2, Zenon
  <2> HIDE DEF E, la, lb, lc, lr, lf
  <2>4. /\ Len(E) = robLen + lr + lf
        /\ \A k \in 1 .. robLen : E[k] = A[k]
        /\ \A k \in 1 .. lr : E[robLen + k] = B[k]
        /\ \A k \in 1 .. lf : E[robLen + lr + k] = C[k]
    BY <2>3
  <2> QED  BY <2>4, Zenon DEF E, lr, lf
<1>8. stages = robLen + Len(renamed) + Len(fetched)
  BY <1>0 DEF StageShape
<1>9. ASSUME NEW k \in 1 .. stages
      PROVE  stageEpochs[k] = stageSeq[k].epoch
  <2>1. CASE k \in 1 .. robLen
    BY <1>1, <1>4, <1>7, <2>1
  <2>2. CASE \E j \in 1 .. Len(renamed) : k = robLen + j
    <3>1. PICK j \in 1 .. Len(renamed) : k = robLen + j
      BY <2>2
    <3>2. (A \o B \o C)[robLen + j] = B[j] /\ B[j] = stageSeq[robLen + j].epoch
      BY <1>5, <1>7, Zenon
    <3> QED  BY <1>1, <3>1, <3>2
  <2>3. CASE \E j \in 1 .. Len(fetched) : k = robLen + Len(renamed) + j
    <3>1. PICK j \in 1 .. Len(fetched) : k = robLen + Len(renamed) + j
      BY <2>3
    <3>2. /\ (A \o B \o C)[robLen + Len(renamed) + j] = C[j]
          /\ C[j] = stageSeq[robLen + Len(renamed) + j].epoch
      BY <1>6, <1>7, Zenon
    <3> QED  BY <1>1, <3>1, <3>2
  <2> QED  BY <1>0, <2>1, <2>2, <2>3, StageSplit
<1> QED  BY <1>1, <1>7, <1>8, <1>9

LEMMA WindowInOrder == TypeOK /\ OrderInv => EpochWindow
<1> SUFFICES ASSUME TypeOK, OrderInv PROVE EpochWindow
  OBVIOUS
<1>1. Len(stageEpochs) = stages /\ \A k \in 1 .. stages : stageEpochs[k] = stageSeq[k].epoch
  BY StageEpochs
<1>2. stages \in Nat
  BY StageParts DEF StageShape
<1>3. Window(stageSeq, stages, epoch)
  BY DEF OrderInv
<1> QED  BY <1>1, <1>2, <1>3 DEF Window, EpochWindow

(* The instructions in the machine are in the order of their epochs and of *)
(* their predicted pcs, whatever is speculated, dropped or flushed.        *)
THEOREM OrderCorrect == Spec => []OrderInv
<1>1. Init => OrderInv
  BY OrderInit
<1>2. TypeOK /\ OrderInv /\ [Next]_vars => OrderInv'
  BY OrderNext
<1> QED  BY <1>1, <1>2, TypeCorrect, PTL DEF Spec

(* Comparing epochs for equality is enough, from two epochs on and for     *)
(* every size of the queues: no instruction of an older epoch is ever      *)
(* taken for a current one.                                                *)
THEOREM EpochWindowCorrect == Spec => []EpochWindow
<1>1. TypeOK /\ OrderInv => EpochWindow
  BY WindowInOrder
<1> QED  BY <1>1, TypeCorrect, OrderCorrect, PTL

-----------------------------------------------------------------------------
(* The kill bits.  KilledIsLive is inductive once the bits waitDmemCommit  *)
(* are known to mark exactly the memory operations of the reorder buffer.  *)

(* The slots commit_dmem still has to serve are those of loads and stores. *)
DmemInv == waitDmemCommit = {i \in Live : tagOfInstr(instrOf(data[i])) = "DMEM"}

KillInv == DmemInv /\ KilledIsLive

LEMMA KillInit == Init => KillInv
BY DEF Init, mkROB, Live, KillInv, DmemInv, KilledIsLive

LEMMA LoadIsDmem ==
  ASSUME NEW i, isLoad(i)
  PROVE  tagOfInstr(i) = "DMEM"
BY DEF isLoad, tagOfInstr

(* A dispatched entry is waited for if and only if it is a memory          *)
(* operation; no bit of killed is set on the slot it takes.                *)
LEMMA KillEnq ==
  ASSUME TypeOK, KillInv, NEW e \in RobEntry, enq(e), prog' = prog, killed' = killed,
         waitDmemCommit' = IF tagOfInstr(instrOf(e)) = "DMEM"
                             THEN waitDmemCommit \cup {nextP} ELSE waitDmemCommit
  PROVE  KillInv'
<1>1. nextP \in RobIndex /\ nextP \notin Live /\ Live' = Live \cup {nextP}
  BY EnqLive DEF TypeOK, RobTypeOK
<1>2. data'[nextP] = e /\ \A i \in Live : data'[i] = data[i] /\ i # nextP
  BY <1>1 DEF enq, TypeOK, RobTypeOK, Live
<1>3. ASSUME NEW i \in Live'
      PROVE  instrOf(data[i])' = IF i = nextP THEN instrOf(e) ELSE instrOf(data[i])
  BY <1>1, <1>2 DEF instrOf
<1>4. DmemInv'
  BY <1>1, <1>3 DEF KillInv, DmemInv
<1>5. KilledIsLive'
  BY <1>1, <1>2, <1>3 DEF KillInv, KilledIsLive
<1> QED  BY <1>4, <1>5 DEF KillInv

(* The retired slot leaves both sets, and only live loads enter killed.    *)
LEMMA KillRetire ==
  ASSUME TypeOK, KillInv, commit_dmem, deq, prog' = prog
  PROVE  KillInv'
<1>1. firstP \in Live /\ Live' = Live \ {firstP} /\ data' = data
  BY DeqLive DEF deq, TypeOK, RobTypeOK
<1>2. \A i : instrOf(data[i])' = instrOf(data[i])
  BY <1>1 DEF instrOf
<1>3. waitDmemCommit' = waitDmemCommit \ {firstP}
  BY DEF commit_dmem
<1>4. DmemInv'
  BY <1>1, <1>2, <1>3 DEF KillInv, DmemInv
<1>5. ASSUME NEW i \in killed'
      PROVE  i \in Live' /\ isLoad(instrOf(data[i]))'
  <2>1. isLoad(instrOf(data[i]))' <=> isLoad(instrOf(data[i]))
    BY <1>2 DEF isLoad
  <2>2. CASE firstP \in waitDmemCommit
    BY <1>1, <2>1, <2>2 DEF commit_dmem, KillInv, KilledIsLive
  <2>3. CASE firstP \notin waitDmemCommit
    BY <1>1, <2>1, <2>3 DEF commit_dmem, KillInv, KilledIsLive
  <2> QED  BY <2>2, <2>3
<1>6. ASSUME NEW i \in killed'
      PROVE  i \in waitDmemCommit'
  BY <1>4, <1>5, LoadIsDmem DEF DmemInv
<1> QED  BY <1>4, <1>5, <1>6 DEF KillInv, KilledIsLive

LEMMA KillFrame ==
  ASSUME KillInv, UNCHANGED <<prog, data, firstP, nextP, empty, full, killed, waitDmemCommit>>
  PROVE  KillInv'
<1>1. Live' = Live
  BY DEF Live, robPos
<1> QED  BY <1>1 DEF KillInv, DmemInv, KilledIsLive, instrOf

LEMMA KillNext ==
  ASSUME TypeOK, KillInv, [Next]_vars
  PROVE  KillInv'
<1> USE DEF robVars, renamingVars
<1>1. CASE \E pred \in Pc : fetch(pred)
  BY <1>1, KillFrame DEF fetch
<1>2. CASE rename_rule
  BY <1>2, KillFrame DEF rename_rule
<1>3. CASE dispatch_stale
  BY <1>3, KillFrame DEF dispatch_stale
<1>4. CASE dispatch_exception
  <2> DEFINE e == [pc |-> renamed[1].dec.pc, pred |-> renamed[1].dec.pred,
                   epoch |-> renamed[1].dec.epoch, pdst |-> 0]
  <2>1. e \in RobEntry
    BY <1>4, RenamedType, RenamingAssumption, NumArchRegAssumption
      DEF dispatch_exception, RobEntry, PhysReg
  <2>2. instrOf(e).op = "illegal"
    BY <1>4 DEF dispatch_exception, decodeErr, instrOf
  <2>3. tagOfInstr(instrOf(e)) # "DMEM"
    BY <2>2 DEF tagOfInstr
  <2>4. enq(e) /\ prog' = prog /\ killed' = killed /\ waitDmemCommit' = waitDmemCommit
    BY <1>4 DEF dispatch_exception
  <2> HIDE DEF e
  <2> QED  BY <2>1, <2>3, <2>4, KillEnq
<1>5. CASE \E t \in ExecTag : dispatch(t)
  <2>1. PICK t \in ExecTag : dispatch(t)
    BY <1>5
  <2> DEFINE d == renamed[1].dec
             a == destination(instrOf(d))
             e == [pc |-> d.pc, pred |-> d.pred, epoch |-> d.epoch, pdst |-> allocated(a)]
  <2>2. enq(e) /\ allocate(a) /\ prog' = prog /\ killed' = killed
    BY <2>1 DEF dispatch
  <2>3. a \in ArchReg
    BY <2>1, RenamedType, InstrType DEF dispatch
  <2>4. allocated(a) \in PhysReg
    BY <2>2, <2>3, AllocateType DEF TypeOK
  <2>5. e \in RobEntry
    BY <2>1, <2>4, RenamedType DEF dispatch, RobEntry
  <2>6. instrOf(e) = instrOf(d) /\ tagOfInstr(instrOf(d)) = t
    BY <2>1 DEF instrOf, dispatch
  <2>7. waitDmemCommit' = IF t = "DMEM" THEN waitDmemCommit \cup {nextP} ELSE waitDmemCommit
    BY <2>1 DEF dispatch
  <2> HIDE DEF a, d, e
  <2> QED  BY <2>2, <2>5, <2>6, <2>7, KillEnq
<1>6. CASE \E t \in IqTag : connect(t)
  BY <1>6, KillFrame DEF connect
<1>7. CASE \E t \in IqTag : write_back(t)
  BY <1>7, KillFrame DEF write_back, writeBack
<1>8. CASE write_back_fail
  BY <1>8, KillFrame DEF write_back_fail, writeBack
<1>9. CASE execute_direct
  BY <1>9, KillFrame DEF execute_direct, writeBack
<1>10. CASE Retirement
  BY <1>10, RetirementStep, KillRetire DEF retireVars, deqRob
<1>11. CASE UNCHANGED vars
  BY <1>11, KillFrame DEF vars, coreVars
<1> QED
  BY <1>1, <1>2, <1>3, <1>4, <1>5, <1>6, <1>7, <1>8, <1>9, <1>10, <1>11, Zenon DEF Next

(* Only loads still in the reorder buffer are marked killed: the mark of a *)
(* disowned load never falls on the next instruction of its slot.          *)
THEOREM KilledCorrect == Spec => []KilledIsLive
<1>1. Init => KillInv
  BY KillInit
<1>2. TypeOK /\ KillInv /\ [Next]_vars => KillInv'
  BY KillNext
<1>3. KillInv => KilledIsLive
  BY DEF KillInv
<1> QED  BY <1>1, <1>2, <1>3, TypeCorrect, PTL DEF Spec
-----------------------------------------------------------------------------
(***************************************************************************)
(* Every result is produced once and every wakeup arrives: ResultOnce and  *)
(* NoLostWakeup hold of every behaviour of the core.                       *)
(*                                                                         *)
(* Both count or quantify over what the queues hold, so the invariant says *)
(* it element by element: a waiting slot is in exactly one place of the    *)
(* machine, the place its tag says (ProducerInv), and direct_issue_queue   *)
(* lists the waiting direct instructions in program order (DirectInv).     *)
(***************************************************************************)

HIDE DEF IqTag

Waiting == Live \ resultValid
tagOf(i) == tagOfInstr(instrOf(data[i]))

(* Operations in an issue queue, in a unit and in decodeFail are those of  *)
(* waiting slots.                                                          *)
IqInv ==
  \A t \in IqTag : \A k \in 1 .. Len(iq[t]) :
    /\ iq[t][k].index \in Waiting /\ tagOf(iq[t][k].index) = t
    /\ iq[t][k].pc = data[iq[t][k].index].pc /\ iq[t][k].pdst = data[iq[t][k].index].pdst

FuInv ==
  \A t \in IqTag : \A o \in fu[t] :
    /\ o.index \in Waiting /\ tagOf(o.index) = t
    /\ o.pdst = data[o.index].pdst

FailInv ==
  \A k \in 1 .. Len(decodeFail) :
    decodeFail[k] \in Waiting /\ decodeErr(data[decodeFail[k]])

(* No slot is in two places.                                               *)
OnceInv ==
  /\ \A t \in IqTag : \A j, k \in 1 .. Len(iq[t]) : iq[t][j].index = iq[t][k].index => j = k
  /\ \A t \in IqTag : \A o, p \in fu[t] : o.index = p.index => o = p
  /\ \A t \in IqTag : \A k \in 1 .. Len(iq[t]) : \A o \in fu[t] : iq[t][k].index # o.index
  /\ \A j, k \in 1 .. Len(decodeFail) : decodeFail[j] = decodeFail[k] => j = k

(* Every waiting slot is somewhere.                                        *)
inIq(i)   == \E t \in IqTag : \E k \in 1 .. Len(iq[t]) : iq[t][k].index = i
inFu(i)   == \E t \in IqTag : \E o \in fu[t] : o.index = i
inFail(i) == \E k \in 1 .. Len(decodeFail) : decodeFail[k] = i
Produced  == \A i \in Waiting : isDirect(i) \/ inIq(i) \/ inFu(i) \/ inFail(i)

(* f lists the waiting direct instructions, oldest first.                  *)
DirectOrder(f) ==
  /\ f \in [1 .. Len(direct) -> RobIndex]
  /\ \A k \in 1 .. Len(direct) : f[k] \in Waiting /\ isDirect(f[k])
  /\ \A i \in Waiting : isDirect(i) => \E k \in 1 .. Len(direct) : f[k] = i
  /\ \A j, k \in 1 .. Len(direct) : j < k => robPos(f[j]) < robPos(f[k])

DirectInv == \E f : DirectOrder(f)

ProducerInv ==
  resultValid \subseteq Live /\ IqInv /\ FuInv /\ FailInv /\ OnceInv /\ Produced

ResultsInv == ProducerInv /\ DirectInv /\ NoLostWakeup

-----------------------------------------------------------------------------
(* What a step of the reorder buffer does to its slots.                    *)

LEMMA SlotEnq ==
  ASSUME TypeOK, resultValid \subseteq Live, NEW e, enq(e), prog' = prog
  PROVE  /\ nextP \in RobIndex /\ nextP \notin Live
         /\ Live' = Live \cup {nextP} /\ Waiting' = Waiting \cup {nextP}
         /\ resultValid' = resultValid
         /\ data'[nextP] = e
         /\ \A i : i = nextP => /\ tagOf(i)' = tagOfInstr(instrOf(e))
                                /\ instrOf(data[i])' = instrOf(e)
                                /\ (decodeErr(data[i])' <=> decodeErr(e))
                                /\ (isDirect(i)' <=> tagOfInstr(instrOf(e)) = "DIRECT" /\ ~decodeErr(e))
         /\ \A i \in Live : /\ i # nextP /\ data'[i] = data[i] /\ instrOf(data[i])' = instrOf(data[i])
                            /\ (decodeErr(data[i])' <=> decodeErr(data[i]))
                            /\ tagOf(i)' = tagOf(i) /\ (isDirect(i)' <=> isDirect(i))
                            /\ robPos(i) < robPos(nextP)
         /\ \A i : robPos(i)' = robPos(i)
<1>0. RingOK
  BY DEF TypeOK, RobTypeOK
<1>1. nextP \in RobIndex /\ nextP \notin Live /\ Live' = Live \cup {nextP}
  BY <1>0, EnqLive
<1>2. data'[nextP] = e /\ \A i \in Live : i # nextP /\ data'[i] = data[i]
  BY <1>1 DEF enq, TypeOK, RobTypeOK, Live
<1>3. resultValid' = resultValid
  BY DEF enq
<1>4. Waiting' = Waiting \cup {nextP}
  BY <1>1, <1>3 DEF Waiting
<1>5. (\A i : robPos(i)' = robPos(i)) /\ robPos(nextP) = robLen
  BY <1>0, EnqOrder
<1>6. \A i \in Live : robPos(i) < robPos(nextP)
  BY <1>0, <1>5, RingOrder
<1>7. \A i : i = nextP => /\ tagOf(i)' = tagOfInstr(instrOf(e))
                          /\ instrOf(data[i])' = instrOf(e)
                          /\ (decodeErr(data[i])' <=> decodeErr(e))
                          /\ (isDirect(i)' <=> tagOfInstr(instrOf(e)) = "DIRECT" /\ ~decodeErr(e))
  BY <1>2 DEF tagOf, isDirect, instrOf, decodeErr
<1>8. \A i \in Live : /\ instrOf(data[i])' = instrOf(data[i])
                      /\ (decodeErr(data[i])' <=> decodeErr(data[i]))
                      /\ tagOf(i)' = tagOf(i) /\ (isDirect(i)' <=> isDirect(i))
  BY <1>2 DEF tagOf, isDirect, instrOf, decodeErr
<1> QED  BY <1>1, <1>2, <1>3, <1>4, <1>5, <1>6, <1>7, <1>8

LEMMA SlotSame ==
  ASSUME UNCHANGED <<prog, data>>
  PROVE  \A i : /\ instrOf(data[i])' = instrOf(data[i]) /\ tagOf(i)' = tagOf(i)
                /\ (decodeErr(data[i])' <=> decodeErr(data[i]))
                /\ (isDirect(i)' <=> isDirect(i))
BY DEF tagOf, isDirect, instrOf, decodeErr

LEMMA SlotWriteBack ==
  ASSUME NEW i, NEW r, writeBack(i, r)
  PROVE  /\ data' = data /\ Live' = Live /\ Waiting' = Waiting \ {i}
         /\ resultValid' = resultValid \cup {i}
         /\ \A j : robPos(j)' = robPos(j)
<1>1. UNCHANGED <<data, firstP, nextP, empty, full>> /\ resultValid' = resultValid \cup {i}
  BY DEF writeBack
<1>2. Live' = Live
  BY <1>1 DEF Live, robPos
<1> QED  BY <1>1, <1>2 DEF Waiting, robPos

LEMMA SlotDeq ==
  ASSUME TypeOK, resultValid \subseteq Live, deq, first_done
  PROVE  /\ data' = data /\ firstP \in RobIndex /\ firstP \in Live /\ firstP \in resultValid
         /\ Live' = Live \ {firstP} /\ Waiting' = Waiting /\ firstP \notin Waiting
         /\ resultValid' = resultValid \ {firstP} /\ resultValid' \subseteq Live'
         /\ \A i \in Live' : robPos(i)' = robPos(i) - 1
<1>0. RingOK
  BY DEF TypeOK, RobTypeOK
<1>1. firstP \in Live /\ Live' = Live \ {firstP} /\ firstP \in RobIndex
  BY <1>0, DeqLive DEF Live
<1>2. data' = data /\ resultValid' = resultValid \ {firstP} /\ firstP \in resultValid
  BY DEF deq, first_done
<1>3. \A i \in RobIndex : i # firstP => robPos(i)' = robPos(i) - 1
  BY <1>0, DeqOrder
<1>4. Live \subseteq RobIndex
  BY DEF Live
<1>5. Waiting' = Waiting /\ firstP \notin Waiting
  BY <1>1, <1>2 DEF Waiting
<1> QED  BY <1>1, <1>2, <1>3, <1>4, <1>5

-----------------------------------------------------------------------------
(* What a step does to the queues.                                         *)

(* r is q without its element k.                                           *)
Without(q, k, r) ==
  /\ \A j \in 1 .. Len(r) : \E m \in 1 .. Len(q) : m # k /\ r[j] = q[m]
  /\ \A m \in 1 .. Len(q) : m # k => \E j \in 1 .. Len(r) : r[j] = q[m]
  /\ (\A i, j \in 1 .. Len(q) : q[i].index = q[j].index => i = j)
       => \A i, j \in 1 .. Len(r) : r[i].index = r[j].index => i = j

LEMMA DeqFacts ==
  ASSUME NEW S, NEW q \in Seq(S), NEW k \in 1 .. Len(q)
  PROVE  Without(q, k, iqDeq(q, k))
<1> DEFINE old(j) == IF j < k THEN j ELSE j + 1
           n == Len(q)
           r == iqDeq(q, k)
<1>1. n \in Nat /\ n > 0 /\ k \in 1 .. n
  OBVIOUS
<1>2. Len(r) = n - 1 /\ \A j \in 1 .. n - 1 : r[j] = q[old(j)]
  BY <1>1 DEF iqDeq
<1> HIDE DEF n, r
<1>3. \A j \in 1 .. n - 1 : old(j) \in 1 .. n /\ old(j) # k
  BY <1>1
<1>4. \A i, j \in 1 .. n - 1 : old(i) = old(j) => i = j
  BY <1>1
<1>5. ASSUME NEW m \in 1 .. n, m # k
      PROVE  \E j \in 1 .. n - 1 : r[j] = q[m]
  <2>1. CASE m < k
    BY <1>1, <1>2, <2>1
  <2>2. CASE m > k
    <3>1. m - 1 \in 1 .. n - 1 /\ old(m - 1) = m
      BY <1>1, <2>2
    <3> QED  BY <1>2, <3>1
  <2> QED  BY <1>1, <1>5, <2>1, <2>2
<1> HIDE DEF old
<1>6. (\A i, j \in 1 .. n : q[i].index = q[j].index => i = j)
        => \A i, j \in 1 .. n - 1 : r[i].index = r[j].index => i = j
  BY <1>2, <1>3, <1>4
<1>7. \A j \in 1 .. n - 1 : \E m \in 1 .. n : m # k /\ r[j] = q[m]
  BY <1>2, <1>3
<1> QED  BY <1>2, <1>5, <1>6, <1>7 DEF n, r, Without

LEMMA WakeupFacts ==
  ASSUME iq \in [IqTag -> Seq(IqEntry)], NEW p, NEW r, wakeupFn(p, r), NEW t \in IqTag
  PROVE  /\ Len(iq'[t]) = Len(iq[t]) /\ Len(iq[t]) \in Nat
         /\ \A k \in 1 .. Len(iq[t]) :
              /\ iq'[t][k].index = iq[t][k].index /\ iq'[t][k].pc = iq[t][k].pc
              /\ iq'[t][k].pdst = iq[t][k].pdst /\ iq'[t][k].regs = iq[t][k].regs
              /\ \A j \in 1 .. 2 : iq'[t][k].rdy[j] <=> iq[t][k].rdy[j] \/ iq[t][k].regs[j] = p
<1> DEFINE q == iq[t]
<1>1. q \in Seq(IqEntry) /\ iq'[t] = iqWakeup(q, p)
  BY DEF wakeupFn
<1>2. /\ iq'[t] = [k \in 1 .. Len(q) |->
                     [q[k] EXCEPT !.rdy = [j \in 1 .. 2 |-> q[k].rdy[j] \/ q[k].regs[j] = p]]]
  BY <1>1 DEF iqWakeup
<1> HIDE DEF q
<1>3. Len(iq'[t]) = Len(q) /\ Len(q) \in Nat
  BY <1>1, <1>2
<1>4. ASSUME NEW k \in 1 .. Len(q)
      PROVE  /\ iq'[t][k].index = q[k].index /\ iq'[t][k].pc = q[k].pc
             /\ iq'[t][k].pdst = q[k].pdst /\ iq'[t][k].regs = q[k].regs
             /\ \A j \in 1 .. 2 : iq'[t][k].rdy[j] <=> q[k].rdy[j] \/ q[k].regs[j] = p
  <2> DEFINE b == [j \in 1 .. 2 |-> q[k].rdy[j] \/ q[k].regs[j] = p]
  <2>1. iq'[t][k] = [q[k] EXCEPT !.rdy = b]
    BY <1>2
  <2>2. q[k] \in IqEntry
    BY <1>1
  <2>3. \A j \in 1 .. 2 : b[j] <=> q[k].rdy[j] \/ q[k].regs[j] = p
    OBVIOUS
  <2> HIDE DEF b
  <2> QED  BY <2>1, <2>2, <2>3 DEF IqEntry
<1> QED  BY <1>3, <1>4 DEF q

-----------------------------------------------------------------------------
(* Every waiting slot stays in exactly one place.                          *)

LEMMA ProducerFrame ==
  ASSUME ProducerInv,
         UNCHANGED <<prog, data, resultValid, firstP, nextP, empty, full, iq, fu, decodeFail>>
  PROVE  ProducerInv'
<1>1. Live' = Live /\ Waiting' = Waiting
  BY DEF Live, robPos, Waiting
<1>2. \A i : tagOf(i)' = tagOf(i) /\ (isDirect(i)' <=> isDirect(i))
             /\ (decodeErr(data[i])' <=> decodeErr(data[i]))
  BY SlotSame
<1>3. IqInv'
  BY <1>1, <1>2 DEF ProducerInv, IqInv
<1>4. FuInv'
  BY <1>1, <1>2 DEF ProducerInv, FuInv
<1>5. FailInv'
  BY <1>1, <1>2 DEF ProducerInv, FailInv, decodeErr, instrOf
<1>6. OnceInv'
  BY DEF ProducerInv, OnceInv
<1>7. Produced'
  BY <1>1, <1>2 DEF ProducerInv, Produced, inIq, inFu, inFail
<1> QED  BY <1>1, <1>3, <1>4, <1>5, <1>6, <1>7 DEF ProducerInv

LEMMA ProducerDispatchException ==
  ASSUME TypeOK, ProducerInv, dispatch_exception
  PROVE  ProducerInv'
<1> DEFINE e == [pc |-> renamed[1].dec.pc, pred |-> renamed[1].dec.pred,
                 epoch |-> renamed[1].dec.epoch, pdst |-> 0]
<1>1. /\ enq(e) /\ decodeErr(e) /\ decodeFail' = Append(decodeFail, nextP)
      /\ UNCHANGED <<prog, iq, fu>>
  BY DEF dispatch_exception, decodeErr, instrOf
<1> HIDE DEF e
<1>2. resultValid \subseteq Live
  BY DEF ProducerInv
<1>3. /\ nextP \in RobIndex /\ nextP \notin Live
      /\ Live' = Live \cup {nextP} /\ Waiting' = Waiting \cup {nextP}
      /\ resultValid' = resultValid /\ data'[nextP] = e
      /\ \A i \in Live : /\ data'[i] = data[i] /\ tagOf(i)' = tagOf(i)
                         /\ (isDirect(i)' <=> isDirect(i))
      /\ Waiting \subseteq Live
  BY <1>1, <1>2, SlotEnq DEF Waiting
<1>4. IqInv'
  BY <1>1, <1>3 DEF ProducerInv, IqInv
<1>5. FuInv'
  BY <1>1, <1>3 DEF ProducerInv, FuInv
<1>6. /\ \A k \in 1 .. Len(decodeFail) : decodeFail'[k] = decodeFail[k]
      /\ decodeFail'[Len(decodeFail) + 1] = nextP
      /\ \A k \in 1 .. Len(decodeFail') : k \in 1 .. Len(decodeFail) \/ k = Len(decodeFail) + 1
      /\ \A k \in 1 .. Len(decodeFail) : k \in 1 .. Len(decodeFail')
      /\ Len(decodeFail) + 1 \in 1 .. Len(decodeFail')
  BY <1>1, <1>3, AppendFacts DEF TypeOK, ExecTypeOK
<1>7. \A k \in 1 .. Len(decodeFail) : decodeFail[k] \in Waiting /\ decodeErr(data[decodeFail[k]])
  BY DEF ProducerInv, FailInv
<1>8. FailInv'
  BY <1>1, <1>3, <1>6, <1>7 DEF FailInv, decodeErr, instrOf
<1>9. OnceInv'
  <2>1. \A j, k \in 1 .. Len(decodeFail') : decodeFail'[j] = decodeFail'[k] => j = k
    BY <1>3, <1>6, <1>7 DEF ProducerInv, OnceInv
  <2> QED  BY <1>1, <2>1 DEF ProducerInv, OnceInv
<1>10. Produced'
  <2>1. \A i \in Waiting : isDirect(i)' \/ inIq(i)' \/ inFu(i)' \/ inFail(i)'
    BY <1>1, <1>3, <1>6 DEF ProducerInv, Produced, inIq, inFu, inFail
  <2>2. \A i : i = nextP => inFail(i)'
    BY <1>6 DEF inFail
  <2> QED  BY <1>3, <2>1, <2>2 DEF Produced
<1> QED  BY <1>2, <1>3, <1>4, <1>5, <1>8, <1>9, <1>10 DEF ProducerInv

(* What dispatch does, spelt out once.                                     *)
LEMMA DispatchStep ==
  ASSUME TypeOK, NEW t \in ExecTag, dispatch(t)
  PROVE  LET r == renamed[1]
             d == r.dec
             a == destination(instrOf(d))
             e == [pc |-> d.pc, pred |-> d.pred, epoch |-> d.epoch, pdst |-> allocated(a)]
             x == [index |-> nextP, pc |-> d.pc, pdst |-> allocated(a), regs |-> r.regs,
                   rdy |-> [j \in 1 .. 2 |-> ready(r.regs[j])]]
         IN  /\ renamed # <<>> /\ d.epoch = epoch
             /\ e \in RobEntry /\ enq(e) /\ instrOf(e) = instrOf(d) /\ ~decodeErr(e)
             /\ tagOfInstr(instrOf(e)) = t
             /\ a \in ArchReg /\ allocate(a) /\ allocated(a) \in PhysReg
             /\ r.regs \in [1 .. 2 -> PhysReg]
             /\ x \in IqEntry
             /\ t = "DIRECT" => direct' = Append(direct, r.regs) /\ iq' = iq
             /\ t # "DIRECT" => /\ t \in IqTag /\ direct' = direct
                                /\ iq' = [iq EXCEPT ![t] = Append(iq[t], x)]
             /\ UNCHANGED <<prog, epoch, registers, fu, decodeFail, csr, archPc, fetched, fetchPc>>
<1> DEFINE r == renamed[1]
           d == r.dec
           a == destination(instrOf(d))
           e == [pc |-> d.pc, pred |-> d.pred, epoch |-> d.epoch, pdst |-> allocated(a)]
           x == [index |-> nextP, pc |-> d.pc, pdst |-> allocated(a), regs |-> r.regs,
                 rdy |-> [j \in 1 .. 2 |-> ready(r.regs[j])]]
<1>1. /\ renamed # <<>> /\ d.epoch = epoch /\ ~decodeErr(d) /\ tagOfInstr(instrOf(d)) = t
      /\ allocate(a) /\ enq(e)
      /\ UNCHANGED <<prog, epoch, registers, fu, decodeFail, csr, archPc, fetched, fetchPc>>
  BY DEF dispatch, frontVars
<1>2. a \in ArchReg /\ r.regs \in [1 .. 2 -> PhysReg] /\ d.pc \in Pc
  BY <1>1, RenamedType, InstrType DEF Renamed
<1>3. allocated(a) \in PhysReg
  BY <1>1, <1>2, AllocateType DEF TypeOK
<1>4. e \in RobEntry
  BY <1>1, <1>3, RenamedType DEF RobEntry
<1>5. instrOf(e) = instrOf(d) /\ ~decodeErr(e)
  BY <1>1 DEF instrOf, decodeErr
<1>6. x \in IqEntry
  <2>1. [j \in 1 .. 2 |-> ready(r.regs[j])] \in [1 .. 2 -> BOOLEAN]
    BY DEF ready
  <2>2. nextP \in RobIndex
    BY FirstType
  <2> HIDE DEF r, d, a
  <2> QED  BY <1>2, <1>3, <2>1, <2>2 DEF IqEntry
<1>7. t = "DIRECT" => direct' = Append(direct, r.regs) /\ iq' = iq
  BY Zenon DEF dispatch
<1>8. t # "DIRECT" => t \in IqTag /\ direct' = direct
  <2>1. t # "DIRECT" => direct' = direct
    BY Zenon DEF dispatch
  <2>2. t # "DIRECT" => t \in IqTag
    BY DEF ExecTag, IqTag
  <2> QED  BY <2>1, <2>2
<1>9. t # "DIRECT" => iq' = [iq EXCEPT ![t] = Append(iq[t], x)]
  BY Zenon DEF dispatch, iqEnq
<1> HIDE DEF r, d, a, e, x
<1>10. tagOfInstr(instrOf(e)) = t
  BY <1>1, <1>5
<1> QED
  BY <1>1, <1>2, <1>3, <1>4, <1>5, <1>6, <1>7, <1>8, <1>9, <1>10, Zenon DEF r, d, a, e, x

LEMMA ProducerDispatch ==
  ASSUME TypeOK, ProducerInv, NEW t \in ExecTag, dispatch(t)
  PROVE  ProducerInv'
<1> DEFINE r == renamed[1]
           d == r.dec
           a == destination(instrOf(d))
           e == [pc |-> d.pc, pred |-> d.pred, epoch |-> d.epoch, pdst |-> allocated(a)]
           x == [index |-> nextP, pc |-> d.pc, pdst |-> allocated(a), regs |-> r.regs,
                 rdy |-> [j \in 1 .. 2 |-> ready(r.regs[j])]]
<1>1. /\ enq(e) /\ ~decodeErr(e) /\ tagOfInstr(instrOf(e)) = t /\ x \in IqEntry
      /\ t = "DIRECT" => iq' = iq
      /\ t # "DIRECT" => t \in IqTag /\ iq' = [iq EXCEPT ![t] = Append(iq[t], x)]
      /\ UNCHANGED <<prog, fu, decodeFail>>
  BY DispatchStep, Zenon
<1>2. x.index = nextP /\ x.pc = e.pc /\ x.pdst = e.pdst
  OBVIOUS
<1> HIDE DEF e, x
<1>3. resultValid \subseteq Live
  BY DEF ProducerInv
<1>4. /\ nextP \in RobIndex /\ nextP \notin Live
      /\ Live' = Live \cup {nextP} /\ Waiting' = Waiting \cup {nextP}
      /\ resultValid' = resultValid /\ data'[nextP] = e
      /\ \A i : i = nextP => tagOf(i)' = t /\ (isDirect(i)' <=> t = "DIRECT")
      /\ \A i \in Live : /\ data'[i] = data[i] /\ tagOf(i)' = tagOf(i)
                         /\ (isDirect(i)' <=> isDirect(i))
                         /\ (decodeErr(data[i])' <=> decodeErr(data[i]))
      /\ Waiting \subseteq Live
  BY <1>1, <1>3, SlotEnq DEF Waiting
<1>5. FuInv'
  BY <1>1, <1>4 DEF ProducerInv, FuInv
<1>6. FailInv'
  BY <1>1, <1>4 DEF ProducerInv, FailInv, decodeErr, instrOf
<1>7. ASSUME NEW u \in IqTag, NEW k \in 1 .. Len(iq'[u])
      PROVE  \/ k \in 1 .. Len(iq[u]) /\ iq'[u][k] = iq[u][k]
             \/ u = t /\ t # "DIRECT" /\ k = Len(iq[u]) + 1 /\ iq'[u][k] = x
  <2>1. CASE u = t /\ t # "DIRECT"
    <3>1. iq[t] \in Seq(IqEntry) /\ iq'[t] = Append(iq[t], x)
      BY <1>1, <2>1 DEF TypeOK, ExecTypeOK
    <3> QED  BY <1>1, <2>1, <3>1, AppendFacts
  <2>2. CASE u # t \/ t = "DIRECT"
    <3>1. iq'[u] = iq[u]
      BY <1>1, <2>2 DEF TypeOK, ExecTypeOK
    <3> QED  BY <3>1
  <2> QED  BY <2>1, <2>2
<1>8. ASSUME NEW u \in IqTag, NEW k \in 1 .. Len(iq[u])
      PROVE  k \in 1 .. Len(iq'[u]) /\ iq'[u][k] = iq[u][k]
  <2>1. CASE u = t /\ t # "DIRECT"
    <3>1. iq[t] \in Seq(IqEntry) /\ iq'[t] = Append(iq[t], x)
      BY <1>1, <2>1 DEF TypeOK, ExecTypeOK
    <3> QED  BY <1>1, <2>1, <3>1, AppendFacts
  <2>2. CASE u # t \/ t = "DIRECT"
    <3>1. iq'[u] = iq[u]
      BY <1>1, <2>2 DEF TypeOK, ExecTypeOK
    <3> QED  BY <3>1
  <2> QED  BY <2>1, <2>2
<1>9. IqInv'
  <2>1. \A u \in IqTag : \A k \in 1 .. Len(iq[u]) :
          /\ iq[u][k].index \in Waiting /\ tagOf(iq[u][k].index) = u
          /\ iq[u][k].pc = data[iq[u][k].index].pc /\ iq[u][k].pdst = data[iq[u][k].index].pdst
    BY DEF ProducerInv, IqInv
  <2>2. ASSUME NEW u \in IqTag, NEW k \in 1 .. Len(iq'[u])
        PROVE  /\ iq'[u][k].index \in Waiting' /\ tagOf(iq[u][k].index)' = u
               /\ iq'[u][k].pc = data'[iq'[u][k].index].pc
               /\ iq'[u][k].pdst = data'[iq'[u][k].index].pdst
    <3>1. CASE k \in 1 .. Len(iq[u]) /\ iq'[u][k] = iq[u][k]
      BY <1>4, <2>1, <3>1
    <3>2. CASE u = t /\ iq'[u][k] = x
      BY <1>2, <1>4, <3>2
    <3> QED  BY <1>7, <3>1, <3>2
  <2> QED  BY <2>2 DEF IqInv
<1>10. OnceInv'
  <2>1. \A u \in IqTag : \A k \in 1 .. Len(iq[u]) : iq[u][k].index # nextP
    BY <1>4 DEF ProducerInv, IqInv
  <2>2. \A u \in IqTag : \A j, k \in 1 .. Len(iq'[u]) : iq'[u][j].index = iq'[u][k].index => j = k
    <3>1. \A u \in IqTag : \A j, k \in 1 .. Len(iq[u]) : iq[u][j].index = iq[u][k].index => j = k
      BY DEF ProducerInv, OnceInv
    <3>2. x.index = nextP
      BY <1>2
    <3>3. ASSUME NEW u \in IqTag, NEW j \in 1 .. Len(iq'[u]), NEW k \in 1 .. Len(iq'[u]),
                 iq'[u][j].index = iq'[u][k].index
          PROVE  j = k
      <4>1. CASE /\ j \in 1 .. Len(iq[u]) /\ iq'[u][j] = iq[u][j]
                 /\ k \in 1 .. Len(iq[u]) /\ iq'[u][k] = iq[u][k]
        BY <3>1, <3>3, <4>1
      <4>2. CASE iq'[u][j] = x \/ iq'[u][k] = x
        <5>1. iq'[u][j].index = nextP /\ iq'[u][k].index = nextP
          BY <3>2, <3>3, <4>2
        <5>2. j = Len(iq[u]) + 1
          BY <1>7, <2>1, <5>1
        <5>3. k = Len(iq[u]) + 1
          BY <1>7, <2>1, <5>1
        <5> QED  BY <5>2, <5>3
      <4> QED  BY <1>7, <4>1, <4>2, Zenon
    <3> QED  BY <3>3
  <2>3. \A u \in IqTag : \A o \in fu[u] : o.index # nextP
    BY <1>4 DEF ProducerInv, FuInv
  <2>4. \A u \in IqTag : \A k \in 1 .. Len(iq'[u]) : \A o \in fu[u] : iq'[u][k].index # o.index
    BY <1>2, <1>7, <2>3 DEF ProducerInv, OnceInv
  <2> QED  BY <1>1, <2>2, <2>4 DEF ProducerInv, OnceInv
<1>11. Produced'
  <2>1. ASSUME NEW i \in Waiting
        PROVE  isDirect(i)' \/ inIq(i)' \/ inFu(i)' \/ inFail(i)'
    <3>1. inIq(i) => inIq(i)'
      BY <1>8 DEF inIq
    <3>2. (inFu(i) => inFu(i)') /\ (inFail(i) => inFail(i)')
      BY <1>1 DEF inFu, inFail
    <3> QED  BY <1>4, <3>1, <3>2 DEF ProducerInv, Produced
  <2>2. ASSUME NEW i, i = nextP
        PROVE  isDirect(i)' \/ inIq(i)'
    <3>1. CASE t = "DIRECT"
      BY <1>4, <2>2, <3>1
    <3>2. CASE t # "DIRECT"
      <4>1. iq[t] \in Seq(IqEntry) /\ iq'[t] = Append(iq[t], x) /\ t \in IqTag
        BY <1>1, <3>2 DEF TypeOK, ExecTypeOK
      <4>2. Len(iq[t]) + 1 \in 1 .. Len(iq'[t]) /\ iq'[t][Len(iq[t]) + 1] = x
        BY <1>1, <4>1, AppendFacts
      <4> QED  BY <1>2, <2>2, <4>1, <4>2 DEF inIq
    <3> QED  BY <3>1, <3>2
  <2> QED  BY <1>4, <2>1, <2>2 DEF Produced
<1> QED  BY <1>3, <1>4, <1>5, <1>6, <1>9, <1>10, <1>11 DEF ProducerInv

(* connect: an operation moves from an issue queue to its unit.            *)
ConnectStep(t, k, r) ==
  /\ k \in 1 .. Len(iq[t]) /\ iq[t][k].rdy[1] /\ iq[t][k].rdy[2]
  /\ r \in unitResults(prog[iq[t][k].pc], iq[t][k].pc,
                       registers[iq[t][k].regs[1]], registers[iq[t][k].regs[2]])
  /\ fu' = [fu EXCEPT ![t] = @ \cup {[index |-> iq[t][k].index, pdst |-> iq[t][k].pdst,
                                     result |-> r]}]
  /\ iq' = [iq EXCEPT ![t] = iqDeq(iq[t], k)]
  /\ UNCHANGED <<prog, frontVars, renamed, epoch, killed, waitDmemCommit, registers,
                 direct, decodeFail, csr, archPc, robVars, renamingVars>>

LEMMA ConnectSteps ==
  ASSUME NEW t, connect(t)
  PROVE  \E k \in 1 .. Len(iq[t]) : \E r : ConnectStep(t, k, r)
<1>1. PICK k \in 1 .. Len(iq[t]) :
        /\ iqFirst(iq[t], k)
        /\ \E r \in unitResults(prog[iq[t][k].pc], iq[t][k].pc,
                                registers[iq[t][k].regs[1]], registers[iq[t][k].regs[2]]) :
             fu' = [fu EXCEPT ![t] = @ \cup {[index |-> iq[t][k].index,
                                             pdst |-> iq[t][k].pdst, result |-> r]}]
        /\ iq' = [iq EXCEPT ![t] = iqDeq(iq[t], k)]
        /\ UNCHANGED <<prog, frontVars, renamed, epoch, killed, waitDmemCommit, registers,
                       direct, decodeFail, csr, archPc, robVars, renamingVars>>
  BY Zenon DEF connect
<1>2. iq[t][k].rdy[1] /\ iq[t][k].rdy[2]
  BY <1>1 DEF iqFirst, iqReady
<1> QED  BY <1>1, <1>2, Zenon DEF ConnectStep

LEMMA ProducerConnect ==
  ASSUME TypeOK, ProducerInv, NEW t \in IqTag, NEW k, NEW r, ConnectStep(t, k, r)
  PROVE  ProducerInv'
<1> DEFINE x == iq[t][k]
           o == [index |-> x.index, pdst |-> x.pdst, result |-> r]
<1>1. /\ k \in 1 .. Len(iq[t]) /\ fu' = [fu EXCEPT ![t] = @ \cup {o}]
      /\ iq' = [iq EXCEPT ![t] = iqDeq(iq[t], k)]
      /\ UNCHANGED <<prog, decodeFail, data, resultValid, firstP, nextP, empty, full>>
  BY DEF ConnectStep, robVars
<1>2. o.index = x.index /\ o.pdst = x.pdst
  OBVIOUS
<1>3. x.index \in Waiting /\ tagOf(x.index) = t /\ x.pdst = data[x.index].pdst
  BY <1>1 DEF ProducerInv, IqInv
<1> HIDE DEF o, x
<1>4. Live' = Live /\ Waiting' = Waiting
  BY <1>1 DEF Live, robPos, Waiting
<1>5. \A i : /\ tagOf(i)' = tagOf(i) /\ (isDirect(i)' <=> isDirect(i))
             /\ (decodeErr(data[i])' <=> decodeErr(data[i]))
  BY <1>1, SlotSame
<1>6. \A u \in IqTag : fu'[u] = IF u = t THEN fu[u] \cup {o} ELSE fu[u]
  BY <1>1 DEF TypeOK, ExecTypeOK
<1>7. /\ \A j \in 1 .. Len(iq'[t]) : \E m \in 1 .. Len(iq[t]) : m # k /\ iq'[t][j] = iq[t][m]
      /\ \A m \in 1 .. Len(iq[t]) : m # k => \E j \in 1 .. Len(iq'[t]) : iq'[t][j] = iq[t][m]
      /\ \A i, j \in 1 .. Len(iq'[t]) : iq'[t][i].index = iq'[t][j].index => i = j
  <2>1. iq[t] \in Seq(IqEntry) /\ k \in 1 .. Len(iq[t]) /\ iq'[t] = iqDeq(iq[t], k)
    BY <1>1 DEF TypeOK, ExecTypeOK
  <2>2. Without(iq[t], k, iq'[t])
    BY <2>1, DeqFacts
  <2>3. \A i, j \in 1 .. Len(iq[t]) : iq[t][i].index = iq[t][j].index => i = j
    BY DEF ProducerInv, OnceInv
  <2> QED  BY <2>2, <2>3, Zenon DEF Without
<1>8. \A u \in IqTag : u # t => iq'[u] = iq[u]
  BY <1>1 DEF TypeOK, ExecTypeOK
<1>9. IqInv'
  <2>1. \A u \in IqTag : \A m \in 1 .. Len(iq[u]) :
          /\ iq[u][m].index \in Waiting /\ tagOf(iq[u][m].index) = u
          /\ iq[u][m].pc = data[iq[u][m].index].pc /\ iq[u][m].pdst = data[iq[u][m].index].pdst
    BY DEF ProducerInv, IqInv
  <2>2. ASSUME NEW u \in IqTag, NEW j \in 1 .. Len(iq'[u])
        PROVE  /\ iq'[u][j].index \in Waiting /\ tagOf(iq'[u][j].index) = u
               /\ iq'[u][j].pc = data[iq'[u][j].index].pc
               /\ iq'[u][j].pdst = data[iq'[u][j].index].pdst
    <3>1. \E m \in 1 .. Len(iq[u]) : iq'[u][j] = iq[u][m]
      <4>1. CASE u = t
        BY <1>7, <4>1, Zenon
      <4>2. CASE u # t
        BY <1>8, <4>2, Zenon
      <4> QED  BY <4>1, <4>2
    <3> QED  BY <2>1, <3>1
  <2>3. prog' = prog /\ data' = data
    BY <1>1
  <2> QED  BY <1>4, <2>2, <2>3, Zenon DEF IqInv, tagOf, instrOf
<1>10. FuInv'
  BY <1>1, <1>2, <1>3, <1>4, <1>5, <1>6 DEF ProducerInv, FuInv
<1>11. FailInv'
  BY <1>1, <1>4, <1>5 DEF ProducerInv, FailInv, decodeErr, instrOf
<1>12. OnceInv'
  <2>1. \A u \in IqTag : \A i, j \in 1 .. Len(iq'[u]) : iq'[u][i].index = iq'[u][j].index => i = j
    <3>1. \A u \in IqTag \ {t} : \A i, j \in 1 .. Len(iq[u]) : iq[u][i].index = iq[u][j].index => i = j
      BY DEF ProducerInv, OnceInv
    <3>2. ASSUME NEW u \in IqTag
          PROVE  \A i, j \in 1 .. Len(iq'[u]) : iq'[u][i].index = iq'[u][j].index => i = j
      <4>1. CASE u = t
        BY <1>7, <4>1
      <4>2. CASE u # t
        BY <1>8, <3>1, <4>2
      <4> QED  BY <4>1, <4>2
    <3> QED  BY <3>2
  <2>2. \A p \in fu[t] : p.index # x.index
    BY <1>1 DEF ProducerInv, OnceInv, x
  <2>3. ASSUME NEW u \in IqTag
        PROVE  \A p, q \in fu'[u] : p.index = q.index => p = q
    <3>1. \A p, q \in fu[u] : p.index = q.index => p = q
      BY DEF ProducerInv, OnceInv
    <3>2. CASE u = t
      <4>1. fu'[u] = fu[t] \cup {o}
        BY <1>6, <3>2
      <4>2. \A p \in fu[t] : p.index # o.index
        BY <1>2, <2>2
      <4> QED  BY <3>1, <3>2, <4>1, <4>2, Zenon
    <3>3. CASE u # t
      BY <1>6, <3>1, <3>3
    <3> QED  BY <3>2, <3>3
  <2>4. \A m \in 1 .. Len(iq[t]) : m # k => iq[t][m].index # x.index
    BY <1>1 DEF ProducerInv, OnceInv, x
  <2>5. \A j \in 1 .. Len(iq'[t]) : iq'[t][j].index # x.index
    <3> TAKE j \in 1 .. Len(iq'[t])
    <3>1. PICK m \in 1 .. Len(iq[t]) : m # k /\ iq'[t][j] = iq[t][m]
      BY <1>7
    <3> QED  BY <2>4, <3>1
  <2>6. ASSUME NEW u \in IqTag, NEW j \in 1 .. Len(iq'[u]), NEW p \in fu'[u]
        PROVE  iq'[u][j].index # p.index
    <3>1. \A m \in 1 .. Len(iq[u]) : \A y \in fu[u] : iq[u][m].index # y.index
      BY DEF ProducerInv, OnceInv
    <3>2. CASE u # t
      <4>1. iq'[u] = iq[u] /\ fu'[u] = fu[u]
        BY <1>6, <1>8, <3>2
      <4> QED  BY <3>1, <4>1
    <3>3. CASE u = t
      <4>1. p = o \/ p \in fu[t]
        BY <1>6, <3>3
      <4>2. CASE p = o
        BY <1>2, <2>5, <3>3, <4>2, Zenon
      <4>3. CASE p \in fu[t]
        <5>1. PICK m \in 1 .. Len(iq[t]) : iq'[t][j] = iq[t][m]
          BY <1>7, <3>3
        <5> QED  BY <3>1, <3>3, <4>3, <5>1
      <4> QED  BY <4>1, <4>2, <4>3
    <3> QED  BY <3>2, <3>3
  <2> QED  BY <1>1, <2>1, <2>3, <2>6 DEF ProducerInv, OnceInv
<1>13. Produced'
  <2>1. ASSUME NEW i \in Waiting
        PROVE  isDirect(i)' \/ inIq(i)' \/ inFu(i)' \/ inFail(i)'
    <3>1. (inFu(i) => inFu(i)') /\ (inFail(i) => inFail(i)')
      BY <1>1, <1>6 DEF inFu, inFail
    <3>2. inIq(i) => inIq(i)' \/ inFu(i)'
      <4>1. i = x.index => inFu(i)'
        BY <1>2, <1>6 DEF inFu
      <4>2. ASSUME NEW u \in IqTag, NEW m \in 1 .. Len(iq[u]), iq[u][m].index = i, i # x.index
            PROVE  \E j \in 1 .. Len(iq'[u]) : iq'[u][j].index = i
        <5>1. CASE u = t
          <6>1. m # k
            BY <4>2, <5>1 DEF x
          <6>2. PICK j \in 1 .. Len(iq'[t]) : iq'[t][j] = iq[t][m]
            BY <1>7, <5>1, <6>1
          <6> QED  BY <4>2, <5>1, <6>2
        <5>2. CASE u # t
          BY <1>8, <4>2, <5>2
        <5> QED  BY <5>1, <5>2
      <4> QED  BY <4>1, <4>2 DEF inIq
    <3> QED  BY <1>5, <3>1, <3>2 DEF ProducerInv, Produced
  <2> QED  BY <1>4, <2>1 DEF Produced
<1> QED  BY <1>1, <1>4, <1>9, <1>10, <1>11, <1>12, <1>13 DEF ProducerInv

LEMMA ErrIsDirect ==
  ASSUME NEW d, decodeErr(d)
  PROVE  tagOfInstr(instrOf(d)) = "DIRECT" /\ destination(instrOf(d)) = zeroReg
BY DEF decodeErr, tagOfInstr, destination

(* write_back in general: slot i leaves the one place it was in.           *)
FailDrops(i) ==
  /\ \A k \in 1 .. Len(decodeFail') : /\ decodeFail'[k] # i
                                      /\ \E m \in 1 .. Len(decodeFail) : decodeFail'[k] = decodeFail[m]
  /\ \A m \in 1 .. Len(decodeFail) :
       decodeFail[m] # i => \E k \in 1 .. Len(decodeFail') : decodeFail'[k] = decodeFail[m]
  /\ \A j, k \in 1 .. Len(decodeFail') : decodeFail'[j] = decodeFail'[k] => j = k

LEMMA ProducerWrite ==
  ASSUME TypeOK, ProducerInv, NEW i \in Waiting, NEW r, NEW p, writeBack(i, r), wakeupFn(p, r),
         prog' = prog, FailDrops(i),
         \A t \in IqTag : fu'[t] = {o \in fu[t] : o.index # i},
         \A t \in IqTag : \A k \in 1 .. Len(iq[t]) : iq[t][k].index # i
  PROVE  ProducerInv'
<1>1. /\ data' = data /\ Live' = Live /\ Waiting' = Waiting \ {i}
      /\ resultValid' = resultValid \cup {i} /\ i \in Live
  BY SlotWriteBack DEF Waiting
<1>2. \A j : /\ tagOf(j)' = tagOf(j) /\ (isDirect(j)' <=> isDirect(j))
             /\ (decodeErr(data[j])' <=> decodeErr(data[j]))
  BY <1>1, SlotSame
<1>3. \A t \in IqTag : /\ Len(iq'[t]) = Len(iq[t])
                       /\ \A k \in 1 .. Len(iq[t]) :
                            /\ iq'[t][k].index = iq[t][k].index /\ iq'[t][k].pc = iq[t][k].pc
                            /\ iq'[t][k].pdst = iq[t][k].pdst
  BY WakeupFacts DEF TypeOK, ExecTypeOK
<1>4. IqInv'
  <2>1. ASSUME NEW t \in IqTag, NEW k \in 1 .. Len(iq'[t])
        PROVE  /\ iq'[t][k].index \in Waiting' /\ tagOf(iq[t][k].index)' = t
               /\ iq'[t][k].pc = data'[iq'[t][k].index].pc
               /\ iq'[t][k].pdst = data'[iq'[t][k].index].pdst
    <3>1. k \in 1 .. Len(iq[t])
      BY <1>3
    <3>2. /\ iq[t][k].index \in Waiting /\ tagOf(iq[t][k].index) = t
          /\ iq[t][k].pc = data[iq[t][k].index].pc /\ iq[t][k].pdst = data[iq[t][k].index].pdst
          /\ iq[t][k].index # i
      BY <3>1 DEF ProducerInv, IqInv
    <3>3. iq'[t][k].index = iq[t][k].index
      BY <1>3, <3>1
    <3>4. tagOf(iq[t][k].index)' = t
      BY <1>1, <3>2, <3>3 DEF tagOf, instrOf
    <3> QED  BY <1>1, <1>3, <3>1, <3>2, <3>4
  <2> QED  BY <2>1 DEF IqInv
<1>5. FuInv'
  BY <1>1, <1>2 DEF ProducerInv, FuInv
<1>6. FailInv'
  <2>1. \A m \in 1 .. Len(decodeFail) : decodeFail[m] \in Waiting /\ decodeErr(data[decodeFail[m]])
    BY DEF ProducerInv, FailInv
  <2>2. \A k \in 1 .. Len(decodeFail') :
          decodeFail'[k] \in Waiting \ {i} /\ decodeErr(data[decodeFail'[k]])
    BY <2>1 DEF FailDrops
  <2> QED  BY <1>1, <2>2 DEF FailInv, decodeErr, instrOf
<1>7. OnceInv'
  <2>1. \A t \in IqTag : \A j, k \in 1 .. Len(iq'[t]) : iq'[t][j].index = iq'[t][k].index => j = k
    BY <1>3 DEF ProducerInv, OnceInv
  <2>2. \A t \in IqTag : \A o, q \in fu'[t] : o.index = q.index => o = q
    BY DEF ProducerInv, OnceInv
  <2>3. \A t \in IqTag : \A k \in 1 .. Len(iq'[t]) : \A o \in fu'[t] : iq'[t][k].index # o.index
    BY <1>3 DEF ProducerInv, OnceInv
  <2> QED  BY <2>1, <2>2, <2>3 DEF OnceInv, FailDrops
<1>8. Produced'
  <2>1. ASSUME NEW j \in Waiting \ {i}
        PROVE  isDirect(j)' \/ inIq(j)' \/ inFu(j)' \/ inFail(j)'
    <3>1. inIq(j) => inIq(j)'
      BY <1>3 DEF inIq
    <3>2. inFu(j) => inFu(j)'
      BY DEF inFu
    <3>3. inFail(j) => inFail(j)'
      BY DEF inFail, FailDrops
    <3> QED  BY <1>2, <3>1, <3>2, <3>3 DEF ProducerInv, Produced
  <2> QED  BY <1>1, <2>1 DEF Produced
<1>9. resultValid' \subseteq Live'
  BY <1>1 DEF ProducerInv
<1> QED  BY <1>4, <1>5, <1>6, <1>7, <1>8, <1>9 DEF ProducerInv

LEMMA FailKeeps ==
  ASSUME ProducerInv, UNCHANGED decodeFail, NEW i, ~inFail(i)
  PROVE  FailDrops(i)
BY DEF ProducerInv, OnceInv, inFail, FailDrops

WriteBackStep(t, o) ==
  /\ o \in fu[t]
  /\ fu' = [fu EXCEPT ![t] = @ \ {o}]
  /\ writeBack(o.index, o.result)
  /\ wakeupFn(o.pdst, o.result)
  /\ UNCHANGED <<prog, frontVars, renamed, epoch, killed, waitDmemCommit, direct,
                 decodeFail, csr, archPc>>

LEMMA ProducerWriteBack ==
  ASSUME TypeOK, ProducerInv, NEW t \in IqTag, NEW o, WriteBackStep(t, o)
  PROVE  ProducerInv'
<1>1. /\ o \in fu[t] /\ fu' = [fu EXCEPT ![t] = @ \ {o}]
      /\ writeBack(o.index, o.result) /\ wakeupFn(o.pdst, o.result)
      /\ UNCHANGED <<prog, decodeFail>>
  BY DEF WriteBackStep
<1>2. o.index \in Waiting /\ tagOf(o.index) = t /\ t # "DIRECT"
  BY <1>1 DEF ProducerInv, FuInv, IqTag
<1>3. ASSUME NEW u \in IqTag PROVE fu'[u] = {p \in fu[u] : p.index # o.index}
  <2>1. fu'[u] = IF u = t THEN fu[u] \ {o} ELSE fu[u]
    BY <1>1 DEF TypeOK, ExecTypeOK
  <2>2. CASE u = t
    BY <1>1, <2>1, <2>2 DEF ProducerInv, OnceInv
  <2>3. CASE u # t
    BY <1>2, <2>1, <2>3 DEF ProducerInv, FuInv
  <2> QED  BY <2>2, <2>3
<1>4. ASSUME NEW u \in IqTag, NEW k \in 1 .. Len(iq[u]) PROVE iq[u][k].index # o.index
  <2>1. CASE u = t
    BY <1>1, <2>1 DEF ProducerInv, OnceInv
  <2>2. CASE u # t
    BY <1>2, <2>2 DEF ProducerInv, IqInv
  <2> QED  BY <2>1, <2>2
<1>5. ~inFail(o.index)
  BY <1>2, ErrIsDirect DEF ProducerInv, FailInv, inFail, tagOf
<1>6. FailDrops(o.index)
  BY <1>1, <1>5, FailKeeps
<1> QED  BY <1>1, <1>2, <1>3, <1>4, <1>6, ProducerWrite

LEMMA ProducerWriteBackFail ==
  ASSUME TypeOK, ProducerInv, write_back_fail
  PROVE  ProducerInv'
<1> DEFINE i == Head(decodeFail)
<1>1. /\ decodeFail # <<>> /\ decodeFail' = Tail(decodeFail)
      /\ writeBack(i, Error) /\ wakeupFn(0, Error) /\ UNCHANGED <<prog, fu>>
  BY DEF write_back_fail
<1>2. decodeFail \in Seq(RobIndex)
  BY DEF TypeOK, ExecTypeOK
<1>3. /\ i = decodeFail[1] /\ 1 \in 1 .. Len(decodeFail)
      /\ \A k \in 1 .. Len(decodeFail') : /\ k + 1 \in 1 .. Len(decodeFail) /\ k + 1 # 1
                                          /\ decodeFail'[k] = decodeFail[k + 1]
      /\ \A k \in 1 .. Len(decodeFail) :
           k = 1 \/ (k - 1 \in 1 .. Len(decodeFail') /\ decodeFail'[k - 1] = decodeFail[k])
  BY <1>1, <1>2, TailFacts
<1>4. i \in Waiting /\ tagOf(i) = "DIRECT"
  <2>1. i \in Waiting /\ decodeErr(data[i])
    BY <1>3 DEF ProducerInv, FailInv
  <2> QED  BY <2>1, ErrIsDirect DEF tagOf
<1>5. \A j, k \in 1 .. Len(decodeFail) : decodeFail[j] = decodeFail[k] => j = k
  BY DEF ProducerInv, OnceInv
<1> HIDE DEF i
<1>6. FailDrops(i)
  <2>1. \A k \in 1 .. Len(decodeFail') : decodeFail'[k] # i
    BY <1>3, <1>5
  <2>2. \A j, k \in 1 .. Len(decodeFail') : decodeFail'[j] = decodeFail'[k] => j = k
    <3> TAKE j, k \in 1 .. Len(decodeFail')
    <3>1. decodeFail'[j] = decodeFail'[k] => j + 1 = k + 1
      BY <1>3, <1>5
    <3>2. j \in Int /\ k \in Int
      OBVIOUS
    <3> QED  BY <3>1, <3>2
  <2>3. \A m \in 1 .. Len(decodeFail) :
          decodeFail[m] # i => \E k \in 1 .. Len(decodeFail') : decodeFail'[k] = decodeFail[m]
    BY <1>3
  <2>4. \A k \in 1 .. Len(decodeFail') : \E m \in 1 .. Len(decodeFail) : decodeFail'[k] = decodeFail[m]
    BY <1>3
  <2> QED  BY <2>1, <2>2, <2>3, <2>4 DEF FailDrops
<1>7. \A t \in IqTag : fu'[t] = {o \in fu[t] : o.index # i}
  BY <1>1, <1>4 DEF ProducerInv, FuInv, IqTag
<1>8. \A t \in IqTag : \A k \in 1 .. Len(iq[t]) : iq[t][k].index # i
  BY <1>4 DEF ProducerInv, IqInv, IqTag
<1> QED  BY <1>1, <1>4, <1>6, <1>7, <1>8, ProducerWrite

(* The head that execute_direct finds is a waiting direct instruction.     *)
LEMMA DirectHead ==
  ASSUME TypeOK, ProducerInv, execute_direct
  PROVE  firstP \in Waiting /\ isDirect(firstP) /\ ~inFail(firstP)
<1>1. firstP \in Live /\ firstP \notin resultValid
  <2>1. ~empty /\ firstP \notin resultValid /\ RingOK
    BY DEF execute_direct, first_done, TypeOK, RobTypeOK
  <2> QED  BY <2>1, RobSizeAssumption DEF RingOK, Live, robPos, RobIndex
<1>2. firstP \in Waiting /\ tagOf(firstP) = "DIRECT"
  BY <1>1 DEF execute_direct, first, Waiting, tagOf
<1>3. ~inFail(firstP)
  BY DEF execute_direct, inFail
<1>4. ~inIq(firstP) /\ ~inFu(firstP)
  BY <1>2 DEF ProducerInv, IqInv, FuInv, IqTag, inIq, inFu
<1> QED  BY <1>2, <1>3, <1>4 DEF ProducerInv, Produced

LEMMA ProducerDirect ==
  ASSUME TypeOK, ProducerInv, execute_direct
  PROVE  ProducerInv'
<1>1. \E r : writeBack(firstP, r) /\ wakeupFn(first.pdst, r)
  BY Zenon DEF execute_direct
<1>2. UNCHANGED <<prog, fu, decodeFail>>
  BY DEF execute_direct
<1>3. firstP \in Waiting /\ isDirect(firstP) /\ ~inFail(firstP)
  BY DirectHead
<1>4. FailDrops(firstP)
  BY <1>2, <1>3, FailKeeps
<1>5. \A t \in IqTag : fu'[t] = {o \in fu[t] : o.index # firstP}
  BY <1>2, <1>3 DEF ProducerInv, FuInv, IqTag, tagOf, isDirect
<1>6. \A t \in IqTag : \A k \in 1 .. Len(iq[t]) : iq[t][k].index # firstP
  BY <1>3 DEF ProducerInv, IqInv, IqTag, tagOf, isDirect
<1> QED  BY <1>1, <1>2, <1>3, <1>4, <1>5, <1>6, ProducerWrite

LEMMA ProducerDeq ==
  ASSUME TypeOK, ProducerInv, deq, first_done, UNCHANGED <<prog, iq, fu, decodeFail>>
  PROVE  ProducerInv'
<1>0. resultValid \subseteq Live
  BY DEF ProducerInv
<1>1. data' = data /\ Waiting' = Waiting /\ resultValid' \subseteq Live'
  BY <1>0, SlotDeq
<1>2. \A i : /\ tagOf(i)' = tagOf(i) /\ (isDirect(i)' <=> isDirect(i))
             /\ (decodeErr(data[i])' <=> decodeErr(data[i]))
  BY <1>1, SlotSame
<1>3. IqInv'
  BY <1>1, <1>2 DEF ProducerInv, IqInv
<1>4. FuInv'
  BY <1>1, <1>2 DEF ProducerInv, FuInv
<1>5. FailInv'
  BY <1>1, <1>2 DEF ProducerInv, FailInv, decodeErr, instrOf
<1>6. OnceInv'
  BY DEF ProducerInv, OnceInv
<1>7. Produced'
  BY <1>1, <1>2 DEF ProducerInv, Produced, inIq, inFu, inFail
<1> QED  BY <1>1, <1>3, <1>4, <1>5, <1>6, <1>7 DEF ProducerInv

-----------------------------------------------------------------------------
(* direct_issue_queue lists the waiting direct instructions in order.      *)

LEMMA DirectFrame ==
  ASSUME UNCHANGED <<prog, direct>>, data' = data, Waiting' = Waiting,
         \A i : robPos(i)' = robPos(i), NEW f, DirectOrder(f)
  PROVE  DirectOrder(f)'
<1>1. \A i : isDirect(i)' <=> isDirect(i)
  BY SlotSame
<1> QED  BY <1>1 DEF DirectOrder

(* A new entry that is not direct, whatever it is.                         *)
LEMMA DirectEnqOther ==
  ASSUME TypeOK, ProducerInv, NEW e, enq(e), UNCHANGED <<prog, direct>>,
         ~(tagOfInstr(instrOf(e)) = "DIRECT" /\ ~decodeErr(e)), NEW f, DirectOrder(f)
  PROVE  DirectOrder(f)'
<1>1. resultValid \subseteq Live /\ Waiting \subseteq Live
  BY DEF ProducerInv, Waiting
<1>2. /\ Waiting' = Waiting \cup {nextP}
      /\ \A i : i = nextP => ~isDirect(i)'
      /\ \A i \in Live : isDirect(i)' <=> isDirect(i)
      /\ \A i : robPos(i)' = robPos(i)
  BY <1>1, SlotEnq
<1> QED  BY <1>1, <1>2 DEF DirectOrder

(* g is f followed by p.                                                   *)
Extends(g, f, n, p) == g[n + 1] = p /\ \A k \in 1 .. n : g[k] = f[k]

LEMMA DirectEnq ==
  ASSUME TypeOK, ProducerInv, NEW e, enq(e), prog' = prog,
         tagOfInstr(instrOf(e)) = "DIRECT", ~decodeErr(e),
         NEW r \in [1 .. 2 -> PhysReg], direct' = Append(direct, r), NEW f, DirectOrder(f)
  PROVE  \E g : DirectOrder(g)' /\ Extends(g, f, Len(direct), nextP)
<1>2. resultValid \subseteq Live /\ Waiting \subseteq Live
  BY DEF ProducerInv, Waiting
<1>3. /\ Waiting' = Waiting \cup {nextP} /\ nextP \in RobIndex
      /\ \A i : i = nextP => isDirect(i)'
      /\ \A i \in Live : (isDirect(i)' <=> isDirect(i)) /\ i # nextP
                         /\ robPos(i) < robPos(nextP)
      /\ \A i : robPos(i)' = robPos(i)
  BY <1>2, SlotEnq
<1>4. Len(direct) \in Nat /\ Len(direct') = Len(direct) + 1
  BY AppendFacts DEF TypeOK, ExecTypeOK
<1>5. PICK n : n = Len(direct)
  OBVIOUS
<1>6. PICK p : p = nextP
  OBVIOUS
<1>7. PICK g : g = [k \in 1 .. n + 1 |-> IF k = n + 1 THEN p ELSE f[k]]
  OBVIOUS
<1>8. n \in Nat /\ Len(direct') = n + 1 /\ f \in [1 .. n -> RobIndex]
  BY <1>4, <1>5 DEF DirectOrder
<1>9. \A k \in 1 .. n + 1 : (k = n + 1 /\ g[k] = p) \/ (k \in 1 .. n /\ g[k] = f[k])
  BY <1>7, <1>8
<1>10. n + 1 \in 1 .. n + 1 /\ g[n + 1] = p /\ \A k \in 1 .. n : k \in 1 .. n + 1 /\ g[k] = f[k]
  BY <1>7, <1>8
<1>11. /\ \A k \in 1 .. n : f[k] \in Waiting /\ isDirect(f[k]) /\ f[k] \in Live /\ isDirect(f[k])'
       /\ \A i \in Waiting : isDirect(i) => \E k \in 1 .. n : f[k] = i
       /\ \A j, k \in 1 .. n : j < k => robPos(f[j]) < robPos(f[k])
  BY <1>2, <1>3, <1>5 DEF DirectOrder
<1>12. g \in [1 .. n + 1 -> RobIndex]
  BY <1>3, <1>6, <1>7, <1>8
<1>13. \A k \in 1 .. n + 1 : g[k] \in Waiting' /\ isDirect(g[k])'
  BY <1>3, <1>6, <1>9, <1>11
<1>14. \A i \in Waiting' : isDirect(i)' => \E k \in 1 .. n + 1 : g[k] = i
  BY <1>2, <1>3, <1>6, <1>10, <1>11
<1>15. ASSUME NEW j \in 1 .. n + 1, NEW k \in 1 .. n + 1, j < k
       PROVE  robPos(g[j])' < robPos(g[k])'
  <2>1. j \in 1 .. n /\ g[j] = f[j] /\ robPos(f[j]) < robPos(p)
    BY <1>3, <1>6, <1>8, <1>10, <1>11, <1>15
  <2>2. CASE k = n + 1
    BY <1>3, <1>10, <2>1, <2>2
  <2>3. CASE k \in 1 .. n
    BY <1>3, <1>10, <1>11, <1>15, <2>1, <2>3
  <2> QED  BY <1>9, <2>2, <2>3
<1>16. DirectOrder(g)'
  BY <1>8, <1>12, <1>13, <1>14, <1>15 DEF DirectOrder
<1> QED  BY <1>5, <1>6, <1>10, <1>16 DEF Extends

(* A result for a slot that is not direct.                                 *)
LEMMA DirectWrite ==
  ASSUME NEW i, NEW r, writeBack(i, r), ~isDirect(i), UNCHANGED <<prog, direct>>,
         NEW f, DirectOrder(f)
  PROVE  DirectOrder(f)'
<1>1. data' = data /\ Waiting' = Waiting \ {i} /\ \A j : robPos(j)' = robPos(j)
  BY SlotWriteBack
<1>2. \A j : isDirect(j)' <=> isDirect(j)
  BY <1>1, SlotSame
<1> QED  BY <1>1, <1>2 DEF DirectOrder

(* The oldest direct instruction is the head when the head is direct.      *)
LEMMA DirectFirst ==
  ASSUME TypeOK, firstP \in Waiting, isDirect(firstP), NEW f, DirectOrder(f)
  PROVE  1 \in 1 .. Len(direct) /\ f[1] = firstP
<1>1. Len(direct) \in Nat
  BY DEF TypeOK, ExecTypeOK
<1>2. PICK k \in 1 .. Len(direct) : f[k] = firstP
  BY DEF DirectOrder
<1>3. 1 \in 1 .. Len(direct) /\ (k = 1 \/ 1 < k)
  BY <1>1, <1>2
<1>4. robPos(firstP) = 0 /\ RingOK
  BY RobSizeAssumption DEF TypeOK, RobTypeOK, RingOK, robPos, RobIndex
<1>5. f[1] \in RobIndex
  BY <1>3 DEF DirectOrder
<1>6. robPos(f[1]) >= 0
  BY <1>4, <1>5, RobSizeAssumption DEF RingOK, robPos, RobIndex
<1>7. 1 < k => robPos(f[1]) < robPos(f[k])
  BY <1>3 DEF DirectOrder
<1>8. robPos(f[1]) \in Int
  BY <1>4, <1>5, RobSizeAssumption DEF RingOK, robPos, RobIndex
<1> QED  BY <1>2, <1>3, <1>4, <1>6, <1>7, <1>8

(* g is f without its first.                                               *)
Follows(g, f, n) == \A k \in 1 .. n - 1 : g[k] = f[k + 1]

LEMMA DirectExecute ==
  ASSUME TypeOK, ProducerInv, execute_direct, NEW f, DirectOrder(f)
  PROVE  \E g : DirectOrder(g)' /\ Follows(g, f, Len(direct))
<1>2. firstP \in Waiting /\ isDirect(firstP)
  BY DirectHead
<1>3. f[1] = firstP
  BY <1>2, DirectFirst
<1>4. PICK r : writeBack(firstP, r)
  BY Zenon DEF execute_direct
<1>5. prog' = prog /\ direct # <<>> /\ direct' = Tail(direct)
  BY DEF execute_direct
<1>6. data' = data /\ Waiting' = Waiting \ {firstP} /\ \A j : robPos(j)' = robPos(j)
  BY <1>4, SlotWriteBack
<1>7. \A j : isDirect(j)' <=> isDirect(j)
  BY <1>5, <1>6, SlotSame
<1>8. PICK n : n = Len(direct)
  OBVIOUS
<1>9. n \in Nat /\ n > 0 /\ Len(direct') = n - 1
  BY <1>5, <1>8, TailFacts DEF TypeOK, ExecTypeOK
<1>10. /\ f \in [1 .. n -> RobIndex]
       /\ \A k \in 1 .. n : f[k] \in Waiting /\ isDirect(f[k])
       /\ \A i \in Waiting : isDirect(i) => \E k \in 1 .. n : f[k] = i
       /\ \A j, k \in 1 .. n : j < k => robPos(f[j]) < robPos(f[k])
  BY <1>8 DEF DirectOrder
<1>11. PICK g : g = [k \in 1 .. n - 1 |-> f[k + 1]]
  OBVIOUS
<1>12. \A k \in 1 .. n - 1 : k + 1 \in 1 .. n /\ 1 < k + 1 /\ g[k] = f[k + 1]
  BY <1>9, <1>11
<1>13. g \in [1 .. n - 1 -> RobIndex]
  BY <1>9, <1>10, <1>11, <1>12
<1>14. \A k \in 1 .. n - 1 : f[k + 1] # firstP
  <2> TAKE k \in 1 .. n - 1
  <2>1. robPos(f[1]) < robPos(f[k + 1])
    BY <1>9, <1>10, <1>12
  <2>2. robPos(firstP) \in Int
    BY RobSizeAssumption DEF TypeOK, RobTypeOK, RingOK, robPos, RobIndex
  <2> QED  BY <1>3, <2>1, <2>2
<1>15. \A k \in 1 .. n - 1 : g[k] \in Waiting' /\ isDirect(g[k])'
  BY <1>6, <1>7, <1>10, <1>12, <1>14
<1>16. ASSUME NEW i \in Waiting', isDirect(i)'
       PROVE  \E k \in 1 .. n - 1 : g[k] = i
  <2>1. i \in Waiting /\ isDirect(i) /\ i # firstP
    BY <1>6, <1>7, <1>16
  <2>2. PICK k \in 1 .. n : f[k] = i
    BY <1>10, <2>1
  <2>3. k # 1
    BY <1>3, <2>1, <2>2
  <2>4. k - 1 \in 1 .. n - 1 /\ (k - 1) + 1 = k
    BY <1>9, <2>3
  <2> QED  BY <1>12, <2>2, <2>4
<1>17. ASSUME NEW j \in 1 .. n - 1, NEW k \in 1 .. n - 1, j < k
       PROVE  robPos(g[j])' < robPos(g[k])'
  <2>1. j + 1 < k + 1
    BY <1>9, <1>17
  <2>2. robPos(f[j + 1]) < robPos(f[k + 1])
    BY <1>10, <1>12, <2>1
  <2> QED  BY <1>6, <1>12, <2>2
<1>18. DirectOrder(g)'
  BY <1>9, <1>13, <1>15, <1>16, <1>17 DEF DirectOrder
<1> QED  BY <1>8, <1>12, <1>18 DEF Follows

LEMMA DirectDeq ==
  ASSUME TypeOK, ProducerInv, deq, first_done, UNCHANGED <<prog, direct>>,
         NEW f, DirectOrder(f)
  PROVE  DirectOrder(f)'
<1>2. resultValid \subseteq Live
  BY DEF ProducerInv
<1>3. /\ data' = data /\ Waiting' = Waiting
      /\ \A i \in Live' : robPos(i)' = robPos(i) - 1
      /\ Waiting' \subseteq Live' /\ Live \subseteq RobIndex
  BY <1>2, SlotDeq DEF Waiting, Live
<1>4. \A i : isDirect(i)' <=> isDirect(i)
  BY <1>3, SlotSame
<1>5. \A i \in RobIndex : robPos(i) \in Int
  BY RobSizeAssumption DEF TypeOK, RobTypeOK, RingOK, robPos, RobIndex
<1>6. ASSUME NEW j \in 1 .. Len(direct), NEW k \in 1 .. Len(direct), j < k
      PROVE  robPos(f[j])' < robPos(f[k])'
  <2>1. robPos(f[j]) < robPos(f[k]) /\ f[j] \in Live' /\ f[k] \in Live'
        /\ f[j] \in RobIndex /\ f[k] \in RobIndex
    BY <1>3, <1>6 DEF DirectOrder
  <2> QED  BY <1>3, <1>5, <2>1
<1> QED  BY <1>3, <1>4, <1>6 DEF DirectOrder

-----------------------------------------------------------------------------
(* A busy register has a waiting writer, older than who waits for it.      *)

(* Some waiting instruction older than slot n will write p.                *)
Writer(p, n) == \E i \in Waiting : data[i].pdst = p /\ robPos(i) < robPos(n)

BusyInv == scoreboard = {data[i].pdst : i \in Waiting} \ {0}
WaitInv ==
  \A t \in IqTag : \A k \in 1 .. Len(iq[t]) : \A j \in 1 .. 2 :
    ~iq[t][k].rdy[j] => Writer(iq[t][k].regs[j], iq[t][k].index)

LEMMA WakeupParts == NoLostWakeup <=> BusyInv /\ WaitInv
BY DEF NoLostWakeup, BusyInv, WaitInv, Writer, Waiting

LEMMA BusyParts ==
  ASSUME BusyInv
  PROVE  \A p : p \in scoreboard <=> p # 0 /\ \E i \in Waiting : data[i].pdst = p
BY DEF BusyInv

LEMMA WakeupFrame ==
  ASSUME NoLostWakeup, data' = data, Waiting' = Waiting, \A i : robPos(i)' = robPos(i),
         UNCHANGED <<scoreboard, iq>>
  PROVE  NoLostWakeup'
<1>1. \A p, n : Writer(p, n)' <=> Writer(p, n)
  BY DEF Writer
<1>2. WaitInv'
  BY <1>1, WakeupParts DEF WaitInv
<1>3. BusyInv'
  BY WakeupParts DEF BusyInv
<1> QED  BY <1>2, <1>3, WakeupParts, PTL

(* A new entry: its register is the one that becomes busy.                 *)
LEMMA BusyEnq ==
  ASSUME TypeOK, ProducerInv, BusyInv, NEW e, enq(e), prog' = prog,
         scoreboard' = scoreboard \cup ({e.pdst} \ {0})
  PROVE  BusyInv'
<1>1. resultValid \subseteq Live /\ Waiting \subseteq Live
  BY DEF ProducerInv, Waiting
<1>2. /\ Waiting' = Waiting \cup {nextP} /\ data'[nextP] = e
      /\ \A i \in Waiting : data'[i] = data[i]
  BY <1>1, SlotEnq
<1>3. {data'[i].pdst : i \in Waiting'} = {data[i].pdst : i \in Waiting} \cup {e.pdst}
  <2>1. \A i \in Waiting : data'[i].pdst = data[i].pdst
    BY <1>2
  <2>2. \A p : (\E i \in Waiting' : data'[i].pdst = p)
                 <=> (\E i \in Waiting : data[i].pdst = p) \/ p = e.pdst
    BY <1>2, <2>1
  <2> QED  BY <2>2
<1> QED  BY <1>3 DEF BusyInv

LEMMA WriterEnq ==
  ASSUME TypeOK, ProducerInv, NEW e, enq(e), prog' = prog
  PROVE  /\ \A p, n : Writer(p, n) => Writer(p, n)'
         /\ \A p, n : n = nextP => ((\E i \in Waiting : data[i].pdst = p) => Writer(p, n)')
<1>1. resultValid \subseteq Live /\ Waiting \subseteq Live
  BY DEF ProducerInv, Waiting
<1>2. /\ Waiting' = Waiting \cup {nextP}
      /\ \A i \in Waiting : data'[i] = data[i] /\ robPos(i) < robPos(nextP)
      /\ \A i : robPos(i)' = robPos(i)
  BY <1>1, SlotEnq
<1> QED  BY <1>2 DEF Writer

LEMMA WakeupDispatchException ==
  ASSUME TypeOK, ProducerInv, NoLostWakeup, dispatch_exception
  PROVE  NoLostWakeup'
<1>1. PICK e : enq(e) /\ e.pdst = 0
  BY DEF dispatch_exception
<1>2. UNCHANGED <<prog, iq, scoreboard>>
  BY DEF dispatch_exception, renamingVars
<1>3. BusyInv'
  BY <1>1, <1>2, BusyEnq, WakeupParts
<1>4. WaitInv'
  <2>1. \A p, n : Writer(p, n) => Writer(p, n)'
    BY <1>1, <1>2, WriterEnq
  <2> QED  BY <1>2, <2>1, WakeupParts DEF WaitInv
<1> QED  BY <1>3, <1>4, WakeupParts, PTL

LEMMA WakeupDispatch ==
  ASSUME TypeOK, HolderInv, ProducerInv, NoLostWakeup, NEW t \in ExecTag, dispatch(t)
  PROVE  NoLostWakeup'
<1> DEFINE r == renamed[1]
           d == r.dec
           a == destination(instrOf(d))
           e == [pc |-> d.pc, pred |-> d.pred, epoch |-> d.epoch, pdst |-> allocated(a)]
           x == [index |-> nextP, pc |-> d.pc, pdst |-> allocated(a), regs |-> r.regs,
                 rdy |-> [j \in 1 .. 2 |-> ready(r.regs[j])]]
<1>1. /\ enq(e) /\ x \in IqEntry /\ allocate(a) /\ a \in ArchReg
      /\ t = "DIRECT" => iq' = iq
      /\ t # "DIRECT" => t \in IqTag /\ iq' = [iq EXCEPT ![t] = Append(iq[t], x)]
      /\ prog' = prog
  BY DispatchStep, Zenon
<1>2. /\ x.index = nextP /\ e.pdst = allocated(a)
      /\ \A j \in 1 .. 2 : x.rdy[j] <=> x.regs[j] \notin scoreboard
  BY DEF ready
<1> HIDE DEF e, x, a
<1>3. scoreboard' = scoreboard \cup ({e.pdst} \ {0})
  <2>1. CASE a = zeroReg
    BY <1>1, <1>2, <2>1 DEF allocate, allocated
  <2>2. CASE a # zeroReg
    <3>1. scoreboard' = scoreboard \cup {e.pdst} /\ freeList # <<>>
          /\ e.pdst = freeList[Len(freeList)]
      BY <1>1, <1>2, <2>2 DEF allocate, allocated, canAlloc
    <3>2. Len(freeList) \in 1 .. Len(freeList)
      BY <3>1 DEF TypeOK, RenamingTypeOK
    <3>3. e.pdst # 0
      BY <3>1, <3>2 DEF HolderInv, ZeroInv, FreeRegs
    <3> QED  BY <3>1, <3>3
  <2> QED  BY <2>1, <2>2
<1>4. BusyInv'
  BY <1>1, <1>3, BusyEnq, WakeupParts
<1>5. /\ \A p, n : Writer(p, n) => Writer(p, n)'
      /\ \A p, n : n = nextP => ((\E i \in Waiting : data[i].pdst = p) => Writer(p, n)')
  BY <1>1, WriterEnq
<1>6. ASSUME NEW u \in IqTag, NEW k \in 1 .. Len(iq'[u])
      PROVE  (k \in 1 .. Len(iq[u]) /\ iq'[u][k] = iq[u][k]) \/ iq'[u][k] = x
  <2>1. CASE u = t /\ t # "DIRECT"
    <3>1. iq[t] \in Seq(IqEntry) /\ iq'[t] = Append(iq[t], x)
      BY <1>1, <2>1 DEF TypeOK, ExecTypeOK
    <3> QED  BY <1>1, <2>1, <3>1, AppendFacts
  <2>2. CASE u # t \/ t = "DIRECT"
    <3>1. iq'[u] = iq[u]
      BY <1>1, <2>2 DEF TypeOK, ExecTypeOK
    <3> QED  BY <3>1
  <2> QED  BY <2>1, <2>2
<1>8. ASSUME NEW u \in IqTag, NEW k \in 1 .. Len(iq'[u]), NEW j \in 1 .. 2, ~iq'[u][k].rdy[j]
      PROVE  Writer(iq[u][k].regs[j], iq[u][k].index)'
  <2>1. CASE k \in 1 .. Len(iq[u]) /\ iq'[u][k] = iq[u][k]
    <3>1. Writer(iq[u][k].regs[j], iq[u][k].index)
      BY <1>8, <2>1, WakeupParts DEF WaitInv
    <3>2. PICK p : p = iq[u][k].regs[j]
      OBVIOUS
    <3>3. PICK n : n = iq[u][k].index
      OBVIOUS
    <3>4. Writer(p, n)'
      BY <1>5, <3>1, <3>2, <3>3
    <3> QED  BY <2>1, <3>2, <3>3, <3>4 DEF Writer
  <2>2. CASE iq'[u][k] = x
    <3>1. PICK p : p = x.regs[j]
      OBVIOUS
    <3>2. PICK n : n = nextP
      OBVIOUS
    <3>3. Writer(p, n)'
      BY <1>8, <2>2, <1>2, <1>5, <3>1, <3>2, BusyParts, WakeupParts
    <3> QED  BY <1>2, <2>2, <3>1, <3>2, <3>3 DEF Writer
  <2> QED  BY <1>6, <2>1, <2>2
<1>9. WaitInv'
  BY <1>8 DEF WaitInv
<1> QED  BY <1>4, <1>9, WakeupParts, PTL

LEMMA WakeupConnect ==
  ASSUME TypeOK, NoLostWakeup, NEW t \in IqTag, NEW k, NEW r, ConnectStep(t, k, r)
  PROVE  NoLostWakeup'
<1>1. /\ k \in 1 .. Len(iq[t]) /\ iq' = [iq EXCEPT ![t] = iqDeq(iq[t], k)]
      /\ UNCHANGED <<data, resultValid, firstP, nextP, empty, full, scoreboard>>
  BY DEF ConnectStep, robVars, renamingVars
<1>2. Waiting' = Waiting /\ \A i : robPos(i)' = robPos(i)
  BY <1>1 DEF Waiting, Live, robPos
<1>3. \A p, n : Writer(p, n)' <=> Writer(p, n)
  BY <1>1, <1>2 DEF Writer
<1>4. ASSUME NEW u \in IqTag, NEW j \in 1 .. Len(iq'[u])
      PROVE  \E m \in 1 .. Len(iq[u]) : iq'[u][j] = iq[u][m]
  <2>1. CASE u = t
    <3>1. iq[t] \in Seq(IqEntry) /\ k \in 1 .. Len(iq[t]) /\ iq'[t] = iqDeq(iq[t], k)
      BY <1>1 DEF TypeOK, ExecTypeOK
    <3>2. Without(iq[t], k, iq'[t])
      BY <3>1, DeqFacts
    <3> QED  BY <2>1, <3>2, Zenon DEF Without
  <2>2. CASE u # t
    <3>1. iq'[u] = iq[u]
      BY <1>1, <2>2 DEF TypeOK, ExecTypeOK
    <3> QED  BY <3>1
  <2> QED  BY <2>1, <2>2
<1>5. ASSUME NEW u \in IqTag, NEW j \in 1 .. Len(iq'[u]), NEW h \in 1 .. 2, ~iq'[u][j].rdy[h]
      PROVE  Writer(iq'[u][j].regs[h], iq'[u][j].index)
  <2>1. PICK m \in 1 .. Len(iq[u]) : iq'[u][j] = iq[u][m]
    BY <1>4
  <2> QED  BY <1>5, <2>1, WakeupParts DEF WaitInv
<1>6. WaitInv'
  BY <1>1, <1>2, <1>5 DEF WaitInv, Writer
<1>7. BusyInv'
  BY <1>1, <1>2, WakeupParts DEF BusyInv
<1> QED  BY <1>6, <1>7, WakeupParts, PTL

(* A result wakes exactly those that wait for its register.                *)
LEMMA WakeupWrite ==
  ASSUME TypeOK, HolderInv, NoLostWakeup, NEW i \in Waiting, NEW p, p = data[i].pdst,
         NEW r, writeBack(i, r), wakeupFn(p, r)
  PROVE  NoLostWakeup'
<1>1. data' = data /\ Waiting' = Waiting \ {i} /\ \A j : robPos(j)' = robPos(j)
  BY SlotWriteBack
<1>2. scoreboard' = scoreboard \ {p}
  BY DEF wakeupFn, wakeup
<1>3. \A j \in Waiting : data[j].pdst = p /\ p # 0 => j = i
  BY DEF HolderInv, OneHolder, Waiting
<1>4. BusyInv'
  <2>1. \A q : q \in scoreboard <=> q # 0 /\ \E j \in Waiting : data[j].pdst = q
    BY BusyParts, WakeupParts
  <2>2. \A q : q \in scoreboard' <=> q # 0 /\ \E j \in Waiting' : data'[j].pdst = q
    BY <1>1, <1>2, <1>3, <2>1
  <2> QED  BY <2>2 DEF BusyInv
<1>5. \A q, n : q # p /\ Writer(q, n) => Writer(q, n)'
  BY <1>1 DEF Writer
<1>6. \A t \in IqTag :
        /\ Len(iq'[t]) = Len(iq[t])
        /\ \A k \in 1 .. Len(iq[t]) :
             /\ iq'[t][k].index = iq[t][k].index /\ iq'[t][k].regs = iq[t][k].regs
             /\ \A j \in 1 .. 2 : iq'[t][k].rdy[j] <=> iq[t][k].rdy[j] \/ iq[t][k].regs[j] = p
  BY WakeupFacts DEF TypeOK, ExecTypeOK
<1>7. ASSUME NEW t \in IqTag, NEW k \in 1 .. Len(iq'[t]), NEW j \in 1 .. 2, ~iq'[t][k].rdy[j]
      PROVE  Writer(iq[t][k].regs[j], iq[t][k].index)'
  <2>1. /\ k \in 1 .. Len(iq[t]) /\ ~iq[t][k].rdy[j] /\ iq[t][k].regs[j] # p
        /\ iq'[t][k].regs[j] = iq[t][k].regs[j] /\ iq'[t][k].index = iq[t][k].index
    BY <1>6, <1>7
  <2>2. PICK q : q = iq[t][k].regs[j]
    OBVIOUS
  <2>3. PICK n : n = iq[t][k].index
    OBVIOUS
  <2>4. Writer(q, n)
    BY <2>1, <2>2, <2>3, WakeupParts DEF WaitInv
  <2>5. Writer(q, n)'
    BY <1>5, <2>1, <2>2, <2>4
  <2> QED  BY <2>1, <2>2, <2>3, <2>5 DEF Writer
<1>8. WaitInv'
  BY <1>7 DEF WaitInv
<1> QED  BY <1>4, <1>8, WakeupParts, PTL

LEMMA WakeupDeq ==
  ASSUME TypeOK, ProducerInv, NoLostWakeup, deq, first_done, UNCHANGED <<iq, scoreboard>>
  PROVE  NoLostWakeup'
<1>1. resultValid \subseteq Live
  BY DEF ProducerInv
<1>2. /\ data' = data /\ Waiting' = Waiting
      /\ \A i \in Live' : robPos(i)' = robPos(i) - 1
      /\ Waiting \subseteq Live' /\ Waiting \subseteq RobIndex
  BY <1>1, SlotDeq DEF Waiting, Live
<1>3. \A i \in RobIndex : robPos(i) \in Int
  BY RobSizeAssumption DEF TypeOK, RobTypeOK, RingOK, robPos, RobIndex
<1>4. ASSUME NEW p, NEW n \in Waiting, Writer(p, n)
      PROVE  Writer(p, n)'
  <2>1. PICK i \in Waiting : data[i].pdst = p /\ robPos(i) < robPos(n)
    BY <1>4 DEF Writer
  <2>2. robPos(i)' < robPos(n)'
    BY <1>2, <1>3, <2>1
  <2> QED  BY <1>2, <2>1, <2>2 DEF Writer
<1>5. ASSUME NEW t \in IqTag, NEW k \in 1 .. Len(iq'[t]), NEW j \in 1 .. 2, ~iq'[t][k].rdy[j]
      PROVE  Writer(iq[t][k].regs[j], iq[t][k].index)'
  <2>1. Writer(iq[t][k].regs[j], iq[t][k].index) /\ iq[t][k].index \in Waiting
    BY <1>5, WakeupParts DEF WaitInv, ProducerInv, IqInv
  <2>2. PICK q : q = iq[t][k].regs[j]
    OBVIOUS
  <2>3. PICK n : n = iq[t][k].index
    OBVIOUS
  <2>4. Writer(q, n)'
    BY <1>4, <2>1, <2>2, <2>3
  <2> QED  BY <2>2, <2>3, <2>4 DEF Writer
<1>6. WaitInv'
  BY <1>5 DEF WaitInv
<1>7. BusyInv'
  BY <1>2, WakeupParts DEF BusyInv
<1> QED  BY <1>6, <1>7, WakeupParts, PTL

-----------------------------------------------------------------------------
(* All of it, step by step.                                                *)

LEMMA ResultsInit == Init => ResultsInv
<1> SUFFICES ASSUME Init PROVE ResultsInv
  OBVIOUS
<1>1. Live = {} /\ resultValid = {} /\ Waiting = {}
  BY DEF Init, mkROB, Live, Waiting
<1>2. /\ \A t \in IqTag : iq[t] = <<>> /\ fu[t] = {}
      /\ direct = <<>> /\ decodeFail = <<>> /\ scoreboard = {}
  BY DEF Init, mkRenamingTable
<1>3. IqInv /\ FuInv /\ FailInv /\ OnceInv /\ Produced
  BY <1>1, <1>2 DEF IqInv, FuInv, FailInv, OnceInv, Produced
<1>4. DirectInv
  <2>1. PICK f : f = [k \in 1 .. 0 |-> 0]
    OBVIOUS
  <2>2. DirectOrder(f)
    BY <1>1, <1>2, <2>1 DEF DirectOrder
  <2> QED  BY <2>2 DEF DirectInv
<1>5. NoLostWakeup
  BY <1>1, <1>2 DEF NoLostWakeup
<1> QED  BY <1>1, <1>3, <1>4, <1>5 DEF ResultsInv, ProducerInv

LEMMA ResultsFrame ==
  ASSUME ResultsInv,
         UNCHANGED <<prog, data, resultValid, firstP, nextP, empty, full, iq, fu, direct,
                     decodeFail, scoreboard>>
  PROVE  ResultsInv'
<1>1. Waiting' = Waiting /\ \A i : robPos(i)' = robPos(i)
  BY DEF Waiting, Live, robPos
<1>2. DirectInv'
  BY <1>1, DirectFrame DEF ResultsInv, DirectInv
<1> QED  BY <1>1, <1>2, ProducerFrame, WakeupFrame DEF ResultsInv

LEMMA ResultsWriteBack ==
  ASSUME TypeOK, HolderInv, ResultsInv, NEW t \in IqTag, NEW o, WriteBackStep(t, o)
  PROVE  ResultsInv'
<1>1. /\ o \in fu[t] /\ writeBack(o.index, o.result) /\ wakeupFn(o.pdst, o.result)
      /\ UNCHANGED <<prog, direct>>
  BY DEF WriteBackStep
<1>2. /\ o.index \in Waiting /\ tagOf(o.index) = t /\ t # "DIRECT"
      /\ o.pdst = data[o.index].pdst
  BY <1>1 DEF ResultsInv, ProducerInv, FuInv, IqTag
<1>3. ~isDirect(o.index)
  BY <1>2 DEF isDirect, tagOf
<1>4. ProducerInv'
  BY ProducerWriteBack DEF ResultsInv
<1>5. DirectInv'
  BY <1>1, <1>3, DirectWrite DEF ResultsInv, DirectInv
<1>6. NoLostWakeup'
  BY <1>1, <1>2, WakeupWrite DEF ResultsInv
<1> QED  BY <1>4, <1>5, <1>6 DEF ResultsInv

LEMMA ResultsWriteBackFail ==
  ASSUME TypeOK, HolderInv, ResultsInv, write_back_fail
  PROVE  ResultsInv'
<1> DEFINE i == Head(decodeFail)
<1>1. /\ decodeFail # <<>> /\ writeBack(i, Error) /\ wakeupFn(0, Error)
      /\ UNCHANGED <<prog, direct>>
  BY DEF write_back_fail
<1>2. i = decodeFail[1] /\ 1 \in 1 .. Len(decodeFail)
  BY <1>1, TailFacts DEF TypeOK, ExecTypeOK
<1>3. i \in Waiting /\ decodeErr(data[i])
  BY <1>2 DEF ResultsInv, ProducerInv, FailInv
<1> HIDE DEF i
<1>4. data[i].pdst = 0 /\ ~isDirect(i)
  BY <1>3, ErrIsDirect DEF HolderInv, PdstInv, Waiting, isDirect
<1>5. ProducerInv'
  BY ProducerWriteBackFail DEF ResultsInv
<1>6. DirectInv'
  BY <1>1, <1>4, DirectWrite DEF ResultsInv, DirectInv
<1>7. NoLostWakeup'
  BY <1>1, <1>3, <1>4, WakeupWrite DEF ResultsInv
<1> QED  BY <1>5, <1>6, <1>7 DEF ResultsInv

LEMMA ResultsDirect ==
  ASSUME TypeOK, HolderInv, ResultsInv, execute_direct
  PROVE  ResultsInv'
<1>1. PICK r : writeBack(firstP, r) /\ wakeupFn(first.pdst, r)
  BY Zenon DEF execute_direct
<1>2. firstP \in Waiting /\ first.pdst = data[firstP].pdst
  BY DirectHead DEF ResultsInv, first
<1>3. NoLostWakeup'
  BY <1>1, <1>2, WakeupWrite DEF ResultsInv
<1>4. DirectInv'
  BY DirectExecute DEF ResultsInv, DirectInv
<1> QED  BY <1>3, <1>4, ProducerDirect DEF ResultsInv

LEMMA ResultsDispatchException ==
  ASSUME TypeOK, ResultsInv, dispatch_exception
  PROVE  ResultsInv'
<1>1. PICK e : enq(e) /\ decodeErr(e)
  <2>1. PICK e : enq(e) /\ e.pc = renamed[1].dec.pc
    BY DEF dispatch_exception
  <2>2. decodeErr(renamed[1].dec)
    BY DEF dispatch_exception
  <2> QED  BY <2>1, <2>2 DEF decodeErr, instrOf
<1>2. UNCHANGED <<prog, direct>>
  BY DEF dispatch_exception
<1>3. DirectInv'
  BY <1>1, <1>2, DirectEnqOther DEF ResultsInv, DirectInv
<1> QED  BY <1>3, ProducerDispatchException, WakeupDispatchException DEF ResultsInv

LEMMA ResultsDispatch ==
  ASSUME TypeOK, ProducerInv, DirectInv, NEW t \in ExecTag, dispatch(t)
  PROVE  DirectInv'
<1>1. PICK e : /\ enq(e) /\ ~decodeErr(e) /\ tagOfInstr(instrOf(e)) = t /\ prog' = prog
               /\ renamed[1].regs \in [1 .. 2 -> PhysReg]
               /\ t = "DIRECT" => direct' = Append(direct, renamed[1].regs)
               /\ t # "DIRECT" => direct' = direct
  BY DispatchStep, Zenon
<1>2. PICK f : DirectOrder(f)
  BY DEF DirectInv
<1>3. CASE t = "DIRECT"
  BY <1>1, <1>2, <1>3, DirectEnq DEF DirectInv
<1>4. CASE t # "DIRECT"
  BY <1>1, <1>2, <1>4, DirectEnqOther DEF DirectInv
<1> QED  BY <1>3, <1>4

LEMMA ResultsRetirement ==
  ASSUME TypeOK, ResultsInv, Retirement
  PROVE  ResultsInv'
<1>1. /\ deq /\ first_done /\ UNCHANGED <<prog, iq, fu, direct, decodeFail, scoreboard>>
  BY RetirementStep DEF deqRob, commit, retireVars
<1>2. DirectInv'
  BY <1>1, DirectDeq DEF ResultsInv, DirectInv
<1> QED  BY <1>1, <1>2, ProducerDeq, WakeupDeq DEF ResultsInv

LEMMA ResultsNext ==
  ASSUME TypeOK, HolderInv, ResultsInv, [Next]_vars
  PROVE  ResultsInv'
<1> USE DEF robVars, renamingVars
<1>1. CASE \E pred \in Pc : fetch(pred)
  BY <1>1, ResultsFrame DEF fetch
<1>2. CASE rename_rule
  BY <1>2, ResultsFrame DEF rename_rule
<1>3. CASE dispatch_stale
  BY <1>3, ResultsFrame DEF dispatch_stale
<1>4. CASE dispatch_exception
  BY <1>4, ResultsDispatchException
<1>5. CASE \E t \in ExecTag : dispatch(t)
  BY <1>5, ProducerDispatch, ResultsDispatch, WakeupDispatch DEF ResultsInv
<1>6. CASE \E t \in IqTag : connect(t)
  <2>1. PICK t \in IqTag : connect(t)
    BY <1>6
  <2>2. PICK k, r : ConnectStep(t, k, r)
    BY <2>1, ConnectSteps, Zenon
  <2>3. /\ UNCHANGED <<prog, direct, data, resultValid, firstP, nextP, empty, full>>
    BY <2>2 DEF ConnectStep
  <2>4. Waiting' = Waiting /\ \A i : robPos(i)' = robPos(i)
    BY <2>3 DEF Waiting, Live, robPos
  <2>5. DirectInv'
    BY <2>3, <2>4, DirectFrame DEF ResultsInv, DirectInv
  <2> QED  BY <2>1, <2>2, <2>5, ProducerConnect, WakeupConnect DEF ResultsInv
<1>7. CASE \E t \in IqTag : write_back(t)
  <2>1. \E t \in IqTag : \E o : WriteBackStep(t, o)
    BY <1>7, Zenon DEF write_back, WriteBackStep
  <2> QED  BY <2>1, ResultsWriteBack
<1>8. CASE write_back_fail
  BY <1>8, ResultsWriteBackFail
<1>9. CASE execute_direct
  BY <1>9, ResultsDirect
<1>10. CASE Retirement
  BY <1>10, ResultsRetirement
<1>11. CASE UNCHANGED vars
  BY <1>11, ResultsFrame DEF vars, coreVars
<1> QED
  BY <1>1, <1>2, <1>3, <1>4, <1>5, <1>6, <1>7, <1>8, <1>9, <1>10, <1>11, Zenon DEF Next

(* Every waiting slot is in one place, every busy register has a writer.   *)
THEOREM ResultsCorrect == Spec => []ResultsInv
<1>1. Init => ResultsInv
  BY ResultsInit
<1>2. TypeOK /\ HolderInv /\ ResultsInv /\ [Next]_vars => ResultsInv'
  BY ResultsNext
<1> QED  BY <1>1, <1>2, TypeCorrect, HolderCorrect, PTL DEF Spec

-----------------------------------------------------------------------------
(* From the places of the slots to the counts of ResultOnce.               *)

(* y is the place of slot i.                                               *)
PlaceOf(i, y) ==
  \/ \E t \in IqTag : \E k \in 1 .. Len(iq[t]) : iq[t][k].index = i /\ y = <<t, k>>
  \/ \E t \in IqTag : \E o \in fu[t] : o.index = i /\ y = <<t, o>>
  \/ \E k \in 1 .. Len(decodeFail) : decodeFail[k] = i /\ y = <<"fail", k>>

LEMMA ProducersArePlaces == \A i, y : y \in producers(i) <=> PlaceOf(i, y)
<1> TAKE i, y
<1> DEFINE A == UNION {{<<t, k>> : k \in {k \in 1 .. Len(iq[t]) : iq[t][k].index = i}} : t \in IqTag}
           B == UNION {{<<t, o>> : o \in {o \in fu[t] : o.index = i}} : t \in IqTag}
           C == {<<"fail", k>> : k \in {k \in 1 .. Len(decodeFail) : decodeFail[k] = i}}
<1>1. producers(i) = A \cup B \cup C
  BY Zenon DEF producers
<1>2. y \in A <=> \E t \in IqTag : \E k \in 1 .. Len(iq[t]) : iq[t][k].index = i /\ y = <<t, k>>
  OBVIOUS
<1>3. y \in B <=> \E t \in IqTag : \E o \in fu[t] : o.index = i /\ y = <<t, o>>
  OBVIOUS
<1>4. y \in C <=> \E k \in 1 .. Len(decodeFail) : decodeFail[k] = i /\ y = <<"fail", k>>
  OBVIOUS
<1> HIDE DEF A, B, C
<1>5. y \in producers(i) <=> y \in A \/ y \in B \/ y \in C
  BY <1>1
<1> QED  BY <1>2, <1>3, <1>4, <1>5, Zenon DEF PlaceOf

LEMMA PlaceUnique ==
  ASSUME ProducerInv, NEW i, NEW y, NEW z, PlaceOf(i, y), PlaceOf(i, z)
  PROVE  y = z
<1>1. ASSUME NEW t \in IqTag, NEW k \in 1 .. Len(iq[t]), iq[t][k].index = i
      PROVE  tagOf(i) = t /\ i \in Waiting
  BY <1>1 DEF ProducerInv, IqInv
<1>2. ASSUME NEW t \in IqTag, NEW o \in fu[t], o.index = i
      PROVE  tagOf(i) = t /\ i \in Waiting
  BY <1>2 DEF ProducerInv, FuInv
<1>3. ASSUME NEW k \in 1 .. Len(decodeFail), decodeFail[k] = i
      PROVE  tagOf(i) \notin IqTag
  BY <1>3, ErrIsDirect DEF ProducerInv, FailInv, tagOf, IqTag
<1>4. CASE \E t \in IqTag : \E k \in 1 .. Len(iq[t]) : iq[t][k].index = i /\ y = <<t, k>>
  <2>0. PICK t \in IqTag : \E k \in 1 .. Len(iq[t]) : iq[t][k].index = i /\ y = <<t, k>>
    BY <1>4
  <2>1. PICK k \in 1 .. Len(iq[t]) : iq[t][k].index = i /\ y = <<t, k>>
    BY <2>0
  <2>2. CASE \E u \in IqTag : \E j \in 1 .. Len(iq[u]) : iq[u][j].index = i /\ z = <<u, j>>
    BY <1>1, <2>1, <2>2 DEF ProducerInv, OnceInv
  <2>3. CASE \E u \in IqTag : \E o \in fu[u] : o.index = i /\ z = <<u, o>>
    BY <1>1, <1>2, <2>1, <2>3 DEF ProducerInv, OnceInv
  <2>4. CASE \E j \in 1 .. Len(decodeFail) : decodeFail[j] = i /\ z = <<"fail", j>>
    BY <1>1, <1>3, <2>1, <2>4
  <2> QED  BY <2>2, <2>3, <2>4 DEF PlaceOf
<1>5. CASE \E t \in IqTag : \E o \in fu[t] : o.index = i /\ y = <<t, o>>
  <2>0. PICK t \in IqTag : \E o \in fu[t] : o.index = i /\ y = <<t, o>>
    BY <1>5
  <2>1. PICK o \in fu[t] : o.index = i /\ y = <<t, o>>
    BY <2>0
  <2>2. CASE \E u \in IqTag : \E j \in 1 .. Len(iq[u]) : iq[u][j].index = i /\ z = <<u, j>>
    BY <1>1, <1>2, <2>1, <2>2 DEF ProducerInv, OnceInv
  <2>3. CASE \E u \in IqTag : \E p \in fu[u] : p.index = i /\ z = <<u, p>>
    BY <1>2, <2>1, <2>3 DEF ProducerInv, OnceInv
  <2>4. CASE \E j \in 1 .. Len(decodeFail) : decodeFail[j] = i /\ z = <<"fail", j>>
    BY <1>2, <1>3, <2>1, <2>4
  <2> QED  BY <2>2, <2>3, <2>4 DEF PlaceOf
<1>6. CASE \E k \in 1 .. Len(decodeFail) : decodeFail[k] = i /\ y = <<"fail", k>>
  <2>1. PICK k \in 1 .. Len(decodeFail) : decodeFail[k] = i /\ y = <<"fail", k>>
    BY <1>6
  <2>2. CASE \E u \in IqTag : \E j \in 1 .. Len(iq[u]) : iq[u][j].index = i /\ z = <<u, j>>
    BY <1>1, <1>3, <2>1, <2>2
  <2>3. CASE \E u \in IqTag : \E p \in fu[u] : p.index = i /\ z = <<u, p>>
    BY <1>2, <1>3, <2>1, <2>3
  <2>4. CASE \E j \in 1 .. Len(decodeFail) : decodeFail[j] = i /\ z = <<"fail", j>>
    BY <2>1, <2>4 DEF ProducerInv, OnceInv
  <2> QED  BY <2>2, <2>3, <2>4 DEF PlaceOf
<1> QED  BY <1>4, <1>5, <1>6 DEF PlaceOf

LEMMA PlaceExists ==
  ASSUME ProducerInv, NEW i
  PROVE  (\E y : PlaceOf(i, y)) <=> i \in Waiting /\ ~isDirect(i)
<1>1. ASSUME NEW y, PlaceOf(i, y) PROVE i \in Waiting /\ ~isDirect(i)
  BY <1>1 DEF PlaceOf, ProducerInv, IqInv, FuInv, FailInv, isDirect, tagOf, IqTag
<1>2. ASSUME i \in Waiting, ~isDirect(i) PROVE \E y : PlaceOf(i, y)
  <2>1. inIq(i) \/ inFu(i) \/ inFail(i)
    BY <1>2 DEF ProducerInv, Produced
  <2> QED  BY <2>1, Zenon DEF inIq, inFu, inFail, PlaceOf
<1> QED  BY <1>1, <1>2

LEMMA ResultsOnce == TypeOK /\ ResultsInv => ResultOnce
<1> SUFFICES ASSUME TypeOK, ResultsInv PROVE ResultOnce
  OBVIOUS
<1>1. ProducerInv /\ resultValid \subseteq Live
  BY DEF ResultsInv, ProducerInv
<1>2. ASSUME NEW i \in RobIndex
      PROVE  Cardinality(producers(i)) = IF i \in Live \ resultValid /\ ~isDirect(i) THEN 1 ELSE 0
  <2>1. CASE i \in Waiting /\ ~isDirect(i)
    <3>1. PICK y : y \in producers(i)
      BY <1>1, <2>1, PlaceExists, ProducersArePlaces
    <3>2. \A z \in producers(i) : z = y
      BY <1>1, <3>1, PlaceUnique, ProducersArePlaces
    <3>3. producers(i) = {y}
      BY <3>1, <3>2
    <3>4. Cardinality(producers(i)) = 1
      BY <3>3, FS_Singleton
    <3> QED  BY <2>1, <3>4 DEF Waiting
  <2>2. CASE ~(i \in Waiting /\ ~isDirect(i))
    <3>1. producers(i) = {}
      BY <1>1, <2>2, PlaceExists, ProducersArePlaces
    <3>2. Cardinality(producers(i)) = 0
      BY <3>1, FS_EmptySet
    <3> QED  BY <2>2, <3>2 DEF Waiting
  <2> QED  BY <2>1, <2>2
<1>3. Len(direct) = Cardinality({i \in Live \ resultValid : isDirect(i)})
  <2> DEFINE S == {i \in Live \ resultValid : isDirect(i)}
  <2>1. PICK f : DirectOrder(f)
    BY DEF ResultsInv, DirectInv
  <2>2. Len(direct) \in Nat
    BY DEF TypeOK, ExecTypeOK
  <2>3. \A k \in 1 .. Len(direct) : f[k] \in S /\ f[k] \in RobIndex
    BY <2>1 DEF DirectOrder, Waiting
  <2>4. f \in [1 .. Len(direct) -> S]
    BY <2>1, <2>3 DEF DirectOrder
  <2>5. \A x \in S : \E k \in 1 .. Len(direct) : f[k] = x
    BY <2>1 DEF DirectOrder, Waiting
  <2>6. \A j, k \in 1 .. Len(direct) : f[j] = f[k] => j = k
    <3> SUFFICES ASSUME NEW j \in 1 .. Len(direct), NEW k \in 1 .. Len(direct),
                        f[j] = f[k], j # k
                 PROVE  FALSE
      OBVIOUS
    <3>1. robPos(f[j]) \in Int /\ robPos(f[k]) \in Int
      BY <2>3, RobSizeAssumption DEF TypeOK, RobTypeOK, RingOK, robPos, RobIndex
    <3>2. j < k \/ k < j
      BY <2>2
    <3>3. robPos(f[j]) < robPos(f[k]) \/ robPos(f[k]) < robPos(f[j])
      BY <2>1, <3>2 DEF DirectOrder
    <3> QED  BY <3>1, <3>3
  <2> HIDE DEF S
  <2>7. Cardinality(S) = Len(direct)
    BY <2>2, <2>4, <2>5, <2>6, CountByList
  <2> QED  BY <2>7 DEF S
<1> QED  BY <1>1, <1>2, <1>3 DEF ResultOnce

(* Every slot of the reorder buffer is written back exactly once while it  *)
(* is live, by one operation in one place of the machine, whatever is      *)
(* speculated, killed or flushed: enq may rely on resultValid being clear. *)
THEOREM ResultOnceCorrect == Spec => []ResultOnce
BY ResultsCorrect, TypeCorrect, ResultsOnce, PTL

(* No wakeup is lost: a busy register, and an operand that waits for it,   *)
(* always have their writer in flight, older than the reader.              *)
THEOREM NoLostWakeupCorrect == Spec => []NoLostWakeup
<1>1. ResultsInv => NoLostWakeup
  BY DEF ResultsInv
<1> QED  BY <1>1, ResultsCorrect, PTL
=============================================================================
