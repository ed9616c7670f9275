------------------------------- MODULE OOOCore -------------------------------
(***************************************************************************)
(* The out-of-order core (mkCoreOOO of CoreOOO.bsv), without the insides   *)
(* of the fetch and load-store units.  One action per rule; BSV rules are  *)
(* atomic and a clock cycle is equivalent to firing the rules it schedules *)
(* one after the other.                                                    *)
(*                                                                         *)
(* Fetch: an unending supply of instructions along predicted pcs, the      *)
(* prediction being any pc; redirect moves it and changes its epoch.       *)
(* Load-store unit: answers any of dmemResults, in any order, and when a   *)
(* store commits may report one younger load as mis-speculated.            *)
(*                                                                         *)
(* Two couplings come from the schedule.  commit_dmem and the rule that    *)
(* dequeues the same entry fire in the same cycle (dmemCommit < deq, both  *)
(* ready from the same results), commit_instruction reading killed as it   *)
(* was before: they are one step here.  And a decode failure is written    *)
(* back, at the latest, in the cycle its entry becomes the head: its own   *)
(* queue is served round-robin within the latency any younger direct       *)
(* instruction needs to reach direct_issue_queue, so execute_direct never  *)
(* sees a head that waits in decodeFail.                                   *)
(***************************************************************************)
EXTENDS ExecUnits, ROB, RenamingTable, IssueQueue, FiniteSets

CONSTANTS IqSize,      \* entries of an issue queue
          FuSize,      \* operations inside a functional unit
          FetchSize,   \* decoded instructions waiting to be renamed
          DirectSize,  \* entries of direct_issue_queue
          NumEpoch,    \* epochs, counted modulo this
          Programs     \* programs the fetch unit may run

ASSUME CoreAssumption ==
  /\ IqSize \in Nat \ {0} /\ FuSize \in Nat \ {0}
  /\ FetchSize \in Nat \ {0} /\ DirectSize \in Nat \ {0}
  /\ NumEpoch \in Nat /\ NumEpoch > 1
  /\ Programs \subseteq [Pc -> Instr]

VARIABLES prog,        \* the program in memory
          fetchPc,     \* current_pc of the fetch unit
          fetched,     \* its outputs, a queue of [pc, pred, epoch]
          renamed,     \* decodedQ and renamedQ, one entry at most
          epoch,
          killed,      \* loads the load-store unit disowned
          waitDmemCommit,
          registers,   \* physical register file
          iq,          \* alu_iq, control_iq and lsu_iq
          fu,          \* what the units will hand to write_back
          direct,      \* direct_issue_queue
          decodeFail,  \* indices of entries that failed to decode
          csr,
          archPc       \* history: the pc after the last committed instruction

frontVars == <<fetchPc, fetched>>
coreVars  == <<prog, frontVars, renamed, epoch, killed, waitDmemCommit, registers,
               iq, fu, direct, decodeFail, csr, archPc>>
vars      == <<coreVars, robVars, renamingVars>>

Epoch    == 0 .. NumEpoch - 1
IqTag    == {"EXEC", "CONTROL", "DMEM"}
RobEntry == [pc : Pc, pred : Pc, epoch : Epoch, pdst : PhysReg]
Fetched  == [pc : Pc, pred : Pc, epoch : Epoch]
Renamed  == [dec : Fetched, regs : [1 .. 2 -> PhysReg]]
IqEntry  == [index : RobIndex, pc : Pc, pdst : PhysReg,
             regs : [1 .. 2 -> PhysReg], rdy : [1 .. 2 -> BOOLEAN]]
ExecOutput == [index : RobIndex, pdst : PhysReg, result : ExecResult]

instrOf(e) == prog[e.pc]
decodeErr(e) == instrOf(e).op = "illegal"
(* Faulty variant: the core and the fetch unit both advance the epoch.     *)
nextEpoch_twice == (epoch + 2) % NumEpoch

nextEpoch == (epoch + 1) % NumEpoch

Init ==
  /\ prog \in Programs
  /\ fetchPc = 0 /\ fetched = <<>> /\ renamed = <<>>
  /\ epoch = 0 /\ killed = {} /\ waitDmemCommit = {}
  /\ registers = [p \in PhysReg |-> 0]
  /\ iq = [t \in IqTag |-> <<>>] /\ fu = [t \in IqTag |-> {}]
  /\ direct = <<>> /\ decodeFail = <<>>
  /\ csr = mkCsrFile
  /\ archPc = 0
  /\ mkROB([pc |-> 0, pred |-> 0, epoch |-> 0, pdst |-> 0], Error)
  /\ mkRenamingTable

-----------------------------------------------------------------------------
(* The front end.                                                          *)

(* The fetch unit decodes the instruction at its pc and follows some       *)
(* prediction.                                                             *)
fetch(pred) ==
  /\ Len(fetched) < FetchSize
  /\ fetched' = Append(fetched, [pc |-> fetchPc, pred |-> pred, epoch |-> epoch])
  /\ fetchPc' = pred
  /\ UNCHANGED <<prog, renamed, epoch, killed, waitDmemCommit, registers, iq, fu,
                 direct, decodeFail, csr, archPc, robVars, renamingVars>>

rename_rule ==
  LET d == Head(fetched) IN
  /\ fetched # <<>> /\ renamed = <<>>
  /\ fetched' = Tail(fetched)
  /\ renamed' = <<[dec  |-> d,
                   regs |-> [j \in 1 .. 2 |->
                       rename(IF j = 1 THEN register1(instrOf(d)) ELSE register2(instrOf(d)))]]>>
  /\ UNCHANGED <<prog, fetchPc, epoch, killed, waitDmemCommit, registers, iq, fu,
                 direct, decodeFail, csr, archPc, robVars, renamingVars>>

(* dispatch of an instruction of an older epoch: dropped.                  *)
dispatch_stale ==
  /\ renamed # <<>> /\ renamed[1].dec.epoch # epoch
  /\ renamed' = <<>>
  /\ UNCHANGED <<prog, frontVars, epoch, killed, waitDmemCommit, registers, iq, fu,
                 direct, decodeFail, csr, archPc, robVars, renamingVars>>

(* Faulty variant: the failure is not queued for write_back.               *)
dispatch_exception_lost ==
  LET d == renamed[1].dec IN
  /\ renamed # <<>> /\ d.epoch = epoch /\ decodeErr(d)
  /\ enq([pc |-> d.pc, pred |-> d.pred, epoch |-> d.epoch, pdst |-> 0])
  /\ renamed' = <<>>
  /\ UNCHANGED <<prog, frontVars, epoch, killed, waitDmemCommit, registers, iq, fu,
                 direct, decodeFail, csr, archPc, renamingVars>>

(* dispatch of an instruction that failed to decode: it takes a slot of    *)
(* the reorder buffer, no register and no issue queue.                     *)
dispatch_exception ==
  LET d == renamed[1].dec IN
  /\ renamed # <<>> /\ d.epoch = epoch /\ decodeErr(d)
  /\ Len(decodeFail) < 2
  /\ enq([pc |-> d.pc, pred |-> d.pred, epoch |-> d.epoch, pdst |-> 0])
  /\ decodeFail' = Append(decodeFail, nextP)
  /\ renamed' = <<>>
  /\ UNCHANGED <<prog, frontVars, epoch, killed, waitDmemCommit, registers, iq, fu,
                 direct, csr, archPc, renamingVars>>

(* dispatch: fn_dispatch allocates the destination, enters the reorder     *)
(* buffer and hands the operation to the queue of its tag.                 *)
dispatch(t) ==
  LET r == renamed[1]
      d == r.dec
      i == instrOf(d)
      pdst == allocated(destination(i))
  IN
  /\ renamed # <<>> /\ d.epoch = epoch /\ ~decodeErr(d)
  /\ tagOfInstr(i) = t
  /\ allocate(destination(i))
  /\ enq([pc |-> d.pc, pred |-> d.pred, epoch |-> d.epoch, pdst |-> pdst])
  /\ renamed' = <<>>
  /\ IF t = "DIRECT"
       THEN /\ Len(direct) < DirectSize
            /\ direct' = Append(direct, r.regs)
            /\ UNCHANGED iq
       ELSE /\ Len(iq[t]) < IqSize
            /\ iq' = [iq EXCEPT ![t] = iqEnq(iq[t],
                 [index |-> nextP, pc |-> d.pc, pdst |-> pdst, regs |-> r.regs,
                  rdy |-> [j \in 1 .. 2 |-> ready(r.regs[j])]])]
            /\ UNCHANGED direct
  /\ waitDmemCommit' = IF t = "DMEM" THEN waitDmemCommit \cup {nextP} ELSE waitDmemCommit
  /\ UNCHANGED <<prog, frontVars, epoch, killed, registers, fu, decodeFail, csr, archPc>>

-----------------------------------------------------------------------------
(* Execution.                                                              *)

(* connectEXEC, connectCONTROL, connectSTORE and connectLOAD: the oldest   *)
(* ready operation reads its registers and enters its unit.                *)
connect(t) ==
  \E k \in 1 .. Len(iq[t]) :
    LET e == iq[t][k] IN
    /\ iqFirst(iq[t], k)
    /\ Cardinality(fu[t]) < FuSize
    /\ \E r \in unitResults(prog[e.pc], e.pc, registers[e.regs[1]], registers[e.regs[2]]) :
         fu' = [fu EXCEPT ![t] = @ \cup {[index |-> e.index, pdst |-> e.pdst, result |-> r]}]
    /\ iq' = [iq EXCEPT ![t] = iqDeq(iq[t], k)]
    /\ UNCHANGED <<prog, frontVars, renamed, epoch, killed, waitDmemCommit, registers,
                   direct, decodeFail, csr, archPc, robVars, renamingVars>>

(* wakeupFn: the value enters the register file, the scoreboard and every  *)
(* issue queue learn that it is there.                                     *)
wakeupFn(pdst, result) ==
  /\ iq' = [t \in IqTag |-> iqWakeup(iq[t], pdst)]
  /\ registers' = IF pdst # 0 THEN [registers EXCEPT ![pdst] = result.val] ELSE registers
  /\ wakeup(pdst)

(* write_back of an operation some unit has finished.                      *)
write_back(t) ==
  \E o \in fu[t] :
    /\ fu' = [fu EXCEPT ![t] = @ \ {o}]
    /\ writeBack(o.index, o.result)
    /\ wakeupFn(o.pdst, o.result)
    /\ UNCHANGED <<prog, frontVars, renamed, epoch, killed, waitDmemCommit, direct,
                   decodeFail, csr, archPc>>

(* write_back of a decode failure.                                         *)
write_back_fail ==
  /\ decodeFail # <<>>
  /\ decodeFail' = Tail(decodeFail)
  /\ writeBack(Head(decodeFail), Error)
  /\ wakeupFn(0, Error)
  /\ UNCHANGED <<prog, frontVars, renamed, epoch, killed, waitDmemCommit, fu, direct,
                 csr, archPc>>

(* execute_direct: the head of the reorder buffer executes in place.  Of   *)
(* an older epoch, it gets an undefined result and waits to be discarded.  *)
execute_direct ==
  LET e == first
      v == registers[direct[1][1]]
      d == execDirect(instrOf(e), e.pc, v, csr)
  IN
  /\ ~empty /\ tagOfInstr(instrOf(e)) = "DIRECT" /\ ~first_done
  /\ direct # <<>>
  /\ \A k \in 1 .. Len(decodeFail) : decodeFail[k] # firstP
  /\ direct' = Tail(direct)
  /\ IF e.epoch = epoch
       THEN /\ csr' = d.csr
            /\ writeBack(firstP, d.res)
            /\ wakeupFn(e.pdst, d.res)
       ELSE /\ UNCHANGED csr
            /\ \E r \in {Error} \cup {Ok(val, 0, FALSE) : val \in Value} :
                 /\ writeBack(firstP, r)
                 /\ wakeupFn(e.pdst, r)
  /\ UNCHANGED <<prog, frontVars, renamed, epoch, killed, waitDmemCommit, fu, decodeFail,
                 archPc>>

-----------------------------------------------------------------------------
(* Retirement.                                                             *)

(* Faulty variant: the kill bit of the retired entry stays.                *)
commit_dmem_keepsKill ==
  IF firstP \in waitDmemCommit
    THEN /\ waitDmemCommit' = waitDmemCommit \ {firstP}
         /\ \E kill \in SUBSET {i \in Live \ {firstP} : isLoad(instrOf(data[i]))} :
              /\ \A i, j \in kill : i = j
              /\ kill # {} => /\ instrOf(first).op = "store"
                              /\ first.epoch = epoch /\ first_result.ok
              /\ killed' = killed \cup kill
    ELSE UNCHANGED <<waitDmemCommit, killed>>

(* commit_dmem, in the cycle that dequeues the entry.  A store of the      *)
(* current epoch that commits may disown one younger load.                 *)
commit_dmem ==
  IF firstP \in waitDmemCommit
    THEN /\ waitDmemCommit' = waitDmemCommit \ {firstP}
         /\ \E kill \in SUBSET {i \in Live \ {firstP} : isLoad(instrOf(data[i]))} :
              /\ \A i, j \in kill : i = j
              /\ kill # {} => /\ instrOf(first).op = "store"
                              /\ first.epoch = epoch /\ first_result.ok
              /\ killed' = (killed \cup kill) \ {firstP}
    ELSE UNCHANGED <<waitDmemCommit, killed>>

(* deqRob: retire (keep) or abandon the mapping of the head, and redirect  *)
(* the fetch unit when flush.                                              *)
deqRob(keep, flush, npc) ==
  /\ commit(destination(instrOf(first)), first.pdst, keep, flush)
  /\ deq
  /\ IF flush
       THEN epoch' = nextEpoch /\ fetchPc' = npc
       ELSE UNCHANGED <<epoch, fetchPc>>

retireVars == <<prog, fetched, renamed, registers, iq, fu, direct, decodeFail>>

(* An entry of an older epoch leaves without effect.                       *)
discard_instruction ==
  /\ first_done /\ first.epoch # epoch
  /\ commit_dmem
  /\ deqRob(FALSE, FALSE, 0)
  /\ UNCHANGED <<csr, archPc, retireVars>>

(* commit_instruction on a disowned load: fetch it again.                  *)
commit_killed ==
  /\ first_done /\ first.epoch = epoch /\ firstP \in killed
  /\ commit_dmem
  /\ deqRob(FALSE, TRUE, first.pc)
  /\ UNCHANGED <<csr, archPc, retireVars>>

trap ==
  /\ csr' = exec_exception(csr, first.pc)
  /\ deqRob(FALSE, TRUE, TrapPc)
  /\ archPc' = TrapPc

(* Faulty variant: any instruction may be interrupted.                     *)
commit_interrupt_any ==
  /\ first_done /\ first.epoch = epoch /\ firstP \notin killed
  /\ csr.mie
  /\ commit_dmem
  /\ trap
  /\ UNCHANGED retireVars

(* commit_instruction, interrupted.  Some interrupt is pending.            *)
commit_interrupt ==
  /\ first_done /\ first.epoch = epoch /\ firstP \notin killed
  /\ csr.mie
  /\ tagOfInstr(instrOf(first)) \notin {"DMEM", "DIRECT"}
  /\ commit_dmem
  /\ trap
  /\ UNCHANGED retireVars

(* commit_instruction on an Error: doCommit takes the exception.           *)
commit_exception ==
  /\ first_done /\ first.epoch = epoch /\ firstP \notin killed
  /\ ~first_result.ok
  /\ commit_dmem
  /\ trap
  /\ UNCHANGED retireVars

(* Faulty variant: a misprediction redirects without a flush.              *)
commit_ok_noFlush ==
  LET r == first_result IN
  /\ first_done /\ first.epoch = epoch /\ firstP \notin killed
  /\ r.ok
  /\ commit_dmem
  /\ deqRob(TRUE, r.flush, r.npc)
  /\ archPc' = r.npc
  /\ UNCHANGED <<csr, retireVars>>

(* commit_instruction on an Ok: doCommit keeps the value and compares the  *)
(* pc with the prediction.                                                 *)
commit_ok ==
  LET r == first_result IN
  /\ first_done /\ first.epoch = epoch /\ firstP \notin killed
  /\ r.ok
  /\ commit_dmem
  /\ deqRob(TRUE, r.npc # first.pred \/ r.flush, r.npc)
  /\ archPc' = r.npc
  /\ UNCHANGED <<csr, retireVars>>

Retirement ==
  \/ discard_instruction \/ commit_killed
  \/ commit_interrupt \/ commit_exception \/ commit_ok

Next ==
  \/ \E pred \in Pc : fetch(pred)
  \/ rename_rule
  \/ dispatch_stale \/ dispatch_exception
  \/ \E t \in ExecTag : dispatch(t)
  \/ \E t \in IqTag : connect(t)
  \/ \E t \in IqTag : write_back(t)
  \/ write_back_fail \/ execute_direct
  \/ Retirement

Spec == Init /\ [][Next]_vars

(* A rule that stays ready fires: the compiled schedule lets no rule wait  *)
(* for ever, and write_back serves the units round-robin.                  *)
Fairness ==
  /\ WF_vars(\E pred \in Pc : fetch(pred))
  /\ WF_vars(rename_rule)
  /\ WF_vars(dispatch_stale \/ dispatch_exception \/ \E t \in ExecTag : dispatch(t))
  /\ \A t \in IqTag : WF_vars(connect(t)) /\ WF_vars(write_back(t))
  /\ WF_vars(write_back_fail) /\ WF_vars(execute_direct)
  /\ WF_vars(Retirement)

FairSpec == Spec /\ Fairness

-----------------------------------------------------------------------------
(* Properties.                                                             *)

FrontTypeOK ==
  /\ prog \in [Pc -> Instr] /\ fetchPc \in Pc /\ archPc \in Pc
  /\ fetched \in Seq(Fetched) /\ renamed \in Seq(Renamed) /\ Len(renamed) <= 1
  /\ epoch \in Epoch /\ csr \in Csr

ExecTypeOK ==
  /\ killed \subseteq RobIndex /\ waitDmemCommit \subseteq RobIndex
  /\ registers \in [PhysReg -> Value]
  /\ iq \in [IqTag -> Seq(IqEntry)] /\ fu \in [IqTag -> SUBSET ExecOutput]
  /\ direct \in Seq([1 .. 2 -> PhysReg]) /\ decodeFail \in Seq(RobIndex)

RobTypeOK ==
  /\ data \in [RobIndex -> RobEntry] /\ results \in [RobIndex -> ExecResult]
  /\ resultValid \subseteq RobIndex
  /\ RingOK

RenamingTypeOK ==
  /\ naming \in [ArchReg -> PhysReg] /\ backup \in [ArchReg -> PhysReg]
  /\ speculated \subseteq ArchReg /\ scoreboard \subseteq PhysReg
  /\ freeList \in Seq(PhysReg)

(* Every variable has its type, and the flags of the ring of the reorder   *)
(* buffer agree with its pointers.                                         *)
TypeOK == FrontTypeOK /\ ExecTypeOK /\ RobTypeOK /\ RenamingTypeOK

(* Who holds a physical register: the free list, the committed map or an   *)
(* instruction in flight.                                                  *)
FreeRegs     == {freeList[k] : k \in 1 .. Len(freeList)}
NamedRegs    == {naming[a] : a \in ArchReg}
InFlightRegs == {data[i].pdst : i \in Live} \ {0}

(* No register has two holders: neither two different ones, nor one twice. *)
OneHolder ==
  /\ FreeRegs \cap NamedRegs = {}
  /\ FreeRegs \cap InFlightRegs = {}
  /\ NamedRegs \cap InFlightRegs = {}
  /\ \A j, k \in 1 .. Len(freeList) : freeList[j] = freeList[k] => j = k
  /\ \A a, b \in ArchReg : naming[a] = naming[b] => a = b
  /\ \A i, j \in Live : data[i].pdst = data[j].pdst /\ data[i].pdst # 0 => i = j

(* No register is lost.                                                    *)
NoLeak == PhysReg \subseteq FreeRegs \cup NamedRegs \cup InFlightRegs

(* Program order across the pipeline: the reorder buffer, then the renamed *)
(* instruction, then the fetched ones.                                     *)
stageEpochs ==
  [k \in 1 .. Cardinality(Live) |-> data[(firstP + k - 1) % RobSize].epoch]
    \o [k \in 1 .. Len(renamed) |-> renamed[k].dec.epoch]
    \o [k \in 1 .. Len(fetched) |-> fetched[k].epoch]

(* Instructions of an old epoch are all older than those of the current    *)
(* one, and they are all of the epoch just before it: comparing epochs for *)
(* equality never takes an old instruction for a current one, whatever the *)
(* size of the reorder buffer, from two epochs on.                         *)
EpochWindow ==
  \A k \in 1 .. Len(stageEpochs) :
    \/ \A j \in k .. Len(stageEpochs) : stageEpochs[j] = epoch
    \/ (stageEpochs[k] + 1) % NumEpoch = epoch

(* The operations in the machine that will write back slot i.              *)
producers(i) ==
  (UNION {{<<t, k>> : k \in {k \in 1 .. Len(iq[t]) : iq[t][k].index = i}} : t \in IqTag})
    \cup (UNION {{<<t, o>> : o \in {o \in fu[t] : o.index = i}} : t \in IqTag})
    \cup {<<"fail", k>> : k \in {k \in 1 .. Len(decodeFail) : decodeFail[k] = i}}

isDirect(i) == tagOfInstr(instrOf(data[i])) = "DIRECT" /\ ~decodeErr(data[i])

(* Every slot is written back exactly once while it is live: enq does not  *)
(* clear resultValid, so a second or a late write would complete some      *)
(* later instruction with the result of another.                           *)
ResultOnce ==
  /\ resultValid \subseteq Live
  /\ \A i \in RobIndex :
       Cardinality(producers(i)) =
         IF i \in Live \ resultValid /\ ~isDirect(i) THEN 1 ELSE 0
  /\ Len(direct) = Cardinality({i \in Live \ resultValid : isDirect(i)})

(* A register is marked busy, and an operand waits for it, only while the  *)
(* instruction that will write it is in flight: no wakeup is lost, between *)
(* dispatch and write_back or across a flush.                              *)
NoLostWakeup ==
  /\ scoreboard = {data[i].pdst : i \in Live \ resultValid} \ {0}
  /\ \A t \in IqTag : \A k \in 1 .. Len(iq[t]) : \A j \in 1 .. 2 :
       ~iq[t][k].rdy[j] =>
         \E i \in Live \ resultValid : /\ data[i].pdst = iq[t][k].regs[j]
                                       /\ robPos(i) < robPos(iq[t][k].index)

(* A register some current instruction is about to read has not been       *)
(* freed, and its value is not younger than its reader.                    *)
NoUseAfterFree ==
  /\ \A t \in IqTag : \A k \in 1 .. Len(iq[t]) : \A j \in 1 .. 2 :
       LET e == iq[t][k]
           p == e.regs[j]
       IN data[e.index].epoch = epoch =>
            \/ p \in NamedRegs
            \/ \E i \in Live : data[i].pdst = p /\ robPos(i) < robPos(e.index)
  /\ \A k \in 1 .. Len(renamed) : renamed[k].dec.epoch = epoch =>
       \A j \in 1 .. 2 : renamed[k].regs[j] \in NamedRegs \cup InFlightRegs

(* Only a load still in the reorder buffer is marked killed, and the mark  *)
(* goes with it: it never falls on the next instruction of the slot.       *)
KilledIsLive ==
  \A i \in killed : i \in Live /\ isLoad(instrOf(data[i])) /\ i \in waitDmemCommit

(* The core never stops retiring instructions of the program (discarded    *)
(* and killed ones do not count).                                          *)
RetiresForever == []<><<commit_ok \/ commit_exception \/ commit_interrupt>>_vars

(* The architectural state the core shows, as a state of the ISA.          *)
archDone ==
  IF first_done /\ first.epoch = epoch /\ tagOfInstr(instrOf(first)) = "DIRECT"
                /\ ~decodeErr(first)
    THEN <<first_result>> ELSE <<>>

Arch == INSTANCE Isa WITH pc <- archPc,
                          regs <- [a \in ArchReg |-> registers[naming[a]]],
                          done <- archDone

(* Out-of-order execution, speculation, kills, traps and flushes are       *)
(* invisible: the committed registers, the CSRs and the sequence of pcs    *)
(* are those of a machine that executes one instruction at a time.         *)
ImplementsIsa == Arch!IsaSpec
=============================================================================
