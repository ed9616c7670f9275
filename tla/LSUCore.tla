------------------------------- MODULE LSUCore -------------------------------
(***************************************************************************)
(* The load-store unit inside the core: the reorder buffer, the epochs and *)
(* the rules of CoreOOO.bsv that talk to it, on an arbitrary stream of     *)
(* memory operations, branches (correctly predicted or not), fences and    *)
(* cache-block operations.  Operands reach lsu_iq in any order.            *)
(***************************************************************************)
EXTENDS ROB, LSU

CONSTANTS NumEpoch,    \* epochs, counted modulo this
          Ops,         \* operations of the stream
          Mispredictions \* may the next pc of a load or a store be mispredicted?

ASSUME LSUCoreAssumption ==
  /\ NumEpoch \in Nat /\ NumEpoch > 1
  /\ Ops \subseteq [kind : {"load", "store", "branch", "fence", "cbo"},
                    addr : Addr, size : Size, data : Data]
  /\ Mispredictions \subseteq BOOLEAN

(* The comment on Age in Utils.bsv; there are 256 ages and 16 slots.       *)
ASSUME AgeAssumption == NumAge >= 2 * RobSize

VARIABLES epoch,
          current_age,
          killed, waitDmemCommit,
          lsu_iq,      \* slots whose operands are not there yet
          retired      \* history: the last memory operation retired

coreVars == <<epoch, current_age, killed, waitDmemCommit, lsu_iq, retired>>
vars     == <<robVars, lsuVars, coreVars>>

Result(ok, d, flush) == [ok |-> ok, data |-> d, flush |-> flush]

isDmem(o) == o.kind \in {"load", "store"}

Init ==
  /\ \E o \in Ops : mkROB([op |-> o, epoch |-> 0, age |-> 0, slot |-> 0],
                          Result(FALSE, zeroData, FALSE))
  /\ mkLSU([index |-> 0, epoch |-> 0, age |-> 0, size |-> "Word"])
  /\ epoch = 0 /\ current_age = 0
  /\ killed = {} /\ waitDmemCommit = {} /\ lsu_iq = {}
  /\ retired = <<>>

(* fn_dispatch.                                                            *)
dispatch(o) ==
  LET entry == [index |-> nextP, epoch |-> epoch, age |-> current_age, size |-> o.size]
      slot  == CASE o.kind = "load"  -> loadQ.tail
                 [] o.kind = "store" -> storeQ.tail
                 [] OTHER            -> 0
  IN
  /\ enq([op |-> o, epoch |-> epoch, age |-> current_age, slot |-> slot])
  /\ current_age' = (current_age + 1) % NumAge
  /\ CASE o.kind = "load"  -> enqLoad(entry)
       [] o.kind = "store" -> enqStore(entry)
       [] OTHER            -> UNCHANGED ringVars
  /\ IF isDmem(o)
       THEN /\ waitDmemCommit' = waitDmemCommit \cup {nextP}
            /\ lsu_iq' = lsu_iq \cup {nextP}
       ELSE UNCHANGED <<waitDmemCommit, lsu_iq>>
  /\ UNCHANGED <<replyVars, readVars, writeVars, invalidateQ, mem, epoch, killed, retired>>

(* connectLOAD and connectSTORE.                                           *)
connect ==
  \E i \in lsu_iq :
    LET e == data[i] IN
    /\ lsu_iq' = lsu_iq \ {i}
    /\ IF e.op.kind = "load"
         THEN wakeupLoad(e.slot, e.op.addr)
         ELSE wakeupStore(e.slot, e.op.addr, e.op.data)
    /\ UNCHANGED <<robVars, readVars, writeVars, invalidateQ, mem,
                   epoch, current_age, killed, waitDmemCommit, retired>>

(* write_back of the load-store unit: any pc may follow in the stream.     *)
write_back ==
  LET r == Head(reply) IN
  /\ lsuDeq
  /\ \E mispredicted \in Mispredictions :
       writeBack(r.index, Result(r.ok, r.data, mispredicted))
  /\ UNCHANGED <<ringVars, readVars, writeVars, invalidateQ, mem, coreVars>>

(* write_back of the control unit: the branch went as predicted, or not.   *)
write_back_branch ==
  \E i \in Live \ resultValid, mispredicted \in BOOLEAN :
    /\ data[i].op.kind = "branch"
    /\ writeBack(i, Result(TRUE, zeroData, mispredicted))
    /\ UNCHANGED <<lsuVars, coreVars>>

(* execute_direct on a FENCE or a CBO; of an older epoch, it does nothing. *)
execute_direct ==
  LET k == first.op.kind IN
  /\ ~empty /\ ~first_done /\ k \in {"fence", "cbo"}
  /\ first.epoch = epoch /\ k = "fence" => emptySTB
  /\ IF first.epoch = epoch /\ k = "cbo" THEN invalidate ELSE UNCHANGED invalidateQ
  /\ writeBack(firstP, Result(TRUE, zeroData, k = "fence"))
  /\ UNCHANGED <<ringVars, replyVars, readVars, writeVars, mem, coreVars>>

(* Faulty variant: the disowned load is not marked.                        *)
commit_dmem_noKill(must_commit) ==
  IF firstP \in waitDmemCommit
    THEN /\ IF first.op.kind = "load" THEN commitLoad ELSE commitStore(must_commit)
         /\ waitDmemCommit' = waitDmemCommit \ {firstP}
         /\ killed' = killed \ {firstP}
    ELSE UNCHANGED <<ringVars, stb, isStoreMMIO, wrequestQ, waitDmemCommit, killed>>

(* commit_dmem, in the cycle that dequeues the entry.                      *)
commit_dmem(must_commit) ==
  IF firstP \in waitDmemCommit
    THEN /\ IF first.op.kind = "load" THEN commitLoad ELSE commitStore(must_commit)
         /\ waitDmemCommit' = waitDmemCommit \ {firstP}
         /\ killed' = (IF first.op.kind = "store" /\ must_commit
                         THEN killed \cup disowned(storeWord) ELSE killed) \ {firstP}
    ELSE UNCHANGED <<ringVars, stb, isStoreMMIO, wrequestQ, waitDmemCommit, killed>>

retireVars == <<replyVars, readVars, stbDeqQ, cacheWrite, wresponseQ, invalidateQ, mem,
                current_age, lsu_iq>>

flush(b) == epoch' = IF b THEN (epoch + 1) % NumEpoch ELSE epoch

discard_instruction ==
  /\ first_done /\ first.epoch # epoch
  /\ commit_dmem(FALSE) /\ deq
  /\ UNCHANGED <<epoch, retired, retireVars>>

(* Faulty variant: a store that failed is committed.                       *)
commit_restart_stores ==
  /\ first_done /\ first.epoch = epoch
  /\ firstP \in killed \/ ~first_result.ok
  /\ commit_dmem(TRUE) /\ deq
  /\ flush(TRUE)
  /\ UNCHANGED <<retired, retireVars>>

(* A killed load or a failed access: the program resumes elsewhere.        *)
commit_restart ==
  /\ first_done /\ first.epoch = epoch
  /\ firstP \in killed \/ ~first_result.ok
  /\ commit_dmem(first_result.ok) /\ deq
  /\ flush(TRUE)
  /\ UNCHANGED <<retired, retireVars>>

commit_ok ==
  LET o == first.op IN
  /\ first_done /\ first.epoch = epoch
  /\ firstP \notin killed /\ first_result.ok
  /\ commit_dmem(TRUE) /\ deq
  /\ flush(first_result.flush)
  /\ retired' = CASE o.kind = "load"  -> <<"load", o.addr, o.size, first_result.data>>
                  [] o.kind = "store" -> <<"store", o.addr, o.size, o.data>>
                  [] OTHER            -> retired
  /\ UNCHANGED retireVars

Retirement == discard_instruction \/ commit_restart \/ commit_ok

Rules == lsuRules /\ UNCHANGED <<robVars, coreVars>>

Next ==
  \/ \E o \in Ops : dispatch(o)
  \/ connect \/ write_back \/ write_back_branch \/ execute_direct
  \/ Retirement
  \/ Rules

Spec == Init /\ [][Next]_vars

(* A rule that stays ready fires, the caches and the devices answer, and   *)
(* the fetch unit goes on supplying operations.                            *)
Fairness ==
  /\ WF_vars(\E o \in Ops : dispatch(o))
  /\ WF_vars(connect) /\ WF_vars(write_back) /\ WF_vars(write_back_branch)
  /\ WF_vars(execute_direct) /\ WF_vars(Retirement)
  /\ WF_vars(issueLoad /\ UNCHANGED <<robVars, coreVars>>)
  /\ WF_vars(readRequest /\ UNCHANGED <<robVars, coreVars>>)
  /\ WF_vars(loadResponse /\ UNCHANGED <<robVars, coreVars>>)
  /\ WF_vars(issueStore /\ UNCHANGED <<robVars, coreVars>>)
  /\ WF_vars(writeRequest /\ UNCHANGED <<robVars, coreVars>>)
  /\ WF_vars(deqSTB /\ UNCHANGED <<robVars, coreVars>>)
  /\ WF_vars(doDeqSTB /\ UNCHANGED <<robVars, coreVars>>)

FairSpec == Spec /\ Fairness

-----------------------------------------------------------------------------
(* Properties.                                                             *)

Epoch    == 0 .. NumEpoch - 1
Age      == 0 .. NumAge - 1
LsuEntry == [index : RobIndex, epoch : Epoch, age : Age, size : Size]
LsuReply == [index : RobIndex, ok : BOOLEAN, data : Data]

RingTypeOK ==
  /\ loadQ.entries \in [LqIndex -> LsuEntry] /\ loadQ.addresses \in [LqIndex -> Addr]
  /\ loadQ.valid \cup loadQ.addrValid \cup loadQ.executed \subseteq LqIndex
  /\ loadQ.head \in LqIndex /\ loadQ.tail \in LqIndex
  /\ storeQ.entries \in [SqIndex -> LsuEntry] /\ storeQ.addresses \in [SqIndex -> Addr]
  /\ storeQ.datas \in [SqIndex -> Data]
  /\ storeQ.valid \cup storeQ.ready \cup storeQ.toIssue \subseteq SqIndex
  /\ storeQ.head \in SqIndex /\ storeQ.tail \in SqIndex

(* Every variable has its type and every queue respects its capacity.      *)
LsuTypeOK ==
  /\ RingOK /\ RingTypeOK
  /\ data \in [RobIndex -> [op : Ops, epoch : Epoch, age : Age, slot : LqIndex \cup SqIndex]]
  /\ results \in [RobIndex -> [ok : BOOLEAN, data : Data, flush : BOOLEAN]]
  /\ resultValid \cup killed \cup waitDmemCommit \cup lsu_iq \subseteq RobIndex
  /\ epoch \in Epoch /\ current_age \in Age /\ invalidateQ \in 0 .. 1
  /\ stb \in Seq(StbEntry) /\ Len(stb) <= StbSize
  /\ tagQ \in Seq({"Load", "Store"}) /\ Len(tagQ) <= LqSize + SqSize
  /\ rrequestQ \in Seq(Word) /\ Len(rrequestQ) <= 4
  /\ wrequestQ \in Seq(StbEntry) /\ Len(wrequestQ) <= 4
  /\ pendingDmemLoadsQ \in Seq(LqIndex) /\ pendingMmioLoadsQ \in Seq(LqIndex)
  /\ isStoreMMIO \in Seq(BOOLEAN) /\ stbDeqQ \in 0 .. 2
  /\ cacheWrite \in 0 .. StbSize /\ wresponseQ \in 0 .. StbSize
  /\ \A q \in {loadSuccessQ, loadFailureQ, storeSuccessQ} : q \in Seq(LsuReply) /\ Len(q) <= 2
  /\ mem \in [Word -> Data] /\ cacheRead \in Seq(Data) /\ rresponseQ \in Seq(Data)

(* The slots of the reorder buffer that hold operations of these kinds.    *)
slotsOf(kinds) == {i \in Live : data[i].op.kind \in kinds}

(* s lists the slots of S in program order.                                *)
inOrder(s, S) ==
  /\ {s[k] : k \in 1 .. Len(s)} = S
  /\ \A j, k \in 1 .. Len(s) : j < k => robPos(s[j]) < robPos(s[k])

(* The slots of a ring, from its head.                                     *)
ring(q, size) ==
  [k \in 1 .. Cardinality(q.valid) |-> q.entries[(q.head + k - 1) % size].index]

(* commit ignores the index it is given and takes the heads of tagQ and of *)
(* one of the rings: the three queues hold exactly the memory operations   *)
(* of the reorder buffer, in its order, whatever was flushed.              *)
RingsFollowRob ==
  /\ \E s \in [1 .. Len(tagQ) -> RobIndex] :
       /\ inOrder(s, slotsOf({"load", "store"}))
       /\ tagQ = [k \in 1 .. Len(tagQ) |->
                   IF data[s[k]].op.kind = "load" THEN "Load" ELSE "Store"]
  /\ inOrder(ring(loadQ, LqSize), slotsOf({"load"}))
  /\ inOrder(ring(storeQ, SqSize), slotsOf({"store"}))
  /\ waitDmemCommit = slotsOf({"load", "store"})

occurrences(q, P(_)) == Cardinality({k \in 1 .. Len(q) : P(q[k])})

(* The places from which slot i may still be answered: operands awaited,   *)
(* address known, being read, reply queued.                                *)
answers(i) ==
  LET isReply(r)  == r.index = i
      isReading(l) == loadQ.entries[l].index = i
  IN  (IF i \in lsu_iq THEN 1 ELSE 0)
      + Cardinality({l \in (loadQ.valid \cap loadQ.addrValid) \ loadQ.executed :
                       loadQ.entries[l].index = i})
      + Cardinality({s \in storeQ.valid \cap storeQ.ready \cap storeQ.toIssue :
                       storeQ.entries[s].index = i})
      + occurrences(pendingDmemLoadsQ, isReading) + occurrences(pendingMmioLoadsQ, isReading)
      + occurrences(loadSuccessQ, isReply) + occurrences(loadFailureQ, isReply)
      + occurrences(storeSuccessQ, isReply)

(* Every memory operation is answered exactly once before it leaves the    *)
(* reorder buffer: no answer of the cache or the devices reaches a ring    *)
(* slot, or a slot of the reorder buffer, that was given to another.       *)
AnsweredOnce ==
  \A i \in RobIndex :
    answers(i) = IF i \in Live \ resultValid /\ isDmem(data[i].op) THEN 1 ELSE 0

(* Ages compare in program order although they wrap: a load is held back   *)
(* by the older stores to its word and by no younger one.                  *)
AgesOrdered ==
  \A i, j \in Live : robPos(i) < robPos(j) =>
    isBefore(data[i].age, data[j].age) /\ ~isBefore(data[j].age, data[i].age)

(* The store buffer holds the writes that are not known to be done, in     *)
(* order: those answered first, then those the cache or a device is doing, *)
(* then those still queued.  deqSTB pairs answers with writes only by      *)
(* counting, in two streams.                                               *)
StbCoversWrites ==
  LET done == Len(stb) - Len(isStoreMMIO)
      sent == Len(stb) - Len(wrequestQ)
      isSent(m) == Cardinality({k \in done + 1 .. sent : isMMIO(stb[k].word) = m})
  IN
  /\ stbDeqQ = done /\ done <= sent
  /\ isStoreMMIO = [k \in 1 .. Len(isStoreMMIO) |-> isMMIO(stb[done + k].word)]
  /\ wrequestQ = SubSeq(stb, sent + 1, Len(stb))
  /\ wresponseQ = isSent(TRUE) /\ cacheWrite = isSent(FALSE)

(* The buffered stores to a lane of a word; the youngest one hides what    *)
(* the caches and devices hold.                                            *)
buffered(w, l) == {k \in 1 .. Len(stb) : stb[k].word = w /\ l \in stb[k].mask}

visible(w, l) ==
  LET S == buffered(w, l) IN
  IF S = {} THEN mem[w][l] ELSE stb[CHOOSE k \in S : \A j \in S : j <= k].data[l]

(* The memory the program sees.                                            *)
programMem == [w \in Word |-> [l \in Lane |-> visible(w, l)]]

Mem == INSTANCE SeqMemory WITH memory <- programMem

(* Speculation, early loads, kills, flushes and buffered stores are        *)
(* invisible: retired loads return what the retired stores before them     *)
(* wrote.                                                                  *)
ImplementsMemory == Mem!MemSpec

(* The head of the reorder buffer always retires: no cycle of full queues  *)
(* between the rings, the requests shared by cache and devices, the        *)
(* answers and the store buffer.                                           *)
HeadRetires == []<><<Retirement>>_vars

(* A fence or a cache-block operation that reaches the head completes.     *)
BarriersComplete ==
  \A i \in RobIndex :
    (~empty /\ firstP = i /\ first.op.kind \in {"fence", "cbo"}) ~> (i \in resultValid)
=============================================================================
