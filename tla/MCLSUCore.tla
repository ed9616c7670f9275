------------------------------ MODULE MCLSUCore ------------------------------
(***************************************************************************)
(* Instances of LSUCore.                                                   *)
(***************************************************************************)
EXTENDS LSUCore

O(kind, word, lane, size, d) ==
  [kind |-> kind, addr |-> <<word, lane>>, size |-> size,
   data |-> [l \in Lane |-> IF l = 0 \/ Byte = {0} THEN d ELSE 1 - d]]

Branch == O("branch", 0, 0, "Word", 0)
Fence  == O("fence", 0, 0, "Word", 0)
Cbo    == O("cbo", 0, 0, "Word", 0)

(* A word, one lane of it, and a branch.                                   *)
OrderOps ==
  {O("load", 0, 0, "Word", 0), O("store", 0, 0, "Word", 1), O("store", 0, 1, "Byte", 1), Branch}

(* Word 1 belongs to a device; misaligned accesses, a branch, a fence.      *)
MmioOps ==
  {O("load", 0, 0, "Word", 0), O("load", 1, 1, "Byte", 0), O("load", 0, 1, "Word", 0),
   O("store", 0, 0, "Word", 1), O("store", 1, 0, "Word", 1), O("store", 0, 1, "Word", 1),
   Branch, Fence}

(* Reads of the cache and of a device.                                     *)
ReadOps == {O("load", 0, 0, "Word", 0), O("load", 1, 0, "Word", 0)}

DrainOps == ReadOps \cup {O("store", 0, 0, "Word", 0), Fence}

(* Everything that waits for the store buffer.                             *)
BarrierOps == {O("store", 0, 0, "Word", 0), Fence, Cbo}

NoMmio == {}
LastWord == {NumWords - 1}
Bits == {0, 1}
Zero == {0}

(* LsuView is the state up to a rotation of the reorder buffer, of loadQ,  *)
(* of the epochs and of the ages, without what is written again before it  *)
(* is read (free slots, addresses not there yet, data of results that can  *)
(* only be discarded) and without the history.  Next is blind to all of    *)
(* these; storeQ issues by slot number, so it is shown as it is.           *)
relEpoch(e) == (epoch + NumEpoch - e) % NumEpoch
relAge(a)   == (current_age + NumAge - a) % NumAge
lqPos(s)    == distance(loadQ.head, s, LqSize)

Entry(e) == <<robPos(e.index), relEpoch(e.epoch), relAge(e.age), e.size>>

LoadSlot(s) ==
  <<s \in loadQ.executed,
    IF s \in loadQ.valid THEN <<Entry(loadQ.entries[s]), s \in loadQ.addrValid>> ELSE <<>>,
    IF s \in loadQ.executed \/ s \in loadQ.valid \cap loadQ.addrValid
      THEN loadQ.addresses[s] ELSE <<>> >>

StoreSlot(s) ==
  IF s \in storeQ.valid
    THEN <<Entry(storeQ.entries[s]), s \in storeQ.toIssue,
           IF s \in storeQ.ready THEN <<storeQ.addresses[s], storeQ.datas[s]>> ELSE <<>> >>
    ELSE <<>>

RobSlot(i) ==
  LET e == data[i] IN
  <<i \in resultValid, i \in killed, i \in waitDmemCommit, i \in lsu_iq,
    IF i \in Live
      THEN <<e.op, relEpoch(e.epoch), relAge(e.age),
             IF e.op.kind = "load" THEN lqPos(e.slot) ELSE e.slot>>
      ELSE <<>>,
    IF i \in resultValid \cap Live /\ e.epoch = epoch THEN <<results[i]>> ELSE <<>> >>

Replies(q) ==
  [k \in 1 .. Len(q) |->
     <<robPos(q[k].index), IF data[q[k].index].epoch = epoch THEN <<q[k].ok, q[k].data>> ELSE <<>> >>]

Reading(q) == [k \in 1 .. Len(q) |-> lqPos(q[k])]

LsuView ==
  <<[p \in 0 .. RobSize - 1 |-> RobSlot((firstP + p) % RobSize)], empty, full, robPos(nextP),
    [p \in 0 .. LqSize - 1 |-> LoadSlot((loadQ.head + p) % LqSize)], lqPos(loadQ.tail),
    [s \in SqIndex |-> StoreSlot(s)], storeQ.head, storeQ.tail,
    stb, tagQ, rrequestQ, wrequestQ, Reading(pendingDmemLoadsQ), Reading(pendingMmioLoadsQ),
    isStoreMMIO, stbDeqQ, invalidateQ,
    Replies(loadSuccessQ), Replies(loadFailureQ), Replies(storeSuccessQ),
    mem, cacheRead, rresponseQ, cacheWrite, wresponseQ>>
=============================================================================
