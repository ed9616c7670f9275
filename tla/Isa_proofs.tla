------------------------------ MODULE Isa_proofs ------------------------------
(***************************************************************************)
(* The out-of-order core implements the ISA: ImplementsIsa, and on the way *)
(* NoUseAfterFree.                                                         *)
(*                                                                         *)
(* The argument is about names.  Source(p, a, n) says that p is the        *)
(* physical register in which an instruction at place n of the reorder     *)
(* buffer must look for the architectural register a: that of the last     *)
(* current instruction before n that writes a, or the committed one.       *)
(* Every name held anywhere for a current instruction is a source          *)
(* (SourceInv), so what the units compute is what the ISA computes from    *)
(* the registers its predecessors leave (ValueInv), and at the head of the *)
(* buffer the sources are the committed registers.                         *)
(***************************************************************************)
EXTENDS OOOCore_proofs

Writes(i, a) ==
  /\ i \in Live /\ data[i].epoch = epoch
  /\ a # zeroReg /\ destination(instrOf(data[i])) = a

LastWriter(i, a, n) ==
  /\ Writes(i, a) /\ robPos(i) < n
  /\ \A j \in Live : Writes(j, a) /\ robPos(j) < n => robPos(j) <= robPos(i)

Source(p, a, n) ==
  \/ \E i \in Live : LastWriter(i, a, n) /\ p = data[i].pdst
  \/ (\A j \in Live : Writes(j, a) => ~(robPos(j) < n)) /\ p = naming[a]

(* p is where slot i must look for its operand a.                          *)
Reads(p, a, i) == Source(p, a, robPos(i))

regOf(i, j) == IF j = 1 THEN register1(instrOf(data[i])) ELSE register2(instrOf(data[i]))

MapInv == \A a \in ArchReg : Source(rename(a), a, robLen)

RenamedInv ==
  renamed # <<>> /\ renamed[1].dec.epoch = epoch =>
    /\ Source(renamed[1].regs[1], register1(instrOf(renamed[1].dec)), robLen)
    /\ Source(renamed[1].regs[2], register2(instrOf(renamed[1].dec)), robLen)

IqReads ==
  \A t \in IqTag : \A k \in 1 .. Len(iq[t]) : \A j \in 1 .. 2 :
    data[iq[t][k].index].epoch = epoch =>
      Reads(iq[t][k].regs[j], regOf(iq[t][k].index, j), iq[t][k].index)

DirectReads(f) ==
  \A k \in 1 .. Len(direct) :
    data[f[k]].epoch = epoch => Reads(direct[k][1], regOf(f[k], 1), f[k])

DirectSource == \E f : DirectOrder(f) /\ DirectReads(f)

SourceInv == MapInv /\ RenamedInv /\ IqReads /\ DirectSource

-----------------------------------------------------------------------------
(* How a source survives a step.                                           *)

LEMMA SourceFrame ==
  ASSUME UNCHANGED <<prog, epoch, naming, data, firstP, nextP, empty, full>>
  PROVE  /\ \A p, a, n : Source(p, a, n)' <=> Source(p, a, n)
         /\ \A p, a, i : Reads(p, a, i)' <=> Reads(p, a, i)
         /\ Live' = Live /\ robLen' = robLen
         /\ \A i, j : regOf(i, j)' = regOf(i, j)
<1>1. Live' = Live /\ robLen' = robLen /\ \A i : robPos(i)' = robPos(i)
  BY DEF Live, robPos, robLen
<1>2. \A i, a : Writes(i, a)' <=> Writes(i, a)
  BY <1>1 DEF Writes, instrOf
<1>3. \A i, a, n : LastWriter(i, a, n)' <=> LastWriter(i, a, n)
  BY <1>1, <1>2 DEF LastWriter
<1>4. \A p, a, n : Source(p, a, n)' <=> Source(p, a, n)
  BY <1>1, <1>2, <1>3 DEF Source
<1>5. \A p, a, i : Reads(p, a, i)' <=> Reads(p, a, i)
  BY <1>1, <1>2, <1>3 DEF Source, Reads
<1>6. \A i, j : regOf(i, j)' = regOf(i, j)
  BY DEF regOf, instrOf
<1> QED  BY <1>1, <1>4, <1>5, <1>6

LEMMA WritesEnq ==
  ASSUME TypeOK, resultValid \subseteq Live, NEW e, enq(e), UNCHANGED <<prog, epoch>>
  PROVE  /\ \A i \in Live : \A a : Writes(i, a)' <=> Writes(i, a)
         /\ \A i, a : i = nextP => (Writes(i, a)' <=> /\ e.epoch = epoch /\ a # zeroReg
                                                       /\ destination(instrOf(e)) = a)
<1>1. /\ Live' = Live \cup {nextP} /\ data'[nextP] = e
      /\ \A i : i = nextP => instrOf(data[i])' = instrOf(e)
      /\ \A i \in Live : data'[i] = data[i] /\ instrOf(data[i])' = instrOf(data[i])
  BY SlotEnq
<1> QED  BY <1>1 DEF Writes

(* A new entry is no source for those before it.                           *)
LEMMA SourceEnq ==
  ASSUME TypeOK, resultValid \subseteq Live, NEW e, enq(e), UNCHANGED <<prog, epoch, naming>>,
         NEW p, NEW a, NEW n \in Int, n <= robLen, Source(p, a, n)
  PROVE  Source(p, a, n)'
<1>1. /\ Live' = Live \cup {nextP} /\ \A i : robPos(i)' = robPos(i)
      /\ \A i \in Live : data'[i] = data[i]
  BY SlotEnq
<1>2. robPos(nextP) = robLen /\ robLen \in Int
  BY EnqOrder, RingOrder, RobSizeAssumption DEF TypeOK, RobTypeOK
<1>3. \A i \in Live : Writes(i, a)' <=> Writes(i, a)
  BY WritesEnq
<1>4. ~(robPos(nextP) < n)
  BY <1>2
<1>5. \A i \in Live : LastWriter(i, a, n) => LastWriter(i, a, n)'
  BY <1>1, <1>3, <1>4 DEF LastWriter
<1> QED  BY <1>1, <1>3, <1>4, <1>5 DEF Source

(* After it, the last writer of its destination is the entry itself, and   *)
(* the others are as before.                                               *)
LEMMA SourceNew ==
  ASSUME TypeOK, resultValid \subseteq Live, NEW e, enq(e), UNCHANGED <<prog, epoch, naming>>,
         e.epoch = epoch, NEW a
  PROVE  /\ \A p : destination(instrOf(e)) # a \/ a = zeroReg =>
                     (Source(p, a, robLen) => Source(p, a, robLen)')
         /\ \A p : destination(instrOf(e)) = a /\ a # zeroReg /\ p = e.pdst => Source(p, a, robLen)'
<1>1. /\ Live' = Live \cup {nextP} /\ \A i : robPos(i)' = robPos(i)
      /\ \A i \in Live : data'[i] = data[i] /\ robPos(i) < robPos(nextP)
      /\ data'[nextP] = e
  BY SlotEnq
<1>2. robPos(nextP) = robLen /\ robLen \in Int /\ robLen' = robLen + 1
  BY EnqOrder, RingOrder, RobSizeAssumption DEF TypeOK, RobTypeOK
<1>3. /\ \A i \in Live : Writes(i, a)' <=> Writes(i, a)
      /\ \A i : i = nextP => (Writes(i, a)' <=> a # zeroReg /\ destination(instrOf(e)) = a)
  BY WritesEnq
<1>4. \A i \in Live : robPos(i) \in Int /\ robPos(i) < robLen
  BY RingOrder, RobSizeAssumption DEF TypeOK, RobTypeOK, RobIndex
<1>5. PICK m : m = robLen
  OBVIOUS
<1>6. PICK n : n = nextP
  OBVIOUS
<1>7. ASSUME NEW p, destination(instrOf(e)) # a \/ a = zeroReg, Source(p, a, robLen)
      PROVE  Source(p, a, robLen)'
  <2>1. ~Writes(n, a)'
    BY <1>3, <1>6, <1>7
  <2>2. \A i \in Live : robPos(i)' < robLen' /\ robPos(i) < robLen
    BY <1>1, <1>2, <1>4
  <2>3. \A i \in Live : LastWriter(i, a, robLen) => LastWriter(i, a, robLen)'
    BY <1>1, <1>3, <1>6, <2>1, <2>2 DEF LastWriter
  <2>4. (\A j \in Live : Writes(j, a) => ~(robPos(j) < robLen)) => \A j \in Live' : ~Writes(j, a)'
    BY <1>1, <1>3, <1>6, <2>1, <2>2
  <2> QED  BY <1>1, <1>7, <2>3, <2>4 DEF Source
<1>8. ASSUME NEW p, destination(instrOf(e)) = a, a # zeroReg, p = e.pdst
      PROVE  Source(p, a, robLen)'
  <2>1. Writes(n, a)' /\ n \in Live' /\ robPos(n)' < robLen' /\ data'[n].pdst = p
    BY <1>1, <1>2, <1>3, <1>6, <1>8
  <2>2. \A j \in Live' : robPos(j)' <= robPos(n)'
    BY <1>1, <1>2, <1>4, <1>6
  <2>3. LastWriter(n, a, robLen)'
    BY <2>1, <2>2 DEF LastWriter
  <2> QED  BY <2>1, <2>3 DEF Source
<1> QED  BY <1>7, <1>8

(* What retiring the head without a flush does to the committed map.       *)
RetireMap ==
  \/ first.epoch # epoch /\ naming' = naming
  \/ /\ first.epoch = epoch
     /\ naming' = [naming EXCEPT ![destination(instrOf(first))] = first.pdst]

(* The head was the last writer of its register only for those that find   *)
(* the committed one from now on.                                          *)
LEMMA SourceDeq ==
  ASSUME TypeOK, HolderInv, resultValid \subseteq Live, deq, first_done,
         UNCHANGED <<prog, epoch>>, RetireMap,
         NEW p, NEW a \in ArchReg, NEW n \in Nat \ {0}, Source(p, a, n)
  PROVE  Source(p, a, n - 1)'
<1>1. /\ data' = data /\ Live' = Live \ {firstP} /\ firstP \in Live /\ Live \subseteq RobIndex
      /\ \A i \in Live' : robPos(i)' = robPos(i) - 1
  BY SlotDeq DEF Live
<1>2. robPos(firstP) = 0 /\ \A i \in Live : robPos(i) \in Int
  BY DeqOrder, RingOrder, RobSizeAssumption DEF TypeOK, RobTypeOK, Live, RobIndex
<1>3. \A i \in Live' : Writes(i, a)' <=> Writes(i, a)
  BY <1>1 DEF Writes, instrOf
<1>4. \A i \in Live' : robPos(i)' < n - 1 <=> robPos(i) < n
  BY <1>1, <1>2
<1>5. \A i, j \in Live' : robPos(i)' <= robPos(j)' <=> robPos(i) <= robPos(j)
  BY <1>1, <1>2
<1>6. \A i \in Live' : LastWriter(i, a, n) => LastWriter(i, a, n - 1)'
  BY <1>1, <1>3, <1>4, <1>5 DEF LastWriter
<1>7. CASE \E i \in Live : LastWriter(i, a, n) /\ p = data[i].pdst
  <2>1. PICK i \in Live : LastWriter(i, a, n) /\ p = data[i].pdst
    BY <1>7
  <2>2. CASE i # firstP
    BY <1>1, <1>6, <2>1, <2>2 DEF Source
  <2>3. CASE i = firstP
    <3>1. Writes(firstP, a) /\ p = first.pdst
      BY <2>1, <2>3 DEF LastWriter, first
    <3>2. naming'[a] = p
      <4>1. first.epoch = epoch /\ destination(instrOf(first)) = a
        BY <3>1 DEF Writes, first
      <4> QED  BY <3>1, <4>1 DEF RetireMap, TypeOK, RenamingTypeOK
    <3>3. ASSUME NEW j \in Live', Writes(j, a)', robPos(j)' < n - 1 PROVE FALSE
      <4>1. robPos(j) <= 0
        BY <1>1, <1>2, <1>3, <1>4, <2>1, <2>3, <3>3 DEF LastWriter
      <4>2. \A k \in RobIndex : robPos(k) = robPos(firstP) => k = firstP
        BY <1>1, RingOrder DEF TypeOK, RobTypeOK
      <4>3. robPos(j) \in RobIndex /\ j \in RobIndex
        BY <1>1, RingOrder DEF TypeOK, RobTypeOK
      <4>4. robPos(j) = 0
        BY <4>1, <4>3 DEF RobIndex
      <4> QED  BY <1>1, <1>2, <4>2, <4>3, <4>4
    <3> QED  BY <3>2, <3>3 DEF Source
  <2> QED  BY <2>2, <2>3
<1>8. CASE (\A j \in Live : Writes(j, a) => ~(robPos(j) < n)) /\ p = naming[a]
  <2>1. ~Writes(firstP, a)
    BY <1>1, <1>2, <1>8
  <2>2. \A j \in Live' : Writes(j, a)' => ~(robPos(j)' < n - 1)
    BY <1>1, <1>3, <1>4, <1>8
  <2>3. naming'[a] = p
    <3>1. CASE first.epoch # epoch
      BY <1>8, <3>1 DEF RetireMap
    <3>2. CASE first.epoch = epoch /\ destination(instrOf(first)) # a
      BY <1>8, <3>2 DEF RetireMap, TypeOK, RenamingTypeOK
    <3>3. CASE first.epoch = epoch /\ destination(instrOf(first)) = a
      <4>1. a = zeroReg
        BY <1>1, <2>1, <3>3 DEF Writes, first
      <4>2. first.pdst = 0 /\ naming[a] = 0
        BY <1>1, <3>3, <4>1 DEF HolderInv, PdstInv, ZeroInv, first
      <4> QED  BY <1>8, <3>3, <4>2 DEF RetireMap, TypeOK, RenamingTypeOK
    <3> QED  BY <3>1, <3>2, <3>3
  <2> QED  BY <2>2, <2>3 DEF Source
<1> QED  BY <1>7, <1>8 DEF Source

LEMMA ReadsDeq ==
  ASSUME TypeOK, HolderInv, resultValid \subseteq Live, deq, first_done,
         UNCHANGED <<prog, epoch>>, RetireMap
  PROVE  /\ \A i \in Live' : \A p : \A a \in ArchReg : Reads(p, a, i) => Reads(p, a, i)'
         /\ \A p : \A a \in ArchReg : Source(p, a, robLen) => Source(p, a, robLen)'
<1>1. /\ Live' = Live \ {firstP} /\ Live \subseteq RobIndex /\ firstP \in RobIndex
      /\ \A i \in Live' : robPos(i)' = robPos(i) - 1
  BY SlotDeq DEF Live
<1>2. /\ robLen > 0 /\ robLen \in Int /\ robLen' = robLen - 1 /\ robPos(firstP) = 0
      /\ \A i \in RobIndex : robPos(i) \in RobIndex
      /\ \A i \in RobIndex : robPos(i) = robPos(firstP) => i = firstP
  BY <1>1, DeqOrder, RingOrder, RobSizeAssumption DEF TypeOK, RobTypeOK
<1>3. ASSUME NEW i \in Live', NEW p, NEW a \in ArchReg, Reads(p, a, i)
      PROVE  Reads(p, a, i)'
  <2>1. PICK n : n = robPos(i)
    OBVIOUS
  <2>2. n \in Nat \ {0} /\ robPos(i)' = n - 1
    BY <1>1, <1>2, <2>1 DEF RobIndex
  <2>3. Source(p, a, n - 1)'
    BY <1>3, <2>1, <2>2, SourceDeq DEF Reads
  <2> QED  BY <2>2, <2>3 DEF Reads, Source, LastWriter
<1>4. ASSUME NEW p, NEW a \in ArchReg, Source(p, a, robLen)
      PROVE  Source(p, a, robLen)'
  <2>1. PICK n : n = robLen
    OBVIOUS
  <2>2. n \in Nat \ {0} /\ robLen' = n - 1
    BY <1>2, <2>1
  <2>3. Source(p, a, n - 1)'
    BY <1>4, <2>1, <2>2, SourceDeq
  <2> QED  BY <2>2, <2>3 DEF Source, LastWriter
<1> QED  BY <1>3, <1>4

LEMMA ReadsEnq ==
  ASSUME TypeOK, resultValid \subseteq Live, NEW e, enq(e), UNCHANGED <<prog, epoch, naming>>
  PROVE  /\ \A i \in Live : \A p, a : Reads(p, a, i) => Reads(p, a, i)'
         /\ \A i, p, a : i = nextP => (Source(p, a, robLen) => Reads(p, a, i)')
<1>0. RingOK /\ RobSize \in Nat
  BY RobSizeAssumption DEF TypeOK, RobTypeOK
<1>1. /\ robPos(nextP) = robLen /\ robLen \in Int /\ \A i : robPos(i)' = robPos(i)
      /\ \A i \in Live : robPos(i) \in Int /\ robPos(i) <= robLen
  <2>1. robLen \in Int /\ Live = {i \in RobIndex : robPos(i) < robLen}
        /\ \A i \in RobIndex : robPos(i) \in Int
    BY <1>0, RingOrder DEF RobIndex
  <2> QED  BY <1>0, <2>1, EnqOrder
<1>2. ASSUME NEW i, NEW p, NEW a, robPos(i) \in Int, robPos(i) <= robLen, Reads(p, a, i)
      PROVE  Reads(p, a, i)'
  <2>1. PICK n : n = robPos(i)
    OBVIOUS
  <2>2. Source(p, a, n)'
    BY <1>2, <2>1, SourceEnq DEF Reads
  <2>3. robPos(i)' = n
    BY <1>1, <2>1
  <2> QED  BY <2>2, <2>3 DEF Reads, Source, LastWriter
<1>3. ASSUME NEW i, NEW p, NEW a, i = nextP, Source(p, a, robLen)
      PROVE  Reads(p, a, i)'
  <2>1. robPos(i) \in Int /\ robPos(i) <= robLen /\ Reads(p, a, i)
    BY <1>1, <1>3 DEF Reads
  <2> QED  BY <1>2, <2>1
<1> QED  BY <1>1, <1>2, <1>3

-----------------------------------------------------------------------------
(* Steps that leave the reorder buffer and the maps alone.                 *)

(* Every operation in an issue queue was there before.                     *)
IqFrom ==
  \A t \in IqTag : \A k \in 1 .. Len(iq'[t]) : \E m \in 1 .. Len(iq[t]) :
    iq'[t][k].index = iq[t][m].index /\ iq'[t][k].regs = iq[t][m].regs

bufferVars == <<prog, epoch, naming, data, firstP, nextP, empty, full, backup, speculated>>

LEMMA SourceSame ==
  ASSUME TypeOK, UNCHANGED bufferVars
  PROVE  /\ MapInv => MapInv'
         /\ renamed' = renamed /\ RenamedInv => RenamedInv'
         /\ renamed' = <<>> => RenamedInv'
         /\ IqFrom /\ IqReads => IqReads'
         /\ \A f : direct' = direct /\ DirectReads(f) => DirectReads(f)'
<1>1. UNCHANGED <<prog, epoch, naming, data, firstP, nextP, empty, full, backup, speculated>>
  BY DEF bufferVars
<1>2. /\ \A p, a, n : Source(p, a, n)' <=> Source(p, a, n)
      /\ \A p, a, i : Reads(p, a, i)' <=> Reads(p, a, i)
      /\ robLen' = robLen /\ \A i, j : regOf(i, j)' = regOf(i, j)
  BY <1>1, SourceFrame
<1>3. MapInv => MapInv'
  <2>1. ASSUME MapInv, NEW a \in ArchReg PROVE Source(rename(a), a, robLen)'
    <3>1. PICK p : p = rename(a)
      OBVIOUS
    <3>2. PICK n : n = robLen
      OBVIOUS
    <3>3. Source(p, a, n)'
      BY <1>2, <2>1, <3>1, <3>2 DEF MapInv
    <3>4. rename(a)' = p /\ robLen' = n
      BY <1>1, <1>2, <3>1, <3>2 DEF rename
    <3> QED  BY <3>3, <3>4 DEF Source, LastWriter
  <2> QED  BY <2>1 DEF MapInv
<1>4. renamed' = renamed /\ RenamedInv => RenamedInv'
  <2>1. ASSUME NEW p, NEW a, Source(p, a, robLen) PROVE Source(p, a, robLen)'
    <3>1. PICK n : n = robLen
      OBVIOUS
    <3>2. Source(p, a, n)' /\ robLen' = n
      BY <1>2, <2>1, <3>1
    <3> QED  BY <3>2 DEF Source, LastWriter
  <2>2. ASSUME renamed' = renamed, RenamedInv, renamed # <<>>, renamed[1].dec.epoch = epoch
        PROVE  /\ Source(renamed[1].regs[1], register1(instrOf(renamed[1].dec)), robLen)'
               /\ Source(renamed[1].regs[2], register2(instrOf(renamed[1].dec)), robLen)'
    <3>1. PICK p1, p2, a1, a2 :
            /\ p1 = renamed[1].regs[1] /\ p2 = renamed[1].regs[2]
            /\ a1 = register1(instrOf(renamed[1].dec)) /\ a2 = register2(instrOf(renamed[1].dec))
      OBVIOUS
    <3>2. Source(p1, a1, robLen) /\ Source(p2, a2, robLen)
      BY <2>2, <3>1 DEF RenamedInv
    <3>3. Source(p1, a1, robLen)' /\ Source(p2, a2, robLen)'
      BY <2>1, <3>2
    <3>4. /\ renamed'[1].regs[1] = p1 /\ renamed'[1].regs[2] = p2
          /\ register1(instrOf(renamed[1].dec))' = a1 /\ register2(instrOf(renamed[1].dec))' = a2
      BY <1>1, <2>2, <3>1 DEF instrOf
    <3> QED  BY <3>3, <3>4 DEF Source, LastWriter, Writes
  <2> QED  BY <1>1, <2>2 DEF RenamedInv
<1>5. renamed' = <<>> => RenamedInv'
  BY DEF RenamedInv
<1>6. IqFrom /\ IqReads => IqReads'
  <2>1. ASSUME IqFrom, IqReads, NEW t \in IqTag, NEW k \in 1 .. Len(iq'[t]), NEW j \in 1 .. 2,
               data'[iq'[t][k].index].epoch = epoch'
        PROVE  Reads(iq[t][k].regs[j], regOf(iq[t][k].index, j), iq[t][k].index)'
    <3>1. PICK m \in 1 .. Len(iq[t]) :
            iq'[t][k].index = iq[t][m].index /\ iq'[t][k].regs = iq[t][m].regs
      BY <2>1 DEF IqFrom
    <3>2. PICK p, a, i : p = iq[t][m].regs[j] /\ i = iq[t][m].index /\ a = regOf(i, j)
      OBVIOUS
    <3>3. Reads(p, a, i)
      BY <1>1, <2>1, <3>1, <3>2 DEF IqReads
    <3>4. Reads(p, a, i)' /\ regOf(i, j)' = a
      BY <1>2, <3>2, <3>3
    <3> QED  BY <3>1, <3>2, <3>4 DEF Reads, Source, LastWriter, Writes, regOf
  <2> QED  BY <2>1 DEF IqReads
<1>7. ASSUME NEW f, direct' = direct, DirectReads(f) PROVE DirectReads(f)'
  <2>1. ASSUME NEW k \in 1 .. Len(direct), data[f[k]].epoch = epoch
        PROVE  Reads(direct[k][1], regOf(f[k], 1), f[k])'
    <3>1. PICK p, a, i : p = direct[k][1] /\ i = f[k] /\ a = regOf(i, 1)
      OBVIOUS
    <3>2. Reads(p, a, i)
      BY <1>7, <2>1, <3>1 DEF DirectReads
    <3>3. Reads(p, a, i)' /\ regOf(i, 1)' = a
      BY <1>2, <3>1, <3>2
    <3> QED  BY <1>7, <3>1, <3>3 DEF Reads, Source, LastWriter, Writes, regOf
  <2> QED  BY <1>1, <1>7, <2>1 DEF DirectReads
<1> QED  BY <1>3, <1>4, <1>5, <1>6, <1>7

LEMMA IqFromSame ==
  ASSUME TypeOK, iq' = iq
  PROVE  IqFrom
BY DEF IqFrom

LEMMA IqFromConnect ==
  ASSUME TypeOK, NEW t \in IqTag, NEW k, NEW r, ConnectStep(t, k, r)
  PROVE  IqFrom
<1>1. k \in 1 .. Len(iq[t]) /\ iq' = [iq EXCEPT ![t] = iqDeq(iq[t], k)]
  BY DEF ConnectStep
<1>2. ASSUME NEW u \in IqTag, NEW j \in 1 .. Len(iq'[u])
      PROVE  \E m \in 1 .. Len(iq[u]) : iq'[u][j] = iq[u][m]
  <2>1. CASE u = t
    <3>1. iq[t] \in Seq(IqEntry) /\ iq'[t] = iqDeq(iq[t], k)
      BY <1>1 DEF TypeOK, ExecTypeOK
    <3>2. Without(iq[t], k, iq'[t])
      BY <1>1, <3>1, DeqFacts
    <3> QED  BY <2>1, <3>2, Zenon DEF Without
  <2>2. CASE u # t
    <3>1. iq'[u] = iq[u]
      BY <1>1, <2>2 DEF TypeOK, ExecTypeOK
    <3> QED  BY <3>1
  <2> QED  BY <2>1, <2>2
<1> QED  BY <1>2 DEF IqFrom

LEMMA IqFromWakeup ==
  ASSUME TypeOK, NEW p, NEW r, wakeupFn(p, r)
  PROVE  IqFrom
<1>1. \A t \in IqTag : /\ Len(iq'[t]) = Len(iq[t])
                       /\ \A k \in 1 .. Len(iq[t]) : /\ iq'[t][k].index = iq[t][k].index
                                                     /\ iq'[t][k].regs = iq[t][k].regs
  BY WakeupFacts DEF TypeOK, ExecTypeOK
<1> QED  BY <1>1 DEF IqFrom

(* A step of the front end: only renamed may change.                       *)
LEMMA SourceFront ==
  ASSUME TypeOK, ProducerInv, SourceInv, UNCHANGED bufferVars, UNCHANGED <<iq, direct, resultValid>>,
         RenamedInv'
  PROVE  SourceInv'
<1>1. PICK f : DirectOrder(f) /\ DirectReads(f)
  BY DEF SourceInv, DirectSource
<1>2. Waiting' = Waiting /\ \A i : robPos(i)' = robPos(i)
  BY DEF Waiting, Live, robPos, bufferVars
<1>3. DirectOrder(f)'
  BY <1>1, <1>2, DirectFrame DEF bufferVars
<1>4. DirectReads(f)'
  BY <1>1, SourceSame
<1>5. MapInv' /\ IqReads'
  BY SourceSame, IqFromSame DEF SourceInv
<1> QED  BY <1>3, <1>4, <1>5 DEF SourceInv, DirectSource

LEMMA SourceRename ==
  ASSUME TypeOK, ProducerInv, SourceInv, rename_rule
  PROVE  SourceInv'
<1>1. /\ UNCHANGED bufferVars /\ UNCHANGED <<iq, direct, resultValid>>
      /\ fetched # <<>>
  BY DEF rename_rule, bufferVars, robVars, renamingVars
<1>2. PICK i : i = instrOf(Head(fetched))
  OBVIOUS
<1>3. /\ renamed'[1].dec = Head(fetched)
      /\ renamed'[1].regs[1] = rename(register1(i)) /\ renamed'[1].regs[2] = rename(register2(i))
  BY <1>2 DEF rename_rule
<1>4. Head(fetched) \in Fetched
  BY <1>1 DEF TypeOK, FrontTypeOK
<1>5. register1(i) \in ArchReg /\ register2(i) \in ArchReg
  BY <1>2, <1>4, InstrType DEF instrOf, Fetched, TypeOK, FrontTypeOK
<1>6. PICK p, q : p = rename(register1(i)) /\ q = rename(register2(i))
  OBVIOUS
<1>7. PICK n : n = robLen
  OBVIOUS
<1>8. Source(p, register1(i), n) /\ Source(q, register2(i), n)
  BY <1>5, <1>6, <1>7 DEF SourceInv, MapInv
<1>9. Source(p, register1(i), n)' /\ Source(q, register2(i), n)' /\ robLen' = n
  BY <1>1, <1>7, <1>8, SourceFrame DEF bufferVars
<1>10. instrOf(renamed[1].dec)' = i
  BY <1>1, <1>2, <1>3 DEF instrOf, bufferVars
<1>11. RenamedInv'
  BY <1>3, <1>6, <1>9, <1>10 DEF RenamedInv, Source, LastWriter, Writes
<1> QED  BY <1>1, <1>11, SourceFront

LEMMA SourceConnect ==
  ASSUME TypeOK, SourceInv, NEW t \in IqTag, NEW k, NEW r, ConnectStep(t, k, r)
  PROVE  SourceInv'
<1>1. UNCHANGED bufferVars /\ UNCHANGED <<renamed, direct, resultValid>>
  BY DEF ConnectStep, bufferVars, robVars, renamingVars
<1>2. PICK f : DirectOrder(f) /\ DirectReads(f)
  BY DEF SourceInv, DirectSource
<1>3. Waiting' = Waiting /\ \A i : robPos(i)' = robPos(i)
  BY <1>1 DEF Waiting, Live, robPos, bufferVars
<1>4. DirectOrder(f)'
  BY <1>1, <1>2, <1>3, DirectFrame DEF bufferVars
<1>5. DirectReads(f)'
  BY <1>1, <1>2, SourceSame
<1>6. MapInv' /\ RenamedInv' /\ IqReads'
  BY <1>1, SourceSame, IqFromConnect DEF SourceInv
<1> QED  BY <1>4, <1>5, <1>6 DEF SourceInv, DirectSource

LEMMA SourceWrite ==
  ASSUME TypeOK, SourceInv, NEW i, NEW p, NEW r, writeBack(i, r), wakeupFn(p, r),
         UNCHANGED <<prog, epoch, renamed, direct>>, ~isDirect(i)
  PROVE  SourceInv'
<1>1. UNCHANGED bufferVars
  BY DEF bufferVars, writeBack, wakeupFn, wakeup
<1>2. PICK f : DirectOrder(f) /\ DirectReads(f)
  BY DEF SourceInv, DirectSource
<1>3. DirectOrder(f)'
  BY <1>2, DirectWrite
<1>4. DirectReads(f)'
  BY <1>1, <1>2, SourceSame
<1>5. MapInv' /\ RenamedInv' /\ IqReads'
  BY <1>1, SourceSame, IqFromWakeup DEF SourceInv
<1> QED  BY <1>3, <1>4, <1>5 DEF SourceInv, DirectSource

LEMMA SourceExecute ==
  ASSUME TypeOK, ProducerInv, SourceInv, execute_direct
  PROVE  SourceInv'
<1>1. PICK r : writeBack(firstP, r) /\ wakeupFn(first.pdst, r)
  BY Zenon DEF execute_direct
<1>2. /\ UNCHANGED <<prog, epoch, renamed>> /\ direct # <<>> /\ direct' = Tail(direct)
  BY DEF execute_direct
<1>3. UNCHANGED bufferVars
  BY <1>1, <1>2 DEF bufferVars, writeBack, wakeupFn, wakeup
<1>4. PICK f : DirectOrder(f) /\ DirectReads(f)
  BY DEF SourceInv, DirectSource
<1>5. PICK g : DirectOrder(g)' /\ Follows(g, f, Len(direct))
  BY <1>4, DirectExecute
<1>6. /\ \A k \in 1 .. Len(direct') : /\ k + 1 \in 1 .. Len(direct)
                                      /\ direct'[k] = direct[k + 1] /\ g[k] = f[k + 1]
  BY <1>2, <1>5, TailFacts DEF TypeOK, ExecTypeOK, Follows
<1>7. ASSUME NEW k \in 1 .. Len(direct'), data'[g[k]].epoch = epoch'
      PROVE  Reads(direct[k][1], regOf(g[k], 1), g[k])'
  <2>1. PICK p, a, i : p = direct'[k][1] /\ i = g[k] /\ a = regOf(i, 1)
    OBVIOUS
  <2>2. data[i].epoch = epoch
    BY <1>3, <1>7, <2>1 DEF bufferVars
  <2>3. Reads(p, a, i)
    BY <1>4, <1>6, <2>1, <2>2 DEF DirectReads
  <2>4. Reads(p, a, i)' /\ regOf(i, 1)' = a
    BY <1>3, <2>1, <2>3, SourceFrame DEF bufferVars
  <2> QED  BY <2>1, <2>4 DEF Reads, Source, LastWriter, Writes, regOf
<1>8. DirectReads(g)'
  BY <1>7 DEF DirectReads
<1>9. MapInv' /\ RenamedInv' /\ IqReads'
  BY <1>1, <1>2, <1>3, SourceSame, IqFromWakeup DEF SourceInv
<1> QED  BY <1>5, <1>8, <1>9 DEF SourceInv, DirectSource

-----------------------------------------------------------------------------
(* dispatch: the new entry looks where renaming found its operands, and is *)
(* from now on where its destination is found.                             *)

LEMMA RegOfEnq ==
  ASSUME TypeOK, resultValid \subseteq Live, NEW e, enq(e), prog' = prog
  PROVE  /\ \A i \in Live : \A j : regOf(i, j)' = regOf(i, j)
         /\ \A i, j : i = nextP => regOf(i, j)' = IF j = 1 THEN register1(instrOf(e))
                                                           ELSE register2(instrOf(e))
<1>1. /\ \A i : i = nextP => instrOf(data[i])' = instrOf(e)
      /\ \A i \in Live : instrOf(data[i])' = instrOf(data[i])
  BY SlotEnq
<1> QED  BY <1>1 DEF regOf

LEMMA IqReadsOld ==
  ASSUME TypeOK, ProducerInv, IqReads, NEW e, enq(e), UNCHANGED <<prog, epoch, naming>>,
         NEW t \in IqTag, NEW k \in 1 .. Len(iq[t]), NEW j \in 1 .. 2,
         data'[iq[t][k].index].epoch = epoch'
  PROVE  \A p, i : p = iq[t][k].regs[j] /\ i = iq[t][k].index => Reads(p, regOf(i, j), i)'
<1>1. resultValid \subseteq Live /\ Waiting \subseteq Live
  BY DEF ProducerInv, Waiting
<1>2. PICK p, a, i : p = iq[t][k].regs[j] /\ i = iq[t][k].index /\ a = regOf(i, j)
  OBVIOUS
<1>3. i \in Live
  BY <1>1, <1>2 DEF ProducerInv, IqInv
<1>4. data'[i] = data[i] /\ regOf(i, j)' = a
  BY <1>1, <1>2, <1>3, SlotEnq, RegOfEnq
<1>5. Reads(p, a, i)
  BY <1>2, <1>4 DEF IqReads
<1>6. Reads(p, a, i)'
  BY <1>1, <1>3, <1>5, ReadsEnq
<1> QED  BY <1>2, <1>4, <1>6, ZenonT(60) DEF Reads, Source, LastWriter, Writes, regOf

LEMMA DirectReadsOld ==
  ASSUME TypeOK, ProducerInv, NEW e, enq(e), UNCHANGED <<prog, epoch, naming>>,
         NEW f, DirectOrder(f), DirectReads(f), NEW k \in 1 .. Len(direct),
         data'[f[k]].epoch = epoch'
  PROVE  \A p, i : p = direct[k][1] /\ i = f[k] => Reads(p, regOf(i, 1), i)'
<1>1. resultValid \subseteq Live /\ Waiting \subseteq Live
  BY DEF ProducerInv, Waiting
<1>2. PICK p, a, i : p = direct[k][1] /\ i = f[k] /\ a = regOf(i, 1)
  OBVIOUS
<1>3. i \in Live
  BY <1>1, <1>2 DEF DirectOrder
<1>4. data'[i] = data[i] /\ regOf(i, 1)' = a
  BY <1>1, <1>2, <1>3, SlotEnq, RegOfEnq
<1>5. Reads(p, a, i)
  BY <1>2, <1>4 DEF DirectReads
<1>6. Reads(p, a, i)'
  BY <1>1, <1>3, <1>5, ReadsEnq
<1> QED  BY <1>2, <1>4, <1>6 DEF Reads, Source, LastWriter, Writes, regOf

LEMMA SourceDispatchException ==
  ASSUME TypeOK, ProducerInv, SourceInv, dispatch_exception
  PROVE  SourceInv'
<1> DEFINE e == [pc |-> renamed[1].dec.pc, pred |-> renamed[1].dec.pred,
                 epoch |-> renamed[1].dec.epoch, pdst |-> 0]
<1>1. /\ enq(e) /\ e.epoch = epoch /\ decodeErr(e) /\ renamed' = <<>>
      /\ UNCHANGED <<prog, epoch, naming, backup, speculated, iq, direct>>
  BY DEF dispatch_exception, decodeErr, instrOf, renamingVars
<1> HIDE DEF e
<1>2. resultValid \subseteq Live
  BY DEF ProducerInv
<1>3. PICK f : DirectOrder(f) /\ DirectReads(f)
  BY DEF SourceInv, DirectSource
<1>4. DirectOrder(f)'
  BY <1>1, <1>3, DirectEnqOther
<1>5. DirectReads(f)'
  <2>1. ASSUME NEW k \in 1 .. Len(direct), data'[f[k]].epoch = epoch'
        PROVE  Reads(direct[k][1], regOf(f[k], 1), f[k])'
    <3>1. PICK p, i : p = direct[k][1] /\ i = f[k]
      OBVIOUS
    <3>2. Reads(p, regOf(i, 1), i)'
      BY <1>1, <1>3, <2>1, <3>1, DirectReadsOld
    <3> QED  BY <1>1, <3>1, <3>2 DEF Reads, Source, LastWriter, Writes, regOf
  <2> QED  BY <1>1, <2>1 DEF DirectReads
<1>6. IqReads'
  <2>1. ASSUME NEW t \in IqTag, NEW k \in 1 .. Len(iq[t]), NEW j \in 1 .. 2,
               data'[iq[t][k].index].epoch = epoch'
        PROVE  Reads(iq[t][k].regs[j], regOf(iq[t][k].index, j), iq[t][k].index)'
    <3>1. PICK p, i : p = iq[t][k].regs[j] /\ i = iq[t][k].index
      OBVIOUS
    <3>2. Reads(p, regOf(i, j), i)'
      BY <1>1, <2>1, <3>1, IqReadsOld DEF SourceInv
    <3> QED  BY <1>1, <3>1, <3>2 DEF Reads, Source, LastWriter, Writes, regOf
  <2> QED  BY <1>1, <2>1 DEF IqReads
<1>7. MapInv'
  <2>1. ASSUME NEW a \in ArchReg PROVE Source(rename(a), a, robLen)'
    <3>1. PICK p : p = rename(a)
      OBVIOUS
    <3>2. destination(instrOf(e)) = zeroReg
      BY <1>1, ErrIsDirect
    <3>3. Source(p, a, robLen)
      BY <3>1 DEF SourceInv, MapInv
    <3>4. Source(p, a, robLen)'
      BY <1>1, <1>2, <3>2, <3>3, SourceNew
    <3>5. rename(a)' = p
      BY <1>1, <3>1 DEF rename
    <3> QED  BY <3>4, <3>5 DEF Source, LastWriter
  <2> QED  BY <2>1 DEF MapInv
<1>8. RenamedInv'
  BY <1>1 DEF RenamedInv
<1> QED  BY <1>4, <1>5, <1>6, <1>7, <1>8 DEF SourceInv, DirectSource

LEMMA SourceDispatch ==
  ASSUME TypeOK, ProducerInv, SourceInv, NEW t \in ExecTag, dispatch(t)
  PROVE  SourceInv'
<1> DEFINE r == renamed[1]
           d == r.dec
           b == destination(instrOf(d))
           e == [pc |-> d.pc, pred |-> d.pred, epoch |-> d.epoch, pdst |-> allocated(b)]
           x == [index |-> nextP, pc |-> d.pc, pdst |-> allocated(b), regs |-> r.regs,
                 rdy |-> [j \in 1 .. 2 |-> ready(r.regs[j])]]
<1>1. /\ renamed # <<>> /\ d.epoch = epoch /\ enq(e) /\ instrOf(e) = instrOf(d) /\ ~decodeErr(e)
      /\ tagOfInstr(instrOf(e)) = t /\ x \in IqEntry
      /\ b \in ArchReg /\ allocate(b) /\ r.regs \in [1 .. 2 -> PhysReg]
      /\ t = "DIRECT" => direct' = Append(direct, r.regs) /\ iq' = iq
      /\ t # "DIRECT" => /\ t \in IqTag /\ direct' = direct
                         /\ iq' = [iq EXCEPT ![t] = Append(iq[t], x)]
      /\ UNCHANGED <<prog, epoch>>
  BY DispatchStep, Zenon
<1>2. e.epoch = epoch /\ e.pdst = allocated(b) /\ x.index = nextP /\ x.regs = r.regs
  BY <1>1
<1>3. renamed' = <<>> /\ naming' = naming
  BY <1>1 DEF dispatch, allocate
<1>4. /\ Source(r.regs[1], register1(instrOf(e)), robLen)
      /\ Source(r.regs[2], register2(instrOf(e)), robLen)
  BY <1>1 DEF SourceInv, RenamedInv
<1> HIDE DEF r, d, b, e, x
<1>5. resultValid \subseteq Live
  BY DEF ProducerInv
<1>6. ASSUME NEW i, i = nextP, NEW j \in 1 .. 2, NEW p, p = r.regs[j]
      PROVE  Reads(p, regOf(i, j), i)'
  <2>1. PICK a : a = IF j = 1 THEN register1(instrOf(e)) ELSE register2(instrOf(e))
    OBVIOUS
  <2>2. Source(p, a, robLen)
    BY <1>4, <1>6, <2>1
  <2>3. Reads(p, a, i)'
    BY <1>1, <1>3, <1>5, <1>6, <2>2, ReadsEnq
  <2>4. regOf(i, j)' = a
    BY <1>1, <1>5, <1>6, <2>1, RegOfEnq
  <2> QED  BY <2>3, <2>4 DEF Reads, Source, LastWriter, Writes
<1>7. IqReads'
  <2>1. ASSUME NEW u \in IqTag, NEW k \in 1 .. Len(iq'[u])
        PROVE  \/ k \in 1 .. Len(iq[u]) /\ iq'[u][k] = iq[u][k]
               \/ iq'[u][k] = x
    <3>1. CASE u = t /\ t # "DIRECT"
      <4>1. iq[t] \in Seq(IqEntry) /\ iq'[t] = Append(iq[t], x)
        BY <1>1, <3>1 DEF TypeOK, ExecTypeOK
      <4> QED  BY <1>1, <3>1, <4>1, AppendFacts
    <3>2. CASE u # t \/ t = "DIRECT"
      <4>1. iq'[u] = iq[u]
        BY <1>1, <3>2 DEF TypeOK, ExecTypeOK
      <4> QED  BY <4>1
    <3> QED  BY <3>1, <3>2
  <2>2. ASSUME NEW u \in IqTag, NEW k \in 1 .. Len(iq'[u]), NEW j \in 1 .. 2,
               data'[iq'[u][k].index].epoch = epoch'
        PROVE  Reads(iq[u][k].regs[j], regOf(iq[u][k].index, j), iq[u][k].index)'
    <3>1. PICK p, i : p = iq'[u][k].regs[j] /\ i = iq'[u][k].index
      OBVIOUS
    <3>2. CASE k \in 1 .. Len(iq[u]) /\ iq'[u][k] = iq[u][k]
      <4>1. Reads(p, regOf(i, j), i)'
        BY <1>1, <1>3, <2>2, <3>1, <3>2, IqReadsOld DEF SourceInv
      <4> QED  BY <3>1, <4>1 DEF Reads, Source, LastWriter, Writes, regOf
    <3>3. CASE iq'[u][k] = x
      <4>1. Reads(p, regOf(i, j), i)'
        BY <1>2, <1>6, <3>1, <3>3
      <4> QED  BY <3>1, <4>1 DEF Reads, Source, LastWriter, Writes, regOf
    <3> QED  BY <2>1, <3>2, <3>3
  <2> QED  BY <2>2 DEF IqReads
<1>8. DirectSource'
  <2>1. PICK f : DirectOrder(f) /\ DirectReads(f)
    BY DEF SourceInv, DirectSource
  <2>2. CASE t # "DIRECT"
    <3>1. DirectOrder(f)' /\ direct' = direct
      BY <1>1, <2>1, <2>2, DirectEnqOther
    <3>2. ASSUME NEW k \in 1 .. Len(direct), data'[f[k]].epoch = epoch'
          PROVE  Reads(direct[k][1], regOf(f[k], 1), f[k])'
      <4>1. PICK p, i : p = direct[k][1] /\ i = f[k]
        OBVIOUS
      <4>2. Reads(p, regOf(i, 1), i)'
        BY <1>1, <1>3, <2>1, <3>2, <4>1, DirectReadsOld
      <4> QED  BY <3>1, <4>1, <4>2 DEF Reads, Source, LastWriter, Writes, regOf
    <3>3. DirectReads(f)'
      BY <3>1, <3>2 DEF DirectReads
    <3> QED  BY <3>1, <3>3 DEF DirectSource
  <2>3. CASE t = "DIRECT"
    <3>1. direct' = Append(direct, r.regs) /\ direct \in Seq([1 .. 2 -> PhysReg])
      BY <1>1, <2>3 DEF TypeOK, ExecTypeOK
    <3>2. PICK g : DirectOrder(g)' /\ Extends(g, f, Len(direct), nextP)
      BY <1>1, <2>1, <2>3, <3>1, DirectEnq
    <3>3. /\ \A k \in 1 .. Len(direct') : k \in 1 .. Len(direct) \/ k = Len(direct) + 1
          /\ \A k \in 1 .. Len(direct) : direct'[k] = direct[k]
          /\ direct'[Len(direct) + 1] = r.regs
      BY <1>1, <3>1, AppendFacts
    <3>4. ASSUME NEW k \in 1 .. Len(direct'), data'[g[k]].epoch = epoch'
          PROVE  Reads(direct[k][1], regOf(g[k], 1), g[k])'
      <4>1. PICK p, i : p = direct'[k][1] /\ i = g[k]
        OBVIOUS
      <4>2. CASE k \in 1 .. Len(direct)
        <5>1. p = direct[k][1] /\ i = f[k]
          BY <3>2, <3>3, <4>1, <4>2 DEF Extends
        <5>2. Reads(p, regOf(i, 1), i)'
          BY <1>1, <1>3, <2>1, <3>4, <4>1, <4>2, <5>1, DirectReadsOld
        <5> QED  BY <4>1, <5>2 DEF Reads, Source, LastWriter, Writes, regOf
      <4>3. CASE k = Len(direct) + 1
        <5>1. p = r.regs[1] /\ i = nextP
          BY <3>2, <3>3, <4>1, <4>3 DEF Extends
        <5>2. Reads(p, regOf(i, 1), i)'
          BY <1>6, <5>1
        <5> QED  BY <4>1, <5>2 DEF Reads, Source, LastWriter, Writes, regOf
      <4> QED  BY <3>3, <4>2, <4>3
    <3>5. DirectReads(g)'
      BY <3>4 DEF DirectReads
    <3> QED  BY <3>2, <3>5 DEF DirectSource
  <2> QED  BY <2>2, <2>3
<1>9. MapInv'
  <2>1. destination(instrOf(e)) = b
    BY <1>1 DEF b, d, r
  <2>2. ASSUME NEW a \in ArchReg PROVE Source(rename(a), a, robLen)'
    <3>1. PICK p : p = rename(a)
      OBVIOUS
    <3>2. PICK q : q = e.pdst
      OBVIOUS
    <3>3. CASE a = b /\ b # zeroReg
      <4>1. Source(q, a, robLen)'
        BY <1>1, <1>2, <1>3, <1>5, <2>1, <3>2, <3>3, SourceNew
      <4>2. rename(a)' = q
        BY <1>1, <1>2, <3>2, <3>3 DEF allocate, rename, TypeOK, RenamingTypeOK
      <4> QED  BY <4>1, <4>2 DEF Source, LastWriter
    <3>4. CASE ~(a = b /\ b # zeroReg)
      <4>1. Source(p, a, robLen)
        BY <3>1 DEF SourceInv, MapInv
      <4>2. Source(p, a, robLen)'
        BY <1>1, <1>2, <1>3, <1>5, <2>1, <3>4, <4>1, SourceNew
      <4>3. rename(a)' = p
        BY <1>1, <1>3, <3>1, <3>4 DEF allocate, rename, TypeOK, RenamingTypeOK
      <4> QED  BY <4>2, <4>3 DEF Source, LastWriter
    <3> QED  BY <3>3, <3>4
  <2> QED  BY <2>2 DEF MapInv
<1>10. RenamedInv'
  BY <1>3 DEF RenamedInv
<1> QED  BY <1>7, <1>8, <1>9, <1>10 DEF SourceInv

-----------------------------------------------------------------------------
(* Retirement.                                                             *)

(* Behind a current head everything is current.                            *)
LEMMA AllCurrent ==
  ASSUME TypeOK, OrderInv, ~empty, first.epoch = epoch
  PROVE  /\ \A i \in Live : data[i].epoch = epoch
         /\ renamed # <<>> => renamed[1].dec.epoch = epoch
<1>1. RingOK /\ StageShape /\ Window(stageSeq, stages, epoch)
  BY StageParts DEF TypeOK, RobTypeOK, OrderInv
<1>2. robLen \in 1 .. RobSize /\ slot(0) = firstP
  BY <1>1, RobSizeAssumption DEF RingOK, robLen, robPos, slot, RobIndex
<1>3. stages \in Nat /\ robLen + Len(renamed) <= stages /\ robLen \in Nat /\ 1 <= robLen
  BY <1>1, <1>2, RobSizeAssumption DEF StageShape
<1>4. stageSeq[1].epoch = epoch
  BY <1>1, <1>2 DEF StageShape, first
<1>5. \A j \in 1 .. stages : stageSeq[j].epoch = epoch
  <2>1. 1 \in 1 .. stages /\ epoch \in Epoch
    BY <1>1, <1>3 DEF TypeOK, FrontTypeOK, StageShape
  <2> QED  BY <1>1, <1>4, <2>1, EpochStep DEF Window
<1>6. ASSUME NEW i \in Live PROVE data[i].epoch = epoch
  <2>1. robPos(i) \in RobIndex /\ slot(robPos(i)) = i /\ robPos(i) < robLen
    BY <1>1, RingOrder
  <2>2. robPos(i) + 1 \in 1 .. robLen /\ (robPos(i) + 1) - 1 = robPos(i)
    BY <1>3, <2>1, RobSizeAssumption DEF RobIndex
  <2>3. stageSeq[robPos(i) + 1] = data[i]
    BY <1>1, <2>1, <2>2 DEF StageShape
  <2>4. robPos(i) + 1 \in 1 .. stages
    BY <1>1, <1>3, <2>2 DEF StageShape
  <2> QED  BY <1>5, <2>3, <2>4
<1>7. ASSUME renamed # <<>> PROVE renamed[1].dec.epoch = epoch
  <2>1. Len(renamed) = 1
    BY <1>7, OneRenamed
  <2>2. stageSeq[robLen + 1] = renamed[1].dec /\ robLen + 1 \in 1 .. stages
    BY <1>1, <1>3, <2>1 DEF StageShape
  <2> QED  BY <1>5, <2>2
<1> QED  BY <1>6, <1>7

(* A step that keeps the epoch: the name of no register changes.           *)
LEMMA RenameDeq ==
  ASSUME TypeOK, HolderInv, MapInv, RetireMap, firstP \in Live,
         NEW keep \in BOOLEAN, commit(destination(instrOf(first)), first.pdst, keep, FALSE),
         NEW a \in ArchReg
  PROVE  rename(a)' = rename(a)
<1> DEFINE b == destination(instrOf(first))
           p == first.pdst
<1>1. /\ speculated' = IF b \in speculated /\ backup[b] = p THEN speculated \ {b} ELSE speculated
      /\ backup' = backup
  BY DEF commit
<1>2. b \in ArchReg /\ naming \in [ArchReg -> PhysReg]
  BY FirstType DEF TypeOK, RenamingTypeOK
<1>3. /\ p = 0 <=> b = zeroReg
      /\ naming[zeroReg] = 0 /\ p = data[firstP].pdst
      /\ \A i \in Live : data[i].pdst = p /\ p # 0 => i = firstP
      /\ \A c \in ArchReg : p # 0 => naming[c] # p
  BY DEF HolderInv, PdstInv, ZeroInv, OneHolder, NamedRegs, InFlightRegs, first
<1>4. Writes(firstP, b) <=> first.epoch = epoch /\ b # zeroReg
  BY DEF Writes, first
<1>5. robPos(firstP) < robLen
  BY RingOrder DEF TypeOK, RobTypeOK
<1>6. Source(rename(b), b, robLen)
  BY <1>2 DEF MapInv
<1> HIDE DEF b, p
<1>7. CASE a # b
  <2>1. naming'[a] = naming[a]
    BY <1>2, <1>7 DEF RetireMap, b
  <2> QED  BY <1>1, <1>7, <2>1 DEF rename
<1>8. CASE a = b /\ b = zeroReg
  <2>1. naming'[a] = 0 /\ naming[a] = 0
    BY <1>2, <1>3, <1>8 DEF RetireMap, b, p
  <2> QED  BY <1>1, <1>3, <1>8, <2>1 DEF rename
<1>9. CASE a = b /\ b # zeroReg /\ first.epoch = epoch
  <2>1. naming'[b] = p
    BY <1>2, <1>9 DEF RetireMap, b, p
  <2>2. b \in speculated
    <3> SUFFICES ASSUME b \notin speculated PROVE FALSE
      OBVIOUS
    <3>1. Source(naming[b], b, robLen)
      BY <1>6 DEF rename
    <3>2. PICK i \in Live : LastWriter(i, b, robLen) /\ naming[b] = data[i].pdst
      BY <1>4, <1>5, <1>9, <3>1 DEF Source
    <3>3. data[i].pdst # 0
      BY <1>9, <3>2 DEF LastWriter, Writes, HolderInv, PdstInv
    <3>4. naming[b] \in NamedRegs
      BY <1>2 DEF NamedRegs
    <3>5. naming[b] \in InFlightRegs
      BY <3>2, <3>3 DEF InFlightRegs
    <3> QED  BY <3>4, <3>5 DEF HolderInv, OneHolder
  <2> QED  BY <1>1, <1>9, <2>1, <2>2 DEF rename
<1>10. CASE a = b /\ b # zeroReg /\ first.epoch # epoch
  <2>1. naming' = naming
    BY <1>10 DEF RetireMap
  <2>2. ~(b \in speculated /\ backup[b] = p)
    <3> SUFFICES ASSUME b \in speculated, backup[b] = p PROVE FALSE
      OBVIOUS
    <3>1. Source(p, b, robLen)
      BY <1>6 DEF rename
    <3>2. PICK i \in Live : LastWriter(i, b, robLen) /\ p = data[i].pdst
      BY <1>2, <1>3, <1>10, <3>1 DEF Source
    <3>3. i = firstP
      BY <1>3, <1>10, <3>2
    <3> QED  BY <1>4, <1>10, <3>2, <3>3 DEF LastWriter
  <2> QED  BY <1>1, <2>1, <2>2 DEF rename
<1> QED  BY <1>7, <1>8, <1>9, <1>10

LEMMA SourceRetire ==
  ASSUME TypeOK, HolderInv, ProducerInv, SourceInv, first_done, RetireMap,
         NEW keep \in BOOLEAN, NEW npc, deqRob(keep, FALSE, npc), UNCHANGED retireVars
  PROVE  SourceInv'
<1>1. /\ deq /\ commit(destination(instrOf(first)), first.pdst, keep, FALSE)
      /\ UNCHANGED <<prog, epoch, renamed, iq, direct>>
  BY DEF deqRob, retireVars
<1>2. resultValid \subseteq Live
  BY DEF ProducerInv
<1>3. /\ data' = data /\ firstP \in Live /\ Waiting' = Waiting /\ Waiting \subseteq Live'
      /\ Live \subseteq RobIndex
  BY <1>1, <1>2, SlotDeq DEF Waiting, Live
<1>4. /\ \A i \in Live' : \A p : \A a \in ArchReg : Reads(p, a, i) => Reads(p, a, i)'
      /\ \A p : \A a \in ArchReg : Source(p, a, robLen) => Source(p, a, robLen)'
  BY <1>1, <1>2, ReadsDeq
<1>5. \A i, j : regOf(i, j)' = regOf(i, j)
  BY <1>1, <1>3 DEF regOf, instrOf
<1>6. \A i \in Live : \A j : regOf(i, j) \in ArchReg
  <2>1. ASSUME NEW i \in Live PROVE instrOf(data[i]) \in Instr
    <3>1. data[i] \in RobEntry /\ prog \in [Pc -> Instr]
      BY <1>3 DEF TypeOK, RobTypeOK, FrontTypeOK
    <3>2. data[i].pc \in Pc
      BY <3>1 DEF RobEntry
    <3> QED  BY <3>1, <3>2 DEF instrOf
  <2> QED  BY <2>1, InstrType DEF regOf
<1>7. Live' \subseteq Live
  BY <1>1, <1>2, SlotDeq
<1>8. MapInv'
  <2>1. ASSUME NEW a \in ArchReg PROVE Source(rename(a), a, robLen)'
    <3>1. PICK p : p = rename(a)
      OBVIOUS
    <3>2. Source(p, a, robLen)'
      BY <1>4, <3>1 DEF SourceInv, MapInv
    <3>3. rename(a)' = p
      BY <1>1, <1>3, <3>1, RenameDeq DEF SourceInv
    <3> QED  BY <3>2, <3>3 DEF Source, LastWriter
  <2> QED  BY <2>1 DEF MapInv
<1>9. RenamedInv'
  <2>1. ASSUME renamed # <<>>, renamed[1].dec.epoch = epoch
        PROVE  /\ Source(renamed[1].regs[1], register1(instrOf(renamed[1].dec)), robLen)'
               /\ Source(renamed[1].regs[2], register2(instrOf(renamed[1].dec)), robLen)'
    <3>1. PICK p1, p2, a1, a2 :
            /\ p1 = renamed[1].regs[1] /\ p2 = renamed[1].regs[2]
            /\ a1 = register1(instrOf(renamed[1].dec)) /\ a2 = register2(instrOf(renamed[1].dec))
      OBVIOUS
    <3>2. Source(p1, a1, robLen) /\ Source(p2, a2, robLen)
      BY <2>1, <3>1 DEF SourceInv, RenamedInv
    <3>3. a1 \in ArchReg /\ a2 \in ArchReg
      BY <2>1, <3>1, RenamedType, InstrType DEF instrOf, TypeOK, FrontTypeOK
    <3>4. Source(p1, a1, robLen)' /\ Source(p2, a2, robLen)'
      BY <1>4, <3>2, <3>3
    <3>5. /\ renamed'[1].regs[1] = p1 /\ renamed'[1].regs[2] = p2
          /\ register1(instrOf(renamed[1].dec))' = a1 /\ register2(instrOf(renamed[1].dec))' = a2
      BY <1>1, <3>1 DEF instrOf
    <3> QED  BY <3>4, <3>5 DEF Source, LastWriter, Writes
  <2> QED  BY <1>1, <2>1 DEF RenamedInv
<1>10. IqReads'
  <2>1. ASSUME NEW t \in IqTag, NEW k \in 1 .. Len(iq[t]), NEW j \in 1 .. 2,
               data[iq[t][k].index].epoch = epoch
        PROVE  Reads(iq[t][k].regs[j], regOf(iq[t][k].index, j), iq[t][k].index)'
    <3>1. PICK p, a, i : p = iq[t][k].regs[j] /\ i = iq[t][k].index /\ a = regOf(i, j)
      OBVIOUS
    <3>2. Reads(p, a, i)
      BY <2>1, <3>1 DEF SourceInv, IqReads
    <3>3. i \in Live' /\ a \in ArchReg
      BY <1>3, <1>6, <1>7, <3>1 DEF ProducerInv, IqInv
    <3>4. Reads(p, a, i)' /\ regOf(i, j)' = a
      BY <1>4, <1>5, <3>1, <3>2, <3>3
    <3> QED  BY <1>1, <3>1, <3>4 DEF Reads, Source, LastWriter, Writes, regOf
  <2> QED  BY <1>1, <1>3, <2>1 DEF IqReads
<1>11. DirectSource'
  <2>1. PICK f : DirectOrder(f) /\ DirectReads(f)
    BY DEF SourceInv, DirectSource
  <2>2. DirectOrder(f)'
    BY <1>1, <2>1, DirectDeq
  <2>3. ASSUME NEW k \in 1 .. Len(direct), data[f[k]].epoch = epoch
        PROVE  Reads(direct[k][1], regOf(f[k], 1), f[k])'
    <3>1. PICK p, a, i : p = direct[k][1] /\ i = f[k] /\ a = regOf(i, 1)
      OBVIOUS
    <3>2. Reads(p, a, i)
      BY <2>1, <2>3, <3>1 DEF DirectReads
    <3>3. i \in Live' /\ a \in ArchReg
      BY <1>3, <1>6, <1>7, <2>1, <3>1 DEF DirectOrder
    <3>4. Reads(p, a, i)' /\ regOf(i, 1)' = a
      BY <1>4, <1>5, <3>1, <3>2, <3>3
    <3> QED  BY <1>1, <3>1, <3>4 DEF Reads, Source, LastWriter, Writes, regOf
  <2>4. DirectReads(f)'
    BY <1>1, <1>3, <2>3 DEF DirectReads
  <2> QED  BY <2>2, <2>4 DEF DirectSource
<1> QED  BY <1>8, <1>9, <1>10, <1>11 DEF SourceInv

(* A flush: nothing is current, so every name is the committed one.        *)
LEMMA SourceFlush ==
  ASSUME TypeOK, OrderInv, ProducerInv, SourceInv, first_done, first.epoch = epoch,
         NEW keep \in BOOLEAN, NEW npc, deqRob(keep, TRUE, npc), UNCHANGED retireVars
  PROVE  /\ SourceInv'
         /\ \A i \in Live' : data'[i].epoch # epoch'
<1>1. /\ deq /\ commit(destination(instrOf(first)), first.pdst, keep, TRUE)
      /\ epoch' = nextEpoch /\ UNCHANGED <<prog, renamed, iq, direct>>
  BY DEF deqRob, retireVars
<1>2. resultValid \subseteq Live
  BY DEF ProducerInv
<1>3. data' = data /\ Live' \subseteq Live /\ Waiting' = Waiting /\ Waiting \subseteq Live
  BY <1>1, <1>2, SlotDeq DEF Waiting
<1>4. epoch' # epoch
  BY <1>1, EpochStep DEF nextEpoch, TypeOK, FrontTypeOK
<1>5. /\ \A i \in Live : data'[i].epoch # epoch'
      /\ renamed # <<>> => renamed[1].dec.epoch # epoch'
  BY <1>3, <1>4, AllCurrent DEF first_done
<1>6. \A i, a : ~Writes(i, a)'
  BY <1>3, <1>5 DEF Writes
<1>7. speculated' = {}
  BY <1>1 DEF commit
<1>8. MapInv'
  <2>1. \A a : rename(a)' = naming'[a]
    BY <1>7 DEF rename
  <2> QED  BY <1>6, <2>1 DEF MapInv, Source
<1>9. RenamedInv'
  BY <1>1, <1>5 DEF RenamedInv
<1>10. IqReads'
  <2>1. \A t \in IqTag : \A k \in 1 .. Len(iq[t]) : iq[t][k].index \in Live
    BY <1>3 DEF ProducerInv, IqInv
  <2> QED  BY <1>1, <1>5, <2>1 DEF IqReads
<1>11. DirectSource'
  <2>1. PICK f : DirectOrder(f)
    BY DEF SourceInv, DirectSource
  <2>2. DirectOrder(f)'
    BY <1>1, <2>1, DirectDeq
  <2>3. DirectReads(f)'
    BY <1>1, <1>3, <1>5, <2>1 DEF DirectReads, DirectOrder
  <2> QED  BY <2>2, <2>3 DEF DirectSource
<1> QED  BY <1>3, <1>5, <1>8, <1>9, <1>10, <1>11 DEF SourceInv


-----------------------------------------------------------------------------
(* SourceInv is an invariant.                                              *)

(* A retirement either keeps the epoch or flushes the machine.             *)
LEMMA RetireSteps ==
  ASSUME Retirement
  PROVE  /\ first_done /\ deq /\ commit_dmem /\ UNCHANGED retireVars
         /\ \E keep \in BOOLEAN : \E npc :
              \/ RetireMap /\ deqRob(keep, FALSE, npc)
              \/ first.epoch = epoch /\ deqRob(keep, TRUE, npc)
<1>1. CASE discard_instruction
  <2>1. RetireMap /\ deqRob(FALSE, FALSE, 0)
    BY <1>1 DEF discard_instruction, deqRob, commit, RetireMap
  <2> QED  BY <1>1, <2>1 DEF discard_instruction, deqRob
<1>2. CASE commit_killed
  BY <1>2 DEF commit_killed, deqRob
<1>3. CASE commit_interrupt
  BY <1>3 DEF commit_interrupt, trap, deqRob
<1>4. CASE commit_exception
  BY <1>4 DEF commit_exception, trap, deqRob
<1>5. CASE commit_ok
  <2> DEFINE flush == first_result.npc # first.pred \/ first_result.flush
  <2>1. /\ first.epoch = epoch /\ deqRob(TRUE, flush, first_result.npc)
        /\ first_done /\ deq /\ commit_dmem /\ UNCHANGED retireVars
    BY <1>5 DEF commit_ok, deqRob
  <2>2. RetireMap
    BY <2>1 DEF deqRob, commit, RetireMap
  <2> HIDE DEF flush
  <2>3. flush => deqRob(TRUE, TRUE, first_result.npc)
    BY <2>1 DEF deqRob, commit
  <2>4. ~flush => deqRob(TRUE, FALSE, first_result.npc)
    BY <2>1 DEF deqRob, commit
  <2> QED  BY <2>1, <2>2, <2>3, <2>4
<1> QED  BY <1>1, <1>2, <1>3, <1>4, <1>5 DEF Retirement

LEMMA WriteBackSource ==
  ASSUME TypeOK, ResultsInv, SourceInv, NEW t \in IqTag, NEW o, WriteBackStep(t, o)
  PROVE  SourceInv'
<1>1. /\ o \in fu[t] /\ writeBack(o.index, o.result) /\ wakeupFn(o.pdst, o.result)
      /\ UNCHANGED <<prog, epoch, renamed, direct>>
  BY DEF WriteBackStep
<1>2. ~isDirect(o.index)
  BY <1>1 DEF ResultsInv, ProducerInv, FuInv, IqTag, isDirect, tagOf
<1> QED  BY <1>1, <1>2, SourceWrite

LEMMA FailHead ==
  ASSUME TypeOK, ResultsInv, decodeFail # <<>>
  PROVE  Head(decodeFail) \in Waiting /\ decodeErr(data[Head(decodeFail)])
<1>1. Head(decodeFail) = decodeFail[1] /\ 1 \in 1 .. Len(decodeFail)
  BY TailFacts DEF TypeOK, ExecTypeOK
<1> QED  BY <1>1 DEF ResultsInv, ProducerInv, FailInv

LEMMA WriteBackFailSource ==
  ASSUME TypeOK, ResultsInv, SourceInv, write_back_fail
  PROVE  SourceInv'
<1>1. /\ decodeFail # <<>> /\ writeBack(Head(decodeFail), Error) /\ wakeupFn(0, Error)
      /\ UNCHANGED <<prog, epoch, renamed, direct>>
  BY DEF write_back_fail
<1>2. ~isDirect(Head(decodeFail))
  BY <1>1, FailHead DEF isDirect
<1> QED  BY <1>1, <1>2, SourceWrite

LEMMA SourceNext ==
  ASSUME TypeOK, HolderInv, OrderInv, ResultsInv, SourceInv, [Next]_vars
  PROVE  SourceInv'
<1> USE DEF robVars, renamingVars
<1>0. ProducerInv
  BY DEF ResultsInv
<1>1. CASE \E pred \in Pc : fetch(pred)
  <2>1. UNCHANGED bufferVars /\ UNCHANGED <<renamed, iq, direct, resultValid>>
    BY <1>1 DEF fetch, bufferVars
  <2>2. RenamedInv'
    BY <2>1, SourceSame DEF SourceInv
  <2> QED  BY <1>0, <2>1, <2>2, SourceFront
<1>2. CASE rename_rule
  BY <1>0, <1>2, SourceRename
<1>3. CASE dispatch_stale
  <2>1. UNCHANGED bufferVars /\ UNCHANGED <<iq, direct, resultValid>> /\ renamed' = <<>>
    BY <1>3 DEF dispatch_stale, bufferVars
  <2>2. RenamedInv'
    BY <2>1, SourceSame DEF SourceInv
  <2> QED  BY <1>0, <2>1, <2>2, SourceFront
<1>4. CASE dispatch_exception
  BY <1>0, <1>4, SourceDispatchException
<1>5. CASE \E t \in ExecTag : dispatch(t)
  BY <1>0, <1>5, SourceDispatch
<1>6. CASE \E t \in IqTag : connect(t)
  <2>1. PICK t \in IqTag : connect(t)
    BY <1>6
  <2>2. PICK k, r : ConnectStep(t, k, r)
    BY <2>1, ConnectSteps, Zenon
  <2> QED  BY <2>2, SourceConnect
<1>7. CASE \E t \in IqTag : write_back(t)
  <2>1. \E t \in IqTag : \E o : WriteBackStep(t, o)
    BY <1>7, Zenon DEF write_back, WriteBackStep
  <2> QED  BY <2>1, WriteBackSource
<1>8. CASE write_back_fail
  BY <1>8, WriteBackFailSource
<1>9. CASE execute_direct
  BY <1>0, <1>9, SourceExecute
<1>10. CASE Retirement
  <2>1. first_done /\ UNCHANGED retireVars
    BY <1>10, RetireSteps
  <2>2. PICK keep \in BOOLEAN : \E npc :
          \/ RetireMap /\ deqRob(keep, FALSE, npc)
          \/ first.epoch = epoch /\ deqRob(keep, TRUE, npc)
    BY <1>10, RetireSteps
  <2> QED  BY <1>0, <2>1, <2>2, SourceRetire, SourceFlush
<1>11. CASE UNCHANGED vars
  <2>1. UNCHANGED bufferVars /\ UNCHANGED <<renamed, iq, direct, resultValid>>
    BY <1>11 DEF vars, coreVars, bufferVars
  <2>2. RenamedInv'
    BY <2>1, SourceSame DEF SourceInv
  <2> QED  BY <1>0, <2>1, <2>2, SourceFront
<1> QED
  BY <1>1, <1>2, <1>3, <1>4, <1>5, <1>6, <1>7, <1>8, <1>9, <1>10, <1>11, Zenon DEF Next

LEMMA SourceInit == Init => SourceInv
<1> SUFFICES ASSUME Init PROVE SourceInv
  OBVIOUS
<1>1. Live = {} /\ resultValid = {} /\ Waiting = {}
  BY DEF Init, mkROB, Live, Waiting
<1>2. /\ \A t \in IqTag : iq[t] = <<>>
      /\ direct = <<>> /\ renamed = <<>> /\ speculated = {}
  BY DEF Init, mkRenamingTable
<1>3. MapInv
  BY <1>1, <1>2 DEF MapInv, Source, rename
<1>4. RenamedInv /\ IqReads
  BY <1>2 DEF RenamedInv, IqReads
<1>5. DirectSource
  <2>1. PICK f : f = [k \in 1 .. 0 |-> 0]
    OBVIOUS
  <2>2. DirectOrder(f) /\ DirectReads(f)
    BY <1>1, <1>2, <2>1 DEF DirectOrder, DirectReads
  <2> QED  BY <2>2 DEF DirectSource
<1> QED  BY <1>3, <1>4, <1>5 DEF SourceInv

(* Every physical register named anywhere for an instruction of the        *)
(* current epoch is the one where its operand is or will be.               *)
THEOREM SourceCorrect == Spec => []SourceInv
<1>1. TypeOK /\ HolderInv /\ OrderInv /\ ResultsInv /\ SourceInv /\ [Next]_vars => SourceInv'
  BY SourceNext
<1> QED
  BY <1>1, SourceInit, TypeCorrect, HolderCorrect, OrderCorrect, ResultsCorrect, PTL DEF Spec

LEMMA SourceHolds ==
  ASSUME HolderInv, NEW p, NEW a \in ArchReg, NEW n, Source(p, a, n)
  PROVE  \/ p \in NamedRegs
         \/ p \in InFlightRegs /\ \E i \in Live : data[i].pdst = p /\ robPos(i) < n
<1>1. CASE p = naming[a]
  BY <1>1 DEF NamedRegs
<1>2. CASE \E i \in Live : LastWriter(i, a, n) /\ p = data[i].pdst
  <2>1. PICK i \in Live : LastWriter(i, a, n) /\ p = data[i].pdst
    BY <1>2
  <2>2. p # 0
    BY <2>1 DEF LastWriter, Writes, HolderInv, PdstInv
  <2> QED  BY <2>1, <2>2 DEF LastWriter, InFlightRegs
<1> QED  BY <1>1, <1>2 DEF Source

LEMMA NoUse == TypeOK /\ HolderInv /\ ResultsInv /\ SourceInv => NoUseAfterFree
<1> SUFFICES ASSUME TypeOK, HolderInv, ResultsInv, SourceInv PROVE NoUseAfterFree
  OBVIOUS
<1>1. ASSUME NEW t \in IqTag, NEW k \in 1 .. Len(iq[t]), NEW j \in 1 .. 2,
             data[iq[t][k].index].epoch = epoch
      PROVE  \/ iq[t][k].regs[j] \in NamedRegs
             \/ \E i \in Live : data[i].pdst = iq[t][k].regs[j] /\ robPos(i) < robPos(iq[t][k].index)
  <2>1. Source(iq[t][k].regs[j], regOf(iq[t][k].index, j), robPos(iq[t][k].index))
    BY <1>1 DEF SourceInv, IqReads, Reads
  <2>2. regOf(iq[t][k].index, j) \in ArchReg
    <3>1. iq[t][k].index \in RobIndex
      BY DEF ResultsInv, ProducerInv, IqInv, Waiting, Live
    <3>2. data[iq[t][k].index] \in RobEntry /\ prog \in [Pc -> Instr]
      BY <3>1 DEF TypeOK, RobTypeOK, FrontTypeOK
    <3>3. instrOf(data[iq[t][k].index]) \in Instr
      BY <3>2 DEF instrOf, RobEntry
    <3> QED  BY <3>3, InstrType DEF regOf
  <2> QED  BY <2>1, <2>2, SourceHolds
<1>2. ASSUME NEW k \in 1 .. Len(renamed), renamed[k].dec.epoch = epoch, NEW j \in 1 .. 2
      PROVE  renamed[k].regs[j] \in NamedRegs \cup InFlightRegs
  <2>1. renamed # <<>> /\ k = 1
    BY <1>2 DEF TypeOK, FrontTypeOK
  <2>2. instrOf(renamed[1].dec) \in Instr
    BY <2>1, RenamedType DEF instrOf, TypeOK, FrontTypeOK
  <2>3. j = 1 \/ j = 2
    OBVIOUS
  <2> QED  BY <1>2, <2>1, <2>2, <2>3, SourceHolds, InstrType DEF SourceInv, RenamedInv
<1> QED  BY <1>1, <1>2 DEF NoUseAfterFree

(* A physical register some current instruction is about to read has not   *)
(* been freed, and holds or will hold the value of an older instruction.   *)
THEOREM NoUseAfterFreeCorrect == Spec => []NoUseAfterFree
BY NoUse, SourceCorrect, TypeCorrect, HolderCorrect, ResultsCorrect, PTL


-----------------------------------------------------------------------------
(* Values.  A register that is not busy keeps its value as long as some    *)
(* current instruction reads it, so a result stays the one the ISA         *)
(* computes from the sources of its instruction.                           *)

(* r is what the unit of slot i may answer from its sources.               *)
Computed(i, r) ==
  \E p, q \in PhysReg :
    /\ Reads(p, regOf(i, 1), i) /\ Reads(q, regOf(i, 2), i)
    /\ p \notin scoreboard /\ q \notin scoreboard
    /\ r \in unitResults(instrOf(data[i]), data[i].pc, registers[p], registers[q])

ReadyInv ==
  \A t \in IqTag : \A k \in 1 .. Len(iq[t]) : \A j \in 1 .. 2 :
    data[iq[t][k].index].epoch = epoch /\ iq[t][k].rdy[j] => iq[t][k].regs[j] \notin scoreboard

FuResult ==
  \A t \in IqTag : \A o \in fu[t] :
    data[o.index].epoch = epoch => Computed(o.index, o.result)

(* The register file agrees with the reorder buffer.                       *)
HeldInv == \A i \in resultValid : data[i].pdst # 0 => registers[data[i].pdst] = results[i].val

ComputedInv ==
  \A i \in resultValid :
    data[i].epoch = epoch /\ tagOf(i) # "DIRECT" => Computed(i, results[i])

FailedInv == \A i \in resultValid : decodeErr(data[i]) => results[i] = Error

(* A direct instruction executes at the head only.                         *)
DirectDone == \A i \in resultValid : isDirect(i) => i = firstP

ZeroValue == registers[0] = 0

ValueInv ==
  /\ ReadyInv /\ FuResult /\ HeldInv /\ ComputedInv /\ FailedInv /\ DirectDone /\ ZeroValue

(* The step leaves what slot i reads as it was.                            *)
KeepsReads(i) ==
  \A p \in PhysReg : \A a \in ArchReg :
    Reads(p, a, i) /\ p \notin scoreboard =>
      Reads(p, a, i)' /\ p \notin scoreboard' /\ registers'[p] = registers[p]

LEMMA RegOfType ==
  ASSUME TypeOK, NEW i \in Live
  PROVE  \A j : regOf(i, j) \in ArchReg
<1>1. data[i] \in RobEntry /\ prog \in [Pc -> Instr]
  BY DEF TypeOK, RobTypeOK, FrontTypeOK, Live
<1>2. instrOf(data[i]) \in Instr
  BY <1>1 DEF instrOf, RobEntry
<1> QED  BY <1>2, InstrType DEF regOf

LEMMA ComputedKept ==
  ASSUME TypeOK, NEW i \in Live, data'[i] = data[i], prog' = prog, KeepsReads(i),
         NEW r, Computed(i, r)
  PROVE  Computed(i, r)'
<1>1. PICK p, q \in PhysReg :
        /\ Reads(p, regOf(i, 1), i) /\ Reads(q, regOf(i, 2), i)
        /\ p \notin scoreboard /\ q \notin scoreboard
        /\ r \in unitResults(instrOf(data[i]), data[i].pc, registers[p], registers[q])
  BY DEF Computed
<1>2. PICK a, b : a = regOf(i, 1) /\ b = regOf(i, 2)
  OBVIOUS
<1>3. a \in ArchReg /\ b \in ArchReg
  BY <1>2, RegOfType
<1>4. /\ Reads(p, a, i)' /\ Reads(q, b, i)' /\ p \notin scoreboard' /\ q \notin scoreboard'
      /\ registers'[p] = registers[p] /\ registers'[q] = registers[q]
  BY <1>1, <1>2, <1>3 DEF KeepsReads
<1>5. regOf(i, 1)' = a /\ regOf(i, 2)' = b /\ instrOf(data[i])' = instrOf(data[i])
  BY <1>2 DEF regOf, instrOf
<1>6. (r \in unitResults(instrOf(data[i]), data[i].pc, registers[p], registers[q]))'
  BY <1>1, <1>4, <1>5
<1>7. Reads(p, regOf(i, 1), i)' /\ Reads(q, regOf(i, 2), i)'
  BY <1>4, <1>5 DEF Reads, Source, LastWriter, Writes
<1> QED  BY <1>4, <1>6, <1>7 DEF Computed

LEMMA KeepsFrame ==
  ASSUME UNCHANGED <<prog, epoch, naming, data, firstP, nextP, empty, full, registers, scoreboard>>,
         NEW i
  PROVE  KeepsReads(i)
BY SourceFrame DEF KeepsReads

LEMMA KeepsWrite ==
  ASSUME TypeOK, UNCHANGED <<prog, epoch>>,
         NEW n, NEW r, writeBack(n, r), NEW w, wakeupFn(w, r), w = 0 \/ w \in scoreboard,
         NEW i
  PROVE  KeepsReads(i)
<1>1. /\ UNCHANGED <<prog, epoch, naming, data, firstP, nextP, empty, full>>
      /\ scoreboard' = scoreboard \ {w}
      /\ registers' = IF w # 0 THEN [registers EXCEPT ![w] = r.val] ELSE registers
  BY DEF writeBack, wakeupFn, wakeup
<1>2. \A p, a : Reads(p, a, i) => Reads(p, a, i)'
  BY <1>1, SourceFrame
<1>3. \A p \in PhysReg : p \notin scoreboard => registers'[p] = registers[p]
  BY <1>1 DEF TypeOK, ExecTypeOK
<1> QED  BY <1>1, <1>2, <1>3 DEF KeepsReads

LEMMA KeepsEnq ==
  ASSUME TypeOK, HolderInv, resultValid \subseteq Live, NEW e, enq(e),
         UNCHANGED <<prog, epoch, naming, registers>>,
         scoreboard' \subseteq scoreboard \cup FreeRegs
  PROVE  \A i \in Live : KeepsReads(i)
<1>1. \A i \in Live : \A p, a : Reads(p, a, i) => Reads(p, a, i)'
  BY ReadsEnq
<1>2. ASSUME NEW i \in Live, NEW p, NEW a \in ArchReg, Reads(p, a, i)
      PROVE  p \notin FreeRegs
  BY <1>2, SourceHolds DEF Reads, HolderInv, OneHolder
<1> QED  BY <1>1, <1>2 DEF KeepsReads

LEMMA KeepsDeq ==
  ASSUME TypeOK, HolderInv, resultValid \subseteq Live, deq, first_done, RetireMap,
         UNCHANGED <<prog, epoch, registers, scoreboard>>
  PROVE  \A i \in Live' : KeepsReads(i)
<1>1. \A i \in Live' : \A p : \A a \in ArchReg : Reads(p, a, i) => Reads(p, a, i)'
  BY ReadsDeq
<1> QED  BY <1>1 DEF KeepsReads


(* The slots of S keep their entries and what they read.                   *)
Kept(S) ==
  /\ UNCHANGED <<prog, epoch>>
  /\ \A i \in S : i \in Live /\ data'[i] = data[i] /\ KeepsReads(i)

(* Every entry of the queues was there, and is woken by what is not busy.  *)
IqOld ==
  \A t \in IqTag : \A k \in 1 .. Len(iq'[t]) : \E m \in 1 .. Len(iq[t]) :
    /\ iq'[t][k].index = iq[t][m].index /\ iq'[t][k].regs = iq[t][m].regs
    /\ \A j \in 1 .. 2 :
         iq'[t][k].rdy[j] => iq[t][m].rdy[j] \/ iq[t][m].regs[j] \notin scoreboard'

LEMMA EntryKept ==
  ASSUME TypeOK, ProducerInv, IqReads, ReadyInv, NEW S, Waiting \subseteq S, Kept(S),
         NEW t \in IqTag, NEW m \in 1 .. Len(iq[t]), NEW j \in 1 .. 2,
         data'[iq[t][m].index].epoch = epoch',
         iq[t][m].rdy[j] \/ iq[t][m].regs[j] \notin scoreboard'
  PROVE  iq[t][m].regs[j] \notin scoreboard'
<1>1. CASE iq[t][m].rdy[j]
  <2>1. PICK i, p, a : i = iq[t][m].index /\ p = iq[t][m].regs[j] /\ a = regOf(i, j)
    OBVIOUS
  <2>2. i \in Waiting
    BY <2>1 DEF ProducerInv, IqInv
  <2>3. i \in Live /\ data[i].epoch = epoch /\ KeepsReads(i)
    BY <2>1, <2>2 DEF Kept
  <2>4. Reads(p, a, i) /\ p \notin scoreboard
    BY <1>1, <2>1, <2>3 DEF IqReads, ReadyInv
  <2>5. a \in ArchReg
    BY <2>1, <2>3, RegOfType
  <2>6. p \in PhysReg
    <3>1. iq[t][m] \in IqEntry
      BY DEF TypeOK, ExecTypeOK
    <3> QED  BY <2>1, <3>1 DEF IqEntry
  <2>7. p \notin scoreboard'
    BY <2>3, <2>4, <2>5, <2>6 DEF KeepsReads
  <2> QED  BY <2>1, <2>7
<1> QED  BY <1>1

LEMMA ReadyKept ==
  ASSUME TypeOK, ProducerInv, IqReads, ReadyInv, NEW S, Waiting \subseteq S, Kept(S), IqOld
  PROVE  ReadyInv'
<1>1. ASSUME NEW t \in IqTag, NEW k \in 1 .. Len(iq'[t]), NEW j \in 1 .. 2,
             data'[iq'[t][k].index].epoch = epoch', iq'[t][k].rdy[j]
      PROVE  iq'[t][k].regs[j] \notin scoreboard'
  <2>1. PICK m \in 1 .. Len(iq[t]) :
          /\ iq'[t][k].index = iq[t][m].index /\ iq'[t][k].regs = iq[t][m].regs
          /\ \A i \in 1 .. 2 :
               iq'[t][k].rdy[i] => iq[t][m].rdy[i] \/ iq[t][m].regs[i] \notin scoreboard'
    BY DEF IqOld
  <2> QED  BY <1>1, <2>1, EntryKept
<1> QED  BY <1>1 DEF ReadyInv

LEMMA FuKept ==
  ASSUME TypeOK, ProducerInv, FuResult, NEW S, Waiting \subseteq S, Kept(S),
         NEW t \in IqTag, NEW o \in fu[t], data'[o.index].epoch = epoch'
  PROVE  \A i : i = o.index => Computed(i, o.result)'
<1>1. PICK i, r : i = o.index /\ r = o.result
  OBVIOUS
<1>2. i \in Waiting
  BY <1>1 DEF ProducerInv, FuInv
<1>3. i \in Live /\ data'[i] = data[i] /\ KeepsReads(i) /\ data[i].epoch = epoch /\ prog' = prog
  BY <1>1, <1>2 DEF Kept
<1>4. Computed(i, r)
  BY <1>1, <1>3 DEF FuResult
<1>5. Computed(i, r)'
  BY <1>3, <1>4, ComputedKept
<1> QED  BY <1>1, <1>5

LEMMA FuResultKept ==
  ASSUME TypeOK, ProducerInv, FuResult, NEW S, Waiting \subseteq S, Kept(S),
         \A t \in IqTag : fu'[t] \subseteq fu[t]
  PROVE  FuResult'
<1>1. ASSUME NEW t \in IqTag, NEW o \in fu'[t], data'[o.index].epoch = epoch'
      PROVE  Computed(o.index, o.result)'
  <2>1. o \in fu[t]
    OBVIOUS
  <2> QED  BY <1>1, <2>1, FuKept
<1> QED  BY <1>1 DEF FuResult

(* A result that stays is still right.                                     *)
LEMMA ResultKept ==
  ASSUME TypeOK, ValueInv, NEW S, Kept(S), NEW i \in S, i \in resultValid, results'[i] = results[i]
  PROVE  /\ data'[i].epoch = epoch' /\ tagOf(i)' # "DIRECT" => Computed(i, results[i])'
         /\ decodeErr(data[i])' => results'[i] = Error
<1>1. i \in Live /\ data'[i] = data[i] /\ KeepsReads(i) /\ UNCHANGED <<prog, epoch>>
  BY DEF Kept
<1>2. tagOf(i)' = tagOf(i) /\ (decodeErr(data[i])' <=> decodeErr(data[i]))
  BY <1>1 DEF tagOf, decodeErr, instrOf
<1>3. ASSUME data'[i].epoch = epoch', tagOf(i)' # "DIRECT" PROVE Computed(i, results[i])'
  <2>1. PICK r : r = results[i]
    OBVIOUS
  <2>2. Computed(i, r)
    BY <1>1, <1>2, <1>3, <2>1 DEF ValueInv, ComputedInv
  <2>3. Computed(i, r)'
    BY <1>1, <2>2, ComputedKept
  <2>4. results'[i] = r
    BY <2>1
  <2> QED  BY <2>3, <2>4 DEF Computed
<1> QED  BY <1>2, <1>3 DEF ValueInv, FailedInv

-----------------------------------------------------------------------------
(* ValueInv, step by step.                                                 *)

valueVars == <<prog, epoch, naming, data, firstP, nextP, empty, full, registers, scoreboard,
               results, resultValid>>

LEMMA ValueSame ==
  ASSUME TypeOK, ProducerInv, IqReads, ValueInv, UNCHANGED valueVars
  PROVE  /\ Kept(Live) /\ Waiting \subseteq Live
         /\ HeldInv' /\ ComputedInv' /\ FailedInv' /\ DirectDone' /\ ZeroValue'
<1>1. Kept(Live) /\ Waiting \subseteq Live
  BY KeepsFrame DEF Kept, Waiting, valueVars
<1>2. \A i : tagOf(i)' = tagOf(i) /\ (isDirect(i)' <=> isDirect(i))
             /\ (decodeErr(data[i])' <=> decodeErr(data[i]))
  BY SlotSame DEF valueVars
<1>3. resultValid \subseteq Live
  BY DEF ProducerInv
<1>4. ComputedInv' /\ FailedInv'
  BY <1>1, <1>3, ResultKept DEF ComputedInv, FailedInv, valueVars
<1>5. HeldInv' /\ DirectDone' /\ ZeroValue'
  BY <1>2 DEF ValueInv, HeldInv, DirectDone, ZeroValue, valueVars
<1> QED  BY <1>1, <1>4, <1>5

LEMMA ValueFrame ==
  ASSUME TypeOK, ProducerInv, IqReads, ValueInv, UNCHANGED valueVars, UNCHANGED <<iq, fu>>
  PROVE  ValueInv'
<1>1. IqOld
  BY DEF IqOld
<1> QED  BY <1>1, ValueSame, ReadyKept, FuResultKept DEF ValueInv

(* The operation reads its sources, none of them busy.                     *)
LEMMA ConnectComputes ==
  ASSUME TypeOK, ProducerInv, IqReads, ReadyInv, NEW t \in IqTag, NEW k, NEW r, ConnectStep(t, k, r),
         data[iq[t][k].index].epoch = epoch
  PROVE  Computed(iq[t][k].index, r)
<1>1. /\ k \in 1 .. Len(iq[t]) /\ iq[t][k].rdy[1] /\ iq[t][k].rdy[2]
      /\ r \in unitResults(prog[iq[t][k].pc], iq[t][k].pc,
                           registers[iq[t][k].regs[1]], registers[iq[t][k].regs[2]])
  BY DEF ConnectStep
<1>2. PICK i, p, q : i = iq[t][k].index /\ p = iq[t][k].regs[1] /\ q = iq[t][k].regs[2]
  OBVIOUS
<1>3. p \in PhysReg /\ q \in PhysReg
  <2>1. iq[t][k] \in IqEntry
    BY <1>1 DEF TypeOK, ExecTypeOK
  <2> QED  BY <1>2, <2>1 DEF IqEntry
<1>4. Reads(p, regOf(i, 1), i) /\ Reads(q, regOf(i, 2), i) /\ p \notin scoreboard /\ q \notin scoreboard
  BY <1>1, <1>2 DEF IqReads, ReadyInv
<1>5. iq[t][k].pc = data[i].pc
  BY <1>1, <1>2 DEF ProducerInv, IqInv
<1>6. r \in unitResults(instrOf(data[i]), data[i].pc, registers[p], registers[q])
  BY <1>1, <1>2, <1>5 DEF instrOf
<1> QED  BY <1>2, <1>3, <1>4, <1>6 DEF Computed

LEMMA ValueConnect ==
  ASSUME TypeOK, ProducerInv, IqReads, ValueInv, NEW t \in IqTag, NEW k, NEW r, ConnectStep(t, k, r)
  PROVE  ValueInv'
<1>1. /\ UNCHANGED valueVars /\ k \in 1 .. Len(iq[t])
      /\ iq' = [iq EXCEPT ![t] = iqDeq(iq[t], k)]
      /\ fu' = [fu EXCEPT ![t] = @ \cup {[index |-> iq[t][k].index, pdst |-> iq[t][k].pdst,
                                          result |-> r]}]
  BY DEF ConnectStep, valueVars, robVars, renamingVars
<1>2. Kept(Live) /\ Waiting \subseteq Live
  BY <1>1, ValueSame
<1>3. IqOld
  <2>1. ASSUME NEW u \in IqTag, NEW j \in 1 .. Len(iq'[u])
        PROVE  \E m \in 1 .. Len(iq[u]) : iq'[u][j] = iq[u][m]
    <3>1. CASE u = t
      <4>1. iq'[t] = iqDeq(iq[t], k) /\ iq[t] \in Seq(IqEntry)
        BY <1>1 DEF TypeOK, ExecTypeOK
      <4>2. Without(iq[t], k, iqDeq(iq[t], k))
        BY <1>1, <4>1, DeqFacts
      <4>3. \A i \in 1 .. Len(iqDeq(iq[t], k)) :
              \E m \in 1 .. Len(iq[t]) : m # k /\ iqDeq(iq[t], k)[i] = iq[t][m]
        BY <4>2, Zenon DEF Without
      <4>4. PICK m \in 1 .. Len(iq[t]) : iq'[t][j] = iq[t][m]
        BY <3>1, <4>1, <4>3
      <4> QED  BY <3>1, <4>4
    <3>2. CASE u # t
      BY <1>1, <3>2 DEF TypeOK, ExecTypeOK
    <3> QED  BY <3>1, <3>2
  <2>2. ASSUME NEW u \in IqTag, NEW j \in 1 .. Len(iq'[u])
        PROVE  \E m \in 1 .. Len(iq[u]) :
                 /\ iq'[u][j].index = iq[u][m].index /\ iq'[u][j].regs = iq[u][m].regs
                 /\ \A n \in 1 .. 2 :
                      iq'[u][j].rdy[n] => iq[u][m].rdy[n] \/ iq[u][m].regs[n] \notin scoreboard'
    <3>1. PICK m \in 1 .. Len(iq[u]) : iq'[u][j] = iq[u][m]
      BY <2>1
    <3> QED  BY <3>1
  <2> QED  BY <2>2 DEF IqOld
<1>4. FuResult'
  <2>1. ASSUME NEW u \in IqTag, NEW o \in fu'[u], data'[o.index].epoch = epoch'
        PROVE  Computed(o.index, o.result)'
    <3>1. CASE o \in fu[u]
      BY <1>2, <2>1, <3>1, FuKept DEF ValueInv
    <3>2. CASE o \notin fu[u]
      <4>1. u = t /\ o = [index |-> iq[t][k].index, pdst |-> iq[t][k].pdst, result |-> r]
        BY <1>1, <2>1, <3>2 DEF TypeOK, ExecTypeOK
      <4>2. PICK i : i = iq[t][k].index
        OBVIOUS
      <4>3. o.index = i /\ o.result = r
        BY <4>1, <4>2
      <4>4. data[i].epoch = epoch
        BY <1>1, <2>1, <4>3 DEF valueVars
      <4>5. Computed(i, r)
        BY <4>2, <4>4, ConnectComputes DEF ValueInv
      <4>6. i \in Live /\ data'[i] = data[i] /\ prog' = prog /\ KeepsReads(i)
        BY <1>1, <1>2, <4>2 DEF Kept, ProducerInv, IqInv
      <4>7. Computed(i, r)'
        BY <4>5, <4>6, ComputedKept
      <4> QED  BY <4>3, <4>7
    <3> QED  BY <3>1, <3>2
  <2> QED  BY <2>1 DEF FuResult
<1> QED  BY <1>1, <1>2, <1>3, <1>4, ValueSame, ReadyKept DEF ValueInv


(* The write of a result, whoever computed it.                             *)
LEMMA ValueWrite ==
  ASSUME TypeOK, HolderInv, ProducerInv, NoLostWakeup, IqReads, ValueInv,
         NEW n \in Waiting, NEW r, writeBack(n, r), NEW w, w = data[n].pdst, wakeupFn(w, r),
         UNCHANGED <<prog, epoch>>, \A t \in IqTag : fu'[t] \subseteq fu[t],
         data[n].epoch = epoch /\ tagOf(n) # "DIRECT" => Computed(n, r),
         decodeErr(data[n]) => r = Error,
         isDirect(n) => n = firstP
  PROVE  ValueInv'
<1>1. /\ UNCHANGED <<data, firstP, nextP, empty, full, naming>>
      /\ scoreboard' = scoreboard \ {w} /\ resultValid' = resultValid \cup {n}
      /\ results' = [results EXCEPT ![n] = r]
      /\ registers' = IF w # 0 THEN [registers EXCEPT ![w] = r.val] ELSE registers
  BY DEF writeBack, wakeupFn, wakeup
<1>2. n \in RobIndex /\ n \in Live /\ n \notin resultValid /\ resultValid \subseteq Live
  BY DEF Waiting, Live, ProducerInv
<1>3. w = 0 \/ w \in scoreboard
  BY WakeupParts, BusyParts
<1>4. Kept(Live) /\ Waiting \subseteq Live
  BY <1>1, <1>3, KeepsWrite DEF Kept, Waiting
<1>5. \A i : tagOf(i)' = tagOf(i) /\ (isDirect(i)' <=> isDirect(i))
             /\ (decodeErr(data[i])' <=> decodeErr(data[i]))
  BY <1>1, SlotSame
<1>6. /\ results'[n] = r
      /\ \A i \in resultValid : i # n /\ results'[i] = results[i]
  <2>1. results \in [RobIndex -> ExecResult] /\ resultValid \subseteq RobIndex
    BY DEF TypeOK, RobTypeOK
  <2> QED  BY <1>1, <1>2, <2>1
<1>7. ReadyInv'
  <2>1. IqOld
    <3>1. \A t \in IqTag :
            /\ Len(iq'[t]) = Len(iq[t])
            /\ \A k \in 1 .. Len(iq[t]) :
                 /\ iq'[t][k].index = iq[t][k].index /\ iq'[t][k].regs = iq[t][k].regs
                 /\ \A j \in 1 .. 2 : iq'[t][k].rdy[j] <=> iq[t][k].rdy[j] \/ iq[t][k].regs[j] = w
      BY WakeupFacts DEF TypeOK, ExecTypeOK
    <3> QED  BY <1>1, <3>1 DEF IqOld
  <2> QED  BY <1>4, <2>1, ReadyKept DEF ValueInv
<1>8. FuResult'
  BY <1>4, FuResultKept DEF ValueInv
<1>9. HeldInv'
  <2>1. ASSUME NEW i \in resultValid, data[i].pdst # 0 PROVE registers'[data[i].pdst] = results'[i].val
    <3>1. data[i].pdst # w
      BY <1>2, <2>1 DEF HolderInv, OneHolder
    <3>2. data[i].pdst \in PhysReg
      BY <1>2 DEF TypeOK, RobTypeOK, RobEntry, Live
    <3>3. registers'[data[i].pdst] = registers[data[i].pdst]
      BY <1>1, <3>1, <3>2 DEF TypeOK, ExecTypeOK
    <3> QED  BY <1>6, <2>1, <3>3 DEF ValueInv, HeldInv
  <2>2. w # 0 => registers'[w] = r.val
    <3>1. w \in PhysReg
      BY <1>2 DEF TypeOK, RobTypeOK, RobEntry
    <3> QED  BY <1>1, <3>1 DEF TypeOK, ExecTypeOK
  <2> QED  BY <1>1, <1>6, <2>1, <2>2 DEF HeldInv
<1>10. ComputedInv'
  <2>1. ASSUME NEW i \in resultValid, data'[i].epoch = epoch', tagOf(i)' # "DIRECT"
        PROVE  Computed(i, results[i])'
    BY <1>2, <1>4, <1>6, <2>1, ResultKept
  <2>2. ASSUME data'[n].epoch = epoch', tagOf(n)' # "DIRECT"
        PROVE  Computed(n, results[n])'
    <3>1. Computed(n, r)
      BY <1>1, <1>5, <2>2
    <3>2. Computed(n, r)'
      BY <1>2, <1>4, <3>1, ComputedKept DEF Kept
    <3> QED  BY <1>6, <3>2 DEF Computed
  <2> QED  BY <1>1, <2>1, <2>2 DEF ComputedInv
<1>11. FailedInv' /\ DirectDone'
  BY <1>1, <1>5, <1>6 DEF ValueInv, FailedInv, DirectDone
<1>12. ZeroValue'
  <2>1. 0 \in PhysReg
    BY RenamingAssumption, NumArchRegAssumption DEF PhysReg
  <2> QED  BY <1>1, <2>1 DEF ValueInv, ZeroValue, TypeOK, ExecTypeOK
<1> QED  BY <1>7, <1>8, <1>9, <1>10, <1>11, <1>12 DEF ValueInv

LEMMA ValueWriteBack ==
  ASSUME TypeOK, HolderInv, ResultsInv, SourceInv, ValueInv, NEW t \in IqTag, NEW o, WriteBackStep(t, o)
  PROVE  ValueInv'
<1>1. /\ o \in fu[t] /\ writeBack(o.index, o.result) /\ wakeupFn(o.pdst, o.result)
      /\ fu' = [fu EXCEPT ![t] = @ \ {o}] /\ UNCHANGED <<prog, epoch>>
  BY DEF WriteBackStep
<1>2. /\ o.index \in Waiting /\ tagOf(o.index) = t /\ t # "DIRECT" /\ o.pdst = data[o.index].pdst
  BY <1>1 DEF ResultsInv, ProducerInv, FuInv, IqTag
<1>3. ~isDirect(o.index) /\ ~decodeErr(data[o.index])
  BY <1>2, ErrIsDirect DEF isDirect, tagOf
<1>4. data[o.index].epoch = epoch => Computed(o.index, o.result)
  BY <1>1 DEF ValueInv, FuResult
<1>5. \A u \in IqTag : fu'[u] \subseteq fu[u]
  BY <1>1 DEF TypeOK, ExecTypeOK
<1>6. ProducerInv /\ NoLostWakeup /\ IqReads
  BY DEF ResultsInv, SourceInv
<1> QED  BY <1>1, <1>2, <1>3, <1>4, <1>5, <1>6, ValueWrite

LEMMA ValueWriteBackFail ==
  ASSUME TypeOK, HolderInv, ResultsInv, SourceInv, ValueInv, write_back_fail
  PROVE  ValueInv'
<1>1. /\ decodeFail # <<>> /\ writeBack(Head(decodeFail), Error) /\ wakeupFn(0, Error)
      /\ fu' = fu /\ UNCHANGED <<prog, epoch>>
  BY DEF write_back_fail
<1>2. PICK n : n = Head(decodeFail)
  OBVIOUS
<1>3. n \in Waiting /\ n \in Live /\ decodeErr(data[n])
  BY <1>1, <1>2, FailHead DEF Waiting
<1>4. tagOf(n) = "DIRECT" /\ ~isDirect(n) /\ data[n].pdst = 0
  BY <1>3, ErrIsDirect DEF tagOf, isDirect, HolderInv, PdstInv
<1>5. ProducerInv /\ NoLostWakeup /\ IqReads
  BY DEF ResultsInv, SourceInv
<1> QED  BY <1>1, <1>2, <1>3, <1>4, <1>5, ValueWrite

LEMMA ValueDirect ==
  ASSUME TypeOK, HolderInv, ResultsInv, SourceInv, ValueInv, execute_direct
  PROVE  ValueInv'
<1>1. PICK r : writeBack(firstP, r) /\ wakeupFn(first.pdst, r)
  BY Zenon DEF execute_direct
<1>2. fu' = fu /\ UNCHANGED <<prog, epoch>>
  BY DEF execute_direct
<1>3. firstP \in Waiting /\ isDirect(firstP)
  BY DirectHead DEF ResultsInv
<1>4. tagOf(firstP) = "DIRECT" /\ ~decodeErr(data[firstP]) /\ first.pdst = data[firstP].pdst
  BY <1>3 DEF tagOf, isDirect, first
<1>5. ProducerInv /\ NoLostWakeup /\ IqReads
  BY DEF ResultsInv, SourceInv
<1> QED  BY <1>1, <1>2, <1>3, <1>4, <1>5, ValueWrite


(* A new entry, whose register was free, disturbs nothing.                 *)
LEMMA ValueEnq ==
  ASSUME TypeOK, HolderInv, ProducerInv, IqReads, ValueInv, NEW e, enq(e),
         UNCHANGED <<prog, epoch, naming, registers, fu>>,
         scoreboard' \subseteq scoreboard \cup FreeRegs
  PROVE  /\ Kept(Live) /\ Waiting \subseteq Live
         /\ FuResult' /\ HeldInv' /\ ComputedInv' /\ FailedInv' /\ DirectDone' /\ ZeroValue'
<1>0. resultValid \subseteq Live /\ Waiting \subseteq Live
  BY DEF ProducerInv, Waiting
<1>1. /\ resultValid' = resultValid /\ results' = results /\ firstP' = firstP
      /\ \A i \in Live : /\ data'[i] = data[i] /\ (decodeErr(data[i])' <=> decodeErr(data[i]))
                         /\ tagOf(i)' = tagOf(i) /\ (isDirect(i)' <=> isDirect(i))
  BY <1>0, SlotEnq DEF enq
<1>2. Kept(Live)
  BY <1>0, <1>1, KeepsEnq DEF Kept
<1>3. FuResult'
  BY <1>0, <1>2, FuResultKept DEF ValueInv
<1>4. ComputedInv' /\ FailedInv'
  BY <1>0, <1>1, <1>2, ResultKept DEF ComputedInv, FailedInv
<1>5. HeldInv' /\ DirectDone' /\ ZeroValue'
  BY <1>0, <1>1 DEF ValueInv, HeldInv, DirectDone, ZeroValue
<1> QED  BY <1>0, <1>2, <1>3, <1>4, <1>5

LEMMA ValueDispatchException ==
  ASSUME TypeOK, HolderInv, ProducerInv, IqReads, ValueInv, dispatch_exception
  PROVE  ValueInv'
<1> DEFINE e == [pc |-> renamed[1].dec.pc, pred |-> renamed[1].dec.pred,
                 epoch |-> renamed[1].dec.epoch, pdst |-> 0]
<1>1. enq(e) /\ UNCHANGED <<prog, epoch, naming, registers, fu, iq, scoreboard>>
  BY DEF dispatch_exception, renamingVars
<1> HIDE DEF e
<1>2. IqOld
  BY <1>1 DEF IqOld
<1>3. /\ Kept(Live) /\ Waiting \subseteq Live
      /\ FuResult' /\ HeldInv' /\ ComputedInv' /\ FailedInv' /\ DirectDone' /\ ZeroValue'
  BY <1>1, ValueEnq
<1> QED  BY <1>2, <1>3, ReadyKept DEF ValueInv

LEMMA ValueDispatch ==
  ASSUME TypeOK, HolderInv, ProducerInv, SourceInv, ValueInv, NEW t \in ExecTag, dispatch(t)
  PROVE  ValueInv'
<1> DEFINE r == renamed[1]
           d == r.dec
           a == destination(instrOf(d))
           e == [pc |-> d.pc, pred |-> d.pred, epoch |-> d.epoch, pdst |-> allocated(a)]
           x == [index |-> nextP, pc |-> d.pc, pdst |-> allocated(a), regs |-> r.regs,
                 rdy |-> [j \in 1 .. 2 |-> ready(r.regs[j])]]
<1>1. /\ renamed # <<>> /\ d.epoch = epoch /\ enq(e) /\ a \in ArchReg /\ allocate(a)
      /\ x \in IqEntry
      /\ t = "DIRECT" => iq' = iq
      /\ t # "DIRECT" => t \in IqTag /\ iq' = [iq EXCEPT ![t] = Append(iq[t], x)]
      /\ UNCHANGED <<prog, epoch, registers, fu>>
  BY DispatchStep
<1>2. x.index = nextP /\ x.regs = r.regs /\ \A j \in 1 .. 2 : x.rdy[j] => r.regs[j] \notin scoreboard
  BY DEF ready
<1>3. instrOf(d) \in Instr
  BY <1>1, RenamedType DEF instrOf, TypeOK, FrontTypeOK
<1>4. \A j \in 1 .. 2 : r.regs[j] \notin FreeRegs
  <2>1. /\ Source(r.regs[1], register1(instrOf(d)), robLen)
        /\ Source(r.regs[2], register2(instrOf(d)), robLen)
    BY <1>1 DEF SourceInv, RenamedInv
  <2>2. register1(instrOf(d)) \in ArchReg /\ register2(instrOf(d)) \in ArchReg
    BY <1>3, InstrType
  <2>3. r.regs[1] \notin FreeRegs
    BY <2>1, <2>2, SourceHolds DEF HolderInv, OneHolder
  <2>4. r.regs[2] \notin FreeRegs
    BY <2>1, <2>2, SourceHolds DEF HolderInv, OneHolder
  <2> QED  BY <2>3, <2>4
<1> HIDE DEF r, d, a, e, x
<1>5. scoreboard' \subseteq scoreboard \cup FreeRegs /\ naming' = naming
  <2>1. allocated(a) \in FreeRegs \/ a = zeroReg
    BY <1>1 DEF allocate, canAlloc, allocated, FreeRegs, TypeOK, RenamingTypeOK
  <2> QED  BY <1>1, <2>1 DEF allocate
<1>6. /\ Kept(Live) /\ Waiting \subseteq Live
      /\ FuResult' /\ HeldInv' /\ ComputedInv' /\ FailedInv' /\ DirectDone' /\ ZeroValue'
  BY <1>1, <1>5, ValueEnq DEF SourceInv
<1>7. CASE t = "DIRECT"
  <2>1. IqOld
    BY <1>1, <1>7 DEF IqOld
  <2> QED  BY <1>6, <2>1, ReadyKept DEF ValueInv, SourceInv
<1>8. CASE t # "DIRECT"
  <2>1. ASSUME NEW u \in IqTag, NEW k \in 1 .. Len(iq'[u]), NEW j \in 1 .. 2,
               data'[iq'[u][k].index].epoch = epoch', iq'[u][k].rdy[j]
        PROVE  iq'[u][k].regs[j] \notin scoreboard'
    <3>1. \/ k \in 1 .. Len(iq[u]) /\ iq'[u][k] = iq[u][k]
          \/ iq'[u][k] = x
      <4>1. iq[u] \in Seq(IqEntry)
        BY DEF TypeOK, ExecTypeOK
      <4>2. CASE u = t
        <5>1. iq'[u] = Append(iq[u], x)
          BY <1>1, <1>8, <4>2 DEF TypeOK, ExecTypeOK
        <5> QED  BY <1>1, <4>1, <5>1, AppendFacts
      <4>3. CASE u # t
        BY <1>1, <1>8, <4>3 DEF TypeOK, ExecTypeOK
      <4> QED  BY <4>2, <4>3
    <3>2. CASE k \in 1 .. Len(iq[u]) /\ iq'[u][k] = iq[u][k]
      BY <1>6, <2>1, <3>2, EntryKept DEF ValueInv, SourceInv
    <3>3. CASE iq'[u][k] = x
      BY <1>2, <1>4, <1>5, <2>1, <3>3
    <3> QED  BY <3>1, <3>2, <3>3
  <2>2. ReadyInv'
    BY <2>1 DEF ReadyInv
  <2> QED  BY <1>6, <2>2 DEF ValueInv
<1> QED  BY <1>7, <1>8

(* Retirement without a flush: the others keep their sources.              *)
LEMMA ValueDeq ==
  ASSUME TypeOK, ProducerInv, ValueInv, deq, first_done, UNCHANGED <<prog, registers>>
  PROVE  HeldInv' /\ FailedInv' /\ DirectDone' /\ ZeroValue'
<1>1. /\ data' = data /\ results' = results /\ resultValid' = resultValid \ {firstP}
  BY DEF deq
<1>2. \A i : (isDirect(i)' <=> isDirect(i)) /\ (decodeErr(data[i])' <=> decodeErr(data[i]))
  BY <1>1, SlotSame
<1> QED  BY <1>1, <1>2 DEF ValueInv, HeldInv, FailedInv, DirectDone, ZeroValue

LEMMA ValueRetire ==
  ASSUME TypeOK, HolderInv, ProducerInv, IqReads, ValueInv, first_done, RetireMap,
         NEW keep \in BOOLEAN, NEW npc, deqRob(keep, FALSE, npc), UNCHANGED retireVars
  PROVE  ValueInv'
<1>1. deq /\ UNCHANGED <<prog, epoch, registers, iq, fu, scoreboard>>
  BY DEF deqRob, commit, retireVars
<1>2. /\ data' = data /\ results' = results /\ resultValid' = resultValid \ {firstP}
  BY <1>1 DEF deq
<1>3. /\ resultValid \subseteq Live /\ Live' = Live \ {firstP} /\ firstP \notin Waiting
      /\ Waiting \subseteq Live'
  BY <1>1, SlotDeq DEF ProducerInv, Waiting
<1>4. Kept(Live')
  BY <1>1, <1>2, <1>3, KeepsDeq DEF Kept
<1>5. IqOld
  BY <1>1 DEF IqOld
<1>6. ReadyInv' /\ FuResult'
  BY <1>1, <1>3, <1>4, <1>5, ReadyKept, FuResultKept DEF ValueInv
<1>7. ComputedInv'
  <2>1. ASSUME NEW i \in resultValid' PROVE i \in Live' /\ i \in resultValid /\ results'[i] = results[i]
    BY <1>2, <1>3
  <2> QED  BY <1>4, <2>1, ResultKept DEF ComputedInv
<1> QED  BY <1>1, <1>6, <1>7, ValueDeq DEF ValueInv

(* A flush: nothing is current.                                            *)
LEMMA ValueFlush ==
  ASSUME TypeOK, OrderInv, ProducerInv, SourceInv, ValueInv, first_done, first.epoch = epoch,
         NEW keep \in BOOLEAN, NEW npc, deqRob(keep, TRUE, npc), UNCHANGED retireVars
  PROVE  ValueInv'
<1>1. deq /\ UNCHANGED <<prog, registers, iq, fu, scoreboard>>
  BY DEF deqRob, commit, retireVars
<1>2. \A i \in Live' : data'[i].epoch # epoch'
  BY SourceFlush
<1>3. /\ Waiting \subseteq Live' /\ resultValid' \subseteq Live'
  BY <1>1, SlotDeq DEF ProducerInv, Waiting
<1>4. /\ \A t \in IqTag : \A k \in 1 .. Len(iq[t]) : iq[t][k].index \in Live'
      /\ \A t \in IqTag : \A o \in fu[t] : o.index \in Live'
  BY <1>3 DEF ProducerInv, IqInv, FuInv
<1>5. ReadyInv'
  BY <1>1, <1>2, <1>4 DEF ReadyInv
<1>6. FuResult'
  BY <1>1, <1>2, <1>4 DEF FuResult
<1>7. ComputedInv'
  BY <1>2, <1>3 DEF ComputedInv
<1> QED  BY <1>1, <1>5, <1>6, <1>7, ValueDeq DEF ValueInv

LEMMA ValueNext ==
  ASSUME TypeOK, HolderInv, OrderInv, ResultsInv, SourceInv, ValueInv, [Next]_vars
  PROVE  ValueInv'
<1> USE DEF robVars, renamingVars
<1>0. ProducerInv /\ IqReads
  BY DEF ResultsInv, SourceInv
<1>1. CASE \E pred \in Pc : fetch(pred)
  <2>1. UNCHANGED valueVars /\ UNCHANGED <<iq, fu>>
    BY <1>1 DEF fetch, valueVars
  <2> QED  BY <1>0, <2>1, ValueFrame
<1>2. CASE rename_rule
  <2>1. UNCHANGED valueVars /\ UNCHANGED <<iq, fu>>
    BY <1>2 DEF rename_rule, valueVars
  <2> QED  BY <1>0, <2>1, ValueFrame
<1>3. CASE dispatch_stale
  <2>1. UNCHANGED valueVars /\ UNCHANGED <<iq, fu>>
    BY <1>3 DEF dispatch_stale, valueVars
  <2> QED  BY <1>0, <2>1, ValueFrame
<1>4. CASE dispatch_exception
  BY <1>0, <1>4, ValueDispatchException
<1>5. CASE \E t \in ExecTag : dispatch(t)
  BY <1>0, <1>5, ValueDispatch
<1>6. CASE \E t \in IqTag : connect(t)
  <2>1. PICK t \in IqTag : connect(t)
    BY <1>6
  <2>2. PICK k, r : ConnectStep(t, k, r)
    BY <2>1, ConnectSteps, Zenon
  <2> QED  BY <1>0, <2>2, ValueConnect
<1>7. CASE \E t \in IqTag : write_back(t)
  <2>1. \E t \in IqTag : \E o : WriteBackStep(t, o)
    BY <1>7, Zenon DEF write_back, WriteBackStep
  <2> QED  BY <2>1, ValueWriteBack
<1>8. CASE write_back_fail
  BY <1>8, ValueWriteBackFail
<1>9. CASE execute_direct
  BY <1>9, ValueDirect
<1>10. CASE Retirement
  <2>1. first_done /\ UNCHANGED retireVars
    BY <1>10, RetireSteps
  <2>2. PICK keep \in BOOLEAN : \E npc :
          \/ RetireMap /\ deqRob(keep, FALSE, npc)
          \/ first.epoch = epoch /\ deqRob(keep, TRUE, npc)
    BY <1>10, RetireSteps
  <2> QED  BY <1>0, <2>1, <2>2, ValueRetire, ValueFlush
<1>11. CASE UNCHANGED vars
  <2>1. UNCHANGED valueVars /\ UNCHANGED <<iq, fu>>
    BY <1>11 DEF vars, coreVars, valueVars
  <2> QED  BY <1>0, <2>1, ValueFrame
<1> QED
  BY <1>1, <1>2, <1>3, <1>4, <1>5, <1>6, <1>7, <1>8, <1>9, <1>10, <1>11, Zenon DEF Next

LEMMA ValueInit == Init => ValueInv
<1> SUFFICES ASSUME Init PROVE ValueInv
  OBVIOUS
<1>1. resultValid = {} /\ \A t \in IqTag : iq[t] = <<>> /\ fu[t] = {}
  BY DEF Init, mkROB
<1>2. registers[0] = 0
  BY RenamingAssumption, NumArchRegAssumption DEF Init, PhysReg
<1> QED
  BY <1>1, <1>2 DEF ValueInv, ReadyInv, FuResult, HeldInv, ComputedInv, FailedInv, DirectDone, ZeroValue

(* Every result in the machine that belongs to the current epoch is what   *)
(* its unit may compute from the values of its sources, and stays so until *)
(* the instruction retires.                                                *)
THEOREM ValueCorrect == Spec => []ValueInv
<1>1. TypeOK /\ HolderInv /\ OrderInv /\ ResultsInv /\ SourceInv /\ ValueInv /\ [Next]_vars => ValueInv'
  BY ValueNext
<1> QED
  BY <1>1, ValueInit, TypeCorrect, HolderCorrect, OrderCorrect, ResultsCorrect, SourceCorrect, PTL
     DEF Spec


-----------------------------------------------------------------------------
(* The refinement.  archRegs, archPc, csr and archDone are the state of    *)
(* the abstract machine.                                                   *)

archRegs == [a \in ArchReg |-> registers[naming[a]]]

(* The abstract machine computes with the same functions.                  *)
LEMMA ArchFunctions ==
  /\ \A i : /\ Arch!tagOfInstr(i) = tagOfInstr(i) /\ Arch!destination(i) = destination(i)
            /\ Arch!register1(i) = register1(i) /\ Arch!register2(i) = register2(i)
  /\ Arch!ArchReg = ArchReg /\ Arch!zeroReg = zeroReg /\ Arch!mkCsrFile = mkCsrFile
  /\ \A c, epc : Arch!exec_exception(c, epc) = exec_exception(c, epc)
  /\ \A i, pc, v1, v2 : Arch!unitResults(i, pc, v1, v2) = unitResults(i, pc, v1, v2)
  /\ \A i, pc, v, c : Arch!execDirect(i, pc, v, c) = execDirect(i, pc, v, c)
<1>1. \A i : Arch!tagOfInstr(i) = tagOfInstr(i)
  BY Zenon DEF tagOfInstr, Arch!tagOfInstr
<1>2. Arch!zeroReg = zeroReg /\ Arch!ArchReg = ArchReg /\ Arch!mkCsrFile = mkCsrFile
  BY Zenon DEF zeroReg, Arch!zeroReg, ArchReg, Arch!ArchReg, mkCsrFile, Arch!mkCsrFile
<1>3. \A i : /\ Arch!destination(i) = destination(i)
             /\ Arch!register1(i) = register1(i) /\ Arch!register2(i) = register2(i)
  BY <1>2 DEF destination, Arch!destination, register1, Arch!register1, register2, Arch!register2
<1>4. \A c, epc : Arch!exec_exception(c, epc) = exec_exception(c, epc)
  BY Zenon DEF exec_exception, Arch!exec_exception
<1>5. /\ Arch!Error = Error /\ \A pc : Arch!plus4(pc) = plus4(pc)
      /\ \A v, npc, f : Arch!Ok(v, npc, f) = Ok(v, npc, f)
      /\ Arch!Value = Value /\ \A i : Arch!isLoad(i) = isLoad(i)
  BY Zenon DEF Error, Arch!Error, plus4, Arch!plus4, Ok, Arch!Ok, Value, Arch!Value,
               isLoad, Arch!isLoad
<1>6. \A pc, v1, v2 : Arch!execALU(pc, v1, v2) = execALU(pc, v1, v2)
  BY <1>5, Zenon DEF execALU, Arch!execALU
<1>7. \A i, pc, v1, v2 : Arch!controlFlow(i, pc, v1, v2) = controlFlow(i, pc, v1, v2)
  BY Zenon DEF controlFlow, Arch!controlFlow, Error, Arch!Error, plus4, Arch!plus4, Ok, Arch!Ok
<1>8. \A i, pc : Arch!dmemResults(i, pc) = dmemResults(i, pc)
  BY <1>5, Zenon DEF dmemResults, Arch!dmemResults
<1>9. \A i, pc, v1, v2 : Arch!unitResults(i, pc, v1, v2) = unitResults(i, pc, v1, v2)
  BY <1>1, <1>6, <1>7, <1>8, Zenon DEF unitResults, Arch!unitResults
<1>10. \A i, pc, v, c : Arch!execDirect(i, pc, v, c) = execDirect(i, pc, v, c)
  BY ZenonT(60) DEF execDirect, Arch!execDirect, Error, Arch!Error, plus4, Arch!plus4, Ok, Arch!Ok,
               mret, Arch!mret
<1> QED  BY <1>1, <1>2, <1>3, <1>4, <1>9, <1>10

LEMMA ArchInit == Init => Arch!IsaInit
<1> SUFFICES ASSUME Init PROVE Arch!IsaInit
  OBVIOUS
<1>1. archDone = <<>>
  BY DEF Init, mkROB, archDone, first_done
<1>2. archRegs = [a \in ArchReg |-> 0]
  <2>1. \A a \in ArchReg : naming[a] \in PhysReg /\ registers[naming[a]] = 0
    BY RenamingAssumption, NumArchRegAssumption DEF Init, mkRenamingTable, ArchReg, PhysReg
  <2> QED  BY <2>1 DEF archRegs
<1> QED  BY <1>1, <1>2, ArchFunctions DEF Arch!IsaInit, archRegs, Init

(* At the head the sources are the committed registers.                    *)
LEMMA HeadSource ==
  ASSUME TypeOK, NEW p, NEW a, Reads(p, a, firstP)
  PROVE  p = naming[a]
<1>0. RingOK /\ firstP \in RobIndex /\ firstP \in Int
  BY FirstType, RobSizeAssumption DEF TypeOK, RobTypeOK, RobIndex
<1>1. robPos(firstP) = 0 /\ \A i \in Live : robPos(i) \in RobIndex
  <2>1. robPos(firstP) = 0
    BY <1>0 DEF robPos
  <2>2. \A i \in Live : i \in RobIndex
    BY DEF Live
  <2> QED  BY <1>0, <2>1, <2>2, RingOrder
<1>2. \A i \in Live : ~(robPos(i) < robPos(firstP))
  BY <1>1, RobSizeAssumption DEF RobIndex
<1> QED  BY <1>2 DEF Reads, Source, LastWriter

(* Busy registers are not committed ones.                                  *)
LEMMA RegsKept ==
  ASSUME TypeOK, HolderInv, NoLostWakeup, NEW w, NEW r, wakeupFn(w, r), w = 0 \/ w \in scoreboard
  PROVE  archRegs' = archRegs
<1>1. /\ naming' = naming
      /\ registers' = IF w # 0 THEN [registers EXCEPT ![w] = r.val] ELSE registers
  BY DEF wakeupFn, wakeup
<1>2. ASSUME w # 0 PROVE w \notin NamedRegs
  <2>1. PICK i \in Waiting : data[i].pdst = w
    BY <1>2, WakeupParts, BusyParts
  <2>2. w \in InFlightRegs
    BY <1>2, <2>1 DEF InFlightRegs, Waiting
  <2> QED  BY <2>2 DEF HolderInv, OneHolder
<1>3. ASSUME NEW a \in ArchReg PROVE registers'[naming[a]] = registers[naming[a]]
  <2>1. naming[a] \in PhysReg /\ naming[a] \in NamedRegs
    BY DEF TypeOK, RenamingTypeOK, NamedRegs
  <2> QED  BY <1>1, <1>2, <2>1 DEF TypeOK, ExecTypeOK
<1> QED  BY <1>1, <1>3 DEF archRegs

LEMMA Stutter ==
  ASSUME UNCHANGED <<prog, archPc, csr>>, archRegs' = archRegs, archDone' = archDone
  PROVE  UNCHANGED Arch!isaVars
BY DEF Arch!isaVars, archRegs

-----------------------------------------------------------------------------
(* Steps the abstract machine does not see.                                *)

LEMMA DoneFrame ==
  ASSUME UNCHANGED <<prog, epoch, data, firstP, empty, resultValid, results>>
  PROVE  archDone' = archDone
BY DEF archDone, first_done, first, first_result, instrOf, decodeErr

LEMMA DoneEnq ==
  ASSUME TypeOK, resultValid \subseteq Live, NEW e, enq(e), UNCHANGED <<prog, epoch>>
  PROVE  archDone' = archDone
<1>1. UNCHANGED <<firstP, resultValid, results>> /\ ~empty' /\ \A i \in Live : data'[i] = data[i]
  BY SlotEnq DEF enq
<1>2. firstP \in resultValid => ~empty /\ data'[firstP] = data[firstP]
  BY <1>1 DEF Live
<1>3. first_done' <=> first_done
  BY <1>1, <1>2 DEF first_done
<1>4. CASE first_done
  <2>1. first' = first /\ first_result' = first_result
    BY <1>1, <1>2, <1>4 DEF first, first_result, first_done
  <2> QED  BY <1>3, <2>1 DEF archDone, instrOf, decodeErr
<1>5. CASE ~first_done
  BY <1>3, <1>5 DEF archDone
<1> QED  BY <1>4, <1>5

LEMMA DoneWrite ==
  ASSUME TypeOK, UNCHANGED <<prog, epoch>>, NEW n \in RobIndex, NEW r, writeBack(n, r), ~isDirect(n)
  PROVE  archDone' = archDone
<1>1. /\ UNCHANGED <<data, firstP, empty>> /\ resultValid' = resultValid \cup {n}
      /\ results' = [results EXCEPT ![n] = r]
  BY DEF writeBack
<1>2. CASE n = firstP
  BY <1>1, <1>2 DEF archDone, first, isDirect, instrOf, decodeErr
<1>3. CASE n # firstP
  <2>1. first_done' <=> first_done
    BY <1>1, <1>3 DEF first_done
  <2>2. first_result' = first_result /\ first' = first
    BY <1>1, <1>3, FirstType DEF first_result, first, TypeOK, RobTypeOK
  <2> QED  BY <2>1, <2>2 DEF archDone, instrOf, decodeErr
<1> QED  BY <1>2, <1>3

(* A direct instruction does not become half retired by reaching the head. *)
LEMMA DoneDeq ==
  ASSUME ValueInv, deq, prog' = prog
  PROVE  archDone' = <<>>
<1>1. /\ data' = data /\ resultValid' = resultValid \ {firstP}
  BY DEF deq
<1> SUFFICES ASSUME first_done', tagOfInstr(instrOf(first))' = "DIRECT", ~decodeErr(first)'
             PROVE  FALSE
  BY DEF archDone
<1>2. firstP' \in resultValid /\ firstP' # firstP
  BY <1>1 DEF first_done
<1>3. isDirect(firstP')
  BY <1>1 DEF isDirect, first, instrOf, decodeErr
<1> QED  BY <1>2, <1>3 DEF ValueInv, DirectDone

LEMMA RegsDeq ==
  ASSUME UNCHANGED registers, NEW flush, NEW npc, deqRob(FALSE, flush, npc)
  PROVE  archRegs' = archRegs
BY DEF deqRob, commit, archRegs


-----------------------------------------------------------------------------
(* Steps that execute an instruction of the program.                       *)

(* The head, when it is current, is the instruction the abstract machine   *)
(* executes next.                                                          *)
LEMMA HeadInstr ==
  ASSUME TypeOK, OrderInv, ~empty, first.epoch = epoch
  PROVE  /\ instrOf(first) = prog[archPc] /\ first.pc = archPc
         /\ regOf(firstP, 1) = register1(prog[archPc]) /\ regOf(firstP, 2) = register2(prog[archPc])
         /\ register1(prog[archPc]) \in ArchReg /\ register2(prog[archPc]) \in ArchReg
         /\ destination(prog[archPc]) \in ArchReg
<1>1. first.pc = archPc
  BY HeadPc
<1>2. instrOf(first) = prog[archPc]
  BY <1>1 DEF instrOf
<1>3. instrOf(first) \in Instr
  BY FirstType
<1> QED  BY <1>1, <1>2, <1>3, InstrType DEF regOf, first

LEMMA ArchDirect ==
  ASSUME TypeOK, HolderInv, OrderInv, ResultsInv, SourceInv, execute_direct, first.epoch = epoch
  PROVE  Arch!Direct
<1> DEFINE i == prog[archPc]
           d == execDirect(i, archPc, archRegs[register1(i)], csr)
<1>1. /\ ~empty /\ tagOfInstr(instrOf(first)) = "DIRECT" /\ ~first_done /\ direct # <<>>
      /\ UNCHANGED <<prog, epoch, archPc>>
  BY DEF execute_direct
<1>2. /\ instrOf(first) = i /\ first.pc = archPc /\ regOf(firstP, 1) = register1(i)
      /\ register1(i) \in ArchReg
  BY <1>1, HeadInstr
<1>3. firstP \in Waiting /\ isDirect(firstP)
  BY DirectHead DEF ResultsInv
<1>4. registers[direct[1][1]] = archRegs[register1(i)]
  <2>1. PICK f : DirectOrder(f) /\ DirectReads(f)
    BY DEF SourceInv, DirectSource
  <2>2. 1 \in 1 .. Len(direct) /\ f[1] = firstP
    BY <1>3, <2>1, DirectFirst
  <2>3. Reads(direct[1][1], regOf(firstP, 1), firstP)
    BY <2>1, <2>2 DEF DirectReads, first
  <2>4. direct[1][1] = naming[register1(i)]
    BY <1>2, <2>3, HeadSource
  <2> QED  BY <1>2, <2>4 DEF archRegs
<1>5. /\ csr' = execDirect(instrOf(first), first.pc, registers[direct[1][1]], csr).csr
      /\ writeBack(firstP, execDirect(instrOf(first), first.pc, registers[direct[1][1]], csr).res)
      /\ wakeupFn(first.pdst, execDirect(instrOf(first), first.pc, registers[direct[1][1]], csr).res)
  BY DEF execute_direct
<1>6. csr' = d.csr /\ writeBack(firstP, d.res) /\ wakeupFn(first.pdst, d.res)
  BY <1>2, <1>4, <1>5
<1>7. i.op # "illegal" /\ tagOfInstr(i) = "DIRECT"
  BY <1>1, <1>2, <1>3 DEF isDirect, decodeErr, first
<1> HIDE DEF i, d
<1>8. archDone = <<>>
  BY <1>1 DEF archDone
<1>9. archDone' = <<d.res>>
  <2>1. first' = first /\ first_done' /\ first_result' = d.res
    <3>1. results \in [RobIndex -> ExecResult] /\ firstP \in RobIndex
      BY FirstType DEF TypeOK, RobTypeOK
    <3> QED  BY <1>1, <1>6, <3>1 DEF writeBack, first, first_done, first_result
  <2>2. /\ tagOfInstr(instrOf(first))' = "DIRECT" /\ ~decodeErr(first)' /\ first'.epoch = epoch'
    BY <1>1, <1>3, <2>1 DEF isDirect, first, instrOf, decodeErr
  <2> QED  BY <2>1, <2>2 DEF archDone
<1>10. archRegs' = archRegs
  <2>1. first.pdst = 0 \/ first.pdst \in scoreboard
    BY <1>3, WakeupParts, BusyParts DEF ResultsInv, first
  <2> QED  BY <1>6, <2>1, RegsKept DEF ResultsInv
<1> QED
  BY <1>1, <1>6, <1>7, <1>8, <1>9, <1>10, ArchFunctions DEF Arch!Direct, archRegs, i, d

(* The registers after a commit.                                           *)
LEMMA RegsCommit ==
  ASSUME TypeOK, HolderInv, OrderInv, ValueInv, first_done, firstP \in Live, first.epoch = epoch,
         registers' = registers, NEW flush, NEW npc, deqRob(TRUE, flush, npc)
  PROVE  archRegs' = [a \in ArchReg |->
                        IF a = destination(prog[archPc]) /\ a # zeroReg
                          THEN first_result.val ELSE archRegs[a]]
<1> DEFINE b == destination(instrOf(first))
<1>1. naming' = [naming EXCEPT ![b] = first.pdst]
  BY DEF deqRob, commit
<1>2. b = destination(prog[archPc]) /\ b \in ArchReg /\ naming \in [ArchReg -> PhysReg]
  BY HeadInstr DEF first_done, TypeOK, RenamingTypeOK
<1>3. /\ first.pdst = 0 <=> b = zeroReg
      /\ naming[zeroReg] = 0
  BY DEF HolderInv, PdstInv, ZeroInv, first
<1>4. first.pdst # 0 => registers[first.pdst] = first_result.val
  BY DEF ValueInv, HeldInv, first, first_result, first_done
<1> HIDE DEF b
<1>5. ASSUME NEW a \in ArchReg
      PROVE  registers[naming'[a]] = IF a = b /\ a # zeroReg THEN first_result.val
                                                            ELSE registers[naming[a]]
  <2>1. CASE a # b
    BY <1>1, <1>2, <2>1
  <2>2. CASE a = b
    <3>1. naming'[a] = first.pdst
      BY <1>1, <1>2, <2>2
    <3> QED  BY <1>3, <1>4, <2>2, <3>1
  <2> QED  BY <2>1, <2>2
<1> QED  BY <1>2, <1>5 DEF archRegs

(* The result of a unit at the head is what the abstract machine may       *)
(* compute.                                                                *)
LEMMA HeadComputed ==
  ASSUME TypeOK, OrderInv, ValueInv, first_done, first.epoch = epoch,
         tagOfInstr(prog[archPc]) # "DIRECT"
  PROVE  first_result \in unitResults(prog[archPc], archPc, archRegs[register1(prog[archPc])],
                                      archRegs[register2(prog[archPc])])
<1> DEFINE i == prog[archPc]
<1>1. /\ instrOf(first) = i /\ first.pc = archPc
      /\ regOf(firstP, 1) = register1(i) /\ regOf(firstP, 2) = register2(i)
      /\ register1(i) \in ArchReg /\ register2(i) \in ArchReg
  BY HeadInstr DEF first_done
<1> HIDE DEF i
<1>2. Computed(firstP, first_result)
  BY <1>1 DEF ValueInv, ComputedInv, first_done, first, first_result, tagOf, i
<1>3. PICK p, q \in PhysReg :
        /\ Reads(p, regOf(firstP, 1), firstP) /\ Reads(q, regOf(firstP, 2), firstP)
        /\ first_result \in unitResults(instrOf(data[firstP]), data[firstP].pc, registers[p], registers[q])
  BY <1>2 DEF Computed
<1>4. p = naming[register1(i)] /\ q = naming[register2(i)]
  BY <1>1, <1>3, HeadSource
<1>5. registers[p] = archRegs[register1(i)] /\ registers[q] = archRegs[register2(i)]
  BY <1>1, <1>4 DEF archRegs
<1> QED  BY <1>1, <1>3, <1>5 DEF first, i

(* What a retirement of the current epoch does, seen from the abstract     *)
(* machine: the effect of the result of its head.                          *)
LEMMA ArchFinish ==
  ASSUME TypeOK, HolderInv, OrderInv, ValueInv, first_done, firstP \in Live, first.epoch = epoch,
         commit_exception \/ commit_ok
  PROVE  Arch!Finish(prog[archPc], first_result) /\ prog' = prog /\ archDone' = <<>>
<1>0. first.pc = archPc
  BY HeadInstr DEF first_done
<1>1. CASE commit_exception
  <2>1. /\ ~first_result.ok /\ csr' = exec_exception(csr, archPc) /\ archPc' = TrapPc
        /\ deqRob(FALSE, TRUE, TrapPc) /\ UNCHANGED <<prog, registers>>
    BY <1>0, <1>1 DEF commit_exception, trap, retireVars
  <2>2. archRegs' = archRegs /\ archDone' = <<>>
    BY <2>1, RegsDeq, DoneDeq DEF deqRob
  <2> QED  BY <2>1, <2>2, ArchFunctions DEF Arch!Finish, Arch!Trap, archRegs
<1>2. CASE commit_ok
  <2>1. /\ first_result.ok /\ archPc' = first_result.npc /\ csr' = csr
        /\ UNCHANGED <<prog, registers>>
    BY <1>2 DEF commit_ok, retireVars
  <2>2. PICK flush : deqRob(TRUE, flush, first_result.npc)
    BY <1>2 DEF commit_ok
  <2>3. archDone' = <<>>
    BY <2>1, <2>2, DoneDeq DEF deqRob
  <2>4. archRegs' = [a \in ArchReg |-> IF a = destination(prog[archPc]) /\ a # zeroReg
                                         THEN first_result.val ELSE archRegs[a]]
    BY <2>1, <2>2, RegsCommit
  <2> QED  BY <2>1, <2>3, <2>4, ArchFunctions DEF Arch!Finish, Arch!Retire, archRegs
<1> QED  BY <1>1, <1>2

LEMMA ArchCommit ==
  ASSUME TypeOK, HolderInv, OrderInv, ResultsInv, ValueInv, commit_exception \/ commit_ok
  PROVE  Arch!IsaNext
<1>1. first_done /\ first.epoch = epoch
  BY DEF commit_exception, commit_ok
<1>2. firstP \in Live
  BY <1>1 DEF first_done, ResultsInv, ProducerInv
<1>3. Arch!Finish(prog[archPc], first_result) /\ prog' = prog /\ archDone' = <<>>
  BY <1>1, <1>2, ArchFinish
<1>4. instrOf(first) = prog[archPc]
  BY <1>1, HeadInstr DEF first_done
<1>5. CASE tagOfInstr(prog[archPc]) # "DIRECT"
  <2>1. archDone = <<>>
    BY <1>4, <1>5 DEF archDone
  <2>2. first_result \in unitResults(prog[archPc], archPc, archRegs[register1(prog[archPc])],
                                     archRegs[register2(prog[archPc])])
    BY <1>1, <1>5, HeadComputed
  <2>3. Arch!Execute
    BY <1>3, <1>5, <2>1, <2>2, ArchFunctions DEF Arch!Execute, archRegs
  <2> QED  BY <2>3 DEF Arch!IsaNext
<1>6. CASE tagOfInstr(prog[archPc]) = "DIRECT" /\ prog[archPc].op # "illegal"
  <2>1. archDone = <<first_result>>
    BY <1>1, <1>4, <1>6 DEF archDone, decodeErr
  <2>2. archDone # <<>> /\ archDone[1] = first_result
    BY <2>1
  <2>3. Arch!DirectFinish
    BY <1>3, <2>2 DEF Arch!DirectFinish
  <2> QED  BY <2>3 DEF Arch!IsaNext
<1>7. CASE prog[archPc].op = "illegal"
  <2>1. archDone = <<>>
    BY <1>4, <1>7 DEF archDone, decodeErr
  <2>2. first_result = Error
    BY <1>1, <1>4, <1>7 DEF ValueInv, FailedInv, first_done, first, first_result, decodeErr
  <2>3. ~first_result.ok
    BY <2>2 DEF Error
  <2>4. Arch!Trap
    BY <1>3, <2>3 DEF Arch!Finish
  <2>5. Arch!DecodeFault
    BY <1>3, <1>7, <2>1, <2>4 DEF Arch!DecodeFault
  <2> QED  BY <2>5 DEF Arch!IsaNext
<1> QED  BY <1>5, <1>6, <1>7

LEMMA ArchInterrupt ==
  ASSUME TypeOK, OrderInv, ValueInv, commit_interrupt
  PROVE  Arch!Interrupt
<1>1. /\ first_done /\ first.epoch = epoch /\ csr.mie
      /\ tagOfInstr(instrOf(first)) \notin {"DMEM", "DIRECT"}
      /\ csr' = exec_exception(csr, first.pc) /\ archPc' = TrapPc
      /\ deqRob(FALSE, TRUE, TrapPc) /\ UNCHANGED <<prog, registers>>
  BY DEF commit_interrupt, trap, retireVars
<1>2. first.pc = archPc /\ instrOf(first) = prog[archPc]
  BY <1>1, HeadInstr DEF first_done
<1>3. archDone = <<>>
  BY <1>1 DEF archDone
<1>4. archRegs' = archRegs /\ archDone' = <<>>
  BY <1>1, RegsDeq, DoneDeq DEF deqRob
<1> QED  BY <1>1, <1>2, <1>3, <1>4, ArchFunctions DEF Arch!Interrupt, Arch!Trap, archRegs

-----------------------------------------------------------------------------
IsaInv == TypeOK /\ HolderInv /\ OrderInv /\ KillInv /\ ResultsInv /\ SourceInv /\ ValueInv

LEMMA ArchSame ==
  ASSUME UNCHANGED <<prog, epoch, data, firstP, empty, resultValid, results, registers, naming,
                     archPc, csr>>
  PROVE  UNCHANGED Arch!isaVars
<1>1. archRegs' = archRegs
  BY DEF archRegs
<1> QED  BY <1>1, DoneFrame, Stutter

LEMMA ArchWrite ==
  ASSUME IsaInv, NEW n \in Waiting, ~isDirect(n), NEW r, writeBack(n, r),
         NEW w, w = data[n].pdst, wakeupFn(w, r), UNCHANGED <<prog, epoch, archPc, csr>>
  PROVE  UNCHANGED Arch!isaVars
<1>1. w = 0 \/ w \in scoreboard
  BY WakeupParts, BusyParts DEF IsaInv, ResultsInv
<1>2. archRegs' = archRegs
  BY <1>1, RegsKept DEF IsaInv, ResultsInv
<1>3. archDone' = archDone
  BY DoneWrite DEF IsaInv, Waiting, Live
<1> QED  BY <1>2, <1>3, Stutter

LEMMA ArchEnq ==
  ASSUME IsaInv, NEW e, enq(e), UNCHANGED <<prog, epoch, archPc, csr, registers, naming>>
  PROVE  UNCHANGED Arch!isaVars
<1>1. archRegs' = archRegs
  BY DEF archRegs
<1>2. archDone' = archDone
  BY DoneEnq DEF IsaInv, ResultsInv, ProducerInv
<1> QED  BY <1>1, <1>2, Stutter

LEMMA ArchDrop ==
  ASSUME IsaInv, discard_instruction \/ commit_killed
  PROVE  UNCHANGED Arch!isaVars
<1>1. PICK flush, npc : deqRob(FALSE, flush, npc)
  BY DEF discard_instruction, commit_killed
<1>2. UNCHANGED <<prog, registers, archPc, csr>>
  BY DEF discard_instruction, commit_killed, retireVars
<1>3. archDone = <<>>
  <2>1. CASE discard_instruction
    BY <2>1 DEF discard_instruction, archDone
  <2>2. CASE commit_killed
    <3>1. isLoad(instrOf(first))
      BY <2>2 DEF commit_killed, IsaInv, KillInv, KilledIsLive, first
    <3> QED  BY <3>1, LoadIsDmem DEF archDone
  <2> QED  BY <2>1, <2>2
<1>4. archRegs' = archRegs /\ archDone' = <<>>
  BY <1>1, <1>2, RegsDeq, DoneDeq DEF IsaInv, deqRob
<1> QED  BY <1>2, <1>3, <1>4, Stutter


(* Every step of the core is a step of the abstract machine or hidden from *)
(* it.                                                                     *)
LEMMA ArchNext ==
  ASSUME IsaInv, [Next]_vars
  PROVE  [Arch!IsaNext]_(Arch!isaVars)
<1> USE DEF robVars, renamingVars
<1>1. CASE \E pred \in Pc : fetch(pred)
  BY <1>1, ArchSame DEF fetch
<1>2. CASE rename_rule
  BY <1>2, ArchSame DEF rename_rule
<1>3. CASE dispatch_stale
  BY <1>3, ArchSame DEF dispatch_stale
<1>4. CASE dispatch_exception
  BY <1>4, ArchEnq DEF dispatch_exception
<1>5. CASE \E t \in ExecTag : dispatch(t)
  BY <1>5, ArchEnq DEF dispatch, allocate
<1>6. CASE \E t \in IqTag : connect(t)
  BY <1>6, ArchSame DEF connect
<1>7. CASE \E t \in IqTag : write_back(t)
  <2>1. PICK t \in IqTag : write_back(t)
    BY <1>7
  <2>2. PICK o \in fu[t] : /\ writeBack(o.index, o.result) /\ wakeupFn(o.pdst, o.result)
                           /\ UNCHANGED <<prog, epoch, archPc, csr>>
    BY <2>1 DEF write_back
  <2>3. /\ o.index \in Waiting /\ o.pdst = data[o.index].pdst /\ ~isDirect(o.index)
    BY DEF IsaInv, ResultsInv, ProducerInv, FuInv, IqTag, isDirect, tagOf
  <2> QED  BY <2>2, <2>3, ArchWrite
<1>8. CASE write_back_fail
  <2>1. /\ decodeFail # <<>> /\ writeBack(Head(decodeFail), Error) /\ wakeupFn(0, Error)
        /\ UNCHANGED <<prog, epoch, archPc, csr>>
    BY <1>8 DEF write_back_fail
  <2>2. Head(decodeFail) \in Waiting /\ decodeErr(data[Head(decodeFail)])
    BY <2>1, FailHead DEF IsaInv
  <2>3. ~isDirect(Head(decodeFail)) /\ data[Head(decodeFail)].pdst = 0
    BY <2>2, ErrIsDirect DEF isDirect, IsaInv, HolderInv, PdstInv, Waiting
  <2> QED  BY <2>1, <2>2, <2>3, ArchWrite
<1>9. CASE execute_direct /\ first.epoch = epoch
  BY <1>9, ArchDirect DEF IsaInv, Arch!IsaNext
<1>10. CASE execute_direct /\ first.epoch # epoch
  <2>1. PICK r : writeBack(firstP, r) /\ wakeupFn(first.pdst, r)
    BY <1>10, Zenon DEF execute_direct
  <2>2. UNCHANGED <<prog, epoch, archPc, csr>>
    BY <1>10 DEF execute_direct
  <2>3. firstP \in Waiting
    BY <1>10, DirectHead DEF IsaInv, ResultsInv
  <2>4. archRegs' = archRegs
    <3>1. first.pdst = 0 \/ first.pdst \in scoreboard
      BY <2>3, WakeupParts, BusyParts DEF IsaInv, ResultsInv, first
    <3> QED  BY <2>1, <3>1, RegsKept DEF IsaInv, ResultsInv
  <2>5. archDone' = archDone
    BY <1>10, <2>1, <2>2 DEF archDone, writeBack, first
  <2> QED  BY <2>2, <2>4, <2>5, Stutter
<1>11. CASE discard_instruction \/ commit_killed
  BY <1>11, ArchDrop
<1>12. CASE commit_interrupt
  BY <1>12, ArchInterrupt DEF IsaInv, Arch!IsaNext
<1>13. CASE commit_exception \/ commit_ok
  BY <1>13, ArchCommit DEF IsaInv
<1>14. CASE UNCHANGED vars
  BY <1>14, ArchSame DEF vars, coreVars
<1> QED
  BY <1>1, <1>2, <1>3, <1>4, <1>5, <1>6, <1>7, <1>8, <1>9, <1>10, <1>11, <1>12, <1>13, <1>14, Zenon
     DEF Next, Retirement

(* The out-of-order core implements the ISA, whatever the program, the     *)
(* predictions, the order in which the units and the memory answer, the    *)
(* loads that are killed, the interrupts, and the sizes of the machine.    *)
THEOREM IsaCorrect == Spec => ImplementsIsa
<1>1. IsaInv /\ [Next]_vars => [Arch!IsaNext]_(Arch!isaVars)
  BY ArchNext
<1>2. Spec => []IsaInv
  <2>1. Spec => []KillInv
    <3>1. TypeOK /\ KillInv /\ [Next]_vars => KillInv'
      BY KillNext
    <3> QED  BY <3>1, KillInit, TypeCorrect, PTL DEF Spec
  <2>2. TypeOK /\ HolderInv /\ OrderInv /\ KillInv /\ ResultsInv /\ SourceInv /\ ValueInv => IsaInv
    BY DEF IsaInv
  <2> QED
    BY <2>1, <2>2, TypeCorrect, HolderCorrect, OrderCorrect, ResultsCorrect, SourceCorrect,
       ValueCorrect, PTL
<1> QED  BY <1>1, <1>2, ArchInit, PTL DEF Spec, ImplementsIsa, Arch!IsaSpec
=============================================================================
