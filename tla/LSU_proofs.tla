------------------------------ MODULE LSU_proofs ------------------------------
(***************************************************************************)
(* The load-store unit in the core: its types, the order of the two rings, *)
(* the ages, the pairing of writes with their answers, and that every      *)
(* memory operation is answered exactly once.  For every size of the       *)
(* rings, the store buffer and the reorder buffer and every stream of      *)
(* operations.                                                             *)
(***************************************************************************)
EXTENDS LSUCore, ROB_proofs

-----------------------------------------------------------------------------
(* Types.                                                                  *)

Entry    == [op : Ops, epoch : Epoch, age : Age, slot : LqIndex \cup SqIndex]
ResultT  == [ok : BOOLEAN, data : Data, flush : BOOLEAN]
LoadRing ==
  [entries : [LqIndex -> LsuEntry], addresses : [LqIndex -> Addr], valid : SUBSET LqIndex,
   addrValid : SUBSET LqIndex, executed : SUBSET LqIndex, head : LqIndex, tail : LqIndex]
StoreRing ==
  [entries : [SqIndex -> LsuEntry], addresses : [SqIndex -> Addr], datas : [SqIndex -> Data],
   valid : SUBSET SqIndex, ready : SUBSET SqIndex, toIssue : SUBSET SqIndex,
   head : SqIndex, tail : SqIndex]

(* The slot of a ring that an operation was given.                         *)
SlotT(e) == e.slot \in IF e.op.kind = "load" THEN LqIndex ELSE SqIndex

RobT ==
  /\ RingOK /\ data \in [RobIndex -> Entry] /\ results \in [RobIndex -> ResultT]
  /\ resultValid \subseteq RobIndex /\ \A i \in RobIndex : SlotT(data[i])

CoreT ==
  /\ killed \subseteq RobIndex /\ waitDmemCommit \subseteq RobIndex /\ lsu_iq \subseteq RobIndex
  /\ epoch \in Epoch /\ current_age \in Age /\ invalidateQ \in 0 .. 1

RingT ==
  /\ loadQ \in LoadRing /\ storeQ \in StoreRing
  /\ tagQ \in Seq({"Load", "Store"}) /\ Len(tagQ) <= LqSize + SqSize

WriteT ==
  /\ stb \in Seq(StbEntry) /\ Len(stb) <= StbSize
  /\ wrequestQ \in Seq(StbEntry) /\ Len(wrequestQ) <= 4
  /\ isStoreMMIO \in Seq(BOOLEAN) /\ stbDeqQ \in 0 .. 2
  /\ cacheWrite \in Nat /\ wresponseQ \in Nat /\ mem \in [Word -> Data]

ReadT ==
  /\ rrequestQ \in Seq(Word) /\ Len(rrequestQ) <= 4
  /\ pendingDmemLoadsQ \in Seq(LqIndex) /\ pendingMmioLoadsQ \in Seq(LqIndex)
  /\ cacheRead \in Seq(Data) /\ rresponseQ \in Seq(Data)

ReplyT ==
  /\ loadSuccessQ \in Seq(LsuReply) /\ Len(loadSuccessQ) <= 2
  /\ loadFailureQ \in Seq(LsuReply) /\ Len(loadFailureQ) <= 2
  /\ storeSuccessQ \in Seq(LsuReply) /\ Len(storeSuccessQ) <= 2

LsuTypeInv == RobT /\ CoreT /\ RingT /\ WriteT /\ ReadT /\ ReplyT

LEMMA OpType ==
  ASSUME NEW o \in Ops
  PROVE  /\ o.kind \in {"load", "store", "branch", "fence", "cbo"}
         /\ o.addr \in Addr /\ o.size \in Size /\ o.data \in Data
BY LSUCoreAssumption

LEMMA DataTypes ==
  /\ zeroData \in Data /\ 0 \in Epoch /\ 0 \in Age /\ 0 \in RobIndex /\ 0 \in LqIndex /\ 0 \in SqIndex
  /\ <<0, 0>> \in Addr
  /\ \A k \in Nat : k % NumEpoch \in Epoch /\ k % NumAge \in Age
<1>1. zeroData \in Data
  BY LsuTypesAssumption DEF zeroData, Data
<1>2. 0 \in Epoch /\ 0 \in Age /\ 0 \in RobIndex /\ 0 \in LqIndex /\ 0 \in SqIndex
  BY LsuAssumption, LSUCoreAssumption, RobSizeAssumption
     DEF Epoch, Age, RobIndex, LqIndex, SqIndex
<1>3. <<0, 0>> \in Addr
  BY LsuTypesAssumption DEF Addr, Word, Lane
<1>4. \A k \in Nat : k % NumEpoch \in Epoch /\ k % NumAge \in Age
  BY LsuAssumption, LSUCoreAssumption DEF Epoch, Age
<1> QED  BY <1>1, <1>2, <1>3, <1>4

LEMMA AddrParts ==
  ASSUME NEW a \in Addr
  PROVE  a[1] \in Word /\ a[2] \in Lane
BY DEF Addr

LEMMA NextIn ==
  ASSUME NEW size \in Nat \ {0}, NEW i \in 0 .. size - 1
  PROVE  nextIn(i, size) \in 0 .. size - 1
BY DEF nextIn

LEMMA ShiftTypes ==
  ASSUME NEW a \in Addr, NEW d \in Data, NEW s
  PROVE  toStb(a, s, d) \in StbEntry /\ finish(a, s, d) \in Data
<1>1. a[1] \in Word /\ a[2] \in {0, 1} /\ 0 \in Byte /\ d \in [{0, 1} -> Byte] /\ Lane = {0, 1}
  BY AddrParts, LsuTypesAssumption DEF Data, Lane
<1>2. \A l \in Lane : l >= a[2] => l - a[2] \in {0, 1}
  BY <1>1
<1>3. [l \in Lane |-> IF l >= a[2] THEN d[l - a[2]] ELSE 0] \in Data
  BY <1>1, <1>2 DEF Data
<1>4. {l \in Lane : l >= a[2] /\ (s = "Word" \/ l = a[2])} \in SUBSET Lane
  OBVIOUS
<1>5. toStb(a, s, d) \in StbEntry
  BY <1>1, <1>3, <1>4 DEF toStb, StbEntry
<1>6. finish(a, s, d) \in Data
  BY <1>1 DEF finish, Data
<1> QED  BY <1>5, <1>6

LEMMA MergeType ==
  ASSUME NEW d \in Data, NEW e \in StbEntry
  PROVE  merge(d, e) \in Data
BY DEF merge, Data, StbEntry

LEMMA AnswerType ==
  ASSUME NEW e \in LsuEntry, NEW ok \in BOOLEAN, NEW d \in Data
  PROVE  Answer(e, ok, d) \in LsuReply /\ Answer(e, ok, d).index = e.index
BY DEF Answer, LsuReply, LsuEntry

LEMMA ResultType ==
  ASSUME NEW ok \in BOOLEAN, NEW d \in Data, NEW b \in BOOLEAN
  PROVE  Result(ok, d, b) \in ResultT
BY DEF Result, ResultT

LEMMA TypesInit == Init => LsuTypeInv
<1> SUFFICES ASSUME Init PROVE LsuTypeInv
  OBVIOUS
<1> USE DataTypes
<1> DEFINE entry == [index |-> 0, epoch |-> 0, age |-> 0, size |-> "Word"]
<1>1. PICK o \in Ops : mkROB([op |-> o, epoch |-> 0, age |-> 0, slot |-> 0],
                             Result(FALSE, zeroData, FALSE))
  BY DEF Init
<1>2. mkLSU(entry) /\ entry \in LsuEntry
  BY DEF Init, LsuEntry, Size
<1>3. RobT
  <2>1. [op |-> o, epoch |-> 0, age |-> 0, slot |-> 0] \in Entry
    BY DEF Entry
  <2>2. Result(FALSE, zeroData, FALSE) \in ResultT
    BY ResultType
  <2>3. RingOK
    BY <1>1 DEF mkROB, RingOK
  <2> QED  BY <1>1, <2>1, <2>2, <2>3 DEF mkROB, RobT, SlotT
<1>4. CoreT
  BY <1>2 DEF Init, mkLSU, CoreT
<1>5. RingT
  <2> HIDE DEF entry
  <2>1. loadQ \in LoadRing
    BY <1>2 DEF mkLSU, LoadRing
  <2>2. [l \in Lane |-> 0] \in Data
    BY DEF zeroData
  <2>3. storeQ \in StoreRing
    BY <1>2, <2>2 DEF mkLSU, StoreRing
  <2>4. tagQ \in Seq({"Load", "Store"}) /\ Len(tagQ) <= LqSize + SqSize
    BY <1>2, LsuAssumption DEF mkLSU
  <2> QED  BY <2>1, <2>3, <2>4 DEF RingT
<1>6. WriteT
  <2>1. [l \in Lane |-> 0] \in Data
    BY DEF zeroData
  <2> QED  BY <1>2, <2>1, LsuAssumption DEF mkLSU, WriteT
<1>7. ReadT /\ ReplyT
  BY <1>2 DEF mkLSU, ReadT, ReplyT
<1> QED  BY <1>3, <1>4, <1>5, <1>6, <1>7 DEF LsuTypeInv


-----------------------------------------------------------------------------
(* The methods and rules of the rings, field by field.                     *)

LEMMA LoadFields ==
  ASSUME NEW q \in LoadRing
  PROVE  /\ q.entries \in [LqIndex -> LsuEntry] /\ q.addresses \in [LqIndex -> Addr]
         /\ q.valid \subseteq LqIndex /\ q.addrValid \subseteq LqIndex /\ q.executed \subseteq LqIndex
         /\ q.head \in LqIndex /\ q.tail \in LqIndex
BY DEF LoadRing

LEMMA StoreFields ==
  ASSUME NEW q \in StoreRing
  PROVE  /\ q.entries \in [SqIndex -> LsuEntry] /\ q.addresses \in [SqIndex -> Addr]
         /\ q.datas \in [SqIndex -> Data]
         /\ q.valid \subseteq SqIndex /\ q.ready \subseteq SqIndex /\ q.toIssue \subseteq SqIndex
         /\ q.head \in SqIndex /\ q.tail \in SqIndex
BY DEF StoreRing

LEMMA Push ==
  ASSUME NEW S, NEW q \in Seq(S), NEW x \in S, NEW n \in Nat, Len(q) < n
  PROVE  Append(q, x) \in Seq(S) /\ Len(Append(q, x)) <= n
BY AppendFacts

LEMMA Pop ==
  ASSUME NEW S, NEW q \in Seq(S), q # <<>>
  PROVE  /\ Tail(q) \in Seq(S) /\ Head(q) \in S /\ Len(Tail(q)) = Len(q) - 1
         /\ \A n \in Nat : Len(q) <= n => Len(Tail(q)) <= n
<1>1. /\ Len(q) \in Nat /\ Len(q) > 0 /\ Head(q) = q[1] /\ 1 \in 1 .. Len(q)
      /\ Tail(q) \in Seq(S) /\ Len(Tail(q)) = Len(q) - 1
  BY TailFacts
<1> QED  BY <1>1

LEMMA TagAppend ==
  ASSUME RingT, NEW x \in {"Load", "Store"}, Len(tagQ) < LqSize + SqSize
  PROVE  /\ Append(tagQ, x) \in Seq({"Load", "Store"})
         /\ Len(Append(tagQ, x)) <= LqSize + SqSize
BY LsuAssumption DEF RingT

LEMMA EnqLoad ==
  ASSUME RingT, NEW entry \in LsuEntry, enqLoad(entry)
  PROVE  /\ RingT'
         /\ loadQ.tail \in LqIndex /\ loadQ.tail \notin loadQ.valid
         /\ loadQ'.valid = loadQ.valid \cup {loadQ.tail}
         /\ loadQ'.addrValid = loadQ.addrValid \ {loadQ.tail}
         /\ loadQ'.executed = loadQ.executed /\ loadQ'.addresses = loadQ.addresses
         /\ loadQ'.head = loadQ.head /\ loadQ'.tail = nextIn(loadQ.tail, LqSize)
         /\ loadQ'.entries = [loadQ.entries EXCEPT ![loadQ.tail] = entry]
         /\ storeQ' = storeQ /\ tagQ' = Append(tagQ, "Load")
<1> DEFINE t == loadQ.tail
<1>1. /\ t \notin loadQ.valid /\ Len(tagQ) < LqSize + SqSize
      /\ loadQ' = [loadQ EXCEPT !.addrValid = @ \ {t}, !.entries[t] = entry,
                                !.valid = @ \cup {t}, !.tail = nextIn(t, LqSize)]
      /\ tagQ' = Append(tagQ, "Load") /\ storeQ' = storeQ
  BY DEF enqLoad
<1>2. loadQ \in LoadRing /\ t \in LqIndex /\ nextIn(t, LqSize) \in LqIndex
  BY LoadFields, NextIn, LsuAssumption DEF RingT, LqIndex
<1>3. /\ loadQ'.valid = loadQ.valid \cup {t} /\ loadQ'.addrValid = loadQ.addrValid \ {t}
      /\ loadQ'.executed = loadQ.executed /\ loadQ'.addresses = loadQ.addresses
      /\ loadQ'.head = loadQ.head /\ loadQ'.tail = nextIn(t, LqSize)
      /\ loadQ'.entries = [loadQ.entries EXCEPT ![t] = entry]
  BY <1>1, <1>2 DEF LoadRing
<1>4. loadQ' \in LoadRing
  BY <1>1, <1>2 DEF LoadRing
<1>5. RingT'
  BY <1>1, <1>4, TagAppend DEF RingT
<1> QED  BY <1>1, <1>2, <1>3, <1>5

LEMMA EnqStore ==
  ASSUME RingT, NEW entry \in LsuEntry, enqStore(entry)
  PROVE  /\ RingT'
         /\ storeQ.tail \in SqIndex /\ storeQ.tail \notin storeQ.valid
         /\ storeQ'.valid = storeQ.valid \cup {storeQ.tail}
         /\ storeQ'.ready = storeQ.ready \ {storeQ.tail}
         /\ storeQ'.toIssue = storeQ.toIssue \cup {storeQ.tail}
         /\ storeQ'.addresses = storeQ.addresses /\ storeQ'.datas = storeQ.datas
         /\ storeQ'.head = storeQ.head /\ storeQ'.tail = nextIn(storeQ.tail, SqSize)
         /\ storeQ'.entries = [storeQ.entries EXCEPT ![storeQ.tail] = entry]
         /\ loadQ' = loadQ /\ tagQ' = Append(tagQ, "Store")
<1> DEFINE t == storeQ.tail
<1>1. /\ t \notin storeQ.valid /\ Len(tagQ) < LqSize + SqSize
      /\ storeQ' = [storeQ EXCEPT !.ready = @ \ {t}, !.entries[t] = entry,
                                  !.toIssue = @ \cup {t}, !.valid = @ \cup {t},
                                  !.tail = nextIn(t, SqSize)]
      /\ tagQ' = Append(tagQ, "Store") /\ loadQ' = loadQ
  BY DEF enqStore
<1>2. storeQ \in StoreRing /\ t \in SqIndex /\ nextIn(t, SqSize) \in SqIndex
  BY StoreFields, NextIn, LsuAssumption DEF RingT, SqIndex
<1>3. /\ storeQ'.valid = storeQ.valid \cup {t} /\ storeQ'.ready = storeQ.ready \ {t}
      /\ storeQ'.toIssue = storeQ.toIssue \cup {t}
      /\ storeQ'.addresses = storeQ.addresses /\ storeQ'.datas = storeQ.datas
      /\ storeQ'.head = storeQ.head /\ storeQ'.tail = nextIn(t, SqSize)
      /\ storeQ'.entries = [storeQ.entries EXCEPT ![t] = entry]
  BY <1>1, <1>2 DEF StoreRing
<1>4. storeQ' \in StoreRing
  BY <1>1, <1>2 DEF StoreRing
<1>5. RingT'
  BY <1>1, <1>4, TagAppend DEF RingT
<1> QED  BY <1>1, <1>2, <1>3, <1>5

LEMMA WakeupLoad ==
  ASSUME RingT, ReplyT, NEW i \in LqIndex, NEW addr \in Addr, wakeupLoad(i, addr)
  PROVE  /\ RingT' /\ ReplyT'
         /\ loadQ'.valid = loadQ.valid /\ loadQ'.executed = loadQ.executed
         /\ loadQ'.entries = loadQ.entries /\ loadQ'.addresses = [loadQ.addresses EXCEPT ![i] = addr]
         /\ loadQ'.head = loadQ.head /\ loadQ'.tail = loadQ.tail
         /\ UNCHANGED <<storeQ, tagQ, loadSuccessQ, storeSuccessQ>>
         /\ \/ /\ aligned(addr, loadQ.entries[i].size) /\ loadQ'.addrValid = loadQ.addrValid \cup {i}
               /\ loadFailureQ' = loadFailureQ
            \/ /\ ~aligned(addr, loadQ.entries[i].size) /\ loadQ'.addrValid = loadQ.addrValid
               /\ loadFailureQ' = Append(loadFailureQ, Answer(loadQ.entries[i], FALSE, zeroData))
<1> DEFINE e == loadQ.entries[i]
<1>0. loadQ \in LoadRing /\ e \in LsuEntry /\ UNCHANGED <<storeQ, tagQ, loadSuccessQ, storeSuccessQ>>
  BY LoadFields DEF RingT, wakeupLoad
<1>1. CASE aligned(addr, e.size)
  <2>1. /\ loadQ' = [loadQ EXCEPT !.addresses[i] = addr, !.addrValid = @ \cup {i}]
        /\ loadFailureQ' = loadFailureQ
    BY <1>1 DEF wakeupLoad
  <2>2. /\ loadQ' \in LoadRing
        /\ loadQ'.valid = loadQ.valid /\ loadQ'.executed = loadQ.executed
        /\ loadQ'.entries = loadQ.entries /\ loadQ'.addresses = [loadQ.addresses EXCEPT ![i] = addr]
        /\ loadQ'.head = loadQ.head /\ loadQ'.tail = loadQ.tail
        /\ loadQ'.addrValid = loadQ.addrValid \cup {i}
    BY <1>0, <2>1 DEF LoadRing
  <2>3. RingT'
    BY <1>0, <2>2 DEF RingT
  <2>4. ReplyT'
    BY <1>0, <2>1 DEF ReplyT
  <2> QED  BY <1>0, <1>1, <2>1, <2>2, <2>3, <2>4
<1>2. CASE ~aligned(addr, e.size)
  <2>1. /\ loadQ' = [loadQ EXCEPT !.addresses[i] = addr] /\ Len(loadFailureQ) < 2
        /\ loadFailureQ' = Append(loadFailureQ, Answer(e, FALSE, zeroData))
    BY <1>2 DEF wakeupLoad
  <2>2. /\ loadQ' \in LoadRing
        /\ loadQ'.valid = loadQ.valid /\ loadQ'.executed = loadQ.executed
        /\ loadQ'.entries = loadQ.entries /\ loadQ'.addresses = [loadQ.addresses EXCEPT ![i] = addr]
        /\ loadQ'.head = loadQ.head /\ loadQ'.tail = loadQ.tail
        /\ loadQ'.addrValid = loadQ.addrValid
    BY <1>0, <2>1 DEF LoadRing
  <2>3. Answer(e, FALSE, zeroData) \in LsuReply
    BY <1>0, AnswerType, DataTypes
  <2>4. loadFailureQ' \in Seq(LsuReply) /\ Len(loadFailureQ') <= 2
    BY <2>1, <2>3, Push DEF ReplyT
  <2>5. RingT'
    BY <1>0, <2>2 DEF RingT
  <2>6. ReplyT'
    BY <1>0, <2>4 DEF ReplyT
  <2> QED  BY <1>0, <1>2, <2>1, <2>2, <2>5, <2>6
<1> QED  BY <1>1, <1>2

LEMMA WakeupStore ==
  ASSUME RingT, NEW i \in SqIndex, NEW addr \in Addr, NEW d \in Data, wakeupStore(i, addr, d)
  PROVE  /\ RingT'
         /\ storeQ'.valid = storeQ.valid /\ storeQ'.ready = storeQ.ready \cup {i}
         /\ storeQ'.toIssue = storeQ.toIssue /\ storeQ'.entries = storeQ.entries
         /\ storeQ'.addresses = [storeQ.addresses EXCEPT ![i] = addr]
         /\ storeQ'.datas = [storeQ.datas EXCEPT ![i] = d]
         /\ storeQ'.head = storeQ.head /\ storeQ'.tail = storeQ.tail
         /\ UNCHANGED <<loadQ, tagQ, replyVars>>
<1>1. /\ storeQ' = [storeQ EXCEPT !.addresses[i] = addr, !.datas[i] = d, !.ready = @ \cup {i}]
      /\ UNCHANGED <<loadQ, tagQ, replyVars>> /\ storeQ \in StoreRing
  BY DEF wakeupStore, RingT
<1>2. storeQ' \in StoreRing
  BY <1>1 DEF StoreRing
<1>3. /\ storeQ'.valid = storeQ.valid /\ storeQ'.ready = storeQ.ready \cup {i}
      /\ storeQ'.toIssue = storeQ.toIssue /\ storeQ'.entries = storeQ.entries
      /\ storeQ'.addresses = [storeQ.addresses EXCEPT ![i] = addr]
      /\ storeQ'.datas = [storeQ.datas EXCEPT ![i] = d]
      /\ storeQ'.head = storeQ.head /\ storeQ'.tail = storeQ.tail
  BY <1>1 DEF StoreRing
<1> QED  BY <1>1, <1>2, <1>3 DEF RingT

LEMMA TagTail ==
  ASSUME RingT, tagQ # <<>>
  PROVE  Tail(tagQ) \in Seq({"Load", "Store"}) /\ Len(Tail(tagQ)) <= LqSize + SqSize
BY LsuAssumption DEF RingT

LEMMA CommitLoad ==
  ASSUME RingT, commitLoad
  PROVE  /\ RingT' /\ loadQ.head \in loadQ.valid
         /\ tagQ # <<>> /\ Head(tagQ) = "Load" /\ tagQ' = Tail(tagQ)
         /\ loadQ'.valid = loadQ.valid \ {loadQ.head}
         /\ loadQ'.executed = loadQ.executed \ {loadQ.head}
         /\ loadQ'.addrValid = loadQ.addrValid /\ loadQ'.entries = loadQ.entries
         /\ loadQ'.addresses = loadQ.addresses
         /\ loadQ'.head = nextIn(loadQ.head, LqSize) /\ loadQ'.tail = loadQ.tail
         /\ UNCHANGED <<storeQ, stb, isStoreMMIO, wrequestQ>>
<1> DEFINE h == loadQ.head
<1>1. /\ tagQ # <<>> /\ Head(tagQ) = "Load" /\ tagQ' = Tail(tagQ) /\ h \in loadQ.valid
      /\ loadQ' = [loadQ EXCEPT !.executed = @ \ {h}, !.valid = @ \ {h}, !.head = nextIn(h, LqSize)]
      /\ UNCHANGED <<storeQ, stb, isStoreMMIO, wrequestQ>>
  BY DEF commitLoad
<1>2. loadQ \in LoadRing /\ h \in LqIndex /\ nextIn(h, LqSize) \in LqIndex
  BY LoadFields, NextIn, LsuAssumption DEF RingT, LqIndex
<1>3. /\ loadQ'.valid = loadQ.valid \ {h} /\ loadQ'.executed = loadQ.executed \ {h}
      /\ loadQ'.addrValid = loadQ.addrValid /\ loadQ'.entries = loadQ.entries
      /\ loadQ'.addresses = loadQ.addresses
      /\ loadQ'.head = nextIn(h, LqSize) /\ loadQ'.tail = loadQ.tail
  BY <1>1, <1>2 DEF LoadRing
<1>4. loadQ' \in LoadRing
  BY <1>1, <1>2 DEF LoadRing
<1>5. RingT'
  BY <1>1, <1>4, TagTail DEF RingT
<1> QED  BY <1>1, <1>3, <1>5

(* The entry of the store buffer that a committing store fills.            *)
newEntry == toStb(storeQ.addresses[storeQ.head], storeQ.entries[storeQ.head].size,
                  storeQ.datas[storeQ.head])

LEMMA CommitStore ==
  ASSUME RingT, NEW must \in BOOLEAN, commitStore(must)
  PROVE  /\ RingT' /\ storeQ.head \in storeQ.valid /\ newEntry \in StbEntry
         /\ tagQ # <<>> /\ Head(tagQ) = "Store" /\ tagQ' = Tail(tagQ)
         /\ storeQ'.valid = storeQ.valid \ {storeQ.head}
         /\ storeQ'.ready = storeQ.ready /\ storeQ'.toIssue = storeQ.toIssue
         /\ storeQ'.entries = storeQ.entries
         /\ storeQ'.addresses = storeQ.addresses /\ storeQ'.datas = storeQ.datas
         /\ storeQ'.head = nextIn(storeQ.head, SqSize) /\ storeQ'.tail = storeQ.tail
         /\ loadQ' = loadQ
         /\ must => /\ Len(stb) < StbSize /\ Len(isStoreMMIO) < StbSize /\ Len(wrequestQ) < 4
                    /\ stb' = Append(stb, newEntry) /\ wrequestQ' = Append(wrequestQ, newEntry)
                    /\ isStoreMMIO' = Append(isStoreMMIO, isMMIO(newEntry.word))
         /\ ~must => UNCHANGED <<stb, isStoreMMIO, wrequestQ>>
<1> DEFINE h == storeQ.head
<1>1. /\ tagQ # <<>> /\ Head(tagQ) = "Store" /\ tagQ' = Tail(tagQ) /\ h \in storeQ.valid
      /\ storeQ' = [storeQ EXCEPT !.valid = @ \ {h}, !.head = nextIn(h, SqSize)]
      /\ loadQ' = loadQ
  BY DEF commitStore
<1>2. /\ must => /\ Len(stb) < StbSize /\ Len(isStoreMMIO) < StbSize /\ Len(wrequestQ) < 4
                 /\ stb' = Append(stb, newEntry) /\ wrequestQ' = Append(wrequestQ, newEntry)
                 /\ isStoreMMIO' = Append(isStoreMMIO, isMMIO(newEntry.word))
      /\ ~must => UNCHANGED <<stb, isStoreMMIO, wrequestQ>>
  BY DEF commitStore, newEntry
<1>3. /\ storeQ \in StoreRing /\ h \in SqIndex /\ nextIn(h, SqSize) \in SqIndex
      /\ storeQ.addresses[h] \in Addr /\ storeQ.datas[h] \in Data
  BY StoreFields, NextIn, LsuAssumption DEF RingT, SqIndex
<1>4. /\ storeQ'.valid = storeQ.valid \ {h}
      /\ storeQ'.ready = storeQ.ready /\ storeQ'.toIssue = storeQ.toIssue
      /\ storeQ'.entries = storeQ.entries
      /\ storeQ'.addresses = storeQ.addresses /\ storeQ'.datas = storeQ.datas
      /\ storeQ'.head = nextIn(h, SqSize) /\ storeQ'.tail = storeQ.tail
  BY <1>1, <1>3 DEF StoreRing
<1>5. storeQ' \in StoreRing
  BY <1>1, <1>3 DEF StoreRing
<1>6. RingT'
  BY <1>1, <1>5, TagTail DEF RingT
<1>7. newEntry \in StbEntry
  BY <1>3, ShiftTypes DEF newEntry
<1> QED  BY <1>1, <1>2, <1>4, <1>6, <1>7


LEMMA SameTypes ==
  /\ RobT /\ UNCHANGED robVars => RobT'
  /\ RingT /\ UNCHANGED ringVars => RingT'
  /\ WriteT /\ UNCHANGED <<writeVars, mem>> => WriteT'
  /\ ReadT /\ UNCHANGED readVars => ReadT'
  /\ ReplyT /\ UNCHANGED replyVars => ReplyT'
<1>1. ASSUME RobT, UNCHANGED robVars PROVE RobT'
  BY <1>1 DEF RobT, robVars, RingOK
<1>2. ASSUME RingT, UNCHANGED ringVars PROVE RingT'
  BY <1>2 DEF RingT, ringVars
<1>3. ASSUME WriteT, UNCHANGED <<writeVars, mem>> PROVE WriteT'
  BY <1>3 DEF WriteT, writeVars
<1>4. ASSUME ReadT, UNCHANGED readVars PROVE ReadT'
  BY <1>4 DEF ReadT, readVars
<1>5. ASSUME ReplyT, UNCHANGED replyVars PROVE ReplyT'
  BY <1>5 DEF ReplyT, replyVars
<1> QED  BY <1>1, <1>2, <1>3, <1>4, <1>5

(* The entry of a ring that dispatch writes.                               *)
ringEntry(o) == [index |-> nextP, epoch |-> epoch, age |-> current_age, size |-> o.size]

(* What dispatch does, with the ring it enters.                            *)
LEMMA DispatchEffect ==
  ASSUME LsuTypeInv, NEW o \in Ops, dispatch(o)
  PROVE  /\ ringEntry(o) \in LsuEntry /\ nextP \in RobIndex
         /\ enq(data'[nextP])
         /\ data'[nextP].op = o /\ data'[nextP].epoch = epoch /\ data'[nextP].age = current_age
         /\ data'[nextP] \in Entry /\ SlotT(data'[nextP])
         /\ \/ o.kind = "load" /\ enqLoad(ringEntry(o)) /\ data'[nextP].slot = loadQ.tail
            \/ o.kind = "store" /\ enqStore(ringEntry(o)) /\ data'[nextP].slot = storeQ.tail
            \/ ~isDmem(o) /\ UNCHANGED ringVars
         /\ current_age' = (current_age + 1) % NumAge
         /\ isDmem(o) => /\ waitDmemCommit' = waitDmemCommit \cup {nextP}
                         /\ lsu_iq' = lsu_iq \cup {nextP}
         /\ ~isDmem(o) => UNCHANGED <<waitDmemCommit, lsu_iq>>
         /\ UNCHANGED <<replyVars, readVars, writeVars, invalidateQ, mem, epoch, killed, retired>>
<1> DEFINE sl == CASE o.kind = "load"  -> loadQ.tail
                   [] o.kind = "store" -> storeQ.tail
                   [] OTHER            -> 0
           en == [op |-> o, epoch |-> epoch, age |-> current_age, slot |-> sl]
<1>1. /\ enq(en) /\ current_age' = (current_age + 1) % NumAge
      /\ CASE o.kind = "load"  -> enqLoad(ringEntry(o))
           [] o.kind = "store" -> enqStore(ringEntry(o))
           [] OTHER            -> UNCHANGED ringVars
      /\ isDmem(o) => /\ waitDmemCommit' = waitDmemCommit \cup {nextP}
                      /\ lsu_iq' = lsu_iq \cup {nextP}
      /\ ~isDmem(o) => UNCHANGED <<waitDmemCommit, lsu_iq>>
      /\ UNCHANGED <<replyVars, readVars, writeVars, invalidateQ, mem, epoch, killed, retired>>
  BY DEF dispatch, ringEntry
<1>2. /\ nextP \in RobIndex /\ epoch \in Epoch /\ current_age \in Age /\ data \in [RobIndex -> Entry]
      /\ loadQ.tail \in LqIndex /\ storeQ.tail \in SqIndex
  BY LoadFields, StoreFields DEF LsuTypeInv, RobT, RingOK, CoreT, RingT
<1>3. ringEntry(o) \in LsuEntry
  BY <1>2, OpType DEF ringEntry, LsuEntry
<1>4. CASE o.kind = "load"
  <2>1. sl = loadQ.tail /\ enqLoad(ringEntry(o)) /\ isDmem(o)
    BY <1>1, <1>4 DEF isDmem
  <2> HIDE DEF sl
  <2>2. en \in Entry /\ SlotT(en) /\ en.op = o /\ en.epoch = epoch /\ en.age = current_age
        /\ en.slot = loadQ.tail
    BY <1>2, <1>4, <2>1 DEF Entry, SlotT
  <2> HIDE DEF en
  <2>3. data'[nextP] = en
    BY <1>1, <1>2 DEF enq
  <2> QED  BY <1>1, <1>2, <1>3, <1>4, <2>1, <2>2, <2>3
<1>5. CASE o.kind = "store"
  <2>1. sl = storeQ.tail /\ enqStore(ringEntry(o)) /\ isDmem(o)
    BY <1>1, <1>5 DEF isDmem
  <2> HIDE DEF sl
  <2>2. en \in Entry /\ SlotT(en) /\ en.op = o /\ en.epoch = epoch /\ en.age = current_age
        /\ en.slot = storeQ.tail
    BY <1>2, <1>5, <2>1 DEF Entry, SlotT
  <2> HIDE DEF en
  <2>3. data'[nextP] = en
    BY <1>1, <1>2 DEF enq
  <2> QED  BY <1>1, <1>2, <1>3, <1>5, <2>1, <2>2, <2>3
<1>6. CASE o.kind \notin {"load", "store"}
  <2>1. sl = 0 /\ UNCHANGED ringVars /\ ~isDmem(o)
    BY <1>1, <1>6 DEF isDmem
  <2> HIDE DEF sl
  <2>2. en \in Entry /\ SlotT(en) /\ en.op = o /\ en.epoch = epoch /\ en.age = current_age
    BY <1>2, <1>6, <2>1, DataTypes DEF Entry, SlotT
  <2> HIDE DEF en
  <2>3. data'[nextP] = en
    BY <1>1, <1>2 DEF enq
  <2> QED  BY <1>1, <1>2, <1>3, <2>1, <2>2, <2>3
<1> QED  BY <1>4, <1>5, <1>6

LEMMA TypesDispatch ==
  ASSUME LsuTypeInv, NEW o \in Ops, dispatch(o)
  PROVE  LsuTypeInv'
<1>1. /\ enq(data'[nextP]) /\ data'[nextP] \in Entry /\ SlotT(data'[nextP]) /\ nextP \in RobIndex
      /\ ringEntry(o) \in LsuEntry
      /\ enqLoad(ringEntry(o)) \/ enqStore(ringEntry(o)) \/ UNCHANGED ringVars
      /\ current_age' = (current_age + 1) % NumAge
      /\ waitDmemCommit' \in {waitDmemCommit, waitDmemCommit \cup {nextP}}
      /\ lsu_iq' \in {lsu_iq, lsu_iq \cup {nextP}}
      /\ UNCHANGED <<replyVars, readVars, writeVars, invalidateQ, mem, epoch, killed, retired>>
  BY DispatchEffect
<1>2. RobT'
  <2> DEFINE en == data'[nextP]
  <2>1. en \in Entry /\ SlotT(en) /\ enq(en) /\ RobT
    BY <1>1 DEF LsuTypeInv
  <2>2. RingOK'
    BY <2>1, EnqLive DEF RobT
  <2>3. data' = [data EXCEPT ![nextP] = en] /\ UNCHANGED <<results, resultValid>>
    BY <2>1 DEF enq
  <2> HIDE DEF en
  <2> QED  BY <1>1, <2>1, <2>2, <2>3 DEF RobT
<1>3. CoreT'
  <2>1. (current_age + 1) % NumAge \in Age
    BY DataTypes, LsuAssumption DEF LsuTypeInv, CoreT, Age
  <2> QED  BY <1>1, <2>1 DEF LsuTypeInv, CoreT
<1>4. RingT'
  BY <1>1, EnqLoad, EnqStore, SameTypes DEF LsuTypeInv
<1>5. WriteT' /\ ReadT' /\ ReplyT'
  BY <1>1, SameTypes DEF LsuTypeInv
<1> QED  BY <1>2, <1>3, <1>4, <1>5 DEF LsuTypeInv


(* The operation whose operands arrive, and the slot of its ring.          *)
woken(i) ==
  LET e == data[i] IN
  /\ i \in lsu_iq /\ lsu_iq' = lsu_iq \ {i}
  /\ e.op.addr \in Addr /\ e.op.data \in Data
  /\ \/ e.op.kind = "load" /\ e.slot \in LqIndex /\ wakeupLoad(e.slot, e.op.addr)
     \/ e.op.kind # "load" /\ e.slot \in SqIndex /\ wakeupStore(e.slot, e.op.addr, e.op.data)

LEMMA ConnectEffect ==
  ASSUME LsuTypeInv, connect
  PROVE  /\ \E i \in RobIndex : woken(i)
         /\ UNCHANGED <<robVars, readVars, writeVars, invalidateQ, mem,
                        epoch, current_age, killed, waitDmemCommit, retired>>
<1>1. PICK i \in lsu_iq :
        /\ lsu_iq' = lsu_iq \ {i}
        /\ IF data[i].op.kind = "load"
             THEN wakeupLoad(data[i].slot, data[i].op.addr)
             ELSE wakeupStore(data[i].slot, data[i].op.addr, data[i].op.data)
        /\ UNCHANGED <<robVars, readVars, writeVars, invalidateQ, mem,
                       epoch, current_age, killed, waitDmemCommit, retired>>
  BY DEF connect
<1>2. i \in RobIndex /\ data[i] \in Entry /\ SlotT(data[i])
  BY DEF LsuTypeInv, CoreT, RobT
<1>3. data[i].op \in Ops
  BY <1>2 DEF Entry
<1>4. data[i].op.addr \in Addr /\ data[i].op.data \in Data
  BY <1>3, OpType
<1>5. woken(i)
  BY <1>1, <1>2, <1>4 DEF woken, SlotT
<1> QED  BY <1>1, <1>2, <1>5

LEMMA TypesConnect ==
  ASSUME LsuTypeInv, connect
  PROVE  LsuTypeInv'
<1>1. UNCHANGED <<robVars, readVars, writeVars, invalidateQ, mem,
                  epoch, current_age, killed, waitDmemCommit, retired>>
  BY ConnectEffect
<1>2. PICK i \in RobIndex : woken(i)
  BY ConnectEffect
<1>3. RobT' /\ WriteT' /\ ReadT'
  BY <1>1, SameTypes DEF LsuTypeInv
<1>4. CoreT'
  BY <1>1, <1>2 DEF LsuTypeInv, CoreT, woken
<1>5. RingT' /\ ReplyT'
  BY <1>2, WakeupLoad, WakeupStore, SameTypes DEF LsuTypeInv, woken
<1> QED  BY <1>3, <1>4, <1>5 DEF LsuTypeInv

LEMMA WriteBackTypes ==
  ASSUME RobT, NEW i \in RobIndex, NEW r \in ResultT, writeBack(i, r)
  PROVE  RobT'
BY DEF RobT, writeBack, RingOK

LEMMA ReplyEffect ==
  ASSUME ReplyT, lsuDeq
  PROVE  /\ Head(reply) \in LsuReply /\ ReplyT'
         /\ \/ /\ loadSuccessQ # <<>> /\ reply = loadSuccessQ /\ loadSuccessQ' = Tail(loadSuccessQ)
               /\ UNCHANGED <<loadFailureQ, storeSuccessQ>>
            \/ /\ loadFailureQ # <<>> /\ reply = loadFailureQ /\ loadFailureQ' = Tail(loadFailureQ)
               /\ UNCHANGED <<loadSuccessQ, storeSuccessQ>>
            \/ /\ storeSuccessQ # <<>> /\ reply = storeSuccessQ /\ storeSuccessQ' = Tail(storeSuccessQ)
               /\ UNCHANGED <<loadSuccessQ, loadFailureQ>>
<1>1. CASE loadSuccessQ # <<>>
  <2>1. /\ reply = loadSuccessQ /\ loadSuccessQ' = Tail(loadSuccessQ)
        /\ UNCHANGED <<loadFailureQ, storeSuccessQ>>
    BY <1>1 DEF reply, lsuDeq
  <2>2. Head(reply) \in LsuReply /\ loadSuccessQ' \in Seq(LsuReply) /\ Len(loadSuccessQ') <= 2
    BY <1>1, <2>1, Pop DEF ReplyT
  <2> QED  BY <1>1, <2>1, <2>2 DEF ReplyT
<1>2. CASE loadSuccessQ = <<>> /\ loadFailureQ # <<>>
  <2>1. /\ reply = loadFailureQ /\ loadFailureQ' = Tail(loadFailureQ)
        /\ UNCHANGED <<loadSuccessQ, storeSuccessQ>>
    BY <1>2 DEF reply, lsuDeq
  <2>2. Head(reply) \in LsuReply /\ loadFailureQ' \in Seq(LsuReply) /\ Len(loadFailureQ') <= 2
    BY <1>2, <2>1, Pop DEF ReplyT
  <2> QED  BY <1>2, <2>1, <2>2 DEF ReplyT
<1>3. CASE loadSuccessQ = <<>> /\ loadFailureQ = <<>>
  <2>1. /\ reply = storeSuccessQ /\ storeSuccessQ # <<>> /\ storeSuccessQ' = Tail(storeSuccessQ)
        /\ UNCHANGED <<loadSuccessQ, loadFailureQ>>
    BY <1>3 DEF reply, lsuDeq
  <2>2. Head(reply) \in LsuReply /\ storeSuccessQ' \in Seq(LsuReply) /\ Len(storeSuccessQ') <= 2
    BY <2>1, Pop DEF ReplyT
  <2> QED  BY <2>1, <2>2 DEF ReplyT
<1> QED  BY <1>1, <1>2, <1>3

LEMMA TypesWriteBack ==
  ASSUME LsuTypeInv, write_back
  PROVE  LsuTypeInv'
<1> DEFINE r == Head(reply)
<1>1. PICK b \in BOOLEAN :
        /\ lsuDeq /\ writeBack(r.index, Result(r.ok, r.data, b))
        /\ UNCHANGED <<ringVars, readVars, writeVars, invalidateQ, mem, coreVars>>
  BY LSUCoreAssumption DEF write_back
<1>2. r \in LsuReply /\ ReplyT'
  BY <1>1, ReplyEffect DEF LsuTypeInv
<1>3. r.index \in RobIndex /\ Result(r.ok, r.data, b) \in ResultT
  BY <1>2, ResultType DEF LsuReply
<1>4. RobT'
  BY <1>1, <1>3, WriteBackTypes DEF LsuTypeInv
<1>5. CoreT'
  BY <1>1 DEF LsuTypeInv, CoreT, coreVars
<1>6. RingT' /\ WriteT' /\ ReadT'
  BY <1>1, SameTypes DEF LsuTypeInv
<1> QED  BY <1>2, <1>4, <1>5, <1>6 DEF LsuTypeInv

LEMMA TypesBranch ==
  ASSUME LsuTypeInv, write_back_branch
  PROVE  LsuTypeInv'
<1>1. PICK i \in Live \ resultValid, b \in BOOLEAN :
        writeBack(i, Result(TRUE, zeroData, b)) /\ UNCHANGED <<lsuVars, coreVars>>
  BY DEF write_back_branch
<1>2. i \in RobIndex /\ Result(TRUE, zeroData, b) \in ResultT
  BY ResultType, DataTypes DEF Live
<1>3. RobT'
  BY <1>1, <1>2, WriteBackTypes DEF LsuTypeInv
<1>4. CoreT'
  BY <1>1 DEF LsuTypeInv, CoreT, coreVars, lsuVars
<1>5. RingT' /\ WriteT' /\ ReadT' /\ ReplyT'
  BY <1>1, SameTypes DEF LsuTypeInv, lsuVars
<1> QED  BY <1>3, <1>4, <1>5 DEF LsuTypeInv

LEMMA TypesDirect ==
  ASSUME LsuTypeInv, execute_direct
  PROVE  LsuTypeInv'
<1>1. PICK b \in BOOLEAN : writeBack(firstP, Result(TRUE, zeroData, b))
  BY DEF execute_direct
<1>2. /\ UNCHANGED <<ringVars, replyVars, readVars, writeVars, mem, coreVars>>
      /\ invalidateQ' \in {1, invalidateQ}
  BY DEF execute_direct, invalidate
<1>3. firstP \in RobIndex /\ Result(TRUE, zeroData, b) \in ResultT
  BY ResultType, DataTypes DEF LsuTypeInv, RobT, RingOK
<1>4. RobT'
  BY <1>1, <1>3, WriteBackTypes DEF LsuTypeInv
<1>5. CoreT'
  BY <1>2 DEF LsuTypeInv, CoreT, coreVars
<1>6. RingT' /\ WriteT' /\ ReadT' /\ ReplyT'
  BY <1>2, SameTypes DEF LsuTypeInv
<1> QED  BY <1>4, <1>5, <1>6 DEF LsuTypeInv


LEMMA CommitEffect ==
  ASSUME LsuTypeInv, NEW must \in BOOLEAN, commit_dmem(must)
  PROVE  /\ killed' \subseteq RobIndex /\ waitDmemCommit' = waitDmemCommit \ {firstP}
         /\ \/ /\ firstP \in waitDmemCommit /\ first.op.kind = "load" /\ commitLoad
            \/ /\ firstP \in waitDmemCommit /\ first.op.kind # "load" /\ commitStore(must)
            \/ /\ firstP \notin waitDmemCommit
               /\ UNCHANGED <<ringVars, stb, isStoreMMIO, wrequestQ, killed>>
<1>1. CASE firstP \in waitDmemCommit
  <2>1. /\ IF first.op.kind = "load" THEN commitLoad ELSE commitStore(must)
        /\ waitDmemCommit' = waitDmemCommit \ {firstP}
        /\ killed' \subseteq killed \cup disowned(storeWord)
    BY <1>1 DEF commit_dmem
  <2>2. disowned(storeWord) \subseteq {loadQ.entries[i].index : i \in LqIndex}
    BY DEF disowned
  <2>3. \A i \in LqIndex : loadQ.entries[i] \in LsuEntry
    BY LoadFields DEF LsuTypeInv, RingT
  <2>4. \A i \in LqIndex : loadQ.entries[i].index \in RobIndex
    BY <2>3 DEF LsuEntry
  <2>5. killed' \subseteq RobIndex
    BY <2>1, <2>2, <2>4 DEF LsuTypeInv, CoreT
  <2> QED  BY <1>1, <2>1, <2>5
<1>2. CASE firstP \notin waitDmemCommit
  BY <1>2 DEF commit_dmem, LsuTypeInv, CoreT
<1> QED  BY <1>1, <1>2

LEMMA RetireEffect ==
  ASSUME LsuTypeInv, Retirement
  PROVE  /\ deq /\ first_done /\ UNCHANGED retireVars /\ epoch' \in Epoch
         /\ \E must \in BOOLEAN : commit_dmem(must)
<1>0. epoch \in Epoch /\ first_result.ok \in BOOLEAN /\ (epoch + 1) % NumEpoch \in Epoch
  <2>1. epoch \in Epoch /\ results[firstP] \in ResultT
    BY DEF LsuTypeInv, CoreT, RobT, RingOK
  <2>2. (epoch + 1) % NumEpoch \in Epoch
    BY <2>1, LSUCoreAssumption, DataTypes DEF Epoch
  <2> QED  BY <2>1, <2>2 DEF first_result, ResultT
<1>1. CASE discard_instruction
  BY <1>0, <1>1 DEF discard_instruction
<1>2. CASE commit_restart
  BY <1>0, <1>2 DEF commit_restart, flush
<1>3. CASE commit_ok
  BY <1>0, <1>3 DEF commit_ok, flush
<1> QED  BY <1>1, <1>2, <1>3 DEF Retirement

LEMMA TypesRetire ==
  ASSUME LsuTypeInv, Retirement
  PROVE  LsuTypeInv'
<1>1. deq /\ UNCHANGED retireVars /\ epoch' \in Epoch
  BY RetireEffect
<1>2. PICK must \in BOOLEAN : commit_dmem(must)
  BY RetireEffect
<1>3. RobT'
  <2>1. RingOK'
    BY <1>1, DeqLive DEF LsuTypeInv, RobT
  <2> QED  BY <1>1, <2>1 DEF LsuTypeInv, RobT, deq
<1>4. CoreT'
  BY <1>1, <1>2, CommitEffect DEF LsuTypeInv, CoreT, retireVars
<1>5. ReadT' /\ ReplyT'
  BY <1>1, SameTypes DEF LsuTypeInv, retireVars
<1>6. \/ commitLoad \/ commitStore(must)
      \/ UNCHANGED <<ringVars, stb, isStoreMMIO, wrequestQ>>
  BY <1>2, CommitEffect
<1>7. RingT'
  BY <1>6, CommitLoad, CommitStore, SameTypes DEF LsuTypeInv
<1>8. WriteT'
  <2>1. /\ stb \in Seq(StbEntry) /\ wrequestQ \in Seq(StbEntry) /\ isStoreMMIO \in Seq(BOOLEAN)
        /\ Len(stb) <= StbSize /\ Len(wrequestQ) <= 4
    BY DEF LsuTypeInv, WriteT
  <2>2. /\ stb' \in Seq(StbEntry) /\ wrequestQ' \in Seq(StbEntry) /\ isStoreMMIO' \in Seq(BOOLEAN)
        /\ Len(stb') <= StbSize /\ Len(wrequestQ') <= 4
    <3>1. CASE UNCHANGED <<stb, isStoreMMIO, wrequestQ>>
      BY <2>1, <3>1
    <3>2. CASE commitStore(must) /\ must = TRUE
      <4>0. isMMIO(newEntry.word) \in BOOLEAN
        BY DEF isMMIO
      <4>1. /\ newEntry \in StbEntry
            /\ Len(stb) < StbSize /\ Len(isStoreMMIO) < StbSize /\ Len(wrequestQ) < 4
            /\ stb' = Append(stb, newEntry) /\ wrequestQ' = Append(wrequestQ, newEntry)
            /\ isStoreMMIO' = Append(isStoreMMIO, isMMIO(newEntry.word))
        BY <3>2, CommitStore DEF LsuTypeInv
      <4> QED  BY <2>1, <4>0, <4>1, Push, LsuAssumption
    <3> QED  BY <1>6, <3>1, <3>2, CommitLoad, CommitStore DEF LsuTypeInv
  <2> QED  BY <1>1, <2>2 DEF LsuTypeInv, WriteT, retireVars
<1> QED  BY <1>3, <1>4, <1>5, <1>7, <1>8 DEF LsuTypeInv

LEMMA IssueLoadEffect ==
  ASSUME LsuTypeInv, issueLoad
  PROVE  \E i \in LqIndex :
           /\ RingT' /\ ReadT' /\ canRead(i) /\ ~loadBlocked(i)
           /\ loadQ'.executed = loadQ.executed \cup {i}
           /\ loadQ'.valid = loadQ.valid /\ loadQ'.addrValid = loadQ.addrValid
           /\ loadQ'.entries = loadQ.entries /\ loadQ'.addresses = loadQ.addresses
           /\ loadQ'.head = loadQ.head /\ loadQ'.tail = loadQ.tail
           /\ rrequestQ' = Append(rrequestQ, loadQ.addresses[i][1])
           /\ \/ /\ isMMIO(loadQ.addresses[i][1]) /\ pendingDmemLoadsQ' = pendingDmemLoadsQ
                 /\ pendingMmioLoadsQ' = Append(pendingMmioLoadsQ, i)
              \/ /\ ~isMMIO(loadQ.addresses[i][1]) /\ pendingMmioLoadsQ' = pendingMmioLoadsQ
                 /\ pendingDmemLoadsQ' = Append(pendingDmemLoadsQ, i)
           /\ UNCHANGED <<storeQ, tagQ, replyVars, cacheRead, rresponseQ, writeVars, invalidateQ, mem>>
<1>1. PICK i \in LqIndex :
        /\ canRead(i) /\ ~loadBlocked(i) /\ Len(rrequestQ) < 4
        /\ loadQ' = [loadQ EXCEPT !.executed = @ \cup {i}]
        /\ rrequestQ' = Append(rrequestQ, loadQ.addresses[i][1])
        /\ \/ /\ isMMIO(loadQ.addresses[i][1]) /\ pendingDmemLoadsQ' = pendingDmemLoadsQ
              /\ pendingMmioLoadsQ' = Append(pendingMmioLoadsQ, i)
           \/ /\ ~isMMIO(loadQ.addresses[i][1]) /\ pendingMmioLoadsQ' = pendingMmioLoadsQ
              /\ pendingDmemLoadsQ' = Append(pendingDmemLoadsQ, i)
        /\ UNCHANGED <<storeQ, tagQ, replyVars, cacheRead, rresponseQ, writeVars, invalidateQ, mem>>
  BY DEF issueLoad
<1>2. loadQ \in LoadRing /\ loadQ.addresses[i][1] \in Word
  BY LoadFields, AddrParts DEF LsuTypeInv, RingT
<1>3. loadQ' \in LoadRing
  BY <1>1, <1>2 DEF LoadRing
<1>4. /\ loadQ'.executed = loadQ.executed \cup {i}
      /\ loadQ'.valid = loadQ.valid /\ loadQ'.addrValid = loadQ.addrValid
      /\ loadQ'.entries = loadQ.entries /\ loadQ'.addresses = loadQ.addresses
      /\ loadQ'.head = loadQ.head /\ loadQ'.tail = loadQ.tail
  BY <1>1, <1>2 DEF LoadRing
<1>5. RingT'
  BY <1>1, <1>3 DEF LsuTypeInv, RingT
<1>6. rrequestQ' \in Seq(Word) /\ Len(rrequestQ') <= 4
  BY <1>1, <1>2, Push DEF LsuTypeInv, ReadT
<1>7. pendingDmemLoadsQ' \in Seq(LqIndex) /\ pendingMmioLoadsQ' \in Seq(LqIndex)
  <2>1. /\ pendingDmemLoadsQ \in Seq(LqIndex) /\ pendingMmioLoadsQ \in Seq(LqIndex)
        /\ Append(pendingDmemLoadsQ, i) \in Seq(LqIndex) /\ Append(pendingMmioLoadsQ, i) \in Seq(LqIndex)
    BY DEF LsuTypeInv, ReadT
  <2> QED  BY <1>1, <2>1
<1>8. ReadT'
  BY <1>1, <1>6, <1>7 DEF LsuTypeInv, ReadT
<1> QED  BY <1>1, <1>4, <1>5, <1>8

LEMMA IssueStoreEffect ==
  ASSUME LsuTypeInv, issueStore
  PROVE  \E i \in SqIndex :
           /\ RingT' /\ ReplyT'
           /\ i \in storeQ.toIssue \cap storeQ.ready \cap storeQ.valid
           /\ storeQ'.toIssue = storeQ.toIssue \ {i}
           /\ storeQ'.valid = storeQ.valid /\ storeQ'.ready = storeQ.ready
           /\ storeQ'.entries = storeQ.entries /\ storeQ'.addresses = storeQ.addresses
           /\ storeQ'.datas = storeQ.datas
           /\ storeQ'.head = storeQ.head /\ storeQ'.tail = storeQ.tail
           /\ storeSuccessQ' = Append(storeSuccessQ,
                Answer(storeQ.entries[i], aligned(storeQ.addresses[i], storeQ.entries[i].size), zeroData))
           /\ UNCHANGED <<loadQ, tagQ, loadSuccessQ, loadFailureQ, readVars, writeVars, invalidateQ, mem>>
<1>1. PICK i \in SqIndex :
        /\ isFirstFrom(i, storeQ.toIssue \cap storeQ.ready \cap storeQ.valid, 0, SqSize)
        /\ Len(storeSuccessQ) < 2
        /\ storeQ' = [storeQ EXCEPT !.toIssue = @ \ {i}]
        /\ storeSuccessQ' = Append(storeSuccessQ,
             Answer(storeQ.entries[i], aligned(storeQ.addresses[i], storeQ.entries[i].size), zeroData))
        /\ UNCHANGED <<loadQ, tagQ, loadSuccessQ, loadFailureQ, readVars, writeVars, invalidateQ, mem>>
  BY DEF issueStore
<1> DEFINE e  == storeQ.entries[i]
           ok == aligned(storeQ.addresses[i], e.size)
<1>2. i \in storeQ.toIssue \cap storeQ.ready \cap storeQ.valid
  BY <1>1 DEF isFirstFrom
<1>3. storeQ \in StoreRing /\ e \in LsuEntry /\ ok \in BOOLEAN
  BY StoreFields DEF LsuTypeInv, RingT, aligned
<1>4. storeQ' \in StoreRing
  BY <1>1, <1>3 DEF StoreRing
<1>5. /\ storeQ'.toIssue = storeQ.toIssue \ {i}
      /\ storeQ'.valid = storeQ.valid /\ storeQ'.ready = storeQ.ready
      /\ storeQ'.entries = storeQ.entries /\ storeQ'.addresses = storeQ.addresses
      /\ storeQ'.datas = storeQ.datas
      /\ storeQ'.head = storeQ.head /\ storeQ'.tail = storeQ.tail
  BY <1>1, <1>3 DEF StoreRing
<1>6. RingT'
  BY <1>1, <1>4 DEF LsuTypeInv, RingT
<1>7. Answer(e, ok, zeroData) \in LsuReply
  BY <1>3, AnswerType, DataTypes
<1>8. storeSuccessQ' \in Seq(LsuReply) /\ Len(storeSuccessQ') <= 2
  BY <1>1, <1>7, Push DEF LsuTypeInv, ReplyT
<1>9. ReplyT'
  BY <1>1, <1>8 DEF LsuTypeInv, ReplyT
<1> QED  BY <1>1, <1>2, <1>5, <1>6, <1>9


(* The load that is answered, and the queue it leaves.                     *)
answered(i, d) ==
  /\ i \in LqIndex /\ d \in Data
  /\ \/ /\ pendingDmemLoadsQ # <<>> /\ i = Head(pendingDmemLoadsQ)
        /\ cacheRead # <<>> /\ d = Head(cacheRead) /\ cacheRead' = Tail(cacheRead)
        /\ pendingDmemLoadsQ' = Tail(pendingDmemLoadsQ)
        /\ UNCHANGED <<rresponseQ, pendingMmioLoadsQ>>
     \/ /\ pendingMmioLoadsQ # <<>> /\ i = Head(pendingMmioLoadsQ)
        /\ rresponseQ # <<>> /\ d = Head(rresponseQ) /\ rresponseQ' = Tail(rresponseQ)
        /\ pendingMmioLoadsQ' = Tail(pendingMmioLoadsQ)
        /\ UNCHANGED <<cacheRead, pendingDmemLoadsQ>>
  /\ loadSuccessQ' = Append(loadSuccessQ,
       Answer(loadQ.entries[i], TRUE, finish(loadQ.addresses[i], loadQ.entries[i].size, d)))

LEMMA ResponseEffect ==
  ASSUME LsuTypeInv, loadResponse
  PROVE  /\ \E i \in LqIndex, d \in Data : answered(i, d)
         /\ ReadT' /\ ReplyT'
         /\ UNCHANGED <<ringVars, loadFailureQ, storeSuccessQ, rrequestQ, writeVars, invalidateQ, mem>>
<1> DEFINE dmem == pendingDmemLoadsQ # <<>>
           i == IF dmem THEN Head(pendingDmemLoadsQ) ELSE Head(pendingMmioLoadsQ)
           d == IF dmem THEN Head(cacheRead) ELSE Head(rresponseQ)
           e == loadQ.entries[i]
<1>1. /\ dmem \/ (rresponseQ # <<>> /\ pendingMmioLoadsQ # <<>>)
      /\ dmem => cacheRead # <<>>
      /\ dmem => /\ cacheRead' = Tail(cacheRead) /\ pendingDmemLoadsQ' = Tail(pendingDmemLoadsQ)
                 /\ UNCHANGED <<rresponseQ, pendingMmioLoadsQ>>
      /\ ~dmem => /\ rresponseQ' = Tail(rresponseQ) /\ pendingMmioLoadsQ' = Tail(pendingMmioLoadsQ)
                  /\ UNCHANGED <<cacheRead, pendingDmemLoadsQ>>
      /\ Len(loadSuccessQ) < 2
      /\ loadSuccessQ' = Append(loadSuccessQ, Answer(e, TRUE, finish(loadQ.addresses[i], e.size, d)))
      /\ UNCHANGED <<ringVars, loadFailureQ, storeSuccessQ, rrequestQ, writeVars, invalidateQ, mem>>
  BY DEF loadResponse
<1>2. /\ pendingDmemLoadsQ \in Seq(LqIndex) /\ pendingMmioLoadsQ \in Seq(LqIndex)
      /\ cacheRead \in Seq(Data) /\ rresponseQ \in Seq(Data)
  BY DEF LsuTypeInv, ReadT
<1>3. /\ i \in LqIndex /\ d \in Data
      /\ pendingDmemLoadsQ' \in Seq(LqIndex) /\ pendingMmioLoadsQ' \in Seq(LqIndex)
      /\ cacheRead' \in Seq(Data) /\ rresponseQ' \in Seq(Data)
  <2>1. CASE dmem
    BY <1>1, <1>2, <2>1, Pop
  <2>2. CASE ~dmem
    BY <1>1, <1>2, <2>2, Pop
  <2> QED  BY <2>1, <2>2
<1>4. answered(i, d)
  <2>1. CASE dmem
    <3>1. i = Head(pendingDmemLoadsQ) /\ d = Head(cacheRead)
      BY <2>1
    <3> HIDE DEF i, d
    <3> QED  BY <1>1, <1>3, <2>1, <3>1 DEF answered
  <2>2. CASE ~dmem
    <3>1. i = Head(pendingMmioLoadsQ) /\ d = Head(rresponseQ)
      BY <2>2
    <3> HIDE DEF i, d
    <3> QED  BY <1>1, <1>3, <2>2, <3>1 DEF answered
  <2> QED  BY <2>1, <2>2
<1> HIDE DEF i, d
<1>5. ReadT'
  BY <1>1, <1>3 DEF LsuTypeInv, ReadT
<1>6. e \in LsuEntry /\ loadQ.addresses[i] \in Addr
  BY <1>3, LoadFields DEF LsuTypeInv, RingT
<1> HIDE DEF e
<1>7. Answer(e, TRUE, finish(loadQ.addresses[i], e.size, d)) \in LsuReply
  BY <1>3, <1>6, AnswerType, ShiftTypes
<1>8. loadSuccessQ' \in Seq(LsuReply) /\ Len(loadSuccessQ') <= 2
  BY <1>1, <1>7, Push DEF LsuTypeInv, ReplyT
<1>9. ReplyT'
  BY <1>1, <1>8 DEF LsuTypeInv, ReplyT
<1> QED  BY <1>1, <1>3, <1>4, <1>5, <1>9

LEMMA ReadRequestTypes ==
  ASSUME LsuTypeInv, readRequest
  PROVE  ReadT'
<1> DEFINE w == Head(rrequestQ)
<1>1. /\ rrequestQ # <<>> /\ rrequestQ' = Tail(rrequestQ)
      /\ \/ rresponseQ' = Append(rresponseQ, mem[w]) /\ cacheRead' = cacheRead
         \/ cacheRead' = Append(cacheRead, mem[w]) /\ rresponseQ' = rresponseQ
      /\ UNCHANGED <<pendingDmemLoadsQ, pendingMmioLoadsQ>>
  BY DEF readRequest
<1>2. rrequestQ' \in Seq(Word) /\ Len(rrequestQ') <= 4 /\ w \in Word
  BY <1>1, Pop DEF LsuTypeInv, ReadT
<1>3. mem[w] \in Data
  BY <1>2 DEF LsuTypeInv, WriteT
<1> HIDE DEF w
<1>4. cacheRead' \in Seq(Data) /\ rresponseQ' \in Seq(Data)
  <2>1. /\ cacheRead \in Seq(Data) /\ rresponseQ \in Seq(Data)
        /\ Append(cacheRead, mem[w]) \in Seq(Data) /\ Append(rresponseQ, mem[w]) \in Seq(Data)
    BY <1>3 DEF LsuTypeInv, ReadT
  <2> QED  BY <1>1, <2>1
<1> QED  BY <1>1, <1>2, <1>4 DEF LsuTypeInv, ReadT

LEMMA WriteRequestTypes ==
  ASSUME LsuTypeInv, writeRequest
  PROVE  WriteT'
<1> DEFINE e == Head(wrequestQ)
<1>1. /\ wrequestQ # <<>> /\ wrequestQ' = Tail(wrequestQ)
      /\ mem' = [mem EXCEPT ![e.word] = merge(mem[e.word], e)]
      /\ cacheWrite' \in {cacheWrite, cacheWrite + 1} /\ wresponseQ' \in {wresponseQ, wresponseQ + 1}
      /\ UNCHANGED <<stb, isStoreMMIO, stbDeqQ>>
  BY DEF writeRequest
<1>2. wrequestQ' \in Seq(StbEntry) /\ Len(wrequestQ') <= 4 /\ e \in StbEntry
  BY <1>1, Pop DEF LsuTypeInv, WriteT
<1>3. e.word \in Word /\ mem \in [Word -> Data]
  BY <1>2 DEF StbEntry, LsuTypeInv, WriteT
<1>4. merge(mem[e.word], e) \in Data
  BY <1>2, <1>3, MergeType
<1> HIDE DEF e
<1>5. mem' \in [Word -> Data]
  BY <1>1, <1>3, <1>4
<1> QED  BY <1>1, <1>2, <1>5 DEF LsuTypeInv, WriteT

LEMMA DeqTypes ==
  ASSUME LsuTypeInv, deqSTB \/ doDeqSTB
  PROVE  WriteT'
<1>1. CASE deqSTB
  <2>1. /\ isStoreMMIO # <<>> /\ isStoreMMIO' = Tail(isStoreMMIO) /\ stbDeqQ < 2
        /\ stbDeqQ' = stbDeqQ + 1
        /\ \/ wresponseQ > 0 /\ wresponseQ' = wresponseQ - 1 /\ cacheWrite' = cacheWrite
           \/ cacheWrite > 0 /\ cacheWrite' = cacheWrite - 1 /\ wresponseQ' = wresponseQ
        /\ UNCHANGED <<stb, wrequestQ, mem>>
    BY <1>1 DEF deqSTB
  <2>2. isStoreMMIO' \in Seq(BOOLEAN)
    BY <2>1, Pop DEF LsuTypeInv, WriteT
  <2> QED  BY <2>1, <2>2 DEF LsuTypeInv, WriteT
<1>2. CASE doDeqSTB
  <2>1. /\ stb # <<>> /\ stb' = Tail(stb) /\ stbDeqQ > 0 /\ stbDeqQ' = stbDeqQ - 1
        /\ UNCHANGED <<wrequestQ, isStoreMMIO, cacheWrite, wresponseQ, mem>>
    BY <1>2 DEF doDeqSTB
  <2>2. stb' \in Seq(StbEntry) /\ Len(stb') <= StbSize
    BY <2>1, Pop, LsuAssumption DEF LsuTypeInv, WriteT
  <2> QED  BY <2>1, <2>2 DEF LsuTypeInv, WriteT
<1> QED  BY <1>1, <1>2

LEMMA TypesRules ==
  ASSUME LsuTypeInv, Rules
  PROVE  LsuTypeInv'
<1>1. UNCHANGED <<robVars, coreVars>> /\ lsuRules
  BY DEF Rules
<1>2. RobT'
  BY <1>1, SameTypes DEF LsuTypeInv
<1>3. ASSUME invalidateQ' = invalidateQ PROVE CoreT'
  BY <1>1, <1>3 DEF LsuTypeInv, CoreT, coreVars
<1>4. CASE issueLoad
  <2>1. /\ RingT' /\ ReadT' /\ UNCHANGED <<replyVars, writeVars, invalidateQ, mem>>
    BY <1>4, IssueLoadEffect
  <2> QED  BY <1>2, <1>3, <2>1, SameTypes DEF LsuTypeInv
<1>5. CASE issueStore
  <2>1. /\ RingT' /\ ReplyT' /\ UNCHANGED <<readVars, writeVars, invalidateQ, mem>>
    BY <1>5, IssueStoreEffect
  <2> QED  BY <1>2, <1>3, <2>1, SameTypes DEF LsuTypeInv
<1>6. CASE loadResponse
  <2>1. /\ ReadT' /\ ReplyT' /\ UNCHANGED <<ringVars, writeVars, invalidateQ, mem>>
    BY <1>6, ResponseEffect
  <2> QED  BY <1>2, <1>3, <2>1, SameTypes DEF LsuTypeInv
<1>7. CASE readRequest
  <2>1. ReadT' /\ UNCHANGED <<ringVars, replyVars, writeVars, invalidateQ, mem>>
    BY <1>7, ReadRequestTypes DEF readRequest
  <2> QED  BY <1>2, <1>3, <2>1, SameTypes DEF LsuTypeInv
<1>8. CASE writeRequest \/ deqSTB \/ doDeqSTB
  <2>1. WriteT' /\ UNCHANGED <<ringVars, replyVars, readVars, invalidateQ>>
    BY <1>8, WriteRequestTypes, DeqTypes DEF writeRequest, deqSTB, doDeqSTB
  <2> QED  BY <1>2, <1>3, <2>1, SameTypes DEF LsuTypeInv
<1> QED  BY <1>1, <1>4, <1>5, <1>6, <1>7, <1>8 DEF lsuRules

LEMMA TypesStep == LsuTypeInv /\ [Next]_vars => LsuTypeInv'
<1> SUFFICES ASSUME LsuTypeInv, [Next]_vars PROVE LsuTypeInv'
  OBVIOUS
<1>1. CASE UNCHANGED vars
  <2>1. UNCHANGED <<robVars, ringVars, replyVars, readVars, writeVars, invalidateQ, mem, coreVars>>
    BY <1>1 DEF vars, lsuVars
  <2>2. CoreT'
    BY <2>1 DEF LsuTypeInv, CoreT, coreVars
  <2> QED  BY <2>1, <2>2, SameTypes DEF LsuTypeInv
<1> QED  BY <1>1, TypesDispatch, TypesConnect, TypesWriteBack, TypesBranch, TypesDirect,
            TypesRetire, TypesRules DEF Next


-----------------------------------------------------------------------------
(* Writes and their answers.                                               *)

(* The writes to the devices, or to the cache, that are sent and not       *)
(* known to be done, as positions of isStoreMMIO.                          *)
sentTo(m) == {k \in 1 .. Len(isStoreMMIO) - Len(wrequestQ) : isStoreMMIO[k] = m}

PairInv ==
  /\ Len(stb) = stbDeqQ + Len(isStoreMMIO) /\ Len(wrequestQ) <= Len(isStoreMMIO)
  /\ \A k \in 1 .. Len(isStoreMMIO) : isStoreMMIO[k] = isMMIO(stb[stbDeqQ + k].word)
  /\ \A k \in 1 .. Len(wrequestQ) : wrequestQ[k] = stb[Len(stb) - Len(wrequestQ) + k]

CountInv == wresponseQ = Cardinality(sentTo(TRUE)) /\ cacheWrite = Cardinality(sentTo(FALSE))

LEMMA ShiftCount ==
  ASSUME NEW S \in SUBSET Nat, IsFiniteSet(S), NEW T \in SUBSET Nat, NEW d \in Int,
         \A k \in S : k + d \in T, \A k \in T : k - d \in S
  PROVE  IsFiniteSet(T) /\ Cardinality(T) = Cardinality(S)
<1> DEFINE f == [k \in S |-> k + d]
<1>1. f \in [S -> T]
  OBVIOUS
<1>2. \A j, k \in S : f[j] = f[k] => j = k
  OBVIOUS
<1>3. \A t \in T : \E k \in S : f[k] = t
  <2> SUFFICES ASSUME NEW t \in T PROVE \E k \in S : f[k] = t
    OBVIOUS
  <2>1. t - d \in S /\ f[t - d] = t
    OBVIOUS
  <2> QED  BY <2>1
<1> HIDE DEF f
<1>4. f \in Bijection(S, T)
  BY <1>1, <1>2, <1>3 DEF Bijection, Injection, Surjection, IsInjective
<1> QED  BY <1>4, FS_Bijection DEF ExistsBijection

LEMMA SentFinite ==
  ASSUME WriteT, PairInv, NEW m
  PROVE  /\ IsFiniteSet(sentTo(m)) /\ sentTo(m) \subseteq Nat
         /\ Cardinality(sentTo(m)) \in Nat /\ Cardinality(sentTo(m)) <= StbSize
<1> DEFINE n == Len(isStoreMMIO) - Len(wrequestQ)
<1>1. n \in Nat /\ n <= StbSize /\ StbSize \in Nat
  BY LsuAssumption DEF WriteT, PairInv
<1>2. IsFiniteSet(1 .. n) /\ Cardinality(1 .. n) = n
  BY <1>1, FS_Interval
<1>3. sentTo(m) \subseteq 1 .. n
  BY DEF sentTo
<1> HIDE DEF n
<1>4. IsFiniteSet(sentTo(m)) /\ Cardinality(sentTo(m)) <= Cardinality(1 .. n)
  BY <1>2, <1>3, FS_Subset
<1>5. Cardinality(sentTo(m)) \in Nat
  BY <1>4, FS_CardinalityType
<1> QED  BY <1>1, <1>2, <1>3, <1>4, <1>5

LEMMA PairInit == Init => PairInv /\ CountInv
<1> SUFFICES ASSUME Init PROVE PairInv /\ CountInv
  OBVIOUS
<1>1. /\ stb = <<>> /\ isStoreMMIO = <<>> /\ wrequestQ = <<>> /\ stbDeqQ = 0
      /\ wresponseQ = 0 /\ cacheWrite = 0
  BY DEF Init, mkLSU
<1>2. sentTo(TRUE) = {} /\ sentTo(FALSE) = {}
  BY <1>1 DEF sentTo
<1>3. Cardinality({}) = 0
  BY FS_EmptySet
<1>4. Len(<<>>) = 0 /\ 1 .. 0 = {}
  OBVIOUS
<1>5. PairInv
  BY <1>1, <1>4 DEF PairInv
<1>6. CountInv
  BY <1>1, <1>2, <1>3 DEF CountInv
<1> QED  BY <1>5, <1>6

LEMMA PairCommit ==
  ASSUME WriteT, PairInv, CountInv, NEW e \in StbEntry,
         stb' = Append(stb, e), wrequestQ' = Append(wrequestQ, e),
         isStoreMMIO' = Append(isStoreMMIO, isMMIO(e.word)),
         UNCHANGED <<stbDeqQ, cacheWrite, wresponseQ>>
  PROVE  PairInv' /\ CountInv'
<1> DEFINE m == isMMIO(e.word)
<1>0. m \in BOOLEAN
  BY DEF isMMIO
<1> HIDE DEF m
<1>1. /\ Len(stb) \in Nat /\ Len(stb') = Len(stb) + 1 /\ stb'[Len(stb) + 1] = e
      /\ \A k \in 1 .. Len(stb) : stb'[k] = stb[k]
  BY AppendFacts DEF WriteT
<1>2. /\ Len(wrequestQ) \in Nat /\ Len(wrequestQ') = Len(wrequestQ) + 1
      /\ wrequestQ'[Len(wrequestQ) + 1] = e
      /\ \A k \in 1 .. Len(wrequestQ) : wrequestQ'[k] = wrequestQ[k]
  BY AppendFacts DEF WriteT
<1>3. /\ Len(isStoreMMIO) \in Nat /\ Len(isStoreMMIO') = Len(isStoreMMIO) + 1
      /\ isStoreMMIO'[Len(isStoreMMIO) + 1] = m
      /\ \A k \in 1 .. Len(isStoreMMIO) : isStoreMMIO'[k] = isStoreMMIO[k]
  BY <1>0, AppendFacts DEF WriteT, m
<1>4. stbDeqQ \in Nat /\ Len(stb) = stbDeqQ + Len(isStoreMMIO) /\ Len(wrequestQ) <= Len(isStoreMMIO)
  BY DEF WriteT, PairInv
<1>5. \A k \in 1 .. Len(isStoreMMIO') : isStoreMMIO'[k] = isMMIO(stb'[stbDeqQ' + k].word)
  <2> SUFFICES ASSUME NEW k \in 1 .. Len(isStoreMMIO')
               PROVE  isStoreMMIO'[k] = isMMIO(stb'[stbDeqQ + k].word)
    OBVIOUS
  <2>1. CASE k = Len(isStoreMMIO) + 1
    <3>1. stbDeqQ + k = Len(stb) + 1
      BY <1>3, <1>4, <2>1
    <3> QED  BY <1>1, <1>3, <2>1, <3>1 DEF m
  <2>2. CASE k \in 1 .. Len(isStoreMMIO)
    <3>1. stbDeqQ + k \in 1 .. Len(stb)
      BY <1>3, <1>4, <2>2
    <3> QED  BY <1>1, <1>3, <2>2, <3>1 DEF PairInv
  <2>3. k = Len(isStoreMMIO) + 1 \/ k \in 1 .. Len(isStoreMMIO)
    BY <1>3
  <2> QED  BY <2>1, <2>2, <2>3
<1>6. \A k \in 1 .. Len(wrequestQ') : wrequestQ'[k] = stb'[Len(stb') - Len(wrequestQ') + k]
  <2> SUFFICES ASSUME NEW k \in 1 .. Len(wrequestQ')
               PROVE  wrequestQ'[k] = stb'[Len(stb) - Len(wrequestQ) + k]
    <3>1. Len(stb') - Len(wrequestQ') = Len(stb) - Len(wrequestQ)
      BY <1>1, <1>2
    <3> QED  BY <3>1
  <2>0. k = Len(wrequestQ) + 1 \/ k \in 1 .. Len(wrequestQ)
    BY <1>2
  <2>1. CASE k = Len(wrequestQ) + 1
    <3>1. Len(stb) - Len(wrequestQ) + k = Len(stb) + 1
      BY <1>1, <1>2, <2>1
    <3> QED  BY <1>1, <1>2, <2>1, <3>1
  <2>2. CASE k \in 1 .. Len(wrequestQ)
    <3>1. Len(stb) - Len(wrequestQ) + k \in 1 .. Len(stb)
      BY <1>1, <1>2, <1>3, <1>4, <2>2
    <3> QED  BY <1>1, <1>2, <2>2, <3>1 DEF PairInv
  <2> QED  BY <2>0, <2>1, <2>2
<1>7. \A x : sentTo(x)' = sentTo(x)
  <2>1. /\ Len(isStoreMMIO') - Len(wrequestQ') = Len(isStoreMMIO) - Len(wrequestQ)
        /\ \A k \in 1 .. Len(isStoreMMIO) - Len(wrequestQ) : k \in 1 .. Len(isStoreMMIO)
    BY <1>2, <1>3, <1>4
  <2> QED  BY <1>3, <2>1 DEF sentTo
<1>8. Len(stb') = stbDeqQ' + Len(isStoreMMIO') /\ Len(wrequestQ') <= Len(isStoreMMIO')
  BY <1>1, <1>2, <1>3, <1>4
<1>9. PairInv'
  BY <1>5, <1>6, <1>8 DEF PairInv
<1> QED  BY <1>7, <1>9 DEF CountInv

LEMMA PairWrite ==
  ASSUME WriteT, PairInv, CountInv, writeRequest
  PROVE  PairInv' /\ CountInv'
<1> DEFINE W == Len(wrequestQ)
           L == Len(isStoreMMIO)
           m == isMMIO(Head(wrequestQ).word)
<1>1. /\ wrequestQ # <<>> /\ wrequestQ' = Tail(wrequestQ) /\ UNCHANGED <<stb, isStoreMMIO, stbDeqQ>>
      /\ m => wresponseQ' = wresponseQ + 1 /\ cacheWrite' = cacheWrite
      /\ ~m => cacheWrite' = cacheWrite + 1 /\ wresponseQ' = wresponseQ
  BY DEF writeRequest
<1>2. /\ W \in Nat /\ W > 0 /\ Head(wrequestQ) = wrequestQ[1] /\ Len(wrequestQ') = W - 1
      /\ 1 \in 1 .. W
      /\ \A k \in 1 .. Len(wrequestQ') : k + 1 \in 1 .. W /\ wrequestQ'[k] = wrequestQ[k + 1]
  BY <1>1, TailFacts DEF WriteT
<1>3. /\ L \in Nat /\ stbDeqQ \in Nat /\ Len(stb) = stbDeqQ + L /\ W <= L
      /\ isStoreMMIO \in Seq(BOOLEAN)
  BY DEF WriteT, PairInv
<1>4. isStoreMMIO[L - W + 1] = m /\ m \in BOOLEAN
  <2>1. L - W + 1 \in 1 .. L /\ stbDeqQ + (L - W + 1) = Len(stb) - W + 1
    BY <1>2, <1>3
  <2>2. isStoreMMIO[L - W + 1] = isMMIO(stb[Len(stb) - W + 1].word)
    BY <2>1 DEF PairInv
  <2>3. wrequestQ[1] = stb[Len(stb) - W + 1]
    BY <1>2 DEF PairInv
  <2> QED  BY <1>2, <2>2, <2>3 DEF isMMIO
<1> HIDE DEF m
<1>5. /\ Len(isStoreMMIO') - Len(wrequestQ') = L - W + 1
      /\ \A k : k \in 1 .. L - W + 1 <=> k \in 1 .. L - W \/ k = L - W + 1
      /\ L - W + 1 \notin 1 .. L - W
  BY <1>1, <1>2, <1>3
<1>6. ASSUME NEW x \in BOOLEAN
      PROVE  /\ x = m => Cardinality(sentTo(x)') = Cardinality(sentTo(x)) + 1
             /\ x # m => Cardinality(sentTo(x)') = Cardinality(sentTo(x))
  <2>1. IsFiniteSet(sentTo(x)) /\ Cardinality(sentTo(x)) \in Nat
    BY SentFinite
  <2>2. CASE x = m
    <3>1. sentTo(x)' = sentTo(x) \cup {L - W + 1} /\ L - W + 1 \notin sentTo(x)
      BY <1>1, <1>4, <1>5, <2>2 DEF sentTo
    <3> QED  BY <2>1, <2>2, <3>1, FS_AddElement
  <2>3. CASE x # m
    <3>1. sentTo(x)' = sentTo(x)
      BY <1>1, <1>4, <1>5, <2>3 DEF sentTo
    <3> QED  BY <2>1, <2>3, <3>1
  <2> QED  BY <2>2, <2>3
<1>7. CountInv'
  <2>1. CASE m = TRUE
    <3>1. Cardinality(sentTo(TRUE)') = Cardinality(sentTo(TRUE)) + 1
      BY <1>6, <2>1
    <3>2. Cardinality(sentTo(FALSE)') = Cardinality(sentTo(FALSE))
      BY <1>6, <2>1
    <3>3. wresponseQ' = Cardinality(sentTo(TRUE)')
      BY <1>1, <2>1, <3>1 DEF CountInv
    <3>4. cacheWrite' = Cardinality(sentTo(FALSE)')
      BY <1>1, <2>1, <3>2 DEF CountInv
    <3> QED  BY <3>3, <3>4 DEF CountInv
  <2>2. CASE m = FALSE
    <3>1. Cardinality(sentTo(FALSE)') = Cardinality(sentTo(FALSE)) + 1
      BY <1>6, <2>2
    <3>2. Cardinality(sentTo(TRUE)') = Cardinality(sentTo(TRUE))
      BY <1>6, <2>2
    <3>3. wresponseQ' = Cardinality(sentTo(TRUE)')
      BY <1>1, <2>2, <3>2 DEF CountInv
    <3>4. cacheWrite' = Cardinality(sentTo(FALSE)')
      BY <1>1, <2>2, <3>1 DEF CountInv
    <3> QED  BY <3>3, <3>4 DEF CountInv
  <2> QED  BY <1>4, <2>1, <2>2
<1>8. \A k \in 1 .. Len(wrequestQ') : wrequestQ'[k] = stb'[Len(stb') - Len(wrequestQ') + k]
  <2> SUFFICES ASSUME NEW k \in 1 .. Len(wrequestQ')
               PROVE  wrequestQ'[k] = stb[Len(stb) - (W - 1) + k]
    BY <1>1, <1>2
  <2>1. Len(stb) - (W - 1) + k = Len(stb) - W + (k + 1)
    BY <1>2, <1>3
  <2> QED  BY <1>2, <2>1 DEF PairInv
<1>9. PairInv'
  BY <1>1, <1>2, <1>3, <1>8 DEF PairInv
<1> QED  BY <1>7, <1>9


LEMMA PairDeq ==
  ASSUME WriteT, PairInv, CountInv, deqSTB
  PROVE  PairInv' /\ CountInv'
<1> DEFINE W == Len(wrequestQ)
           L == Len(isStoreMMIO)
           m == Head(isStoreMMIO)
<1>1. /\ isStoreMMIO # <<>> /\ isStoreMMIO' = Tail(isStoreMMIO) /\ stbDeqQ' = stbDeqQ + 1
      /\ UNCHANGED <<stb, wrequestQ>>
      /\ m => wresponseQ > 0 /\ wresponseQ' = wresponseQ - 1 /\ cacheWrite' = cacheWrite
      /\ ~m => cacheWrite > 0 /\ cacheWrite' = cacheWrite - 1 /\ wresponseQ' = wresponseQ
  BY DEF deqSTB
<1>2. /\ L \in Nat /\ L > 0 /\ m = isStoreMMIO[1] /\ Len(isStoreMMIO') = L - 1 /\ 1 \in 1 .. L
      /\ \A k \in 1 .. Len(isStoreMMIO') : k + 1 \in 1 .. L /\ isStoreMMIO'[k] = isStoreMMIO[k + 1]
  BY <1>1, TailFacts DEF WriteT
<1>3. /\ W \in Nat /\ stbDeqQ \in Nat /\ Len(stb) = stbDeqQ + L /\ W <= L /\ m \in BOOLEAN
      /\ wresponseQ \in Nat /\ cacheWrite \in Nat
  BY <1>2 DEF WriteT, PairInv
<1> HIDE DEF m
(* The answer that is taken belongs to a write that was sent.              *)
<1>4. 1 \in sentTo(m) /\ W < L
  <2>1. Cardinality(sentTo(m)) # 0
    <3>1. CASE m = TRUE
      <4>1. wresponseQ > 0
        BY <1>1, <3>1
      <4>2. wresponseQ # 0
        BY <1>3, <4>1
      <4> QED  BY <3>1, <4>2 DEF CountInv
    <3>2. CASE m = FALSE
      <4>1. cacheWrite > 0
        BY <1>1, <3>2
      <4>2. cacheWrite # 0
        BY <1>3, <4>1
      <4> QED  BY <3>2, <4>2 DEF CountInv
    <3> QED  BY <1>3, <3>1, <3>2
  <2>2. sentTo(m) # {}
    BY <2>1, FS_EmptySet
  <2>3. PICK k \in 1 .. L - W : TRUE
    BY <2>2 DEF sentTo
  <2>4. 1 \in 1 .. L - W /\ W < L
    BY <1>2, <1>3, <2>3
  <2> QED  BY <1>2, <2>4 DEF sentTo
<1>5. \A x : Cardinality(sentTo(x)') = Cardinality(sentTo(x) \ {1})
  <2> SUFFICES ASSUME NEW x PROVE Cardinality(sentTo(x)') = Cardinality(sentTo(x) \ {1})
    OBVIOUS
  <2> DEFINE S == sentTo(x) \ {1}
             T == sentTo(x)'
  <2>1. IsFiniteSet(S) /\ S \in SUBSET Nat
    BY SentFinite, FS_RemoveElement
  <2>2. Len(isStoreMMIO') - Len(wrequestQ') = L - W - 1
    BY <1>1, <1>2, <1>3
  <2>3. T = {k \in 1 .. L - W - 1 : isStoreMMIO[k + 1] = x}
    <3>1. \A k \in 1 .. L - W - 1 : isStoreMMIO'[k] = isStoreMMIO[k + 1]
      BY <1>2, <1>3
    <3> QED  BY <2>2, <3>1 DEF sentTo
  <2>4. S = {k \in 1 .. L - W : k # 1 /\ isStoreMMIO[k] = x}
    BY DEF sentTo
  <2>5. \A k \in S : k + (0 - 1) \in T
    <3> SUFFICES ASSUME NEW k \in S PROVE k + (0 - 1) \in T
      OBVIOUS
    <3>1. k \in 1 .. L - W /\ k # 1 /\ isStoreMMIO[k] = x
      BY <2>4
    <3>2. k + (0 - 1) \in 1 .. L - W - 1 /\ k + (0 - 1) + 1 = k
      BY <1>2, <1>3, <3>1
    <3> QED  BY <2>3, <3>1, <3>2
  <2>6. \A k \in T : k - (0 - 1) \in S
    <3> SUFFICES ASSUME NEW k \in T PROVE k - (0 - 1) \in S
      OBVIOUS
    <3>1. k \in 1 .. L - W - 1 /\ isStoreMMIO[k + 1] = x
      BY <2>3
    <3>2. k - (0 - 1) \in 1 .. L - W /\ k - (0 - 1) # 1 /\ k - (0 - 1) = k + 1
      BY <1>2, <1>3, <3>1
    <3> QED  BY <2>4, <3>1, <3>2
  <2>7. T \in SUBSET Nat /\ 0 - 1 \in Int
    BY <2>3
  <2> HIDE DEF S, T
  <2>8. Cardinality(T) = Cardinality(S)
    BY <2>1, <2>5, <2>6, <2>7, ShiftCount
  <2> QED  BY <2>8 DEF S, T
<1>6. ASSUME NEW x \in BOOLEAN
      PROVE  /\ x = m => Cardinality(sentTo(x)') = Cardinality(sentTo(x)) - 1
             /\ x # m => Cardinality(sentTo(x)') = Cardinality(sentTo(x))
  <2>1. Cardinality(sentTo(x)') = Cardinality(sentTo(x) \ {1})
    BY <1>5
  <2>2. IsFiniteSet(sentTo(x))
    BY SentFinite
  <2>3. x # m => 1 \notin sentTo(x)
    BY <1>2 DEF sentTo
  <2>4. x = m => 1 \in sentTo(x)
    BY <1>4
  <2> QED  BY <2>1, <2>2, <2>3, <2>4, FS_RemoveElement
<1>7. CountInv'
  <2>1. CASE m = TRUE
    <3>1. Cardinality(sentTo(TRUE)') = Cardinality(sentTo(TRUE)) - 1
      BY <1>6, <2>1
    <3>2. Cardinality(sentTo(FALSE)') = Cardinality(sentTo(FALSE))
      BY <1>6, <2>1
    <3>3. wresponseQ' = Cardinality(sentTo(TRUE)')
      BY <1>1, <2>1, <3>1 DEF CountInv
    <3>4. cacheWrite' = Cardinality(sentTo(FALSE)')
      BY <1>1, <2>1, <3>2 DEF CountInv
    <3> QED  BY <3>3, <3>4 DEF CountInv
  <2>2. CASE m = FALSE
    <3>1. Cardinality(sentTo(FALSE)') = Cardinality(sentTo(FALSE)) - 1
      BY <1>6, <2>2
    <3>2. Cardinality(sentTo(TRUE)') = Cardinality(sentTo(TRUE))
      BY <1>6, <2>2
    <3>3. wresponseQ' = Cardinality(sentTo(TRUE)')
      BY <1>1, <2>2, <3>2 DEF CountInv
    <3>4. cacheWrite' = Cardinality(sentTo(FALSE)')
      BY <1>1, <2>2, <3>1 DEF CountInv
    <3> QED  BY <3>3, <3>4 DEF CountInv
  <2> QED  BY <1>3, <2>1, <2>2
<1>8. \A k \in 1 .. Len(isStoreMMIO') : isStoreMMIO'[k] = isMMIO(stb'[stbDeqQ' + k].word)
  <2> SUFFICES ASSUME NEW k \in 1 .. Len(isStoreMMIO')
               PROVE  isStoreMMIO'[k] = isMMIO(stb[stbDeqQ + 1 + k].word)
    BY <1>1
  <2>1. k + 1 \in 1 .. L /\ isStoreMMIO'[k] = isStoreMMIO[k + 1] /\ stbDeqQ + 1 + k = stbDeqQ + (k + 1)
    BY <1>2, <1>3
  <2> QED  BY <2>1 DEF PairInv
<1>9. Len(stb') = stbDeqQ' + Len(isStoreMMIO') /\ Len(wrequestQ') <= Len(isStoreMMIO')
  BY <1>1, <1>2, <1>3, <1>4
<1>10. \A k \in 1 .. Len(wrequestQ') : wrequestQ'[k] = stb'[Len(stb') - Len(wrequestQ') + k]
  BY <1>1 DEF PairInv
<1>11. PairInv'
  BY <1>8, <1>9, <1>10 DEF PairInv
<1> QED  BY <1>7, <1>11

LEMMA PairDoDeq ==
  ASSUME WriteT, PairInv, CountInv, doDeqSTB
  PROVE  PairInv' /\ CountInv'
<1> DEFINE W == Len(wrequestQ)
           L == Len(isStoreMMIO)
<1>1. /\ stb # <<>> /\ stb' = Tail(stb) /\ stbDeqQ > 0 /\ stbDeqQ' = stbDeqQ - 1
      /\ UNCHANGED <<wrequestQ, isStoreMMIO, cacheWrite, wresponseQ>>
  BY DEF doDeqSTB
<1>2. /\ Len(stb) \in Nat /\ Len(stb') = Len(stb) - 1
      /\ \A k \in 1 .. Len(stb') : stb'[k] = stb[k + 1]
  BY <1>1, TailFacts DEF WriteT
<1>3. L \in Nat /\ W \in Nat /\ stbDeqQ \in Nat /\ Len(stb) = stbDeqQ + L /\ W <= L
  BY DEF WriteT, PairInv
<1>4. \A k \in 1 .. Len(isStoreMMIO') : isStoreMMIO'[k] = isMMIO(stb'[stbDeqQ' + k].word)
  <2> SUFFICES ASSUME NEW k \in 1 .. L PROVE isStoreMMIO[k] = isMMIO(stb'[stbDeqQ' + k].word)
    BY <1>1
  <2>1. stbDeqQ' + k \in 1 .. Len(stb') /\ stbDeqQ' + k + 1 = stbDeqQ + k
    BY <1>1, <1>2, <1>3
  <2> QED  BY <1>2, <2>1 DEF PairInv
<1>5. \A k \in 1 .. Len(wrequestQ') : wrequestQ'[k] = stb'[Len(stb') - Len(wrequestQ') + k]
  <2> SUFFICES ASSUME NEW k \in 1 .. W PROVE wrequestQ[k] = stb'[Len(stb') - W + k]
    BY <1>1
  <2>1. Len(stb') - W + k \in 1 .. Len(stb') /\ Len(stb') - W + k + 1 = Len(stb) - W + k
    BY <1>1, <1>2, <1>3
  <2> QED  BY <1>2, <2>1 DEF PairInv
<1>6. Len(stb') = stbDeqQ' + Len(isStoreMMIO') /\ Len(wrequestQ') <= Len(isStoreMMIO')
  BY <1>1, <1>2, <1>3
<1>7. PairInv'
  BY <1>4, <1>5, <1>6 DEF PairInv
<1>8. \A x : sentTo(x)' = sentTo(x)
  BY <1>1 DEF sentTo
<1> QED  BY <1>1, <1>7, <1>8 DEF CountInv

LEMMA PairSame ==
  ASSUME PairInv, CountInv, UNCHANGED writeVars
  PROVE  PairInv' /\ CountInv'
<1>1. \A x : sentTo(x)' = sentTo(x)
  BY DEF sentTo, writeVars
<1>2. PairInv'
  BY DEF PairInv, writeVars
<1> QED  BY <1>1, <1>2 DEF CountInv, writeVars

LEMMA PairStep == LsuTypeInv /\ PairInv /\ CountInv /\ [Next]_vars => PairInv' /\ CountInv'
<1> SUFFICES ASSUME LsuTypeInv, PairInv, CountInv, [Next]_vars PROVE PairInv' /\ CountInv'
  OBVIOUS
<1>0. WriteT
  BY DEF LsuTypeInv
<1>1. CASE UNCHANGED writeVars
  BY <1>1, PairSame
<1>2. CASE Retirement
  <2>1. PICK must \in BOOLEAN : commit_dmem(must)
    BY <1>2, RetireEffect
  <2>2. UNCHANGED <<stbDeqQ, cacheWrite, wresponseQ>>
    BY <1>2, RetireEffect DEF retireVars
  <2>3. commitStore(must) \/ UNCHANGED <<stb, isStoreMMIO, wrequestQ>>
    BY <2>1, CommitEffect, CommitLoad DEF LsuTypeInv
  <2>4. CASE UNCHANGED <<stb, isStoreMMIO, wrequestQ>>
    BY <1>1, <2>2, <2>4 DEF writeVars
  <2>5. CASE commitStore(must) /\ must = TRUE
    <3>1. /\ newEntry \in StbEntry
          /\ stb' = Append(stb, newEntry) /\ wrequestQ' = Append(wrequestQ, newEntry)
          /\ isStoreMMIO' = Append(isStoreMMIO, isMMIO(newEntry.word))
      BY <2>5, CommitStore DEF LsuTypeInv
    <3> QED  BY <1>0, <2>2, <3>1, PairCommit
  <2> QED  BY <2>3, <2>4, <2>5, CommitStore DEF LsuTypeInv
<1>3. CASE writeRequest
  BY <1>0, <1>3, PairWrite
<1>4. CASE deqSTB
  BY <1>0, <1>4, PairDeq
<1>5. CASE doDeqSTB
  BY <1>0, <1>5, PairDoDeq
<1>6. CASE \E o \in Ops : dispatch(o)
  BY <1>1, <1>6 DEF dispatch
<1>7. CASE connect
  BY <1>1, <1>7 DEF connect
<1>8. CASE write_back
  BY <1>1, <1>8 DEF write_back
<1>9. CASE write_back_branch
  BY <1>1, <1>9 DEF write_back_branch, lsuVars
<1>10. CASE execute_direct
  BY <1>1, <1>10 DEF execute_direct
<1>11. CASE issueLoad \/ issueStore
  BY <1>1, <1>11 DEF issueLoad, issueStore
<1>12. CASE readRequest
  BY <1>1, <1>12 DEF readRequest
<1>13. CASE loadResponse
  BY <1>1, <1>13 DEF loadResponse
<1>14. CASE UNCHANGED vars
  BY <1>1, <1>14 DEF vars, lsuVars
<1> QED  BY <1>2, <1>3, <1>4, <1>5, <1>6, <1>7, <1>8, <1>9, <1>10, <1>11, <1>12, <1>13, <1>14
            DEF Next, Rules, lsuRules


LEMMA PairCovers ==
  ASSUME WriteT, PairInv, CountInv
  PROVE  StbCoversWrites
<1> DEFINE done == Len(stb) - Len(isStoreMMIO)
           sent == Len(stb) - Len(wrequestQ)
           S(m) == {k \in done + 1 .. sent : isMMIO(stb[k].word) = m}
<1>1. /\ Len(stb) \in Nat /\ Len(isStoreMMIO) \in Nat /\ Len(wrequestQ) \in Nat /\ stbDeqQ \in Nat
      /\ Len(stb) = stbDeqQ + Len(isStoreMMIO) /\ Len(wrequestQ) <= Len(isStoreMMIO)
  BY DEF WriteT, PairInv
<1>2. stbDeqQ = done /\ done \in Nat /\ sent \in Nat /\ done <= sent
  BY <1>1
<1>3. isStoreMMIO = [k \in 1 .. Len(isStoreMMIO) |-> isMMIO(stb[done + k].word)]
  <2>1. isStoreMMIO = [k \in 1 .. Len(isStoreMMIO) |-> isStoreMMIO[k]]
    BY DEF WriteT
  <2>2. \A k \in 1 .. Len(isStoreMMIO) : isStoreMMIO[k] = isMMIO(stb[done + k].word)
    BY <1>2 DEF PairInv
  <2> QED  BY <2>1, <2>2, Zenon
<1>4. wrequestQ = SubSeq(stb, sent + 1, Len(stb))
  <2>1. /\ SubSeq(stb, sent + 1, Len(stb)) \in Seq(StbEntry)
        /\ Len(SubSeq(stb, sent + 1, Len(stb))) = Len(wrequestQ)
    BY <1>1, <1>2 DEF WriteT
  <2>2. \A k \in 1 .. Len(wrequestQ) : SubSeq(stb, sent + 1, Len(stb))[k] = stb[sent + k]
    BY <1>1, <1>2 DEF WriteT
  <2>3. \A k \in 1 .. Len(wrequestQ) : wrequestQ[k] = stb[sent + k]
    BY DEF PairInv
  <2> QED  BY <2>1, <2>2, <2>3, SeqEqual DEF WriteT
<1>5. \A m : Cardinality(S(m)) = Cardinality(sentTo(m))
  <2> SUFFICES ASSUME NEW m PROVE Cardinality(S(m)) = Cardinality(sentTo(m))
    OBVIOUS
  <2>1. IsFiniteSet(sentTo(m)) /\ sentTo(m) \in SUBSET Nat
    BY SentFinite
  <2>2. S(m) \in SUBSET Nat
    BY <1>2
  <2>3. \A k \in sentTo(m) : k + stbDeqQ \in S(m)
    <3> SUFFICES ASSUME NEW k \in sentTo(m) PROVE k + stbDeqQ \in S(m)
      OBVIOUS
    <3>1. k \in 1 .. Len(isStoreMMIO) - Len(wrequestQ) /\ isStoreMMIO[k] = m
      BY DEF sentTo
    <3>2. k \in 1 .. Len(isStoreMMIO) /\ k + stbDeqQ \in done + 1 .. sent /\ k + stbDeqQ = stbDeqQ + k
      BY <1>1, <3>1
    <3> HIDE DEF done, sent
    <3> QED  BY <3>1, <3>2 DEF PairInv
  <2>4. \A k \in S(m) : k - stbDeqQ \in sentTo(m)
    <3> SUFFICES ASSUME NEW k \in S(m) PROVE k - stbDeqQ \in sentTo(m)
      OBVIOUS
    <3>1. k \in done + 1 .. sent /\ isMMIO(stb[k].word) = m
      OBVIOUS
    <3>2. /\ k - stbDeqQ \in 1 .. Len(isStoreMMIO) - Len(wrequestQ) /\ stbDeqQ + (k - stbDeqQ) = k
          /\ k - stbDeqQ \in 1 .. Len(isStoreMMIO)
      BY <1>1, <3>1
    <3> HIDE DEF done, sent
    <3> QED  BY <3>1, <3>2 DEF PairInv, sentTo
  <2>5. stbDeqQ \in Int
    BY <1>1
  <2> HIDE DEF S
  <2> QED  BY <2>1, <2>2, <2>3, <2>4, <2>5, ShiftCount
<1>6. wresponseQ = Cardinality(S(TRUE)) /\ cacheWrite = Cardinality(S(FALSE))
  <2>1. Cardinality(S(TRUE)) = Cardinality(sentTo(TRUE)) /\ Cardinality(S(FALSE)) = Cardinality(sentTo(FALSE))
    BY <1>5
  <2> HIDE DEF S
  <2> QED  BY <2>1 DEF CountInv
<1> QED  BY <1>2, <1>3, <1>4, <1>6, Zenon DEF StbCoversWrites

LEMMA TypesCover ==
  ASSUME LsuTypeInv, PairInv, CountInv
  PROVE  LsuTypeOK
<1>1. RingTypeOK
  BY LoadFields, StoreFields DEF LsuTypeInv, RingT, RingTypeOK
<1>2. cacheWrite \in 0 .. StbSize /\ wresponseQ \in 0 .. StbSize
  <2>1. Cardinality(sentTo(TRUE)) <= StbSize /\ Cardinality(sentTo(FALSE)) <= StbSize
    BY SentFinite DEF LsuTypeInv
  <2>2. cacheWrite <= StbSize /\ wresponseQ <= StbSize
    BY <2>1 DEF CountInv
  <2> QED  BY <2>2, LsuAssumption DEF LsuTypeInv, WriteT
<1>3. /\ RingOK /\ data \in [RobIndex -> Entry] /\ results \in [RobIndex -> ResultT]
      /\ resultValid \cup killed \cup waitDmemCommit \cup lsu_iq \subseteq RobIndex
      /\ epoch \in Epoch /\ current_age \in Age /\ invalidateQ \in 0 .. 1
  BY DEF LsuTypeInv, RobT, CoreT
<1>4. /\ stb \in Seq(StbEntry) /\ Len(stb) <= StbSize
      /\ wrequestQ \in Seq(StbEntry) /\ Len(wrequestQ) <= 4
      /\ isStoreMMIO \in Seq(BOOLEAN) /\ stbDeqQ \in 0 .. 2 /\ mem \in [Word -> Data]
  BY DEF LsuTypeInv, WriteT
<1>5. /\ tagQ \in Seq({"Load", "Store"}) /\ Len(tagQ) <= LqSize + SqSize
      /\ rrequestQ \in Seq(Word) /\ Len(rrequestQ) <= 4
      /\ pendingDmemLoadsQ \in Seq(LqIndex) /\ pendingMmioLoadsQ \in Seq(LqIndex)
      /\ cacheRead \in Seq(Data) /\ rresponseQ \in Seq(Data)
  BY DEF LsuTypeInv, RingT, ReadT
<1>6. \A q \in {loadSuccessQ, loadFailureQ, storeSuccessQ} : q \in Seq(LsuReply) /\ Len(q) <= 2
  BY DEF LsuTypeInv, ReplyT
<1> QED  BY <1>1, <1>2, <1>3, <1>4, <1>5, <1>6 DEF LsuTypeOK, Entry, ResultT

(* Every variable of the load-store unit has its type and no queue         *)
(* overflows, the counts of writes in flight included.                     *)
THEOREM LsuTypeCorrect == Spec => []LsuTypeOK
<1>1. Init => LsuTypeInv /\ PairInv /\ CountInv
  BY TypesInit, PairInit
<1>2. LsuTypeInv /\ PairInv /\ CountInv /\ [Next]_vars => (LsuTypeInv /\ PairInv /\ CountInv)'
  BY TypesStep, PairStep
<1>3. LsuTypeInv /\ PairInv /\ CountInv => LsuTypeOK
  BY TypesCover
<1> QED  BY <1>1, <1>2, <1>3, PTL DEF Spec

(* deqSTB pairs answers with writes by counting, in the order of commit,   *)
(* over two sources that answer independently: the pairs are right.        *)
THEOREM StbCoversCorrect == Spec => []StbCoversWrites
<1>1. Init => LsuTypeInv /\ PairInv /\ CountInv
  BY TypesInit, PairInit
<1>2. LsuTypeInv /\ PairInv /\ CountInv /\ [Next]_vars => (LsuTypeInv /\ PairInv /\ CountInv)'
  BY TypesStep, PairStep
<1>3. LsuTypeInv /\ PairInv /\ CountInv => StbCoversWrites
  BY PairCovers DEF LsuTypeInv
<1> QED  BY <1>1, <1>2, <1>3, PTL DEF Spec


-----------------------------------------------------------------------------
(* A ring of N slots that holds n entries from slot h on.                  *)

IsRing(V, h, t, n, N) ==
  /\ h \in 0 .. N - 1 /\ n \in 0 .. N
  /\ V = {s \in 0 .. N - 1 : distance(h, s, N) < n}
  /\ t = IF h + n < N THEN h + n ELSE h + n - N

LEMMA RingEmpty ==
  ASSUME NEW N \in Nat \ {0}
  PROVE  IsRing({}, 0, 0, 0, N)
<1>1. {s \in 0 .. N - 1 : distance(0, s, N) < 0} = {}
  BY DEF distance
<1> QED  BY <1>1 DEF IsRing

LEMMA RingPush ==
  ASSUME NEW N \in Nat \ {0}, NEW V, NEW h, NEW t, NEW n, IsRing(V, h, t, n, N), t \notin V
  PROVE  /\ IsRing(V \cup {t}, h, nextIn(t, N), n + 1, N)
         /\ distance(h, t, N) = n
         /\ \A s \in V : /\ distance(h, s, N) \in Nat /\ distance(h, s, N) < n
<1>1. /\ h \in 0 .. N - 1 /\ n \in 0 .. N /\ t = IF h + n < N THEN h + n ELSE h + n - N
      /\ t \in 0 .. N - 1 => ~(distance(h, t, N) < n)
  BY DEF IsRing
<1>2. t \in 0 .. N - 1 /\ n < N /\ distance(h, t, N) = n
  BY <1>1 DEF distance
<1>3. nextIn(t, N) = IF h + (n + 1) < N THEN h + (n + 1) ELSE h + (n + 1) - N
  BY <1>1, <1>2 DEF nextIn
<1>4. \A s \in 0 .. N - 1 : /\ distance(h, s, N) \in Nat
                            /\ distance(h, s, N) < n + 1 <=> distance(h, s, N) < n \/ s = t
  BY <1>1, <1>2 DEF distance
<1>5. V \cup {t} = {s \in 0 .. N - 1 : distance(h, s, N) < n + 1}
  BY <1>2, <1>4 DEF IsRing
<1>6. n + 1 \in 0 .. N
  BY <1>1, <1>2
<1> QED  BY <1>1, <1>2, <1>3, <1>4, <1>5, <1>6 DEF IsRing

(* h2 is one slot further than h.                                          *)
Behind(W, h, h2, N) == \A s \in W : distance(h2, s, N) = distance(h, s, N) - 1

LEMMA RingPop ==
  ASSUME NEW N \in Nat \ {0}, NEW V, NEW h, NEW t, NEW n, IsRing(V, h, t, n, N), h \in V
  PROVE  /\ IsRing(V \ {h}, nextIn(h, N), t, n - 1, N)
         /\ distance(h, h, N) = 0
         /\ \A s \in V \ {h} : distance(h, s, N) \in Nat \ {0}
         /\ Behind(V \ {h}, h, nextIn(h, N), N)
<1>1. /\ h \in 0 .. N - 1 /\ n \in 0 .. N /\ t = IF h + n < N THEN h + n ELSE h + n - N
      /\ distance(h, h, N) < n
  BY DEF IsRing
<1>2. distance(h, h, N) = 0 /\ n > 0
  BY <1>1 DEF distance
<1>3. \A s \in 0 .. N - 1 : /\ s # h => /\ distance(h, s, N) \in Nat \ {0}
                                        /\ distance(nextIn(h, N), s, N) = distance(h, s, N) - 1
                            /\ s = h => distance(nextIn(h, N), s, N) = N - 1
  BY <1>1 DEF distance, nextIn
<1>4. \A s \in 0 .. N - 1 :
        distance(nextIn(h, N), s, N) < n - 1 <=> distance(h, s, N) < n /\ s # h
  BY <1>1, <1>2, <1>3
<1>5. V \ {h} = {s \in 0 .. N - 1 : distance(nextIn(h, N), s, N) < n - 1}
  BY <1>4 DEF IsRing
<1>6. /\ nextIn(h, N) \in 0 .. N - 1 /\ n - 1 \in 0 .. N
      /\ t = IF nextIn(h, N) + (n - 1) < N THEN nextIn(h, N) + (n - 1) ELSE nextIn(h, N) + (n - 1) - N
  BY <1>1, <1>2 DEF nextIn
<1>7. \A s \in V : s \in 0 .. N - 1
  BY DEF IsRing
<1> QED  BY <1>2, <1>3, <1>5, <1>6, <1>7 DEF IsRing, Behind

(* The entries E of the slots V of a ring are those of the operations of   *)
(* this kind among L, in the order of the positions P.                     *)
entryOf(D, i) == [index |-> i, epoch |-> D[i].epoch, age |-> D[i].age, size |-> D[i].op.size]

Linked(V, E, L, D, kind) ==
  /\ \A s \in V : /\ E[s].index \in L /\ E[s] = entryOf(D, E[s].index)
                  /\ D[E[s].index].op.kind = kind /\ D[E[s].index].slot = s
  /\ \A i \in L : D[i].op.kind = kind => D[i].slot \in V /\ E[D[i].slot].index = i

Ordered(V, E, h, N, P) ==
  \A s, t \in V : distance(h, s, N) < distance(h, t, N) => P[E[s].index] < P[E[t].index]

LEMMA LinkOther ==
  ASSUME NEW V, NEW E, NEW L, NEW D, NEW D2, NEW kind, NEW x, Linked(V, E, L, D, kind),
         x \notin L, \A i \in L : D2[i] = D[i], D2[x].op.kind # kind
  PROVE  Linked(V, E, L \cup {x}, D2, kind)
BY DEF Linked, entryOf

LEMMA LinkThis ==
  ASSUME NEW V, NEW E, NEW E2, NEW L, NEW D, NEW D2, NEW kind, NEW x, NEW t,
         Linked(V, E, L, D, kind), x \notin L, t \notin V,
         \A i \in L : D2[i] = D[i], D2[x].op.kind = kind, D2[x].slot = t,
         \A s \in V : E2[s] = E[s], E2[t] = entryOf(D2, x), E2[t].index = x
  PROVE  Linked(V \cup {t}, E2, L \cup {x}, D2, kind)
<1> USE DEF Linked
<1>1. ASSUME NEW s \in V \cup {t}
      PROVE  /\ E2[s].index \in L \cup {x} /\ E2[s] = entryOf(D2, E2[s].index)
             /\ D2[E2[s].index].op.kind = kind /\ D2[E2[s].index].slot = s
  <2>1. CASE s = t
    BY <2>1
  <2>2. CASE s \in V
    <3>1. /\ E2[s] = E[s] /\ E[s].index \in L /\ E[s] = entryOf(D, E[s].index)
          /\ D[E[s].index].op.kind = kind /\ D[E[s].index].slot = s
      BY <2>2
    <3>2. D2[E[s].index] = D[E[s].index]
      BY <3>1
    <3>3. entryOf(D2, E[s].index) = entryOf(D, E[s].index)
      BY <3>2 DEF entryOf
    <3> QED  BY <3>1, <3>2, <3>3
  <2> QED  BY <2>1, <2>2
<1>2. ASSUME NEW i \in L \cup {x}, D2[i].op.kind = kind
      PROVE  D2[i].slot \in V \cup {t} /\ E2[D2[i].slot].index = i
  BY <1>2
<1> QED  BY <1>1, <1>2

LEMMA UnlinkOther ==
  ASSUME NEW V, NEW E, NEW L, NEW D, NEW kind, NEW x, Linked(V, E, L, D, kind),
         D[x].op.kind # kind
  PROVE  Linked(V, E, L \ {x}, D, kind)
BY DEF Linked

LEMMA UnlinkThis ==
  ASSUME NEW V, NEW E, NEW L, NEW D, NEW kind, NEW x, NEW h, Linked(V, E, L, D, kind),
         h \in V, E[h].index = x
  PROVE  Linked(V \ {h}, E, L \ {x}, D, kind)
BY DEF Linked

LEMMA OrderPush ==
  ASSUME NEW V, NEW E, NEW E2, NEW h, NEW N, NEW P, NEW t, NEW n \in Nat, Ordered(V, E, h, N, P),
         t \notin V, distance(h, t, N) = n,
         \A s \in V : distance(h, s, N) \in Nat /\ distance(h, s, N) < n,
         \A s \in V : E2[s] = E[s] /\ P[E[s].index] < P[E2[t].index]
  PROVE  Ordered(V \cup {t}, E2, h, N, P)
BY DEF Ordered

LEMMA OrderShift ==
  ASSUME NEW V, NEW W, NEW E, NEW h, NEW h2, NEW N, NEW P, NEW P2, Ordered(V, E, h, N, P), W \subseteq V,
         \A s \in W : distance(h, s, N) \in Nat /\ P[E[s].index] \in Nat,
         h2 = h \/ Behind(W, h, h2, N),
         \A s \in W : P2[E[s].index] = P[E[s].index] - 1
  PROVE  Ordered(W, E, h2, N, P2)
<1> SUFFICES ASSUME NEW s \in W, NEW t \in W, distance(h2, s, N) < distance(h2, t, N)
             PROVE  P2[E[s].index] < P2[E[t].index]
  BY DEF Ordered
<1>1. /\ distance(h, s, N) \in Nat /\ P[E[s].index] \in Nat
      /\ distance(h, t, N) \in Nat /\ P[E[t].index] \in Nat
      /\ P2[E[s].index] = P[E[s].index] - 1 /\ P2[E[t].index] = P[E[t].index] - 1
  OBVIOUS
<1>2. \/ distance(h2, s, N) = distance(h, s, N) /\ distance(h2, t, N) = distance(h, t, N)
      \/ distance(h2, s, N) = distance(h, s, N) - 1 /\ distance(h2, t, N) = distance(h, t, N) - 1
  BY DEF Behind
<1>3. distance(h, s, N) < distance(h, t, N)
  BY <1>1, <1>2
<1>4. P[E[s].index] < P[E[t].index]
  BY <1>3 DEF Ordered
<1> QED  BY <1>1, <1>4

(* The first slot of the ring belongs to the first operation of its kind.  *)
LEMMA HeadIsFirst ==
  ASSUME NEW V, NEW E, NEW h \in V, NEW N, NEW L, NEW D, NEW P, NEW kind, NEW x \in L,
         Linked(V, E, L, D, kind), Ordered(V, E, h, N, P), D[x].op.kind = kind, P[x] = 0,
         \A i \in L : P[i] \in Nat,
         distance(h, h, N) = 0, \A s \in V \ {h} : distance(h, s, N) \in Nat \ {0}
  PROVE  E[h].index = x
<1>1. D[x].slot \in V /\ E[D[x].slot].index = x /\ E[h].index \in L
  BY DEF Linked
<1>2. SUFFICES ASSUME D[x].slot # h PROVE FALSE
  BY <1>1
<1>3. distance(h, h, N) < distance(h, D[x].slot, N)
  BY <1>1, <1>2
<1>4. P[E[h].index] < P[x]
  BY <1>1, <1>3 DEF Ordered
<1> QED  BY <1>1, <1>4


Fifo(V, E, h, t, N, L, D, P, kind) ==
  /\ \E n \in 0 .. N : IsRing(V, h, t, n, N)
  /\ Linked(V, E, L, D, kind) /\ Ordered(V, E, h, N, P)

(* Operation x joins the operations L, behind them; it gets slot t of its  *)
(* ring; it leaves them as the first.                                      *)
Joins(L, D, D2, P, x) == x \notin L /\ \A i \in L : D2[i] = D[i] /\ P[i] < P[x]

GetsSlot(V, E, E2, D2, t, x) ==
  t \notin V /\ D2[x].slot = t /\ (\A s \in V : E2[s] = E[s]) /\ E2[t] = entryOf(D2, x)

Leaves(L, P, P2, x) ==
  x \in L /\ P[x] = 0 /\ \A i \in L : P[i] \in Nat /\ (i # x => P2[i] = P[i] - 1)

LEMMA FifoPush ==
  ASSUME NEW V, NEW E, NEW E2, NEW h, NEW t, NEW N \in Nat \ {0}, NEW L, NEW D, NEW D2, NEW P, NEW kind,
         NEW x, Fifo(V, E, h, t, N, L, D, P, kind), Joins(L, D, D2, P, x),
         D2[x].op.kind = kind, GetsSlot(V, E, E2, D2, t, x)
  PROVE  Fifo(V \cup {t}, E2, h, nextIn(t, N), N, L \cup {x}, D2, P, kind)
<1>0. /\ x \notin L /\ t \notin V /\ D2[x].slot = t /\ \A i \in L : D2[i] = D[i] /\ P[i] < P[x]
      /\ (\A s \in V : E2[s] = E[s]) /\ E2[t] = entryOf(D2, x)
  BY DEF Joins, GetsSlot
<1>1. PICK n \in 0 .. N : IsRing(V, h, t, n, N)
  BY DEF Fifo
<1>2. /\ IsRing(V \cup {t}, h, nextIn(t, N), n + 1, N)
      /\ distance(h, t, N) = n
      /\ \A s \in V : distance(h, s, N) \in Nat /\ distance(h, s, N) < n
  BY <1>0, <1>1, RingPush
<1>3. n + 1 \in 0 .. N
  BY <1>2 DEF IsRing
<1>4. E2[t].index = x
  BY <1>0 DEF entryOf
<1>5. Linked(V \cup {t}, E2, L \cup {x}, D2, kind)
  BY <1>0, <1>4, LinkThis DEF Fifo
<1>6. \A s \in V : E[s].index \in L
  BY DEF Fifo, Linked
<1>7. Ordered(V \cup {t}, E2, h, N, P)
  BY <1>0, <1>2, <1>4, <1>6, OrderPush DEF Fifo
<1> QED  BY <1>2, <1>3, <1>5, <1>7 DEF Fifo

LEMMA FifoEnqOther ==
  ASSUME NEW V, NEW E, NEW h, NEW t, NEW N, NEW L, NEW D, NEW D2, NEW P, NEW kind,
         NEW x, Fifo(V, E, h, t, N, L, D, P, kind), Joins(L, D, D2, P, x), D2[x].op.kind # kind
  PROVE  Fifo(V, E, h, t, N, L \cup {x}, D2, P, kind)
BY LinkOther DEF Fifo, Joins

LEMMA RingDistances ==
  ASSUME NEW N \in Nat \ {0}, NEW V, NEW h, NEW t, NEW n, IsRing(V, h, t, n, N)
  PROVE  \A s \in V : distance(h, s, N) \in Nat
BY DEF IsRing, distance

LEMMA FifoPop ==
  ASSUME NEW V, NEW E, NEW h, NEW t, NEW N \in Nat \ {0}, NEW L, NEW D, NEW P, NEW P2, NEW kind,
         NEW x, Fifo(V, E, h, t, N, L, D, P, kind), Leaves(L, P, P2, x), h \in V, D[x].op.kind = kind
  PROVE  /\ E[h].index = x
         /\ Fifo(V \ {h}, E, nextIn(h, N), t, N, L \ {x}, D, P2, kind)
<1>0. x \in L /\ P[x] = 0 /\ \A i \in L : P[i] \in Nat /\ (i # x => P2[i] = P[i] - 1)
  BY DEF Leaves
<1>1. PICK n \in 0 .. N : IsRing(V, h, t, n, N)
  BY DEF Fifo
<1>2. /\ IsRing(V \ {h}, nextIn(h, N), t, n - 1, N)
      /\ distance(h, h, N) = 0
      /\ \A s \in V \ {h} : distance(h, s, N) \in Nat \ {0}
      /\ Behind(V \ {h}, h, nextIn(h, N), N)
  BY <1>1, RingPop
<1>3. E[h].index = x
  <2>1. \A i \in L : P[i] \in Nat
    BY <1>0
  <2> QED  BY <1>0, <1>2, <2>1, HeadIsFirst DEF Fifo
<1>4. Linked(V \ {h}, E, L \ {x}, D, kind)
  BY <1>3, UnlinkThis DEF Fifo
<1>5. \A s \in V \ {h} : E[s].index \in L \ {x}
  BY <1>4 DEF Linked
<1>6. \A s \in V \ {h} : P[E[s].index] \in Nat /\ P2[E[s].index] = P[E[s].index] - 1
  BY <1>0, <1>5
<1>7. \A s \in V \ {h} : distance(h, s, N) \in Nat
  BY <1>2
<1>8. Ordered(V \ {h}, E, nextIn(h, N), N, P2)
  <2>1. Ordered(V, E, h, N, P) /\ V \ {h} \subseteq V
    BY DEF Fifo
  <2> QED  BY <1>2, <1>6, <1>7, <2>1, OrderShift
<1>9. n - 1 \in 0 .. N
  BY <1>2 DEF IsRing
<1> QED  BY <1>2, <1>3, <1>4, <1>8, <1>9 DEF Fifo

LEMMA FifoDeqOther ==
  ASSUME NEW V, NEW E, NEW h, NEW t, NEW N \in Nat \ {0}, NEW L, NEW D, NEW P, NEW P2, NEW kind,
         NEW x, Fifo(V, E, h, t, N, L, D, P, kind), Leaves(L, P, P2, x), D[x].op.kind # kind
  PROVE  Fifo(V, E, h, t, N, L \ {x}, D, P2, kind)
<1>1. Linked(V, E, L \ {x}, D, kind)
  BY UnlinkOther DEF Fifo
<1>2. \A s \in V : E[s].index \in L \ {x}
  BY <1>1 DEF Linked
<1>3. \A s \in V : P[E[s].index] \in Nat /\ P2[E[s].index] = P[E[s].index] - 1
  BY <1>2 DEF Leaves
<1>4. \A s \in V : distance(h, s, N) \in Nat
  BY RingDistances DEF Fifo
<1>5. Ordered(V, E, h, N, P2)
  <2>1. Ordered(V, E, h, N, P) /\ V \subseteq V
    BY DEF Fifo
  <2> QED  BY <1>3, <1>4, <2>1, OrderShift
<1> QED  BY <1>1, <1>5 DEF Fifo

-----------------------------------------------------------------------------
(* The rings follow the reorder buffer.                                    *)

pos == [i \in RobIndex |-> robPos(i)]

FifoInv(q, N, kind) == Fifo(q.valid, q.entries, q.head, q.tail, N, Live, data, pos, kind)

WaitInv == waitDmemCommit = slotsOf({"load", "store"})

RingInv == FifoInv(loadQ, LqSize, "load") /\ FifoInv(storeQ, SqSize, "store") /\ WaitInv

LEMMA PosEnq ==
  ASSUME RingOK, NEW e, enq(e)
  PROVE  /\ pos' = pos /\ pos[nextP] = robLen /\ nextP \in RobIndex /\ nextP \notin Live
         /\ Live' = Live \cup {nextP} /\ Joins(Live, data, data', pos, nextP)
<1>1. nextP \in RobIndex /\ nextP \notin Live /\ Live' = Live \cup {nextP}
  BY EnqLive
<1>2. /\ robPos(nextP) = robLen /\ \A i : robPos(i)' = robPos(i)
  BY EnqOrder
<1>3. Live = {i \in RobIndex : robPos(i) < robLen} /\ \A i \in RobIndex : robPos(i) \in RobIndex
  BY RingOrder
<1>4. pos' = pos /\ pos[nextP] = robLen
  BY <1>1, <1>2 DEF pos
<1>5. \A i \in Live : pos[i] \in Nat /\ pos[i] < robLen
  BY <1>3, RobSizeAssumption DEF pos, RobIndex
<1>6. \A i \in Live : data'[i] = data[i]
  BY <1>1, <1>3 DEF enq
<1> QED  BY <1>1, <1>4, <1>5, <1>6 DEF Joins

LEMMA PosDeq ==
  ASSUME RingOK, deq
  PROVE  /\ firstP \in Live /\ Live' = Live \ {firstP} /\ data' = data
         /\ Leaves(Live, pos, pos', firstP)
<1>1. firstP \in Live /\ Live' = Live \ {firstP}
  BY DeqLive
<1>2. robPos(firstP) = 0 /\ \A i \in RobIndex : i # firstP => robPos(i)' = robPos(i) - 1
  BY DeqOrder
<1>3. Live = {i \in RobIndex : robPos(i) < robLen} /\ \A i \in RobIndex : robPos(i) \in RobIndex
  BY RingOrder
<1>4. firstP \in RobIndex /\ pos[firstP] = 0
  BY <1>1, <1>2, <1>3 DEF pos
<1>5. \A i \in Live : pos[i] \in Nat /\ (i # firstP => pos'[i] = pos[i] - 1)
  BY <1>2, <1>3, RobSizeAssumption DEF pos, RobIndex
<1> QED  BY <1>1, <1>4, <1>5 DEF deq, Leaves

LEMMA RingInit == Init => RingInv
<1> SUFFICES ASSUME Init PROVE RingInv
  OBVIOUS
<1>1. /\ loadQ.valid = {} /\ loadQ.head = 0 /\ loadQ.tail = 0
      /\ storeQ.valid = {} /\ storeQ.head = 0 /\ storeQ.tail = 0 /\ waitDmemCommit = {}
  BY DEF Init, mkLSU
<1>2. Live = {}
  BY DEF Init, mkROB, Live
<1>3. \A N \in Nat \ {0} : \E n \in 0 .. N : IsRing({}, 0, 0, n, N)
  BY RingEmpty
<1>4. FifoInv(loadQ, LqSize, "load")
  BY <1>1, <1>2, <1>3, LsuAssumption DEF FifoInv, Fifo, Linked, Ordered
<1>5. FifoInv(storeQ, SqSize, "store")
  BY <1>1, <1>2, <1>3, LsuAssumption DEF FifoInv, Fifo, Linked, Ordered
<1>6. WaitInv
  BY <1>1, <1>2 DEF WaitInv, slotsOf
<1> QED  BY <1>4, <1>5, <1>6 DEF RingInv


LEMMA SameRob ==
  ASSUME UNCHANGED <<data, firstP, nextP, empty, full>>
  PROVE  Live' = Live /\ pos' = pos /\ \A k : slotsOf(k)' = slotsOf(k)
BY DEF Live, robPos, pos, slotsOf

LEMMA RingSame ==
  ASSUME RingInv, UNCHANGED <<data, firstP, nextP, empty, full, waitDmemCommit>>,
         loadQ'.valid = loadQ.valid, loadQ'.entries = loadQ.entries,
         loadQ'.head = loadQ.head, loadQ'.tail = loadQ.tail,
         storeQ'.valid = storeQ.valid, storeQ'.entries = storeQ.entries,
         storeQ'.head = storeQ.head, storeQ'.tail = storeQ.tail
  PROVE  RingInv'
<1>1. Live' = Live /\ pos' = pos /\ slotsOf({"load", "store"})' = slotsOf({"load", "store"})
  BY SameRob
<1> QED  BY <1>1 DEF RingInv, FifoInv, WaitInv

LEMMA RingDispatch ==
  ASSUME LsuTypeInv, RingInv, NEW o \in Ops, dispatch(o)
  PROVE  RingInv'
<1> DEFINE x == nextP
<1>0. RingOK /\ RingT
  BY DEF LsuTypeInv, RobT
<1>1. /\ enq(data'[x]) /\ data'[x].op = o /\ data'[x].epoch = epoch /\ data'[x].age = current_age
      /\ ringEntry(o) \in LsuEntry
      /\ \/ o.kind = "load" /\ enqLoad(ringEntry(o)) /\ data'[x].slot = loadQ.tail
         \/ o.kind = "store" /\ enqStore(ringEntry(o)) /\ data'[x].slot = storeQ.tail
         \/ ~isDmem(o) /\ UNCHANGED ringVars
      /\ isDmem(o) => waitDmemCommit' = waitDmemCommit \cup {x}
      /\ ~isDmem(o) => waitDmemCommit' = waitDmemCommit
  BY DispatchEffect
<1>2. /\ pos' = pos /\ x \in RobIndex /\ x \notin Live /\ Live' = Live \cup {x}
      /\ Joins(Live, data, data', pos, x)
  BY <1>0, <1>1, PosEnq
<1>3. ringEntry(o) = entryOf(data', x)
  BY <1>1 DEF ringEntry, entryOf
<1>4. FifoInv(loadQ, LqSize, "load")'
  <2>1. CASE o.kind = "load"
    <3> DEFINE t == loadQ.tail
    <3>1. enqLoad(ringEntry(o)) /\ data'[x].slot = t
      BY <1>1, <2>1 DEF isDmem
    <3>2. /\ t \in LqIndex /\ t \notin loadQ.valid /\ loadQ'.valid = loadQ.valid \cup {t}
          /\ loadQ'.head = loadQ.head /\ loadQ'.tail = nextIn(t, LqSize)
          /\ loadQ'.entries = [loadQ.entries EXCEPT ![t] = ringEntry(o)]
      BY <1>0, <1>1, <3>1, EnqLoad
    <3>3. loadQ.entries \in [LqIndex -> LsuEntry] /\ loadQ.valid \subseteq LqIndex
      BY <1>0, LoadFields DEF RingT
    <3>4. loadQ'.entries[t] = entryOf(data', x) /\ \A s \in loadQ.valid : loadQ'.entries[s] = loadQ.entries[s]
      BY <1>3, <3>2, <3>3
    <3> HIDE DEF t
    <3>5. Fifo(loadQ.valid \cup {t}, loadQ'.entries, loadQ.head, nextIn(t, LqSize), LqSize,
               Live \cup {x}, data', pos, "load")
      <4>1. Fifo(loadQ.valid, loadQ.entries, loadQ.head, t, LqSize, Live, data, pos, "load")
        BY DEF RingInv, FifoInv, t
      <4>2. data'[x].op.kind = "load" /\ data'[x].slot = t /\ LqSize \in Nat \ {0}
        BY <1>1, <2>1, <3>1, LsuAssumption
      <4>3. GetsSlot(loadQ.valid, loadQ.entries, loadQ'.entries, data', t, x)
        BY <3>1, <3>2, <3>4 DEF GetsSlot
      <4> HIDE DEF x
      <4> QED  BY <1>2, <4>1, <4>2, <4>3, FifoPush
    <3> QED  BY <1>2, <3>2, <3>5 DEF FifoInv
  <2>2. CASE o.kind # "load"
    <3>1. loadQ' = loadQ
      BY <1>0, <1>1, <2>2, EnqStore DEF ringVars
    <3>2. Fifo(loadQ.valid, loadQ.entries, loadQ.head, loadQ.tail, LqSize, Live \cup {x}, data', pos, "load")
      BY <1>1, <1>2, <2>2, FifoEnqOther DEF RingInv, FifoInv
    <3> QED  BY <1>2, <3>1, <3>2 DEF FifoInv
  <2> QED  BY <2>1, <2>2
<1>5. FifoInv(storeQ, SqSize, "store")'
  <2>1. CASE o.kind = "store"
    <3> DEFINE t == storeQ.tail
    <3>1. enqStore(ringEntry(o)) /\ data'[x].slot = t
      BY <1>1, <2>1 DEF isDmem
    <3>2. /\ t \in SqIndex /\ t \notin storeQ.valid /\ storeQ'.valid = storeQ.valid \cup {t}
          /\ storeQ'.head = storeQ.head /\ storeQ'.tail = nextIn(t, SqSize)
          /\ storeQ'.entries = [storeQ.entries EXCEPT ![t] = ringEntry(o)]
      BY <1>0, <1>1, <3>1, EnqStore
    <3>3. storeQ.entries \in [SqIndex -> LsuEntry] /\ storeQ.valid \subseteq SqIndex
      BY <1>0, StoreFields DEF RingT
    <3>4. /\ storeQ'.entries[t] = entryOf(data', x)
          /\ \A s \in storeQ.valid : storeQ'.entries[s] = storeQ.entries[s]
      BY <1>3, <3>2, <3>3
    <3> HIDE DEF t
    <3>5. Fifo(storeQ.valid \cup {t}, storeQ'.entries, storeQ.head, nextIn(t, SqSize), SqSize,
               Live \cup {x}, data', pos, "store")
      <4>1. Fifo(storeQ.valid, storeQ.entries, storeQ.head, t, SqSize, Live, data, pos, "store")
        BY DEF RingInv, FifoInv, t
      <4>2. data'[x].op.kind = "store" /\ data'[x].slot = t /\ SqSize \in Nat \ {0}
        BY <1>1, <2>1, <3>1, LsuAssumption
      <4>3. GetsSlot(storeQ.valid, storeQ.entries, storeQ'.entries, data', t, x)
        BY <3>1, <3>2, <3>4 DEF GetsSlot
      <4> HIDE DEF x
      <4> QED  BY <1>2, <4>1, <4>2, <4>3, FifoPush
    <3> QED  BY <1>2, <3>2, <3>5 DEF FifoInv
  <2>2. CASE o.kind # "store"
    <3>1. storeQ' = storeQ
      BY <1>0, <1>1, <2>2, EnqLoad DEF ringVars
    <3>2. Fifo(storeQ.valid, storeQ.entries, storeQ.head, storeQ.tail, SqSize,
               Live \cup {x}, data', pos, "store")
      BY <1>1, <1>2, <2>2, FifoEnqOther DEF RingInv, FifoInv
    <3> QED  BY <1>2, <3>1, <3>2 DEF FifoInv
  <2> QED  BY <2>1, <2>2
<1>6. WaitInv'
  <2>1. waitDmemCommit = slotsOf({"load", "store"})
    BY DEF RingInv, WaitInv
  <2>2. slotsOf({"load", "store"})' = slotsOf({"load", "store"}) \cup {i \in {x} : isDmem(o)}
    BY <1>1, <1>2 DEF slotsOf, isDmem, Joins
  <2> QED  BY <1>1, <2>1, <2>2 DEF WaitInv
<1> QED  BY <1>4, <1>5, <1>6 DEF RingInv

(* What leaves the reorder buffer leaves its ring in the same step.        *)
LEMMA RingRetire ==
  ASSUME LsuTypeInv, RingInv, Retirement
  PROVE  /\ RingInv'
         /\ \/ /\ data[firstP].op.kind = "load" /\ commitLoad /\ loadQ.entries[loadQ.head].index = firstP
            \/ /\ data[firstP].op.kind = "store" /\ loadQ' = loadQ
               /\ \E must \in BOOLEAN : commitStore(must)
               /\ storeQ.entries[storeQ.head].index = firstP
            \/ ~isDmem(data[firstP].op) /\ UNCHANGED ringVars
<1> DEFINE x == firstP
           k == data[x].op.kind
<1>0. RingOK /\ RingT
  BY DEF LsuTypeInv, RobT
<1>1. deq
  BY RetireEffect
<1>2. PICK must \in BOOLEAN : commit_dmem(must)
  BY RetireEffect
<1>3. x \in Live /\ Live' = Live \ {x} /\ data' = data /\ Leaves(Live, pos, pos', x)
  BY <1>0, <1>1, PosDeq
<1>4. /\ waitDmemCommit' = waitDmemCommit \ {x}
      /\ \/ x \in waitDmemCommit /\ k = "load" /\ commitLoad
         \/ x \in waitDmemCommit /\ k # "load" /\ commitStore(must)
         \/ x \notin waitDmemCommit /\ UNCHANGED ringVars
  BY <1>2, CommitEffect DEF first
<1>5. x \in waitDmemCommit <=> k \in {"load", "store"}
  BY <1>3 DEF RingInv, WaitInv, slotsOf
<1>6. \/ k = "load" /\ commitLoad
      \/ k = "store" /\ commitStore(must)
      \/ k \notin {"load", "store"} /\ UNCHANGED ringVars
  BY <1>4, <1>5
<1>7. WaitInv'
  <2>1. slotsOf({"load", "store"})' = slotsOf({"load", "store"}) \ {x}
    BY <1>3 DEF slotsOf
  <2> QED  BY <1>4, <2>1 DEF RingInv, WaitInv
<1>8. Fifo(loadQ.valid, loadQ.entries, loadQ.head, loadQ.tail, LqSize, Live, data, pos, "load")
  BY DEF RingInv, FifoInv
<1>9. Fifo(storeQ.valid, storeQ.entries, storeQ.head, storeQ.tail, SqSize, Live, data, pos, "store")
  BY DEF RingInv, FifoInv
<1>10. ASSUME k # "load", loadQ' = loadQ PROVE FifoInv(loadQ, LqSize, "load")'
  <2>1. Fifo(loadQ.valid, loadQ.entries, loadQ.head, loadQ.tail, LqSize, Live \ {x}, data, pos', "load")
    BY <1>3, <1>8, <1>10, FifoDeqOther, LsuAssumption
  <2> QED  BY <1>3, <1>10, <2>1 DEF FifoInv
<1>11. ASSUME k # "store", storeQ' = storeQ PROVE FifoInv(storeQ, SqSize, "store")'
  <2>1. Fifo(storeQ.valid, storeQ.entries, storeQ.head, storeQ.tail, SqSize, Live \ {x}, data, pos', "store")
    BY <1>3, <1>9, <1>11, FifoDeqOther, LsuAssumption
  <2> QED  BY <1>3, <1>11, <2>1 DEF FifoInv
<1>12. CASE k = "load" /\ commitLoad
  <2> DEFINE h == loadQ.head
  <2>1. /\ h \in loadQ.valid /\ loadQ'.valid = loadQ.valid \ {h} /\ loadQ'.entries = loadQ.entries
        /\ loadQ'.head = nextIn(h, LqSize) /\ loadQ'.tail = loadQ.tail /\ storeQ' = storeQ
    BY <1>0, <1>12, CommitLoad
  <2> HIDE DEF h
  <2>2. /\ loadQ.entries[h].index = x
        /\ Fifo(loadQ.valid \ {h}, loadQ.entries, nextIn(h, LqSize), loadQ.tail, LqSize,
                Live \ {x}, data, pos', "load")
    <3>1. Fifo(loadQ.valid, loadQ.entries, h, loadQ.tail, LqSize, Live, data, pos, "load")
      BY <1>8 DEF h
    <3>2. h \in loadQ.valid /\ data[x].op.kind = "load" /\ LqSize \in Nat \ {0}
      BY <1>12, <2>1, LsuAssumption
    <3> HIDE DEF x
    <3> QED  BY <1>3, <3>1, <3>2, FifoPop
  <2>3. FifoInv(loadQ, LqSize, "load")'
    BY <1>3, <2>1, <2>2 DEF FifoInv
  <2> QED  BY <1>7, <1>11, <1>12, <2>1, <2>2, <2>3 DEF RingInv, h
<1>13. CASE k = "store" /\ commitStore(must)
  <2> DEFINE h == storeQ.head
  <2>1. /\ h \in storeQ.valid /\ storeQ'.valid = storeQ.valid \ {h} /\ storeQ'.entries = storeQ.entries
        /\ storeQ'.head = nextIn(h, SqSize) /\ storeQ'.tail = storeQ.tail /\ loadQ' = loadQ
    BY <1>0, <1>13, CommitStore
  <2> HIDE DEF h
  <2>2. /\ storeQ.entries[h].index = x
        /\ Fifo(storeQ.valid \ {h}, storeQ.entries, nextIn(h, SqSize), storeQ.tail, SqSize,
                Live \ {x}, data, pos', "store")
    <3>1. Fifo(storeQ.valid, storeQ.entries, h, storeQ.tail, SqSize, Live, data, pos, "store")
      BY <1>9 DEF h
    <3>2. h \in storeQ.valid /\ data[x].op.kind = "store" /\ SqSize \in Nat \ {0}
      BY <1>13, <2>1, LsuAssumption
    <3> HIDE DEF x
    <3> QED  BY <1>3, <3>1, <3>2, FifoPop
  <2>3. FifoInv(storeQ, SqSize, "store")'
    BY <1>3, <2>1, <2>2 DEF FifoInv
  <2> QED  BY <1>7, <1>10, <1>13, <2>1, <2>2, <2>3 DEF RingInv, h
<1>14. CASE k \notin {"load", "store"} /\ UNCHANGED ringVars
  BY <1>7, <1>10, <1>11, <1>14 DEF RingInv, ringVars, isDmem
<1> QED  BY <1>6, <1>12, <1>13, <1>14


LEMMA RingStep == LsuTypeInv /\ RingInv /\ [Next]_vars => RingInv'
<1> SUFFICES ASSUME LsuTypeInv, RingInv, [Next]_vars PROVE RingInv'
  OBVIOUS
<1>0. RingT /\ ReplyT
  BY DEF LsuTypeInv
<1>1. CASE UNCHANGED <<data, firstP, nextP, empty, full, waitDmemCommit, ringVars>>
  BY <1>1, RingSame DEF ringVars
<1>2. CASE \E o \in Ops : dispatch(o)
  BY <1>2, RingDispatch
<1>3. CASE connect
  <2>1. PICK i \in RobIndex : woken(i)
    BY <1>3, ConnectEffect
  <2>2. UNCHANGED <<data, firstP, nextP, empty, full, waitDmemCommit>>
    BY <1>3, ConnectEffect DEF robVars
  <2>3. CASE data[i].slot \in LqIndex /\ wakeupLoad(data[i].slot, data[i].op.addr)
    BY <1>0, <2>1, <2>2, <2>3, WakeupLoad, RingSame DEF woken
  <2>4. CASE data[i].slot \in SqIndex /\ wakeupStore(data[i].slot, data[i].op.addr, data[i].op.data)
    BY <1>0, <2>1, <2>2, <2>4, WakeupStore, RingSame DEF woken
  <2> QED  BY <2>1, <2>3, <2>4 DEF woken
<1>4. CASE write_back
  BY <1>1, <1>4 DEF write_back, writeBack, coreVars
<1>5. CASE write_back_branch
  BY <1>1, <1>5 DEF write_back_branch, writeBack, coreVars, lsuVars
<1>6. CASE execute_direct
  BY <1>1, <1>6 DEF execute_direct, writeBack, coreVars
<1>7. CASE Retirement
  BY <1>7, RingRetire
<1>8. CASE Rules
  <2>1. UNCHANGED <<data, firstP, nextP, empty, full, waitDmemCommit>> /\ lsuRules
    BY <1>8 DEF Rules, robVars, coreVars
  <2>2. CASE issueLoad
    BY <2>1, <2>2, IssueLoadEffect, RingSame
  <2>3. CASE issueStore
    BY <2>1, <2>3, IssueStoreEffect, RingSame
  <2>4. CASE UNCHANGED ringVars
    BY <1>1, <2>1, <2>4
  <2> QED  BY <2>1, <2>2, <2>3, <2>4 DEF lsuRules, readRequest, loadResponse, writeRequest, deqSTB, doDeqSTB
<1>9. CASE UNCHANGED vars
  BY <1>1, <1>9 DEF vars, lsuVars, robVars, coreVars
<1> QED  BY <1>2, <1>3, <1>4, <1>5, <1>6, <1>7, <1>8, <1>9 DEF Next

(* f lists the memory operations of L in order, and Q their tags.          *)
Dmem == {"load", "store"}
tagOf(e) == IF e.op.kind = "load" THEN "Load" ELSE "Store"

TagList(f, n, Q, L, D, P) ==
  /\ \A k \in 1 .. n : f[k] \in L /\ D[f[k]].op.kind \in Dmem /\ Q[k] = tagOf(D[f[k]])
  /\ \A i \in L : D[i].op.kind \in Dmem => \E k \in 1 .. n : f[k] = i
  /\ \A j, k \in 1 .. n : j < k => P[f[j]] < P[f[k]]

LEMMA TagEnqOther ==
  ASSUME NEW f, NEW n, NEW Q, NEW L, NEW D, NEW D2, NEW P, NEW x, TagList(f, n, Q, L, D, P),
         Joins(L, D, D2, P, x), D2[x].op.kind \notin Dmem
  PROVE  TagList(f, n, Q, L \cup {x}, D2, P)
BY DEF TagList, Joins

LEMMA TagPush ==
  ASSUME NEW f, NEW g, NEW n \in Nat, NEW Q, NEW Q2, NEW L, NEW D, NEW D2, NEW P, NEW x,
         TagList(f, n, Q, L, D, P), Joins(L, D, D2, P, x), D2[x].op.kind \in Dmem,
         \A k \in 1 .. n : g[k] = f[k] /\ Q2[k] = Q[k], g[n + 1] = x, Q2[n + 1] = tagOf(D2[x])
  PROVE  TagList(g, n + 1, Q2, L \cup {x}, D2, P)
<1>0. /\ \A k \in 1 .. n + 1 : k \in 1 .. n \/ k = n + 1
      /\ \A k \in 1 .. n : k \in 1 .. n + 1 /\ k < n + 1
      /\ n + 1 \in 1 .. n + 1
  OBVIOUS
<1>1. ASSUME NEW k \in 1 .. n + 1
      PROVE  g[k] \in L \cup {x} /\ D2[g[k]].op.kind \in Dmem /\ Q2[k] = tagOf(D2[g[k]])
  <2>1. CASE k = n + 1
    BY <2>1
  <2>2. CASE k \in 1 .. n
    BY <2>2 DEF TagList, Joins
  <2> QED  BY <1>0, <2>1, <2>2
<1>2. ASSUME NEW i \in L \cup {x}, D2[i].op.kind \in Dmem
      PROVE  \E k \in 1 .. n + 1 : g[k] = i
  <2>1. CASE i = x
    BY <1>0, <2>1
  <2>2. CASE i \in L
    <3>1. D[i].op.kind \in Dmem
      BY <1>2, <2>2 DEF Joins
    <3>2. PICK k \in 1 .. n : f[k] = i
      BY <2>2, <3>1 DEF TagList
    <3> QED  BY <1>0, <3>2
  <2> QED  BY <2>1, <2>2
<1>3. ASSUME NEW j \in 1 .. n + 1, NEW k \in 1 .. n + 1, j < k
      PROVE  P[g[j]] < P[g[k]]
  <2>1. j \in 1 .. n
    BY <1>3
  <2>2. g[j] = f[j] /\ f[j] \in L
    BY <2>1 DEF TagList
  <2>3. CASE k = n + 1
    BY <2>2, <2>3 DEF Joins
  <2>4. CASE k \in 1 .. n
    BY <1>3, <2>1, <2>4 DEF TagList
  <2> QED  BY <1>0, <2>3, <2>4
<1> QED  BY <1>1, <1>2, <1>3 DEF TagList

LEMMA TagDeqOther ==
  ASSUME NEW f, NEW n, NEW Q, NEW L, NEW D, NEW P, NEW P2, NEW x, TagList(f, n, Q, L, D, P),
         Leaves(L, P, P2, x), D[x].op.kind \notin Dmem
  PROVE  TagList(f, n, Q, L \ {x}, D, P2)
<1>1. \A k \in 1 .. n : f[k] \in L \ {x}
  BY DEF TagList
<1>2. \A k \in 1 .. n : P[f[k]] \in Nat /\ P2[f[k]] = P[f[k]] - 1
  BY <1>1 DEF Leaves
<1>3. ASSUME NEW j \in 1 .. n, NEW k \in 1 .. n, j < k
      PROVE  P2[f[j]] < P2[f[k]]
  <2>1. P[f[j]] < P[f[k]]
    BY <1>3 DEF TagList
  <2> QED  BY <1>2, <2>1
<1> QED  BY <1>1, <1>3 DEF TagList

LEMMA TagPop ==
  ASSUME NEW f, NEW g, NEW n \in Nat, NEW Q, NEW Q2, NEW L, NEW D, NEW P, NEW P2, NEW x,
         TagList(f, n, Q, L, D, P), Leaves(L, P, P2, x), D[x].op.kind \in Dmem,
         \A k \in 1 .. n - 1 : g[k] = f[k + 1] /\ Q2[k] = Q[k + 1]
  PROVE  TagList(g, n - 1, Q2, L \ {x}, D, P2)
<1>1. PICK m \in 1 .. n : f[m] = x
  BY DEF TagList, Leaves
<1>2. 1 \in 1 .. n /\ n - 1 \in Nat
  OBVIOUS
<1>3. m = 1
  <2>1. SUFFICES ASSUME m # 1 PROVE FALSE
    OBVIOUS
  <2>2. 1 < m
    BY <2>1
  <2>3. P[f[1]] < P[x] /\ f[1] \in L
    BY <1>1, <1>2, <2>2 DEF TagList
  <2>4. P[x] = 0 /\ P[f[1]] \in Nat
    BY <2>3 DEF Leaves
  <2> QED  BY <2>3, <2>4
<1>4. \A k \in 1 .. n - 1 : k + 1 \in 1 .. n /\ 1 < k + 1
  BY <1>2
<1>5. \A k \in 1 .. n - 1 : f[k + 1] \in L \ {x} /\ P[f[k + 1]] \in Nat /\ P2[f[k + 1]] = P[f[k + 1]] - 1
  <2> SUFFICES ASSUME NEW k \in 1 .. n - 1
               PROVE  f[k + 1] \in L \ {x} /\ P[f[k + 1]] \in Nat /\ P2[f[k + 1]] = P[f[k + 1]] - 1
    OBVIOUS
  <2>1. k + 1 \in 1 .. n /\ 1 < k + 1
    BY <1>4
  <2>2. f[k + 1] \in L /\ P[x] < P[f[k + 1]]
    BY <1>1, <1>2, <1>3, <2>1 DEF TagList
  <2>3. P[x] = 0 /\ P[f[k + 1]] \in Nat
    BY <2>2 DEF Leaves
  <2>4. f[k + 1] # x
    BY <2>2, <2>3
  <2> QED  BY <2>2, <2>3, <2>4 DEF Leaves
<1>6. \A k \in 1 .. n - 1 : g[k] \in L \ {x} /\ D[g[k]].op.kind \in Dmem /\ Q2[k] = tagOf(D[g[k]])
  BY <1>4, <1>5 DEF TagList
<1>7. ASSUME NEW i \in L \ {x}, D[i].op.kind \in Dmem
      PROVE  \E k \in 1 .. n - 1 : g[k] = i
  <2>1. PICK k \in 1 .. n : f[k] = i
    BY <1>7 DEF TagList
  <2>2. k # 1
    BY <1>1, <1>3, <2>1
  <2>3. k - 1 \in 1 .. n - 1 /\ k - 1 + 1 = k
    BY <2>2
  <2> QED  BY <2>1, <2>3
<1>8. ASSUME NEW j \in 1 .. n - 1, NEW k \in 1 .. n - 1, j < k
      PROVE  P2[g[j]] < P2[g[k]]
  <2>1. j + 1 \in 1 .. n /\ k + 1 \in 1 .. n /\ j + 1 < k + 1
    BY <1>4, <1>8
  <2>2. P[f[j + 1]] < P[f[k + 1]]
    BY <2>1 DEF TagList
  <2>3. /\ P[f[j + 1]] \in Nat /\ P2[f[j + 1]] = P[f[j + 1]] - 1
        /\ P[f[k + 1]] \in Nat /\ P2[f[k + 1]] = P[f[k + 1]] - 1
    BY <1>5
  <2>4. P2[f[j + 1]] < P2[f[k + 1]]
    BY <2>2, <2>3
  <2> QED  BY <2>4
<1> QED  BY <1>6, <1>7, <1>8 DEF TagList

TagInv == \E f \in [1 .. Len(tagQ) -> RobIndex] : TagList(f, Len(tagQ), tagQ, Live, data, pos)

LEMMA TagStep == LsuTypeInv /\ RingInv /\ TagInv /\ [Next]_vars => TagInv'
<1> SUFFICES ASSUME LsuTypeInv, RingInv, TagInv, [Next]_vars PROVE TagInv'
  OBVIOUS
<1>0. RingT /\ RingOK /\ ReplyT /\ tagQ \in Seq({"Load", "Store"}) /\ Len(tagQ) \in Nat
  BY DEF LsuTypeInv, RobT, RingT
<1>1. PICK f \in [1 .. Len(tagQ) -> RobIndex] : TagList(f, Len(tagQ), tagQ, Live, data, pos)
  BY DEF TagInv
<1>2. CASE UNCHANGED <<data, firstP, nextP, empty, full, tagQ>>
  <2>1. Live' = Live /\ pos' = pos
    BY <1>2, SameRob
  <2> QED  BY <1>2, <2>1 DEF TagInv
<1>3. ASSUME NEW o \in Ops, dispatch(o) PROVE TagInv'
  <2> DEFINE x == nextP
             n == Len(tagQ)
  <2>1. /\ enq(data'[x]) /\ data'[x].op = o /\ ringEntry(o) \in LsuEntry
        /\ \/ o.kind = "load" /\ enqLoad(ringEntry(o))
           \/ o.kind = "store" /\ enqStore(ringEntry(o))
           \/ ~isDmem(o) /\ UNCHANGED ringVars
    BY <1>3, DispatchEffect
  <2>2. /\ pos' = pos /\ x \in RobIndex /\ Live' = Live \cup {x} /\ Joins(Live, data, data', pos, x)
    BY <1>0, <2>1, PosEnq
  <2>3. CASE o.kind \in Dmem
    <3>1. tagQ' = Append(tagQ, tagOf(data'[x])) /\ tagOf(data'[x]) \in {"Load", "Store"}
      BY <1>0, <2>1, <2>3, EnqLoad, EnqStore DEF tagOf, Dmem, isDmem
    <3>2. Len(tagQ') = n + 1 /\ tagQ'[n + 1] = tagOf(data'[x]) /\ \A k \in 1 .. n : tagQ'[k] = tagQ[k]
      BY <1>0, <3>1, AppendFacts
    <3> DEFINE g == [k \in 1 .. n + 1 |-> IF k = n + 1 THEN x ELSE f[k]]
    <3>3. /\ g \in [1 .. n + 1 -> RobIndex] /\ g[n + 1] = x /\ \A k \in 1 .. n : g[k] = f[k]
      BY <1>0, <1>1, <2>2
    <3> HIDE DEF g, x
    <3>4. TagList(g, n + 1, tagQ', Live \cup {x}, data', pos)
      BY <1>0, <1>1, <2>1, <2>2, <2>3, <3>2, <3>3, TagPush
    <3> QED  BY <2>2, <3>2, <3>3, <3>4 DEF TagInv
  <2>4. CASE o.kind \notin Dmem
    <3>1. tagQ' = tagQ
      BY <2>1, <2>4 DEF Dmem, ringVars
    <3> HIDE DEF x
    <3>2. TagList(f, n, tagQ, Live \cup {x}, data', pos)
      BY <1>1, <2>1, <2>2, <2>4, TagEnqOther
    <3> QED  BY <1>1, <2>2, <3>1, <3>2 DEF TagInv
  <2> QED  BY <2>3, <2>4
<1>4. CASE Retirement
  <2> DEFINE x == firstP
             n == Len(tagQ)
  <2>1. deq
    BY <1>4, RetireEffect
  <2>2. x \in Live /\ Live' = Live \ {x} /\ data' = data /\ Leaves(Live, pos, pos', x)
    BY <1>0, <2>1, PosDeq
  <2>3. CASE data[x].op.kind \in Dmem
    <3>1. tagQ # <<>> /\ tagQ' = Tail(tagQ)
      BY <1>0, <1>4, <2>3, RingRetire, CommitLoad, CommitStore DEF Dmem, isDmem
    <3>2. n > 0 /\ Len(tagQ') = n - 1 /\ \A k \in 1 .. n - 1 : tagQ'[k] = tagQ[k + 1]
      BY <1>0, <3>1, TailFacts
    <3> DEFINE g == [k \in 1 .. n - 1 |-> f[k + 1]]
    <3>3. g \in [1 .. n - 1 -> RobIndex] /\ \A k \in 1 .. n - 1 : g[k] = f[k + 1]
      BY <1>0, <1>1
    <3> HIDE DEF g, x
    <3>4. TagList(g, n - 1, tagQ', Live \ {x}, data, pos')
      BY <1>0, <1>1, <2>2, <2>3, <3>2, <3>3, TagPop
    <3> QED  BY <2>2, <3>2, <3>3, <3>4 DEF TagInv
  <2>4. CASE data[x].op.kind \notin Dmem
    <3>1. tagQ' = tagQ
      BY <1>4, <2>4, RingRetire DEF Dmem, ringVars
    <3> HIDE DEF x
    <3>2. TagList(f, n, tagQ, Live \ {x}, data, pos')
      BY <1>1, <2>2, <2>4, TagDeqOther
    <3> QED  BY <1>1, <2>2, <3>1, <3>2 DEF TagInv
  <2> QED  BY <2>3, <2>4
<1>5. CASE connect
  <2>1. PICK i \in RobIndex : woken(i)
    BY <1>5, ConnectEffect
  <2>2. tagQ' = tagQ
    BY <1>0, <2>1, WakeupLoad, WakeupStore DEF woken
  <2> QED  BY <1>2, <1>5, <2>2, ConnectEffect DEF robVars
<1>6. CASE write_back
  BY <1>2, <1>6 DEF write_back, writeBack, ringVars
<1>7. CASE write_back_branch
  BY <1>2, <1>7 DEF write_back_branch, writeBack, lsuVars, ringVars
<1>8. CASE execute_direct
  BY <1>2, <1>8 DEF execute_direct, writeBack, ringVars
<1>9. CASE Rules
  <2>1. UNCHANGED <<data, firstP, nextP, empty, full>> /\ lsuRules
    BY <1>9 DEF Rules, robVars
  <2>2. tagQ' = tagQ
    BY <2>1 DEF lsuRules, issueLoad, issueStore, readRequest, loadResponse, writeRequest, deqSTB,
                doDeqSTB, ringVars
  <2> QED  BY <1>2, <2>1, <2>2
<1>10. CASE UNCHANGED vars
  BY <1>2, <1>10 DEF vars, lsuVars, robVars, ringVars
<1> QED  BY <1>3, <1>4, <1>5, <1>6, <1>7, <1>8, <1>9, <1>10 DEF Next


LEMMA ModSmall ==
  ASSUME NEW N \in Nat \ {0}, NEW x \in Nat, x < 2 * N
  PROVE  x % N = IF x < N THEN x ELSE x - N
OBVIOUS

(* The slots of a ring from its head, as positions and as a list.          *)
ringAt(h, k, N) == (h + k - 1) % N

LEMMA RingAt ==
  ASSUME NEW N \in Nat \ {0}, NEW h \in 0 .. N - 1, NEW k \in 1 .. N
  PROVE  ringAt(h, k, N) = IF h + k - 1 < N THEN h + k - 1 ELSE h + k - 1 - N
<1>1. PICK x \in Nat : x = h + k - 1 /\ x < 2 * N
  OBVIOUS
<1>2. x % N = IF x < N THEN x ELSE x - N
  BY <1>1, ModSmall
<1> QED  BY <1>1, <1>2 DEF ringAt

LEMMA RingSlots ==
  ASSUME NEW N \in Nat \ {0}, NEW V, NEW h, NEW t, NEW n, IsRing(V, h, t, n, N)
  PROVE  /\ n \in Nat /\ Cardinality(V) = n
         /\ \A k \in 1 .. n : ringAt(h, k, N) \in V /\ distance(h, ringAt(h, k, N), N) = k - 1
         /\ \A s \in V : \E k \in 1 .. n : ringAt(h, k, N) = s
<1>0. h \in 0 .. N - 1 /\ n \in 0 .. N /\ V = {s \in 0 .. N - 1 : distance(h, s, N) < n}
  BY DEF IsRing
<1>1. ASSUME NEW k \in 1 .. n
      PROVE  ringAt(h, k, N) \in V /\ distance(h, ringAt(h, k, N), N) = k - 1
  <2>2. ringAt(h, k, N) = IF h + k - 1 < N THEN h + k - 1 ELSE h + k - 1 - N
    <3>1. k \in 1 .. N
      BY <1>0
    <3> QED  BY <1>0, <3>1, RingAt
  <2>3. ringAt(h, k, N) \in 0 .. N - 1 /\ distance(h, ringAt(h, k, N), N) = k - 1
    BY <1>0, <2>2 DEF distance
  <2>4. k - 1 < n
    BY <1>0
  <2> QED  BY <1>0, <2>3, <2>4
<1>2. ASSUME NEW s \in V
      PROVE  \E k \in 1 .. n : ringAt(h, k, N) = s
  <2> DEFINE k == distance(h, s, N) + 1
  <2>1. s \in 0 .. N - 1 /\ distance(h, s, N) < n
    BY <1>0
  <2>2. k \in 1 .. n /\ k \in Nat
    BY <1>0, <2>1 DEF distance
  <2>3. k \in 1 .. N /\ s = IF h + k - 1 < N THEN h + k - 1 ELSE h + k - 1 - N
    BY <1>0, <2>1 DEF distance
  <2> HIDE DEF k
  <2>4. ringAt(h, k, N) = s
    BY <1>0, <2>3, RingAt
  <2> QED  BY <2>2, <2>4
<1>3. Cardinality(V) = n
  <2> DEFINE f == [k \in 1 .. n |-> ringAt(h, k, N)]
  <2>1. f \in [1 .. n -> V] /\ \A x \in V : \E k \in 1 .. n : f[k] = x
    BY <1>1, <1>2
  <2>2. ASSUME NEW j \in 1 .. n, NEW k \in 1 .. n, f[j] = f[k] PROVE j = k
    <3>1. distance(h, ringAt(h, j, N), N) = j - 1 /\ distance(h, ringAt(h, k, N), N) = k - 1
      BY <1>1
    <3>2. j - 1 = k - 1
      BY <2>2, <3>1
    <3> QED  BY <3>2
  <2>3. n \in Nat
    BY <1>0
  <2> HIDE DEF f
  <2> QED  BY <2>1, <2>2, <2>3, CountByList
<1> QED  BY <1>0, <1>1, <1>2, <1>3

LEMMA FifoInOrder ==
  ASSUME RingOK, NEW q, NEW N \in Nat \ {0}, NEW kind, FifoInv(q, N, kind)
  PROVE  inOrder(ring(q, N), slotsOf({kind}))
<1> DEFINE V == q.valid
           h == q.head
           E == q.entries
           r == ring(q, N)
<1>1. PICK n : IsRing(V, h, q.tail, n, N)
  BY DEF FifoInv, Fifo
<1>2. /\ n \in Nat /\ Cardinality(V) = n
      /\ \A k \in 1 .. n : ringAt(h, k, N) \in V /\ distance(h, ringAt(h, k, N), N) = k - 1
      /\ \A s \in V : \E k \in 1 .. n : ringAt(h, k, N) = s
  BY <1>1, RingSlots
<1>3. r = [k \in 1 .. n |-> E[ringAt(h, k, N)].index]
  BY <1>2 DEF ring, ringAt
<1>4. Linked(V, E, Live, data, kind) /\ Ordered(V, E, h, N, pos)
  BY DEF FifoInv, Fifo
<1>5. Len(r) = n /\ \A k \in 1 .. n : r[k] = E[ringAt(h, k, N)].index
  BY <1>2, <1>3
<1> HIDE DEF r
<1>6. {r[k] : k \in 1 .. n} = slotsOf({kind})
  <2>1. ASSUME NEW k \in 1 .. n PROVE r[k] \in slotsOf({kind})
    <3>1. ringAt(h, k, N) \in V /\ r[k] = E[ringAt(h, k, N)].index
      BY <1>2, <1>5, <2>1
    <3>2. r[k] \in Live /\ data[r[k]].op.kind = kind
      BY <1>4, <3>1 DEF Linked
    <3> QED  BY <3>2 DEF slotsOf
  <2>2. ASSUME NEW i \in slotsOf({kind}) PROVE \E k \in 1 .. n : r[k] = i
    <3>1. data[i].slot \in V /\ E[data[i].slot].index = i
      BY <1>4 DEF Linked, slotsOf
    <3>2. PICK k \in 1 .. n : ringAt(h, k, N) = data[i].slot
      BY <1>2, <3>1
    <3> QED  BY <1>5, <3>1, <3>2
  <2> QED  BY <2>1, <2>2
<1>7. ASSUME NEW j \in 1 .. n, NEW k \in 1 .. n, j < k
      PROVE  robPos(r[j]) < robPos(r[k])
  <2>1. /\ ringAt(h, j, N) \in V /\ distance(h, ringAt(h, j, N), N) = j - 1
        /\ ringAt(h, k, N) \in V /\ distance(h, ringAt(h, k, N), N) = k - 1
    BY <1>2
  <2>2. j - 1 < k - 1
    BY <1>2, <1>7
  <2>3. pos[r[j]] < pos[r[k]]
    BY <1>4, <1>5, <2>1, <2>2 DEF Ordered
  <2>4. r[j] \in RobIndex /\ r[k] \in RobIndex
    BY <1>4, <1>5, <2>1 DEF Linked, Live
  <2> QED  BY <2>3, <2>4 DEF pos
<1> QED  BY <1>5, <1>6, <1>7 DEF inOrder, r

LEMMA RingsCover ==
  ASSUME LsuTypeInv, RingInv, TagInv
  PROVE  RingsFollowRob
<1> DEFINE n == Len(tagQ)
<1>0. RingOK /\ tagQ \in Seq({"Load", "Store"}) /\ n \in Nat
  BY DEF LsuTypeInv, RobT, RingT
<1>1. PICK f \in [1 .. n -> RobIndex] : TagList(f, n, tagQ, Live, data, pos)
  BY DEF TagInv
<1>2. inOrder(f, slotsOf({"load", "store"}))
  <2>1. Len(f) = n
    BY <1>0
  <2>2. {f[k] : k \in 1 .. n} = slotsOf({"load", "store"})
    BY <1>1 DEF TagList, slotsOf, Dmem
  <2>3. \A j, k \in 1 .. n : j < k => robPos(f[j]) < robPos(f[k])
    BY <1>1 DEF TagList, pos
  <2> QED  BY <2>1, <2>2, <2>3 DEF inOrder
<1>3. tagQ = [k \in 1 .. n |-> IF data[f[k]].op.kind = "load" THEN "Load" ELSE "Store"]
  <2>1. tagQ = [k \in 1 .. n |-> tagQ[k]]
    BY <1>0
  <2>2. \A k \in 1 .. n : tagQ[k] = IF data[f[k]].op.kind = "load" THEN "Load" ELSE "Store"
    BY <1>1 DEF TagList, tagOf
  <2> QED  BY <2>1, <2>2, Zenon
<1>4. inOrder(ring(loadQ, LqSize), slotsOf({"load"}))
  BY <1>0, FifoInOrder, LsuAssumption DEF RingInv
<1>5. inOrder(ring(storeQ, SqSize), slotsOf({"store"}))
  BY <1>0, FifoInOrder, LsuAssumption DEF RingInv
<1> QED  BY <1>2, <1>3, <1>4, <1>5, Zenon DEF RingsFollowRob, RingInv, WaitInv

LEMMA TagInit == Init => TagInv
<1> SUFFICES ASSUME Init PROVE TagInv
  OBVIOUS
<1>1. tagQ = <<>> /\ Len(tagQ) = 0 /\ Live = {}
  BY DEF Init, mkLSU, mkROB, Live
<1>2. [k \in 1 .. 0 |-> 0] \in [1 .. 0 -> RobIndex]
  OBVIOUS
<1>3. TagList([k \in 1 .. 0 |-> 0], 0, tagQ, Live, data, pos)
  BY <1>1 DEF TagList
<1> QED  BY <1>1, <1>2, <1>3 DEF TagInv

(* commit takes the heads of tagQ and of a ring without looking at the     *)
(* index it is given: they are the entries of the instruction that         *)
(* retires, whatever was squashed before.                                  *)
THEOREM RingsFollowCorrect == Spec => []RingsFollowRob
<1> DEFINE Inv == LsuTypeInv /\ RingInv /\ TagInv
<1>1. Init => Inv
  BY TypesInit, RingInit, TagInit
<1>2. Inv /\ [Next]_vars => Inv'
  BY TypesStep, RingStep, TagStep
<1>3. Inv => RingsFollowRob
  BY RingsCover
<1> QED  BY <1>1, <1>2, <1>3, PTL DEF Spec


-----------------------------------------------------------------------------
(* Ages.                                                                   *)

(* The age d dispatches ago, when the next one is a.                       *)
ago(a, d) == IF a >= d THEN a - d ELSE a + NumAge - d

AgeInv == \A i \in Live : data[i].age = ago(current_age, robLen - robPos(i))

LEMMA NextAge ==
  ASSUME NEW a \in Age
  PROVE  (a + 1) % NumAge = IF a + 1 < NumAge THEN a + 1 ELSE 0
<1>1. PICK x \in Nat : x = a + 1 /\ x <= NumAge /\ x < 2 * NumAge /\ NumAge \in Nat \ {0}
  BY LsuAssumption DEF Age
<1>2. x % NumAge = IF x < NumAge THEN x ELSE x - NumAge
  BY <1>1, ModSmall
<1> QED  BY <1>1, <1>2

LEMMA AgoShift ==
  ASSUME NEW a \in Age, NEW d \in 0 .. RobSize - 1
  PROVE  ago((a + 1) % NumAge, d + 1) = ago(a, d) /\ ago(a, 0) = a
<1>1. /\ a \in 0 .. NumAge - 1 /\ NumAge \in Nat \ {0} /\ RobSize \in Nat \ {0} /\ NumAge >= 2 * RobSize
      /\ (a + 1) % NumAge = IF a + 1 < NumAge THEN a + 1 ELSE 0
  BY NextAge, LsuAssumption, RobSizeAssumption, AgeAssumption DEF Age
<1>2. PICK b : b = (a + 1) % NumAge
  OBVIOUS
<1>3. b = IF a + 1 < NumAge THEN a + 1 ELSE 0
  BY <1>1, <1>2
<1>4. ago(b, d + 1) = ago(a, d) /\ ago(a, 0) = a
  BY <1>1, <1>3 DEF ago
<1> QED  BY <1>2, <1>4

(* Fewer than half of the ages are in use, so the sign of a difference     *)
(* tells the order.                                                        *)
LEMMA AgoBefore ==
  ASSUME NEW a \in Age, NEW d \in 1 .. RobSize, NEW c \in 1 .. RobSize, c < d
  PROVE  isBefore(ago(a, d), ago(a, c)) /\ ~isBefore(ago(a, c), ago(a, d))
<1>1. /\ a \in 0 .. NumAge - 1 /\ NumAge \in Nat \ {0} /\ RobSize \in Nat \ {0} /\ NumAge >= 2 * RobSize
  BY LsuAssumption, RobSizeAssumption, AgeAssumption DEF Age
<1>2. PICK x \in Nat, y \in Nat, e \in Nat :
        /\ x = ago(a, d) /\ y = ago(a, c) /\ e > 0 /\ e < RobSize
        /\ x < NumAge /\ y < NumAge
        /\ y = x + e \/ y = x + e - NumAge
  <2>1. ago(a, d) \in Nat /\ ago(a, d) < NumAge /\ ago(a, c) \in Nat /\ ago(a, c) < NumAge
    BY <1>1 DEF ago
  <2>2. ago(a, c) = ago(a, d) + (d - c) \/ ago(a, c) = ago(a, d) + (d - c) - NumAge
    BY <1>1 DEF ago
  <2>3. d - c \in Nat /\ d - c > 0 /\ d - c < RobSize
    BY <1>1
  <2> QED  BY <2>1, <2>2, <2>3
<1>3. PICK h \in Nat : h = NumAge \div 2 /\ h >= RobSize /\ NumAge >= 2 * h
  BY <1>1
<1>4. (y + NumAge - x) % NumAge = e
  <2>1. PICK z \in Nat : z = y + NumAge - x /\ z < 2 * NumAge
    BY <1>1, <1>2
  <2>2. z % NumAge = IF z < NumAge THEN z ELSE z - NumAge
    BY <1>1, <2>1, ModSmall
  <2>3. (IF z < NumAge THEN z ELSE z - NumAge) = e
    BY <1>1, <1>2, <2>1
  <2> QED  BY <2>1, <2>2, <2>3
<1>5. (x + NumAge - y) % NumAge = NumAge - e
  <2>1. PICK z \in Nat : z = x + NumAge - y /\ z < 2 * NumAge
    BY <1>1, <1>2
  <2>2. z % NumAge = IF z < NumAge THEN z ELSE z - NumAge
    BY <1>1, <2>1, ModSmall
  <2>3. (IF z < NumAge THEN z ELSE z - NumAge) = NumAge - e
    BY <1>1, <1>2, <2>1
  <2> QED  BY <2>1, <2>2, <2>3
<1>6. e < h /\ ~(NumAge - e < h)
  BY <1>1, <1>2, <1>3
<1> QED  BY <1>2, <1>3, <1>4, <1>5, <1>6 DEF isBefore

LEMMA AgeInit == Init => AgeInv
<1> SUFFICES ASSUME Init PROVE AgeInv
  OBVIOUS
<1>1. Live = {}
  BY DEF Init, mkROB, Live
<1> QED  BY <1>1 DEF AgeInv

LEMMA AgeStep == LsuTypeInv /\ AgeInv /\ [Next]_vars => AgeInv'
<1> SUFFICES ASSUME LsuTypeInv, AgeInv, [Next]_vars PROVE AgeInv'
  OBVIOUS
<1>0. RingOK /\ current_age \in Age /\ data \in [RobIndex -> Entry]
  BY DEF LsuTypeInv, RobT, CoreT
<1>1. /\ robLen \in 0 .. RobSize /\ RobSize \in Nat
      /\ \A i \in Live : i \in RobIndex /\ robPos(i) \in Nat /\ robPos(i) < robLen
  BY <1>0, RingOrder, RobSizeAssumption DEF RobIndex
<1>2. CASE UNCHANGED <<data, firstP, nextP, empty, full, current_age>>
  <2>1. Live' = Live /\ robLen' = robLen /\ \A i : robPos(i)' = robPos(i)
    BY <1>2 DEF Live, robPos, robLen
  <2> QED  BY <1>2, <2>1 DEF AgeInv
<1>3. ASSUME NEW o \in Ops, dispatch(o) PROVE AgeInv'
  <2> DEFINE x == nextP
  <2>1. /\ enq(data'[x]) /\ data'[x].age = current_age /\ current_age' = (current_age + 1) % NumAge
    BY <1>3, DispatchEffect
  <2>2. /\ robLen < RobSize /\ robLen' = robLen + 1 /\ robPos(x) = robLen
        /\ \A i : robPos(i)' = robPos(i)
    BY <1>0, <2>1, EnqOrder
  <2>3. x \in RobIndex /\ x \notin Live /\ Live' = Live \cup {x} /\ \A i \in Live : data'[i] = data[i]
    BY <1>0, <1>1, <2>1, EnqLive DEF enq
  <2> HIDE DEF x
  <2> SUFFICES ASSUME NEW i \in Live \cup {x}
               PROVE  data'[i].age = ago((current_age + 1) % NumAge, robLen + 1 - robPos(i))
    <3>1. ASSUME NEW i \in Live'
          PROVE  data'[i].age = ago(current_age', robLen' - robPos(i)')
      <4>1. i \in Live \cup {x}
        BY <2>3, <3>1
      <4>2. data'[i].age = ago((current_age + 1) % NumAge, robLen + 1 - robPos(i))
        BY <4>1
      <4>3. robLen' = robLen + 1 /\ robPos(i)' = robPos(i) /\ current_age' = (current_age + 1) % NumAge
        BY <2>1, <2>2
      <4>4. robLen \in Nat /\ robPos(i) \in Nat
        BY <1>1, <2>2, <4>1
      <4>5. robLen' - robPos(i)' = robLen + 1 - robPos(i)
        BY <4>3, <4>4
      <4> QED  BY <4>2, <4>3, <4>5
    <3> QED  BY <3>1 DEF AgeInv
  <2>5. CASE i \in Live
    <3>1. PICK d \in 0 .. RobSize - 1 : d = robLen - robPos(i) /\ robLen + 1 - robPos(i) = d + 1
      BY <1>1, <2>2, <2>5
    <3>2. data'[i].age = ago(current_age, d)
      BY <2>3, <2>5, <3>1 DEF AgeInv
    <3> QED  BY <1>0, <3>1, <3>2, AgoShift
  <2>6. CASE i = x
    <3>1. robLen + 1 - robPos(i) = 0 + 1 /\ 0 \in 0 .. RobSize - 1
      BY <1>1, <2>2, <2>6, RobSizeAssumption
    <3> QED  BY <1>0, <2>1, <2>6, <3>1, AgoShift
  <2> QED  BY <2>5, <2>6
<1>4. CASE Retirement
  <2>1. deq /\ current_age' = current_age
    BY <1>4, RetireEffect DEF retireVars
  <2>2. /\ robLen' = robLen - 1 /\ \A i \in RobIndex : i # firstP => robPos(i)' = robPos(i) - 1
    BY <1>0, <2>1, DeqOrder
  <2>3. Live' = Live \ {firstP} /\ data' = data
    BY <1>0, <2>1, DeqLive DEF deq
  <2> SUFFICES ASSUME NEW i \in Live \ {firstP}
               PROVE  data[i].age = ago(current_age, robLen' - robPos(i)')
    BY <2>1, <2>3 DEF AgeInv
  <2>4. robLen' - robPos(i)' = robLen - robPos(i)
    BY <1>1, <2>2
  <2> QED  BY <2>4 DEF AgeInv
<1>5. CASE connect
  BY <1>2, <1>5 DEF connect, robVars
<1>6. CASE write_back
  BY <1>2, <1>6 DEF write_back, writeBack, coreVars
<1>7. CASE write_back_branch
  BY <1>2, <1>7 DEF write_back_branch, writeBack, coreVars
<1>8. CASE execute_direct
  BY <1>2, <1>8 DEF execute_direct, writeBack, coreVars
<1>9. CASE Rules
  BY <1>2, <1>9 DEF Rules, robVars, coreVars
<1>10. CASE UNCHANGED vars
  BY <1>2, <1>10 DEF vars, robVars, coreVars
<1> QED  BY <1>3, <1>4, <1>5, <1>6, <1>7, <1>8, <1>9, <1>10 DEF Next

LEMMA AgesCover ==
  ASSUME LsuTypeInv, AgeInv
  PROVE  AgesOrdered
<1>0. RingOK /\ current_age \in Age
  BY DEF LsuTypeInv, RobT, CoreT
<1>1. /\ robLen \in 0 .. RobSize /\ RobSize \in Nat
      /\ \A i \in Live : i \in RobIndex /\ robPos(i) \in Nat /\ robPos(i) < robLen
  BY <1>0, RingOrder, RobSizeAssumption DEF RobIndex
<1> SUFFICES ASSUME NEW i \in Live, NEW j \in Live, robPos(i) < robPos(j)
             PROVE  isBefore(data[i].age, data[j].age) /\ ~isBefore(data[j].age, data[i].age)
  BY DEF AgesOrdered
<1>2. PICK d \in 1 .. RobSize, c \in 1 .. RobSize :
        d = robLen - robPos(i) /\ c = robLen - robPos(j) /\ c < d
  BY <1>1
<1>3. data[i].age = ago(current_age, d) /\ data[j].age = ago(current_age, c)
  BY <1>2 DEF AgeInv
<1> QED  BY <1>0, <1>2, <1>3, AgoBefore

(* Ages wrap, and still compare in program order.                          *)
THEOREM AgesCorrect == Spec => []AgesOrdered
<1>1. Init => LsuTypeInv /\ AgeInv
  BY TypesInit, AgeInit
<1>2. LsuTypeInv /\ AgeInv /\ [Next]_vars => (LsuTypeInv /\ AgeInv)'
  BY TypesStep, AgeStep
<1>3. LsuTypeInv /\ AgeInv => AgesOrdered
  BY AgesCover
<1> QED  BY <1>1, <1>2, <1>3, PTL DEF Spec


-----------------------------------------------------------------------------
(* Where each memory operation is answered from.                           *)

Places == {"none", "iq", "addr", "dmem", "mmio", "ok", "failed", "ready", "stored"}

Moved(pl, x, y) == [pl EXCEPT ![x] = y]

LEMMA MovedFacts ==
  ASSUME NEW pl \in [RobIndex -> Places], NEW x \in RobIndex, NEW y \in Places
  PROVE  /\ Moved(pl, x, y) \in [RobIndex -> Places] /\ Moved(pl, x, y)[x] = y
         /\ \A i \in RobIndex : i # x => Moved(pl, x, y)[i] = pl[i]
BY DEF Moved

(* f lists the operations in place p, each once.                           *)
Listed(f, n, pl, p) ==
  /\ \A k \in 1 .. n : f[k] \in RobIndex /\ pl[f[k]] = p
  /\ \A i \in RobIndex : pl[i] = p => \E k \in 1 .. n : f[k] = i
  /\ \A j, k \in 1 .. n : f[j] = f[k] => j = k

LEMMA ListMove ==
  ASSUME NEW pl \in [RobIndex -> Places], NEW x \in RobIndex, NEW y \in Places, NEW f, NEW n, NEW p,
         Listed(f, n, pl, p), pl[x] # p, y # p
  PROVE  Listed(f, n, Moved(pl, x, y), p)
<1>1. /\ Moved(pl, x, y)[x] = y /\ \A i \in RobIndex : i # x => Moved(pl, x, y)[i] = pl[i]
  BY MovedFacts
<1> QED  BY <1>1 DEF Listed

LEMMA ListPush ==
  ASSUME NEW pl \in [RobIndex -> Places], NEW x \in RobIndex, NEW p \in Places,
         NEW f, NEW g, NEW n \in Nat, Listed(f, n, pl, p), pl[x] # p,
         \A k \in 1 .. n : g[k] = f[k], g[n + 1] = x
  PROVE  Listed(g, n + 1, Moved(pl, x, p), p)
<1> DEFINE pl2 == Moved(pl, x, p)
<1>1. pl2[x] = p /\ \A i \in RobIndex : i # x => pl2[i] = pl[i]
  BY MovedFacts
<1> HIDE DEF pl2
<1>2. /\ \A k \in 1 .. n + 1 : k \in 1 .. n \/ k = n + 1
      /\ \A k \in 1 .. n : k \in 1 .. n + 1 /\ k # n + 1
      /\ n + 1 \in 1 .. n + 1
  OBVIOUS
<1>3. \A k \in 1 .. n : g[k] \in RobIndex /\ pl[g[k]] = p /\ g[k] # x
  BY DEF Listed
<1>4. \A k \in 1 .. n + 1 : g[k] \in RobIndex /\ pl2[g[k]] = p
  BY <1>1, <1>2, <1>3
<1>5. ASSUME NEW i \in RobIndex, pl2[i] = p PROVE \E k \in 1 .. n + 1 : g[k] = i
  <2>1. CASE i = x
    BY <1>2, <2>1
  <2>2. CASE i # x
    <3>1. PICK k \in 1 .. n : f[k] = i
      BY <1>1, <1>5, <2>2 DEF Listed
    <3> QED  BY <1>2, <3>1
  <2> QED  BY <2>1, <2>2
<1>6. ASSUME NEW j \in 1 .. n + 1, NEW k \in 1 .. n + 1, g[j] = g[k] PROVE j = k
  <2>1. CASE j \in 1 .. n /\ k \in 1 .. n
    BY <1>6, <2>1 DEF Listed
  <2>2. CASE j = n + 1 /\ k \in 1 .. n
    BY <1>3, <1>6, <2>2
  <2>3. CASE j \in 1 .. n /\ k = n + 1
    BY <1>3, <1>6, <2>3
  <2> QED  BY <1>2, <2>1, <2>2, <2>3
<1> QED  BY <1>4, <1>5, <1>6 DEF Listed, pl2

LEMMA ListPop ==
  ASSUME NEW pl \in [RobIndex -> Places], NEW x \in RobIndex, NEW p, NEW y \in Places, y # p,
         NEW f, NEW g, NEW n \in Nat \ {0}, Listed(f, n, pl, p), f[1] = x,
         \A k \in 1 .. n - 1 : g[k] = f[k + 1]
  PROVE  Listed(g, n - 1, Moved(pl, x, y), p)
<1> DEFINE pl2 == Moved(pl, x, y)
<1>1. pl2[x] = y /\ \A i \in RobIndex : i # x => pl2[i] = pl[i]
  BY MovedFacts
<1> HIDE DEF pl2
<1>2. 1 \in 1 .. n /\ \A k \in 1 .. n - 1 : k + 1 \in 1 .. n /\ k + 1 # 1
  OBVIOUS
<1>3. \A k \in 1 .. n - 1 : g[k] \in RobIndex /\ pl[g[k]] = p /\ g[k] # x
  BY <1>2 DEF Listed
<1>4. \A k \in 1 .. n - 1 : g[k] \in RobIndex /\ pl2[g[k]] = p
  BY <1>1, <1>3
<1>5. ASSUME NEW i \in RobIndex, pl2[i] = p PROVE \E k \in 1 .. n - 1 : g[k] = i
  <2>1. i # x
    BY <1>1, <1>5
  <2>2. PICK k \in 1 .. n : f[k] = i
    BY <1>1, <1>5, <2>1 DEF Listed
  <2>3. k # 1
    BY <2>1, <2>2
  <2>4. k - 1 \in 1 .. n - 1 /\ k - 1 + 1 = k
    BY <2>3
  <2> QED  BY <2>2, <2>4
<1>6. ASSUME NEW j \in 1 .. n - 1, NEW k \in 1 .. n - 1, g[j] = g[k] PROVE j = k
  <2>1. j + 1 \in 1 .. n /\ k + 1 \in 1 .. n /\ f[j + 1] = f[k + 1]
    BY <1>2, <1>6
  <2>2. j + 1 = k + 1
    BY <2>1 DEF Listed
  <2> QED  BY <2>2
<1> QED  BY <1>4, <1>5, <1>6 DEF Listed, pl2

(* A queue of replies, and a queue of slots of the load ring.              *)
indexes(q)  == [k \in 1 .. Len(q) |-> q[k].index]
reads(q, E) == [k \in 1 .. Len(q) |-> E[q[k]].index]

RepliesAt(q, pl, p)     == Listed(indexes(q), Len(q), pl, p)
ReadsAt(q, V, E, pl, p) == (\A k \in 1 .. Len(q) : q[k] \in V) /\ Listed(reads(q, E), Len(q), pl, p)

LEMMA RepliesMove ==
  ASSUME NEW pl \in [RobIndex -> Places], NEW x \in RobIndex, NEW y \in Places, NEW q, NEW p,
         RepliesAt(q, pl, p), pl[x] # p, y # p
  PROVE  RepliesAt(q, Moved(pl, x, y), p)
BY ListMove DEF RepliesAt

LEMMA RepliesPush ==
  ASSUME NEW pl \in [RobIndex -> Places], NEW q \in Seq(LsuReply), NEW r \in LsuReply, NEW p \in Places,
         RepliesAt(q, pl, p), pl[r.index] # p
  PROVE  RepliesAt(Append(q, r), Moved(pl, r.index, p), p)
<1> DEFINE n == Len(q)
           g == indexes(Append(q, r))
           f == indexes(q)
<1>1. /\ n \in Nat /\ Len(Append(q, r)) = n + 1 /\ Append(q, r)[n + 1] = r
      /\ \A k \in 1 .. n : Append(q, r)[k] = q[k] /\ k \in 1 .. n + 1
      /\ n + 1 \in 1 .. n + 1
  BY AppendFacts
<1>2. g[n + 1] = r.index /\ \A k \in 1 .. n : g[k] = f[k]
  BY <1>1 DEF indexes
<1>3. r.index \in RobIndex
  BY DEF LsuReply
<1> HIDE DEF f, g
<1>4. Listed(g, n + 1, Moved(pl, r.index, p), p)
  <2>1. Listed(f, n, pl, p)
    BY DEF RepliesAt, f
  <2> QED  BY <1>1, <1>2, <1>3, <2>1, ListPush
<1> QED  BY <1>1, <1>4 DEF RepliesAt, g

LEMMA RepliesPop ==
  ASSUME NEW pl \in [RobIndex -> Places], NEW q \in Seq(LsuReply), q # <<>>, NEW p, NEW y \in Places,
         RepliesAt(q, pl, p), y # p
  PROVE  /\ Head(q).index \in RobIndex /\ pl[Head(q).index] = p
         /\ RepliesAt(Tail(q), Moved(pl, Head(q).index, y), p)
<1> DEFINE n == Len(q)
           g == indexes(Tail(q))
           f == indexes(q)
           x == Head(q).index
<1>1. /\ n \in Nat \ {0} /\ Head(q) = q[1] /\ 1 \in 1 .. n /\ Len(Tail(q)) = n - 1
      /\ \A k \in 1 .. n - 1 : k + 1 \in 1 .. n /\ Tail(q)[k] = q[k + 1]
  BY TailFacts
<1>2. f[1] = x /\ \A k \in 1 .. n - 1 : g[k] = f[k + 1]
  BY <1>1 DEF indexes
<1>3. Listed(f, n, pl, p)
  BY DEF RepliesAt
<1>4. x \in RobIndex /\ pl[x] = p
  BY <1>1, <1>2, <1>3 DEF Listed
<1> HIDE DEF f, g, x
<1>5. Listed(g, n - 1, Moved(pl, x, y), p)
  BY <1>1, <1>2, <1>3, <1>4, ListPop
<1> QED  BY <1>1, <1>4, <1>5 DEF RepliesAt, g, x

LEMMA ReadsMove ==
  ASSUME NEW pl \in [RobIndex -> Places], NEW x \in RobIndex, NEW y \in Places, NEW q, NEW p, NEW V, NEW E,
         ReadsAt(q, V, E, pl, p), pl[x] # p, y # p
  PROVE  ReadsAt(q, V, E, Moved(pl, x, y), p)
BY ListMove DEF ReadsAt

LEMMA ReadsRing ==
  ASSUME NEW pl, NEW q, NEW p, NEW V, NEW E, NEW V2, NEW E2, ReadsAt(q, V, E, pl, p),
         \A s \in V : pl[E[s].index] = p => s \in V2 /\ E2[s] = E[s]
  PROVE  ReadsAt(q, V2, E2, pl, p)
<1>1. ASSUME NEW k \in 1 .. Len(q) PROVE q[k] \in V2 /\ E2[q[k]] = E[q[k]]
  <2>1. q[k] \in V /\ reads(q, E)[k] = E[q[k]].index /\ pl[reads(q, E)[k]] = p
    BY DEF ReadsAt, Listed, reads
  <2> QED  BY <2>1
<1>2. reads(q, E2) = reads(q, E)
  BY <1>1 DEF reads
<1> QED  BY <1>1, <1>2 DEF ReadsAt

LEMMA ReadsPush ==
  ASSUME NEW pl \in [RobIndex -> Places], NEW q \in Seq(LqIndex), NEW V, NEW E \in [LqIndex -> LsuEntry],
         NEW s \in LqIndex, s \in V, NEW p \in Places,
         ReadsAt(q, V, E, pl, p), pl[E[s].index] # p
  PROVE  ReadsAt(Append(q, s), V, E, Moved(pl, E[s].index, p), p)
<1> DEFINE n == Len(q)
           g == reads(Append(q, s), E)
           f == reads(q, E)
           x == E[s].index
<1>1. /\ n \in Nat /\ Len(Append(q, s)) = n + 1 /\ Append(q, s)[n + 1] = s
      /\ \A k \in 1 .. n : Append(q, s)[k] = q[k] /\ k \in 1 .. n + 1
      /\ \A k \in 1 .. n + 1 : k \in 1 .. n \/ k = n + 1
      /\ n + 1 \in 1 .. n + 1
  BY AppendFacts
<1>2. g[n + 1] = x /\ \A k \in 1 .. n : g[k] = f[k]
  BY <1>1 DEF reads
<1>3. x \in RobIndex
  BY DEF LsuEntry
<1>4. \A k \in 1 .. n + 1 : Append(q, s)[k] \in V
  BY <1>1 DEF ReadsAt
<1> HIDE DEF f, g, x
<1>5. Listed(g, n + 1, Moved(pl, x, p), p)
  <2>1. Listed(f, n, pl, p)
    BY DEF ReadsAt, f
  <2>2. pl[x] # p
    BY DEF x
  <2> QED  BY <1>1, <1>2, <1>3, <2>1, <2>2, ListPush
<1> QED  BY <1>1, <1>4, <1>5 DEF ReadsAt, g, x

LEMMA ReadsPop ==
  ASSUME NEW pl \in [RobIndex -> Places], NEW q \in Seq(LqIndex), q # <<>>, NEW V, NEW E,
         NEW p, NEW y \in Places, ReadsAt(q, V, E, pl, p), y # p
  PROVE  /\ Head(q) \in V /\ E[Head(q)].index \in RobIndex /\ pl[E[Head(q)].index] = p
         /\ ReadsAt(Tail(q), V, E, Moved(pl, E[Head(q)].index, y), p)
<1> DEFINE n == Len(q)
           g == reads(Tail(q), E)
           f == reads(q, E)
           x == E[Head(q)].index
<1>1. /\ n \in Nat \ {0} /\ Head(q) = q[1] /\ 1 \in 1 .. n /\ Len(Tail(q)) = n - 1
      /\ \A k \in 1 .. n - 1 : k + 1 \in 1 .. n /\ Tail(q)[k] = q[k + 1]
  BY TailFacts
<1>2. f[1] = x /\ \A k \in 1 .. n - 1 : g[k] = f[k + 1]
  BY <1>1 DEF reads
<1>3. Listed(f, n, pl, p) /\ \A k \in 1 .. n : q[k] \in V
  BY DEF ReadsAt
<1>4. x \in RobIndex /\ pl[x] = p
  BY <1>1, <1>2, <1>3 DEF Listed
<1>5. Head(q) \in V /\ \A k \in 1 .. n - 1 : Tail(q)[k] \in V
  BY <1>1, <1>3
<1> HIDE DEF f, g, x
<1>6. Listed(g, n - 1, Moved(pl, x, y), p)
  BY <1>1, <1>2, <1>3, <1>4, ListPop
<1> QED  BY <1>1, <1>4, <1>5, <1>6 DEF ReadsAt, g, x


-----------------------------------------------------------------------------
(* Who waits for an answer, and in which place.                            *)

LoadPlaces  == {"addr", "dmem", "mmio", "ok", "failed"}
StorePlaces == {"ready", "stored"}

RobAt(L, R, D, Q, pl) ==
  /\ R \subseteq L
  /\ \A i \in RobIndex : /\ pl[i] # "none" <=> i \in L \ R /\ isDmem(D[i].op)
                         /\ pl[i] \in LoadPlaces => D[i].op.kind = "load"
                         /\ pl[i] \in StorePlaces => D[i].op.kind = "store"
                         /\ pl[i] = "iq" <=> i \in Q

(* The loads V with an address, A, that have not been read, not in X.      *)
LoadAt(V, A, X, E, pl) ==
  /\ X \subseteq V
  /\ \A s \in V : /\ s \in A \ X <=> pl[E[s].index] = "addr"
                  /\ pl[E[s].index] = "iq" => s \notin A \cup X

(* The stores V with an address and data, R, that are to be answered, T.   *)
StoreAt(V, R, T, E, pl) ==
  \A s \in V : /\ s \in R \cap T <=> pl[E[s].index] = "ready"
               /\ pl[E[s].index] = "iq" => s \notin R /\ s \in T

(* The slots of a ring belong to different operations.                     *)
Own(V, E) ==
  /\ \A s \in V : E[s].index \in RobIndex
  /\ \A s, t \in V : E[s].index = E[t].index => s = t

(* A free slot is given to an operation that has none.                     *)
Takes(V, E, E2, t, x) ==
  t \notin V /\ E2[t].index = x /\ \A s \in V : E2[s] = E[s] /\ E[s].index # x

LEMMA LinkedOwn ==
  ASSUME NEW V, NEW E, NEW L, NEW D, NEW kind, Linked(V, E, L, D, kind), L \subseteq RobIndex
  PROVE  Own(V, E) /\ \A s \in V : E[s].index \in L /\ D[E[s].index].op.kind = kind
BY DEF Linked, Own

LEMMA RobMove ==
  ASSUME NEW pl \in [RobIndex -> Places], NEW x \in RobIndex, NEW y \in LoadPlaces \cup StorePlaces,
         NEW L, NEW R, NEW D, NEW Q, RobAt(L, R, D, Q, pl), pl[x] # "none",
         y \in LoadPlaces => D[x].op.kind = "load", y \in StorePlaces => D[x].op.kind = "store"
  PROVE  /\ RobAt(L, R, D, Q \ {x}, Moved(pl, x, y))
         /\ pl[x] # "iq" => RobAt(L, R, D, Q, Moved(pl, x, y))
<1>1. y \in Places /\ y # "none" /\ y # "iq"
  BY DEF LoadPlaces, StorePlaces, Places
<1>2. /\ Moved(pl, x, y)[x] = y /\ \A i \in RobIndex : i # x => Moved(pl, x, y)[i] = pl[i]
  BY <1>1, MovedFacts
<1>3. x \in L \ R /\ isDmem(D[x].op)
  BY DEF RobAt
<1>4. RobAt(L, R, D, Q \ {x}, Moved(pl, x, y))
  BY <1>1, <1>2, <1>3 DEF RobAt
<1>5. ASSUME pl[x] # "iq" PROVE RobAt(L, R, D, Q, Moved(pl, x, y))
  BY <1>1, <1>2, <1>3, <1>5 DEF RobAt
<1> QED  BY <1>4, <1>5

LEMMA RobAnswered ==
  ASSUME NEW pl \in [RobIndex -> Places], NEW x \in RobIndex, NEW L, NEW R, NEW D, NEW Q,
         RobAt(L, R, D, Q, pl), pl[x] # "none", pl[x] # "iq"
  PROVE  RobAt(L, R \cup {x}, D, Q, Moved(pl, x, "none"))
<1>1. "none" \in Places /\ "none" \notin LoadPlaces /\ "none" \notin StorePlaces
  BY DEF Places, LoadPlaces, StorePlaces
<1>2. /\ Moved(pl, x, "none")[x] = "none"
      /\ \A i \in RobIndex : i # x => Moved(pl, x, "none")[i] = pl[i]
  BY <1>1, MovedFacts
<1> QED  BY <1>1, <1>2 DEF RobAt

LEMMA RobDispatch ==
  ASSUME NEW pl \in [RobIndex -> Places], NEW x \in RobIndex, NEW L, NEW R, NEW D, NEW D2, NEW Q,
         NEW P, RobAt(L, R, D, Q, pl), Joins(L, D, D2, P, x)
  PROVE  /\ pl[x] = "none"
         /\ isDmem(D2[x].op) => RobAt(L \cup {x}, R, D2, Q \cup {x}, Moved(pl, x, "iq"))
         /\ ~isDmem(D2[x].op) => RobAt(L \cup {x}, R, D2, Q, pl)
<1>1. "iq" \in Places /\ "iq" \notin LoadPlaces /\ "iq" \notin StorePlaces
  BY DEF Places, LoadPlaces, StorePlaces
<1>2. /\ Moved(pl, x, "iq")[x] = "iq"
      /\ \A i \in RobIndex : i # x => Moved(pl, x, "iq")[i] = pl[i]
  BY <1>1, MovedFacts
<1>3. pl[x] = "none" /\ x \notin R /\ x \notin Q
  BY DEF RobAt, Joins
<1>4. "none" \notin LoadPlaces /\ "none" \notin StorePlaces
  BY DEF LoadPlaces, StorePlaces
<1>5. x \notin L /\ \A i \in L : D2[i] = D[i]
  BY DEF Joins
<1>6. ASSUME isDmem(D2[x].op) PROVE RobAt(L \cup {x}, R, D2, Q \cup {x}, Moved(pl, x, "iq"))
  BY <1>1, <1>2, <1>3, <1>4, <1>5, <1>6 DEF RobAt
<1>7. ASSUME ~isDmem(D2[x].op) PROVE RobAt(L \cup {x}, R, D2, Q, pl)
  BY <1>3, <1>4, <1>5, <1>7 DEF RobAt
<1> QED  BY <1>3, <1>6, <1>7

LEMMA RobRetire ==
  ASSUME NEW pl, NEW x, NEW L, NEW R, NEW D, NEW Q, RobAt(L, R, D, Q, pl), x \in R
  PROVE  RobAt(L \ {x}, R \ {x}, D, Q, pl)
BY DEF RobAt

LEMMA RobOther ==
  ASSUME NEW pl, NEW L, NEW x \in L, NEW R, NEW D, NEW Q, RobAt(L, R, D, Q, pl), ~isDmem(D[x].op)
  PROVE  RobAt(L, R \cup {x}, D, Q, pl)
BY DEF RobAt

LEMMA LoadOther ==
  ASSUME NEW pl \in [RobIndex -> Places], NEW x \in RobIndex, NEW y \in Places,
         NEW V, NEW A, NEW X, NEW E, LoadAt(V, A, X, E, pl), Own(V, E),
         \/ pl[x] \notin {"addr", "iq"} /\ y \notin {"addr", "iq"}
         \/ \A s \in V : E[s].index # x
  PROVE  LoadAt(V, A, X, E, Moved(pl, x, y))
<1>1. /\ Moved(pl, x, y)[x] = y /\ \A i \in RobIndex : i # x => Moved(pl, x, y)[i] = pl[i]
  BY MovedFacts
<1> QED  BY <1>1 DEF LoadAt, Own

LEMMA LoadWoken ==
  ASSUME NEW pl \in [RobIndex -> Places], NEW x \in RobIndex, NEW V, NEW A, NEW X, NEW E, NEW s \in V,
         LoadAt(V, A, X, E, pl), Own(V, E), E[s].index = x, pl[x] = "iq"
  PROVE  /\ LoadAt(V, A \cup {s}, X, E, Moved(pl, x, "addr"))
         /\ LoadAt(V, A, X, E, Moved(pl, x, "failed"))
<1>1. ASSUME NEW y \in {"addr", "failed"}
      PROVE  /\ Moved(pl, x, y)[x] = y /\ \A i \in RobIndex : i # x => Moved(pl, x, y)[i] = pl[i]
  BY MovedFacts DEF Places
<1>2. s \notin A \cup X /\ \A u \in V : E[u].index \in RobIndex /\ (u # s => E[u].index # x)
  BY DEF LoadAt, Own
<1>3. LoadAt(V, A \cup {s}, X, E, Moved(pl, x, "addr"))
  BY <1>1, <1>2 DEF LoadAt
<1>4. LoadAt(V, A, X, E, Moved(pl, x, "failed"))
  BY <1>1, <1>2 DEF LoadAt
<1> QED  BY <1>3, <1>4

LEMMA LoadIssued ==
  ASSUME NEW pl \in [RobIndex -> Places], NEW x \in RobIndex, NEW V, NEW A, NEW X, NEW E, NEW s \in V,
         NEW y \in {"dmem", "mmio"}, LoadAt(V, A, X, E, pl), Own(V, E), E[s].index = x, pl[x] = "addr"
  PROVE  LoadAt(V, A, X \cup {s}, E, Moved(pl, x, y))
<1>1. /\ Moved(pl, x, y)[x] = y /\ \A i \in RobIndex : i # x => Moved(pl, x, y)[i] = pl[i]
  BY MovedFacts DEF Places
<1>2. \A u \in V : E[u].index \in RobIndex /\ (u # s => E[u].index # x)
  BY DEF Own
<1> QED  BY <1>1, <1>2 DEF LoadAt

LEMMA LoadPush ==
  ASSUME NEW pl \in [RobIndex -> Places], NEW x \in RobIndex, NEW V, NEW A, NEW X, NEW E, NEW E2, NEW t,
         LoadAt(V, A, X, E, pl), Own(V, E), Takes(V, E, E2, t, x)
  PROVE  LoadAt(V \cup {t}, A \ {t}, X, E2, Moved(pl, x, "iq"))
<1>1. /\ Moved(pl, x, "iq")[x] = "iq" /\ \A i \in RobIndex : i # x => Moved(pl, x, "iq")[i] = pl[i]
  BY MovedFacts DEF Places
<1>2. /\ t \notin X
      /\ \A s \in V : /\ s # t /\ E2[s].index = E[s].index
                      /\ Moved(pl, x, "iq")[E2[s].index] = pl[E[s].index]
  BY <1>1 DEF LoadAt, Own, Takes
<1> QED  BY <1>1, <1>2 DEF LoadAt, Takes

LEMMA LoadPop ==
  ASSUME NEW pl, NEW V, NEW A, NEW X, NEW E, NEW h, LoadAt(V, A, X, E, pl)
  PROVE  LoadAt(V \ {h}, A, X \ {h}, E, pl)
BY DEF LoadAt

LEMMA StoreOther ==
  ASSUME NEW pl \in [RobIndex -> Places], NEW x \in RobIndex, NEW y \in Places,
         NEW V, NEW R, NEW T, NEW E, StoreAt(V, R, T, E, pl), Own(V, E),
         \/ pl[x] \notin {"ready", "iq"} /\ y \notin {"ready", "iq"}
         \/ \A s \in V : E[s].index # x
  PROVE  StoreAt(V, R, T, E, Moved(pl, x, y))
<1>1. /\ Moved(pl, x, y)[x] = y /\ \A i \in RobIndex : i # x => Moved(pl, x, y)[i] = pl[i]
  BY MovedFacts
<1> QED  BY <1>1 DEF StoreAt, Own

LEMMA StoreWoken ==
  ASSUME NEW pl \in [RobIndex -> Places], NEW x \in RobIndex, NEW V, NEW R, NEW T, NEW E, NEW s \in V,
         StoreAt(V, R, T, E, pl), Own(V, E), E[s].index = x, pl[x] = "iq"
  PROVE  StoreAt(V, R \cup {s}, T, E, Moved(pl, x, "ready"))
<1>1. /\ Moved(pl, x, "ready")[x] = "ready"
      /\ \A i \in RobIndex : i # x => Moved(pl, x, "ready")[i] = pl[i]
  BY MovedFacts DEF Places
<1>2. \A u \in V : E[u].index \in RobIndex /\ (u # s => E[u].index # x)
  BY DEF Own
<1> QED  BY <1>1, <1>2 DEF StoreAt

LEMMA StoreIssued ==
  ASSUME NEW pl \in [RobIndex -> Places], NEW x \in RobIndex, NEW V, NEW R, NEW T, NEW E, NEW s \in V,
         StoreAt(V, R, T, E, pl), Own(V, E), E[s].index = x, pl[x] = "ready"
  PROVE  StoreAt(V, R, T \ {s}, E, Moved(pl, x, "stored"))
<1>1. /\ Moved(pl, x, "stored")[x] = "stored"
      /\ \A i \in RobIndex : i # x => Moved(pl, x, "stored")[i] = pl[i]
  BY MovedFacts DEF Places
<1>2. \A u \in V : E[u].index \in RobIndex /\ (u # s => E[u].index # x)
  BY DEF Own
<1> QED  BY <1>1, <1>2 DEF StoreAt

LEMMA StorePush ==
  ASSUME NEW pl \in [RobIndex -> Places], NEW x \in RobIndex, NEW V, NEW R, NEW T, NEW E, NEW E2, NEW t,
         StoreAt(V, R, T, E, pl), Own(V, E), Takes(V, E, E2, t, x)
  PROVE  StoreAt(V \cup {t}, R \ {t}, T \cup {t}, E2, Moved(pl, x, "iq"))
<1>1. /\ Moved(pl, x, "iq")[x] = "iq" /\ \A i \in RobIndex : i # x => Moved(pl, x, "iq")[i] = pl[i]
  BY MovedFacts DEF Places
<1>2. \A s \in V : s # t /\ E2[s].index = E[s].index /\ Moved(pl, x, "iq")[E2[s].index] = pl[E[s].index]
  BY <1>1 DEF Own, Takes
<1> QED  BY <1>1, <1>2 DEF StoreAt, Takes

LEMMA StorePop ==
  ASSUME NEW pl, NEW V, NEW R, NEW T, NEW E, NEW h, StoreAt(V, R, T, E, pl)
  PROVE  StoreAt(V \ {h}, R, T, E, pl)
BY DEF StoreAt


-----------------------------------------------------------------------------
(* Every memory operation without a result is in one place, and every      *)
(* place holds nothing else.                                               *)

RobPlaced(pl)    == RobAt(Live, resultValid, data, lsu_iq, pl)
LoadsPlaced(pl)  == LoadAt(loadQ.valid, loadQ.addrValid, loadQ.executed, loadQ.entries, pl)
StoresPlaced(pl) == StoreAt(storeQ.valid, storeQ.ready, storeQ.toIssue, storeQ.entries, pl)

ReadsPlaced(pl) ==
  /\ ReadsAt(pendingDmemLoadsQ, loadQ.valid, loadQ.entries, pl, "dmem")
  /\ ReadsAt(pendingMmioLoadsQ, loadQ.valid, loadQ.entries, pl, "mmio")

RepliesPlaced(pl) ==
  /\ RepliesAt(loadSuccessQ, pl, "ok") /\ RepliesAt(loadFailureQ, pl, "failed")
  /\ RepliesAt(storeSuccessQ, pl, "stored")

Placed(pl) ==
  RobPlaced(pl) /\ LoadsPlaced(pl) /\ StoresPlaced(pl) /\ ReadsPlaced(pl) /\ RepliesPlaced(pl)

PlaceInv == \E pl \in [RobIndex -> Places] : Placed(pl)

(* The operations of the rings, and the slots of the operations.           *)
LEMMA RingOwn ==
  ASSUME RingInv
  PROVE  /\ Own(loadQ.valid, loadQ.entries) /\ Own(storeQ.valid, storeQ.entries)
         /\ \A s \in loadQ.valid : /\ loadQ.entries[s].index \in Live
                                   /\ data[loadQ.entries[s].index].op.kind = "load"
         /\ \A s \in storeQ.valid : /\ storeQ.entries[s].index \in Live
                                    /\ data[storeQ.entries[s].index].op.kind = "store"
         /\ \A i \in Live :
              /\ data[i].op.kind = "load" =>
                   data[i].slot \in loadQ.valid /\ loadQ.entries[data[i].slot].index = i
              /\ data[i].op.kind = "store" =>
                   data[i].slot \in storeQ.valid /\ storeQ.entries[data[i].slot].index = i
<1>1. /\ Linked(loadQ.valid, loadQ.entries, Live, data, "load")
      /\ Linked(storeQ.valid, storeQ.entries, Live, data, "store")
  BY DEF RingInv, FifoInv, Fifo
<1>2. Live \subseteq RobIndex
  BY DEF Live
<1>3. Own(loadQ.valid, loadQ.entries) /\ Own(storeQ.valid, storeQ.entries)
  BY <1>1, <1>2, LinkedOwn
<1>4. \A s \in loadQ.valid : /\ loadQ.entries[s].index \in Live
                             /\ data[loadQ.entries[s].index].op.kind = "load"
  BY <1>1, <1>2, LinkedOwn
<1>5. \A s \in storeQ.valid : /\ storeQ.entries[s].index \in Live
                              /\ data[storeQ.entries[s].index].op.kind = "store"
  BY <1>1, <1>2, LinkedOwn
<1>6. \A i \in Live :
        /\ data[i].op.kind = "load" =>
             data[i].slot \in loadQ.valid /\ loadQ.entries[data[i].slot].index = i
        /\ data[i].op.kind = "store" =>
             data[i].slot \in storeQ.valid /\ storeQ.entries[data[i].slot].index = i
  BY <1>1 DEF Linked
<1> QED  BY <1>3, <1>4, <1>5, <1>6

(* Moves between other places leave the two kinds of queues alone.         *)
LEMMA RepliesStay ==
  ASSUME NEW pl \in [RobIndex -> Places], NEW x \in RobIndex, NEW y \in Places, RepliesPlaced(pl),
         pl[x] \notin {"ok", "failed", "stored"}, y \notin {"ok", "failed", "stored"},
         UNCHANGED replyVars
  PROVE  RepliesPlaced(Moved(pl, x, y))'
<1>1. RepliesPlaced(Moved(pl, x, y))
  BY RepliesMove DEF RepliesPlaced
<1> QED  BY <1>1 DEF RepliesPlaced, replyVars

LEMMA ReadsStay ==
  ASSUME NEW pl \in [RobIndex -> Places], NEW x \in RobIndex, NEW y \in Places, ReadsPlaced(pl),
         pl[x] \notin {"dmem", "mmio"}, y \notin {"dmem", "mmio"},
         UNCHANGED <<pendingDmemLoadsQ, pendingMmioLoadsQ>>,
         \A s \in loadQ.valid : s \in loadQ'.valid /\ loadQ'.entries[s] = loadQ.entries[s]
  PROVE  ReadsPlaced(Moved(pl, x, y))'
<1> DEFINE pl2 == Moved(pl, x, y)
<1>1. /\ ReadsAt(pendingDmemLoadsQ, loadQ.valid, loadQ.entries, pl2, "dmem")
      /\ ReadsAt(pendingMmioLoadsQ, loadQ.valid, loadQ.entries, pl2, "mmio")
  BY ReadsMove DEF ReadsPlaced
<1> HIDE DEF pl2
<1>2. /\ ReadsAt(pendingDmemLoadsQ, loadQ'.valid, loadQ'.entries, pl2, "dmem")
      /\ ReadsAt(pendingMmioLoadsQ, loadQ'.valid, loadQ'.entries, pl2, "mmio")
  BY <1>1, ReadsRing
<1> QED  BY <1>2 DEF ReadsPlaced, pl2

LEMMA PlaceInit == Init => PlaceInv
<1> SUFFICES ASSUME Init PROVE PlaceInv
  OBVIOUS
<1> DEFINE pl == [i \in RobIndex |-> "none"]
<1>1. pl \in [RobIndex -> Places] /\ \A i \in RobIndex : pl[i] = "none"
  BY DEF Places
<1> HIDE DEF pl
<1>2. /\ Live = {} /\ resultValid = {} /\ lsu_iq = {}
  BY DEF Init, mkROB, Live
<1>3. /\ loadQ.valid = {} /\ loadQ.executed = {} /\ storeQ.valid = {}
      /\ pendingDmemLoadsQ = <<>> /\ pendingMmioLoadsQ = <<>>
      /\ loadSuccessQ = <<>> /\ loadFailureQ = <<>> /\ storeSuccessQ = <<>>
  BY DEF Init, mkLSU
<1>4. ASSUME NEW p \in Places \ {"none"}, NEW f PROVE Listed(f, 0, pl, p)
  BY <1>1 DEF Listed
<1>5. RobPlaced(pl)
  BY <1>1, <1>2 DEF RobPlaced, RobAt, LoadPlaces, StorePlaces
<1>6. LoadsPlaced(pl) /\ StoresPlaced(pl)
  BY <1>3 DEF LoadsPlaced, LoadAt, StoresPlaced, StoreAt
<1>7. ReadsPlaced(pl)
  BY <1>3, <1>4 DEF ReadsPlaced, ReadsAt, Places
<1>8. RepliesPlaced(pl)
  BY <1>3, <1>4 DEF RepliesPlaced, RepliesAt, Places
<1> QED  BY <1>1, <1>5, <1>6, <1>7, <1>8 DEF PlaceInv, Placed

LEMMA PlaceDispatch ==
  ASSUME LsuTypeInv, RingInv, PlaceInv, NEW o \in Ops, dispatch(o)
  PROVE  PlaceInv'
<1>0. RingOK /\ RingT
  BY DEF LsuTypeInv, RobT
<1>1. PICK pl \in [RobIndex -> Places] : Placed(pl)
  BY DEF PlaceInv
<1>2. PICK x \in RobIndex : x = nextP
  BY DispatchEffect
<1>3. /\ enq(data'[x]) /\ data'[x].op = o /\ ringEntry(o) \in LsuEntry /\ ringEntry(o).index = x
      /\ \/ o.kind = "load" /\ enqLoad(ringEntry(o))
         \/ o.kind = "store" /\ enqStore(ringEntry(o))
         \/ ~isDmem(o) /\ UNCHANGED ringVars
      /\ isDmem(o) => lsu_iq' = lsu_iq \cup {x}
      /\ ~isDmem(o) => lsu_iq' = lsu_iq
      /\ UNCHANGED <<replyVars, pendingDmemLoadsQ, pendingMmioLoadsQ>>
  BY <1>2, DispatchEffect DEF ringEntry, readVars
<1>4. /\ x \notin Live /\ Live' = Live \cup {x} /\ Joins(Live, data, data', pos, x)
      /\ resultValid' = resultValid
  BY <1>0, <1>2, <1>3, PosEnq DEF enq
<1>5. /\ pl[x] = "none"
      /\ isDmem(o) => RobPlaced(Moved(pl, x, "iq"))'
      /\ ~isDmem(o) => RobPlaced(pl)'
  <2>1. RobAt(Live, resultValid, data, lsu_iq, pl)
    BY <1>1 DEF Placed, RobPlaced
  <2>2. /\ pl[x] = "none"
        /\ isDmem(data'[x].op) =>
             RobAt(Live \cup {x}, resultValid, data', lsu_iq \cup {x}, Moved(pl, x, "iq"))
        /\ ~isDmem(data'[x].op) => RobAt(Live \cup {x}, resultValid, data', lsu_iq, pl)
    BY <1>4, <2>1, RobDispatch
  <2> QED  BY <1>3, <1>4, <2>2 DEF RobPlaced
<1>6. /\ Own(loadQ.valid, loadQ.entries) /\ \A s \in loadQ.valid : loadQ.entries[s].index # x
      /\ Own(storeQ.valid, storeQ.entries) /\ \A s \in storeQ.valid : storeQ.entries[s].index # x
  BY <1>4, RingOwn
<1>7. CASE isDmem(o)
  <2> DEFINE pl2 == Moved(pl, x, "iq")
  <2>1. pl2 \in [RobIndex -> Places] /\ RobPlaced(pl2)' /\ RepliesPlaced(pl2)'
    BY <1>1, <1>3, <1>5, <1>7, MovedFacts, RepliesStay DEF Placed, Places
  <2>2. LoadsPlaced(pl2)' /\ StoresPlaced(pl2)' /\ ReadsPlaced(pl2)'
    <3>1. CASE o.kind = "load"
      <4>1. PICK t \in LqIndex : t = loadQ.tail
        BY <1>0, LoadFields DEF RingT
      <4>2. enqLoad(ringEntry(o))
        BY <1>3, <3>1 DEF isDmem
      <4>3. /\ t \notin loadQ.valid /\ loadQ'.valid = loadQ.valid \cup {t}
            /\ loadQ'.addrValid = loadQ.addrValid \ {t} /\ loadQ'.executed = loadQ.executed
            /\ loadQ'.entries = [loadQ.entries EXCEPT ![t] = ringEntry(o)] /\ storeQ' = storeQ
        BY <1>0, <1>3, <4>1, <4>2, EnqLoad
      <4>4. loadQ.entries \in [LqIndex -> LsuEntry] /\ loadQ.valid \subseteq LqIndex
        BY <1>0, LoadFields DEF RingT
      <4>5. loadQ'.entries[t].index = x /\ \A s \in loadQ.valid : loadQ'.entries[s] = loadQ.entries[s]
        BY <1>3, <4>3, <4>4
      <4>6. LoadsPlaced(pl2)'
        <5>1. LoadAt(loadQ.valid, loadQ.addrValid, loadQ.executed, loadQ.entries, pl)
          BY <1>1 DEF Placed, LoadsPlaced
        <5>2. LoadAt(loadQ.valid \cup {t}, loadQ.addrValid \ {t}, loadQ.executed, loadQ'.entries, pl2)
          <6>1. Takes(loadQ.valid, loadQ.entries, loadQ'.entries, t, x)
            BY <1>6, <4>3, <4>5 DEF Takes
          <6> QED  BY <1>6, <5>1, <6>1, LoadPush
        <5> QED  BY <4>3, <5>2 DEF LoadsPlaced
      <4>7. StoresPlaced(pl2)'
        <5>1. StoreAt(storeQ.valid, storeQ.ready, storeQ.toIssue, storeQ.entries, pl)
          BY <1>1 DEF Placed, StoresPlaced
        <5>2. StoreAt(storeQ.valid, storeQ.ready, storeQ.toIssue, storeQ.entries, pl2)
          BY <1>6, <5>1, StoreOther DEF Places
        <5> QED  BY <4>3, <5>2 DEF StoresPlaced
      <4>8. ReadsPlaced(pl2)'
        BY <1>1, <1>3, <1>5, <4>3, <4>5, ReadsStay DEF Placed, Places
      <4> QED  BY <4>6, <4>7, <4>8
    <3>2. CASE o.kind # "load"
      <4>1. PICK t \in SqIndex : t = storeQ.tail
        BY <1>0, StoreFields DEF RingT
      <4>2. enqStore(ringEntry(o))
        BY <1>3, <1>7, <3>2
      <4>3. /\ t \notin storeQ.valid /\ storeQ'.valid = storeQ.valid \cup {t}
            /\ storeQ'.ready = storeQ.ready \ {t} /\ storeQ'.toIssue = storeQ.toIssue \cup {t}
            /\ storeQ'.entries = [storeQ.entries EXCEPT ![t] = ringEntry(o)] /\ loadQ' = loadQ
        BY <1>0, <1>3, <4>1, <4>2, EnqStore
      <4>4. storeQ.entries \in [SqIndex -> LsuEntry] /\ storeQ.valid \subseteq SqIndex
        BY <1>0, StoreFields DEF RingT
      <4>5. storeQ'.entries[t].index = x /\ \A s \in storeQ.valid : storeQ'.entries[s] = storeQ.entries[s]
        BY <1>3, <4>3, <4>4
      <4>6. StoresPlaced(pl2)'
        <5>1. StoreAt(storeQ.valid, storeQ.ready, storeQ.toIssue, storeQ.entries, pl)
          BY <1>1 DEF Placed, StoresPlaced
        <5>2. StoreAt(storeQ.valid \cup {t}, storeQ.ready \ {t}, storeQ.toIssue \cup {t},
                      storeQ'.entries, pl2)
          <6>1. Takes(storeQ.valid, storeQ.entries, storeQ'.entries, t, x)
            BY <1>6, <4>3, <4>5 DEF Takes
          <6> QED  BY <1>6, <5>1, <6>1, StorePush
        <5> QED  BY <4>3, <5>2 DEF StoresPlaced
      <4>7. LoadsPlaced(pl2)'
        <5>1. LoadAt(loadQ.valid, loadQ.addrValid, loadQ.executed, loadQ.entries, pl)
          BY <1>1 DEF Placed, LoadsPlaced
        <5>2. LoadAt(loadQ.valid, loadQ.addrValid, loadQ.executed, loadQ.entries, pl2)
          BY <1>6, <5>1, LoadOther DEF Places
        <5> QED  BY <4>3, <5>2 DEF LoadsPlaced
      <4>8. ReadsPlaced(pl2)'
        BY <1>1, <1>3, <1>5, <4>3, ReadsStay DEF Placed, Places
      <4> QED  BY <4>6, <4>7, <4>8
    <3> QED  BY <3>1, <3>2
  <2> QED  BY <2>1, <2>2 DEF PlaceInv, Placed
<1>8. CASE ~isDmem(o)
  <2>1. UNCHANGED <<loadQ, storeQ, pendingDmemLoadsQ, pendingMmioLoadsQ, replyVars>>
    BY <1>3, <1>8 DEF isDmem, ringVars
  <2>2. LoadsPlaced(pl)' /\ StoresPlaced(pl)' /\ ReadsPlaced(pl)' /\ RepliesPlaced(pl)'
    BY <1>1, <2>1 DEF Placed, LoadsPlaced, StoresPlaced, ReadsPlaced, RepliesPlaced, replyVars
  <2> QED  BY <1>5, <1>8, <2>2 DEF PlaceInv, Placed
<1> QED  BY <1>7, <1>8


(* Replies join and leave their queue.                                     *)
LEMMA RepliesGain ==
  ASSUME NEW pl \in [RobIndex -> Places], NEW q \in Seq(LsuReply), NEW p \in Places, NEW x \in RobIndex,
         NEW e \in LsuEntry, NEW ok \in BOOLEAN, NEW d \in Data,
         RepliesAt(q, pl, p), pl[x] # p, e.index = x
  PROVE  RepliesAt(Append(q, Answer(e, ok, d)), Moved(pl, x, p), p)
<1>1. Answer(e, ok, d) \in LsuReply /\ Answer(e, ok, d).index = x
  BY AnswerType DEF Answer
<1> QED  BY <1>1, RepliesPush

LEMMA PlaceConnect ==
  ASSUME LsuTypeInv, RingInv, PlaceInv, connect
  PROVE  PlaceInv'
<1>0. RingT /\ ReplyT
  BY DEF LsuTypeInv
<1>1. PICK pl \in [RobIndex -> Places] : Placed(pl)
  BY DEF PlaceInv
<1>2. PICK x \in RobIndex : woken(x)
  BY ConnectEffect
<1>3. /\ UNCHANGED <<data, resultValid, pendingDmemLoadsQ, pendingMmioLoadsQ>> /\ Live' = Live
      /\ lsu_iq' = lsu_iq \ {x}
  BY <1>2, ConnectEffect, SameRob DEF robVars, readVars, woken
<1>4. RobAt(Live, resultValid, data, lsu_iq, pl)
  BY <1>1 DEF Placed, RobPlaced
<1>5. pl[x] = "iq" /\ x \in Live /\ isDmem(data[x].op)
  BY <1>2, <1>4 DEF RobAt, woken
<1>6. /\ Own(loadQ.valid, loadQ.entries) /\ Own(storeQ.valid, storeQ.entries)
      /\ data[x].op.kind # "load" => \A s \in loadQ.valid : loadQ.entries[s].index # x
      /\ data[x].op.kind # "store" => \A s \in storeQ.valid : storeQ.entries[s].index # x
  BY RingOwn
<1>7. /\ LoadAt(loadQ.valid, loadQ.addrValid, loadQ.executed, loadQ.entries, pl)
      /\ StoreAt(storeQ.valid, storeQ.ready, storeQ.toIssue, storeQ.entries, pl)
      /\ ReadsPlaced(pl) /\ RepliesPlaced(pl)
  BY <1>1 DEF Placed, LoadsPlaced, StoresPlaced
<1>8. CASE data[x].op.kind = "load"
  <2>1. PICK s \in LqIndex : s = data[x].slot
    BY <1>2, <1>8 DEF woken
  <2>2. s \in loadQ.valid /\ loadQ.entries[s].index = x
    BY <1>5, <1>8, <2>1, RingOwn
  <2>3. wakeupLoad(s, data[x].op.addr) /\ data[x].op.addr \in Addr
    BY <1>2, <1>8, <2>1 DEF woken
  <2>4. /\ loadQ'.valid = loadQ.valid /\ loadQ'.executed = loadQ.executed
        /\ loadQ'.entries = loadQ.entries
        /\ UNCHANGED <<storeQ, loadSuccessQ, storeSuccessQ>>
        /\ \/ loadQ'.addrValid = loadQ.addrValid \cup {s} /\ loadFailureQ' = loadFailureQ
           \/ /\ loadQ'.addrValid = loadQ.addrValid
              /\ loadFailureQ' = Append(loadFailureQ, Answer(loadQ.entries[s], FALSE, zeroData))
    BY <1>0, <2>3, WakeupLoad
  <2>5. ASSUME NEW y \in {"addr", "failed"}
        PROVE  /\ Moved(pl, x, y) \in [RobIndex -> Places]
               /\ RobPlaced(Moved(pl, x, y))' /\ StoresPlaced(Moved(pl, x, y))'
               /\ ReadsPlaced(Moved(pl, x, y))'
    <3>1. y \in Places /\ y \in LoadPlaces /\ y \notin StorePlaces
      BY DEF Places, LoadPlaces, StorePlaces
    <3>2. RobAt(Live, resultValid, data, lsu_iq \ {x}, Moved(pl, x, y))
      BY <1>4, <1>5, <1>8, <3>1, RobMove
    <3>3. StoreAt(storeQ.valid, storeQ.ready, storeQ.toIssue, storeQ.entries, Moved(pl, x, y))
      BY <1>6, <1>7, <1>8, <3>1, StoreOther
    <3>4. ReadsPlaced(Moved(pl, x, y))'
      BY <1>3, <1>5, <1>7, <2>4, <3>1, ReadsStay
    <3> QED  BY <1>3, <2>4, <3>1, <3>2, <3>3, <3>4, MovedFacts DEF RobPlaced, StoresPlaced
  <2>6. /\ LoadAt(loadQ.valid, loadQ.addrValid \cup {s}, loadQ.executed, loadQ.entries, Moved(pl, x, "addr"))
        /\ LoadAt(loadQ.valid, loadQ.addrValid, loadQ.executed, loadQ.entries, Moved(pl, x, "failed"))
    BY <1>5, <1>6, <1>7, <2>2, LoadWoken
  <2>7. CASE loadQ'.addrValid = loadQ.addrValid \cup {s} /\ loadFailureQ' = loadFailureQ
    <3>1. LoadsPlaced(Moved(pl, x, "addr"))'
      BY <2>4, <2>6, <2>7 DEF LoadsPlaced
    <3>2. RepliesPlaced(Moved(pl, x, "addr"))'
      BY <1>5, <1>7, <2>4, <2>7, RepliesStay DEF replyVars, Places
    <3> QED  BY <2>5, <3>1, <3>2 DEF PlaceInv, Placed
  <2>8. CASE /\ loadQ'.addrValid = loadQ.addrValid
             /\ loadFailureQ' = Append(loadFailureQ, Answer(loadQ.entries[s], FALSE, zeroData))
    <3>1. LoadsPlaced(Moved(pl, x, "failed"))'
      BY <2>4, <2>6, <2>8 DEF LoadsPlaced
    <3>2. /\ loadQ.entries[s] \in LsuEntry /\ zeroData \in Data /\ loadFailureQ \in Seq(LsuReply)
      BY <1>0, LoadFields, DataTypes DEF RingT, ReplyT
    <3>3. RepliesAt(loadFailureQ', Moved(pl, x, "failed"), "failed")
      BY <1>5, <1>7, <2>2, <2>8, <3>2, RepliesGain DEF RepliesPlaced, Places
    <3>4. /\ RepliesAt(loadSuccessQ, Moved(pl, x, "failed"), "ok")
          /\ RepliesAt(storeSuccessQ, Moved(pl, x, "failed"), "stored")
      BY <1>5, <1>7, RepliesMove DEF RepliesPlaced, Places
    <3>5. RepliesPlaced(Moved(pl, x, "failed"))'
      BY <2>4, <3>3, <3>4 DEF RepliesPlaced
    <3> QED  BY <2>5, <3>1, <3>5 DEF PlaceInv, Placed
  <2> QED  BY <2>4, <2>7, <2>8
<1>9. CASE data[x].op.kind # "load"
  <2> DEFINE pl2 == Moved(pl, x, "ready")
  <2>0. data[x].op.kind = "store"
    BY <1>5, <1>9 DEF isDmem
  <2>1. PICK s \in SqIndex : s = data[x].slot
    BY <1>2, <1>9 DEF woken
  <2>2. s \in storeQ.valid /\ storeQ.entries[s].index = x
    BY <1>5, <2>0, <2>1, RingOwn
  <2>3. /\ wakeupStore(s, data[x].op.addr, data[x].op.data)
        /\ data[x].op.addr \in Addr /\ data[x].op.data \in Data
    BY <1>2, <1>9, <2>1 DEF woken
  <2>4. /\ storeQ'.valid = storeQ.valid /\ storeQ'.ready = storeQ.ready \cup {s}
        /\ storeQ'.toIssue = storeQ.toIssue /\ storeQ'.entries = storeQ.entries
        /\ UNCHANGED <<loadQ, replyVars>>
    BY <1>0, <2>3, WakeupStore
  <2>5. "ready" \in Places /\ "ready" \notin LoadPlaces /\ "ready" \in StorePlaces
    BY DEF Places, LoadPlaces, StorePlaces
  <2>6. RobPlaced(pl2)'
    <3>1. RobAt(Live, resultValid, data, lsu_iq \ {x}, pl2)
      BY <1>4, <1>5, <2>0, <2>5, RobMove
    <3> QED  BY <1>3, <3>1 DEF RobPlaced
  <2>7. StoresPlaced(pl2)'
    <3>1. StoreAt(storeQ.valid, storeQ.ready \cup {s}, storeQ.toIssue, storeQ.entries, pl2)
      BY <1>5, <1>6, <1>7, <2>2, StoreWoken
    <3> QED  BY <2>4, <3>1 DEF StoresPlaced
  <2>8. LoadsPlaced(pl2)'
    <3>1. LoadAt(loadQ.valid, loadQ.addrValid, loadQ.executed, loadQ.entries, pl2)
      BY <1>6, <1>7, <1>9, <2>5, LoadOther
    <3> QED  BY <2>4, <3>1 DEF LoadsPlaced
  <2>9. ReadsPlaced(pl2)' /\ RepliesPlaced(pl2)' /\ pl2 \in [RobIndex -> Places]
    BY <1>3, <1>5, <1>7, <2>4, <2>5, ReadsStay, RepliesStay, MovedFacts
  <2> QED  BY <2>6, <2>7, <2>8, <2>9 DEF PlaceInv, Placed
<1> QED  BY <1>8, <1>9

(* A move that neither ring nor the reads notice.                          *)
LEMMA RingsStay ==
  ASSUME RingInv, NEW pl \in [RobIndex -> Places], NEW x \in RobIndex, NEW y \in Places,
         LoadsPlaced(pl), StoresPlaced(pl),
         pl[x] \notin {"addr", "iq", "ready"}, y \notin {"addr", "iq", "ready"},
         UNCHANGED <<loadQ, storeQ>>
  PROVE  LoadsPlaced(Moved(pl, x, y))' /\ StoresPlaced(Moved(pl, x, y))'
<1>1. Own(loadQ.valid, loadQ.entries) /\ Own(storeQ.valid, storeQ.entries)
  BY RingOwn
<1>2. LoadAt(loadQ.valid, loadQ.addrValid, loadQ.executed, loadQ.entries, Moved(pl, x, y))
  <2>1. LoadAt(loadQ.valid, loadQ.addrValid, loadQ.executed, loadQ.entries, pl)
    BY DEF LoadsPlaced
  <2> QED  BY <1>1, <2>1, LoadOther
<1>3. StoreAt(storeQ.valid, storeQ.ready, storeQ.toIssue, storeQ.entries, Moved(pl, x, y))
  <2>1. StoreAt(storeQ.valid, storeQ.ready, storeQ.toIssue, storeQ.entries, pl)
    BY DEF StoresPlaced
  <2> QED  BY <1>1, <2>1, StoreOther
<1> QED  BY <1>2, <1>3 DEF LoadsPlaced, StoresPlaced

LEMMA PlaceWriteBack ==
  ASSUME LsuTypeInv, RingInv, PlaceInv, write_back
  PROVE  PlaceInv'
<1>1. PICK pl \in [RobIndex -> Places] : Placed(pl)
  BY DEF PlaceInv
<1>2. /\ lsuDeq /\ resultValid' = resultValid \cup {Head(reply).index}
      /\ UNCHANGED <<data, firstP, nextP, empty, full, loadQ, storeQ, lsu_iq>>
      /\ UNCHANGED <<pendingDmemLoadsQ, pendingMmioLoadsQ>>
  BY DEF write_back, writeBack, ringVars, readVars, coreVars
<1>3. Live' = Live
  BY <1>2, SameRob
<1>4. ReplyT
  BY DEF LsuTypeInv
<1>5. PICK x \in RobIndex : x = Head(reply).index
  BY <1>2, <1>4, ReplyEffect DEF LsuReply
<1> DEFINE pl2 == Moved(pl, x, "none")
<1>6. pl[x] \in {"ok", "failed", "stored"} /\ RepliesPlaced(pl2)'
  <2>0. /\ RepliesAt(loadSuccessQ, pl, "ok") /\ RepliesAt(loadFailureQ, pl, "failed")
        /\ RepliesAt(storeSuccessQ, pl, "stored") /\ "none" \in Places
        /\ loadSuccessQ \in Seq(LsuReply) /\ loadFailureQ \in Seq(LsuReply) /\ storeSuccessQ \in Seq(LsuReply)
    BY <1>1, <1>4 DEF Placed, RepliesPlaced, Places, ReplyT
  <2>1. CASE /\ loadSuccessQ # <<>> /\ reply = loadSuccessQ /\ loadSuccessQ' = Tail(loadSuccessQ)
             /\ UNCHANGED <<loadFailureQ, storeSuccessQ>>
    <3>1. pl[x] = "ok" /\ RepliesAt(loadSuccessQ', pl2, "ok")
      BY <1>5, <2>0, <2>1, RepliesPop
    <3>2. RepliesAt(loadFailureQ, pl2, "failed") /\ RepliesAt(storeSuccessQ, pl2, "stored")
      BY <2>0, <3>1, RepliesMove
    <3> QED  BY <2>1, <3>1, <3>2 DEF RepliesPlaced
  <2>2. CASE /\ loadFailureQ # <<>> /\ reply = loadFailureQ /\ loadFailureQ' = Tail(loadFailureQ)
             /\ UNCHANGED <<loadSuccessQ, storeSuccessQ>>
    <3>1. pl[x] = "failed" /\ RepliesAt(loadFailureQ', pl2, "failed")
      BY <1>5, <2>0, <2>2, RepliesPop
    <3>2. RepliesAt(loadSuccessQ, pl2, "ok") /\ RepliesAt(storeSuccessQ, pl2, "stored")
      BY <2>0, <3>1, RepliesMove
    <3> QED  BY <2>2, <3>1, <3>2 DEF RepliesPlaced
  <2>3. CASE /\ storeSuccessQ # <<>> /\ reply = storeSuccessQ /\ storeSuccessQ' = Tail(storeSuccessQ)
             /\ UNCHANGED <<loadSuccessQ, loadFailureQ>>
    <3>1. pl[x] = "stored" /\ RepliesAt(storeSuccessQ', pl2, "stored")
      BY <1>5, <2>0, <2>3, RepliesPop
    <3>2. RepliesAt(loadSuccessQ, pl2, "ok") /\ RepliesAt(loadFailureQ, pl2, "failed")
      BY <2>0, <3>1, RepliesMove
    <3> QED  BY <2>3, <3>1, <3>2 DEF RepliesPlaced
  <2> QED  BY <1>2, <1>4, <2>1, <2>2, <2>3, ReplyEffect
<1>7. RobPlaced(pl2)'
  <2>1. RobAt(Live, resultValid, data, lsu_iq, pl)
    BY <1>1 DEF Placed, RobPlaced
  <2>2. RobAt(Live, resultValid \cup {x}, data, lsu_iq, pl2)
    BY <1>6, <2>1, RobAnswered
  <2> QED  BY <1>2, <1>3, <1>5, <2>2 DEF RobPlaced
<1>8. LoadsPlaced(pl2)' /\ StoresPlaced(pl2)' /\ ReadsPlaced(pl2)' /\ pl2 \in [RobIndex -> Places]
  BY <1>1, <1>2, <1>6, RingsStay, ReadsStay, MovedFacts DEF Placed, Places
<1> QED  BY <1>6, <1>7, <1>8 DEF PlaceInv, Placed


(* The result of something that is not a memory operation.                 *)
LEMMA PlaceOther ==
  ASSUME PlaceInv, NEW x \in Live, ~isDmem(data[x].op), resultValid' = resultValid \cup {x},
         UNCHANGED <<data, firstP, nextP, empty, full, ringVars, replyVars, readVars, lsu_iq>>
  PROVE  PlaceInv'
<1>1. PICK pl \in [RobIndex -> Places] : Placed(pl)
  BY DEF PlaceInv
<1>2. Live' = Live
  BY SameRob
<1>3. RobPlaced(pl)'
  <2>1. RobAt(Live, resultValid, data, lsu_iq, pl)
    BY <1>1 DEF Placed, RobPlaced
  <2>2. RobAt(Live, resultValid \cup {x}, data, lsu_iq, pl)
    BY <2>1, RobOther
  <2> QED  BY <1>2, <2>2 DEF RobPlaced
<1>4. LoadsPlaced(pl)' /\ StoresPlaced(pl)' /\ ReadsPlaced(pl)' /\ RepliesPlaced(pl)'
  BY <1>1 DEF Placed, LoadsPlaced, StoresPlaced, ReadsPlaced, RepliesPlaced, ringVars, replyVars, readVars
<1> QED  BY <1>3, <1>4 DEF PlaceInv, Placed

(* What retires has its result: nothing is left of it in any place.        *)
LEMMA PlaceRetire ==
  ASSUME LsuTypeInv, RingInv, PlaceInv, Retirement
  PROVE  PlaceInv'
<1>0. RingT /\ RingOK
  BY DEF LsuTypeInv, RobT
<1>1. PICK pl \in [RobIndex -> Places] : Placed(pl)
  BY DEF PlaceInv
<1>2. PICK x \in RobIndex : x = firstP
  BY <1>0 DEF RingOK
<1>3. /\ deq /\ x \in resultValid
      /\ UNCHANGED <<lsu_iq, replyVars, pendingDmemLoadsQ, pendingMmioLoadsQ>>
  BY <1>2, RetireEffect DEF first_done, retireVars, readVars
<1>4. Live' = Live \ {x} /\ data' = data /\ resultValid' = resultValid \ {x}
  BY <1>0, <1>2, <1>3, PosDeq DEF deq
<1>5. /\ RobAt(Live, resultValid, data, lsu_iq, pl)
      /\ LoadAt(loadQ.valid, loadQ.addrValid, loadQ.executed, loadQ.entries, pl)
      /\ StoreAt(storeQ.valid, storeQ.ready, storeQ.toIssue, storeQ.entries, pl)
      /\ ReadsAt(pendingDmemLoadsQ, loadQ.valid, loadQ.entries, pl, "dmem")
      /\ ReadsAt(pendingMmioLoadsQ, loadQ.valid, loadQ.entries, pl, "mmio")
      /\ RepliesPlaced(pl)
  BY <1>1 DEF Placed, RobPlaced, LoadsPlaced, StoresPlaced, ReadsPlaced
<1>6. pl[x] = "none"
  BY <1>3, <1>5 DEF RobAt
<1>7. RobPlaced(pl)' /\ RepliesPlaced(pl)'
  <2>1. RobAt(Live \ {x}, resultValid \ {x}, data, lsu_iq, pl)
    BY <1>3, <1>5, RobRetire
  <2>2. RepliesPlaced(pl)'
    BY <1>3, <1>5 DEF RepliesPlaced, replyVars
  <2> QED  BY <1>3, <1>4, <2>1, <2>2 DEF RobPlaced
<1>8. LoadsPlaced(pl)' /\ StoresPlaced(pl)' /\ ReadsPlaced(pl)'
  <2>1. CASE commitLoad /\ loadQ.entries[loadQ.head].index = x
    <3>1. PICK h \in LqIndex : h = loadQ.head
      BY <1>0, LoadFields DEF RingT
    <3>2. /\ loadQ'.valid = loadQ.valid \ {h} /\ loadQ'.executed = loadQ.executed \ {h}
          /\ loadQ'.addrValid = loadQ.addrValid /\ loadQ'.entries = loadQ.entries /\ storeQ' = storeQ
      BY <1>0, <2>1, <3>1, CommitLoad
    <3>3. LoadAt(loadQ.valid \ {h}, loadQ.addrValid, loadQ.executed \ {h}, loadQ.entries, pl)
      BY <1>5, LoadPop
    <3>4. \A s \in loadQ.valid : pl[loadQ.entries[s].index] # "none" => s \in loadQ.valid \ {h}
      BY <1>6, <2>1, <3>1
    <3>5. /\ ReadsAt(pendingDmemLoadsQ, loadQ.valid \ {h}, loadQ.entries, pl, "dmem")
          /\ ReadsAt(pendingMmioLoadsQ, loadQ.valid \ {h}, loadQ.entries, pl, "mmio")
      BY <1>5, <3>4, ReadsRing
    <3> QED  BY <1>3, <1>5, <3>2, <3>3, <3>5 DEF LoadsPlaced, StoresPlaced, ReadsPlaced
  <2>2. CASE loadQ' = loadQ /\ \E must \in BOOLEAN : commitStore(must)
    <3>1. PICK h \in SqIndex : h = storeQ.head
      BY <1>0, StoreFields DEF RingT
    <3>2. /\ storeQ'.valid = storeQ.valid \ {h} /\ storeQ'.ready = storeQ.ready
          /\ storeQ'.toIssue = storeQ.toIssue /\ storeQ'.entries = storeQ.entries
      BY <1>0, <2>2, <3>1, CommitStore
    <3>3. StoreAt(storeQ.valid \ {h}, storeQ.ready, storeQ.toIssue, storeQ.entries, pl)
      BY <1>5, StorePop
    <3> QED  BY <1>3, <1>5, <2>2, <3>2, <3>3 DEF LoadsPlaced, StoresPlaced, ReadsPlaced
  <2>3. CASE UNCHANGED ringVars
    BY <1>3, <1>5, <2>3 DEF LoadsPlaced, StoresPlaced, ReadsPlaced, ringVars
  <2> QED  BY <1>2, <2>1, <2>2, <2>3, RingRetire
<1> QED  BY <1>7, <1>8 DEF PlaceInv, Placed

LEMMA PlaceIssueLoad ==
  ASSUME LsuTypeInv, RingInv, PlaceInv, issueLoad, UNCHANGED <<robVars, coreVars>>
  PROVE  PlaceInv'
<1>1. PICK pl \in [RobIndex -> Places] : Placed(pl)
  BY DEF PlaceInv
<1>2. PICK s \in LqIndex :
        /\ canRead(s) /\ loadQ'.executed = loadQ.executed \cup {s}
        /\ loadQ'.valid = loadQ.valid /\ loadQ'.addrValid = loadQ.addrValid
        /\ loadQ'.entries = loadQ.entries /\ UNCHANGED <<storeQ, replyVars>>
        /\ \/ /\ pendingMmioLoadsQ' = Append(pendingMmioLoadsQ, s)
              /\ pendingDmemLoadsQ' = pendingDmemLoadsQ
           \/ /\ pendingDmemLoadsQ' = Append(pendingDmemLoadsQ, s)
              /\ pendingMmioLoadsQ' = pendingMmioLoadsQ
  BY IssueLoadEffect
<1>3. s \in loadQ.valid /\ s \in loadQ.addrValid \ loadQ.executed
  BY <1>2 DEF canRead, isFirstFrom
<1>4. /\ RobAt(Live, resultValid, data, lsu_iq, pl)
      /\ LoadAt(loadQ.valid, loadQ.addrValid, loadQ.executed, loadQ.entries, pl)
      /\ StoreAt(storeQ.valid, storeQ.ready, storeQ.toIssue, storeQ.entries, pl)
      /\ ReadsAt(pendingDmemLoadsQ, loadQ.valid, loadQ.entries, pl, "dmem")
      /\ ReadsAt(pendingMmioLoadsQ, loadQ.valid, loadQ.entries, pl, "mmio")
      /\ RepliesPlaced(pl)
  BY <1>1 DEF Placed, RobPlaced, LoadsPlaced, StoresPlaced, ReadsPlaced
<1>5. PICK x \in RobIndex : x = loadQ.entries[s].index
  BY <1>3, RingOwn DEF Own
<1>6. pl[x] = "addr"
  BY <1>3, <1>4, <1>5 DEF LoadAt
<1>7. /\ Own(loadQ.valid, loadQ.entries) /\ Own(storeQ.valid, storeQ.entries)
      /\ data[x].op.kind = "load" /\ \A u \in storeQ.valid : storeQ.entries[u].index # x
  BY <1>3, <1>5, RingOwn
<1>8. ASSUME NEW y \in {"dmem", "mmio"}
      PROVE  /\ Moved(pl, x, y) \in [RobIndex -> Places]
             /\ RobPlaced(Moved(pl, x, y))' /\ LoadsPlaced(Moved(pl, x, y))'
             /\ StoresPlaced(Moved(pl, x, y))' /\ RepliesPlaced(Moved(pl, x, y))'
  <2>1. y \in Places /\ y \in LoadPlaces /\ y \notin StorePlaces
    BY DEF Places, LoadPlaces, StorePlaces
  <2>2. RobPlaced(Moved(pl, x, y))'
    <3>1. RobAt(Live, resultValid, data, lsu_iq, Moved(pl, x, y))
      BY <1>4, <1>6, <1>7, <2>1, RobMove
    <3>2. Live' = Live /\ UNCHANGED <<resultValid, data, lsu_iq>>
      BY SameRob DEF robVars, coreVars
    <3> QED  BY <3>1, <3>2 DEF RobPlaced
  <2>3. LoadsPlaced(Moved(pl, x, y))'
    <3>1. LoadAt(loadQ.valid, loadQ.addrValid, loadQ.executed \cup {s}, loadQ.entries, Moved(pl, x, y))
      BY <1>3, <1>4, <1>5, <1>6, <1>7, LoadIssued
    <3> QED  BY <1>2, <3>1 DEF LoadsPlaced
  <2>4. StoresPlaced(Moved(pl, x, y))'
    <3>1. StoreAt(storeQ.valid, storeQ.ready, storeQ.toIssue, storeQ.entries, Moved(pl, x, y))
      BY <1>4, <1>7, <2>1, StoreOther
    <3> QED  BY <1>2, <3>1 DEF StoresPlaced
  <2>5. RepliesPlaced(Moved(pl, x, y))' /\ Moved(pl, x, y) \in [RobIndex -> Places]
    BY <1>2, <1>4, <1>6, <2>1, RepliesStay, MovedFacts
  <2> QED  BY <2>2, <2>3, <2>4, <2>5
<1>9. /\ loadQ.entries \in [LqIndex -> LsuEntry] /\ "dmem" \in Places /\ "mmio" \in Places
      /\ pendingDmemLoadsQ \in Seq(LqIndex) /\ pendingMmioLoadsQ \in Seq(LqIndex)
  BY LoadFields DEF LsuTypeInv, RingT, ReadT, Places
<1>10. CASE /\ pendingMmioLoadsQ' = Append(pendingMmioLoadsQ, s)
            /\ pendingDmemLoadsQ' = pendingDmemLoadsQ
  <2>1. ReadsAt(Append(pendingMmioLoadsQ, s), loadQ.valid, loadQ.entries, Moved(pl, x, "mmio"), "mmio")
    BY <1>3, <1>4, <1>5, <1>6, <1>9, ReadsPush
  <2>2. ReadsAt(pendingDmemLoadsQ, loadQ.valid, loadQ.entries, Moved(pl, x, "mmio"), "dmem")
    BY <1>4, <1>6, <1>9, ReadsMove
  <2>3. ReadsPlaced(Moved(pl, x, "mmio"))'
    BY <1>2, <1>10, <2>1, <2>2 DEF ReadsPlaced
  <2> QED  BY <1>8, <2>3 DEF PlaceInv, Placed
<1>11. CASE /\ pendingDmemLoadsQ' = Append(pendingDmemLoadsQ, s)
            /\ pendingMmioLoadsQ' = pendingMmioLoadsQ
  <2>1. ReadsAt(Append(pendingDmemLoadsQ, s), loadQ.valid, loadQ.entries, Moved(pl, x, "dmem"), "dmem")
    BY <1>3, <1>4, <1>5, <1>6, <1>9, ReadsPush
  <2>2. ReadsAt(pendingMmioLoadsQ, loadQ.valid, loadQ.entries, Moved(pl, x, "dmem"), "mmio")
    BY <1>4, <1>6, <1>9, ReadsMove
  <2>3. ReadsPlaced(Moved(pl, x, "dmem"))'
    BY <1>2, <1>11, <2>1, <2>2 DEF ReadsPlaced
  <2> QED  BY <1>8, <2>3 DEF PlaceInv, Placed
<1> QED  BY <1>2, <1>10, <1>11

LEMMA PlaceIssueStore ==
  ASSUME LsuTypeInv, RingInv, PlaceInv, issueStore, UNCHANGED <<robVars, coreVars>>
  PROVE  PlaceInv'
<1>1. PICK pl \in [RobIndex -> Places] : Placed(pl)
  BY DEF PlaceInv
<1>2. PICK s \in SqIndex :
        /\ s \in storeQ.toIssue \cap storeQ.ready \cap storeQ.valid
        /\ storeQ'.toIssue = storeQ.toIssue \ {s}
        /\ storeQ'.valid = storeQ.valid /\ storeQ'.ready = storeQ.ready
        /\ storeQ'.entries = storeQ.entries
        /\ storeSuccessQ' = Append(storeSuccessQ,
             Answer(storeQ.entries[s], aligned(storeQ.addresses[s], storeQ.entries[s].size), zeroData))
        /\ UNCHANGED <<loadQ, loadSuccessQ, loadFailureQ, pendingDmemLoadsQ, pendingMmioLoadsQ>>
  BY IssueStoreEffect DEF readVars
<1>3. /\ RobAt(Live, resultValid, data, lsu_iq, pl)
      /\ LoadAt(loadQ.valid, loadQ.addrValid, loadQ.executed, loadQ.entries, pl)
      /\ StoreAt(storeQ.valid, storeQ.ready, storeQ.toIssue, storeQ.entries, pl)
      /\ ReadsPlaced(pl) /\ RepliesPlaced(pl)
  BY <1>1 DEF Placed, RobPlaced, LoadsPlaced, StoresPlaced
<1>4. PICK x \in RobIndex : x = storeQ.entries[s].index
  BY <1>2, RingOwn DEF Own
<1>5. pl[x] = "ready"
  BY <1>2, <1>3, <1>4 DEF StoreAt
<1>6. /\ Own(loadQ.valid, loadQ.entries) /\ Own(storeQ.valid, storeQ.entries)
      /\ data[x].op.kind = "store" /\ \A u \in loadQ.valid : loadQ.entries[u].index # x
  BY <1>2, <1>4, RingOwn
<1> DEFINE pl2 == Moved(pl, x, "stored")
<1>7. "stored" \in Places /\ "stored" \notin LoadPlaces /\ "stored" \in StorePlaces
  BY DEF Places, LoadPlaces, StorePlaces
<1>8. RobPlaced(pl2)'
  <2>1. RobAt(Live, resultValid, data, lsu_iq, pl2)
    BY <1>3, <1>5, <1>6, <1>7, RobMove
  <2>2. Live' = Live /\ UNCHANGED <<resultValid, data, lsu_iq>>
    BY SameRob DEF robVars, coreVars
  <2> QED  BY <2>1, <2>2 DEF RobPlaced
<1>9. StoresPlaced(pl2)'
  <2>1. StoreAt(storeQ.valid, storeQ.ready, storeQ.toIssue \ {s}, storeQ.entries, pl2)
    BY <1>2, <1>3, <1>4, <1>5, <1>6, StoreIssued
  <2> QED  BY <1>2, <2>1 DEF StoresPlaced
<1>10. LoadsPlaced(pl2)'
  <2>1. LoadAt(loadQ.valid, loadQ.addrValid, loadQ.executed, loadQ.entries, pl2)
    BY <1>3, <1>6, <1>7, LoadOther
  <2> QED  BY <1>2, <2>1 DEF LoadsPlaced
<1>11. ReadsPlaced(pl2)' /\ pl2 \in [RobIndex -> Places]
  BY <1>2, <1>3, <1>5, <1>7, ReadsStay, MovedFacts
<1>12. RepliesPlaced(pl2)'
  <2>1. /\ storeQ.entries[s] \in LsuEntry /\ zeroData \in Data /\ storeSuccessQ \in Seq(LsuReply)
        /\ aligned(storeQ.addresses[s], storeQ.entries[s].size) \in BOOLEAN
    BY StoreFields, DataTypes DEF LsuTypeInv, RingT, ReplyT, aligned
  <2>2. RepliesAt(storeSuccessQ', pl2, "stored")
    BY <1>2, <1>3, <1>4, <1>5, <1>7, <2>1, RepliesGain DEF RepliesPlaced
  <2>3. RepliesAt(loadSuccessQ, pl2, "ok") /\ RepliesAt(loadFailureQ, pl2, "failed")
    BY <1>3, <1>5, <1>7, RepliesMove DEF RepliesPlaced
  <2> QED  BY <1>2, <2>2, <2>3 DEF RepliesPlaced
<1> QED  BY <1>8, <1>9, <1>10, <1>11, <1>12 DEF PlaceInv, Placed

LEMMA PlaceResponse ==
  ASSUME LsuTypeInv, RingInv, PlaceInv, loadResponse, UNCHANGED <<robVars, coreVars>>
  PROVE  PlaceInv'
<1>1. PICK pl \in [RobIndex -> Places] : Placed(pl)
  BY DEF PlaceInv
<1>2. PICK s \in LqIndex, d \in Data : answered(s, d)
  BY ResponseEffect
<1>3. UNCHANGED <<loadQ, storeQ, loadFailureQ, storeSuccessQ>>
  BY ResponseEffect DEF ringVars
<1>4. /\ RobAt(Live, resultValid, data, lsu_iq, pl) /\ LoadsPlaced(pl) /\ StoresPlaced(pl)
      /\ ReadsAt(pendingDmemLoadsQ, loadQ.valid, loadQ.entries, pl, "dmem")
      /\ ReadsAt(pendingMmioLoadsQ, loadQ.valid, loadQ.entries, pl, "mmio")
      /\ RepliesPlaced(pl)
  BY <1>1 DEF Placed, RobPlaced, ReadsPlaced
<1>5. /\ loadQ.entries \in [LqIndex -> LsuEntry] /\ loadQ.addresses[s] \in Addr
      /\ pendingDmemLoadsQ \in Seq(LqIndex) /\ pendingMmioLoadsQ \in Seq(LqIndex)
      /\ loadSuccessQ \in Seq(LsuReply)
  BY LoadFields DEF LsuTypeInv, RingT, ReadT, ReplyT
<1>6. PICK x \in RobIndex : x = loadQ.entries[s].index
  BY <1>5 DEF LsuEntry
<1> DEFINE pl2 == Moved(pl, x, "ok")
<1>7. "ok" \in Places /\ "ok" \in LoadPlaces /\ "ok" \notin StorePlaces
  BY DEF Places, LoadPlaces, StorePlaces
<1>8. pl[x] \in {"dmem", "mmio"} /\ s \in loadQ.valid /\ ReadsPlaced(pl2)'
  <2>1. CASE /\ pendingDmemLoadsQ # <<>> /\ s = Head(pendingDmemLoadsQ)
             /\ pendingDmemLoadsQ' = Tail(pendingDmemLoadsQ) /\ UNCHANGED pendingMmioLoadsQ
    <3>1. /\ pl[x] = "dmem" /\ s \in loadQ.valid
          /\ ReadsAt(Tail(pendingDmemLoadsQ), loadQ.valid, loadQ.entries, pl2, "dmem")
      BY <1>4, <1>5, <1>6, <1>7, <2>1, ReadsPop
    <3>2. ReadsAt(pendingMmioLoadsQ, loadQ.valid, loadQ.entries, pl2, "mmio")
      BY <1>4, <1>7, <3>1, ReadsMove
    <3> QED  BY <1>3, <2>1, <3>1, <3>2 DEF ReadsPlaced
  <2>2. CASE /\ pendingMmioLoadsQ # <<>> /\ s = Head(pendingMmioLoadsQ)
             /\ pendingMmioLoadsQ' = Tail(pendingMmioLoadsQ) /\ UNCHANGED pendingDmemLoadsQ
    <3>1. /\ pl[x] = "mmio" /\ s \in loadQ.valid
          /\ ReadsAt(Tail(pendingMmioLoadsQ), loadQ.valid, loadQ.entries, pl2, "mmio")
      BY <1>4, <1>5, <1>6, <1>7, <2>2, ReadsPop
    <3>2. ReadsAt(pendingDmemLoadsQ, loadQ.valid, loadQ.entries, pl2, "dmem")
      BY <1>4, <1>7, <3>1, ReadsMove
    <3> QED  BY <1>3, <2>2, <3>1, <3>2 DEF ReadsPlaced
  <2> QED  BY <1>2, <2>1, <2>2 DEF answered
<1>9. RobPlaced(pl2)'
  <2>1. data[x].op.kind = "load"
    BY <1>6, <1>8, RingOwn
  <2>2. RobAt(Live, resultValid, data, lsu_iq, pl2)
    BY <1>4, <1>7, <1>8, <2>1, RobMove
  <2>3. Live' = Live /\ UNCHANGED <<resultValid, data, lsu_iq>>
    BY SameRob DEF robVars, coreVars
  <2> QED  BY <2>2, <2>3 DEF RobPlaced
<1>10. LoadsPlaced(pl2)' /\ StoresPlaced(pl2)' /\ pl2 \in [RobIndex -> Places]
  BY <1>3, <1>4, <1>7, <1>8, RingsStay, MovedFacts
<1>11. RepliesPlaced(pl2)'
  <2>1. finish(loadQ.addresses[s], loadQ.entries[s].size, d) \in Data /\ loadQ.entries[s] \in LsuEntry
    BY <1>5, ShiftTypes
  <2>2. RepliesAt(loadSuccessQ', pl2, "ok")
    BY <1>2, <1>4, <1>5, <1>6, <1>7, <1>8, <2>1, RepliesGain DEF RepliesPlaced, answered
  <2>3. RepliesAt(loadFailureQ, pl2, "failed") /\ RepliesAt(storeSuccessQ, pl2, "stored")
    BY <1>4, <1>7, <1>8, RepliesMove DEF RepliesPlaced
  <2> QED  BY <1>3, <2>2, <2>3 DEF RepliesPlaced
<1> QED  BY <1>8, <1>9, <1>10, <1>11 DEF PlaceInv, Placed


LEMMA PlaceStep == LsuTypeInv /\ RingInv /\ PlaceInv /\ [Next]_vars => PlaceInv'
<1> SUFFICES ASSUME LsuTypeInv, RingInv, PlaceInv, [Next]_vars PROVE PlaceInv'
  OBVIOUS
<1>1. CASE UNCHANGED <<robVars, lsu_iq, ringVars, replyVars, pendingDmemLoadsQ, pendingMmioLoadsQ>>
  <2>1. PICK pl \in [RobIndex -> Places] : Placed(pl)
    BY DEF PlaceInv
  <2>2. Live' = Live
    BY <1>1, SameRob DEF robVars
  <2>3. RobPlaced(pl)'
    BY <1>1, <2>1, <2>2 DEF Placed, RobPlaced, robVars
  <2>4. LoadsPlaced(pl)' /\ StoresPlaced(pl)' /\ ReadsPlaced(pl)' /\ RepliesPlaced(pl)'
    BY <1>1, <2>1 DEF Placed, LoadsPlaced, StoresPlaced, ReadsPlaced, RepliesPlaced, ringVars, replyVars
  <2> QED  BY <2>3, <2>4 DEF PlaceInv, Placed
<1>2. CASE write_back_branch
  <2>1. PICK i \in Live \ resultValid, b \in BOOLEAN :
          /\ data[i].op.kind = "branch" /\ writeBack(i, Result(TRUE, zeroData, b))
          /\ UNCHANGED <<lsuVars, coreVars>>
    BY <1>2 DEF write_back_branch
  <2>2. ~isDmem(data[i].op) /\ resultValid' = resultValid \cup {i}
    BY <2>1 DEF isDmem, writeBack
  <2>3. UNCHANGED <<data, firstP, nextP, empty, full, ringVars, replyVars, readVars, lsu_iq>>
    BY <2>1 DEF writeBack, lsuVars, coreVars
  <2> QED  BY <2>2, <2>3, PlaceOther
<1>3. CASE execute_direct
  <2>1. /\ data[firstP].op.kind \in {"fence", "cbo"} /\ ~empty /\ resultValid' = resultValid \cup {firstP}
        /\ UNCHANGED <<data, firstP, nextP, empty, full, ringVars, replyVars, readVars, lsu_iq>>
    BY <1>3 DEF execute_direct, writeBack, first, coreVars
  <2>2. ~isDmem(data[firstP].op)
    BY <2>1 DEF isDmem
  <2>3. firstP \in Live
    BY <2>1, RobSizeAssumption DEF LsuTypeInv, RobT, RingOK, Live, robPos, RobIndex
  <2> QED  BY <2>1, <2>2, <2>3, PlaceOther
<1>4. CASE Rules
  <2>1. UNCHANGED <<robVars, coreVars>> /\ lsuRules
    BY <1>4 DEF Rules
  <2>2. CASE issueLoad
    BY <2>1, <2>2, PlaceIssueLoad
  <2>3. CASE issueStore
    BY <2>1, <2>3, PlaceIssueStore
  <2>4. CASE loadResponse
    BY <2>1, <2>4, PlaceResponse
  <2>5. CASE readRequest \/ writeRequest \/ deqSTB \/ doDeqSTB
    <3>1. UNCHANGED <<ringVars, replyVars, pendingDmemLoadsQ, pendingMmioLoadsQ>>
      BY <2>5 DEF readRequest, writeRequest, deqSTB, doDeqSTB, readVars
    <3> QED  BY <1>1, <2>1, <3>1 DEF coreVars
  <2> QED  BY <2>1, <2>2, <2>3, <2>4, <2>5 DEF lsuRules
<1>5. CASE UNCHANGED vars
  BY <1>1, <1>5 DEF vars, lsuVars, coreVars, readVars
<1> QED  BY <1>2, <1>3, <1>4, <1>5, PlaceDispatch, PlaceConnect, PlaceWriteBack, PlaceRetire DEF Next

(* A place that lists its operations counts each of them once.             *)
LEMMA CountListed ==
  ASSUME NEW f, NEW n \in Nat, NEW pl, NEW p, Listed(f, n, pl, p), NEW i \in RobIndex
  PROVE  /\ pl[i] = p => Cardinality({k \in 1 .. n : f[k] = i}) = 1
         /\ pl[i] # p => Cardinality({k \in 1 .. n : f[k] = i}) = 0
<1>1. ASSUME pl[i] = p PROVE Cardinality({k \in 1 .. n : f[k] = i}) = 1
  <2>1. PICK k \in 1 .. n : f[k] = i
    BY <1>1 DEF Listed
  <2>2. {j \in 1 .. n : f[j] = i} = {k}
    BY <2>1 DEF Listed
  <2> QED  BY <2>2, FS_Singleton
<1>2. ASSUME pl[i] # p PROVE Cardinality({k \in 1 .. n : f[k] = i}) = 0
  <2>1. {k \in 1 .. n : f[k] = i} = {}
    BY <1>2 DEF Listed
  <2> QED  BY <2>1, FS_EmptySet
<1> QED  BY <1>1, <1>2

LEMMA CountReplies ==
  ASSUME NEW q \in Seq(LsuReply), NEW pl, NEW p, RepliesAt(q, pl, p), NEW i \in RobIndex
  PROVE  /\ pl[i] = p => Cardinality({k \in 1 .. Len(q) : q[k].index = i}) = 1
         /\ pl[i] # p => Cardinality({k \in 1 .. Len(q) : q[k].index = i}) = 0
<1>1. Len(q) \in Nat /\ Listed(indexes(q), Len(q), pl, p)
  BY DEF RepliesAt
<1>2. {k \in 1 .. Len(q) : q[k].index = i} = {k \in 1 .. Len(q) : indexes(q)[k] = i}
  BY DEF indexes
<1> QED  BY <1>1, <1>2, CountListed

LEMMA CountReads ==
  ASSUME NEW q \in Seq(LqIndex), NEW V, NEW E, NEW pl, NEW p, ReadsAt(q, V, E, pl, p), NEW i \in RobIndex
  PROVE  /\ pl[i] = p => Cardinality({k \in 1 .. Len(q) : E[q[k]].index = i}) = 1
         /\ pl[i] # p => Cardinality({k \in 1 .. Len(q) : E[q[k]].index = i}) = 0
<1>1. Len(q) \in Nat /\ Listed(reads(q, E), Len(q), pl, p)
  BY DEF ReadsAt
<1>2. {k \in 1 .. Len(q) : E[q[k]].index = i} = {k \in 1 .. Len(q) : reads(q, E)[k] = i}
  BY DEF reads
<1> QED  BY <1>1, <1>2, CountListed

LEMMA PlaceCovers ==
  ASSUME LsuTypeInv, RingInv, PlaceInv
  PROVE  AnsweredOnce
<1>1. PICK pl \in [RobIndex -> Places] : Placed(pl)
  BY DEF PlaceInv
<1>2. /\ RobAt(Live, resultValid, data, lsu_iq, pl)
      /\ LoadAt(loadQ.valid, loadQ.addrValid, loadQ.executed, loadQ.entries, pl)
      /\ StoreAt(storeQ.valid, storeQ.ready, storeQ.toIssue, storeQ.entries, pl)
      /\ ReadsPlaced(pl) /\ RepliesPlaced(pl)
  BY <1>1 DEF Placed, RobPlaced, LoadsPlaced, StoresPlaced
<1>3. /\ pendingDmemLoadsQ \in Seq(LqIndex) /\ pendingMmioLoadsQ \in Seq(LqIndex)
      /\ loadSuccessQ \in Seq(LsuReply) /\ loadFailureQ \in Seq(LsuReply)
      /\ storeSuccessQ \in Seq(LsuReply)
  BY DEF LsuTypeInv, ReadT, ReplyT
<1> SUFFICES ASSUME NEW i \in RobIndex
             PROVE  answers(i) = IF i \in Live \ resultValid /\ isDmem(data[i].op) THEN 1 ELSE 0
  BY DEF AnsweredOnce
<1> DEFINE a1 == IF i \in lsu_iq THEN 1 ELSE 0
           a2 == Cardinality({l \in (loadQ.valid \cap loadQ.addrValid) \ loadQ.executed :
                                loadQ.entries[l].index = i})
           a3 == Cardinality({s \in storeQ.valid \cap storeQ.ready \cap storeQ.toIssue :
                                storeQ.entries[s].index = i})
           a4 == Cardinality({k \in 1 .. Len(pendingDmemLoadsQ) :
                                loadQ.entries[pendingDmemLoadsQ[k]].index = i})
           a5 == Cardinality({k \in 1 .. Len(pendingMmioLoadsQ) :
                                loadQ.entries[pendingMmioLoadsQ[k]].index = i})
           a6 == Cardinality({k \in 1 .. Len(loadSuccessQ) : loadSuccessQ[k].index = i})
           a7 == Cardinality({k \in 1 .. Len(loadFailureQ) : loadFailureQ[k].index = i})
           a8 == Cardinality({k \in 1 .. Len(storeSuccessQ) : storeSuccessQ[k].index = i})
<1>4. answers(i) = a1 + a2 + a3 + a4 + a5 + a6 + a7 + a8
  BY DEF answers, occurrences
<1>5. (pl[i] = "iq" => a1 = 1) /\ (pl[i] # "iq" => a1 = 0)
  BY <1>2 DEF RobAt
<1>6. (pl[i] = "addr" => a2 = 1) /\ (pl[i] # "addr" => a2 = 0)
  <2>1. ASSUME pl[i] = "addr" PROVE a2 = 1
    <3>1. i \in Live /\ data[i].op.kind = "load"
      BY <1>2, <2>1 DEF RobAt, LoadPlaces
    <3>2. data[i].slot \in loadQ.valid /\ loadQ.entries[data[i].slot].index = i
      BY <3>1, RingOwn
    <3>3. \A l \in loadQ.valid : loadQ.entries[l].index = i => l = data[i].slot
      BY <3>2, RingOwn DEF Own
    <3>4. data[i].slot \in loadQ.addrValid \ loadQ.executed
      BY <1>2, <2>1, <3>2 DEF LoadAt
    <3>5. {l \in (loadQ.valid \cap loadQ.addrValid) \ loadQ.executed : loadQ.entries[l].index = i}
            = {data[i].slot}
      BY <3>2, <3>3, <3>4
    <3> QED  BY <3>5, FS_Singleton
  <2>2. ASSUME pl[i] # "addr" PROVE a2 = 0
    <3>1. {l \in (loadQ.valid \cap loadQ.addrValid) \ loadQ.executed : loadQ.entries[l].index = i} = {}
      BY <1>2, <2>2 DEF LoadAt
    <3> QED  BY <3>1, FS_EmptySet
  <2> QED  BY <2>1, <2>2
<1>7. (pl[i] = "ready" => a3 = 1) /\ (pl[i] # "ready" => a3 = 0)
  <2>1. ASSUME pl[i] = "ready" PROVE a3 = 1
    <3>1. i \in Live /\ data[i].op.kind = "store"
      BY <1>2, <2>1 DEF RobAt, StorePlaces
    <3>2. data[i].slot \in storeQ.valid /\ storeQ.entries[data[i].slot].index = i
      BY <3>1, RingOwn
    <3>3. \A s \in storeQ.valid : storeQ.entries[s].index = i => s = data[i].slot
      BY <3>2, RingOwn DEF Own
    <3>4. data[i].slot \in storeQ.ready \cap storeQ.toIssue
      BY <1>2, <2>1, <3>2 DEF StoreAt
    <3>5. {s \in storeQ.valid \cap storeQ.ready \cap storeQ.toIssue : storeQ.entries[s].index = i}
            = {data[i].slot}
      BY <3>2, <3>3, <3>4
    <3> QED  BY <3>5, FS_Singleton
  <2>2. ASSUME pl[i] # "ready" PROVE a3 = 0
    <3>1. {s \in storeQ.valid \cap storeQ.ready \cap storeQ.toIssue : storeQ.entries[s].index = i} = {}
      BY <1>2, <2>2 DEF StoreAt
    <3> QED  BY <3>1, FS_EmptySet
  <2> QED  BY <2>1, <2>2
<1>8. (pl[i] = "dmem" => a4 = 1) /\ (pl[i] # "dmem" => a4 = 0)
  <2>1. ReadsAt(pendingDmemLoadsQ, loadQ.valid, loadQ.entries, pl, "dmem")
    BY <1>2 DEF ReadsPlaced
  <2>2. pendingDmemLoadsQ \in Seq(LqIndex)
    BY <1>3
  <2> QED  BY <2>1, <2>2, CountReads
<1>9. (pl[i] = "mmio" => a5 = 1) /\ (pl[i] # "mmio" => a5 = 0)
  <2>1. ReadsAt(pendingMmioLoadsQ, loadQ.valid, loadQ.entries, pl, "mmio")
    BY <1>2 DEF ReadsPlaced
  <2>2. pendingMmioLoadsQ \in Seq(LqIndex)
    BY <1>3
  <2> QED  BY <2>1, <2>2, CountReads
<1>10. (pl[i] = "ok" => a6 = 1) /\ (pl[i] # "ok" => a6 = 0)
  BY <1>2, <1>3, CountReplies DEF RepliesPlaced
<1>11. (pl[i] = "failed" => a7 = 1) /\ (pl[i] # "failed" => a7 = 0)
  BY <1>2, <1>3, CountReplies DEF RepliesPlaced
<1>12. (pl[i] = "stored" => a8 = 1) /\ (pl[i] # "stored" => a8 = 0)
  BY <1>2, <1>3, CountReplies DEF RepliesPlaced
<1>13. pl[i] # "none" <=> i \in Live \ resultValid /\ isDmem(data[i].op)
  BY <1>2 DEF RobAt
<1> HIDE DEF a1, a2, a3, a4, a5, a6, a7, a8
<1>14. a1 + a2 + a3 + a4 + a5 + a6 + a7 + a8 = IF pl[i] # "none" THEN 1 ELSE 0
  <2>1. pl[i] \in Places
    OBVIOUS
  <2> QED  BY <1>5, <1>6, <1>7, <1>8, <1>9, <1>10, <1>11, <1>12, <2>1 DEF Places
<1> QED  BY <1>4, <1>13, <1>14

(* No answer of the cache, of a device or of the load-store unit itself is *)
(* lost, doubled or given to an operation that took over a freed slot.     *)
THEOREM AnsweredCorrect == Spec => []AnsweredOnce
<1>1. Init => LsuTypeInv /\ RingInv /\ PlaceInv
  BY TypesInit, RingInit, PlaceInit
<1>2. LsuTypeInv /\ RingInv /\ PlaceInv /\ [Next]_vars => (LsuTypeInv /\ RingInv /\ PlaceInv)'
  BY TypesStep, RingStep, PlaceStep
<1>3. LsuTypeInv /\ RingInv /\ PlaceInv => AnsweredOnce
  BY PlaceCovers
<1> QED  BY <1>1, <1>2, <1>3, PTL DEF Spec
=============================================================================
