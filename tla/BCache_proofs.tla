---------------------------- MODULE BCache_proofs ----------------------------
(***************************************************************************)
(* The blocking cache: LinesConsistent, InvalidatedIsGone and the          *)
(* refinement ImplementsCachedMemory.                                      *)
(*                                                                         *)
(* The tag of a way is overwritten at matching, long before the victim has *)
(* left and the block has come.  The invariant therefore follows the block *)
(* on its way: what has gone to memory and what has come from it           *)
(* (MovedInv), that nobody else holds the block that leaves (LeavingInv),  *)
(* and that the line being filled is the one of the request (FillingInv).  *)
(***************************************************************************)
EXTENDS BCache, SequenceTheorems, TLAPS

Request ==
  [op : {"Read", "Invalidate"}, a : Address, way : Way]
    \cup [op : {"Write"}, a : Address, way : Way, data : Data, mask : SUBSET Byte]

TypeInv ==
  /\ tagRam \in [Index -> [Way -> Tag]]
  /\ validRam \in [Index -> [Way -> BOOLEAN]] /\ dirtyRam \in [Index -> [Way -> BOOLEAN]]
  /\ dataRam \in [Way \X Index \X Offset -> Data] /\ mem \in [Address -> Data]
  /\ state \in {"Idle", "Matching", "AcqRel", "Acquire", "Release"}
  /\ (state = "Idle" => req = NoReq) /\ (state # "Idle" => req \in Request)
  /\ acquire \in 0 .. Words
  /\ release \in [tag : 0 .. NumTag, left : 0 .. Words, acked : BOOLEAN]
  /\ out \in Seq({"cpu", "release"} \X Data) /\ Len(out) <= 1
  /\ rresp \in Seq(Data) /\ Len(rresp) <= Depth
  /\ invQ \in Seq(Address) /\ Len(invQ) <= Depth
  /\ wresp \in 0 .. Depth /\ invAck \in 0 .. Depth

leaving == state \in {"AcqRel", "Release"}
coming  == state \in {"Acquire", "AcqRel"}

(* Which transfers each state of the cache allows.                         *)
ControlInv ==
  /\ acquire > 0 => state = "Acquire"
  /\ leaving => release.tag \in Tag
  /\ ~leaving => release = Released
  /\ release.acked => release.left = 0
  /\ state = "Release" => req.op = "Invalidate" /\ release.tag = tag
  /\ coming => req.op \in {"Read", "Write"}

(* The word in the response register is the next to leave.                 *)
OutInv ==
  out # <<>> /\ out[1][1] = "release" =>
    /\ leaving /\ release.left > 0
    /\ out[1][2] = dataRam[<<way, index, Words - release.left>>]

(* The line being filled has the tag of the request.                       *)
FillingInv ==
  coming => /\ validRam[index][way] /\ tagRam[index][way] = tag
            /\ dirtyRam[index][way] = (req.op = "Write")

(* No way holds the block that is leaving.                                 *)
LeavingInv ==
  leaving => \A w \in Way : validRam[index][w] => tagRam[index][w] # release.tag

(* The words that have been moved are the same on both sides.              *)
MovedInv ==
  /\ leaving => \A o \in 0 .. Words - release.left - 1 :
                  mem[<<release.tag, index, o>>] = dataRam[<<way, index, o>>]
  /\ state = "Acquire" => \A o \in 0 .. Words - acquire - 1 :
                            dataRam[<<way, index, o>>] = mem[<<tag, index, o>>]

CacheInv ==
  /\ TypeInv /\ ControlInv /\ OutInv /\ FillingInv /\ LeavingInv /\ MovedInv
  /\ OneWayPerBlock /\ CleanIsInMemory


-----------------------------------------------------------------------------
(* The request being served.                                               *)

LEMMA RequestParts ==
  ASSUME NEW r \in Request
  PROVE  /\ r.a \in Address /\ r.way \in Way /\ r.op \in {"Read", "Write", "Invalidate"}
         /\ r.a[1] \in Tag /\ r.a[2] \in Index /\ r.a[3] \in Offset
         /\ r.a = <<r.a[1], r.a[2], r.a[3]>>
         /\ r.op = "Write" => r.data \in Data /\ r.mask \subseteq Byte
BY DEF Request, Address

LEMMA RequestWay ==
  ASSUME NEW r \in Request, NEW w \in Way
  PROVE  LET q == [r EXCEPT !.way = w]
         IN  /\ q \in Request /\ q.a = r.a /\ q.op = r.op /\ q.way = w
             /\ r.op = "Write" => q.data = r.data /\ q.mask = r.mask
BY DEF Request

LEMMA Serving ==
  ASSUME TypeInv, state # "Idle"
  PROVE  /\ req \in Request /\ tag \in Tag /\ index \in Index /\ offset \in Offset /\ way \in Way
         /\ req.a = <<tag, index, offset>> /\ req.a \in Address
         /\ \A w \in Way : line(w) = <<w, index, offset>> /\ line(w) \in Way \X Index \X Offset
         /\ req.op \in {"Read", "Write", "Invalidate"}
         /\ req.op = "Write" => req.data \in Data /\ req.mask \subseteq Byte
<1>1. req \in Request
  BY DEF TypeInv
<1>2. /\ req.a \in Address /\ req.way \in Way /\ req.op \in {"Read", "Write", "Invalidate"}
      /\ req.a[1] \in Tag /\ req.a[2] \in Index /\ req.a[3] \in Offset
      /\ req.a = <<req.a[1], req.a[2], req.a[3]>>
      /\ req.op = "Write" => req.data \in Data /\ req.mask \subseteq Byte
  BY <1>1, RequestParts
<1> QED  BY <1>1, <1>2 DEF tag, index, offset, way, line

LEMMA MergedType ==
  ASSUME NEW old \in Data, NEW new \in Data, NEW mask
  PROVE  merged(old, new, mask) \in Data
BY DEF merged, Data

-----------------------------------------------------------------------------
(* Types.                                                                  *)

LEMMA TypeInit == Init => TypeInv
<1> SUFFICES ASSUME Init PROVE TypeInv
  OBVIOUS
<1>1. [b \in Byte |-> CHOOSE v \in Value : TRUE] \in Data
  BY BCacheAssumption DEF Data
<1>2. Released \in [tag : 0 .. NumTag, left : 0 .. Words, acked : BOOLEAN]
  BY BCacheAssumption DEF Released, NoTag
<1>3. Words \in Nat /\ Depth \in Nat
  BY BCacheAssumption
<1>4. dataRam \in [Way \X Index \X Offset -> Data] /\ mem \in [Address -> Data]
  BY <1>1 DEF Init
<1>5. /\ validRam \in [Index -> [Way -> BOOLEAN]] /\ dirtyRam \in [Index -> [Way -> BOOLEAN]]
      /\ tagRam \in [Index -> [Way -> Tag]]
  BY DEF Init
<1>6. /\ out \in Seq({"cpu", "release"} \X Data) /\ Len(out) <= 1
      /\ rresp \in Seq(Data) /\ Len(rresp) <= Depth
      /\ invQ \in Seq(Address) /\ Len(invQ) <= Depth
  BY <1>3 DEF Init
<1> QED  BY <1>2, <1>3, <1>4, <1>5, <1>6 DEF Init, TypeInv

LEMMA TypeStart ==
  ASSUME TypeInv, startRead \/ startWrite \/ invalidateRl
  PROVE  TypeInv'
<1>1. AnyWay \in Way
  BY BCacheAssumption DEF AnyWay
<1>2. Accessed \subseteq Address
  BY BCacheAssumption DEF Address, Tag, Offset
<1>3. CASE startRead
  <2>1. req' \in Request /\ state' = "Matching"
    BY <1>1, <1>2, <1>3 DEF startRead, start, Request
  <2> QED  BY <1>3, <2>1 DEF startRead, start, TypeInv, meta, buffers
<1>4. CASE startWrite
  <2>1. req' \in Request /\ state' = "Matching"
    BY <1>1, <1>2, <1>4 DEF startWrite, start, Request
  <2> QED  BY <1>4, <2>1 DEF startWrite, start, TypeInv, meta, buffers
<1>5. CASE invalidateRl
  <2>1. Head(invQ) \in Address /\ Tail(invQ) \in Seq(Address) /\ Len(Tail(invQ)) <= Depth
    <3>1. invQ # <<>> /\ invQ \in Seq(Address) /\ Len(invQ) <= Depth /\ Depth \in Nat
      BY <1>5, BCacheAssumption DEF invalidateRl, TypeInv
    <3>2. Len(Tail(invQ)) = Len(invQ) - 1 /\ Len(invQ) \in Nat
      BY <3>1
    <3> QED  BY <3>1, <3>2
  <2>2. req' \in Request /\ state' = "Matching"
    BY <1>1, <1>5, <2>1 DEF invalidateRl, Request
  <2> QED  BY <1>5, <2>1, <2>2 DEF invalidateRl, TypeInv, meta
<1> QED  BY <1>3, <1>4, <1>5

LEMMA TypeInvalidate ==
  ASSUME TypeInv, NEW t \in Tag, NEW i \in Index, invalidate(<<t, i, 0>>)
  PROVE  TypeInv'
<1>1. <<t, i, 0>> \in Address
  BY BCacheAssumption DEF Address, Offset
<1>2. invQ' = Append(invQ, <<t, i, 0>>) /\ Len(invQ) < Depth /\ Depth \in Nat
  BY BCacheAssumption DEF invalidate
<1>3. invQ' \in Seq(Address) /\ Len(invQ') <= Depth
  BY <1>1, <1>2 DEF TypeInv
<1> QED  BY <1>3 DEF invalidate, TypeInv, meta

LEMMA TypeMatched ==
  ASSUME TypeInv, matched
  PROVE  /\ wresp' \in 0 .. Depth /\ invAck' \in 0 .. Depth
         /\ rresp' = rresp /\ invQ' = invQ /\ mem' = mem /\ state = "Matching"
BY BCacheAssumption DEF TypeInv, matched, roomFor

LEMMA TypeDoMiss ==
  ASSUME TypeInv, state # "Idle", NEW w \in Way, doMiss(w)
  PROVE  /\ tagRam' \in [Index -> [Way -> Tag]] /\ dirtyRam' \in [Index -> [Way -> BOOLEAN]]
         /\ validRam' \in [Index -> [Way -> BOOLEAN]] /\ req' \in Request
         /\ dataRam' = dataRam
<1>1. index \in Index /\ tag \in Tag /\ req \in Request
  BY Serving
<1>2. req' \in Request
  BY <1>1, RequestWay DEF doMiss
<1> QED  BY <1>1, <1>2 DEF TypeInv, doMiss, validAfter

LEMMA TypeMatching ==
  ASSUME TypeInv, matching
  PROVE  TypeInv'
<1> USE DEF done, meta
<1>0. matched
  BY DEF matching, hitRead, hitWrite, hitInvalidate, missInvalidate, miss
<1>1. /\ wresp' \in 0 .. Depth /\ invAck' \in 0 .. Depth
      /\ rresp' = rresp /\ invQ' = invQ /\ mem' = mem /\ state = "Matching"
  BY <1>0, TypeMatched
<1>2. /\ req \in Request /\ index \in Index
      /\ \A w \in Way : line(w) \in Way \X Index \X Offset
      /\ req.op = "Write" => req.data \in Data /\ req.mask \subseteq Byte
  BY <1>1, Serving
<1>3. CASE hitRead
  <2>1. PICK w \in Way : /\ out' = << <<"cpu", dataRam[line(w)]>> >> /\ state' = "Idle" /\ req' = NoReq
                         /\ UNCHANGED <<meta, dataRam, acquire, release>>
    BY <1>3 DEF hitRead, hitWays
  <2>2. out' \in Seq({"cpu", "release"} \X Data) /\ Len(out') <= 1
    BY <1>2, <2>1 DEF TypeInv
  <2> QED  BY <1>1, <2>1, <2>2 DEF TypeInv
<1>4. CASE hitWrite
  <2>1. PICK w \in Way : /\ dirtyRam' = [dirtyRam EXCEPT ![index][w] = TRUE]
                         /\ dataRam' = [dataRam EXCEPT ![line(w)] = merged(@, req.data, req.mask)]
                         /\ state' = "Idle" /\ req' = NoReq
                         /\ UNCHANGED <<tagRam, validRam, out, acquire, release>>
    BY <1>4 DEF hitWrite, hitWays, dirtyAfterWrite
  <2>2. merged(dataRam[line(w)], req.data, req.mask) \in Data
    BY <1>2, <1>4, MergedType DEF TypeInv, hitWrite
  <2>3. dataRam' \in [Way \X Index \X Offset -> Data] /\ dirtyRam' \in [Index -> [Way -> BOOLEAN]]
    BY <1>2, <2>1, <2>2 DEF TypeInv
  <2> QED  BY <1>1, <2>1, <2>3 DEF TypeInv
<1>5. CASE hitInvalidate
  <2>1. PICK w \in hitWays :
          \/ doMiss(w) /\ releaseBlock(w) /\ state' = "Release" /\ UNCHANGED <<out, acquire>>
          \/ /\ validRam' = [validRam EXCEPT ![index][w] = FALSE] /\ state' = "Idle" /\ req' = NoReq
             /\ UNCHANGED <<tagRam, dirtyRam, dataRam, release, out, acquire>>
    BY <1>5 DEF hitInvalidate
  <2>2. w \in Way
    BY DEF hitWays
  <2>3. CASE doMiss(w) /\ releaseBlock(w) /\ state' = "Release" /\ UNCHANGED <<out, acquire>>
    <3>1. release' \in [tag : 0 .. NumTag, left : 0 .. Words, acked : BOOLEAN]
      BY <1>2, <2>2, <2>3, BCacheAssumption DEF releaseBlock, TypeInv, Tag
    <3> QED  BY <1>1, <2>2, <2>3, <3>1, TypeDoMiss DEF TypeInv
  <2>4. CASE /\ validRam' = [validRam EXCEPT ![index][w] = FALSE] /\ state' = "Idle" /\ req' = NoReq
             /\ UNCHANGED <<tagRam, dirtyRam, dataRam, release, out, acquire>>
    BY <1>1, <1>2, <2>2, <2>4 DEF TypeInv
  <2> QED  BY <2>1, <2>3, <2>4
<1>6. CASE missInvalidate
  BY <1>1, <1>6 DEF TypeInv, missInvalidate
<1>7. CASE miss
  <2>1. PICK w \in Way :
          /\ doMiss(w) /\ out' = out
          /\ \/ releaseBlock(w) /\ state' = "AcqRel" /\ UNCHANGED acquire
             \/ acquire' = Words /\ state' = "Acquire" /\ UNCHANGED release
    BY <1>7 DEF miss
  <2>2. CASE releaseBlock(w) /\ state' = "AcqRel" /\ UNCHANGED acquire
    <3>1. release' \in [tag : 0 .. NumTag, left : 0 .. Words, acked : BOOLEAN]
      BY <1>2, <2>2, BCacheAssumption DEF releaseBlock, TypeInv, Tag
    <3> QED  BY <1>1, <2>1, <2>2, <3>1, TypeDoMiss DEF TypeInv
  <2>3. CASE acquire' = Words /\ state' = "Acquire" /\ UNCHANGED release
    BY <1>1, <2>1, <2>3, TypeDoMiss, BCacheAssumption DEF TypeInv
  <2> QED  BY <2>1, <2>2, <2>3
<1> QED  BY <1>3, <1>4, <1>5, <1>6, <1>7 DEF matching

LEMMA TypeTransfer ==
  ASSUME TypeInv, ControlInv, transfer
  PROVE  TypeInv'
<1> USE DEF meta, buffers, done
<1>0. /\ release.left > 0 => leaving /\ state # "Idle" /\ release.tag \in Tag
      /\ acquire > 0 => state # "Idle"
      /\ Words \in Nat /\ release.left \in 0 .. Words /\ acquire \in 0 .. Words
      /\ release \in [tag : 0 .. NumTag, left : 0 .. Words, acked : BOOLEAN]
  BY BCacheAssumption DEF ControlInv, Released, leaving, TypeInv
<1>1. CASE readBram
  <2>1. release.left > 0 /\ index \in Index /\ way \in Way
    BY <1>0, <1>1, Serving DEF readBram
  <2>2. Words - release.left \in Offset
    BY <1>0, <2>1 DEF Offset
  <2>3. <<way, index, Words - release.left>> \in Way \X Index \X Offset
    BY <2>1, <2>2
  <2>4. out' \in Seq({"cpu", "release"} \X Data) /\ Len(out') <= 1
    BY <1>1, <2>3 DEF readBram, TypeInv
  <2> QED  BY <1>1, <2>4 DEF readBram, TypeInv
<1>2. CASE sendWord
  <2>1. release.left > 0 /\ index \in Index /\ way \in Way /\ release.tag \in Tag
    BY <1>0, <1>2, Serving DEF sendWord
  <2>2. out[1] \in {"cpu", "release"} \X Data
    BY <1>2 DEF sendWord, TypeInv
  <2>3. out[1][2] \in Data
    BY <2>2
  <2>4. mem' \in [Address -> Data]
    BY <1>2, <2>3 DEF sendWord, TypeInv
  <2>5. release' \in [tag : 0 .. NumTag, left : 0 .. Words, acked : BOOLEAN]
    BY <1>0, <1>2, <2>1 DEF sendWord
  <2>6. out' \in Seq({"cpu", "release"} \X Data) /\ Len(out') <= 1
    BY <1>2 DEF sendWord
  <2> QED  BY <1>2, <2>4, <2>5, <2>6 DEF sendWord, TypeInv
<1>3. CASE writeResponse
  <2>1. release' \in [tag : 0 .. NumTag, left : 0 .. Words, acked : BOOLEAN]
    BY <1>0, <1>3 DEF writeResponse
  <2> QED  BY <1>3, <2>1 DEF writeResponse, TypeInv
<1>4. Released \in [tag : 0 .. NumTag, left : 0 .. Words, acked : BOOLEAN]
  BY BCacheAssumption DEF Released, NoTag
<1>5. CASE releaseBlockAck
  BY <1>0, <1>4, <1>5 DEF releaseBlockAck, TypeInv
<1>6. CASE releaseBlockAckInv
  BY <1>4, <1>6 DEF releaseBlockAckInv, TypeInv
<1>7. CASE receiveWord
  <2>1. acquire > 0 /\ index \in Index /\ way \in Way /\ tag \in Tag
    BY <1>0, <1>7, Serving DEF receiveWord
  <2>2. Words - acquire \in Offset
    BY <1>0, <2>1 DEF Offset
  <2>3. mem[<<tag, index, Words - acquire>>] \in Data
    BY <2>1, <2>2 DEF TypeInv, Address
  <2>4. dataRam' \in [Way \X Index \X Offset -> Data]
    BY <1>7, <2>3 DEF receiveWord, TypeInv
  <2>5. acquire' \in 0 .. Words
    BY <1>0, <1>7 DEF receiveWord
  <2> QED  BY <1>7, <2>4, <2>5 DEF receiveWord, TypeInv
<1>8. CASE acquireBlockAck
  <2>1. /\ line(way) \in Way \X Index \X Offset
        /\ req.op = "Write" => req.data \in Data /\ req.mask \subseteq Byte
    BY <1>8, Serving DEF acquireBlockAck
  <2>2. CASE /\ req.op = "Read" /\ out' = << <<"cpu", dataRam[line(way)]>> >>
             /\ UNCHANGED dataRam
    <3>1. out' \in Seq({"cpu", "release"} \X Data) /\ Len(out') <= 1
      BY <2>1, <2>2 DEF TypeInv
    <3> QED  BY <1>8, <2>2, <3>1 DEF acquireBlockAck, TypeInv
  <2>3. CASE /\ req.op = "Write" /\ UNCHANGED out
             /\ dataRam' = [dataRam EXCEPT ![line(way)] = merged(@, req.data, req.mask)]
    <3>1. merged(dataRam[line(way)], req.data, req.mask) \in Data
      BY <2>1, <2>3, MergedType DEF TypeInv
    <3>2. dataRam' \in [Way \X Index \X Offset -> Data]
      BY <2>1, <2>3, <3>1 DEF TypeInv
    <3> QED  BY <1>8, <2>3, <3>2 DEF acquireBlockAck, TypeInv
  <2> QED  BY <1>8, <2>2, <2>3 DEF acquireBlockAck
<1> QED  BY <1>1, <1>2, <1>3, <1>5, <1>6, <1>7, <1>8 DEF transfer

LEMMA TypeAnswer ==
  ASSUME TypeInv, readAck \/ cpu
  PROVE  TypeInv'
<1> USE DEF meta
<1>0. Depth \in Nat
  BY BCacheAssumption
<1>1. CASE readAck
  <2>1. out[1] \in {"cpu", "release"} \X Data
    BY <1>1 DEF readAck, TypeInv
  <2>2. out[1][2] \in Data
    BY <2>1
  <2>3. rresp' \in Seq(Data) /\ Len(rresp') <= Depth
    BY <1>0, <1>1, <2>2 DEF readAck, TypeInv
  <2>4. out' \in Seq({"cpu", "release"} \X Data) /\ Len(out') <= 1
    BY <1>1 DEF readAck
  <2> QED  BY <1>1, <2>3, <2>4 DEF readAck, TypeInv
<1>2. CASE cpu
  <2>1. rresp' \in Seq(Data) /\ Len(rresp') <= Depth
    <3>1. CASE rresp # <<>> /\ rresp' = Tail(rresp)
      <4>1. rresp \in Seq(Data) /\ Len(rresp) <= Depth /\ Len(rresp) \in Nat
        BY DEF TypeInv
      <4>2. Tail(rresp) \in Seq(Data) /\ Len(Tail(rresp)) = Len(rresp) - 1
        BY <3>1, <4>1
      <4> QED  BY <1>0, <3>1, <4>1, <4>2
    <3>2. CASE rresp' = rresp
      BY <3>2 DEF TypeInv
    <3> QED  BY <1>2, <3>1, <3>2 DEF cpu
  <2>2. wresp' \in 0 .. Depth /\ invAck' \in 0 .. Depth
    BY <1>0, <1>2 DEF cpu, TypeInv
  <2> QED  BY <1>2, <2>1, <2>2 DEF cpu, TypeInv
<1> QED  BY <1>1, <1>2

LEMMA TypeNext ==
  ASSUME TypeInv, ControlInv, [Next]_vars
  PROVE  TypeInv'
<1>1. CASE UNCHANGED vars
  BY <1>1 DEF vars, meta, buffers, TypeInv
<1> QED
  BY <1>1, TypeStart, TypeInvalidate, TypeMatching, TypeTransfer, TypeAnswer DEF Next


-----------------------------------------------------------------------------
(* The lines.                                                              *)

LinesInv ==
  /\ ControlInv /\ OutInv /\ FillingInv /\ LeavingInv /\ MovedInv
  /\ OneWayPerBlock /\ CleanIsInMemory

LEMMA CacheParts == CacheInv <=> TypeInv /\ LinesInv
BY DEF CacheInv, LinesInv

LEMMA LinesInit == Init => LinesInv
<1> SUFFICES ASSUME Init PROVE LinesInv
  OBVIOUS
<1>1. ~leaving /\ ~coming /\ release = Released /\ out = <<>> /\ acquire = 0 /\ state = "Idle"
  BY DEF Init, leaving, coming
<1>2. \A i \in Index, w \in Way : ~validRam[i][w]
  BY DEF Init
<1>3. ControlInv
  BY <1>1 DEF ControlInv, Released
<1>4. OutInv /\ FillingInv /\ LeavingInv /\ MovedInv
  BY <1>1 DEF OutInv, FillingInv, LeavingInv, MovedInv
<1>5. OneWayPerBlock /\ CleanIsInMemory
  BY <1>2 DEF OneWayPerBlock, CleanIsInMemory
<1> QED  BY <1>3, <1>4, <1>5 DEF LinesInv

LEMMA LinesFrame ==
  ASSUME LinesInv, UNCHANGED <<meta, dataRam, out, state, req, acquire, release, mem>>
  PROVE  LinesInv'
BY DEF LinesInv, meta, ControlInv, OutInv, FillingInv, LeavingInv, MovedInv, OneWayPerBlock,
       CleanIsInMemory, filling, leaving, coming, tag, index, way

(* Between two states in which no block moves, only the lines count.       *)
quiet == state \in {"Idle", "Matching"}

LEMMA Quiet ==
  ASSUME LinesInv, quiet
  PROVE  /\ ~leaving /\ ~coming /\ release = Released /\ ~(acquire > 0)
         /\ out # <<>> => out[1][1] # "release"
         /\ \A w, i : ~filling(w, i)
BY DEF LinesInv, ControlInv, OutInv, quiet, leaving, coming, filling

LEMMA QuietStep ==
  ASSUME TypeInv, LinesInv, quiet, quiet', UNCHANGED <<acquire, release>>,
         out' = out \/ (out' # <<>> /\ out'[1][1] = "cpu"),
         OneWayPerBlock', CleanIsInMemory'
  PROVE  LinesInv'
<1>1. ~leaving' /\ ~coming' /\ ~leaving /\ release = Released
  BY DEF quiet, leaving, coming, LinesInv, ControlInv
<1>2. ControlInv'
  BY <1>1 DEF ControlInv, LinesInv, quiet, Released, leaving, coming, TypeInv
<1>3. OutInv'
  BY <1>1 DEF OutInv, LinesInv
<1> QED  BY <1>1, <1>2, <1>3 DEF LinesInv, FillingInv, LeavingInv, MovedInv, coming, leaving, quiet

LEMMA LinesStart ==
  ASSUME TypeInv, LinesInv, startRead \/ startWrite \/ invalidateRl
  PROVE  LinesInv'
<1>1. /\ quiet /\ quiet' /\ UNCHANGED <<meta, dataRam, out, acquire, release, mem>>
  BY DEF startRead, startWrite, invalidateRl, start, quiet
<1>2. OneWayPerBlock' /\ CleanIsInMemory'
  BY <1>1 DEF LinesInv, OneWayPerBlock, CleanIsInMemory, meta, filling, quiet
<1> QED  BY <1>1, <1>2, QuietStep

LEMMA HitIsOne ==
  ASSUME TypeInv, LinesInv, state # "Idle", NEW w \in hitWays
  PROVE  /\ w \in Way /\ validRam[index][w] /\ tagRam[index][w] = tag
         /\ \A v \in Way : validRam[index][v] /\ tagRam[index][v] = tag => v = w
<1>1. index \in Index
  BY Serving
<1> QED  BY <1>1 DEF hitWays, LinesInv, OneWayPerBlock

LEMMA LinesHitRead ==
  ASSUME TypeInv, LinesInv, hitRead
  PROVE  LinesInv'
<1>1. /\ quiet /\ quiet' /\ UNCHANGED <<meta, dataRam, acquire, release, mem>>
      /\ out' # <<>> /\ out'[1][1] = "cpu"
  BY DEF hitRead, matched, done, quiet
<1>2. OneWayPerBlock' /\ CleanIsInMemory'
  BY <1>1 DEF LinesInv, OneWayPerBlock, CleanIsInMemory, meta, filling, quiet
<1> QED  BY <1>1, <1>2, QuietStep

LEMMA LinesHitWrite ==
  ASSUME TypeInv, LinesInv, hitWrite
  PROVE  LinesInv'
<1>1. PICK w \in hitWays :
        /\ dirtyRam' = [dirtyRam EXCEPT ![index][w] = TRUE]
        /\ dataRam' = [dataRam EXCEPT ![line(w)] = merged(@, req.data, req.mask)]
        /\ state' = "Idle" /\ UNCHANGED <<tagRam, validRam, out, acquire, release>>
  BY DEF hitWrite, dirtyAfterWrite, done
<1>2. state = "Matching" /\ mem' = mem /\ quiet /\ quiet'
  BY <1>1 DEF hitWrite, matched, quiet
<1>3. w \in Way /\ index \in Index /\ line(w) = <<w, index, offset>>
  BY <1>2, Serving DEF hitWays
<1>4. OneWayPerBlock'
  BY <1>1 DEF LinesInv, OneWayPerBlock
<1>5. CleanIsInMemory'
  <2>1. ASSUME NEW i \in Index, NEW v \in Way, validRam[i][v], ~dirtyRam'[i][v], NEW o \in Offset
        PROVE  dataRam'[<<v, i, o>>] = mem[<<tagRam[i][v], i, o>>]
    <3>1. ~dirtyRam[i][v] /\ ~(i = index /\ v = w)
      BY <1>1, <1>3, <2>1 DEF TypeInv
    <3>2. <<v, i, o>> # line(w) /\ <<v, i, o>> \in Way \X Index \X Offset
      BY <1>3, <3>1
    <3>3. dataRam'[<<v, i, o>>] = dataRam[<<v, i, o>>]
      BY <1>1, <3>2 DEF TypeInv
    <3> QED  BY <1>2, <2>1, <3>1, <3>3, Quiet DEF LinesInv, CleanIsInMemory
  <2> QED  BY <1>1, <1>2, <2>1 DEF CleanIsInMemory
<1> QED  BY <1>1, <1>2, <1>4, <1>5, QuietStep

LEMMA LinesMissInvalidate ==
  ASSUME TypeInv, LinesInv, missInvalidate
  PROVE  LinesInv'
<1>1. /\ quiet /\ quiet' /\ UNCHANGED <<meta, dataRam, out, acquire, release, mem>>
  BY DEF missInvalidate, matched, done, quiet
<1>2. OneWayPerBlock' /\ CleanIsInMemory'
  BY <1>1 DEF LinesInv, OneWayPerBlock, CleanIsInMemory, meta, filling, quiet
<1> QED  BY <1>1, <1>2, QuietStep

(* What doMiss does to the lines: way w of the set of the request is that  *)
(* of the new block.                                                       *)
Replaced(w) ==
  /\ tag' = tag /\ index' = index /\ way' = w /\ req'.op = req.op /\ req'.a = req.a
  /\ req.op = "Write" => req'.data = req.data /\ req'.mask = req.mask
  /\ tagRam'[index][w] = tag /\ (validRam'[index][w] <=> req.op # "Invalidate")
  /\ dirtyRam'[index][w] = (req.op = "Write")
  /\ \A i \in Index, v \in Way : i # index \/ v # w =>
       /\ tagRam'[i][v] = tagRam[i][v] /\ validRam'[i][v] = validRam[i][v]
       /\ dirtyRam'[i][v] = dirtyRam[i][v]
  /\ dataRam' = dataRam

LEMMA MissReplaces ==
  ASSUME TypeInv, state # "Idle", NEW w \in Way, doMiss(w)
  PROVE  Replaced(w)
<1>1. req \in Request /\ index \in Index /\ tag \in Tag
  BY Serving
<1>2. /\ req'.a = req.a /\ req'.op = req.op /\ req'.way = w
      /\ req.op = "Write" => req'.data = req.data /\ req'.mask = req.mask
  BY <1>1, RequestWay DEF doMiss
<1>3. tag' = tag /\ index' = index /\ way' = w
  BY <1>2 DEF tag, index, way
<1>4. /\ tagRam'[index][w] = tag /\ (validRam'[index][w] <=> req.op # "Invalidate")
      /\ dirtyRam'[index][w] = (req.op = "Write") /\ dataRam' = dataRam
  BY <1>1 DEF doMiss, TypeInv, validAfter
<1>5. ASSUME NEW i \in Index, NEW v \in Way, i # index \/ v # w
      PROVE  /\ tagRam'[i][v] = tagRam[i][v] /\ validRam'[i][v] = validRam[i][v]
             /\ dirtyRam'[i][v] = dirtyRam[i][v]
  <2>1. CASE i # index
    BY <1>1, <2>1 DEF doMiss, TypeInv
  <2>2. CASE i = index /\ v # w
    BY <1>1, <2>2 DEF doMiss, TypeInv
  <2> QED  BY <1>5, <2>1, <2>2
<1> QED  BY <1>2, <1>3, <1>4, <1>5 DEF Replaced

LEMMA LinesMiss ==
  ASSUME TypeInv, LinesInv, miss
  PROVE  LinesInv'
<1>1. /\ state = "Matching" /\ req.op # "Invalidate" /\ hitWays = {} /\ mem' = mem
  BY DEF miss, matched
<1>2. PICK w \in Way :
        /\ doMiss(w) /\ out' = out
        /\ \/ mustRelease(w) /\ releaseBlock(w) /\ state' = "AcqRel" /\ UNCHANGED acquire
           \/ acquire' = Words /\ state' = "Acquire" /\ UNCHANGED release
  BY DEF miss
<1>3. Replaced(w)
  BY <1>1, <1>2, MissReplaces
<1>4. index \in Index /\ tag \in Tag /\ req.op \in {"Read", "Write"}
  BY <1>1, Serving
<1>5. /\ out # <<>> => out[1][1] # "release"
      /\ release = Released /\ ~(acquire > 0)
      /\ \A v, i : ~filling(v, i)
  BY <1>1, Quiet DEF quiet, LinesInv, ControlInv, leaving
<1>6. \A v \in Way : validRam[index][v] => tagRam[index][v] # tag
  BY <1>1, <1>4 DEF hitWays
<1>7. Words \in Nat \ {0}
  BY BCacheAssumption
<1>8. OutInv'
  BY <1>2, <1>5 DEF OutInv
<1>9. FillingInv'
  BY <1>3, <1>4 DEF FillingInv, Replaced
<1>10. OneWayPerBlock'
  <2>1. ASSUME NEW i \in Index, NEW u \in Way, NEW v \in Way, validRam'[i][u], validRam'[i][v],
               tagRam'[i][u] = tagRam'[i][v], u # v
        PROVE  FALSE
    <3>1. CASE i # index \/ (u # w /\ v # w)
      BY <1>3, <2>1, <3>1 DEF Replaced, LinesInv, OneWayPerBlock
    <3>2. CASE i = index /\ u = w
      BY <1>3, <1>4, <1>6, <2>1, <3>2 DEF Replaced
    <3>3. CASE i = index /\ v = w
      BY <1>3, <1>4, <1>6, <2>1, <3>3 DEF Replaced
    <3> QED  BY <3>1, <3>2, <3>3
  <2> QED  BY <2>1 DEF OneWayPerBlock
<1>11. CleanIsInMemory'
  <2>1. ASSUME NEW i \in Index, NEW v \in Way, validRam'[i][v], ~dirtyRam'[i][v], ~filling(v, i)',
               NEW o \in Offset
        PROVE  dataRam'[<<v, i, o>>] = mem'[<<tagRam'[i][v], i, o>>]
    <3>1. i # index \/ v # w
      BY <1>2, <1>3, <2>1 DEF filling, Replaced
    <3> QED  BY <1>1, <1>3, <1>5, <2>1, <3>1 DEF Replaced, LinesInv, CleanIsInMemory
  <2> QED  BY <2>1 DEF CleanIsInMemory
<1>12. CASE mustRelease(w) /\ releaseBlock(w) /\ state' = "AcqRel" /\ UNCHANGED acquire
  <2>1. release' = [tag |-> tagRam[index][w], left |-> Words, acked |-> FALSE]
    BY <1>12 DEF releaseBlock
  <2>2. release'.tag = tagRam[index][w] /\ release'.left = Words /\ release'.acked = FALSE
    BY <2>1
  <2>3. release'.tag \in Tag /\ release'.tag # tag /\ validRam[index][w]
    BY <1>4, <1>6, <1>12, <2>2 DEF mustRelease, TypeInv
  <2>4. ControlInv'
    BY <1>3, <1>4, <1>5, <1>12, <2>2, <2>3 DEF ControlInv, leaving, coming, Replaced
  <2>5. LeavingInv'
    <3>1. ASSUME NEW v \in Way, validRam'[index][v] PROVE tagRam'[index][v] # release'.tag
      <4>1. CASE v = w
        BY <1>3, <2>3, <4>1 DEF Replaced
      <4>2. CASE v # w
        BY <1>3, <1>4, <2>2, <2>3, <3>1, <4>2 DEF Replaced, LinesInv, OneWayPerBlock
      <4> QED  BY <4>1, <4>2
    <3> QED  BY <1>3, <3>1 DEF LeavingInv, Replaced
  <2>6. MovedInv'
    <3>1. 0 .. Words - release'.left - 1 = {}
      BY <1>7, <2>2
    <3> QED  BY <1>12, <3>1 DEF MovedInv
  <2> QED  BY <1>8, <1>9, <1>10, <1>11, <2>4, <2>5, <2>6 DEF LinesInv
<1>13. CASE acquire' = Words /\ state' = "Acquire" /\ UNCHANGED release
  <2>1. ControlInv'
    BY <1>3, <1>4, <1>5, <1>13 DEF ControlInv, leaving, coming, Replaced, Released
  <2>2. LeavingInv'
    BY <1>13 DEF LeavingInv, leaving
  <2>3. MovedInv'
    <3>1. 0 .. Words - acquire' - 1 = {}
      BY <1>7, <1>13
    <3> QED  BY <1>13, <3>1 DEF MovedInv, leaving
  <2> QED  BY <1>8, <1>9, <1>10, <1>11, <2>1, <2>2, <2>3 DEF LinesInv
<1> QED  BY <1>2, <1>12, <1>13

LEMMA LinesHitInvalidate ==
  ASSUME TypeInv, LinesInv, hitInvalidate
  PROVE  LinesInv'
<1>1. /\ state = "Matching" /\ req.op = "Invalidate" /\ mem' = mem
  BY DEF hitInvalidate, matched
<1>2. PICK w \in hitWays :
        /\ UNCHANGED <<out, acquire>>
        /\ \/ doMiss(w) /\ releaseBlock(w) /\ state' = "Release"
           \/ /\ validRam' = [validRam EXCEPT ![index][w] = FALSE] /\ state' = "Idle"
              /\ UNCHANGED <<tagRam, dirtyRam, dataRam, release>>
  BY DEF hitInvalidate, done
<1>3. index \in Index /\ tag \in Tag
  BY <1>1, Serving
<1>4. /\ w \in Way /\ validRam[index][w] /\ tagRam[index][w] = tag
      /\ \A v \in Way : validRam[index][v] /\ tagRam[index][v] = tag => v = w
  BY <1>1, HitIsOne
<1>5. /\ out # <<>> => out[1][1] # "release"
      /\ release = Released /\ ~(acquire > 0)
      /\ \A v, i : ~filling(v, i)
  BY <1>1, Quiet DEF quiet, LinesInv, ControlInv, leaving
<1>6. CASE doMiss(w) /\ releaseBlock(w) /\ state' = "Release"
  <2>1. Replaced(w)
    BY <1>1, <1>4, <1>6, MissReplaces
  <2>2. release' = [tag |-> tag, left |-> Words, acked |-> FALSE]
    BY <1>4, <1>6 DEF releaseBlock
  <2>3. release'.tag = tag /\ release'.left = Words /\ release'.acked = FALSE /\ tag' = tag
    BY <2>1, <2>2 DEF Replaced
  <2>4. ControlInv'
    BY <1>1, <1>2, <1>3, <1>5, <1>6, <2>1, <2>3 DEF ControlInv, leaving, coming, Replaced
  <2>5. OutInv' /\ FillingInv'
    BY <1>2, <1>5, <1>6 DEF OutInv, FillingInv, coming
  <2>6. LeavingInv'
    <3>1. ASSUME NEW v \in Way, validRam'[index][v] PROVE tagRam'[index][v] # release'.tag
      BY <1>1, <1>3, <1>4, <2>1, <2>3, <3>1 DEF Replaced
    <3> QED  BY <2>1, <3>1 DEF LeavingInv, Replaced
  <2>7. MovedInv'
    <3>1. 0 .. Words - release'.left - 1 = {}
      BY <2>3, BCacheAssumption
    <3> QED  BY <1>6, <3>1 DEF MovedInv
  <2>8. \A i \in Index, v \in Way : validRam'[i][v] =>
          /\ validRam[i][v] /\ tagRam'[i][v] = tagRam[i][v] /\ dirtyRam'[i][v] = dirtyRam[i][v]
    BY <1>1, <1>3, <1>4, <2>1 DEF Replaced
  <2>9. OneWayPerBlock'
    BY <2>8 DEF OneWayPerBlock, LinesInv
  <2>10. CleanIsInMemory'
    BY <1>1, <1>5, <2>1, <2>8 DEF CleanIsInMemory, LinesInv, Replaced
  <2> QED  BY <2>4, <2>5, <2>6, <2>7, <2>9, <2>10 DEF LinesInv
<1>7. CASE /\ validRam' = [validRam EXCEPT ![index][w] = FALSE] /\ state' = "Idle"
           /\ UNCHANGED <<tagRam, dirtyRam, dataRam, release>>
  <2>1. \A i \in Index, v \in Way : validRam'[i][v] => validRam[i][v]
    BY <1>3, <1>4, <1>7 DEF TypeInv
  <2>2. OneWayPerBlock'
    BY <1>7, <2>1 DEF OneWayPerBlock, LinesInv
  <2>3. CleanIsInMemory'
    BY <1>1, <1>5, <1>7, <2>1 DEF CleanIsInMemory, LinesInv
  <2> QED  BY <1>1, <1>2, <1>7, <2>2, <2>3, QuietStep DEF quiet
<1> QED  BY <1>2, <1>6, <1>7

-----------------------------------------------------------------------------
(* The blocks on their way.                                                *)

LEMMA LinesReadBram ==
  ASSUME TypeInv, LinesInv, readBram
  PROVE  LinesInv'
<1>1. /\ UNCHANGED <<tagRam, validRam, dirtyRam, dataRam, state, req, acquire, release, mem>>
      /\ release.left > 0 /\ out' = << <<"release", dataRam[<<way, index, Words - release.left>>]>> >>
  BY DEF readBram, meta
<1>2. leaving
  BY <1>1 DEF LinesInv, ControlInv, Released
<1>3. out'[1][2] = dataRam[<<way, index, Words - release.left>>]
  BY <1>1
<1>4. OutInv'
  BY <1>1, <1>2, <1>3 DEF OutInv, leaving, way, index
<1>5. /\ ControlInv' /\ FillingInv' /\ LeavingInv' /\ MovedInv'
  BY <1>1 DEF LinesInv, ControlInv, FillingInv, LeavingInv, MovedInv, leaving, coming, tag, index, way
<1>6. OneWayPerBlock' /\ CleanIsInMemory'
  BY <1>1 DEF LinesInv, OneWayPerBlock, CleanIsInMemory, filling, index, way
<1> QED  BY <1>4, <1>5, <1>6 DEF LinesInv

LEMMA LinesSendWord ==
  ASSUME TypeInv, LinesInv, sendWord
  PROVE  LinesInv'
<1> DEFINE o == Words - release.left
<1>1. /\ UNCHANGED <<tagRam, validRam, dirtyRam, dataRam, state, req, acquire>>
      /\ release.left > 0 /\ out # <<>> /\ out[1][1] = "release" /\ out' = <<>>
      /\ mem' = [mem EXCEPT ![<<release.tag, index, o>>] = out[1][2]]
      /\ release' = [release EXCEPT !.left = @ - 1]
  BY DEF sendWord, meta, buffers
<1>2. leaving /\ release.tag \in Tag /\ ~release.acked /\ state # "Idle"
  BY <1>1 DEF LinesInv, ControlInv, Released, leaving
<1>3. /\ release \in [tag : 0 .. NumTag, left : 0 .. Words, acked : BOOLEAN]
      /\ Words \in Nat \ {0} /\ release.left \in 1 .. Words /\ o \in Offset
  <2>1. release \in [tag : 0 .. NumTag, left : 0 .. Words, acked : BOOLEAN]
    BY DEF TypeInv
  <2>2. Words \in Nat \ {0} /\ release.left \in 0 .. Words
    BY <2>1, BCacheAssumption
  <2> QED  BY <1>1, <2>1, <2>2 DEF Offset
<1>4. /\ release'.tag = release.tag /\ release'.acked = release.acked
      /\ release'.left = release.left - 1
  BY <1>1, <1>3
<1>5. index \in Index /\ way \in Way /\ index' = index /\ way' = way /\ tag' = tag
  BY <1>1, <1>2, Serving DEF index, way, tag
<1>6. <<release.tag, index, o>> \in Address
  BY <1>2, <1>3, <1>5 DEF Address
<1>7. out[1][2] = dataRam[<<way, index, o>>]
  BY <1>1 DEF LinesInv, OutInv
<1>8. ASSUME NEW t \in Tag, NEW i \in Index, NEW p \in Offset, t # release.tag \/ i # index \/ p # o
      PROVE  mem'[<<t, i, p>>] = mem[<<t, i, p>>]
  <2>1. <<t, i, p>> # <<release.tag, index, o>> /\ <<t, i, p>> \in Address
    BY <1>8 DEF Address
  <2> QED  BY <1>1, <2>1 DEF TypeInv
<1>9. mem'[<<release.tag, index, o>>] = dataRam[<<way, index, o>>]
  BY <1>1, <1>6, <1>7 DEF TypeInv
<1>10. ControlInv'
  <2>1. /\ acquire > 0 => state = "Acquire"
        /\ state = "Release" => req.op = "Invalidate" /\ release.tag = tag
        /\ coming => req.op \in {"Read", "Write"}
    BY DEF LinesInv, ControlInv
  <2>2. leaving' /\ ~release'.acked /\ coming' = coming
    BY <1>1, <1>2, <1>4 DEF leaving, coming
  <2> QED  BY <1>1, <1>2, <1>4, <1>5, <2>1, <2>2 DEF ControlInv
<1>11. OutInv' /\ FillingInv'
  BY <1>1, <1>5 DEF OutInv, LinesInv, FillingInv, coming
<1>12. LeavingInv'
  BY <1>1, <1>4, <1>5 DEF LinesInv, LeavingInv, leaving
<1>13. MovedInv'
  <2>1. ASSUME NEW p \in 0 .. Words - release'.left - 1
        PROVE  mem'[<<release'.tag, index, p>>] = dataRam[<<way, index, p>>]
    <3>1. p \in Offset /\ p \in 0 .. o
      BY <1>3, <1>4 DEF Offset
    <3>2. CASE p = o
      BY <1>4, <1>9, <3>2
    <3>3. CASE p # o
      <4>1. p \in 0 .. Words - release.left - 1
        BY <1>3, <3>1, <3>3
      <4>2. mem[<<release.tag, index, p>>] = dataRam[<<way, index, p>>]
        BY <1>2, <4>1 DEF LinesInv, MovedInv
      <4> QED  BY <1>2, <1>4, <1>5, <1>8, <3>1, <3>3, <4>2
    <3> QED  BY <3>2, <3>3
  <2>2. state' # "Acquire"
    BY <1>1, <1>2 DEF leaving
  <2> QED  BY <1>1, <1>5, <2>1, <2>2 DEF MovedInv
<1>14. OneWayPerBlock'
  BY <1>1 DEF LinesInv, OneWayPerBlock
<1>15. CleanIsInMemory'
  <2>1. ASSUME NEW i \in Index, NEW w \in Way, validRam[i][w], ~dirtyRam[i][w], ~filling(w, i),
               NEW p \in Offset
        PROVE  dataRam[<<w, i, p>>] = mem'[<<tagRam[i][w], i, p>>]
    <3>1. dataRam[<<w, i, p>>] = mem[<<tagRam[i][w], i, p>>]
      BY <2>1 DEF LinesInv, CleanIsInMemory
    <3>2. tagRam[i][w] \in Tag /\ (i # index \/ tagRam[i][w] # release.tag)
      BY <1>2, <2>1 DEF LinesInv, LeavingInv, TypeInv
    <3> QED  BY <1>8, <3>1, <3>2
  <2> QED  BY <1>1, <1>5, <2>1 DEF CleanIsInMemory, filling
<1> QED  BY <1>10, <1>11, <1>12, <1>13, <1>14, <1>15 DEF LinesInv

LEMMA LinesWriteResponse ==
  ASSUME TypeInv, LinesInv, writeResponse
  PROVE  LinesInv'
<1>1. /\ UNCHANGED <<tagRam, validRam, dirtyRam, dataRam, out, state, req, acquire, mem>>
      /\ release.tag # NoTag /\ release.left = 0
      /\ release' = [release EXCEPT !.acked = TRUE]
  BY DEF writeResponse, meta
<1>2. release'.tag = release.tag /\ release'.left = release.left /\ release'.acked = TRUE
  BY <1>1 DEF TypeInv
<1>3. leaving
  BY <1>1 DEF LinesInv, ControlInv, Released
<1>4. index' = index /\ way' = way /\ tag' = tag /\ leaving' /\ coming' = coming
  BY <1>1, <1>3 DEF index, way, tag, leaving, coming
<1>5. ControlInv'
  BY <1>1, <1>2, <1>3, <1>4 DEF LinesInv, ControlInv
<1>6. OutInv' /\ FillingInv' /\ LeavingInv' /\ MovedInv'
  BY <1>1, <1>2, <1>3, <1>4 DEF LinesInv, OutInv, FillingInv, LeavingInv, MovedInv
<1>7. OneWayPerBlock' /\ CleanIsInMemory'
  BY <1>1, <1>4 DEF LinesInv, OneWayPerBlock, CleanIsInMemory, filling
<1> QED  BY <1>5, <1>6, <1>7 DEF LinesInv

LEMMA LinesReleaseAck ==
  ASSUME TypeInv, LinesInv, releaseBlockAck
  PROVE  LinesInv'
<1>1. /\ UNCHANGED <<tagRam, validRam, dirtyRam, dataRam, out, req, mem>>
      /\ state = "AcqRel" /\ release.acked /\ release' = Released
      /\ acquire' = Words /\ state' = "Acquire"
  BY DEF releaseBlockAck, meta
<1>2. release.left = 0 /\ req.op \in {"Read", "Write"}
  BY <1>1 DEF LinesInv, ControlInv, coming
<1>3. index' = index /\ way' = way /\ tag' = tag /\ ~leaving' /\ coming' /\ coming
  BY <1>1 DEF index, way, tag, leaving, coming
<1>4. ControlInv'
  BY <1>1, <1>2, <1>3 DEF ControlInv, Released
<1>5. OutInv'
  BY <1>1, <1>2 DEF LinesInv, OutInv
<1>6. FillingInv' /\ LeavingInv'
  BY <1>1, <1>3 DEF LinesInv, FillingInv, LeavingInv
<1>7. MovedInv'
  <2>1. 0 .. Words - acquire' - 1 = {}
    BY <1>1, BCacheAssumption
  <2> QED  BY <1>3, <2>1 DEF MovedInv
<1>8. OneWayPerBlock' /\ CleanIsInMemory'
  BY <1>1, <1>3 DEF LinesInv, OneWayPerBlock, CleanIsInMemory, filling
<1> QED  BY <1>4, <1>5, <1>6, <1>7, <1>8 DEF LinesInv

LEMMA LinesReleaseAckInv ==
  ASSUME TypeInv, LinesInv, releaseBlockAckInv
  PROVE  LinesInv'
<1>1. /\ UNCHANGED <<tagRam, validRam, dirtyRam, dataRam, out, acquire, mem>>
      /\ state = "Release" /\ release.acked /\ release' = Released /\ state' = "Idle"
  BY DEF releaseBlockAckInv, meta, done
<1>2. release.left = 0 /\ ~(acquire > 0)
  BY <1>1 DEF LinesInv, ControlInv
<1>3. ~leaving' /\ ~coming'
  BY <1>1 DEF leaving, coming
<1>4. ControlInv'
  BY <1>1, <1>2, <1>3 DEF ControlInv, Released
<1>5. OutInv'
  BY <1>1, <1>2 DEF LinesInv, OutInv
<1>6. FillingInv' /\ LeavingInv' /\ MovedInv'
  BY <1>1, <1>3 DEF FillingInv, LeavingInv, MovedInv
<1>7. OneWayPerBlock' /\ CleanIsInMemory'
  BY <1>1 DEF LinesInv, OneWayPerBlock, CleanIsInMemory, filling
<1> QED  BY <1>4, <1>5, <1>6, <1>7 DEF LinesInv

LEMMA LinesReceiveWord ==
  ASSUME TypeInv, LinesInv, receiveWord
  PROVE  LinesInv'
<1> DEFINE o == Words - acquire
<1>1. /\ UNCHANGED <<tagRam, validRam, dirtyRam, out, state, req, release, mem>>
      /\ acquire > 0 /\ acquire' = acquire - 1
      /\ dataRam' = [dataRam EXCEPT ![<<way, index, o>>] = mem[<<tag, index, o>>]]
  BY DEF receiveWord, meta
<1>2. state = "Acquire"
  BY <1>1 DEF LinesInv, ControlInv
<1>3. /\ index \in Index /\ way \in Way /\ tag \in Tag /\ index' = index /\ way' = way /\ tag' = tag
      /\ ~leaving /\ ~leaving' /\ coming /\ coming'
  BY <1>1, <1>2, Serving DEF index, way, tag, leaving, coming
<1>4. Words \in Nat \ {0} /\ acquire \in 1 .. Words /\ o \in Offset
  BY <1>1, BCacheAssumption DEF TypeInv, Offset
<1>5. ASSUME NEW i \in Index, NEW w \in Way, NEW p \in Offset, w # way \/ i # index \/ p # o
      PROVE  dataRam'[<<w, i, p>>] = dataRam[<<w, i, p>>]
  <2>1. <<w, i, p>> # <<way, index, o>> /\ <<w, i, p>> \in Way \X Index \X Offset
    BY <1>5
  <2> QED  BY <1>1, <2>1 DEF TypeInv
<1>6. dataRam'[<<way, index, o>>] = mem[<<tag, index, o>>]
  BY <1>1, <1>3, <1>4 DEF TypeInv
<1>7. ControlInv'
  BY <1>1, <1>2, <1>3, <1>4 DEF LinesInv, ControlInv
<1>8. OutInv'
  BY <1>1, <1>3 DEF LinesInv, OutInv
<1>9. FillingInv' /\ LeavingInv'
  BY <1>1, <1>3 DEF LinesInv, FillingInv, LeavingInv
<1>10. MovedInv'
  <2>1. ASSUME NEW p \in 0 .. Words - acquire' - 1
        PROVE  dataRam'[<<way, index, p>>] = mem[<<tag, index, p>>]
    <3>1. p \in Offset /\ p \in 0 .. o
      BY <1>1, <1>4 DEF Offset
    <3>2. CASE p = o
      BY <1>6, <3>2
    <3>3. CASE p # o
      <4>1. p \in 0 .. Words - acquire - 1
        BY <1>4, <3>1, <3>3
      <4>2. dataRam[<<way, index, p>>] = mem[<<tag, index, p>>]
        BY <1>2, <4>1 DEF LinesInv, MovedInv
      <4> QED  BY <1>3, <1>5, <3>1, <3>3, <4>2
    <3> QED  BY <3>2, <3>3
  <2> QED  BY <1>1, <1>3, <2>1 DEF MovedInv
<1>11. OneWayPerBlock'
  BY <1>1 DEF LinesInv, OneWayPerBlock
<1>12. CleanIsInMemory'
  <2>1. ASSUME NEW i \in Index, NEW w \in Way, validRam[i][w], ~dirtyRam[i][w], ~filling(w, i),
               NEW p \in Offset
        PROVE  dataRam'[<<w, i, p>>] = mem[<<tagRam[i][w], i, p>>]
    <3>1. dataRam[<<w, i, p>>] = mem[<<tagRam[i][w], i, p>>]
      BY <2>1 DEF LinesInv, CleanIsInMemory
    <3>2. w # way \/ i # index
      BY <1>2, <2>1 DEF filling
    <3> QED  BY <1>5, <3>1, <3>2
  <2> QED  BY <1>1, <1>3, <2>1 DEF CleanIsInMemory, filling
<1> QED  BY <1>7, <1>8, <1>9, <1>10, <1>11, <1>12 DEF LinesInv

(* A block that has come is the one of memory.                             *)
LEMMA BlockHasCome ==
  ASSUME TypeInv, LinesInv, state = "Acquire", acquire = 0
  PROVE  \A o \in Offset : dataRam[<<way, index, o>>] = mem[<<tag, index, o>>]
<1>1. Offset = 0 .. Words - acquire - 1
  BY BCacheAssumption DEF Offset
<1> QED  BY <1>1 DEF LinesInv, MovedInv

LEMMA LinesAcquireAck ==
  ASSUME TypeInv, LinesInv, acquireBlockAck
  PROVE  LinesInv'
<1>1. /\ UNCHANGED <<tagRam, validRam, dirtyRam, acquire, release, mem>>
      /\ state = "Acquire" /\ acquire = 0 /\ state' = "Idle"
  BY DEF acquireBlockAck, done, meta
<1>2. /\ index \in Index /\ way \in Way /\ tag \in Tag /\ line(way) = <<way, index, offset>>
      /\ offset \in Offset
  BY <1>1, Serving
<1>3. ~leaving /\ coming /\ ~leaving' /\ ~coming' /\ release = Released
  BY <1>1 DEF leaving, coming, LinesInv, ControlInv
<1>4. /\ out # <<>> => out[1][1] # "release"
      /\ validRam[index][way] /\ tagRam[index][way] = tag
      /\ dirtyRam[index][way] = (req.op = "Write")
  BY <1>3 DEF LinesInv, OutInv, FillingInv
<1>5. ControlInv'
  BY <1>1, <1>3 DEF ControlInv, Released
<1>6. OutInv'
  <2>1. CASE req.op = "Read"
    BY <2>1 DEF OutInv, acquireBlockAck
  <2>2. CASE req.op # "Read"
    BY <1>4, <2>2 DEF OutInv, acquireBlockAck
  <2> QED  BY <2>1, <2>2
<1>7. FillingInv' /\ LeavingInv' /\ MovedInv'
  BY <1>1, <1>3 DEF FillingInv, LeavingInv, MovedInv
<1>8. OneWayPerBlock'
  BY <1>1 DEF LinesInv, OneWayPerBlock
<1>9. CleanIsInMemory'
  <2>1. ASSUME NEW i \in Index, NEW w \in Way, validRam[i][w], ~dirtyRam[i][w], NEW o \in Offset
        PROVE  dataRam[<<w, i, o>>] = mem[<<tagRam[i][w], i, o>>]
    <3>1. CASE w = way /\ i = index
      BY <1>1, <1>4, <3>1, BlockHasCome
    <3>2. CASE w # way \/ i # index
      BY <2>1, <3>2 DEF LinesInv, CleanIsInMemory, filling
    <3> QED  BY <3>1, <3>2
  <2>2. CASE dataRam' = dataRam
    BY <1>1, <2>1, <2>2 DEF CleanIsInMemory
  <2>3. CASE /\ req.op = "Write"
             /\ dataRam' = [dataRam EXCEPT ![line(way)] = merged(@, req.data, req.mask)]
    <3>1. ASSUME NEW i \in Index, NEW w \in Way, validRam[i][w], ~dirtyRam[i][w], NEW o \in Offset
          PROVE  dataRam'[<<w, i, o>>] = mem[<<tagRam[i][w], i, o>>]
      <4>1. w # way \/ i # index
        BY <1>4, <2>3, <3>1
      <4>2. <<w, i, o>> # line(way) /\ <<w, i, o>> \in Way \X Index \X Offset
        BY <1>2, <4>1
      <4>3. dataRam'[<<w, i, o>>] = dataRam[<<w, i, o>>]
        BY <2>3, <4>2 DEF TypeInv
      <4> QED  BY <2>1, <3>1, <4>3
    <3> QED  BY <1>1, <3>1 DEF CleanIsInMemory
  <2> QED  BY <2>2, <2>3 DEF acquireBlockAck
<1> QED  BY <1>5, <1>6, <1>7, <1>8, <1>9 DEF LinesInv

LEMMA LinesReadAck ==
  ASSUME LinesInv, readAck
  PROVE  LinesInv'
<1>1. out' = <<>> /\ UNCHANGED <<tagRam, validRam, dirtyRam, dataRam, state, req, acquire, release, mem>>
  BY DEF readAck, meta
<1>2. OutInv'
  BY <1>1 DEF OutInv
<1>3. /\ ControlInv' /\ FillingInv' /\ LeavingInv' /\ MovedInv'
  BY <1>1 DEF LinesInv, ControlInv, FillingInv, LeavingInv, MovedInv, leaving, coming, tag, index, way
<1>4. OneWayPerBlock' /\ CleanIsInMemory'
  BY <1>1 DEF LinesInv, OneWayPerBlock, CleanIsInMemory, filling, index, way
<1> QED  BY <1>2, <1>3, <1>4 DEF LinesInv

LEMMA LinesNext ==
  ASSUME TypeInv, LinesInv, [Next]_vars
  PROVE  LinesInv'
<1>1. CASE UNCHANGED vars
  BY <1>1, LinesFrame DEF vars
<1>2. CASE cpu
  BY <1>2, LinesFrame DEF cpu
<1>3. CASE \E t \in Tag, i \in Index : invalidate(<<t, i, 0>>)
  BY <1>3, LinesFrame DEF invalidate
<1>4. CASE matching
  BY <1>4, LinesHitRead, LinesHitWrite, LinesHitInvalidate, LinesMissInvalidate, LinesMiss DEF matching
<1>5. CASE transfer
  BY <1>5, LinesReadBram, LinesSendWord, LinesWriteResponse, LinesReceiveWord, LinesReleaseAck,
     LinesReleaseAckInv, LinesAcquireAck DEF transfer
<1> QED  BY <1>1, <1>2, <1>3, <1>4, <1>5, LinesStart, LinesReadAck DEF Next

(* In every state of the cache the blocks that move are followed: what the *)
(* release has sent and the acquire has received is the same on both       *)
(* sides, and nobody else holds the block that leaves.                     *)
THEOREM CacheCorrect == Spec => []CacheInv
<1>1. Init => CacheInv
  BY TypeInit, LinesInit, CacheParts
<1>2. CacheInv /\ [Next]_vars => CacheInv'
  <2> SUFFICES ASSUME CacheInv, [Next]_vars PROVE CacheInv'
    OBVIOUS
  <2>1. TypeInv /\ LinesInv /\ ControlInv
    BY DEF CacheInv, LinesInv
  <2>2. TypeInv' /\ LinesInv'
    BY <2>1, TypeNext, LinesNext
  <2> QED  BY <2>2 DEF CacheInv, LinesInv
<1> QED  BY <1>1, <1>2, PTL DEF Spec

(* The lines of BCache.bsv agree with the tags, with each other and with   *)
(* memory in every state, for any number of sets, ways and words.          *)
THEOREM LinesConsistentCorrect == Spec => []LinesConsistent
<1>1. CacheInv => LinesConsistent
  <2> SUFFICES ASSUME CacheInv PROVE LinesConsistent
    OBVIOUS
  <2>1. TypeInv /\ OneWayPerBlock /\ CleanIsInMemory
    BY DEF CacheInv
  <2>2. release.left \in 0 .. Words
    BY <2>1 DEF TypeInv
  <2> QED  BY <2>1, <2>2 DEF LinesConsistent, BCacheTypeOK, TypeInv
<1> QED  BY <1>1, CacheCorrect, PTL


LEMMA InvalidationEnds ==
  ASSUME TypeInv, LinesInv, Next, req.op = "Invalidate", state # "Idle", state' = "Idle", NEW w \in Way
  PROVE  ~ (validRam'[index][w] /\ tagRam'[index][w] = tag)
<1>0. index \in Index /\ tag \in Tag
  BY Serving
<1>1. CASE hitInvalidate
  <2>1. PICK v \in hitWays : /\ validRam' = [validRam EXCEPT ![index][v] = FALSE]
                             /\ tagRam' = tagRam
    BY <1>1 DEF hitInvalidate
  <2>2. \A u \in Way : validRam[index][u] /\ tagRam[index][u] = tag => u = v
    BY HitIsOne
  <2>3. v \in Way
    BY DEF hitWays
  <2> QED  BY <1>0, <2>1, <2>2, <2>3 DEF TypeInv
<1>2. CASE missInvalidate
  BY <1>2 DEF missInvalidate, hitWays, meta
<1>3. CASE releaseBlockAckInv
  <2>1. state = "Release" /\ validRam' = validRam /\ tagRam' = tagRam
    BY <1>3 DEF releaseBlockAckInv, meta
  <2>2. leaving /\ release.tag = tag
    BY <2>1 DEF leaving, LinesInv, ControlInv
  <2> QED  BY <2>1, <2>2 DEF LinesInv, LeavingInv
<1>4. ~acquireBlockAck
  BY DEF acquireBlockAck, LinesInv, ControlInv, coming
<1>5. ~(startRead \/ startWrite \/ invalidateRl \/ \E t \in Tag, i \in Index : invalidate(<<t, i, 0>>))
  BY DEF startRead, startWrite, invalidateRl, invalidate, start
<1>6. ~(hitRead \/ hitWrite \/ miss \/ readAck \/ cpu)
  BY DEF hitRead, hitWrite, miss, readAck, cpu
<1>7. ~(readBram \/ sendWord \/ writeResponse \/ receiveWord \/ releaseBlockAck)
  BY DEF readBram, sendWord, writeResponse, receiveWord, releaseBlockAck
<1> QED  BY <1>1, <1>2, <1>3, <1>4, <1>5, <1>6, <1>7 DEF Next, matching, transfer

(* Whichever way an invalidation ends (a miss, a clean hit, or a dirty     *)
(* block that went back to memory first), no way holds its block then.     *)
THEOREM InvalidatedIsGoneCorrect == Spec => InvalidatedIsGone
<1>1. CacheInv /\ [Next]_vars =>
        [req.op = "Invalidate" /\ state # "Idle" /\ state' = "Idle" =>
           \A w \in Way : ~ (validRam'[index][w] /\ tagRam'[index][w] = tag)]_vars
  <2> SUFFICES ASSUME CacheInv, Next, req.op = "Invalidate", state # "Idle", state' = "Idle",
                      NEW w \in Way
               PROVE  ~ (validRam'[index][w] /\ tagRam'[index][w] = tag)
    OBVIOUS
  <2>1. TypeInv /\ LinesInv
    BY DEF CacheInv, LinesInv
  <2> QED  BY <2>1, InvalidationEnds
<1> QED  BY <1>1, CacheCorrect, PTL DEF Spec, InvalidatedIsGone


-----------------------------------------------------------------------------
(* Where the word of an address is.                                        *)

Leaves(a) == leaving /\ release.tag = a[1] /\ a[2] = index
Awaits(a) == coming /\ req.op = "Write" /\ a = req.a
Holds(w, a) == validRam[a[2]][w] /\ tagRam[a[2]][w] = a[1] /\ ~filling(w, a[2])

(* A block that leaves is read from the line it leaves; a word that a      *)
(* write waits for is in memory under that write; else the one way that    *)
(* holds the block has the word, or memory has.                            *)
Word(a) ==
  /\ Leaves(a) => wordOf(a) = dataRam[<<way, index, a[3]>>]
  /\ Awaits(a) => wordOf(a) = merged(mem[a], req.data, req.mask)
  /\ ~Leaves(a) /\ ~Awaits(a) =>
       /\ \A w \in Way : Holds(w, a) => wordOf(a) = dataRam[<<w, a[2], a[3]>>]
       /\ (\A w \in Way : ~Holds(w, a)) => wordOf(a) = mem[a]

AllWords == \A a \in Address : Word(a)

LEMMA ReleasedTag ==
  ASSUME TypeInv, LinesInv, NEW a \in Address
  PROVE  /\ busy /\ release.tag = a[1] /\ a[2] = index <=> Leaves(a)
         /\ busy /\ req.op = "Write" /\ a = req.a <=> Awaits(a)
         /\ ~(Leaves(a) /\ Awaits(a))
<1>1. a[1] \in Tag /\ NoTag \notin Tag
  BY BCacheAssumption DEF Address, Tag, NoTag
<1>2. busy <=> leaving \/ coming
  BY DEF busy, leaving, coming
<1>3. ~leaving => release.tag = NoTag
  BY DEF LinesInv, ControlInv, Released
<1>4. busy /\ release.tag = a[1] /\ a[2] = index <=> Leaves(a)
  BY <1>1, <1>2, <1>3 DEF Leaves
<1>5. busy /\ req.op = "Write" => coming
  BY DEF busy, coming, LinesInv, ControlInv
<1>6. busy /\ req.op = "Write" /\ a = req.a <=> Awaits(a)
  BY <1>2, <1>5 DEF Awaits
<1>7. ASSUME Leaves(a), Awaits(a) PROVE FALSE
  <2>1. leaving /\ coming /\ release.tag = tag /\ state # "Idle"
    BY <1>7 DEF Leaves, Awaits, tag, leaving
  <2>2. way \in Way
    BY <2>1, Serving
  <2> QED  BY <2>1, <2>2 DEF LinesInv, LeavingInv, FillingInv
<1> QED  BY <1>4, <1>6, <1>7

LEMMA WordIs ==
  ASSUME TypeInv, LinesInv, NEW a \in Address
  PROVE  Word(a)
<1>0. a[1] \in Tag /\ a[2] \in Index /\ a[3] \in Offset
  BY DEF Address
<1>1. /\ busy /\ release.tag = a[1] /\ a[2] = index <=> Leaves(a)
      /\ busy /\ req.op = "Write" /\ a = req.a <=> Awaits(a)
      /\ ~(Leaves(a) /\ Awaits(a))
  BY ReleasedTag
<1>2. Leaves(a) => wordOf(a) = dataRam[<<way, index, a[3]>>]
  BY <1>1 DEF wordOf
<1>3. Awaits(a) => wordOf(a) = merged(mem[a], req.data, req.mask)
  BY <1>1 DEF wordOf
<1>4. ASSUME ~Leaves(a), ~Awaits(a) 
      PROVE  /\ \A w \in Way : Holds(w, a) => wordOf(a) = dataRam[<<w, a[2], a[3]>>]
             /\ (\A w \in Way : ~Holds(w, a)) => wordOf(a) = mem[a]
  <2> DEFINE holders == {w \in Way : validRam[a[2]][w] /\ tagRam[a[2]][w] = a[1]}
  <2>1. wordOf(a) = IF holders # {} /\ ~ \E w \in holders : filling(w, a[2])
                    THEN dataRam[<<CHOOSE w \in holders : TRUE, a[2], a[3]>>]
                    ELSE mem[a]
    BY <1>1, <1>4 DEF wordOf
  <2>2. ASSUME NEW w \in Way, Holds(w, a) PROVE wordOf(a) = dataRam[<<w, a[2], a[3]>>]
    <3>1. holders = {w}
      BY <1>0, <2>2 DEF Holds, LinesInv, OneWayPerBlock
    <3>2. ~filling(w, a[2])
      BY <2>2 DEF Holds
    <3>3. (CHOOSE v \in holders : TRUE) = w
      BY <3>1
    <3> HIDE DEF holders
    <3> QED  BY <2>1, <3>1, <3>2, <3>3
  <2>3. ASSUME \A w \in Way : ~Holds(w, a) PROVE wordOf(a) = mem[a]
    BY <2>1, <2>3 DEF Holds
  <2> QED  BY <2>2, <2>3
<1> QED  BY <1>2, <1>3, <1>4 DEF Word


LEMMA WordsAre == TypeInv /\ LinesInv => AllWords
BY WordIs DEF AllWords

LEMMA WordsBoth ==
  ASSUME TypeInv, LinesInv, TypeInv', LinesInv'
  PROVE  AllWords /\ AllWords'
BY WordsAre, PTL

(* What a step does to the words.                                          *)
SameWords == \A a \in Address : wordOf(a)' = wordOf(a)
WroteWord ==
  \A a \in Address : wordOf(a)' = IF a = req.a THEN merged(wordOf(a), req.data, req.mask)
                                              ELSE wordOf(a)

LEMMA WordsFrame ==
  ASSUME UNCHANGED <<tagRam, validRam, dataRam, state, req, mem>>, release'.tag = release.tag
  PROVE  SameWords
BY DEF SameWords, wordOf, busy, filling, way, index

LEMMA WordsQuiet ==
  ASSUME quiet, quiet', UNCHANGED <<tagRam, validRam, dataRam, mem>>
  PROVE  SameWords
<1>1. ~busy /\ ~busy' /\ \A w, i : ~filling(w, i) /\ ~filling(w, i)'
  BY DEF quiet, busy, filling
<1> QED  BY <1>1 DEF SameWords, wordOf

(* No block moves.                                                         *)
LEMMA QuietWord ==
  ASSUME quiet, AllWords, NEW a \in Address
  PROVE  /\ \A w \in Way : validRam[a[2]][w] /\ tagRam[a[2]][w] = a[1] =>
                             wordOf(a) = dataRam[<<w, a[2], a[3]>>]
         /\ (\A w \in Way : ~(validRam[a[2]][w] /\ tagRam[a[2]][w] = a[1])) => wordOf(a) = mem[a]
<1>1. ~Leaves(a) /\ ~Awaits(a) /\ \A w : ~filling(w, a[2])
  BY DEF quiet, Leaves, Awaits, leaving, coming, filling
<1> QED  BY <1>1 DEF AllWords, Word, Holds

QuietWords ==
  \A a \in Address :
    /\ \A w \in Way : validRam[a[2]][w] /\ tagRam[a[2]][w] = a[1] =>
                        wordOf(a) = dataRam[<<w, a[2], a[3]>>]
    /\ (\A w \in Way : ~(validRam[a[2]][w] /\ tagRam[a[2]][w] = a[1])) => wordOf(a) = mem[a]

LEMMA QuietWordsAre == quiet /\ AllWords => QuietWords
BY QuietWord DEF QuietWords

LEMMA QuietWordsBefore ==
  ASSUME quiet, AllWords
  PROVE  QuietWords
BY QuietWordsAre

LEMMA QuietWordsAfter ==
  ASSUME quiet', AllWords'
  PROVE  QuietWords'
BY QuietWordsAre, PTL

LEMMA AddressParts ==
  ASSUME NEW a \in Address
  PROVE  a[1] \in Tag /\ a[2] \in Index /\ a[3] \in Offset /\ a = <<a[1], a[2], a[3]>>
BY DEF Address

LEMMA WordsHitWrite ==
  ASSUME TypeInv, LinesInv, hitWrite, AllWords, AllWords'
  PROVE  WroteWord
<1>1. PICK w \in hitWays :
        /\ dataRam' = [dataRam EXCEPT ![line(w)] = merged(@, req.data, req.mask)]
        /\ state' = "Idle" /\ UNCHANGED <<tagRam, validRam>>
  BY DEF hitWrite, done
<1>2. state = "Matching" /\ mem' = mem /\ quiet /\ quiet'
  BY <1>1 DEF hitWrite, matched, quiet
<1>3. QuietWords /\ QuietWords'
  BY <1>2, QuietWordsBefore, QuietWordsAfter
<1>4. /\ w \in Way /\ index \in Index /\ line(w) = <<w, index, offset>> /\ tag \in Tag
      /\ line(w) \in Way \X Index \X Offset /\ req.a = <<tag, index, offset>>
      /\ tagRam[index][w] = tag /\ validRam[index][w]
  BY <1>2, Serving DEF hitWays
<1>5. ASSUME NEW a \in Address
      PROVE  wordOf(a)' = IF a = req.a THEN merged(wordOf(a), req.data, req.mask) ELSE wordOf(a)
  <2>0. a[1] \in Tag /\ a[2] \in Index /\ a[3] \in Offset /\ a = <<a[1], a[2], a[3]>>
    BY AddressParts
  <2>1. CASE a = req.a
    <3>1. a[1] = tag /\ a[2] = index /\ a[3] = offset
      BY <1>4, <2>1
    <3>2. wordOf(a) = dataRam[line(w)] /\ wordOf(a)' = dataRam'[line(w)]
      BY <1>1, <1>3, <1>4, <3>1 DEF QuietWords
    <3>3. dataRam'[line(w)] = merged(dataRam[line(w)], req.data, req.mask)
      BY <1>1, <1>4 DEF TypeInv
    <3> QED  BY <2>1, <3>2, <3>3
  <2>2. CASE a # req.a /\ \E v \in Way : validRam[a[2]][v] /\ tagRam[a[2]][v] = a[1]
    <3>1. PICK v \in Way : validRam[a[2]][v] /\ tagRam[a[2]][v] = a[1]
      BY <2>2
    <3>2. wordOf(a) = dataRam[<<v, a[2], a[3]>>] /\ wordOf(a)' = dataRam'[<<v, a[2], a[3]>>]
      BY <1>1, <1>3, <3>1 DEF QuietWords
    <3>3. <<v, a[2], a[3]>> # line(w) /\ <<v, a[2], a[3]>> \in Way \X Index \X Offset
      BY <1>4, <2>0, <2>2, <3>1
    <3> QED  BY <1>1, <2>2, <3>2, <3>3 DEF TypeInv
  <2>3. CASE a # req.a /\ ~ \E v \in Way : validRam[a[2]][v] /\ tagRam[a[2]][v] = a[1]
    BY <1>1, <1>2, <1>3, <2>3 DEF QuietWords
  <2> QED  BY <2>1, <2>2, <2>3
<1> QED  BY <1>5 DEF WroteWord

(* The words of a block that is dropped or on its way to memory.           *)
LEMMA WordsHitInvalidate ==
  ASSUME TypeInv, LinesInv, hitInvalidate, AllWords, LinesInv', AllWords'
  PROVE  SameWords
<1>1. state = "Matching" /\ req.op = "Invalidate" /\ mem' = mem /\ quiet
  BY DEF hitInvalidate, matched, quiet
<1>2. PICK w \in hitWays :
        \/ doMiss(w) /\ releaseBlock(w) /\ state' = "Release"
        \/ /\ validRam' = [validRam EXCEPT ![index][w] = FALSE] /\ state' = "Idle"
           /\ ~dirtyRam[index][w] /\ UNCHANGED <<tagRam, dirtyRam, dataRam>>
  BY DEF hitInvalidate, done
<1>3. index \in Index /\ tag \in Tag
  BY <1>1, Serving
<1>4. /\ w \in Way /\ validRam[index][w] /\ tagRam[index][w] = tag
      /\ \A v \in Way : validRam[index][v] /\ tagRam[index][v] = tag => v = w
  BY <1>1, HitIsOne
<1>5. QuietWords
  BY <1>1, QuietWordsBefore
<1>6. CASE doMiss(w) /\ releaseBlock(w) /\ state' = "Release"
  <2>1. Replaced(w)
    BY <1>1, <1>4, <1>6, MissReplaces
  <2>2. release'.tag = tag
    BY <1>4, <1>6 DEF releaseBlock
  <2>3. \A v, i : ~filling(v, i)'
    BY <1>6 DEF filling
  <2>4. ASSUME NEW a \in Address PROVE wordOf(a)' = wordOf(a)
    <3>0. a[1] \in Tag /\ a[2] \in Index /\ a[3] \in Offset
      BY AddressParts
    <3>1. ~Awaits(a)' /\ (Leaves(a)' <=> a[1] = tag /\ a[2] = index)
      BY <1>6, <2>1, <2>2 DEF Awaits, Leaves, coming, leaving, Replaced
    <3>2. CASE a[1] = tag /\ a[2] = index
      <4>1. wordOf(a)' = dataRam'[<<way', index', a[3]>>]
        BY <3>1, <3>2 DEF AllWords, Word
      <4>2. wordOf(a) = dataRam[<<w, a[2], a[3]>>]
        BY <1>4, <1>5, <3>2 DEF QuietWords
      <4> QED  BY <2>1, <3>2, <4>1, <4>2 DEF Replaced
    <3>3. CASE ~(a[1] = tag /\ a[2] = index)
      <4>1. \A v \in Way : validRam'[a[2]][v] /\ tagRam'[a[2]][v] = a[1]
                             <=> validRam[a[2]][v] /\ tagRam[a[2]][v] = a[1]
        BY <1>1, <1>4, <2>1, <3>0, <3>3 DEF Replaced
      <4>2. \A v \in Way : Holds(v, a)' <=> validRam[a[2]][v] /\ tagRam[a[2]][v] = a[1]
        BY <2>3, <4>1 DEF Holds
      <4>3. /\ \A v \in Way : Holds(v, a)' => wordOf(a)' = dataRam'[<<v, a[2], a[3]>>]
            /\ (\A v \in Way : ~Holds(v, a)') => wordOf(a)' = mem'[a]
        BY <3>1, <3>3 DEF AllWords, Word
      <4>4. dataRam' = dataRam
        BY <2>1 DEF Replaced
      <4>5. /\ \A v \in Way : Holds(v, a)' => wordOf(a) = dataRam[<<v, a[2], a[3]>>]
            /\ (\A v \in Way : ~Holds(v, a)') => wordOf(a) = mem[a]
        BY <1>5, <4>2 DEF QuietWords
      <4>6. CASE \E v \in Way : Holds(v, a)'
        BY <4>3, <4>4, <4>5, <4>6
      <4>7. CASE \A v \in Way : ~Holds(v, a)'
        BY <1>1, <4>3, <4>5, <4>7
      <4> QED  BY <4>6, <4>7
    <3> QED  BY <3>2, <3>3
  <2> QED  BY <2>4 DEF SameWords
<1>7. CASE /\ validRam' = [validRam EXCEPT ![index][w] = FALSE] /\ state' = "Idle"
           /\ ~dirtyRam[index][w] /\ UNCHANGED <<tagRam, dirtyRam, dataRam>>
  <2>1. QuietWords'
    BY <1>7, QuietWordsAfter DEF quiet
  <2>2. ASSUME NEW a \in Address PROVE wordOf(a)' = wordOf(a)
    <3>0. a[1] \in Tag /\ a[2] \in Index /\ a[3] \in Offset /\ a = <<a[1], a[2], a[3]>>
      BY AddressParts
    <3>1. CASE a[1] = tag /\ a[2] = index
      <4>1. \A v \in Way : ~(validRam'[a[2]][v] /\ tagRam'[a[2]][v] = a[1])
        BY <1>3, <1>4, <1>7, <3>1 DEF TypeInv
      <4>2. wordOf(a)' = mem[a]
        BY <1>1, <2>1, <4>1 DEF QuietWords
      <4>3. wordOf(a) = dataRam[<<w, index, a[3]>>]
        BY <1>4, <1>5, <3>1 DEF QuietWords
      <4>4. ~filling(w, index)
        BY <1>1 DEF filling
      <4>5. dataRam[<<w, index, a[3]>>] = mem[<<tag, index, a[3]>>]
        BY <1>3, <1>4, <1>7, <3>0, <4>4 DEF LinesInv, CleanIsInMemory
      <4> QED  BY <3>0, <3>1, <4>2, <4>3, <4>5
    <3>2. CASE ~(a[1] = tag /\ a[2] = index)
      <4>1. \A v \in Way : validRam'[a[2]][v] /\ tagRam'[a[2]][v] = a[1]
                             <=> validRam[a[2]][v] /\ tagRam[a[2]][v] = a[1]
        BY <1>3, <1>4, <1>7, <3>0, <3>2 DEF TypeInv
      <4>2. CASE \E v \in Way : validRam[a[2]][v] /\ tagRam[a[2]][v] = a[1]
        <5>1. PICK v \in Way : validRam[a[2]][v] /\ tagRam[a[2]][v] = a[1]
          BY <4>2
        <5>2. wordOf(a) = dataRam[<<v, a[2], a[3]>>]
          BY <1>5, <5>1 DEF QuietWords
        <5>3. wordOf(a)' = dataRam'[<<v, a[2], a[3]>>]
          BY <2>1, <4>1, <5>1 DEF QuietWords
        <5> QED  BY <1>7, <5>2, <5>3
      <4>3. CASE \A v \in Way : ~(validRam[a[2]][v] /\ tagRam[a[2]][v] = a[1])
        BY <1>1, <1>5, <2>1, <4>1, <4>3 DEF QuietWords
      <4> QED  BY <4>2, <4>3
    <3> QED  BY <3>1, <3>2
  <2> QED  BY <2>2 DEF SameWords
<1> QED  BY <1>2, <1>6, <1>7


LEMMA StoredSame ==
  ASSUME AllWords, AllWords', NEW a \in Address,
         ~Leaves(a), ~Leaves(a)', ~Awaits(a), ~Awaits(a)',
         \A v \in Way : Holds(v, a)' <=> Holds(v, a),
         \A v \in Way : Holds(v, a) => dataRam'[<<v, a[2], a[3]>>] = dataRam[<<v, a[2], a[3]>>],
         mem'[a] = mem[a]
  PROVE  wordOf(a)' = wordOf(a)
<1>1. /\ \A v \in Way : Holds(v, a) => wordOf(a) = dataRam[<<v, a[2], a[3]>>]
      /\ (\A v \in Way : ~Holds(v, a)) => wordOf(a) = mem[a]
  BY DEF AllWords, Word
<1>2. /\ \A v \in Way : Holds(v, a)' => wordOf(a)' = dataRam'[<<v, a[2], a[3]>>]
      /\ (\A v \in Way : ~Holds(v, a)') => wordOf(a)' = mem'[a]
  BY DEF AllWords, Word
<1>3. CASE \E v \in Way : Holds(v, a)
  <2>1. PICK v \in Way : Holds(v, a)
    BY <1>3
  <2>2. wordOf(a) = dataRam[<<v, a[2], a[3]>>]
    BY <1>1, <2>1
  <2>3. wordOf(a)' = dataRam'[<<v, a[2], a[3]>>]
    BY <1>2, <2>1
  <2> QED  BY <2>1, <2>2, <2>3
<1>4. CASE \A v \in Way : ~Holds(v, a)
  BY <1>1, <1>2, <1>4
<1> QED  BY <1>3, <1>4

(* A miss gives the way of its victim to the block of the request: the     *)
(* victim is read from its line until it has gone, and the new block from  *)
(* memory until it has come.                                               *)
LEMMA WordsMiss ==
  ASSUME TypeInv, LinesInv, miss, AllWords, LinesInv', AllWords'
  PROVE  \A a \in Address :
           wordOf(a)' = IF req.op = "Write" /\ a = req.a THEN merged(wordOf(a), req.data, req.mask)
                        ELSE wordOf(a)
<1>1. /\ state = "Matching" /\ req.op # "Invalidate" /\ hitWays = {} /\ mem' = mem /\ quiet
  BY DEF miss, matched, quiet
<1>2. PICK w \in Way :
        /\ doMiss(w)
        /\ \/ mustRelease(w) /\ releaseBlock(w) /\ state' = "AcqRel"
           \/ ~mustRelease(w) /\ state' = "Acquire" /\ UNCHANGED release
  BY DEF miss
<1>3. Replaced(w)
  BY <1>1, <1>2, MissReplaces
<1>4. index \in Index /\ tag \in Tag /\ req.a = <<tag, index, offset>>
  BY <1>1, Serving
<1>5. release = Released /\ \A v, i : ~filling(v, i)
  BY <1>1, Quiet
<1>6. \A v \in Way : validRam[index][v] => tagRam[index][v] # tag
  BY <1>1 DEF hitWays
<1>7. QuietWords
  BY <1>1, QuietWordsBefore
<1>8. /\ coming' /\ \A v, i : filling(v, i)' <=> v = w /\ i = index
      /\ dataRam' = dataRam /\ way' = w /\ index' = index
  BY <1>2, <1>3 DEF coming, filling, Replaced
<1>9. \A a : Awaits(a)' <=> req.op = "Write" /\ a = req.a
  BY <1>3, <1>8 DEF Awaits, Replaced
<1>10. \A a \in Address : Leaves(a)' <=>
          mustRelease(w) /\ validRam[index][w] /\ a[1] = tagRam[index][w] /\ a[2] = index
  <2>1. CASE mustRelease(w)
    <3>1. release'.tag = tagRam[index][w] /\ leaving'
      BY <1>2, <2>1 DEF releaseBlock, leaving
    <3> QED  BY <1>8, <2>1, <3>1 DEF Leaves, mustRelease
  <2>2. CASE ~mustRelease(w)
    BY <1>2, <2>2 DEF Leaves, leaving
  <2> QED  BY <2>1, <2>2
<1>11. ASSUME NEW a \in Address
       PROVE  wordOf(a)' = IF req.op = "Write" /\ a = req.a
                           THEN merged(wordOf(a), req.data, req.mask) ELSE wordOf(a)
  <2>0. a[1] \in Tag /\ a[2] \in Index /\ a[3] \in Offset /\ a = <<a[1], a[2], a[3]>>
    BY AddressParts
  <2>1. CASE a[1] = tag /\ a[2] = index
    <3>1. wordOf(a) = mem[a]
      BY <1>6, <1>7, <2>1 DEF QuietWords
    <3>2. ~Leaves(a)' /\ \A v \in Way : ~Holds(v, a)'
      <4>1. ~Leaves(a)'
        BY <1>6, <1>10, <2>1
      <4>2. ASSUME NEW v \in Way, Holds(v, a)' PROVE FALSE
        <5>1. validRam'[index][v] /\ tagRam'[index][v] = tag /\ v # w
          BY <1>8, <2>1, <4>2 DEF Holds
        <5> QED  BY <1>3, <1>4, <1>6, <5>1 DEF Replaced
      <4> QED  BY <4>1, <4>2
    <3>3. CASE req.op = "Write" /\ a = req.a
      <4>1. wordOf(a)' = merged(mem'[a], req'.data, req'.mask)
        BY <1>9, <3>3 DEF AllWords, Word
      <4> QED  BY <1>1, <1>3, <3>1, <3>3, <4>1 DEF Replaced
    <3>4. CASE ~(req.op = "Write" /\ a = req.a)
      <4>1. wordOf(a)' = mem'[a]
        BY <1>9, <3>2, <3>4 DEF AllWords, Word
      <4> QED  BY <1>1, <3>1, <3>4, <4>1
    <3> QED  BY <3>3, <3>4
  <2>2. CASE validRam[index][w] /\ a[1] = tagRam[index][w] /\ a[2] = index
    <3>1. a # req.a
      BY <1>4, <1>6, <2>2
    <3>2. wordOf(a) = dataRam[<<w, index, a[3]>>]
      BY <1>7, <2>2 DEF QuietWords
    <3>3. CASE mustRelease(w)
      <4>1. wordOf(a)' = dataRam'[<<way', index', a[3]>>]
        BY <1>10, <2>2, <3>3 DEF AllWords, Word
      <4> QED  BY <1>8, <3>1, <3>2, <4>1
    <3>4. CASE ~mustRelease(w)
      <4>1. ~dirtyRam[index][w]
        BY <2>2, <3>4 DEF mustRelease
      <4>2. dataRam[<<w, index, a[3]>>] = mem[<<tagRam[index][w], index, a[3]>>]
        BY <1>4, <1>5, <2>0, <2>2, <4>1 DEF LinesInv, CleanIsInMemory
      <4>3. ASSUME NEW v \in Way, Holds(v, a)' PROVE FALSE
        <5>1. validRam'[index][v] /\ tagRam'[index][v] = tagRam[index][w] /\ v # w
          BY <1>8, <2>2, <4>3 DEF Holds
        <5>2. validRam[index][v] /\ tagRam[index][v] = tagRam[index][w]
          BY <1>3, <1>4, <5>1 DEF Replaced
        <5> QED  BY <1>4, <2>2, <5>1, <5>2 DEF LinesInv, OneWayPerBlock
      <4>4. wordOf(a)' = mem'[a]
        BY <1>9, <1>10, <3>1, <3>4, <4>3 DEF AllWords, Word
      <4> QED  BY <1>1, <2>0, <2>2, <3>1, <3>2, <4>2, <4>4
    <3> QED  BY <3>3, <3>4
  <2>3. CASE /\ ~(a[1] = tag /\ a[2] = index)
             /\ ~(validRam[index][w] /\ a[1] = tagRam[index][w] /\ a[2] = index)
    <3>1. a # req.a /\ ~Leaves(a)' /\ ~Awaits(a)'
      BY <1>4, <1>9, <1>10, <2>3
    <3>2. ~Leaves(a) /\ ~Awaits(a)
      BY <1>1 DEF Leaves, Awaits, leaving, coming
    <3>3. ASSUME NEW v \in Way PROVE Holds(v, a)' <=> Holds(v, a)
      <4>1. CASE v = w /\ a[2] = index
        BY <1>8, <2>3, <4>1 DEF Holds
      <4>2. CASE v # w \/ a[2] # index
        BY <1>3, <1>5, <1>8, <2>0, <4>2 DEF Holds, Replaced
      <4> QED  BY <4>1, <4>2
    <3>4. wordOf(a)' = wordOf(a)
      BY <1>1, <1>8, <3>1, <3>2, <3>3, StoredSame
    <3> QED  BY <3>1, <3>4
  <2> QED  BY <2>1, <2>2, <2>3
<1> QED  BY <1>11

LEMMA WordsSendWord ==
  ASSUME TypeInv, LinesInv, sendWord, AllWords, AllWords'
  PROVE  SameWords
<1>1. /\ UNCHANGED <<tagRam, validRam, dirtyRam, dataRam, state, req>> /\ release.left > 0
      /\ mem' = [mem EXCEPT ![<<release.tag, index, Words - release.left>>] = out[1][2]]
      /\ release' = [release EXCEPT !.left = @ - 1]
  BY DEF sendWord, meta, buffers
<1>2. leaving
  BY <1>1 DEF LinesInv, ControlInv, Released
<1>3. release'.tag = release.tag /\ index' = index /\ way' = way
  BY <1>1 DEF TypeInv, index, way
<1>4. ASSUME NEW a \in Address PROVE wordOf(a)' = wordOf(a)
  <2>1. /\ (Leaves(a)' <=> Leaves(a)) /\ (Awaits(a)' <=> Awaits(a))
        /\ \A v : Holds(v, a)' <=> Holds(v, a)
    BY <1>1, <1>3 DEF Leaves, leaving, Awaits, coming, Holds, filling
  <2>2. CASE Leaves(a)
    BY <1>1, <1>3, <2>1, <2>2 DEF AllWords, Word
  <2>3. CASE ~Leaves(a)
    <3>1. a # <<release.tag, index, Words - release.left>>
      BY <1>2, <2>3 DEF Leaves
    <3>2. mem'[a] = mem[a]
      BY <1>1, <3>1 DEF TypeInv
    <3>3. CASE Awaits(a)
      <4>1. wordOf(a) = merged(mem[a], req.data, req.mask)
        BY <3>3 DEF AllWords, Word
      <4>2. wordOf(a)' = merged(mem'[a], req'.data, req'.mask)
        BY <2>1, <3>3 DEF AllWords, Word
      <4> QED  BY <1>1, <3>2, <4>1, <4>2
    <3>4. CASE ~Awaits(a)
      BY <1>1, <2>1, <2>3, <3>2, <3>4, StoredSame
    <3> QED  BY <3>3, <3>4
  <2> QED  BY <2>2, <2>3
<1> QED  BY <1>4 DEF SameWords

(* The last word of the victim has gone: memory has the block.             *)
LEMMA WordsReleased ==
  ASSUME TypeInv, LinesInv, releaseBlockAck \/ releaseBlockAckInv, AllWords, AllWords'
  PROVE  SameWords
<1>1. /\ UNCHANGED <<tagRam, validRam, dirtyRam, dataRam, mem>> /\ release.acked
      /\ leaving /\ ~leaving' /\ state # "Idle"
      /\ \/ state = "AcqRel" /\ state' = "Acquire" /\ req' = req
         \/ state = "Release" /\ state' = "Idle"
  BY DEF releaseBlockAck, releaseBlockAckInv, meta, leaving, done
<1>2. release.left = 0 /\ Words \in Nat
  BY <1>1, BCacheAssumption DEF LinesInv, ControlInv
<1>3. Offset = 0 .. Words - release.left - 1
  BY <1>2 DEF Offset
<1>4. \A v, i : filling(v, i)' <=> filling(v, i)
  BY <1>1 DEF filling, way, index
<1>5. \A a : Awaits(a)' <=> Awaits(a)
  BY <1>1 DEF Awaits, coming
<1>6. ASSUME NEW a \in Address PROVE wordOf(a)' = wordOf(a)
  <2>0. a[1] \in Tag /\ a[2] \in Index /\ a[3] \in Offset /\ a = <<a[1], a[2], a[3]>>
    BY AddressParts
  <2>1. ~Leaves(a)' /\ \A v : Holds(v, a)' <=> Holds(v, a)
    BY <1>1, <1>4 DEF Leaves, Holds
  <2>2. CASE Leaves(a)
    <3>1. ~Awaits(a) /\ ~Awaits(a)'
      BY <1>5, <2>2, ReleasedTag
    <3>2. \A v \in Way : ~Holds(v, a)
      BY <1>1, <2>2 DEF Leaves, Holds, LinesInv, LeavingInv
    <3>3. wordOf(a)' = mem'[a]
      BY <2>1, <3>1, <3>2 DEF AllWords, Word
    <3>4. wordOf(a) = dataRam[<<way, index, a[3]>>]
      BY <2>2 DEF AllWords, Word
    <3>5. mem[<<release.tag, index, a[3]>>] = dataRam[<<way, index, a[3]>>]
      BY <1>1, <1>3, <2>0 DEF LinesInv, MovedInv
    <3> QED  BY <1>1, <2>0, <2>2, <3>3, <3>4, <3>5 DEF Leaves
  <2>3. CASE ~Leaves(a) /\ ~Awaits(a)
    BY <1>1, <1>5, <2>1, <2>3, StoredSame
  <2>4. CASE Awaits(a)
    <3>1. req' = req
      BY <1>1, <2>4 DEF Awaits, coming
    <3> QED  BY <1>1, <1>5, <2>4, <3>1 DEF AllWords, Word
  <2> QED  BY <2>2, <2>3, <2>4
<1> QED  BY <1>6 DEF SameWords

LEMMA WordsReceiveWord ==
  ASSUME TypeInv, LinesInv, receiveWord, AllWords, AllWords'
  PROVE  SameWords
<1>1. /\ UNCHANGED <<tagRam, validRam, state, req, release, mem>> /\ acquire > 0
      /\ dataRam' = [dataRam EXCEPT ![<<way, index, Words - acquire>>] =
                       mem[<<tag, index, Words - acquire>>]]
  BY DEF receiveWord, meta
<1>2. state = "Acquire"
  BY <1>1 DEF LinesInv, ControlInv
<1>3. ASSUME NEW a \in Address PROVE wordOf(a)' = wordOf(a)
  <2>0. a[1] \in Tag /\ a[2] \in Index /\ a[3] \in Offset /\ a = <<a[1], a[2], a[3]>>
    BY AddressParts
  <2>1. /\ ~Leaves(a) /\ ~Leaves(a)' /\ (Awaits(a)' <=> Awaits(a))
        /\ \A v : Holds(v, a)' <=> Holds(v, a)
    BY <1>1, <1>2 DEF Leaves, leaving, Awaits, coming, Holds, filling, way, index
  <2>2. CASE Awaits(a)
    BY <1>1, <2>1, <2>2 DEF AllWords, Word
  <2>3. CASE ~Awaits(a)
    <3>1. ASSUME NEW v \in Way, Holds(v, a)
          PROVE  dataRam'[<<v, a[2], a[3]>>] = dataRam[<<v, a[2], a[3]>>]
      <4>1. <<v, a[2], a[3]>> # <<way, index, Words - acquire>>
        BY <1>2, <3>1 DEF Holds, filling
      <4>2. <<v, a[2], a[3]>> \in Way \X Index \X Offset
        BY <2>0
      <4> QED  BY <1>1, <4>1, <4>2 DEF TypeInv
    <3> QED  BY <1>1, <2>1, <2>3, <3>1, StoredSame
  <2> QED  BY <2>2, <2>3
<1> QED  BY <1>3 DEF SameWords

(* The block has come: its line takes over from memory, with the write     *)
(* that waited for it.                                                     *)
LEMMA WordsAcquired ==
  ASSUME TypeInv, LinesInv, acquireBlockAck, AllWords, AllWords'
  PROVE  SameWords
<1>1. /\ UNCHANGED <<tagRam, validRam, mem>> /\ state = "Acquire" /\ acquire = 0 /\ state' = "Idle"
      /\ \/ req.op = "Read" /\ dataRam' = dataRam
         \/ /\ req.op = "Write"
            /\ dataRam' = [dataRam EXCEPT ![line(way)] = merged(@, req.data, req.mask)]
  BY DEF acquireBlockAck, meta, done
<1>2. /\ index \in Index /\ way \in Way /\ tag \in Tag /\ line(way) = <<way, index, offset>>
      /\ offset \in Offset /\ req.a = <<tag, index, offset>>
      /\ line(way) \in Way \X Index \X Offset
  BY <1>1, Serving
<1>3. validRam[index][way] /\ tagRam[index][way] = tag
  BY <1>1 DEF LinesInv, FillingInv, coming
<1>4. QuietWords'
  BY <1>1, QuietWordsAfter DEF quiet
<1>5. \A o \in Offset : dataRam[<<way, index, o>>] = mem[<<tag, index, o>>]
  BY <1>1, BlockHasCome
<1>6. \A v, i : /\ filling(v, i) <=> v = way /\ i = index
                /\ ~filling(v, i)'
  BY <1>1 DEF filling
<1>7. ASSUME NEW a \in Address PROVE wordOf(a)' = wordOf(a)
  <2>0. a[1] \in Tag /\ a[2] \in Index /\ a[3] \in Offset /\ a = <<a[1], a[2], a[3]>>
    BY AddressParts
  <2>1. ~Leaves(a) /\ ~Leaves(a)' /\ ~Awaits(a)' /\ (Awaits(a) <=> req.op = "Write" /\ a = req.a)
    BY <1>1 DEF Leaves, leaving, Awaits, coming
  <2>2. CASE a[1] = tag /\ a[2] = index
    <3>1. wordOf(a)' = dataRam'[<<way, index, a[3]>>]
      BY <1>1, <1>2, <1>3, <1>4, <2>2 DEF QuietWords
    <3>2. dataRam[<<way, index, a[3]>>] = mem[a]
      BY <1>5, <2>0, <2>2
    <3>3. CASE Awaits(a)
      <4>1. wordOf(a) = merged(mem[a], req.data, req.mask)
        BY <3>3 DEF AllWords, Word
      <4>2. a[3] = offset /\ req.op = "Write"
        BY <1>2, <2>1, <3>3
      <4>3. dataRam'[line(way)] = merged(dataRam[line(way)], req.data, req.mask)
        BY <1>1, <1>2, <4>2 DEF TypeInv
      <4> QED  BY <1>2, <3>1, <3>2, <4>1, <4>2, <4>3
    <3>4. CASE ~Awaits(a)
      <4>1. \A v \in Way : ~Holds(v, a)
        BY <1>2, <1>3, <1>6, <2>2 DEF Holds, LinesInv, OneWayPerBlock
      <4>2. wordOf(a) = mem[a]
        BY <2>1, <3>4, <4>1 DEF AllWords, Word
      <4>3. dataRam'[<<way, index, a[3]>>] = dataRam[<<way, index, a[3]>>]
        <5>1. CASE dataRam' = dataRam
          BY <5>1
        <5>2. CASE /\ req.op = "Write"
                   /\ dataRam' = [dataRam EXCEPT ![line(way)] = merged(@, req.data, req.mask)]
          <6>1. a[3] # offset
            BY <1>2, <2>0, <2>1, <2>2, <3>4, <5>2
          <6>2. <<way, index, a[3]>> # line(way) /\ <<way, index, a[3]>> \in Way \X Index \X Offset
            BY <1>2, <2>0, <6>1
          <6> QED  BY <5>2, <6>2 DEF TypeInv
        <5> QED  BY <1>1, <5>1, <5>2
      <4> QED  BY <3>1, <3>2, <4>2, <4>3
    <3> QED  BY <3>3, <3>4
  <2>3. CASE ~(a[1] = tag /\ a[2] = index)
    <3>1. ~Awaits(a)
      BY <1>2, <2>1, <2>3
    <3>2. \A v \in Way : Holds(v, a)' <=> Holds(v, a)
      BY <1>1, <1>3, <1>6, <2>3 DEF Holds
    <3>3. ASSUME NEW v \in Way, Holds(v, a)
          PROVE  dataRam'[<<v, a[2], a[3]>>] = dataRam[<<v, a[2], a[3]>>]
      <4>1. <<v, a[2], a[3]>> # line(way) /\ <<v, a[2], a[3]>> \in Way \X Index \X Offset
        BY <1>2, <1>6, <2>0, <3>3 DEF Holds
      <4> QED  BY <1>1, <4>1 DEF TypeInv
    <3> QED  BY <1>1, <2>1, <3>1, <3>2, <3>3, StoredSame
  <2> QED  BY <2>2, <2>3
<1> QED  BY <1>7 DEF SameWords


-----------------------------------------------------------------------------
(* The answers owed to the processor.                                      *)

Returned == IF out # <<>> /\ out[1][1] = "cpu" THEN << out[1][2] >> ELSE <<>>
Awaited == IF busy /\ req.op = "Read" THEN << wordOf(req.a) >> ELSE <<>>
Owed == rresp \o Returned \o Awaited
Contents == [a \in Address |-> wordOf(a)]

(* The answer that waits for its block is what memory has.                 *)
AwaitedIs ==
  Awaited = IF coming /\ req.op = "Read" THEN << mem[req.a] >> ELSE <<>>

LEMMA AwaitedWord ==
  ASSUME TypeInv, LinesInv
  PROVE  AwaitedIs
<1>1. CASE coming /\ req.op = "Read"
  <2>1. busy /\ state # "Idle"
    BY <1>1 DEF busy, coming
  <2>2. /\ req.a \in Address /\ way \in Way /\ index \in Index /\ tag \in Tag
        /\ req.a = <<tag, index, offset>>
    BY <2>1, Serving
  <2>3. req.a[1] = tag /\ req.a[2] = index
    BY DEF tag, index
  <2>4. ~Awaits(req.a)
    BY <1>1 DEF Awaits
  <2>5. validRam[index][way] /\ tagRam[index][way] = tag
    BY <1>1 DEF LinesInv, FillingInv
  <2>6. ~Leaves(req.a)
    BY <2>2, <2>3, <2>5 DEF Leaves, LinesInv, LeavingInv
  <2>7. \A w \in Way : ~Holds(w, req.a)
    BY <1>1, <2>2, <2>3, <2>5 DEF Holds, filling, coming, LinesInv, OneWayPerBlock
  <2>8. Word(req.a)
    BY <2>2, WordIs
  <2>9. wordOf(req.a) = mem[req.a]
    BY <2>4, <2>6, <2>7, <2>8 DEF Word
  <2> QED  BY <1>1, <2>1, <2>9 DEF AwaitedIs, Awaited
<1>2. CASE ~(coming /\ req.op = "Read")
  <2>1. ~(busy /\ req.op = "Read")
    BY <1>2 DEF busy, coming, LinesInv, ControlInv
  <2> QED  BY <1>2, <2>1 DEF AwaitedIs, Awaited
<1> QED  BY <1>1, <1>2

LEMMA AwaitedAre == TypeInv /\ LinesInv => AwaitedIs
BY AwaitedWord

LEMMA AwaitedBoth ==
  ASSUME TypeInv, LinesInv, TypeInv', LinesInv'
  PROVE  AwaitedIs /\ AwaitedIs'
BY AwaitedAre, PTL

LEMMA OwedTypes ==
  ASSUME TypeInv, AwaitedIs
  PROVE  rresp \in Seq(Data) /\ Returned \in Seq(Data) /\ Awaited \in Seq(Data)
<1>1. ASSUME out # <<>> PROVE out[1][2] \in Data
  <2>1. out[1] \in {"cpu", "release"} \X Data
    BY <1>1 DEF TypeInv
  <2> QED  BY <2>1
<1>2. Returned \in Seq(Data)
  BY <1>1 DEF Returned
<1>3. ASSUME coming PROVE mem[req.a] \in Data
  <2>1. req.a \in Address
    BY <1>3, Serving DEF coming
  <2> QED  BY <2>1 DEF TypeInv
<1>4. Awaited \in Seq(Data)
  BY <1>3 DEF AwaitedIs
<1> QED  BY <1>2, <1>4 DEF TypeInv

(* Sequences of answers.                                                   *)
LEMMA OwedNone ==
  ASSUME NEW r \in Seq(Data), NEW s \in Seq(Data)
  PROVE  /\ (r \o <<>>) \o s = r \o s /\ (r \o s) \o <<>> = r \o s
BY ConcatEmptySeq, ConcatProperties

LEMMA OwedAppend ==
  ASSUME NEW r \in Seq(Data), NEW s \in Seq(Data), NEW x \in Data
  PROVE  (r \o s) \o <<x>> = Append((r \o s) \o <<>>, x)
<1>1. r \o s \in Seq(Data)
  BY ConcatProperties
<1> QED  BY <1>1, ConcatEmptySeq, AppendIsConcat

LEMMA OwedMove ==
  ASSUME NEW r \in Seq(Data), NEW s \in Seq(Data), NEW x \in Data
  PROVE  (Append(r, x) \o <<>>) \o s = (r \o <<x>>) \o s
<1>1. Append(r, x) = r \o <<x>> /\ Append(r, x) \in Seq(Data)
  BY AppendIsConcat, AppendProperties
<1> QED  BY <1>1, ConcatEmptySeq

LEMMA OwedTail ==
  ASSUME NEW r \in Seq(Data), NEW s \in Seq(Data), NEW t \in Seq(Data), r # <<>>
  PROVE  (r \o s) \o t # <<>> /\ (Tail(r) \o s) \o t = Tail((r \o s) \o t)
<1>1. ASSUME NEW u \in Seq(Data), NEW v \in Seq(Data), u # <<>>
      PROVE  u \o v # <<>> /\ Tail(u) \o v = Tail(u \o v) /\ u \o v \in Seq(Data)
  <2>1. u \o v \in Seq(Data) /\ Len(u \o v) = Len(u) + Len(v) /\ Len(u) \in Nat \ {0} /\ Len(v) \in Nat
    BY <1>1, ConcatProperties
  <2>2. u \o v # <<>>
    BY <2>1
  <2>3. Tail(u) \in Seq(Data) /\ Len(Tail(u)) = Len(u) - 1
    BY <1>1, HeadTailProperties
  <2>4. Tail(u) \o v \in Seq(Data) /\ Len(Tail(u) \o v) = Len(u) - 1 + Len(v)
    BY <2>1, <2>3, ConcatProperties
  <2>5. Tail(u \o v) \in Seq(Data) /\ Len(Tail(u \o v)) = Len(u) + Len(v) - 1
    BY <2>1, <2>2, HeadTailProperties
  <2>6. ASSUME NEW i \in 1 .. Len(u) + Len(v) - 1
        PROVE  (Tail(u) \o v)[i] = Tail(u \o v)[i]
    <3>1. Tail(u \o v)[i] = (u \o v)[i + 1]
      BY <2>1, <2>2, <2>5, HeadTailProperties
    <3>2. (u \o v)[i + 1] = IF i + 1 <= Len(u) THEN u[i + 1] ELSE v[i + 1 - Len(u)]
      BY <2>1, ConcatProperties
    <3>3. (Tail(u) \o v)[i] = IF i <= Len(u) - 1 THEN Tail(u)[i] ELSE v[i - (Len(u) - 1)]
      BY <2>1, <2>3, ConcatProperties
    <3>4. i <= Len(u) - 1 => Tail(u)[i] = u[i + 1]
      BY <1>1, <2>1, <2>3, HeadTailProperties
    <3>5. (i + 1 <= Len(u) <=> i <= Len(u) - 1) /\ i + 1 - Len(u) = i - (Len(u) - 1)
      BY <2>1
    <3> QED  BY <3>1, <3>2, <3>3, <3>4, <3>5
  <2>7. Tail(u) \o v = Tail(u \o v)
    BY <2>1, <2>4, <2>5, <2>6, SeqEqual
  <2> QED  BY <2>1, <2>2, <2>7
<1>2. r \o s # <<>> /\ Tail(r) \o s = Tail(r \o s) /\ r \o s \in Seq(Data)
  BY <1>1
<1>3. (r \o s) \o t # <<>> /\ Tail(r \o s) \o t = Tail((r \o s) \o t)
  BY <1>1, <1>2
<1> QED  BY <1>2, <1>3


-----------------------------------------------------------------------------
(* The cache is a memory.  Every step does nothing, takes a request, serves *)
(* the read or write that waits, or answers, as CachedMemory does.         *)

Stutters == SameWords /\ Owed' = Owed
Reads    == /\ SameWords /\ Owed' = Append(Owed, wordOf(req.a))
            /\ req.op = "Read" /\ req \in Request
Writes   == WroteWord /\ Owed' = Owed /\ req.op = "Write" /\ req \in Request
Answers  == SameWords /\ Owed # <<>> /\ Owed' = Tail(Owed)

Asks     == waiting = NoReq /\ waiting' \in Cached!ReadRequest \cup Cached!WriteRequest
Served   == state = "Matching" /\ waiting' = NoReq

Stepped ==
  \/ Stutters /\ (waiting' = waiting \/ Asks)
  \/ (Reads \/ Writes) /\ Served
  \/ Answers /\ waiting' = waiting

LEMMA SameContents == SameWords => Contents' = Contents
BY DEF SameWords, Contents

(* Nothing waits but while a request is matched, and then what it asks for *)
(* waits.                                                                  *)
LEMMA NothingWaits == state # "Matching" \/ req.op = "Invalidate" => waiting = NoReq
BY DEF waiting

LEMMA NothingWaitsAfter == state' # "Matching" => waiting' = NoReq
BY DEF waiting

LEMMA WaitingSame == UNCHANGED <<state, req>> => waiting' = waiting
BY DEF waiting

LEMMA ReadWaits ==
  ASSUME state = "Matching", req.op = "Read", req.a \in Address
  PROVE  waiting \in Cached!ReadRequest /\ waiting.a = req.a
BY DEF waiting, Cached!ReadRequest

LEMMA WriteWaits ==
  ASSUME state = "Matching", req.op = "Write", req.a \in Address,
         req.data \in [Byte -> Value], req.mask \in SUBSET Byte
  PROVE  /\ waiting \in Cached!WriteRequest /\ waiting.a = req.a
         /\ waiting.data = req.data /\ waiting.mask = req.mask
BY DEF waiting, Cached!WriteRequest

LEMMA StepsAreCached ==
  ASSUME Stepped
  PROVE  [Cached!CachedAsk \/ Cached!CachedRead \/ Cached!CachedWrite \/ Cached!CachedAnswer]_<<
            Contents, waiting, Owed>>
<1>1. CASE Stutters /\ waiting' = waiting
  BY <1>1, SameContents DEF Stutters
<1>5. CASE Stutters /\ Asks
  <2>1. /\ Contents' = Contents /\ Owed' = Owed /\ waiting = Cached!NoRequest
        /\ waiting' \in Cached!ReadRequest \cup Cached!WriteRequest
    BY <1>5, SameContents DEF Stutters, Asks, Cached!NoRequest, NoReq
  <2>2. Cached!CachedAsk
    BY <2>1 DEF Cached!CachedAsk, Owed, Returned, Awaited, Contents
  <2> QED  BY <2>2
<1>2. CASE Reads /\ Served
  <2>1. /\ Owed' = Append(Owed, wordOf(req.a)) /\ req.a \in Address /\ req.op = "Read"
        /\ state = "Matching" /\ waiting' = Cached!NoRequest
    BY <1>2, RequestParts DEF Reads, Served, Cached!NoRequest, NoReq
  <2>2. Contents' = Contents /\ Contents[req.a] = wordOf(req.a)
    BY <1>2, <2>1, SameContents DEF Reads, Contents
  <2>3. waiting \in Cached!ReadRequest /\ waiting.a = req.a
    BY <2>1, ReadWaits
  <2>4. Owed' = Append(Owed, Contents[waiting.a])
    BY <2>1, <2>2, <2>3
  <2>5. Cached!CachedRead
    BY <2>1, <2>2, <2>3, <2>4 DEF Cached!CachedRead, Owed, Returned, Awaited, Contents
  <2> QED  BY <2>5
<1>3. CASE Writes /\ Served
  <2>1. /\ req.a \in Address /\ req.data \in [Byte -> Value] /\ req.mask \in SUBSET Byte
        /\ Owed' = Owed
    BY <1>3, RequestParts DEF Writes, Data
  <2>2. \A a \in Address : wordOf(a)' =
          IF a = req.a THEN [b \in Byte |-> IF b \in req.mask THEN req.data[b] ELSE wordOf(a)[b]]
                       ELSE wordOf(a)
    BY <1>3 DEF Writes, WroteWord, merged
  <2>3. Contents' = [Contents EXCEPT ![req.a] =
                       [b \in Byte |-> IF b \in req.mask THEN req.data[b] ELSE @[b]]]
    BY <2>1, <2>2 DEF Contents
  <2>4. /\ waiting \in Cached!WriteRequest /\ waiting.a = req.a
        /\ waiting.data = req.data /\ waiting.mask = req.mask
    BY <1>3, <2>1, WriteWaits DEF Writes, Served
  <2>5. Contents' = [Contents EXCEPT ![waiting.a] =
                       [b \in Byte |-> IF b \in waiting.mask THEN waiting.data[b] ELSE @[b]]]
    BY <2>3, <2>4
  <2>6. waiting' = Cached!NoRequest
    BY <1>3 DEF Served, Cached!NoRequest, NoReq
  <2>7. Cached!CachedWrite
    BY <2>1, <2>4, <2>5, <2>6 DEF Cached!CachedWrite, Owed, Returned, Awaited, Contents
  <2> QED  BY <2>7
<1>4. CASE Answers /\ waiting' = waiting
  <2>1. Owed # <<>> /\ Owed' = Tail(Owed) /\ Contents' = Contents /\ waiting' = waiting
    BY <1>4, SameContents DEF Answers
  <2>2. Cached!CachedAnswer
    BY <2>1 DEF Cached!CachedAnswer, Owed, Returned, Awaited, Contents
  <2> QED  BY <2>2
<1> QED  BY <1>1, <1>2, <1>3, <1>4, <1>5 DEF Stepped

(* Steps that leave the answers alone.                                     *)
LEMMA OwedSame ==
  ASSUME AwaitedIs, AwaitedIs', UNCHANGED rresp, Returned' = Returned,
         coming' /\ req'.op = "Read" <=> coming /\ req.op = "Read",
         coming /\ req.op = "Read" => mem'[req'.a] = mem[req.a]
  PROVE  Owed' = Owed
BY DEF AwaitedIs, Owed

LEMMA CachedStart ==
  ASSUME AwaitedIs, AwaitedIs', startRead \/ startWrite \/ invalidateRl
  PROVE  Stutters /\ (waiting' = waiting \/ Asks)
<1>1. /\ quiet /\ quiet' /\ UNCHANGED <<tagRam, validRam, dataRam, mem, out, rresp>>
  BY DEF startRead, startWrite, invalidateRl, start, quiet, meta, buffers
<1>2. ~coming /\ ~coming' /\ Returned' = Returned
  BY <1>1 DEF quiet, coming, Returned
<1>3. state = "Idle" /\ state' = "Matching"
  BY DEF startRead, startWrite, invalidateRl, start
<1>4. waiting = NoReq
  BY <1>3, NothingWaits
<1>8. Stutters
  BY <1>1, <1>2, WordsQuiet, OwedSame DEF Stutters
<1>5. CASE startRead
  <2>1. PICK a \in Accessed : req' = [op |-> "Read", a |-> a, way |-> AnyWay]
    BY <1>5 DEF startRead, start
  <2>2. waiting' = [op |-> "Read", a |-> a]
    BY <1>3, <2>1 DEF waiting
  <2>3. waiting' \in Cached!ReadRequest
    BY <2>2, BCacheAssumption DEF Cached!ReadRequest, Address, Tag, Offset
  <2> QED  BY <1>4, <1>8, <2>3 DEF Asks
<1>6. CASE startWrite
  <2>1. PICK a \in Accessed, d \in Data, mask \in SUBSET Byte :
          req' = [op |-> "Write", a |-> a, way |-> AnyWay, data |-> d, mask |-> mask]
    BY <1>6 DEF startWrite, start
  <2>2. waiting' = [op |-> "Write", a |-> a, data |-> d, mask |-> mask]
    BY <1>3, <2>1 DEF waiting
  <2>3. waiting' \in Cached!WriteRequest
    BY <2>2, BCacheAssumption DEF Cached!WriteRequest, Address, Tag, Offset, Data
  <2> QED  BY <1>4, <1>8, <2>3 DEF Asks
<1>7. CASE invalidateRl
  <2>1. req' = [op |-> "Invalidate", a |-> Head(invQ), way |-> AnyWay]
    BY <1>7 DEF invalidateRl
  <2>2. waiting' = NoReq
    BY <2>1 DEF waiting
  <2> QED  BY <1>4, <1>8, <2>2
<1> QED  BY <1>5, <1>6, <1>7, <1>8

LEMMA CachedHitRead ==
  ASSUME TypeInv, LinesInv, AllWords, AwaitedIs, AwaitedIs', hitRead
  PROVE  Reads /\ Served
<1>1. PICK w \in hitWays : /\ out' = << <<"cpu", dataRam[line(w)]>> >> /\ out = <<>>
                           /\ UNCHANGED <<tagRam, validRam, dataRam, mem, rresp>>
                           /\ state = "Matching" /\ state' = "Idle"
  BY DEF hitRead, matched, done, meta
<1>2. quiet /\ quiet' /\ ~coming /\ ~coming'
  BY <1>1 DEF quiet, coming
<1>3. SameWords
  BY <1>1, <1>2, WordsQuiet
<1>4. /\ w \in Way /\ index \in Index /\ line(w) = <<w, index, offset>>
      /\ line(w) \in Way \X Index \X Offset /\ req.a \in Address
      /\ tagRam[index][w] = tag /\ validRam[index][w]
      /\ req.a[1] = tag /\ req.a[2] = index /\ req.a[3] = offset
  BY <1>1, Serving DEF hitWays, tag, index, offset
<1>5. wordOf(req.a) = dataRam[line(w)]
  BY <1>2, <1>4, QuietWordsBefore DEF QuietWords
<1>6. PICK x \in Data : x = dataRam[line(w)]
  BY <1>4 DEF TypeInv
<1>7. Returned = <<>> /\ Returned' = <<x>> /\ Awaited = <<>> /\ Awaited' = <<>>
  BY <1>1, <1>2, <1>6 DEF Returned, AwaitedIs
<1>8. rresp \in Seq(Data)
  BY DEF TypeInv
<1>9. Owed' = (rresp \o <<x>>) \o <<>> /\ Owed = (rresp \o <<>>) \o <<>>
  BY <1>1, <1>7 DEF Owed
<1>10. (rresp \o <<x>>) \o <<>> = Append((rresp \o <<>>) \o <<>>, x)
  <2>1. <<x>> \in Seq(Data) /\ <<>> \in Seq(Data)
    OBVIOUS
  <2>2. (rresp \o <<x>>) \o <<>> = rresp \o <<x>> /\ (rresp \o <<>>) \o <<>> = rresp \o <<>>
    BY <1>8, <2>1, OwedNone
  <2>3. rresp \o <<>> = rresp
    BY <1>8, ConcatEmptySeq
  <2>4. Append(rresp, x) = rresp \o <<x>>
    BY <1>8, AppendIsConcat
  <2> QED  BY <2>2, <2>3, <2>4
<1>11. req.op = "Read" /\ req \in Request
  BY <1>1 DEF hitRead, matched, TypeInv
<1>12. Served
  BY <1>1, NothingWaitsAfter DEF Served
<1> QED  BY <1>3, <1>5, <1>6, <1>9, <1>10, <1>11, <1>12 DEF Reads

LEMMA CachedHitWrite ==
  ASSUME TypeInv, LinesInv, AllWords, AllWords', AwaitedIs, AwaitedIs', hitWrite
  PROVE  Writes /\ Served
<1>1. state = "Matching" /\ state' = "Idle" /\ UNCHANGED <<out, rresp>> /\ req.op = "Write"
  BY DEF hitWrite, matched, done
<1>2. ~coming /\ ~coming' /\ Returned' = Returned /\ req \in Request
  BY <1>1 DEF coming, Returned, TypeInv
<1>3. Owed' = Owed
  BY <1>1, <1>2, OwedSame
<1>4. Served
  BY <1>1, NothingWaitsAfter DEF Served
<1> QED  BY <1>1, <1>2, <1>3, <1>4, WordsHitWrite DEF Writes

LEMMA CachedInvalidate ==
  ASSUME TypeInv, LinesInv, AllWords, LinesInv', AllWords', AwaitedIs, AwaitedIs',
         hitInvalidate \/ missInvalidate
  PROVE  Stutters /\ waiting' = waiting
<1>1. /\ state = "Matching" /\ state' \in {"Idle", "Release"} /\ UNCHANGED <<out, rresp>>
  BY DEF hitInvalidate, missInvalidate, matched, done
<1>2. ~coming /\ ~coming' /\ Returned' = Returned
  BY <1>1 DEF coming, Returned
<1>3. Owed' = Owed
  BY <1>1, <1>2, OwedSame
<1>6. waiting = NoReq /\ waiting' = NoReq
  BY <1>1, NothingWaits, NothingWaitsAfter DEF hitInvalidate, missInvalidate, matched
<1>4. CASE hitInvalidate
  BY <1>3, <1>4, <1>6, WordsHitInvalidate DEF Stutters
<1>5. CASE missInvalidate
  <2>1. quiet /\ quiet' /\ UNCHANGED <<tagRam, validRam, dataRam, mem>>
    BY <1>5 DEF missInvalidate, matched, done, quiet, meta
  <2> QED  BY <1>3, <1>6, <2>1, WordsQuiet DEF Stutters
<1> QED  BY <1>4, <1>5

LEMMA CachedMiss ==
  ASSUME TypeInv, LinesInv, AllWords, LinesInv', AllWords', AwaitedIs, AwaitedIs', miss
  PROVE  (Reads \/ Writes) /\ Served
<1>1. PICK w \in Way : doMiss(w) /\ state' \in {"AcqRel", "Acquire"} /\ out' = out
  BY DEF miss
<1>2. state = "Matching" /\ UNCHANGED <<mem, rresp>> /\ req.op # "Invalidate" /\ hitWays = {}
  BY DEF miss, matched
<1>3. /\ req \in Request /\ req.op \in {"Read", "Write"} /\ req.a \in Address
      /\ req.a[1] = tag /\ req.a[2] = index
  BY <1>2, Serving DEF tag, index
<1>4. req'.op = req.op /\ req'.a = req.a
  BY <1>1, <1>2, MissReplaces DEF Replaced
<1>5. ~coming /\ coming' /\ Returned' = Returned /\ quiet
  BY <1>1, <1>2 DEF coming, Returned, quiet
<1>6. \A a \in Address :
        wordOf(a)' = IF req.op = "Write" /\ a = req.a THEN merged(wordOf(a), req.data, req.mask)
                     ELSE wordOf(a)
  BY WordsMiss
<1>9. Served
  BY <1>1, <1>2, NothingWaitsAfter DEF Served
<1>7. CASE req.op = "Write"
  <2>1. Owed' = Owed
    BY <1>2, <1>4, <1>5, <1>7, OwedSame
  <2> QED  BY <1>3, <1>6, <1>7, <1>9, <2>1 DEF Writes, WroteWord
<1>8. CASE req.op = "Read"
  <2>1. SameWords
    BY <1>6, <1>8 DEF SameWords
  <2>2. wordOf(req.a) = mem[req.a]
    BY <1>2, <1>3, <1>5, QuietWordsBefore DEF QuietWords, hitWays
  <2>3. PICK x \in Data : x = mem[req.a]
    BY <1>3 DEF TypeInv
  <2>4. Awaited = <<>> /\ Awaited' = <<x>>
    BY <1>2, <1>4, <1>5, <1>8, <2>3 DEF AwaitedIs
  <2>5. Owed' = (rresp \o Returned) \o <<x>> /\ Owed = (rresp \o Returned) \o <<>>
    BY <1>2, <1>5, <2>4 DEF Owed
  <2>6. Owed' = Append(Owed, x)
    BY <2>5, OwedTypes, OwedAppend
  <2> QED  BY <1>3, <1>8, <1>9, <2>1, <2>2, <2>3, <2>6 DEF Reads
<1> QED  BY <1>3, <1>7, <1>8, <1>9


LEMMA CachedTransfer ==
  ASSUME TypeInv, LinesInv, AllWords, AllWords', AwaitedIs, AwaitedIs',
         readBram \/ sendWord \/ writeResponse \/ receiveWord \/ releaseBlockAck \/ releaseBlockAckInv
  PROVE  Stutters /\ waiting' = waiting
<1> USE DEF meta, buffers
<1>7. waiting' = waiting
  <2>1. CASE UNCHANGED <<state, req>>
    BY <2>1, WaitingSame
  <2>2. CASE state # "Matching" /\ state' # "Matching"
    BY <2>2, NothingWaits, NothingWaitsAfter
  <2> QED
    BY <2>1, <2>2 DEF readBram, sendWord, writeResponse, receiveWord, releaseBlockAck,
                      releaseBlockAckInv, done
<1>1. CASE readBram
  <2>1. /\ UNCHANGED <<tagRam, validRam, dataRam, state, req, release, mem, rresp>>
        /\ out = <<>> /\ out' # <<>> /\ out'[1][1] = "release"
    BY <1>1 DEF readBram
  <2>2. Returned' = Returned /\ (coming' <=> coming)
    BY <2>1 DEF Returned, coming
  <2>3. Owed' = Owed
    BY <2>1, <2>2, OwedSame
  <2> QED  BY <1>7, <2>1, <2>3, WordsFrame DEF Stutters
<1>2. CASE sendWord
  <2>1. /\ UNCHANGED <<state, req, rresp>> /\ out[1][1] = "release" /\ out' = <<>> /\ release.left > 0
        /\ mem' = [mem EXCEPT ![<<release.tag, index, Words - release.left>>] = out[1][2]]
    BY <1>2 DEF sendWord
  <2>2. Returned' = Returned /\ (coming' <=> coming)
    BY <2>1 DEF Returned, coming
  <2>3. ASSUME coming PROVE mem'[req'.a] = mem[req.a]
    <3>1. leaving /\ state # "Idle"
      BY <2>1 DEF LinesInv, ControlInv, Released, leaving
    <3>2. way \in Way /\ req.a \in Address /\ req.a[1] = tag
      BY <3>1, Serving DEF tag
    <3>3. release.tag # tag
      BY <2>3, <3>1, <3>2 DEF LinesInv, LeavingInv, FillingInv
    <3>4. req.a # <<release.tag, index, Words - release.left>>
      BY <3>2, <3>3
    <3> QED  BY <2>1, <3>2, <3>4 DEF TypeInv
  <2>4. Owed' = Owed
    BY <2>1, <2>2, <2>3, OwedSame
  <2> QED  BY <1>7, <1>2, <2>4, WordsSendWord DEF Stutters
<1>3. CASE writeResponse
  <2>1. UNCHANGED <<tagRam, validRam, dataRam, out, state, req, mem, rresp>>
    BY <1>3 DEF writeResponse
  <2>2. release'.tag = release.tag
    BY <1>3 DEF writeResponse, TypeInv
  <2>3. Returned' = Returned /\ (coming' <=> coming)
    BY <2>1 DEF Returned, coming
  <2>4. Owed' = Owed
    BY <2>1, <2>3, OwedSame
  <2> QED  BY <1>7, <2>1, <2>2, <2>4, WordsFrame DEF Stutters
<1>4. CASE receiveWord
  <2>1. UNCHANGED <<out, state, req, mem, rresp>>
    BY <1>4 DEF receiveWord
  <2>2. Returned' = Returned /\ (coming' <=> coming)
    BY <2>1 DEF Returned, coming
  <2>3. Owed' = Owed
    BY <2>1, <2>2, OwedSame
  <2> QED  BY <1>7, <1>4, <2>3, WordsReceiveWord DEF Stutters
<1>5. CASE releaseBlockAck
  <2>1. UNCHANGED <<out, req, mem, rresp>> /\ state = "AcqRel" /\ state' = "Acquire"
    BY <1>5 DEF releaseBlockAck
  <2>2. Returned' = Returned /\ coming' /\ coming
    BY <2>1 DEF Returned, coming
  <2>3. Owed' = Owed
    BY <2>1, <2>2, OwedSame
  <2> QED  BY <1>7, <1>5, <2>3, WordsReleased DEF Stutters
<1>6. CASE releaseBlockAckInv
  <2>1. UNCHANGED <<out, mem, rresp>> /\ state = "Release" /\ state' = "Idle"
    BY <1>6 DEF releaseBlockAckInv, done
  <2>2. Returned' = Returned /\ ~coming' /\ ~coming
    BY <2>1 DEF Returned, coming
  <2>3. Owed' = Owed
    BY <2>1, <2>2, OwedSame
  <2> QED  BY <1>7, <1>6, <2>3, WordsReleased DEF Stutters
<1> QED  BY <1>1, <1>2, <1>3, <1>4, <1>5, <1>6, <1>7

LEMMA CachedAcquired ==
  ASSUME TypeInv, LinesInv, AllWords, AllWords', AwaitedIs, AwaitedIs', acquireBlockAck
  PROVE  Stutters /\ waiting' = waiting
<1>1. /\ state = "Acquire" /\ acquire = 0 /\ state' = "Idle" /\ rresp' = rresp
  BY DEF acquireBlockAck, done, buffers
<1>2. coming /\ ~coming'
  BY <1>1 DEF coming
<1>5. waiting' = waiting
  BY <1>1, NothingWaits, NothingWaitsAfter
<1>3. CASE req.op = "Read"
  <2>1. out = <<>> /\ out' = << <<"cpu", dataRam[line(way)]>> >>
    BY <1>3 DEF acquireBlockAck
  <2>2. /\ line(way) = <<way, index, offset>> /\ req.a = <<tag, index, offset>> /\ offset \in Offset
        /\ req.a \in Address
    BY <1>1, Serving
  <2>3. dataRam[line(way)] = mem[req.a]
    BY <1>1, <2>2, BlockHasCome
  <2>4. PICK x \in Data : x = mem[req.a]
    BY <2>2 DEF TypeInv
  <2>5. Returned = <<>> /\ Returned' = <<x>>
    BY <2>1, <2>3, <2>4 DEF Returned
  <2>6. Awaited = <<x>> /\ Awaited' = <<>>
    BY <1>2, <1>3, <2>4 DEF AwaitedIs
  <2>7. Owed = (rresp \o <<>>) \o <<x>> /\ Owed' = (rresp \o <<x>>) \o <<>>
    BY <1>1, <2>5, <2>6 DEF Owed
  <2>8. rresp \in Seq(Data) /\ <<x>> \in Seq(Data)
    BY DEF TypeInv
  <2>9. Owed' = Owed
    BY <2>7, <2>8, OwedNone
  <2> QED  BY <1>5, <2>9, WordsAcquired DEF Stutters
<1>4. CASE req.op # "Read"
  <2>1. out' = out
    BY <1>4 DEF acquireBlockAck
  <2>2. Returned' = Returned
    BY <2>1 DEF Returned
  <2>3. Owed' = Owed
    BY <1>1, <1>2, <1>4, <2>2, OwedSame
  <2> QED  BY <1>5, <2>3, WordsAcquired DEF Stutters
<1> QED  BY <1>3, <1>4

LEMMA CachedReadAck ==
  ASSUME TypeInv, AwaitedIs, AwaitedIs', readAck
  PROVE  Stutters /\ waiting' = waiting
<1>1. /\ UNCHANGED <<tagRam, validRam, dataRam, state, req, release, mem>>
      /\ out # <<>> /\ out[1][1] = "cpu" /\ out' = <<>> /\ rresp' = Append(rresp, out[1][2])
  BY DEF readAck, meta
<1>2. out[1] \in {"cpu", "release"} \X Data
  BY <1>1 DEF TypeInv
<1>3. PICK x \in Data : x = out[1][2]
  BY <1>2
<1>4. Returned = <<x>> /\ Returned' = <<>> /\ rresp' = Append(rresp, x)
  BY <1>1, <1>3 DEF Returned
<1>5. Awaited' = Awaited
  BY <1>1 DEF AwaitedIs, coming
<1>6. Owed' = (Append(rresp, x) \o <<>>) \o Awaited /\ Owed = (rresp \o <<x>>) \o Awaited
  BY <1>4, <1>5 DEF Owed
<1>7. Owed' = Owed
  BY <1>6, OwedTypes, OwedMove
<1> QED  BY <1>1, <1>7, WordsFrame, WaitingSame DEF Stutters

LEMMA CachedCpu ==
  ASSUME TypeInv, AwaitedIs, AwaitedIs', cpu
  PROVE  (Stutters \/ Answers) /\ waiting' = waiting
<1>1. UNCHANGED <<tagRam, validRam, dataRam, out, state, req, release, mem>>
  BY DEF cpu, meta
<1>2. SameWords /\ waiting' = waiting
  BY <1>1, WordsFrame, WaitingSame
<1>3. Returned' = Returned /\ Awaited' = Awaited
  BY <1>1 DEF Returned, AwaitedIs, coming
<1>4. CASE rresp # <<>> /\ rresp' = Tail(rresp)
  <2>1. Owed' = (Tail(rresp) \o Returned) \o Awaited /\ Owed = (rresp \o Returned) \o Awaited
    BY <1>3, <1>4 DEF Owed
  <2>2. Owed # <<>> /\ Owed' = Tail(Owed)
    BY <1>4, <2>1, OwedTypes, OwedTail
  <2> QED  BY <1>2, <2>2 DEF Answers
<1>5. CASE rresp' = rresp
  BY <1>2, <1>3, <1>5 DEF Stutters, Owed
<1> QED  BY <1>4, <1>5 DEF cpu

LEMMA CachedFrame ==
  ASSUME AwaitedIs, AwaitedIs', UNCHANGED <<meta, dataRam, out, state, req, release, rresp, mem>>
  PROVE  Stutters /\ waiting' = waiting
<1>1. UNCHANGED <<tagRam, validRam, dataRam, out, state, req, release, mem, rresp>>
  BY DEF meta
<1>2. Returned' = Returned /\ Awaited' = Awaited
  BY <1>1 DEF Returned, AwaitedIs, coming
<1> QED  BY <1>1, <1>2, WordsFrame, WaitingSame DEF Stutters, Owed

LEMMA CachedNext ==
  ASSUME CacheInv, CacheInv', [Next]_vars
  PROVE  Stepped
<1>1. TypeInv /\ LinesInv /\ TypeInv' /\ LinesInv'
  BY DEF CacheInv, LinesInv
<1>2. AllWords /\ AllWords' /\ AwaitedIs /\ AwaitedIs'
  BY <1>1, WordsBoth, AwaitedBoth
<1>3. CASE UNCHANGED vars
  BY <1>2, <1>3, CachedFrame DEF vars, buffers, Stepped
<1>4. CASE \E t \in Tag, i \in Index : invalidate(<<t, i, 0>>)
  BY <1>2, <1>4, CachedFrame DEF invalidate, Stepped
<1>5. CASE startRead \/ startWrite \/ invalidateRl
  BY <1>2, <1>5, CachedStart DEF Stepped
<1>6. CASE matching
  BY <1>1, <1>2, <1>6, CachedHitRead, CachedHitWrite, CachedInvalidate, CachedMiss
     DEF matching, Stepped
<1>7. CASE transfer
  BY <1>1, <1>2, <1>7, CachedTransfer, CachedAcquired DEF transfer, Stepped
<1>8. CASE readAck \/ cpu
  BY <1>1, <1>2, <1>8, CachedReadAck, CachedCpu DEF Stepped
<1> QED  BY <1>3, <1>4, <1>5, <1>6, <1>7, <1>8 DEF Next

LEMMA CachedStarts == Init => Cached!CachedInit
<1> SUFFICES ASSUME Init PROVE Cached!CachedInit
  OBVIOUS
<1>1. TypeInv /\ LinesInv
  BY TypeInit, LinesInit
<1>2. AllWords /\ quiet /\ ~busy
  BY <1>1, WordsAre DEF Init, quiet, busy
<1>3. QuietWords
  BY <1>2, QuietWordsBefore
<1>4. ASSUME NEW a \in Address PROVE wordOf(a) \in [Byte -> Value]
  <2>1. a[2] \in Index
    BY AddressParts
  <2>2. wordOf(a) = mem[a]
    BY <1>3, <2>1 DEF QuietWords, Init
  <2> QED  BY <1>1, <2>2 DEF TypeInv, Data
<1>5. Contents \in [Address -> [Byte -> Value]]
  BY <1>4 DEF Contents
<1>6. Owed = <<>>
  BY <1>2 DEF Init, Owed, Returned, Awaited
<1>7. waiting = Cached!NoRequest
  BY NothingWaits DEF Init, Cached!NoRequest, NoReq
<1> QED  BY <1>5, <1>6, <1>7 DEF Cached!CachedInit, Contents, Owed, Returned, Awaited

(* The blocking cache is a memory to its processor: a write changes the    *)
(* bytes it names of the word at its address and no other word, and a read *)
(* returns, in order, what the writes before it left at its address,       *)
(* whatever blocks are evicted, invalidated or on their way in between,    *)
(* for any number of sets, ways and words, and for any timing of the       *)
(* transfers.                                                              *)
THEOREM CachedMemoryCorrect == Spec => ImplementsCachedMemory
<1>1. CacheInv /\ CacheInv' /\ [Next]_vars =>
        [Cached!CachedAsk \/ Cached!CachedRead \/ Cached!CachedWrite \/ Cached!CachedAnswer]_<<
          Contents, waiting, Owed>>
  BY CachedNext, StepsAreCached
<1>2. CacheInv /\ CacheInv' /\ [Next]_vars =>
        [Cached!CachedAsk \/ Cached!CachedRead \/ Cached!CachedWrite \/ Cached!CachedAnswer]_<<
          [a \in Address |-> wordOf(a)], waiting,
          rresp \o (IF out # <<>> /\ out[1][1] = "cpu" THEN << out[1][2] >> ELSE <<>>)
                \o (IF busy /\ req.op = "Read" THEN << wordOf(req.a) >> ELSE <<>>)>>
  BY <1>1 DEF Contents, Owed, Returned, Awaited
<1> QED  BY <1>2, CachedStarts, CacheCorrect, PTL DEF Spec, ImplementsCachedMemory, Cached!CachedSpec
=============================================================================
