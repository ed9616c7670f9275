-------------------------------- MODULE BCache --------------------------------
(***************************************************************************)
(* The blocking cache of the fetch unit and of the load-store unit         *)
(* (BCache.bsv, BCacheUtils.bsv): a set-associative write-back cache that  *)
(* serves one request at a time, with buffers for its answers.  The memory *)
(* behind it is external; nobody else writes to it.  One action is one     *)
(* rule or method; start and the matching it leads to are separate.        *)
(***************************************************************************)
EXTENDS Naturals, Sequences, FiniteSets

CONSTANTS NumTag, Index, Way,
          Words,       \* words of a block, 2^offsetW
          Byte, Value, \* bytes of a word and their values
          Accessed,    \* bound on the addresses of the requests
          Depth,       \* of the answer buffers and of invQ, 2
          MaxPending   \* bound on the requests whose answer is not taken

ASSUME BCacheAssumption ==
  /\ {NumTag, Words, Depth, MaxPending} \subseteq Nat \ {0}
  /\ Way # {} /\ Value # {}
  /\ Accessed \subseteq (0 .. NumTag - 1) \X Index \X (0 .. Words - 1)

Tag == 0 .. NumTag - 1
NoTag == NumTag
Offset == 0 .. Words - 1
Address == Tag \X Index \X Offset
Data == [Byte -> Value]

VARIABLES tagRam, validRam, dirtyRam,  \* of every set and way
          dataRam,                     \* of every set and offset
          out,                         \* the response register of dataRam: who read, and what
          state,                       \* CacheState
          req,                         \* the request being served, and info.way
          acquire,                     \* words still to come, by mkBAcquireBlock
          release,                     \* mkBReleaseBlock: the tag, words still to go, the answer
          rresp, wresp, invQ, invAck,  \* mkBufferBCache
          mem                          \* the memory

meta == <<tagRam, validRam, dirtyRam>>
buffers == <<rresp, wresp, invQ, invAck>>
vars == <<meta, dataRam, out, state, req, acquire, release, buffers, mem>>

NoReq == [op |-> "none"]
AnyWay == CHOOSE w \in Way : TRUE
Released == [tag |-> NoTag, left |-> 0, acked |-> FALSE]

Init ==
  /\ tagRam \in [Index -> [Way -> Tag]]
  /\ validRam = [i \in Index |-> [w \in Way |-> FALSE]]
  /\ dirtyRam = [i \in Index |-> [w \in Way |-> FALSE]]
  /\ mem = [a \in Address |-> [b \in Byte |-> CHOOSE v \in Value : TRUE]]
  /\ dataRam = [a \in Way \X Index \X Offset |-> [b \in Byte |-> CHOOSE v \in Value : TRUE]]
  /\ out = <<>> /\ state = "Idle" /\ req = NoReq
  /\ acquire = 0 /\ release = Released
  /\ rresp = <<>> /\ wresp = 0 /\ invQ = <<>> /\ invAck = 0

-----------------------------------------------------------------------------
(* The request is over; what its registers hold is not read again.         *)
done == state' = "Idle" /\ req' = NoReq

(* What the processor has asked for and not taken the answer of.           *)
pending ==
  Len(rresp) + Len(out) + wresp + invAck + Len(invQ) + (IF state = "Idle" THEN 0 ELSE 1)

(* cpu_read.request, cpu_write.request: BCacheCore.start.                  *)
start(r) ==
  /\ state = "Idle" /\ pending < MaxPending
  /\ req' = r
  /\ state' = "Matching"
  /\ UNCHANGED <<meta, dataRam, out, acquire, release, buffers, mem>>

startRead == \E a \in Accessed : start([op |-> "Read", a |-> a, way |-> AnyWay])
startWrite ==
  \E a \in Accessed, d \in Data, mask \in SUBSET Byte :
    start([op |-> "Write", a |-> a, way |-> AnyWay, data |-> d, mask |-> mask])

(* invalidate enters the queue; invalidateRl starts it.  The offset of its *)
(* address is not used.                                                    *)
invalidate(a) ==
  /\ Len(invQ) < Depth /\ pending < MaxPending
  /\ invQ' = Append(invQ, a)
  /\ UNCHANGED <<meta, dataRam, out, state, req, acquire, release, rresp, wresp, invAck, mem>>

invalidateRl ==
  /\ state = "Idle" /\ invQ # <<>>
  /\ req' = [op |-> "Invalidate", a |-> Head(invQ), way |-> AnyWay]
  /\ state' = "Matching"
  /\ invQ' = Tail(invQ)
  /\ UNCHANGED <<meta, dataRam, out, acquire, release, rresp, wresp, invAck, mem>>

-----------------------------------------------------------------------------
tag == req.a[1]
index == req.a[2]
offset == req.a[3]
way == req.way
line(w) == <<w, index, offset>>

(* Faulty variant: the comparison of one way is forgotten.                 *)
hitWays_one ==
  LET w == CHOOSE w \in Way : TRUE
  IN {v \in {w} : tagRam[index][v] = tag /\ validRam[index][v]}

(* Faulty variant: the tags are not compared.                              *)
hitWays_anyTag == {w \in Way : validRam[index][w]}

hitWays == {w \in Way : tagRam[index][w] = tag /\ validRam[index][w]}

(* Faulty variant: the victim is dropped.                                  *)
mustRelease_never(w) == FALSE

(* The victim of a miss goes back to memory first.                         *)
mustRelease(w) == dirtyRam[index][w] /\ validRam[index][w]

merged(old, new, mask) == [b \in Byte |-> IF b \in mask THEN new[b] ELSE old[b]]

(* Faulty variant: acknowledgements are sent blindly.                      *)
roomFor_writes(op) == op = "Write" => wresp < Depth

(* matching needs room for the answer of the request it serves: wresp for  *)
(* a write, invAck for an invalidation, both enqueued with it.             *)
roomFor(op) ==
  /\ op = "Write" => wresp < Depth
  /\ op = "Invalidate" => invAck < Depth

matched ==
  /\ state = "Matching"
  /\ roomFor(req.op)
  /\ wresp' = IF req.op = "Write" THEN wresp + 1 ELSE wresp
  /\ invAck' = IF req.op = "Invalidate" THEN invAck + 1 ELSE invAck
  /\ UNCHANGED <<rresp, invQ, mem>>

(* Faulty variant: valid for any request.                                  *)
validAfter_always(op) == TRUE
validAfter(op) == op # "Invalidate"

(* doMiss: the entry of the way is the new block's from now on.            *)
doMiss(w) ==
  /\ tagRam' = [tagRam EXCEPT ![index][w] = tag]
  /\ dirtyRam' = [dirtyRam EXCEPT ![index][w] = (req.op = "Write")]
  /\ validRam' = [validRam EXCEPT ![index][w] = validAfter(req.op)]
  /\ req' = [req EXCEPT !.way = w]
  /\ UNCHANGED dataRam

releaseBlock(w) ==
  release' = [tag |-> tagRam[index][w], left |-> Words, acked |-> FALSE]

hitRead ==
  /\ matched /\ req.op = "Read" /\ out = <<>>
  /\ \E w \in hitWays :
       /\ out' = << <<"cpu", dataRam[line(w)]>> >>
       /\ done
       /\ UNCHANGED <<meta, dataRam, acquire, release>>

(* Faulty variant: the line is not marked.                                 *)
dirtyAfterWrite_clean(w) == dirtyRam
dirtyAfterWrite(w) == [dirtyRam EXCEPT ![index][w] = TRUE]

hitWrite ==
  /\ matched /\ req.op = "Write"
  /\ \E w \in hitWays :
       /\ dirtyRam' = dirtyAfterWrite(w)
       /\ dataRam' = [dataRam EXCEPT ![line(w)] = merged(@, req.data, req.mask)]
       /\ done
       /\ UNCHANGED <<tagRam, validRam, out, acquire, release>>

hitInvalidate ==
  /\ matched /\ req.op = "Invalidate"
  /\ \E w \in hitWays :
       /\ \/ /\ dirtyRam[index][w]
             /\ doMiss(w) /\ releaseBlock(w)
             /\ state' = "Release"
          \/ /\ ~ dirtyRam[index][w]
             /\ validRam' = [validRam EXCEPT ![index][w] = FALSE]
             /\ done
             /\ UNCHANGED <<tagRam, dirtyRam, dataRam, release>>
       /\ UNCHANGED <<out, acquire>>

(* Faulty variant: the state stays Matching.                               *)
missInvalidate_stays ==
  /\ matched /\ req.op = "Invalidate" /\ hitWays = {}
  /\ UNCHANGED <<meta, dataRam, out, state, req, acquire, release>>

missInvalidate ==
  /\ matched /\ req.op = "Invalidate" /\ hitWays = {}
  /\ done
  /\ UNCHANGED <<meta, dataRam, out, acquire, release>>

(* A miss, in whatever way randomWay points at.                            *)
miss ==
  /\ matched /\ req.op # "Invalidate" /\ hitWays = {}
  /\ \E w \in Way :
       /\ doMiss(w)
       /\ \/ /\ mustRelease(w)
             /\ releaseBlock(w)
             /\ state' = "AcqRel"
             /\ UNCHANGED acquire
          \/ /\ ~ mustRelease(w)
             /\ acquire' = Words
             /\ state' = "Acquire"
             /\ UNCHANGED release
       /\ UNCHANGED out

-----------------------------------------------------------------------------
(* readBram and sendWord: one word of the victim at a time, through the    *)
(* response register that the answers of reads use too.                    *)
readBram ==
  /\ release.left > 0 /\ out = <<>>
  /\ out' = << <<"release", dataRam[<<way, index, Words - release.left>>]>> >>
  /\ UNCHANGED <<meta, dataRam, state, req, acquire, release, buffers, mem>>

sendWord ==
  /\ release.left > 0 /\ out # <<>>
  /\ out[1][1] = "release"
  /\ mem' = [mem EXCEPT ![<<release.tag, index, Words - release.left>>] = out[1][2]]
  /\ out' = <<>>
  /\ release' = [release EXCEPT !.left = @ - 1]
  /\ UNCHANGED <<meta, dataRam, state, req, acquire, buffers>>

(* The memory answers the burst after its last word.                       *)
writeResponse ==
  /\ release.tag # NoTag /\ release.left = 0 /\ ~ release.acked
  /\ release' = [release EXCEPT !.acked = TRUE]
  /\ UNCHANGED <<meta, dataRam, out, state, req, acquire, buffers, mem>>

releaseBlockAck ==
  /\ state = "AcqRel" /\ release.acked
  /\ release' = Released
  /\ acquire' = Words
  /\ state' = "Acquire"
  /\ UNCHANGED <<meta, dataRam, out, req, buffers, mem>>

releaseBlockAckInv ==
  /\ state = "Release" /\ release.acked
  /\ release' = Released
  /\ done
  /\ UNCHANGED <<meta, dataRam, out, acquire, buffers, mem>>

receiveWord ==
  /\ acquire > 0
  /\ dataRam' = [dataRam EXCEPT ![<<way, index, Words - acquire>>] =
                   mem[<<tag, index, Words - acquire>>]]
  /\ acquire' = acquire - 1
  /\ UNCHANGED <<meta, out, state, req, release, buffers, mem>>

acquireBlockAck ==
  /\ state = "Acquire" /\ acquire = 0
  /\ \/ /\ req.op = "Read" /\ out = <<>>
        /\ out' = << <<"cpu", dataRam[line(way)]>> >>
        /\ UNCHANGED dataRam
     \/ /\ req.op = "Write"
        /\ dataRam' = [dataRam EXCEPT ![line(way)] = merged(@, req.data, req.mask)]
        /\ UNCHANGED out
  /\ done
  /\ UNCHANGED <<meta, acquire, release, buffers, mem>>

-----------------------------------------------------------------------------
(* readAck moves an answer to the buffer; the processor takes answers.     *)
readAck ==
  /\ out # <<>> /\ Len(rresp) < Depth
  /\ out[1][1] = "cpu"
  /\ rresp' = Append(rresp, out[1][2])
  /\ out' = <<>>
  /\ UNCHANGED <<meta, dataRam, state, req, acquire, release, wresp, invQ, invAck, mem>>

cpu ==
  /\ \/ /\ rresp # <<>>
        /\ rresp' = Tail(rresp)
        /\ UNCHANGED <<wresp, invAck>>
     \/ wresp > 0 /\ wresp' = wresp - 1 /\ UNCHANGED <<rresp, invAck>>
     \/ invAck > 0 /\ invAck' = invAck - 1 /\ UNCHANGED <<rresp, wresp>>
  /\ UNCHANGED <<meta, dataRam, out, state, req, acquire, release, invQ, mem>>

matching == hitRead \/ hitWrite \/ hitInvalidate \/ missInvalidate \/ miss
transfer == \/ readBram \/ sendWord \/ writeResponse \/ receiveWord
            \/ releaseBlockAck \/ releaseBlockAckInv \/ acquireBlockAck

Next == \/ startRead \/ startWrite \/ invalidateRl \/ \E t \in Tag, i \in Index : invalidate(<<t, i, 0>>)
        \/ matching \/ transfer \/ readAck \/ cpu

(* Rules fire when they can, the memory answers, and the processor takes   *)
(* its answers.                                                            *)
Spec == /\ Init /\ [][Next]_vars
        /\ WF_vars(matching) /\ WF_vars(transfer) /\ WF_vars(readAck) /\ WF_vars(cpu)

-----------------------------------------------------------------------------
busy == state \in {"Acquire", "AcqRel", "Release"}
filling(w, i) == state \in {"Acquire", "AcqRel"} /\ w = way /\ i = index

BCacheTypeOK ==
  /\ tagRam \in [Index -> [Way -> Tag]]
  /\ validRam \in [Index -> [Way -> BOOLEAN]] /\ dirtyRam \in [Index -> [Way -> BOOLEAN]]
  /\ dataRam \in [Way \X Index \X Offset -> Data] /\ mem \in [Address -> Data]
  /\ state \in {"Idle", "Matching", "AcqRel", "Acquire", "Release"}
  /\ acquire \in 0 .. Words /\ release.left \in 0 .. Words
  /\ Len(out) <= 1 /\ Len(rresp) <= Depth /\ Len(invQ) <= Depth
  /\ wresp \in 0 .. Depth /\ invAck \in 0 .. Depth

(* At most one way of a set holds a block, although matching overwrites    *)
(* the tag of a way long before the block has moved.                       *)
OneWayPerBlock ==
  \A i \in Index, v, w \in Way :
    validRam[i][v] /\ validRam[i][w] /\ tagRam[i][v] = tagRam[i][w] => v = w

(* A line that is not marked dirty can be dropped: memory has the same     *)
(* words.                                                                  *)
CleanIsInMemory ==
  \A i \in Index, w \in Way :
    validRam[i][w] /\ ~ dirtyRam[i][w] /\ ~ filling(w, i) =>
      \A o \in Offset : dataRam[<<w, i, o>>] = mem[<<tagRam[i][w], i, o>>]

(* At every moment the lines of the cache are consistent with the tags,    *)
(* with each other and with memory, and no queue overflows.                *)
LinesConsistent == BCacheTypeOK /\ OneWayPerBlock /\ CleanIsInMemory

(* When an invalidation is over, no way holds its block, so that memory is *)
(* what the processor wrote.  (Its acknowledgement is sent at matching.)   *)
InvalidatedIsGone ==
  [][req.op = "Invalidate" /\ state # "Idle" /\ state' = "Idle" =>
       \A w \in Way : ~ (validRam'[index][w] /\ tagRam'[index][w] = tag)]_vars

(* Where the word of an address is: in its line, in the line it is leaving *)
(* from, or in memory, with the write that waits for the block on top.     *)
wordOf(a) ==
  LET holders == {w \in Way : validRam[a[2]][w] /\ tagRam[a[2]][w] = a[1]}
      stored  == IF holders # {} /\ ~ \E w \in holders : filling(w, a[2])
                 THEN dataRam[<<CHOOSE w \in holders : TRUE, a[2], a[3]>>]
                 ELSE mem[a]
  IN CASE busy /\ release.tag = a[1] /\ a[2] = index ->
            dataRam[<<way, index, a[3]>>]
       [] busy /\ req.op = "Write" /\ a = req.a -> merged(mem[a], req.data, req.mask)
       [] OTHER -> stored

(* The read or write that waits for its matching.                          *)
waiting ==
  CASE state = "Matching" /\ req.op = "Read" -> [op |-> "Read", a |-> req.a]
    [] state = "Matching" /\ req.op = "Write" ->
         [op |-> "Write", a |-> req.a, data |-> req.data, mask |-> req.mask]
    [] OTHER -> NoReq

Cached ==
  INSTANCE CachedMemory
    WITH contents <- [a \in Address |-> wordOf(a)],
         asked    <- waiting,
         reads    <- rresp
                       \o (IF out # <<>> /\ out[1][1] = "cpu" THEN << out[1][2] >> ELSE <<>>)
                       \o (IF busy /\ req.op = "Read" THEN << wordOf(req.a) >> ELSE <<>>)

(* With its tags overwritten at once, its writes answered before the block *)
(* is there and its victims on their way out, the cache is a memory: a     *)
(* write changes the word it names and no other, and a read returns, in    *)
(* order, what the writes before it left in the word it names.             *)
ImplementsCachedMemory == Cached!CachedSpec

(* A request that has started is served.                                   *)
Serves == state # "Idle" ~> state = "Idle"
=============================================================================
