--------------------------------- MODULE LSU ---------------------------------
(***************************************************************************)
(* The load-store unit (lsu/LSU.bsv with LoadQueue.bsv, StoreQueue.bsv and *)
(* StoreBuffer.bsv).  Loads and stores wait in two rings in program order; *)
(* a load reads as soon as no store known to cover its word precedes it;   *)
(* a store enters the store buffer when it commits, and disowns the oldest *)
(* load that read its word too early.                                      *)
(*                                                                         *)
(* The cache and the device bus are external: mem is what they hold, they  *)
(* take the requests of their queue in order and answer some time later.   *)
(* Each internal rule is an action here; the methods are operators that    *)
(* the rules of the core conjoin.                                          *)
(***************************************************************************)
EXTENDS LsuTypes, RingScan, Sequences, FiniteSets

CONSTANTS LqSize, SqSize, StbSize,  \* entries of the two rings and the buffer
          NumAge,                   \* ages, counted modulo this
          MmioCap                   \* device reads answered and not yet taken

ASSUME LsuAssumption ==
  /\ LqSize \in Nat \ {0} /\ SqSize \in Nat \ {0} /\ StbSize \in Nat \ {0}
  /\ NumAge \in Nat \ {0} /\ MmioCap \in Nat \ {0}

VARIABLES loadQ, storeQ,                        \* the two rings
          stb,                                  \* store buffer, oldest first
          tagQ,                                 \* "Load" or "Store", in order
          rrequestQ, wrequestQ,                 \* to the cache or the devices
          pendingDmemLoadsQ, pendingMmioLoadsQ, \* loads being read
          isStoreMMIO, stbDeqQ,                 \* writes awaiting their answer
          invalidateQ,                          \* invalidations, 0 or 1
          loadSuccessQ, loadFailureQ, storeSuccessQ,
          mem, cacheRead, rresponseQ,           \* external: contents and answers
          cacheWrite, wresponseQ

ringVars  == <<loadQ, storeQ, tagQ>>
replyVars == <<loadSuccessQ, loadFailureQ, storeSuccessQ>>
readVars  == <<rrequestQ, pendingDmemLoadsQ, pendingMmioLoadsQ, cacheRead, rresponseQ>>
writeVars == <<stb, wrequestQ, isStoreMMIO, stbDeqQ, cacheWrite, wresponseQ>>
lsuVars   == <<ringVars, replyVars, readVars, writeVars, invalidateQ, mem>>

LqIndex == 0 .. LqSize - 1
SqIndex == 0 .. SqSize - 1

(* Faulty variant: the index does not wrap.                                *)
nextIn_noWrap(i, size) == i + 1

nextIn(i, size) == IF i = size - 1 THEN 0 ELSE i + 1

(* Faulty variant: ages are one bit too short.                             *)
isBefore_short(a, b) == (b + NumAge - a) % (NumAge \div 2) < NumAge \div 4

(* Ages are compared by the sign of their difference.                      *)
isBefore(a, b) == (b + NumAge - a) % NumAge < NumAge \div 2

mkLSU(entry) ==
  /\ loadQ = [entries |-> [i \in LqIndex |-> entry], addresses |-> [i \in LqIndex |-> <<0, 0>>],
              valid |-> {}, addrValid |-> {}, executed |-> {}, head |-> 0, tail |-> 0]
  /\ storeQ = [entries |-> [i \in SqIndex |-> entry], addresses |-> [i \in SqIndex |-> <<0, 0>>],
               datas |-> [i \in SqIndex |-> [l \in Lane |-> 0]], valid |-> {},
               ready |-> {}, toIssue |-> {}, head |-> 0, tail |-> 0]
  /\ stb = <<>> /\ tagQ = <<>>
  /\ rrequestQ = <<>> /\ wrequestQ = <<>>
  /\ pendingDmemLoadsQ = <<>> /\ pendingMmioLoadsQ = <<>>
  /\ isStoreMMIO = <<>> /\ stbDeqQ = 0 /\ invalidateQ = 0
  /\ loadSuccessQ = <<>> /\ loadFailureQ = <<>> /\ storeSuccessQ = <<>>
  /\ mem = [w \in Word |-> [l \in Lane |-> 0]]
  /\ cacheRead = <<>> /\ rresponseQ = <<>> /\ cacheWrite = 0 /\ wresponseQ = 0

Answer(e, ok, d) == [index |-> e.index, ok |-> ok, data |-> d]
zeroData == [l \in Lane |-> 0]

-----------------------------------------------------------------------------
(* Methods.                                                                *)

(* entry: [index, epoch, age, size].                                       *)
enqLoad(entry) ==
  LET t == loadQ.tail IN
  /\ t \notin loadQ.valid
  /\ Len(tagQ) < LqSize + SqSize
  /\ loadQ' = [loadQ EXCEPT !.addrValid = @ \ {t}, !.entries[t] = entry,
                            !.valid = @ \cup {t}, !.tail = nextIn(t, LqSize)]
  /\ tagQ' = Append(tagQ, "Load")
  /\ UNCHANGED storeQ

(* Faulty variant: the slot keeps the address and data bits it had.        *)
enqStore_keepsReady(entry) ==
  LET t == storeQ.tail IN
  /\ t \notin storeQ.valid
  /\ Len(tagQ) < LqSize + SqSize
  /\ storeQ' = [storeQ EXCEPT !.entries[t] = entry,
                              !.toIssue = @ \cup {t}, !.valid = @ \cup {t},
                              !.tail = nextIn(t, SqSize)]
  /\ tagQ' = Append(tagQ, "Store")
  /\ UNCHANGED loadQ

enqStore(entry) ==
  LET t == storeQ.tail IN
  /\ t \notin storeQ.valid
  /\ Len(tagQ) < LqSize + SqSize
  /\ storeQ' = [storeQ EXCEPT !.ready = @ \ {t}, !.entries[t] = entry,
                              !.toIssue = @ \cup {t}, !.valid = @ \cup {t},
                              !.tail = nextIn(t, SqSize)]
  /\ tagQ' = Append(tagQ, "Store")
  /\ UNCHANGED loadQ

(* Faulty variant: a misaligned load is read as well.                      *)
wakeupLoad_alsoReads(i, addr) ==
  LET e == loadQ.entries[i] IN
  /\ loadQ' = [loadQ EXCEPT !.addresses[i] = addr, !.addrValid = @ \cup {i}]
  /\ IF aligned(addr, e.size)
       THEN UNCHANGED loadFailureQ
       ELSE /\ Len(loadFailureQ) < 2
            /\ loadFailureQ' = Append(loadFailureQ, Answer(e, FALSE, zeroData))
  /\ UNCHANGED <<storeQ, tagQ, loadSuccessQ, storeSuccessQ>>

wakeupLoad(i, addr) ==
  LET e == loadQ.entries[i] IN
  /\ IF aligned(addr, e.size)
       THEN /\ loadQ' = [loadQ EXCEPT !.addresses[i] = addr, !.addrValid = @ \cup {i}]
            /\ UNCHANGED loadFailureQ
       ELSE /\ Len(loadFailureQ) < 2
            /\ loadQ' = [loadQ EXCEPT !.addresses[i] = addr]
            /\ loadFailureQ' = Append(loadFailureQ, Answer(e, FALSE, zeroData))
  /\ UNCHANGED <<storeQ, tagQ, loadSuccessQ, storeSuccessQ>>

(* wakeupStoreAddr and wakeupStoreData, always called together.            *)
wakeupStore(i, addr, d) ==
  /\ storeQ' = [storeQ EXCEPT !.addresses[i] = addr, !.datas[i] = d, !.ready = @ \cup {i}]
  /\ UNCHANGED <<loadQ, tagQ, replyVars>>

(* LoadQ.search: the load a committed store to word w disowns.             *)
disowned(w) ==
  {loadQ.entries[i].index : i \in
     {i \in LqIndex : isFirstFrom(i, {j \in loadQ.executed : loadQ.addresses[j][1] = w},
                                  loadQ.head, LqSize)}}

commitLoad ==
  LET h == loadQ.head IN
  /\ tagQ # <<>> /\ Head(tagQ) = "Load"
  /\ h \in loadQ.valid
  /\ tagQ' = Tail(tagQ)
  /\ loadQ' = [loadQ EXCEPT !.executed = @ \ {h}, !.valid = @ \ {h}, !.head = nextIn(h, LqSize)]
  /\ UNCHANGED <<storeQ, stb, isStoreMMIO, wrequestQ>>

(* Faulty variant: a squashed store stays in its ring.                     *)
commitStore_keepsSquashed(must_commit) ==
  LET h == storeQ.head
      e == toStb(storeQ.addresses[h], storeQ.entries[h].size, storeQ.datas[h])
  IN
  /\ tagQ # <<>> /\ Head(tagQ) = "Store"
  /\ h \in storeQ.valid
  /\ tagQ' = Tail(tagQ)
  /\ IF must_commit
       THEN /\ Len(stb) < StbSize /\ Len(isStoreMMIO) < StbSize /\ Len(wrequestQ) < 4
            /\ storeQ' = [storeQ EXCEPT !.valid = @ \ {h}, !.head = nextIn(h, SqSize)]
            /\ stb' = Append(stb, e)
            /\ isStoreMMIO' = Append(isStoreMMIO, isMMIO(e.word))
            /\ wrequestQ' = Append(wrequestQ, e)
       ELSE UNCHANGED <<storeQ, stb, isStoreMMIO, wrequestQ>>
  /\ UNCHANGED loadQ

commitStore(must_commit) ==
  LET h == storeQ.head
      e == toStb(storeQ.addresses[h], storeQ.entries[h].size, storeQ.datas[h])
  IN
  /\ tagQ # <<>> /\ Head(tagQ) = "Store"
  /\ h \in storeQ.valid
  /\ tagQ' = Tail(tagQ)
  /\ storeQ' = [storeQ EXCEPT !.valid = @ \ {h}, !.head = nextIn(h, SqSize)]
  /\ IF must_commit
       THEN /\ Len(stb) < StbSize /\ Len(isStoreMMIO) < StbSize /\ Len(wrequestQ) < 4
            /\ stb' = Append(stb, e)
            /\ isStoreMMIO' = Append(isStoreMMIO, isMMIO(e.word))
            /\ wrequestQ' = Append(wrequestQ, e)
       ELSE UNCHANGED <<stb, isStoreMMIO, wrequestQ>>
  /\ UNCHANGED loadQ

(* The word a committing store writes.                                     *)
storeWord == storeQ.addresses[storeQ.head][1]

(* deq: loads that succeeded first, then those that failed, then stores.   *)
reply ==
  CASE loadSuccessQ # <<>> -> loadSuccessQ
    [] loadSuccessQ = <<>> /\ loadFailureQ # <<>> -> loadFailureQ
    [] OTHER -> storeSuccessQ

lsuDeq ==
  /\ reply # <<>>
  /\ loadSuccessQ' = IF loadSuccessQ # <<>> THEN Tail(loadSuccessQ) ELSE <<>>
  /\ loadFailureQ' = IF loadSuccessQ = <<>> /\ loadFailureQ # <<>>
                       THEN Tail(loadFailureQ) ELSE loadFailureQ
  /\ storeSuccessQ' = IF loadSuccessQ = <<>> /\ loadFailureQ = <<>>
                        THEN Tail(storeSuccessQ) ELSE storeSuccessQ

emptySTB == stb = <<>> /\ invalidateQ = 0

invalidate == invalidateQ = 0 /\ invalidateQ' = 1

-----------------------------------------------------------------------------
(* Rules.                                                                  *)

(* tryIssue: the oldest load with an address that has not read.            *)
canRead(i) ==
  isFirstFrom(i, (loadQ.addrValid \cap loadQ.valid) \ loadQ.executed, loadQ.head, LqSize)

(* StoreB.search and StoreQ.search: an older store may cover word w.       *)
stbSearch(w) == \E k \in 1 .. Len(stb) : stb[k].word = w

sqSearch(w, entry) ==
  \E j \in storeQ.valid \cap storeQ.ready :
    /\ storeQ.addresses[j][1] = w
    /\ storeQ.entries[j].epoch = entry.epoch
    /\ isBefore(storeQ.entries[j].age, entry.age)

loadBlocked(i) ==
  LET w == loadQ.addresses[i][1] IN stbSearch(w) \/ sqSearch(w, loadQ.entries[i])

issueLoad ==
  \E i \in LqIndex :
    LET w == loadQ.addresses[i][1] IN
    /\ canRead(i) /\ ~loadBlocked(i)
    /\ Len(rrequestQ) < 4
    /\ loadQ' = [loadQ EXCEPT !.executed = @ \cup {i}]
    /\ rrequestQ' = Append(rrequestQ, w)
    /\ IF isMMIO(w)
         THEN /\ Len(pendingMmioLoadsQ) < LqSize
              /\ pendingMmioLoadsQ' = Append(pendingMmioLoadsQ, i)
              /\ UNCHANGED pendingDmemLoadsQ
         ELSE /\ Len(pendingDmemLoadsQ) < LqSize
              /\ pendingDmemLoadsQ' = Append(pendingDmemLoadsQ, i)
              /\ UNCHANGED pendingMmioLoadsQ
    /\ UNCHANGED <<storeQ, tagQ, replyVars, cacheRead, rresponseQ, writeVars, invalidateQ, mem>>

(* Faulty variant: the device side has room for one answer less.           *)
readRequest_tight ==
  /\ rrequestQ # <<>>
  /\ rrequestQ' = Tail(rrequestQ)
  /\ IF isMMIO(Head(rrequestQ))
       THEN /\ Len(rresponseQ) + 1 < MmioCap
            /\ rresponseQ' = Append(rresponseQ, mem[Head(rrequestQ)])
            /\ UNCHANGED cacheRead
       ELSE /\ cacheRead' = Append(cacheRead, mem[Head(rrequestQ)])
            /\ UNCHANGED rresponseQ
  /\ UNCHANGED <<ringVars, replyVars, pendingDmemLoadsQ, pendingMmioLoadsQ, writeVars,
                 invalidateQ, mem>>

(* enqRdCache, or the device bus taking the request.                       *)
readRequest ==
  /\ rrequestQ # <<>>
  /\ rrequestQ' = Tail(rrequestQ)
  /\ IF isMMIO(Head(rrequestQ))
       THEN /\ Len(rresponseQ) < MmioCap
            /\ rresponseQ' = Append(rresponseQ, mem[Head(rrequestQ)])
            /\ UNCHANGED cacheRead
       ELSE /\ cacheRead' = Append(cacheRead, mem[Head(rrequestQ)])
            /\ UNCHANGED rresponseQ
  /\ UNCHANGED <<ringVars, replyVars, pendingDmemLoadsQ, pendingMmioLoadsQ, writeVars,
                 invalidateQ, mem>>

(* Answers of the devices wait until no cache read is pending.             *)
loadResponse ==
  LET dmem == pendingDmemLoadsQ # <<>>
      i == IF dmem THEN Head(pendingDmemLoadsQ) ELSE Head(pendingMmioLoadsQ)
      d == IF dmem THEN Head(cacheRead) ELSE Head(rresponseQ)
      e == loadQ.entries[i]
  IN
  /\ IF dmem
       THEN /\ cacheRead # <<>>
            /\ cacheRead' = Tail(cacheRead)
            /\ pendingDmemLoadsQ' = Tail(pendingDmemLoadsQ)
            /\ UNCHANGED <<rresponseQ, pendingMmioLoadsQ>>
       ELSE /\ rresponseQ # <<>> /\ pendingMmioLoadsQ # <<>>
            /\ rresponseQ' = Tail(rresponseQ)
            /\ pendingMmioLoadsQ' = Tail(pendingMmioLoadsQ)
            /\ UNCHANGED <<cacheRead, pendingDmemLoadsQ>>
  /\ Len(loadSuccessQ) < 2
  /\ loadSuccessQ' = Append(loadSuccessQ, Answer(e, TRUE, finish(loadQ.addresses[i], e.size, d)))
  /\ UNCHANGED <<ringVars, loadFailureQ, storeSuccessQ, rrequestQ, writeVars, invalidateQ, mem>>

issueStore ==
  \E i \in SqIndex :
    LET e == storeQ.entries[i] IN
    /\ isFirstFrom(i, storeQ.toIssue \cap storeQ.ready \cap storeQ.valid, 0, SqSize)
    /\ Len(storeSuccessQ) < 2
    /\ storeQ' = [storeQ EXCEPT !.toIssue = @ \ {i}]
    /\ storeSuccessQ' = Append(storeSuccessQ,
                               Answer(e, aligned(storeQ.addresses[i], e.size), zeroData))
    /\ UNCHANGED <<loadQ, tagQ, loadSuccessQ, loadFailureQ, readVars, writeVars, invalidateQ, mem>>

(* enqWrCache, or the device bus taking the request: the write happens.    *)
writeRequest ==
  LET e == Head(wrequestQ) IN
  /\ wrequestQ # <<>>
  /\ wrequestQ' = Tail(wrequestQ)
  /\ mem' = [mem EXCEPT ![e.word] = merge(@, e)]
  /\ IF isMMIO(e.word)
       THEN wresponseQ' = wresponseQ + 1 /\ UNCHANGED cacheWrite
       ELSE cacheWrite' = cacheWrite + 1 /\ UNCHANGED wresponseQ
  /\ UNCHANGED <<ringVars, replyVars, readVars, stb, isStoreMMIO, stbDeqQ, invalidateQ>>

(* Faulty variant: whichever answer comes first is taken.                  *)
deqSTB_anyAnswer ==
  /\ isStoreMMIO # <<>>
  /\ isStoreMMIO' = Tail(isStoreMMIO)
  /\ IF wresponseQ > 0
       THEN wresponseQ' = wresponseQ - 1 /\ UNCHANGED cacheWrite
       ELSE cacheWrite > 0 /\ cacheWrite' = cacheWrite - 1 /\ UNCHANGED wresponseQ
  /\ stbDeqQ < 2
  /\ stbDeqQ' = stbDeqQ + 1
  /\ UNCHANGED <<ringVars, replyVars, readVars, stb, wrequestQ, invalidateQ, mem>>

deqSTB ==
  /\ isStoreMMIO # <<>>
  /\ isStoreMMIO' = Tail(isStoreMMIO)
  /\ IF Head(isStoreMMIO)
       THEN wresponseQ > 0 /\ wresponseQ' = wresponseQ - 1 /\ UNCHANGED cacheWrite
       ELSE cacheWrite > 0 /\ cacheWrite' = cacheWrite - 1 /\ UNCHANGED wresponseQ
  /\ stbDeqQ < 2
  /\ stbDeqQ' = stbDeqQ + 1
  /\ UNCHANGED <<ringVars, replyVars, readVars, stb, wrequestQ, invalidateQ, mem>>

(* Faulty variant: the answer is taken and the entry stays.                *)
doDeqSTB_keeps ==
  /\ stbDeqQ > 0 /\ stb # <<>>
  /\ stbDeqQ' = stbDeqQ - 1
  /\ UNCHANGED <<ringVars, replyVars, readVars, stb, wrequestQ, isStoreMMIO, cacheWrite, wresponseQ,
                 invalidateQ, mem>>

doDeqSTB ==
  /\ stbDeqQ > 0 /\ stb # <<>>
  /\ stbDeqQ' = stbDeqQ - 1
  /\ stb' = Tail(stb)
  /\ UNCHANGED <<ringVars, replyVars, readVars, wrequestQ, isStoreMMIO, cacheWrite, wresponseQ,
                 invalidateQ, mem>>

lsuRules ==
  \/ issueLoad \/ readRequest \/ loadResponse
  \/ issueStore \/ writeRequest \/ deqSTB \/ doDeqSTB
=============================================================================
