-------------------------- MODULE FetchDecode_proofs --------------------------
(***************************************************************************)
(* For every number of pcs and epochs and every capacity of the cache: the *)
(* types of the fetch unit, that words and predictions stay paired, and    *)
(* that the unit implements FetchStream.                                   *)
(***************************************************************************)
EXTENDS FetchDecode, SequenceTheorems, TLAPS

(* A queue of one place that is not empty holds its head.                  *)
LEMMA OnePlace ==
  ASSUME NEW S, NEW s \in Seq(S), Len(s) <= 1, s # <<>>
  PROVE  Len(s) = 1 /\ s[1] \in S
<1> DEFINE n == Len(s)
<1>1. n # 0 /\ n <= 1 BY EmptySeq
<1>2. n \in Nat BY LenProperties
<1> HIDE DEF n
<1>3. n = 1 BY <1>1, <1>2
<1> QED BY <1>3 DEF n

LEMMA InitType == Init => FetchTypeOK
<1> SUFFICES ASSUME Init PROVE FetchTypeOK
  OBVIOUS
<1>1. epoch \in Epoch /\ current_pc \in Pc /\ invalidateQ \in 0 .. 1
  BY FetchAssumption DEF Init, Epoch, Pc
<1>2. taken \in BOOLEAN
  BY DEF Init
<1> QED BY <1>1, <1>2, FetchAssumption DEF Init, FetchTypeOK

LEMMA PredictionType ==
  ASSUME NEW v \in BOOLEAN, NEW b \in [pc : Pc, epoch : Epoch], NEW pred \in Pc
  PROVE  Prediction(v, b, pred) \in FetchToDecode
BY DEF Prediction, FetchToDecode

(* Every rule keeps the types and the capacities.                          *)
LEMMA NextType == FetchTypeOK /\ [Next]_vars => FetchTypeOK'
<1> SUFFICES ASSUME FetchTypeOK, [Next]_vars PROVE FetchTypeOK'
  OBVIOUS
<1> USE FetchAssumption DEF FetchTypeOK
<1>1. CASE start
  <2>1. [pc |-> current_pc, epoch |-> epoch] \in [pc : Pc, epoch : Epoch]
    OBVIOUS
  <2> QED BY <1>1, <2>1 DEF start
<1>2. ASSUME NEW pred \in Pc, deq_bpred_result(pred) PROVE FetchTypeOK'
  <2> DEFINE r == Prediction(TRUE, bpred[1], pred)
  <2>0. bpred # <<>> BY <1>2 DEF deq_bpred_result
  <2>1. bpred[1] \in [pc : Pc, epoch : Epoch] BY <2>0, OnePlace
  <2>2. r \in FetchToDecode BY <2>1, PredictionType
  <2>3. fetch_to_decode' = Append(fetch_to_decode, r) BY <1>2 DEF deq_bpred_result
  <2> HIDE DEF r
  <2>7. Len(fetch_to_decode) < 3 BY <1>2 DEF deq_bpred_result
  <2>4. fetch_to_decode' \in Seq(FetchToDecode) /\ Len(fetch_to_decode') <= 3
    BY <2>2, <2>3, <2>7, AppendProperties
  <2>5. bpred' \in Seq([pc : Pc, epoch : Epoch]) /\ Len(bpred') <= 1
    BY <1>2 DEF deq_bpred_result
  <2>6. current_pc' \in Pc BY <1>2 DEF deq_bpred_result
  <2> QED BY <1>2, <2>4, <2>5, <2>6 DEF deq_bpred_result
<1>3. CASE ignore_bpred_result
  <2> DEFINE r == Prediction(FALSE, bpred[1], bpred[1].pc)
  <2>0. bpred # <<>> BY <1>3 DEF ignore_bpred_result
  <2>1. bpred[1] \in [pc : Pc, epoch : Epoch] BY <2>0, OnePlace
  <2>2. r \in FetchToDecode BY <2>1, PredictionType
  <2>3. fetch_to_decode' = Append(fetch_to_decode, r) BY <1>3 DEF ignore_bpred_result
  <2> HIDE DEF r
  <2>7. Len(fetch_to_decode) < 3 BY <1>3 DEF ignore_bpred_result
  <2>4. fetch_to_decode' \in Seq(FetchToDecode) /\ Len(fetch_to_decode') <= 3
    BY <2>2, <2>3, <2>7, AppendProperties
  <2>5. bpred' \in Seq([pc : Pc, epoch : Epoch]) /\ Len(bpred') <= 1
    BY <1>3 DEF ignore_bpred_result
  <2>6. current_pc' \in Pc BY <1>3 DEF ignore_bpred_result
  <2> QED BY <1>3, <2>4, <2>5, <2>6 DEF ignore_bpred_result
<1>4. CASE enqRResponse
  BY <1>4 DEF enqRResponse
<1>5. CASE decode_step
  <2> DEFINE req == Head(fetch_to_decode)
             out == [pc |-> req.pc, word |-> Head(rresponseQ), pred |-> req.pred,
                     epoch |-> req.epoch]
  <2>1. req \in FetchToDecode BY <1>5 DEF decode_step
  <2>2. Head(rresponseQ) \in Pc BY <1>5 DEF decode_step
  <2>3. out \in Decoded BY <2>1, <2>2 DEF FetchToDecode, Decoded
  <2>4. outputs' = <<out>> BY <1>5 DEF decode_step
  <2> HIDE DEF out
  <2> QED BY <1>5, <2>3, <2>4 DEF decode_step
<1>6. CASE decode_ignore_step
  BY <1>6 DEF decode_ignore_step
<1>7. CASE to_RR
  <2>1. taken' \in BOOLEAN BY <1>7 DEF to_RR
  <2>2. outputs' \in Seq(Decoded) /\ Len(outputs') <= 1 BY <1>7 DEF to_RR
  <2> QED BY <1>7, <2>1, <2>2 DEF to_RR
<1>8. ASSUME NEW next_pc \in Pc, redirect(next_pc) PROVE FetchTypeOK'
  <2>1. epoch' \in Epoch BY <1>8 DEF redirect, Epoch
  <2>2. taken' \in BOOLEAN BY <1>8 DEF redirect
  <2> QED BY <1>8, <2>1, <2>2 DEF redirect
<1>9. CASE invalidate
  BY <1>9 DEF invalidate
<1>10. CASE invalidateAck
  BY <1>10 DEF invalidateAck
<1>11. CASE UNCHANGED vars
  BY <1>11 DEF vars
<1> QED BY <1>1, <1>2, <1>3, <1>4, <1>5, <1>6, <1>7, <1>8, <1>9, <1>10, <1>11 DEF Next

(* The fetch unit keeps its types and never overfills a queue.             *)
THEOREM FetchTypeCorrect == Spec => []FetchTypeOK
BY InitType, NextType, PTL DEF Spec

-----------------------------------------------------------------------------
(* Words and predictions.  Only WordsPaired depends on the order of the    *)
(* queues, so that each rule is looked at for what it moves: word(k) is    *)
(* the k-th word read or being read.                                       *)

word(k) == IF k <= Len(rresponseQ) THEN rresponseQ[k] ELSE cacheQ[k - Len(rresponseQ)]

LEMMA PairedMeans ==
  WordsPaired <=>
    /\ Len(fetch_to_decode) + Len(bpred) = Len(rresponseQ) + Len(cacheQ)
    /\ \A k \in 1 .. Len(fetch_to_decode) : fetch_to_decode[k].pc = word(k)
    /\ bpred # <<>> => bpred[1].pc = word(Len(fetch_to_decode) + 1)
BY DEF WordsPaired, word

LEMMA Lengths ==
  ASSUME FetchTypeOK
  PROVE  /\ Len(fetch_to_decode) \in Nat /\ Len(bpred) \in 0 .. 1
         /\ Len(rresponseQ) \in Nat /\ Len(cacheQ) \in Nat
         /\ (bpred = <<>> <=> Len(bpred) = 0)
<1> USE DEF FetchTypeOK
<1>1. bpred = <<>> <=> Len(bpred) = 0 BY EmptySeq
<1>7. Len(bpred) \in Nat BY LenProperties
<1>2. Len(fetch_to_decode) \in Nat BY LenProperties
<1>3. Len(rresponseQ) \in Nat BY LenProperties
<1>4. Len(cacheQ) \in Nat BY LenProperties
<1>5. Len(bpred) <= 1 OBVIOUS
<1> HIDE DEF FetchTypeOK
<1>6. Len(bpred) \in 0 .. 1
  <2>1. \A l \in Nat : l <= 1 => l \in 0 .. 1 OBVIOUS
  <2> QED BY <1>5, <1>7, <2>1
<1> QED BY <1>1, <1>2, <1>3, <1>4, <1>6

(* A prediction, valid or not, takes its place behind the others: the word *)
(* it waits for is the one that was read for it.                           *)
LEMMA PredictionKeepsPairs ==
  ASSUME FetchTypeOK, WordsPaired, NEW e, e \in FetchToDecode, bpred # <<>>,
         e.pc = bpred[1].pc,
         fetch_to_decode' = Append(fetch_to_decode, e), bpred' = <<>>,
         cacheQ' = cacheQ, rresponseQ' = rresponseQ
  PROVE  WordsPaired'
<1> DEFINE n == Len(fetch_to_decode)
<1>1. /\ Len(fetch_to_decode') = n + 1
      /\ \A k \in 1 .. n : fetch_to_decode'[k] = fetch_to_decode[k]
      /\ fetch_to_decode'[n + 1] = e
  BY AppendProperties DEF FetchTypeOK
<1>2. n \in Nat /\ Len(bpred) = 1 /\ Len(bpred') = 0
  BY Lengths
<1>3. n + Len(bpred) = Len(rresponseQ) + Len(cacheQ)
  BY PairedMeans
<1>4. \A k \in 1 .. n : fetch_to_decode[k].pc = word(k)
  BY PairedMeans
<1>5. bpred[1].pc = word(n + 1)
  BY PairedMeans
<1>6. \A k \in 1 .. n + 1 : word(k)' = word(k)
  BY DEF word
<1>7. \A k \in 1 .. n + 1 : fetch_to_decode'[k].pc = word(k)'
  <2> TAKE k \in 1 .. n + 1
  <2>1. CASE k = n + 1 BY <2>1, <1>1, <1>5, <1>6
  <2>2. CASE k \in 1 .. n BY <2>2, <1>1, <1>4, <1>6
  <2> QED BY <2>1, <2>2, <1>2
<1>8. Len(fetch_to_decode') + Len(bpred') = Len(rresponseQ') + Len(cacheQ')
  BY <1>1, <1>2, <1>3, Lengths
<1> HIDE DEF n
<1> QED BY <1>1, <1>7, <1>8 DEF WordsPaired, word

(* A new pc is read and predicted at once.                                 *)
LEMMA StartKeepsPairs ==
  ASSUME FetchTypeOK, WordsPaired, start PROVE WordsPaired'
<1> DEFINE n == Len(fetch_to_decode)
           c == Len(cacheQ)
           r == Len(rresponseQ)
<1>1. /\ Len(cacheQ') = c + 1 /\ cacheQ'[c + 1] = current_pc
      /\ \A k \in 1 .. c : cacheQ'[k] = cacheQ[k]
  BY AppendProperties DEF FetchTypeOK, start
<1>2. /\ fetch_to_decode' = fetch_to_decode /\ rresponseQ' = rresponseQ /\ bpred = <<>>
      /\ Len(bpred') = 1 /\ bpred'[1].pc = current_pc
  BY DEF start
<1>3. n \in Nat /\ c \in Nat /\ r \in Nat /\ Len(bpred) = 0
  BY Lengths, <1>2
<1>4. n = r + c
  BY PairedMeans, <1>3
<1>5. \A k \in 1 .. n : fetch_to_decode[k].pc = word(k)
  BY PairedMeans
<1>6. \A k \in 1 .. n : word(k)' = word(k)
  BY <1>1, <1>2, <1>3, <1>4 DEF word
<1>7. word(n + 1)' = current_pc
  BY <1>1, <1>2, <1>3, <1>4 DEF word
<1> HIDE DEF n, c, r
<1>8. Len(fetch_to_decode') = n /\ Len(rresponseQ') = r
  BY <1>2 DEF n, r
<1>9. \A k \in 1 .. n : fetch_to_decode'[k].pc = word(k)'
  BY <1>2, <1>5, <1>6
<1> QED BY <1>1, <1>2, <1>3, <1>4, <1>7, <1>8, <1>9 DEF WordsPaired, word

(* A word that arrives stays the k-th.                                     *)
LEMMA ResponseKeepsPairs ==
  ASSUME FetchTypeOK, WordsPaired, enqRResponse PROVE WordsPaired'
<1> DEFINE n == Len(fetch_to_decode)
           c == Len(cacheQ)
           r == Len(rresponseQ)
<1>1. /\ fetch_to_decode' = fetch_to_decode /\ bpred' = bpred /\ cacheQ # <<>>
      /\ rresponseQ' = Append(rresponseQ, Head(cacheQ)) /\ cacheQ' = Tail(cacheQ)
  BY DEF enqRResponse
<1>2. n \in Nat /\ c \in Nat /\ r \in Nat /\ Len(bpred) \in 0 .. 1
  BY Lengths
<1>3. /\ Head(cacheQ) \in Pc /\ Head(cacheQ) = cacheQ[1] /\ c > 0 /\ Len(cacheQ') = c - 1
      /\ \A k \in 1 .. c - 1 : cacheQ'[k] = cacheQ[k + 1]
  BY <1>1 DEF FetchTypeOK
<1>4. /\ Len(rresponseQ') = r + 1 /\ rresponseQ'[r + 1] = cacheQ[1]
      /\ \A k \in 1 .. r : rresponseQ'[k] = rresponseQ[k]
  BY <1>1, <1>3, AppendProperties DEF FetchTypeOK
<1>5. n + Len(bpred) = r + c
  BY PairedMeans
<1>6. \A k \in 1 .. r + c : word(k)' = word(k)
  <2> TAKE k \in 1 .. r + c
  <2> HIDE DEF c
  <2>1. CASE k <= r BY <2>1, <1>2, <1>4 DEF word
  <2>2. CASE k = r + 1 BY <2>2, <1>2, <1>3, <1>4 DEF word
  <2>3. CASE k > r + 1
    <3>1. word(k) = cacheQ[k - r] BY <2>3, <1>2 DEF word
    <3>2. word(k)' = cacheQ'[k - (r + 1)] BY <2>3, <1>2, <1>4 DEF word
    <3>3. k - (r + 1) \in 1 .. c - 1 /\ k - (r + 1) + 1 = k - r BY <2>3, <1>2
    <3> QED BY <3>1, <3>2, <3>3, <1>3
  <2> QED BY <2>1, <2>2, <2>3, <1>2
<1>7. \A k \in 1 .. n : fetch_to_decode'[k].pc = word(k)'
  BY <1>1, <1>2, <1>5, <1>6, PairedMeans
<1>8. bpred' # <<>> => bpred'[1].pc = word(n + 1)'
  <2>1. bpred # <<>> => Len(bpred) = 1 BY Lengths
  <2> QED BY <1>1, <1>2, <1>5, <1>6, <2>1, PairedMeans
<1>9. Len(fetch_to_decode') = n BY <1>1
<1>10. Len(fetch_to_decode') + Len(bpred') = Len(rresponseQ') + Len(cacheQ')
  BY <1>1, <1>2, <1>3, <1>4, <1>5, <1>9
<1>11. \A k \in 1 .. Len(fetch_to_decode') : fetch_to_decode'[k].pc = word(k)'
  BY <1>7, <1>9
<1>12. bpred' # <<>> => bpred'[1].pc = word(Len(fetch_to_decode) + 1)'
  BY <1>8
<1> HIDE DEF n, c, r
<1> QED BY <1>10, <1>11, <1>12 DEF WordsPaired, word

(* Decoding takes the first prediction with the first word.                *)
LEMMA DecodeKeepsPairs ==
  ASSUME FetchTypeOK, WordsPaired, fetch_to_decode # <<>>, rresponseQ # <<>>,
         fetch_to_decode' = Tail(fetch_to_decode), rresponseQ' = Tail(rresponseQ),
         bpred' = bpred, cacheQ' = cacheQ
  PROVE  WordsPaired'
<1> DEFINE n == Len(fetch_to_decode)
           c == Len(cacheQ)
           r == Len(rresponseQ)
<1>1. n \in Nat /\ c \in Nat /\ r \in Nat /\ Len(bpred) \in 0 .. 1
  BY Lengths
<1>2. /\ n > 0 /\ Len(fetch_to_decode') = n - 1
      /\ \A k \in 1 .. n - 1 : fetch_to_decode'[k] = fetch_to_decode[k + 1]
  BY DEF FetchTypeOK
<1>3. /\ r > 0 /\ Len(rresponseQ') = r - 1
      /\ \A k \in 1 .. r - 1 : rresponseQ'[k] = rresponseQ[k + 1]
  BY DEF FetchTypeOK
<1>4. n + Len(bpred) = r + c
  BY PairedMeans
<1>5. \A k \in 1 .. r + c - 1 : word(k)' = word(k + 1)
  <2> TAKE k \in 1 .. r + c - 1
  <2>1. CASE k <= r - 1 BY <2>1, <1>1, <1>3 DEF word
  <2>2. CASE k > r - 1
    <3>1. word(k)' = cacheQ[k - (r - 1)] BY <2>2, <1>1, <1>3 DEF word
    <3>2. word(k + 1) = cacheQ[k + 1 - r] BY <2>2, <1>1 DEF word
    <3>3. k + 1 - r = k - (r - 1) BY <1>1
    <3> QED BY <3>1, <3>2, <3>3
  <2> QED BY <2>1, <2>2, <1>1
<1>6. \A k \in 1 .. n : fetch_to_decode[k].pc = word(k)
  BY PairedMeans
<1>7. \A k \in 1 .. n - 1 : fetch_to_decode'[k].pc = word(k)'
  BY <1>1, <1>2, <1>4, <1>5, <1>6
<1>8. ASSUME NEW k \in Nat, k = n, bpred # <<>> PROVE bpred[1].pc = word(k)'
  <2>1. Len(bpred) = 1 BY <1>8, Lengths
  <2>2. bpred[1].pc = word(n + 1) BY <1>8, PairedMeans
  <2> QED BY <1>1, <1>2, <1>4, <1>5, <1>8, <2>1, <2>2
<1>9. Len(fetch_to_decode') + Len(bpred') = Len(rresponseQ') + Len(cacheQ')
  BY <1>1, <1>2, <1>3, <1>4
<1>10. \A k \in 1 .. Len(fetch_to_decode') : fetch_to_decode'[k].pc = word(k)'
  BY <1>2, <1>7
<1>11. ASSUME bpred' # <<>>
       PROVE  bpred'[1].pc = word(Len(fetch_to_decode) + 1)'
  <2>1. Len(fetch_to_decode') + 1 = n BY <1>1, <1>2
  <2> QED BY <1>1, <1>8, <1>11, <2>1 DEF word
<1> HIDE DEF n, c, r
<1> QED BY <1>9, <1>10, <1>11 DEF WordsPaired, word

(* The rules, one by one.                                                  *)
LEMMA NextPairs == FetchTypeOK /\ WordsPaired /\ [Next]_vars => WordsPaired'
<1> SUFFICES ASSUME FetchTypeOK, WordsPaired, [Next]_vars PROVE WordsPaired'
  OBVIOUS
<1>1. CASE start
  BY <1>1, StartKeepsPairs
<1>2. ASSUME NEW pred \in Pc, deq_bpred_result(pred) PROVE WordsPaired'
  <2> DEFINE e == Prediction(TRUE, bpred[1], pred)
  <2>1. bpred # <<>> BY <1>2 DEF deq_bpred_result
  <2>2. bpred[1] \in [pc : Pc, epoch : Epoch] BY <2>1, OnePlace DEF FetchTypeOK
  <2>3. e \in FetchToDecode BY <2>2, PredictionType
  <2>4. e.pc = bpred[1].pc BY DEF Prediction
  <2> HIDE DEF e
  <2> QED BY <1>2, <2>1, <2>3, <2>4, PredictionKeepsPairs DEF deq_bpred_result, e
<1>3. CASE ignore_bpred_result
  <2> DEFINE e == Prediction(FALSE, bpred[1], bpred[1].pc)
  <2>1. bpred # <<>> BY <1>3 DEF ignore_bpred_result
  <2>2. bpred[1] \in [pc : Pc, epoch : Epoch] BY <2>1, OnePlace DEF FetchTypeOK
  <2>3. e \in FetchToDecode BY <2>2, PredictionType
  <2>4. e.pc = bpred[1].pc BY DEF Prediction
  <2> HIDE DEF e
  <2> QED BY <1>3, <2>1, <2>3, <2>4, PredictionKeepsPairs DEF ignore_bpred_result, e
<1>4. CASE enqRResponse
  BY <1>4, ResponseKeepsPairs
<1>5. CASE decode_step
  BY <1>5, DecodeKeepsPairs DEF decode_step
<1>6. CASE decode_ignore_step
  BY <1>6, DecodeKeepsPairs DEF decode_ignore_step
<1>7. CASE to_RR \/ invalidate \/ invalidateAck \/ UNCHANGED vars
  BY <1>7 DEF to_RR, invalidate, invalidateAck, vars, WordsPaired
<1>8. ASSUME NEW next_pc \in Pc, redirect(next_pc) PROVE WordsPaired'
  BY <1>8 DEF redirect, WordsPaired
<1> QED BY <1>1, <1>2, <1>3, <1>4, <1>5, <1>6, <1>7, <1>8 DEF Next

(* Whatever is redirected between a read and its answer, the word decoded  *)
(* with a prediction is the one read at its pc.                            *)
THEOREM WordsPairedCorrect == Spec => []WordsPaired
<1>1. Init => WordsPaired
  BY DEF Init, WordsPaired
<1> QED BY <1>1, InitType, NextType, NextPairs, PTL DEF Spec


-----------------------------------------------------------------------------
(* The stream.  A redirection must find nothing of the epoch it starts: it *)
(* comes only after the core has taken an instruction of the current one,  *)
(* and then everything behind that instruction is of this epoch too.       *)

current(k) == fetch_to_decode[k].valid /\ fetch_to_decode[k].epoch = epoch
old(k)     == fetch_to_decode[k].valid /\ fetch_to_decode[k].epoch # epoch

bpredCurrent == bpred # <<>> => bpred[1].epoch = epoch

outputCurrent == outputs # <<>> /\ outputs[1].epoch = epoch

EpochsInOrder ==
  /\ taken => outputs = <<>> \/ outputCurrent
  /\ taken \/ outputCurrent => bpredCurrent /\ \A k \in 1 .. Len(fetch_to_decode) : ~old(k)
  /\ \A j, k \in 1 .. Len(fetch_to_decode) : j < k /\ current(j) => ~old(k)
  /\ \A j \in 1 .. Len(fetch_to_decode) : current(j) => bpredCurrent

LEMMA EpochsPredicted ==
  ASSUME FetchTypeOK, EpochsInOrder, NEW e \in FetchToDecode, bpred # <<>>, bpred' = <<>>,
         e.valid => e.epoch = epoch /\ bpred[1].epoch = epoch,
         ~e.valid => bpred[1].epoch # epoch,
         fetch_to_decode' = Append(fetch_to_decode, e), UNCHANGED <<epoch, outputs, taken>>
  PROVE  EpochsInOrder'
<1>0. PICK n \in Nat : n = Len(fetch_to_decode)
  BY LenProperties DEF FetchTypeOK
<1>1. /\ Len(fetch_to_decode') = n + 1 /\ n \in Nat
      /\ \A k \in 1 .. n : fetch_to_decode'[k] = fetch_to_decode[k]
      /\ fetch_to_decode'[n + 1] = e
  BY <1>0, AppendProperties DEF FetchTypeOK
<1>2. \A k \in 1 .. n : (current(k)' <=> current(k)) /\ (old(k)' <=> old(k))
  BY <1>1 DEF current, old
<1>3. ~old(n + 1)'
  BY <1>1 DEF old
<1>4. \A k \in 1 .. n + 1 : k \in 1 .. n \/ k = n + 1
  BY <1>1
<1>5. \A j \in 1 .. n + 1, k \in 1 .. n : j < k => j \in 1 .. n
  BY <1>1
<1>6. (taken => outputs = <<>> \/ outputCurrent)'
  BY DEF EpochsInOrder, outputCurrent
<1>7. ASSUME (taken \/ outputCurrent)', NEW k \in 1 .. n + 1
      PROVE  ~old(k)'
  <2>1. \A i \in 1 .. n : ~old(i)
    BY <1>0, <1>7 DEF EpochsInOrder, outputCurrent
  <2> QED  BY <1>2, <1>3, <1>4, <2>1
<1>8. ASSUME NEW j \in 1 .. n + 1, NEW k \in 1 .. n + 1, j < k, current(j)'
      PROVE  ~old(k)'
  <2>1. CASE k = n + 1
    BY <1>3, <2>1
  <2>2. CASE k \in 1 .. n
    <3>1. j \in 1 .. n
      BY <1>5, <1>8, <2>2
    <3> QED  BY <1>0, <1>2, <1>8, <2>2, <3>1 DEF EpochsInOrder
  <2> QED  BY <1>4, <2>1, <2>2
<1>9. bpredCurrent'
  BY DEF bpredCurrent
<1> QED  BY <1>1, <1>6, <1>7, <1>8, <1>9, Zenon DEF EpochsInOrder

LEMMA EpochsTail ==
  ASSUME FetchTypeOK, EpochsInOrder, fetch_to_decode # <<>>,
         fetch_to_decode' = Tail(fetch_to_decode), UNCHANGED <<epoch, bpred, taken>>,
         \/ outputs' = outputs
         \/ outputs = <<>> /\ Head(fetch_to_decode).valid /\ outputs' # <<>>
              /\ outputs'[1].epoch = Head(fetch_to_decode).epoch
  PROVE  EpochsInOrder'
<1>0. PICK n \in Nat : n = Len(fetch_to_decode)
  BY LenProperties DEF FetchTypeOK
<1>1. /\ Len(fetch_to_decode') = n - 1 /\ n \in Nat /\ n > 0
      /\ \A k \in 1 .. n - 1 : fetch_to_decode'[k] = fetch_to_decode[k + 1]
      /\ Head(fetch_to_decode) = fetch_to_decode[1]
  BY <1>0, HeadTailProperties, EmptySeq DEF FetchTypeOK
<1>2. /\ 1 \in 1 .. n
      /\ \A k \in 1 .. n - 1 : k + 1 \in 1 .. n /\ 1 < k + 1
      /\ \A j, k \in 1 .. n - 1 : j < k => j + 1 < k + 1
  BY <1>1
<1>3. \A k \in 1 .. n - 1 : (current(k)' <=> current(k + 1)) /\ (old(k)' <=> old(k + 1))
  BY <1>1 DEF current, old
<1>4. /\ taken => outputs = <<>> \/ outputCurrent
      /\ taken \/ outputCurrent => bpredCurrent /\ \A k \in 1 .. n : ~old(k)
      /\ \A j, k \in 1 .. n : j < k /\ current(j) => ~old(k)
      /\ \A j \in 1 .. n : current(j) => bpredCurrent
  BY <1>0 DEF EpochsInOrder
<1>5. bpredCurrent' <=> bpredCurrent
  BY DEF bpredCurrent
<1>6. /\ taken' => outputs' = <<>> \/ outputCurrent'
      /\ (taken \/ outputCurrent)' => taken \/ outputCurrent \/ current(1)
  BY <1>1, <1>2, <1>4 DEF outputCurrent, current, old
<1>7. ASSUME (taken \/ outputCurrent)'
      PROVE  bpredCurrent' /\ \A k \in 1 .. n - 1 : ~old(k)'
  BY <1>2, <1>3, <1>4, <1>5, <1>6, <1>7
<1>8. \A j, k \in 1 .. n - 1 : j < k /\ current(j)' => ~old(k)'
  BY <1>2, <1>3, <1>4
<1>9. \A j \in 1 .. n - 1 : current(j)' => bpredCurrent'
  BY <1>2, <1>3, <1>4, <1>5
<1> QED  BY <1>1, <1>6, <1>7, <1>8, <1>9 DEF EpochsInOrder

LEMMA OtherEpoch ==
  ASSUME NEW e \in Epoch
  PROVE  (e + 1) % NumEpoch # e
<1>1. CASE e + 1 < NumEpoch
  BY <1>1, FetchAssumption DEF Epoch
<1>2. CASE e + 1 = NumEpoch
  <2>1. NumEpoch = 1 * NumEpoch + 0 /\ 0 \in 0 .. NumEpoch - 1
    BY FetchAssumption
  <2>2. NumEpoch % NumEpoch = 0
    BY <2>1, FetchAssumption
  <2> QED  BY <1>2, <2>2, FetchAssumption DEF Epoch
<1> QED  BY <1>1, <1>2, FetchAssumption DEF Epoch

LEMMA EpochsNext == FetchTypeOK /\ EpochsInOrder /\ [Next]_vars => EpochsInOrder'
<1> SUFFICES ASSUME FetchTypeOK, EpochsInOrder, [Next]_vars PROVE EpochsInOrder'
  OBVIOUS
<1>1. CASE start
  <2>1. bpred' # <<>> /\ bpred'[1].epoch = epoch /\ UNCHANGED <<epoch, fetch_to_decode, outputs, taken>>
    BY <1>1 DEF start
  <2> QED  BY <2>1 DEF EpochsInOrder, outputCurrent, bpredCurrent, current, old
<1>2. ASSUME NEW pred \in Pc, deq_bpred_result(pred) PROVE EpochsInOrder'
  <2> DEFINE e == Prediction(TRUE, bpred[1], pred)
  <2>1. /\ bpred # <<>> /\ bpred' = <<>> /\ bpred[1].epoch = epoch
        /\ fetch_to_decode' = Append(fetch_to_decode, e) /\ UNCHANGED <<epoch, outputs, taken>>
    BY <1>2 DEF deq_bpred_result
  <2>2. bpred[1] \in [pc : Pc, epoch : Epoch]
    BY <2>1, OnePlace DEF FetchTypeOK
  <2>3. e \in FetchToDecode /\ e.valid /\ e.epoch = epoch
    BY <2>1, <2>2, PredictionType DEF Prediction
  <2> HIDE DEF e
  <2> QED  BY <2>1, <2>3, EpochsPredicted
<1>3. CASE ignore_bpred_result
  <2> DEFINE e == Prediction(FALSE, bpred[1], bpred[1].pc)
  <2>1. /\ bpred # <<>> /\ bpred' = <<>> /\ bpred[1].epoch # epoch
        /\ fetch_to_decode' = Append(fetch_to_decode, e) /\ UNCHANGED <<epoch, outputs, taken>>
    BY <1>3 DEF ignore_bpred_result
  <2>2. bpred[1] \in [pc : Pc, epoch : Epoch]
    BY <2>1, OnePlace DEF FetchTypeOK
  <2>3. e \in FetchToDecode /\ ~e.valid
    BY <2>1, <2>2, PredictionType DEF Prediction
  <2> HIDE DEF e
  <2> QED  BY <2>1, <2>3, EpochsPredicted
<1>4. CASE enqRResponse \/ invalidate \/ invalidateAck \/ UNCHANGED vars
  <2>1. UNCHANGED <<epoch, bpred, fetch_to_decode, outputs, taken>>
    BY <1>4 DEF enqRResponse, invalidate, invalidateAck, vars
  <2> QED  BY <2>1 DEF EpochsInOrder, outputCurrent, bpredCurrent, current, old
<1>5. CASE decode_step
  <2>1. /\ fetch_to_decode # <<>> /\ fetch_to_decode' = Tail(fetch_to_decode)
        /\ UNCHANGED <<epoch, bpred, taken>> /\ outputs = <<>> /\ Head(fetch_to_decode).valid
        /\ outputs' # <<>> /\ outputs'[1].epoch = Head(fetch_to_decode).epoch
    BY <1>5 DEF decode_step
  <2> QED  BY <2>1, EpochsTail
<1>6. CASE decode_ignore_step
  BY <1>6, EpochsTail DEF decode_ignore_step
<1>7. CASE to_RR
  <2>1. /\ outputs' = <<>> /\ (taken' <=> taken \/ outputCurrent)
        /\ UNCHANGED <<epoch, bpred, fetch_to_decode>>
    BY <1>7 DEF to_RR, outputCurrent, FetchTypeOK
  <2> QED  BY <2>1 DEF EpochsInOrder, outputCurrent, bpredCurrent, current, old
<1>8. ASSUME NEW next_pc \in Pc, redirect(next_pc) PROVE EpochsInOrder'
  <2>1. /\ taken /\ ~taken' /\ epoch' = (epoch + 1) % NumEpoch
        /\ UNCHANGED <<bpred, fetch_to_decode, outputs>>
    BY <1>8 DEF redirect
  <2>2. epoch' # epoch
    BY <2>1, OtherEpoch DEF FetchTypeOK
  <2>3. ~outputCurrent' /\ \A k \in 1 .. Len(fetch_to_decode') : ~current(k)'
    BY <2>1, <2>2 DEF EpochsInOrder, outputCurrent, current, old
  <2> QED  BY <2>1, <2>3 DEF EpochsInOrder
<1> QED BY <1>1, <1>2, <1>3, <1>4, <1>5, <1>6, <1>7, <1>8 DEF Next


(* A prediction as the stream sees it.                                     *)
asDecoded(e) == [pc |-> e.pc, word |-> e.pc, pred |-> e.pred, epoch |-> e.epoch]

LEMMA WaitingType ==
  ASSUME FetchTypeOK
  PROVE  \A k \in 1 .. 3 : /\ waitingAt(k) \in Seq(Decoded)
                           /\ (~(k <= Len(fetch_to_decode)) => waitingAt(k) = <<>>)
                           /\ (k <= Len(fetch_to_decode) =>
                                 /\ fetch_to_decode[k] \in FetchToDecode
                                 /\ waitingAt(k) = IF fetch_to_decode[k].valid
                                                     THEN <<asDecoded(fetch_to_decode[k])>> ELSE <<>>)
<1> TAKE k \in 1 .. 3
<1>1. ~(k <= Len(fetch_to_decode)) => waitingAt(k) = <<>>
  BY DEF waitingAt
<1>2. ASSUME k <= Len(fetch_to_decode)
      PROVE  /\ fetch_to_decode[k] \in FetchToDecode
             /\ waitingAt(k) = IF fetch_to_decode[k].valid
                                 THEN <<asDecoded(fetch_to_decode[k])>> ELSE <<>>
             /\ asDecoded(fetch_to_decode[k]) \in Decoded
  <2>1. fetch_to_decode[k] \in FetchToDecode
    <3>1. k \in 1 .. Len(fetch_to_decode)
      BY <1>2, LenProperties DEF FetchTypeOK
    <3> QED  BY <3>1, ElementOfSeq DEF FetchTypeOK
  <2>2. asDecoded(fetch_to_decode[k]) \in Decoded
    BY <2>1 DEF asDecoded, Decoded, FetchToDecode
  <2>3. waitingAt(k) = IF fetch_to_decode[k].valid
                         THEN <<asDecoded(fetch_to_decode[k])>> ELSE <<>>
    BY <1>2 DEF waitingAt, asDecoded
  <2> QED  BY <2>1, <2>2, <2>3
<1>3. <<>> \in Seq(Decoded) /\ \A d \in Decoded : <<d>> \in Seq(Decoded)
  OBVIOUS
<1> QED  BY <1>1, <1>2, <1>3, Zenon

LEMMA Concatenations ==
  ASSUME NEW S
  PROVE  /\ \A a \in Seq(S) : a \o <<>> = a /\ <<>> \o a = a
         /\ \A a, b, c \in Seq(S) : (a \o b) \o c = a \o (b \o c)
         /\ \A a, b \in Seq(S) : a \o b \in Seq(S)
         /\ \A a \in Seq(S), x \in S : /\ Append(a, x) = a \o <<x>> /\ <<x>> \in Seq(S)
                                       /\ <<x>> \o a # <<>> /\ Tail(<<x>> \o a) = a
<1>1. \A a \in Seq(S) : a \o <<>> = a /\ <<>> \o a = a
  BY ConcatEmptySeq
<1>2. \A a, b, c \in Seq(S) : (a \o b) \o c = a \o (b \o c)
  BY ConcatAssociative
<1>3. \A a, b \in Seq(S) : a \o b \in Seq(S)
  BY ConcatProperties
<1>4. \A a \in Seq(S), x \in S : Append(a, x) = a \o <<x>> /\ <<x>> \in Seq(S)
  BY AppendIsConcat
<1>5. ASSUME NEW a \in Seq(S), NEW x \in S PROVE <<x>> \o a # <<>> /\ Tail(<<x>> \o a) = a
  OBVIOUS
<1> QED  BY <1>1, <1>2, <1>3, <1>4, <1>5


waiting == waitingAt(1) \o waitingAt(2) \o waitingAt(3)

LEMMA WaitingSeq == FetchTypeOK => waiting \in Seq(Decoded) /\ streamed = outputs \o waiting
<1> HAVE FetchTypeOK
<1>1. waitingAt(1) \in Seq(Decoded) /\ waitingAt(2) \in Seq(Decoded) /\ waitingAt(3) \in Seq(Decoded)
  BY WaitingType
<1>2. waiting \in Seq(Decoded)
  BY <1>1, Concatenations DEF waiting
<1> QED  BY <1>2 DEF streamed, waiting

(* What a prediction adds.                                                 *)
added(e) == IF e.valid THEN <<asDecoded(e)>> ELSE <<>>

LEMMA AddedType ==
  ASSUME NEW e \in FetchToDecode
  PROVE  asDecoded(e) \in Decoded /\ added(e) \in Seq(Decoded)
<1>1. asDecoded(e) \in Decoded
  BY DEF asDecoded, Decoded, FetchToDecode
<1>2. <<>> \in Seq(Decoded) /\ \A d \in Decoded : <<d>> \in Seq(Decoded)
  OBVIOUS
<1> QED  BY <1>1, <1>2, Zenon DEF added

LEMMA WaitingAppend ==
  ASSUME FetchTypeOK, NEW e \in FetchToDecode, Len(fetch_to_decode) < 3,
         fetch_to_decode' = Append(fetch_to_decode, e)
  PROVE  waiting' = waiting \o added(e)
<1>0. PICK n \in Nat : n = Len(fetch_to_decode)
  BY LenProperties DEF FetchTypeOK
<1>1. /\ Len(fetch_to_decode') = n + 1
      /\ \A k \in 1 .. n : fetch_to_decode'[k] = fetch_to_decode[k]
      /\ fetch_to_decode'[n + 1] = e
  BY <1>0, AppendProperties DEF FetchTypeOK
<1>2. \A k \in 1 .. 3 : waitingAt(k) \in Seq(Decoded) /\ (k > n => waitingAt(k) = <<>>)
  <2>1. \A k \in 1 .. 3 : k > n => ~(k <= n)
    OBVIOUS
  <2> QED  BY <1>0, <2>1, WaitingType
<1>3. ASSUME NEW k \in 1 .. 3
      PROVE  waitingAt(k)' = IF k = n + 1 THEN added(e) ELSE waitingAt(k)
  <2>1. CASE k <= n
    <3>1. k \in 1 .. n /\ k <= n + 1 /\ k # n + 1
      BY <2>1
    <3>2. fetch_to_decode'[k] = fetch_to_decode[k] /\ k <= Len(fetch_to_decode') /\ k <= Len(fetch_to_decode)
      BY <1>0, <1>1, <3>1
    <3>3. waitingAt(k)' = waitingAt(k)
      BY <3>2 DEF waitingAt
    <3> QED  BY <3>1, <3>3
  <2>2. CASE k = n + 1
    <3>1. fetch_to_decode'[k] = e /\ k <= Len(fetch_to_decode')
      BY <1>0, <1>1, <2>2
    <3> QED  BY <2>2, <3>1 DEF waitingAt, added, asDecoded
  <2>3. CASE k > n + 1
    <3>1. ~(k <= n + 1) /\ k > n /\ k # n + 1
      BY <2>3
    <3>2. waitingAt(k)' = <<>>
      BY <1>1, <3>1 DEF waitingAt
    <3> QED  BY <1>2, <3>1, <3>2
  <2> QED  BY <2>1, <2>2, <2>3
<1>4. n = 0 \/ n = 1 \/ n = 2
  BY <1>0
<1>5. added(e) \in Seq(Decoded)
  BY AddedType
<1> DEFINE a == waitingAt(1)  b == waitingAt(2)  c == waitingAt(3)  x == added(e)
<1>6. a \in Seq(Decoded) /\ b \in Seq(Decoded) /\ c \in Seq(Decoded) /\ x \in Seq(Decoded)
  BY <1>2, <1>5
<1>7. /\ a' = IF 1 = n + 1 THEN x ELSE a
      /\ b' = IF 2 = n + 1 THEN x ELSE b
      /\ c' = IF 3 = n + 1 THEN x ELSE c
  BY <1>3
<1>8. waiting = a \o b \o c /\ waiting' = a' \o b' \o c'
  BY DEF waiting
<1>9. (1 > n => a = <<>>) /\ (2 > n => b = <<>>) /\ (3 > n => c = <<>>)
  BY <1>2
<1>10. PICK w \in Seq(Decoded), y \in Seq(Decoded), z \in Seq(Decoded), v \in Seq(Decoded) :
         w = a /\ y = b /\ z = c /\ v = x
  BY <1>6
<1> HIDE DEF a, b, c, x
<1>11. CASE n = 0
  <2>1. a' = v /\ b' = <<>> /\ c' = <<>> /\ w = <<>> /\ y = <<>> /\ z = <<>>
    BY <1>7, <1>9, <1>10, <1>11
  <2>2. v \o <<>> \o <<>> = <<>> \o <<>> \o <<>> \o v
    BY Concatenations
  <2> QED  BY <1>8, <1>10, <2>1, <2>2, Zenon DEF x
<1>12. CASE n = 1
  <2>1. a' = w /\ b' = v /\ c' = <<>> /\ y = <<>> /\ z = <<>>
    BY <1>7, <1>9, <1>10, <1>12
  <2>2. w \o v \o <<>> = w \o <<>> \o <<>> \o v
    BY Concatenations
  <2> QED  BY <1>8, <1>10, <2>1, <2>2, Zenon DEF x
<1>13. CASE n = 2
  <2>1. a' = w /\ b' = y /\ c' = v /\ z = <<>>
    BY <1>7, <1>9, <1>10, <1>13
  <2>2. w \o y \o v = w \o y \o <<>> \o v
    BY Concatenations
  <2> QED  BY <1>8, <1>10, <2>1, <2>2, Zenon DEF x
<1> QED  BY <1>4, <1>11, <1>12, <1>13

LEMMA WaitingTail ==
  ASSUME FetchTypeOK, fetch_to_decode # <<>>, fetch_to_decode' = Tail(fetch_to_decode)
  PROVE  waiting = added(Head(fetch_to_decode)) \o waiting' /\ waiting' \in Seq(Decoded)
<1>0. PICK n \in Nat : n = Len(fetch_to_decode)
  BY LenProperties DEF FetchTypeOK
<1>1. /\ Len(fetch_to_decode') = n - 1 /\ n > 0 /\ n <= 3
      /\ \A k \in 1 .. n - 1 : fetch_to_decode'[k] = fetch_to_decode[k + 1]
      /\ Head(fetch_to_decode) = fetch_to_decode[1]
  BY <1>0, HeadTailProperties, EmptySeq DEF FetchTypeOK
<1>2. /\ waitingAt(1) \in Seq(Decoded) /\ waitingAt(2) \in Seq(Decoded) /\ waitingAt(3) \in Seq(Decoded)
  BY WaitingType
<1>3. waitingAt(1) = added(Head(fetch_to_decode))
  BY <1>0, <1>1 DEF waitingAt, added, asDecoded
<1>4. waitingAt(1)' = waitingAt(2)
  <2>1. CASE 2 <= n
    <3>1. fetch_to_decode'[1] = fetch_to_decode[2] /\ 1 <= n - 1
      BY <1>1, <2>1
    <3> QED  BY <1>0, <1>1, <2>1, <3>1 DEF waitingAt
  <2>2. CASE ~(2 <= n)
    <3>1. ~(1 <= n - 1)
      BY <2>2
    <3> QED  BY <1>0, <1>1, <2>2, <3>1 DEF waitingAt
  <2> QED  BY <2>1, <2>2
<1>5. waitingAt(2)' = waitingAt(3)
  <2>1. CASE 3 <= n
    <3>1. fetch_to_decode'[2] = fetch_to_decode[3] /\ 2 <= n - 1
      BY <1>1, <2>1
    <3> QED  BY <1>0, <1>1, <2>1, <3>1 DEF waitingAt
  <2>2. CASE ~(3 <= n)
    <3>1. ~(2 <= n - 1)
      BY <2>2
    <3> QED  BY <1>0, <1>1, <2>2, <3>1 DEF waitingAt
  <2> QED  BY <2>1, <2>2
<1>6. waitingAt(3)' = <<>>
  <2>1. ~(3 <= n - 1)
    BY <1>1
  <2> QED  BY <1>1, <2>1 DEF waitingAt
<1>7. PICK w \in Seq(Decoded), y \in Seq(Decoded), z \in Seq(Decoded) :
        w = waitingAt(1) /\ y = waitingAt(2) /\ z = waitingAt(3)
  BY <1>2
<1>8. waiting = w \o y \o z /\ waiting' = y \o z \o <<>>
  BY <1>4, <1>5, <1>6, <1>7 DEF waiting
<1>9. /\ y \o z \o <<>> = y \o z /\ y \o z \in Seq(Decoded)
      /\ w \o y \o z = w \o (y \o z)
  BY Concatenations
<1> QED  BY <1>3, <1>7, <1>8, <1>9


LEMMA StreamedFrame ==
  ASSUME UNCHANGED <<fetch_to_decode, outputs>>
  PROVE  streamed' = streamed /\ waiting' = waiting
BY DEF streamed, waiting, waitingAt

LEMMA OneOutput ==
  ASSUME FetchTypeOK, outputs # <<>>
  PROVE  outputs[1] \in Decoded /\ outputs = <<outputs[1]>>
<1>1. outputs \in Seq(Decoded) /\ Len(outputs) = 1 /\ outputs[1] \in Decoded
  BY OnePlace DEF FetchTypeOK
<1> QED  BY <1>1

(* Each rule is a step of the stream or leaves it as it is.                *)
LEMMA StreamFetches ==
  ASSUME FetchTypeOK, FetchTypeOK', NEW pred \in Pc, deq_bpred_result(pred)
  PROVE  Stream!StreamFetch
<1> DEFINE e == Prediction(TRUE, bpred[1], pred)
<1>1. /\ bpred # <<>> /\ bpred' = <<>> /\ bpred[1].epoch = epoch /\ current_pc' = pred
      /\ Len(fetch_to_decode) < 3 /\ fetch_to_decode' = Append(fetch_to_decode, e)
      /\ UNCHANGED <<epoch, outputs>>
  BY DEF deq_bpred_result
<1>2. bpred[1] \in [pc : Pc, epoch : Epoch]
  BY <1>1, OnePlace DEF FetchTypeOK
<1>3. /\ e \in FetchToDecode /\ e.valid
      /\ asDecoded(e) = [pc |-> bpred[1].pc, word |-> bpred[1].pc, pred |-> pred, epoch |-> epoch]
  BY <1>1, <1>2, PredictionType DEF Prediction, asDecoded
<1>4. streamPc = bpred[1].pc /\ streamPc' = pred
  BY <1>1 DEF streamPc
<1> HIDE DEF e
<1>5. waiting' = waiting \o <<asDecoded(e)>>
  BY <1>1, <1>3, WaitingAppend DEF added
<1>6. /\ waiting \in Seq(Decoded) /\ outputs \in Seq(Decoded) /\ asDecoded(e) \in Decoded
      /\ streamed = outputs \o waiting /\ streamed' = outputs \o waiting'
  <2>1. streamed' = outputs' \o waiting'
    BY WaitingSeq DEF streamed, waiting
  <2> QED  BY <1>1, <1>3, <2>1, AddedType, WaitingSeq DEF FetchTypeOK
<1>7. streamed' = Append(streamed, asDecoded(e))
  <2>1. \A a, b \in Seq(Decoded), x \in Decoded : a \o (b \o <<x>>) = Append(a \o b, x)
    BY Concatenations
  <2> QED  BY <1>5, <1>6, <2>1
<1> QED  BY <1>1, <1>3, <1>4, <1>7 DEF Stream!StreamFetch

LEMMA StreamIgnores ==
  ASSUME FetchTypeOK, ignore_bpred_result
  PROVE  UNCHANGED <<streamPc, epoch, streamed>>
<1> DEFINE e == Prediction(FALSE, bpred[1], bpred[1].pc)
<1>1. /\ bpred # <<>> /\ bpred' = <<>> /\ bpred[1].epoch # epoch /\ current_pc' = current_pc
      /\ Len(fetch_to_decode) < 3 /\ fetch_to_decode' = Append(fetch_to_decode, e)
      /\ UNCHANGED <<epoch, outputs>>
  BY DEF ignore_bpred_result
<1>2. bpred[1] \in [pc : Pc, epoch : Epoch]
  BY <1>1, OnePlace DEF FetchTypeOK
<1>3. e \in FetchToDecode /\ ~e.valid
  BY <1>1, <1>2, PredictionType DEF Prediction
<1> HIDE DEF e
<1>4. waiting' = waiting \o <<>>
  BY <1>1, <1>3, WaitingAppend DEF added
<1>5. waiting' = waiting
  BY <1>4, WaitingSeq, Concatenations
<1>6. streamed' = streamed
  BY <1>1, <1>5 DEF streamed, waiting
<1> QED  BY <1>1, <1>6 DEF streamPc

LEMMA StreamDecodes ==
  ASSUME FetchTypeOK, WordsPaired, decode_step
  PROVE  UNCHANGED <<streamPc, epoch, streamed>>
<1> DEFINE e == Head(fetch_to_decode)
<1>1. /\ fetch_to_decode # <<>> /\ e.valid /\ rresponseQ # <<>> /\ outputs = <<>>
      /\ outputs' = <<[pc |-> e.pc, word |-> Head(rresponseQ), pred |-> e.pred, epoch |-> e.epoch]>>
      /\ fetch_to_decode' = Tail(fetch_to_decode) /\ UNCHANGED <<epoch, current_pc, bpred>>
  BY DEF decode_step
<1>2. Head(rresponseQ) = e.pc
  <2>1. /\ Len(rresponseQ) \in Nat /\ Len(rresponseQ) # 0 /\ Head(rresponseQ) = rresponseQ[1]
        /\ Len(fetch_to_decode) \in Nat /\ Len(fetch_to_decode) # 0 /\ e = fetch_to_decode[1]
    BY <1>1, EmptySeq, LenProperties, HeadTailProperties DEF FetchTypeOK
  <2>2. 1 \in 1 .. Len(fetch_to_decode) /\ 1 <= Len(rresponseQ)
    BY <2>1
  <2>3. fetch_to_decode[1].pc = word(1)
    BY <2>2, PairedMeans
  <2> QED  BY <2>1, <2>2, <2>3 DEF word
<1>3. outputs' = <<asDecoded(e)>> /\ added(e) = <<asDecoded(e)>>
  BY <1>1, <1>2 DEF asDecoded, added
<1>4. waiting = added(e) \o waiting' /\ waiting' \in Seq(Decoded)
  BY <1>1, WaitingTail
<1> HIDE DEF e
<1>5. streamed = <<>> \o waiting /\ streamed' = outputs' \o waiting'
  BY <1>1 DEF streamed, waiting
<1>6. streamed' = streamed
  <2>1. waiting \in Seq(Decoded)
    BY WaitingSeq
  <2> QED  BY <1>3, <1>4, <1>5, <2>1, Concatenations
<1> QED  BY <1>1, <1>6 DEF streamPc

LEMMA StreamDrops ==
  ASSUME FetchTypeOK, decode_ignore_step
  PROVE  UNCHANGED <<streamPc, epoch, streamed>>
<1>1. /\ fetch_to_decode # <<>> /\ ~Head(fetch_to_decode).valid
      /\ fetch_to_decode' = Tail(fetch_to_decode) /\ UNCHANGED <<epoch, current_pc, bpred, outputs>>
  BY DEF decode_ignore_step
<1>2. waiting = added(Head(fetch_to_decode)) \o waiting' /\ waiting' \in Seq(Decoded)
  BY <1>1, WaitingTail
<1>3. waiting = <<>> \o waiting'
  BY <1>1, <1>2 DEF added
<1>4. waiting = waiting'
  BY <1>2, <1>3, Concatenations
<1>5. streamed' = streamed
  BY <1>1, <1>4 DEF streamed, waiting
<1> QED  BY <1>1, <1>5 DEF streamPc

LEMMA StreamTakes ==
  ASSUME FetchTypeOK, to_RR
  PROVE  Stream!StreamTake
<1>1. outputs # <<>> /\ outputs' = <<>> /\ UNCHANGED <<epoch, current_pc, bpred, fetch_to_decode>>
  BY DEF to_RR
<1>2. outputs[1] \in Decoded /\ outputs = <<outputs[1]>>
  BY <1>1, OneOutput
<1>3. waiting \in Seq(Decoded) /\ waiting' = waiting
  BY <1>1, WaitingSeq DEF waiting, waitingAt
<1>4. streamed = outputs \o waiting /\ streamed' = <<>> \o waiting
  BY <1>1, <1>3 DEF streamed, waiting
<1>5. \A x \in Decoded : /\ <<x>> \o waiting # <<>> /\ Tail(<<x>> \o waiting) = waiting
                         /\ <<>> \o waiting = waiting
  BY <1>3, Concatenations
<1>6. streamed # <<>> /\ streamed' = Tail(streamed)
  BY <1>2, <1>4, <1>5
<1>7. streamPc' = streamPc
  BY <1>1 DEF streamPc
<1> QED  BY <1>1, <1>6, <1>7 DEF Stream!StreamTake

LEMMA StreamRedirects ==
  ASSUME FetchTypeOK, EpochsInOrder, NEW next_pc \in Pc, redirect(next_pc)
  PROVE  Stream!StreamRedirect
<1>1. /\ taken /\ current_pc' = next_pc /\ epoch' = (epoch + 1) % NumEpoch
      /\ UNCHANGED <<bpred, fetch_to_decode, outputs>>
  BY DEF redirect
<1>2. epoch' # epoch
  BY <1>1, OtherEpoch DEF FetchTypeOK
<1>3. bpred # <<>> => bpred[1].epoch = epoch
  BY <1>1 DEF EpochsInOrder, bpredCurrent
<1>4. streamPc' = next_pc
  BY <1>1, <1>2, <1>3 DEF streamPc
<1>5. streamed' = streamed
  BY <1>1, StreamedFrame
<1> QED  BY <1>1, <1>4, <1>5 DEF Stream!StreamRedirect

LEMMA StreamNext ==
  FetchTypeOK /\ FetchTypeOK' /\ WordsPaired /\ EpochsInOrder /\ [Next]_vars =>
    [Stream!StreamFetch \/ Stream!StreamTake \/ Stream!StreamRedirect]_<<streamPc, epoch, streamed>>
<1> SUFFICES ASSUME FetchTypeOK, FetchTypeOK', WordsPaired, EpochsInOrder, [Next]_vars
             PROVE  \/ Stream!StreamFetch \/ Stream!StreamTake \/ Stream!StreamRedirect
                    \/ UNCHANGED <<streamPc, epoch, streamed>>
  OBVIOUS
<1>1. CASE start
  <2>1. /\ bpred = <<>> /\ bpred' # <<>> /\ bpred'[1].pc = current_pc /\ bpred'[1].epoch = epoch
        /\ UNCHANGED <<epoch, current_pc, fetch_to_decode, outputs>>
    BY <1>1 DEF start
  <2> QED  BY <2>1, StreamedFrame DEF streamPc
<1>2. ASSUME NEW pred \in Pc, deq_bpred_result(pred) PROVE Stream!StreamFetch
  BY <1>2, StreamFetches
<1>3. CASE ignore_bpred_result
  BY <1>3, StreamIgnores
<1>4. CASE enqRResponse \/ invalidate \/ invalidateAck \/ UNCHANGED vars
  <2>1. UNCHANGED <<epoch, current_pc, bpred, fetch_to_decode, outputs>>
    BY <1>4 DEF enqRResponse, invalidate, invalidateAck, vars
  <2> QED  BY <2>1, StreamedFrame DEF streamPc
<1>5. CASE decode_step
  BY <1>5, StreamDecodes
<1>6. CASE decode_ignore_step
  BY <1>6, StreamDrops
<1>7. CASE to_RR
  BY <1>7, StreamTakes
<1>8. ASSUME NEW next_pc \in Pc, redirect(next_pc) PROVE Stream!StreamRedirect
  BY <1>8, StreamRedirects
<1> QED BY <1>1, <1>2, <1>3, <1>4, <1>5, <1>6, <1>7, <1>8 DEF Next

(* The fetch unit provides the stream of instructions that the core takes  *)
(* from it: no redirection makes it skip, repeat or mix up words.          *)
THEOREM StreamCorrect == Spec => ImplementsStream
<1>1. Init => Stream!StreamInit /\ EpochsInOrder
  <2> HAVE Init
  <2>1. streamPc = 0 /\ 0 \in Pc
    BY FetchAssumption DEF Init, streamPc, Pc
  <2>2. waitingAt(1) = <<>> /\ waitingAt(2) = <<>> /\ waitingAt(3) = <<>>
    BY DEF Init, waitingAt
  <2>3. streamed = <<>>
    BY <2>2 DEF Init, streamed
  <2> QED  BY <2>1, <2>3 DEF Init, Stream!StreamInit, EpochsInOrder, outputCurrent
<1>2. FetchTypeOK /\ EpochsInOrder /\ [Next]_vars => EpochsInOrder'
  BY EpochsNext
<1> QED
  BY <1>1, <1>2, StreamNext, FetchTypeCorrect, WordsPairedCorrect, PTL
     DEF Spec, ImplementsStream, Stream!StreamSpec
=============================================================================
