----------------------------- MODULE FetchDecode -----------------------------
(***************************************************************************)
(* The fetch unit (mkFetchDecode of FetchDecode.bsv).  One pc at a time is *)
(* given to the branch predictor; its address goes to the instruction      *)
(* cache as well.  What the predictor says waits in fetch_to_decode for    *)
(* the word of the cache, and the two are paired by order alone: a         *)
(* prediction made for an old epoch leaves a place holder there, which     *)
(* consumes the word.                                                      *)
(*                                                                         *)
(* External: the predictor answers any pc; the cache answers in order, and *)
(* a word is named by the address it was read at; the core redirects only  *)
(* when it retires an instruction of the current epoch, one per epoch.     *)
(***************************************************************************)
EXTENDS Naturals, Sequences, FiniteSets

CONSTANTS NumPc,       \* pcs of the program
          NumEpoch,    \* epochs, counted modulo this
          CacheCap     \* reads inside the cache

ASSUME FetchAssumption ==
  /\ NumPc \in Nat \ {0} /\ CacheCap \in Nat \ {0}
  /\ NumEpoch \in Nat /\ NumEpoch > 1

VARIABLES epoch, current_pc,
          bpred,           \* pc and epoch being predicted, one at most
          cacheQ,          \* addresses being read
          rresponseQ,      \* words read
          fetch_to_decode, \* predictions, valid or to be ignored
          outputs,
          invalidateQ,     \* invalidations not acknowledged, 0 or 1
          taken            \* the core holds an instruction of this epoch

vars == <<epoch, current_pc, bpred, cacheQ, rresponseQ, fetch_to_decode, outputs,
          invalidateQ, taken>>

Pc    == 0 .. NumPc - 1
Epoch == 0 .. NumEpoch - 1

(* Maybe#(FetchToDecode): the fields of one that is not valid are not read *)
(* by the unit; its pc is kept to say which word it must consume.          *)
Prediction(valid, b, pred) == [valid |-> valid, pc |-> b.pc, pred |-> pred, epoch |-> b.epoch]

Init ==
  /\ epoch = 0 /\ current_pc = 0
  /\ bpred = <<>> /\ cacheQ = <<>> /\ rresponseQ = <<>>
  /\ fetch_to_decode = <<>> /\ outputs = <<>>
  /\ invalidateQ = 0 /\ taken = FALSE

start ==
  /\ bpred = <<>> /\ Len(cacheQ) < CacheCap
  /\ bpred' = <<[pc |-> current_pc, epoch |-> epoch]>>
  /\ cacheQ' = Append(cacheQ, current_pc)
  /\ UNCHANGED <<epoch, current_pc, rresponseQ, fetch_to_decode, outputs, invalidateQ, taken>>

(* Faulty variant: the prediction is queued without room for it.           *)
deq_bpred_result_full(pred) ==
  LET b == bpred[1] IN
  /\ bpred # <<>> /\ b.epoch = epoch
  /\ current_pc' = pred
  /\ fetch_to_decode' = Append(fetch_to_decode, Prediction(TRUE, b, pred))
  /\ bpred' = <<>>
  /\ UNCHANGED <<epoch, cacheQ, rresponseQ, outputs, invalidateQ, taken>>

(* Faulty variant: a prediction of an old epoch moves the pc.              *)
deq_bpred_result_old(pred) ==
  LET b == bpred[1] IN
  /\ bpred # <<>>
  /\ Len(fetch_to_decode) < 3
  /\ current_pc' = pred
  /\ fetch_to_decode' = Append(fetch_to_decode, Prediction(TRUE, b, pred))
  /\ bpred' = <<>>
  /\ UNCHANGED <<epoch, cacheQ, rresponseQ, outputs, invalidateQ, taken>>

deq_bpred_result(pred) ==
  LET b == bpred[1] IN
  /\ bpred # <<>> /\ b.epoch = epoch
  /\ Len(fetch_to_decode) < 3
  /\ current_pc' = pred
  /\ fetch_to_decode' = Append(fetch_to_decode, Prediction(TRUE, b, pred))
  /\ bpred' = <<>>
  /\ UNCHANGED <<epoch, cacheQ, rresponseQ, outputs, invalidateQ, taken>>

(* Faulty variant: a prediction of an old epoch leaves nothing behind.     *)
ignore_bpred_result_drops ==
  /\ bpred # <<>> /\ bpred[1].epoch # epoch
  /\ bpred' = <<>>
  /\ UNCHANGED <<epoch, current_pc, cacheQ, rresponseQ, fetch_to_decode, outputs, invalidateQ,
                 taken>>

(* Faulty variant: the rule is missing.                                    *)
ignore_bpred_result_never == FALSE /\ UNCHANGED vars

ignore_bpred_result ==
  /\ bpred # <<>> /\ bpred[1].epoch # epoch
  /\ Len(fetch_to_decode) < 3
  /\ fetch_to_decode' = Append(fetch_to_decode, Prediction(FALSE, bpred[1], bpred[1].pc))
  /\ bpred' = <<>>
  /\ UNCHANGED <<epoch, current_pc, cacheQ, rresponseQ, outputs, invalidateQ, taken>>

enqRResponse ==
  /\ cacheQ # <<>> /\ Len(rresponseQ) < 3
  /\ rresponseQ' = Append(rresponseQ, Head(cacheQ))
  /\ cacheQ' = Tail(cacheQ)
  /\ UNCHANGED <<epoch, current_pc, bpred, fetch_to_decode, outputs, invalidateQ, taken>>

decode_step ==
  LET req == Head(fetch_to_decode) IN
  /\ fetch_to_decode # <<>> /\ req.valid
  /\ rresponseQ # <<>> /\ outputs = <<>>
  /\ outputs' = <<[pc |-> req.pc, word |-> Head(rresponseQ), pred |-> req.pred,
                   epoch |-> req.epoch]>>
  /\ fetch_to_decode' = Tail(fetch_to_decode)
  /\ rresponseQ' = Tail(rresponseQ)
  /\ UNCHANGED <<epoch, current_pc, bpred, cacheQ, invalidateQ, taken>>

decode_ignore_step ==
  /\ fetch_to_decode # <<>> /\ ~Head(fetch_to_decode).valid
  /\ rresponseQ # <<>>
  /\ fetch_to_decode' = Tail(fetch_to_decode)
  /\ rresponseQ' = Tail(rresponseQ)
  /\ UNCHANGED <<epoch, current_pc, bpred, cacheQ, outputs, invalidateQ, taken>>

(* to_RR: the core takes an instruction.                                   *)
to_RR ==
  /\ outputs # <<>>
  /\ outputs' = <<>>
  /\ taken' = (taken \/ outputs[1].epoch = epoch)
  /\ UNCHANGED <<epoch, current_pc, bpred, cacheQ, rresponseQ, fetch_to_decode, invalidateQ>>

redirect(next_pc) ==
  /\ taken
  /\ current_pc' = next_pc
  /\ epoch' = (epoch + 1) % NumEpoch
  /\ taken' = FALSE
  /\ UNCHANGED <<bpred, cacheQ, rresponseQ, fetch_to_decode, outputs, invalidateQ>>

invalidate ==
  /\ invalidateQ = 0
  /\ invalidateQ' = 1
  /\ UNCHANGED <<epoch, current_pc, bpred, cacheQ, rresponseQ, fetch_to_decode, outputs, taken>>

invalidateAck ==
  /\ invalidateQ = 1
  /\ invalidateQ' = 0
  /\ UNCHANGED <<epoch, current_pc, bpred, cacheQ, rresponseQ, fetch_to_decode, outputs, taken>>

Next ==
  \/ start \/ \E pred \in Pc : deq_bpred_result(pred)
  \/ ignore_bpred_result \/ enqRResponse \/ decode_step \/ decode_ignore_step
  \/ to_RR \/ \E next_pc \in Pc : redirect(next_pc)
  \/ invalidate \/ invalidateAck

Spec == Init /\ [][Next]_vars

(* A rule that stays ready fires, the cache and the core take their turns; *)
(* nothing obliges the core to redirect or to invalidate.                  *)
Fairness ==
  /\ WF_vars(start) /\ WF_vars(\E pred \in Pc : deq_bpred_result(pred))
  /\ WF_vars(ignore_bpred_result) /\ WF_vars(enqRResponse)
  /\ WF_vars(decode_step) /\ WF_vars(decode_ignore_step)
  /\ WF_vars(to_RR)

FairSpec == Spec /\ Fairness

-----------------------------------------------------------------------------
(* Properties.                                                             *)

FetchToDecode == [valid : BOOLEAN, pc : Pc, pred : Pc, epoch : Epoch]
Decoded == [pc : Pc, word : Pc, pred : Pc, epoch : Epoch]

(* Every variable has its type and every queue respects its capacity.      *)
FetchTypeOK ==
  /\ epoch \in Epoch /\ current_pc \in Pc /\ taken \in BOOLEAN /\ invalidateQ \in 0 .. 1
  /\ bpred \in Seq([pc : Pc, epoch : Epoch]) /\ Len(bpred) <= 1
  /\ cacheQ \in Seq(Pc) /\ Len(cacheQ) <= CacheCap
  /\ rresponseQ \in Seq(Pc) /\ Len(rresponseQ) <= 3
  /\ fetch_to_decode \in Seq(FetchToDecode) /\ Len(fetch_to_decode) <= 3
  /\ outputs \in Seq(Decoded) /\ Len(outputs) <= 1

(* The words read and being read are those of the entries of               *)
(* fetch_to_decode and of the pc being predicted, one for one and in       *)
(* order, whatever was redirected in between.                              *)
WordsPaired ==
  LET n == Len(fetch_to_decode)
      r == Len(rresponseQ)
      word(k) == IF k <= r THEN rresponseQ[k] ELSE cacheQ[k - r]
  IN  /\ n + Len(bpred) = r + Len(cacheQ)
      /\ \A k \in 1 .. n : fetch_to_decode[k].pc = word(k)
      /\ bpred # <<>> => bpred[1].pc = word(n + 1)

(* The unit as a stream of instructions: those decoded or predicted.       *)
(* fetch_to_decode has three places; a place holder counts for nothing.    *)
waitingAt(k) ==
  LET e == fetch_to_decode[k] IN
  IF k <= Len(fetch_to_decode) /\ e.valid
    THEN <<[pc |-> e.pc, word |-> e.pc, pred |-> e.pred, epoch |-> e.epoch]>>
    ELSE <<>>

streamPc == IF bpred # <<>> /\ bpred[1].epoch = epoch THEN bpred[1].pc ELSE current_pc

streamed == outputs \o (waitingAt(1) \o waitingAt(2) \o waitingAt(3))

Stream == INSTANCE FetchStream WITH fetchPc <- streamPc, fetched <- streamed

(* The fetch unit provides the stream of instructions that OOOCore takes   *)
(* it to provide: no redirection makes it skip, repeat or mix up words.    *)
ImplementsStream == Stream!StreamSpec

(* Instructions of the current epoch keep coming after every redirection,  *)
(* or another redirection comes.                                           *)
Delivers == []<>taken
=============================================================================
