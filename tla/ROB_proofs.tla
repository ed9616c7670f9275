------------------------------ MODULE ROB_proofs ------------------------------
(***************************************************************************)
(* What the methods of the reorder buffer do to the set of live slots, and *)
(* facts about queues and counting that the other proofs share.            *)
(***************************************************************************)
EXTENDS ROB, Sequences, FiniteSetTheorems, SequenceTheorems, TLAPS

(* enq takes a slot that was not live, and makes it the youngest.          *)
LEMMA EnqLive ==
  ASSUME RingOK, NEW e, enq(e)
  PROVE  /\ RingOK'
         /\ nextP \in RobIndex /\ nextP \notin Live
         /\ Live' = Live \cup {nextP}
<1>1. RingOK'
  <2>1. /\ empty' = FALSE /\ ~full /\ firstP' = firstP /\ full' \in BOOLEAN
        /\ nextP' = robNext(nextP) /\ (full' <=> nextP' = firstP)
    BY DEF enq
  <2>2. firstP' \in RobIndex /\ nextP' \in RobIndex
    BY <2>1, RobSizeAssumption DEF RingOK, robNext, RobIndex
  <2> QED  BY <2>1, <2>2 DEF RingOK
<1>2. nextP \in RobIndex /\ nextP \notin Live
  BY RobSizeAssumption DEF RingOK, enq, Live, robPos, RobIndex
<1>3. ASSUME NEW i \in RobIndex
      PROVE  i \in Live' <=> i \in Live \/ i = nextP
  <2>1. /\ empty' = FALSE /\ ~full /\ firstP' = firstP
        /\ nextP' = robNext(nextP) /\ (full' <=> robNext(nextP) = firstP)
    BY DEF enq
  <2>2. i \in Live' <=> robNext(nextP) = firstP \/ robPos(i) < robPos(robNext(nextP))
    BY <2>1 DEF Live, robPos
  <2>3. i \in Live <=> ~empty /\ robPos(i) < robPos(nextP)
    BY <2>1 DEF Live
  <2>4. /\ firstP \in RobIndex /\ nextP \in RobIndex
        /\ firstP = nextP <=> empty
    BY <2>1 DEF RingOK
  <2> QED
    BY <2>2, <2>3, <2>4, RobSizeAssumption DEF robPos, robNext, RobIndex
<1> QED  BY <1>1, <1>2, <1>3 DEF Live, RobIndex

(* deq frees the first slot, which was live, and no other.                 *)
LEMMA DeqLive ==
  ASSUME RingOK, deq
  PROVE  /\ RingOK'
         /\ firstP \in Live
         /\ Live' = Live \ {firstP}
<1>1. RingOK'
  <2>1. /\ full' = FALSE /\ nextP' = nextP /\ empty' \in BOOLEAN
        /\ firstP' = robNext(firstP) /\ (empty' <=> firstP' = nextP)
    BY DEF deq
  <2>2. firstP' \in RobIndex /\ nextP' \in RobIndex
    BY <2>1, RobSizeAssumption DEF RingOK, robNext, RobIndex
  <2> QED  BY <2>1, <2>2 DEF RingOK
<1>2. firstP \in Live
  BY RobSizeAssumption DEF RingOK, deq, Live, robPos, RobIndex
<1>3. ASSUME NEW i \in RobIndex
      PROVE  i \in Live' <=> i \in Live /\ i # firstP
  <2>1. /\ ~empty /\ full' = FALSE /\ nextP' = nextP
        /\ firstP' = robNext(firstP) /\ (empty' <=> robNext(firstP) = nextP)
    BY DEF deq
  <2>2. i \in Live' <=> robNext(firstP) # nextP /\ robPos(i)' < robPos(nextP)'
    BY <2>1 DEF Live, robPos
  <2>3. i \in Live <=> full \/ robPos(i) < robPos(nextP)
    BY <2>1 DEF Live
  <2>4. /\ firstP \in RobIndex /\ nextP \in RobIndex
        /\ firstP = nextP <=> full
    BY <2>1 DEF RingOK
  <2> QED
    BY <2>1, <2>2, <2>3, <2>4, RobSizeAssumption DEF robPos, robNext, RobIndex
<1> QED  BY <1>1, <1>2, <1>3 DEF Live, RobIndex

-----------------------------------------------------------------------------
(* The ring as a queue: its length, and the slot of each position.         *)

robLen == IF empty THEN 0 ELSE IF full THEN RobSize ELSE robPos(nextP)
slot(k) == IF firstP + k < RobSize THEN firstP + k ELSE firstP + k - RobSize

LEMMA RingOrder ==
  ASSUME RingOK
  PROVE  /\ robLen \in 0 .. RobSize
         /\ \A i \in RobIndex : robPos(i) \in RobIndex /\ slot(robPos(i)) = i
         /\ \A k \in RobIndex : slot(k) \in RobIndex /\ robPos(slot(k)) = k
         /\ Live = {i \in RobIndex : robPos(i) < robLen}
         /\ \A i, j \in RobIndex : robPos(i) = robPos(j) => i = j
<1>1. firstP \in RobIndex /\ nextP \in RobIndex
  BY DEF RingOK
<1>2. \A i \in RobIndex : robPos(i) \in RobIndex /\ slot(robPos(i)) = i
  BY <1>1, RobSizeAssumption DEF robPos, slot, RobIndex
<1>3. \A k \in RobIndex : slot(k) \in RobIndex /\ robPos(slot(k)) = k
  BY <1>1, RobSizeAssumption DEF robPos, slot, RobIndex
<1>4. robLen \in 0 .. RobSize
  BY <1>1, <1>2, RobSizeAssumption DEF robLen, RobIndex
<1>5. ASSUME NEW i \in RobIndex
      PROVE  (~empty /\ (full \/ robPos(i) < robPos(nextP))) <=> robPos(i) < robLen
  <2>1. robPos(i) \in RobIndex /\ robPos(nextP) \in RobIndex
    BY <1>1, <1>2
  <2> QED  BY <2>1, RobSizeAssumption DEF robLen, RobIndex
<1>6. Live = {i \in RobIndex : robPos(i) < robLen}
  BY <1>5 DEF Live
<1> QED  BY <1>2, <1>3, <1>4, <1>6

(* enq appends.                                                            *)
LEMMA EnqOrder ==
  ASSUME RingOK, NEW e, enq(e)
  PROVE  /\ robLen < RobSize /\ robLen' = robLen + 1
         /\ slot(robLen) = nextP /\ robPos(nextP) = robLen
         /\ \A k : slot(k)' = slot(k)
         /\ \A i : robPos(i)' = robPos(i)
<1>1. /\ firstP \in RobIndex /\ nextP \in RobIndex
      /\ firstP = nextP <=> empty
      /\ empty' = FALSE /\ ~full /\ firstP' = firstP
      /\ nextP' = robNext(nextP) /\ (full' <=> robNext(nextP) = firstP)
  BY DEF RingOK, enq
<1>2. /\ robLen < RobSize /\ slot(robLen) = nextP /\ robPos(nextP) = robLen
  BY <1>1, RobSizeAssumption DEF robLen, robPos, slot, RobIndex
<1>3. \A i : robPos(i)' = robPos(i)
  BY <1>1 DEF robPos
<1>4. \A k : slot(k)' = slot(k)
  BY <1>1 DEF slot
<1>5. robLen' = IF robNext(nextP) = firstP THEN RobSize ELSE robPos(robNext(nextP))
  BY <1>1 DEF robLen, robPos
<1>6. robLen' = robLen + 1
  BY <1>1, <1>5, RobSizeAssumption DEF robLen, robPos, robNext, RobIndex
<1> QED  BY <1>2, <1>3, <1>4, <1>6

(* deq removes the first.                                                  *)
LEMMA DeqOrder ==
  ASSUME RingOK, deq
  PROVE  /\ robLen > 0 /\ robLen' = robLen - 1
         /\ slot(0) = firstP /\ robPos(firstP) = 0
         /\ \A k \in 0 .. RobSize - 2 : slot(k)' = slot(k + 1)
         /\ \A i \in RobIndex : i # firstP => robPos(i)' = robPos(i) - 1
<1>1. /\ firstP \in RobIndex /\ nextP \in RobIndex
      /\ firstP = nextP <=> full
      /\ ~empty /\ full' = FALSE /\ nextP' = nextP
      /\ firstP' = robNext(firstP) /\ (empty' <=> robNext(firstP) = nextP)
  BY DEF RingOK, deq
<1>2. robLen > 0 /\ slot(0) = firstP /\ robPos(firstP) = 0
  BY <1>1, RobSizeAssumption DEF robLen, robPos, slot, RobIndex
<1>3. \A i \in RobIndex : i # firstP => robPos(i)' = robPos(i) - 1
  BY <1>1, RobSizeAssumption DEF robPos, robNext, RobIndex
<1>4. \A k \in 0 .. RobSize - 2 : slot(k)' = slot(k + 1)
  BY <1>1, RobSizeAssumption DEF slot, robNext, RobIndex
<1>5. robLen' = IF robNext(firstP) = nextP THEN 0 ELSE robPos(nextP)'
  BY <1>1 DEF robLen, robPos
<1>6. robLen' = robLen - 1
  <2>1. CASE full
    BY <1>1, <1>5, <2>1, RobSizeAssumption DEF robLen, robPos, robNext, RobIndex
  <2>2. CASE ~full
    BY <1>1, <1>5, <2>2, RobSizeAssumption DEF robLen, robPos, robNext, RobIndex
  <2> QED  BY <2>1, <2>2
<1> QED  BY <1>2, <1>3, <1>4, <1>6

-----------------------------------------------------------------------------
(* Queues, element by element.                                             *)

(* A list of all the elements of a set, without repetition, has as many.   *)
LEMMA CountByList ==
  ASSUME NEW S, NEW n \in Nat, NEW f \in [1 .. n -> S],
         \A j, k \in 1 .. n : f[j] = f[k] => j = k,
         \A x \in S : \E k \in 1 .. n : f[k] = x
  PROVE  IsFiniteSet(S) /\ Cardinality(S) = n
<1>1. f \in Bijection(1 .. n, S)
  BY DEF Bijection, Injection, Surjection, IsInjective
<1>2. IsFiniteSet(1 .. n) /\ Cardinality(1 .. n) = n
  <2>1. IsFiniteSet(1 .. n) /\ Cardinality(1 .. n) = IF 1 > n THEN 0 ELSE n - 1 + 1
    BY FS_Interval
  <2> QED  BY <2>1
<1> QED  BY <1>1, <1>2, FS_Bijection DEF ExistsBijection

LEMMA AppendFacts ==
  ASSUME NEW S, NEW q \in Seq(S), NEW x \in S
  PROVE  /\ Len(q) \in Nat /\ Len(Append(q, x)) = Len(q) + 1 /\ Append(q, x)[Len(q) + 1] = x
         /\ \A k \in 1 .. Len(q) : Append(q, x)[k] = q[k]
         /\ \A k \in 1 .. Len(Append(q, x)) : k \in 1 .. Len(q) \/ k = Len(q) + 1
         /\ \A k \in 1 .. Len(q) : k \in 1 .. Len(Append(q, x)) /\ k # Len(q) + 1
         /\ Len(q) + 1 \in 1 .. Len(Append(q, x))
OBVIOUS

LEMMA TailFacts ==
  ASSUME NEW S, NEW q \in Seq(S), q # <<>>
  PROVE  /\ Len(q) \in Nat /\ Len(q) > 0 /\ Head(q) = q[1] /\ 1 \in 1 .. Len(q)
         /\ Tail(q) \in Seq(S) /\ Len(Tail(q)) = Len(q) - 1
         /\ \A k \in 1 .. Len(Tail(q)) : /\ k + 1 \in 1 .. Len(q) /\ k + 1 # 1
                                         /\ Tail(q)[k] = q[k + 1]
         /\ \A k \in 1 .. Len(q) : k = 1 \/ (k - 1 \in 1 .. Len(Tail(q)) /\ Tail(q)[k - 1] = q[k])
<1>1. Len(q) \in Nat /\ Len(q) > 0 /\ Head(q) = q[1] /\ Tail(q) \in Seq(S)
  OBVIOUS
<1>2. Len(Tail(q)) = Len(q) - 1 /\ \A k \in 1 .. Len(q) - 1 : Tail(q)[k] = q[k + 1]
  OBVIOUS
<1> DEFINE n == Len(q)  r == Tail(q)
<1>3. n \in Nat /\ n > 0 /\ Len(r) = n - 1 /\ \A k \in 1 .. n - 1 : r[k] = q[k + 1]
  BY <1>1, <1>2
<1> HIDE DEF n, r
<1>4. /\ 1 \in 1 .. n
      /\ \A k \in 1 .. Len(r) : k + 1 \in 1 .. n /\ k + 1 # 1 /\ r[k] = q[k + 1]
      /\ \A k \in 1 .. n : k = 1 \/ (k - 1 \in 1 .. Len(r) /\ r[k - 1] = q[k])
  <2>1. ASSUME NEW k \in 1 .. n
        PROVE  k = 1 \/ (k - 1 \in 1 .. Len(r) /\ r[k - 1] = q[k])
    <3>1. k = 1 \/ (k - 1 \in 1 .. n - 1 /\ (k - 1) + 1 = k)
      BY <1>3
    <3>2. k - 1 \in 1 .. n - 1 /\ (k - 1) + 1 = k => k - 1 \in 1 .. Len(r) /\ r[k - 1] = q[k]
      BY <1>3
    <3> QED  BY <3>1, <3>2
  <2>2. 1 \in 1 .. n
    BY <1>3
  <2>3. \A k \in 1 .. Len(r) : k + 1 \in 1 .. n /\ k + 1 # 1 /\ r[k] = q[k + 1]
    BY <1>3
  <2> QED  BY <2>1, <2>2, <2>3
<1> QED  BY <1>1, <1>2, <1>4 DEF n, r
=============================================================================
