------------------------------- MODULE BitScan -------------------------------
(***************************************************************************)
(* firstOneFrom and lastOneFrom (Utils.bsv), which pick the load to issue, *)
(* the store to answer and the load to kill.  A mask of type Bit#(size) is *)
(* the set of its ones; an index has type Bit#(TLog#(size)), so the shift  *)
(* b = size - a wraps, and the size need not be a power of two (the queues *)
(* have 3, 4 and 6 slots).                                                 *)
(***************************************************************************)
EXTENDS RingScan, FiniteSets

CONSTANT Sizes    \* sizes of masks, positive

VARIABLES size, mask, start

vars == <<size, mask, start>>

Bits == 0 .. size - 1

(* 2 ^ TLog(size): the number of values of an index.                       *)
tlogSize == CHOOSE w \in {2 ^ k : k \in 0 .. size} :
              w >= size /\ (w = 1 \/ w \div 2 < size)

shiftRight(x, a) == {i \in Bits : i + a \in x}
shiftLeft(x, a)  == {i \in Bits : i >= a /\ i - a \in x}

(* Faulty variant: the index is rotated the other way.                     *)
rotateRight_left(x, a) ==
  LET b == (size - 1 + tlogSize - a + 1) % tlogSize
  IN  shiftLeft(x, a) \cup shiftRight(x, b)

rotateRight(x, a) ==
  LET b == (size - 1 + tlogSize - a + 1) % tlogSize
  IN  shiftRight(x, a) \cup shiftLeft(x, b)

firstOne(x) ==
  LET aux[k \in 0 .. size] ==
        IF k = size THEN size ELSE IF k \in x THEN k ELSE aux[k + 1]
  IN  aux[0]

(* Faulty variant: the first position is left out.                         *)
lastOne_short(x) ==
  LET aux[k \in 0 .. size] ==
        IF k >= size - 1 THEN size
        ELSE IF size - 1 - k \in x THEN size - 1 - k ELSE aux[k + 1]
  IN  aux[0]

lastOne(x) ==
  LET aux[k \in 0 .. size] ==
        IF k = size THEN size
        ELSE IF size - 1 - k \in x THEN size - 1 - k ELSE aux[k + 1]
  IN  aux[0]

(* The sum has one bit more than an index; size stands for Invalid.        *)
backFrom(m, n) ==
  LET k == (n + m) % (2 * tlogSize)
  IN  IF m = size THEN size
      ELSE (IF k >= size THEN k - size ELSE k) % tlogSize

firstOneFrom(x, n) == backFrom(firstOne(rotateRight(x, n)), n)
lastOneFrom(x, n)  == backFrom(lastOne(rotateRight(x, n)), n)

Init == size \in Sizes /\ mask \in SUBSET Bits /\ start \in Bits

(* A slot changes and the head moves on.                                   *)
Next ==
  \E i \in Bits : /\ mask' = IF i \in mask THEN mask \ {i} ELSE mask \cup {i}
                  /\ start' = (start + 1) % size
                  /\ UNCHANGED size

Spec == Init /\ [][Next]_vars

(* firstOneFrom returns the first one of the mask going round from start,  *)
(* and Invalid exactly when there is none, for every size of the queues.   *)
FirstOneFromCorrect ==
  LET r == firstOneFrom(mask, start) IN
  IF mask = {} THEN r = size ELSE isFirstFrom(r, mask, start, size)

(* lastOneFrom returns the last one, which searches rely on to find the    *)
(* youngest matching store.                                                *)
LastOneFromCorrect ==
  LET r == lastOneFrom(mask, start) IN
  IF mask = {} THEN r = size ELSE isLastFrom(r, mask, start, size)
=============================================================================
