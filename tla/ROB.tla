--------------------------------- MODULE ROB ---------------------------------
(***************************************************************************)
(* The reorder buffer (ROB.bsv): a ring of RobSize slots between firstP    *)
(* and nextP, told empty from full by two flags.  Results are written back *)
(* by index, in any order, into a second array guarded by the bits         *)
(* resultValid; enq does not clear the bit of the slot it takes, deq does. *)
(*                                                                         *)
(* Each operator below is one method; the rules of the core conjoin them.  *)
(***************************************************************************)
EXTENDS Naturals

CONSTANT RobSize       \* number of slots

ASSUME RobSizeAssumption == RobSize \in Nat \ {0}

VARIABLES data, results, resultValid, firstP, nextP, empty, full

robVars == <<data, results, resultValid, firstP, nextP, empty, full>>

RobIndex == 0 .. RobSize - 1

(* Faulty variant: the index does not wrap.                                *)
robNext_noWrap(i) == i + 1

robNext(i) == IF i = RobSize - 1 THEN 0 ELSE i + 1

(* Position of a slot in program order, 0 for the first.                   *)
robPos(i) == IF i >= firstP THEN i - firstP ELSE i + RobSize - firstP

(* The slots that hold an instruction.                                     *)
Live == {i \in RobIndex : ~empty /\ (full \/ robPos(i) < robPos(nextP))}

(* The two arrays hold anything at reset; e and r stand for it.            *)
mkROB(e, r) ==
  /\ data = [i \in RobIndex |-> e]
  /\ results = [i \in RobIndex |-> r]
  /\ resultValid = {}
  /\ firstP = 0 /\ nextP = 0
  /\ empty = TRUE /\ full = FALSE

enq(entry) ==
  /\ ~full
  /\ data' = [data EXCEPT ![nextP] = entry]
  /\ nextP' = robNext(nextP)
  /\ empty' = FALSE
  /\ full' = (robNext(nextP) = firstP)
  /\ UNCHANGED <<results, resultValid, firstP>>

first == data[firstP]

first_result == results[firstP]

first_done == ~empty /\ firstP \in resultValid

(* Faulty variant: deq leaves the result bit of the slot it frees.         *)
deq_keepsResult ==
  /\ ~empty
  /\ firstP' = robNext(firstP)
  /\ empty' = (robNext(firstP) = nextP)
  /\ full' = FALSE
  /\ UNCHANGED <<data, results, resultValid, nextP>>

deq ==
  /\ ~empty
  /\ firstP' = robNext(firstP)
  /\ resultValid' = resultValid \ {firstP}
  /\ empty' = (robNext(firstP) = nextP)
  /\ full' = FALSE
  /\ UNCHANGED <<data, results, nextP>>

writeBack(index, result) ==
  /\ results' = [results EXCEPT ![index] = result]
  /\ resultValid' = resultValid \cup {index}
  /\ UNCHANGED <<data, firstP, nextP, empty, full>>

(* The two flags tell apart the two meanings of firstP = nextP.            *)
RingOK ==
  /\ firstP \in RobIndex /\ nextP \in RobIndex
  /\ empty \in BOOLEAN /\ full \in BOOLEAN
  /\ ~(empty /\ full)
  /\ firstP = nextP <=> empty \/ full
=============================================================================
