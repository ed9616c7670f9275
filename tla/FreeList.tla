------------------------------- MODULE FreeList -------------------------------
(***************************************************************************)
(* The free list of the renaming table (PhysRegFile.bsv): a list linked    *)
(* through freeList, which maps a register to the next one, entered at     *)
(* head.  Invalid is a number no register has.  A register is freed only   *)
(* by the one who holds it (OneHolder of the core).                        *)
(***************************************************************************)
EXTENDS Naturals, Sequences, FiniteSets

CONSTANTS NumArchReg, NumPhysReg

FreeListAssumption ==
  /\ NumArchReg \in Nat \ {0}
  /\ NumPhysReg \in Nat /\ NumPhysReg > NumArchReg

VARIABLES head, freeList,
          held         \* registers somebody holds

vars == <<head, freeList, held>>

PhysReg == 0 .. NumPhysReg - 1
Invalid == NumPhysReg

genFreeList(phys) ==
  IF phys < NumArchReg \/ phys = NumPhysReg - 1 THEN Invalid ELSE phys + 1

Init ==
  /\ head = NumArchReg
  /\ freeList = [p \in PhysReg |-> genFreeList(p)]
  /\ held = 0 .. NumArchReg - 1

(* Faulty variant: the register goes behind the head.                      *)
free_behind(phys) ==
  IF phys # 0 /\ head # Invalid
    THEN /\ freeList' = [freeList EXCEPT ![phys] = freeList[head], ![head] = phys]
         /\ UNCHANGED head
    ELSE /\ head' = IF phys # 0 THEN phys ELSE head
         /\ freeList' = [freeList EXCEPT ![phys] = Invalid]

free(phys) ==
  IF phys # 0
    THEN /\ freeList' = [freeList EXCEPT ![phys] = head]
         /\ head' = phys
    ELSE UNCHANGED <<freeList, head>>

(* p0 is nobody's: freeing it does nothing.                                *)
release(phys) ==
  /\ phys \in held
  /\ free(phys)
  /\ held' = IF phys = 0 THEN held ELSE held \ {phys}

(* Faulty variant: the next register is taken for the head's link.         *)
alloc_next ==
  /\ head # Invalid
  /\ head' = head + 1
  /\ held' = held \cup {head}
  /\ UNCHANGED freeList

alloc ==
  /\ head # Invalid
  /\ head' = freeList[head]
  /\ held' = held \cup {head}
  /\ UNCHANGED freeList

Next == alloc \/ \E p \in PhysReg : release(p)

Spec == Init /\ [][Next]_vars

(* The n-th register of the list.                                          *)
link == [p \in PhysReg \cup {Invalid} |-> IF p = Invalid THEN Invalid ELSE freeList[p]]
nth[n \in Nat] == IF n = 1 THEN head ELSE link[nth[n - 1]]

(* Its length, when it ends.                                               *)
length == CHOOSE n \in 0 .. NumPhysReg : nth[n + 1] = Invalid /\ \A k \in 1 .. n : nth[k] # Invalid

(* The list ends, and holds every register nobody holds exactly once.      *)
ListOfFree ==
  /\ \E n \in 1 .. NumPhysReg : nth[n] = Invalid
  /\ {nth[k] : k \in 1 .. length} = PhysReg \ held
  /\ length = Cardinality(PhysReg \ held)

Stack == INSTANCE FreeStack
           WITH Reg     <- PhysReg \ {0},
                initial <- [k \in 1 .. NumPhysReg - NumArchReg |-> NumPhysReg - k],
                stack   <- [k \in 1 .. length |-> nth[length + 1 - k]]

(* The linked list behaves as the stack the renaming table is modelled     *)
(* with: alloc takes the register freed last.                              *)
ImplementsStack == Stack!StackSpec
=============================================================================
