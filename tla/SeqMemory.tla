------------------------------ MODULE SeqMemory ------------------------------
(***************************************************************************)
(* What the memory operations of a program mean: each one acts at once, in *)
(* the order in which they retire.                                         *)
(***************************************************************************)
EXTENDS LsuTypes

VARIABLES memory,      \* contents of every word
          retired      \* the last memory operation: its kind, access and data

MemInit ==
  /\ memory = [w \in Word |-> [l \in Lane |-> 0]]
  /\ retired = <<>>

(* Register data and the lanes of a word, for each access.                 *)
loaded(a, s, d) == IF s = "Word" THEN d ELSE [l \in Lane |-> IF l = 0 THEN d[a[2]] ELSE 0]
stored(a, s, d, old) == IF s = "Word" THEN d ELSE [old EXCEPT ![a[2]] = d[0]]

MemLoad ==
  \E a \in Addr, s \in Size :
    /\ aligned(a, s)
    /\ retired' = <<"load", a, s, loaded(a, s, memory[a[1]])>>
    /\ UNCHANGED memory

MemStore ==
  \E a \in Addr, s \in Size, d \in Data :
    /\ aligned(a, s)
    /\ retired' = <<"store", a, s, d>>
    /\ memory' = [memory EXCEPT ![a[1]] = stored(a, s, d, @)]

MemNext == MemLoad \/ MemStore

MemSpec == MemInit /\ [][MemNext]_<<memory, retired>>
=============================================================================
