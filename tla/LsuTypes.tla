------------------------------- MODULE LsuTypes -------------------------------
(***************************************************************************)
(* Memory accesses of the load-store unit (LsuTypes.bsv and the parts of   *)
(* the queues that shift and mask data).  A word of memory has two lanes   *)
(* instead of four bytes; an access covers the word or one lane of it.     *)
(***************************************************************************)
EXTENDS Naturals

CONSTANTS NumWords,    \* words of the address space
          MmioWords,   \* those that belong to devices
          Byte         \* contents of a lane, 0 among them

ASSUME LsuTypesAssumption ==
  /\ NumWords \in Nat \ {0}
  /\ MmioWords \subseteq 0 .. NumWords - 1
  /\ 0 \in Byte

Word == 0 .. NumWords - 1
Lane == 0 .. 1
Size == {"Word", "Byte"}
Data == [Lane -> Byte]
Addr == Word \X Lane

isMMIO(w) == w \in MmioWords

aligned(addr, size) == size = "Word" => addr[2] = 0

StbEntry == [word : Word, mask : SUBSET Lane, data : Data]

(* StoreQ.deq: register data moved to the lanes the address selects.       *)
toStb(addr, size, d) ==
  [word |-> addr[1],
   data |-> [l \in Lane |-> IF l >= addr[2] THEN d[l - addr[2]] ELSE 0],
   mask |-> {l \in Lane : l >= addr[2] /\ (size = "Word" \/ l = addr[2])}]

(* LoadQ.finish: the lanes of a word brought back to register data.        *)
finish(addr, size, d) ==
  [l \in Lane |->
     IF l + addr[2] \in Lane /\ (size = "Word" \/ l = 0) THEN d[l + addr[2]] ELSE 0]

(* What a write with byte strobes does to a word.                          *)
merge(d, e) == [l \in Lane |-> IF l \in e.mask THEN e.data[l] ELSE d[l]]
=============================================================================
