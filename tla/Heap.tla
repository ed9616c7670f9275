--------------------------------- MODULE Heap ---------------------------------
(***************************************************************************)
(* The kernel heap (rust/src/linked_list_allocator.rs, kalloc.rs): Heap,   *)
(* behind the global allocator LockedHeap, which locks nothing.  Callers   *)
(* follow the contract of GlobalAlloc: memory is freed once, with the      *)
(* layout it was allocated with.                                           *)
(***************************************************************************)
EXTENDS HoleList, FiniteSets

CONSTANTS Layouts,     \* layouts asked for: size and alignment
          Starts,      \* memory given to init: address and size
          Extends,     \* amounts given to extend
          MaxGiven     \* bound: no memory is given beyond this address

(* Word and the alignments are powers of two, so one divides the other.    *)
HeapAssumption ==
  /\ Layouts \subseteq [size : Nat, align : Nat \ {0}]
  /\ \A l \in Layouts : valid_layout(l) /\ (l.align % Word = 0 \/ Word % l.align = 0)
  /\ Starts \subseteq [addr : Nat \ {Null}, size : Nat]
  /\ Extends \subseteq Nat
  /\ MaxGiven \in Nat

VARIABLES used,        \* bytes in allocated blocks
          holes,       \* the HoleList
          live,        \* blocks callers hold: their address and layout
          given,       \* end of the memory given to the heap
          asked,       \* layout of the last allocation, since memory was freed or added
          ret,         \* the pointer returned for it
          panic        \* the assertion that failed, or "none"

vars == <<used, holes, live, given, asked, ret, panic>>

NoLayout == [size |-> 0, align |-> 0]

(* Heap::empty.                                                            *)
Init ==
  /\ used = 0 /\ holes = empty
  /\ live = {} /\ given = 0 /\ asked = NoLayout /\ ret = Null /\ panic = "none"

Panic(why) == panic' = why /\ UNCHANGED <<used, holes, live, given, asked, ret>>

(* The history of the last allocation, when its answer may change.         *)
forget == asked' = NoLayout /\ ret' = Null

(* kalloc::init and Heap::init, called once (init_from_slice asserts it).  *)
init(addr, size) ==
  /\ panic = "none" /\ holes.bottom = Null
  /\ \/ /\ new_ok(addr, size)
        /\ used' = 0
        /\ holes' = new(addr, size)
        /\ given' = addr + size
        /\ forget /\ UNCHANGED <<live, panic>>
     \/ ~ new_ok(addr, size) /\ Panic("too small")

(* Faulty variant: used counts the bytes asked for.                        *)
allocate_first_fit_countsAsked(l) ==
  LET aligned == align_layout(l) IN
  /\ valid_layout(aligned)
  /\ \E n \in 1 .. Len(holes.chain) :
       LET addr == aligned_addr(holes.chain[n], aligned.align) IN
       /\ isFirstFit(holes.chain, n, aligned)
       /\ holes' = [holes EXCEPT !.chain = split_current(@, n, aligned)]
       /\ used' = used + l.size
       /\ ret' = addr
       /\ live' = live \cup {[addr |-> addr, layout |-> l]}

(* HoleList::allocate_first_fit and Heap::allocate_first_fit, Ok.          *)
allocate_first_fit(l) ==
  LET aligned == align_layout(l) IN
  /\ valid_layout(aligned)
  /\ \E n \in 1 .. Len(holes.chain) :
       LET addr == aligned_addr(holes.chain[n], aligned.align) IN
       /\ isFirstFit(holes.chain, n, aligned)
       /\ holes' = [holes EXCEPT !.chain = split_current(@, n, aligned)]
       /\ used' = used + aligned.size
       /\ ret' = addr
       /\ live' = live \cup {[addr |-> addr, layout |-> l]}

(* ... and Err: the layout is too large or no hole suits it.               *)
noFit(l) ==
  LET aligned == align_layout(l) IN
  valid_layout(aligned) => \A n \in 1 .. Len(holes.chain) : ~ suits(holes.chain[n], aligned)

(* GlobalAlloc::alloc, and Allocator::allocate of a layout that is not     *)
(* empty; the pointer is null when nothing suits.                          *)
alloc(l) ==
  /\ panic = "none" /\ l.size > 0
  /\ asked' = l
  /\ \/ allocate_first_fit(l)
     \/ noFit(l) /\ ret' = Null /\ UNCHANGED <<holes, used, live>>
  /\ UNCHANGED <<given, panic>>

(* Allocator::allocate of an empty layout: a dangling, aligned pointer.    *)
allocate_nothing(l) ==
  /\ panic = "none" /\ l.size = 0
  /\ asked' = l /\ ret' = l.align
  /\ UNCHANGED <<used, holes, live, given, panic>>

(* Box, Vec and the like call the error handler with a null pointer.       *)
handle_alloc_error(l) ==
  /\ panic = "none" /\ l.size > 0 /\ noFit(l)
  /\ asked' = l /\ ret' = Null /\ panic' = "kalloc fail"
  /\ UNCHANGED <<used, holes, live, given>>

(* GlobalAlloc::dealloc and Allocator::deallocate of a block the caller    *)
(* holds.                                                                  *)
dealloc(b) ==
  LET size == align_layout(b.layout).size IN
  /\ panic = "none" /\ b \in live
  /\ \/ /\ bad_free(holes, b.addr, size)
        /\ Panic("Freed node aliases existing hole")
     \/ /\ ~ bad_free(holes, b.addr, size)
        /\ holes' = deallocate(holes, b.addr, size)
        /\ used' = used - size
        /\ live' = live \ {b}
        /\ forget /\ UNCHANGED <<given, panic>>

(* Heap::extend, with the memory that follows what was given before.       *)
extend_by(by) ==
  /\ panic = "none" /\ given + by <= MaxGiven
  /\ \/ holes.bottom = Null /\ Panic("tried to extend an empty heap")
     \/ /\ holes.bottom # Null
        /\ holes' = extend(holes, by)
        /\ given' = given + by
        /\ forget /\ UNCHANGED <<used, live, panic>>

(* The panic handler loops.                                                *)
panicked == panic # "none" /\ UNCHANGED vars

Next ==
  \/ \E m \in Starts : init(m.addr, m.size)
  \/ \E l \in Layouts : alloc(l) \/ allocate_nothing(l) \/ handle_alloc_error(l)
  \/ \E b \in live : dealloc(b)
  \/ \E by \in Extends : extend_by(by)
  \/ panicked

Spec == Init /\ [][Next]_vars

-----------------------------------------------------------------------------
(* Observers of Heap.                                                      *)
heapSize == holes.top - holes.bottom
heapTop == holes.top + holes.pending
heapFree == heapSize - used

Bytes(addr, size) == addr .. addr + size - 1
blockSize(b) == align_layout(b.layout).size
Taken == UNION {Bytes(b.addr, blockSize(b)) : b \in live}
InHoles == UNION {Bytes(holes.chain[n].addr, holes.chain[n].size) : n \in 1 .. Len(holes.chain)}

HeapTypeOK ==
  /\ used \in Nat /\ given \in Nat /\ ret \in Nat /\ asked \in Layouts \cup {NoLayout}
  /\ holes.chain \in Seq([addr : Nat, size : Nat])
  /\ holes.bottom \in Nat /\ holes.top \in Nat /\ holes.pending \in 0 .. min_size - 1
  /\ \A b \in live : b.addr \in Nat /\ b.layout \in Layouts

(* The list is what hole.rs calls it, a sorted list of holes: every hole   *)
(* can hold its node, they are apart (touching ones were merged), and      *)
(* together they are exactly the memory no block covers.                   *)
HolesAreGaps ==
  /\ \A n \in 1 .. Len(holes.chain) :
       /\ holes.chain[n].size >= min_size
       /\ holes.chain[n].addr % HoleAlign = 0
  /\ \A n \in 1 .. Len(holes.chain) - 1 : holeEnd(holes.chain[n]) < holes.chain[n + 1].addr
  /\ InHoles = (holes.bottom .. holes.top - 1) \ Taken

(* used is the number of bytes in blocks, so free() is what the holes hold *)
(* and never wraps below zero.                                             *)
UsedIsTaken == used = Cardinality(Taken) /\ heapFree = Cardinality(InHoles)

(* Every byte given to init or extend is owned: top() is the end of the    *)
(* memory given so far.                                                    *)
OwnsAllGiven == holes.bottom # Null => heapTop = given

(* The assertions of the list never fail for callers that free what they   *)
(* hold.                                                                   *)
NoBadFree == panic # "Freed node aliases existing hole"

(* Nothing leaks: the holes are the gaps between the blocks, the counter   *)
(* and the bounds agree with them, and the assertions of the list hold.    *)
HeapConsistent == HeapTypeOK /\ HolesAreGaps /\ UsedIsTaken /\ OwnsAllGiven /\ NoBadFree

Blocks ==
  INSTANCE BlockHeap
    WITH blocks <- {[addr |-> b.addr, size |-> blockSize(b)] : b \in live},
         bottom <- holes.bottom, top <- holes.top

(* The heap hands out the lowest place of free memory that suits the size  *)
(* and alignment asked for, fails only when there is none, and blocks      *)
(* never overlap.                                                          *)
ImplementsBlocks == Blocks!BHSpec
=============================================================================
