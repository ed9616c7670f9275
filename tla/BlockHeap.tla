------------------------------ MODULE BlockHeap ------------------------------
(***************************************************************************)
(* What the kernel heap promises: blocks of memory that never overlap,     *)
(* each at the lowest place that suits it.  There is no list of holes: the *)
(* free memory is what no block covers.                                    *)
(***************************************************************************)
EXTENDS Naturals, FiniteSetsExt

CONSTANTS Word, IsizeMax,
          Layouts      \* layouts that are asked for

VARIABLES blocks,      \* allocated blocks
          bottom, top, \* bounds of the memory for blocks
          given,       \* end of the memory the heap was given
          asked,       \* layout of the last allocation, since memory was freed or added
          ret          \* and its result

bhVars == <<blocks, bottom, top, given, asked, ret>>

NoLayout == [size |-> 0, align |-> 0]

(* A remainder is nothing or can hold the node of a list.                  *)
Remainder(n) == n = 0 \/ n >= 2 * Word

(* A block consists of words and can hold the node of a list.              *)
rounded(l) ==
  LET least == Max({l.size, 2 * Word}) IN
  [size |-> Min({n \in least .. least + Word - 1 : n % Word = 0}), align |-> l.align]

(* The places for a rounded layout: aligned, free, and splitting the gap they are  *)
(* in into remainders.                                                     *)
Places(l) ==
  {a \in bottom .. top :
     LET below == {bottom} \cup {b.addr + b.size : b \in {x \in blocks : x.addr < a}}
         above == {top} \cup {b.addr : b \in {x \in blocks : x.addr >= a}}
     IN /\ a % l.align = 0
        /\ Max(below) <= a /\ a + l.size <= Min(above)
        /\ Remainder(a - Max(below)) /\ Remainder(Min(above) - (a + l.size))}

BHInit == blocks = {} /\ bottom = 0 /\ top = 0 /\ given = 0 /\ asked = NoLayout /\ ret = 0

(* What was asked and answered is forgotten when the answer may change.    *)
BHForget == asked' = NoLayout /\ ret' = 0

(* The heap gets its first memory and rounds its bounds inwards.           *)
BHStart ==
  /\ bottom = 0 /\ bottom' > 0
  /\ bottom' % Word = 0 /\ (top' - bottom') % Word = 0
  /\ top' <= given' /\ given' - top' < Word
  /\ top' - bottom' >= 2 * Word
  /\ BHForget /\ UNCHANGED blocks

(* The layout asked for gets its lowest place, or nothing when it has none *)
(* or is too large.                                                        *)
BHAlloc(l) ==
  LET m        == rounded(l)
      tooLarge == m.size + m.align - 1 > IsizeMax
      places   == IF tooLarge THEN {} ELSE Places(m)
  IN /\ l.size > 0 /\ asked' = l
     /\ IF places = {}
          THEN ret' = 0 /\ UNCHANGED blocks
          ELSE /\ ret' = Min(places)
               /\ blocks' = blocks \cup {[addr |-> ret', size |-> m.size]}
     /\ UNCHANGED <<bottom, top, given>>

(* An allocation of no bytes yields an aligned address and no block.       *)
BHAllocNothing(l) ==
  l.size = 0 /\ asked' = l /\ ret' = l.align /\ UNCHANGED <<blocks, bottom, top, given>>

BHFree ==
  \E b \in blocks : blocks' = blocks \ {b} /\ BHForget /\ UNCHANGED <<bottom, top, given>>

(* More memory: used once there is enough of it for a block.               *)
BHExtend ==
  /\ bottom > 0 /\ given' >= given
  /\ top' = IF given' - top < 2 * Word THEN top ELSE given' - (given' % Word)
  /\ BHForget /\ UNCHANGED <<blocks, bottom>>

BHNext ==
  \/ BHStart \/ BHFree \/ BHExtend
  \/ \E l \in Layouts : BHAlloc(l) \/ BHAllocNothing(l)

BHSpec == BHInit /\ [][BHNext]_bhVars
=============================================================================
