------------------------------- MODULE HoleList -------------------------------
(***************************************************************************)
(* The list of free blocks of the kernel heap (rust/src/hole.rs).          *)
(*                                                                         *)
(*   list.chain    the holes in the order of their links, each an address  *)
(*                 and a size; the dummy `first` is in front of them;      *)
(*   list.bottom, list.top   bound the memory in use for allocations;      *)
(*   list.pending            counts the bytes beyond top that are owned    *)
(*                           but too few to hold a hole (pending_extend).  *)
(*                                                                         *)
(* A cursor is a position n in list.chain; its prev is the hole before n.  *)
(* Nothing sorts the list or keeps its holes apart but the operations.     *)
(* Addresses are numbers, Null the null pointer.  They do not wrap: the    *)
(* alignments for which wrapping_add would are no valid layouts.           *)
(***************************************************************************)
EXTENDS Naturals, Sequences

CONSTANTS Word,        \* size_of::<usize>(), a power of two
          IsizeMax     \* isize::MAX

ASSUME HoleListAssumption ==
  /\ Word \in Nat \ {0}
  /\ IsizeMax \in Nat

Null == 0

(* A Hole is a size and a pointer, and aligned as they are.                *)
min_size == 2 * Word
HoleAlign == Word

align_down_size(size, align) == size - (size % align)

align_up_size(size, align) == align_down_size(size + align - 1, align)

align_up(addr, align) == addr + ((align - (addr % align)) % align)

(* Layout::from_size_align: the padded size must fit an isize.             *)
valid_layout(l) == l.size + l.align - 1 <= IsizeMax

align_layout(l) ==
  [l EXCEPT !.size = align_up_size(IF l.size < min_size THEN min_size ELSE l.size,
                                   HoleAlign)]

empty == [chain |-> <<>>, bottom |-> Null, top |-> Null, pending |-> 0]

(* Faulty variant: the bytes cut off at the end are forgotten.             *)
new_forgets(hole_addr, hole_size) ==
  LET bottom == align_up(hole_addr, HoleAlign)
      size   == align_down_size(hole_size - (bottom - hole_addr), HoleAlign)
  IN [chain |-> <<[addr |-> bottom, size |-> size]>>,
      bottom |-> bottom, top |-> bottom + size, pending |-> 0]

new(hole_addr, hole_size) ==
  LET bottom    == align_up(hole_addr, HoleAlign)
      requested == hole_size - (bottom - hole_addr)
      size      == align_down_size(requested, HoleAlign)
  IN [chain |-> <<[addr |-> bottom, size |-> size]>>,
      bottom |-> bottom, top |-> bottom + size, pending |-> requested - size]

(* Its assertions: there is room for a node once the address is aligned.   *)
new_ok(hole_addr, hole_size) ==
  align_down_size(hole_size - (align_up(hole_addr, HoleAlign) - hole_addr), HoleAlign)
    >= min_size

-----------------------------------------------------------------------------
(* Allocation                                                              *)

holeEnd(h) == h.addr + h.size

(* Faulty variant: the alignment is ignored.                               *)
aligned_addr_unaligned(h, align) == h.addr

(* Where an allocation starts in a hole: at the hole when it is aligned,   *)
(* else far enough for a hole to remain in front.                          *)
aligned_addr(h, align) ==
  IF h.addr = align_up(h.addr, align) THEN h.addr ELSE align_up(h.addr + min_size, align)

(* First half of split_current: the allocation fits, and what remains      *)
(* behind it is nothing or can hold a node.                                *)
suits(h, l) ==
  LET end == aligned_addr(h, l.align) + l.size IN
  /\ l.size <= h.size
  /\ end <= holeEnd(h)
  /\ end = holeEnd(h) \/ align_up(end, HoleAlign) + min_size <= holeEnd(h)

(* Second half: the hole is replaced by the paddings, where there are any. *)
split_current(holes, n, l) ==
  LET h        == holes[n]
      start    == aligned_addr(h, l.align)
      end      == start + l.size
      frontpad == [addr |-> h.addr, size |-> start - h.addr]
      backpad  == [addr |-> align_up(end, HoleAlign), size |-> holeEnd(h) - end]
  IN SubSeq(holes, 1, n - 1)
       \o (IF start = h.addr THEN <<>> ELSE <<frontpad>>)
       \o (IF end = holeEnd(h) THEN <<>> ELSE <<backpad>>)
       \o SubSeq(holes, n + 1, Len(holes))

(* Faulty variant: any hole that suits is taken.                           *)
isFirstFit_any(holes, n, l) == n \in 1 .. Len(holes) /\ suits(holes[n], l)

(* The cursor of the first hole that suits the aligned layout l.           *)
isFirstFit(holes, n, l) ==
  /\ n \in 1 .. Len(holes)
  /\ suits(holes[n], l)
  /\ \A k \in 1 .. n - 1 : ~ suits(holes[k], l)

-----------------------------------------------------------------------------
(* Deallocation                                                            *)

(* Faulty variant: the last hole is stretched whatever lies behind it.     *)
check_merge_top_always(h, top) ==
  IF holeEnd(h) < top THEN [h EXCEPT !.size = @ + (top - holeEnd(h))] ELSE h

check_merge_top(h, top) ==
  IF holeEnd(h) < top /\ align_up(holeEnd(h), HoleAlign) + min_size > top
    THEN [h EXCEPT !.size = @ + (top - holeEnd(h))]
    ELSE h

check_merge_bottom(h, bottom) ==
  IF bottom + min_size > h.addr
    THEN [addr |-> bottom, size |-> h.size + (h.addr - bottom)]
    ELSE h

(* One turn of try_merge_next_n at cursor n: the hole that is last is      *)
(* stretched to the top, one that touches the next is merged with it and   *)
(* the cursor stays, else the cursor moves on.                             *)
mergeTurn(c, top) ==
  LET holes == c.holes
      n     == c.at
  IN CASE c.done -> c
       [] ~ c.done /\ n = Len(holes) ->
            [c EXCEPT !.holes[n] = check_merge_top(@, top), !.done = TRUE]
       [] ~ c.done /\ n < Len(holes) /\ holeEnd(holes[n]) = holes[n + 1].addr ->
            [c EXCEPT !.holes = SubSeq(holes, 1, n - 1)
                                  \o <<[addr |-> holes[n].addr,
                                        size |-> holes[n].size + holes[n + 1].size]>>
                                  \o SubSeq(holes, n + 2, Len(holes))]
       [] OTHER -> [c EXCEPT !.at = n + 1]

(* Faulty variant: the second of two turns is left out.                    *)
try_merge_next_n_once(holes, n, max, top) ==
  mergeTurn([holes |-> holes, at |-> n, done |-> FALSE], top).holes

try_merge_next_n(holes, n, max, top) ==
  LET once == mergeTurn([holes |-> holes, at |-> n, done |-> FALSE], top)
  IN IF max = 1 THEN once.holes ELSE mergeTurn(once, top).holes

(* try_insert_after accepts cursor n for a hole at addr: there is no next  *)
(* hole or addr is before it.                                              *)
insertsAfter(holes, n, addr) ==
  /\ n \in 1 .. Len(holes)
  /\ n < Len(holes) => addr < holes[n + 1].addr
  /\ \A k \in 1 .. n - 1 : addr >= holes[k + 1].addr

(* The free function deallocate: an only hole, a new first hole, or one    *)
(* after the first cursor that accepts it.                                 *)
deallocate(list, addr, size) ==
  LET h     == [addr |-> addr, size |-> size]
      holes == list.chain
      n     == CHOOSE k \in 1 .. Len(holes) : insertsAfter(holes, k, addr)
      after == SubSeq(holes, 1, n) \o <<h>> \o SubSeq(holes, n + 1, Len(holes))
  IN [list EXCEPT !.chain =
        CASE holes = <<>> ->
               <<check_merge_top(check_merge_bottom(h, list.bottom), list.top)>>
          [] holes # <<>> /\ addr < holes[1].addr ->
               try_merge_next_n(<<check_merge_bottom(h, list.bottom)>> \o holes, 1, 1, list.top)
          [] OTHER -> try_merge_next_n(after, n, 2, list.top)]

(* The assertions of try_insert_back and try_insert_after fail: the block  *)
(* overlaps the hole before or behind it.                                  *)
bad_free(list, addr, size) ==
  LET holes == list.chain IN
  \/ holes # <<>> /\ addr < holes[1].addr /\ addr + size > holes[1].addr
  \/ /\ holes # <<>> /\ addr >= holes[1].addr
     /\ \E n \in 1 .. Len(holes) :
          /\ insertsAfter(holes, n, addr)
          /\ \/ n < Len(holes) /\ addr + size > holes[n + 1].addr
             \/ holeEnd(holes[n]) > addr

-----------------------------------------------------------------------------
(* Faulty variant: the bytes that were pending stay pending.               *)
extend_keepsPending(list, by) ==
  LET extend_by == list.pending + by
      size      == align_down_size(extend_by, HoleAlign)
  IN IF extend_by < min_size
       THEN [list EXCEPT !.pending = extend_by]
       ELSE [deallocate(list, list.top, size) EXCEPT !.top = @ + size, !.pending = extend_by]

(* New memory behind the heap becomes a hole by being freed; too little of *)
(* it is kept for later.                                                   *)
extend(list, by) ==
  LET extend_by == list.pending + by
      size      == align_down_size(extend_by, HoleAlign)
  IN IF extend_by < min_size
       THEN [list EXCEPT !.pending = extend_by]
       ELSE [deallocate(list, list.top, align_layout([size |-> size, align |-> 1]).size)
               EXCEPT !.top = @ + size, !.pending = extend_by - size]
=============================================================================
