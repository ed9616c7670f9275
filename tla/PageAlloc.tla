------------------------------- MODULE PageAlloc -------------------------------
(***************************************************************************)
(* The page allocator (palloc.rs): free pages form a list linked through   *)
(* the pages themselves.  A free page holds the Option of the next one in  *)
(* its first two words, the tag and the page number; the operations act on *)
(* pa.mem, the words of every page, and pa.node, the head of the list.     *)
(***************************************************************************)
EXTENDS PageEntry, Sequences, FiniteSets

CONSTANTS KernelEnd,   \* KALLOC_BUFFER + KALLOC_SIZE
          MemoryEnd    \* MEMORY_SIZE

(* Page 0 is no memory and stands for None.                                *)
NoPage == 0

(* as_pte: a page holds PAGE_SIZE / size_of::<Entry>() words of 4 bytes.   *)
Slots == 0 .. PageSize \div 4 - 1

(* Faulty variant: the page that the kernel ends in is taken too.          *)
firstPage_early == ppn(KernelEnd)

firstPage == ppn(KernelEnd) + 1
lastPage == ppn(MemoryEnd) - 1
Pages == firstPage .. lastPage - 1

PageAllocAssumption ==
  /\ PageEntryAssumption
  /\ KernelEnd \in Nat /\ MemoryEnd \in Nat
  /\ PageSize >= 4 * Fanout /\ Fanout * 4 >= 8

(* Faulty variant: the tag of the Option is not looked at.                 *)
linkOf_untagged(mem, page) == mem[page][1]

(* The Option a free page holds.                                           *)
linkOf(mem, page) == IF mem[page][0] = 0 THEN NoPage ELSE mem[page][1]

free(pa, page) ==
  [pa EXCEPT !.mem[page] = IF pa.node = NoPage THEN [@ EXCEPT ![0] = 0]
                           ELSE [@ EXCEPT ![0] = 1, ![1] = pa.node],
             !.node = page]

(* The page and the allocator after the call; NoPage when none is left.    *)
alloc(pa) ==
  [page |-> pa.node,
   pa   |-> IF pa.node = NoPage THEN pa ELSE [pa EXCEPT !.node = linkOf(pa.mem, pa.node)]]

(* PageAlloc::init frees every page from first to last - 1.                *)
initialised(mem) ==
  LET freed[p \in firstPage - 1 .. lastPage - 1] ==
        IF p = firstPage - 1 THEN [mem |-> mem, node |-> NoPage] ELSE free(freed[p - 1], p)
  IN freed[lastPage - 1]

-----------------------------------------------------------------------------
(* The free pages, in the order they will be allocated.                    *)
nthFree(pa) ==
  LET link == [p \in Pages \cup {NoPage} |-> IF p = NoPage THEN NoPage ELSE linkOf(pa.mem, p)]
      nth[n \in Nat] == IF n = 1 THEN pa.node ELSE link[nth[n - 1]]
  IN [n \in 1 .. Cardinality(Pages) + 1 |-> nth[n]]

freePages(pa) ==
  LET nth == nthFree(pa) IN {nth[n] : n \in DOMAIN nth} \ {NoPage}

(* The list ends, so no page is on it twice.                               *)
listEnds(pa) == nthFree(pa)[Cardinality(Pages) + 1] = NoPage
=============================================================================
