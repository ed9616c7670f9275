------------------------------- MODULE MCMemory -------------------------------
(***************************************************************************)
(* Instances of the memory of the kernel: page tables in the memory of the *)
(* page allocator, and the heap.  A behaviour is about one of them; the    *)
(* other stays as it is.                                                   *)
(*                                                                         *)
(* A table has two entries, so a tree of three levels maps eight pages.    *)
(* The heap has words of two bytes and memory that starts and ends off the *)
(* boundary of a word.                                                     *)
(***************************************************************************)
EXTENDS Heap

CONSTANTS PageSize, Fanout, UsizeMod, KernelEnd, MemoryEnd,     \* of PageTable
          Virts, Sizes, Perms, Device, MaxTables, MaxHeld

VARIABLES of,                               \* what the behaviour is about
          pa, tables, held, call, failure   \* PageTable

P(w, r, x, u) == [write |-> w, read |-> r, exec |-> x, user |-> u]
MCPerms == {P(FALSE, TRUE, TRUE, FALSE)}
MCVirts == {0, 48, 17}
MCSizes == {16, 32, 24}

L(s, a) == [size |-> s, align |-> a]
MCLayouts == {L(0, 4), L(1, 1), L(6, 2), L(4, 8), L(8, 4), L(31, 1)}
MCStarts == {[addr |-> 9, size |-> 22], [addr |-> 9, size |-> 4]}
MCExtends == {1, 3, 6}

Tables == INSTANCE PageTable WITH panic <- failure

ASSUME HeapIsGivenMemory == HeapAssumption
ASSUME PagesHoldTables == Tables!PageAllocAssumption

tablesVars == <<pa, tables, held, call, failure>>
allVars    == <<of, tablesVars, vars>>

(* States are told apart by what steps depend on: not by the last call or  *)
(* the last allocation, which only the abstract specifications look at.    *)
view == <<of, pa, tables, held, failure, used, holes, live, given, panic>>

MCInit == of \in {"tables", "heap"} /\ Tables!Init /\ Init

MCNext ==
  \/ of = "tables" /\ Tables!Next /\ UNCHANGED <<of, vars>>
  \/ of = "heap" /\ Next /\ UNCHANGED <<of, tablesVars>>

MCSpec == MCInit /\ [][MCNext]_allVars

-----------------------------------------------------------------------------
(* The properties of PageTable, stated there.                              *)

(* Every page has one owner and tables are trees (vm.rs, palloc.rs).       *)
PagesPartitioned == of = "tables" => Tables!PagesPartitioned

(* A table is a flat map, changed as a call says, in its range (vm.rs).    *)
ImplementsMaps == Tables!ImplementsMaps
=============================================================================
