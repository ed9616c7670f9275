-------------------------------- MODULE MCUnits --------------------------------
(***************************************************************************)
(* Instances of five small units: the kernel and its traps, the calls of   *)
(* its page allocator, its pure computations, and of the core the list of  *)
(* free registers and the circular searches.  A behaviour is about one of  *)
(* them; the others stay as they are.                                      *)
(*                                                                         *)
(* The page allocator has pages of 16 bytes.  The computations have pages  *)
(* and fields of the sizes of the code, words of 30 bits and fixed point   *)
(* numbers of 3 + 3 bits; pages are the first and last of the memory of    *)
(* main and of the 20 bits that fit; addresses have one to three bits set  *)
(* or clear at the borders of their fields; bytes are around the borders   *)
(* of the bits a pixel keeps.  Masks have the sizes of StbSize, IqSize,    *)
(* LqSize and SqSize, and their neighbours.                                *)
(***************************************************************************)
EXTENDS Kernel

CONSTANTS Contexts, MaxAllocs,      \* Palloc
          NumArchReg, NumPhysReg,   \* FreeList
          Masks, Matrices           \* sizes for BitScan and KernelArith

VARIABLES of,                                        \* what the behaviour is about
          pa, number_alloc, lock, running, call, held,   \* Palloc
          head, freeList, owned,                     \* FreeList
          size, mask, start,                         \* BitScan
          in                                         \* KernelArith

PagesAtBorders == {0, 1, 524288, 532479, 1048575}
AddressesAtBorders == {(a + b + c) % 2147483647 : a \in {0, 1, 4095, 4096},
                        b \in {0, 2093056, 2097152}, c \in {0, 1071644672, 1073741824}}
BytesAtBorders == {0, 31, 32, 63, 64, 100, 127, 128, 159, 160, 191, 192, 224, 255}

Calls == INSTANCE Palloc
           WITH PageSize <- 16, Fanout <- 2, UsizeMod <- 65536, KernelEnd <- 40, MemoryEnd <- 120
Regs  == INSTANCE FreeList WITH held <- owned
Scan  == INSTANCE BitScan WITH Sizes <- Masks
Arith == INSTANCE KernelArith
           WITH PageSize <- 4096, Fanout <- 512, UsizeMod <- 1073741824, Frac <- 8,
                EntryPages <- PagesAtBorders, Addresses <- AddressesAtBorders,
                Bytes <- BytesAtBorders, Sizes <- Matrices

ASSUME RegistersToFree == Regs!FreeListAssumption
ASSUME PagesHoldTables == Calls!PageAllocAssumption /\ Arith!PageEntryAssumption

callVars == <<pa, number_alloc, lock, running, call, held>>
regVars  == <<head, freeList, owned>>
scanVars == <<size, mask, start>>
allVars  == <<of, vars, callVars, regVars, scanVars, in>>

MCInit ==
  /\ of \in {"kernel", "calls", "registers", "scan", "arith"}
  /\ Init /\ (of = "kernel" \/ pending = "no")
  /\ Calls!Init /\ (of = "calls" \/ running = CHOOSE c \in Contexts : TRUE)
  /\ Regs!Init
  /\ IF of = "scan" THEN Scan!Init ELSE size = 1 /\ mask = {} /\ start = 0
  /\ IF of = "arith" THEN Arith!Init ELSE in = [of |-> "none"]

kernelRuns ==
  of = "kernel" /\ (kernel \/ user) /\ UNCHANGED <<of, callVars, regVars, scanVars, in>>
callRuns(c) ==
  of = "calls" /\ Calls!step(c) /\ UNCHANGED <<of, vars, regVars, scanVars, in>>

MCNext ==
  \/ of = "kernel" /\ Next /\ UNCHANGED <<of, callVars, regVars, scanVars, in>>
  \/ of = "calls" /\ Calls!Next /\ UNCHANGED <<of, vars, regVars, scanVars, in>>
  \/ of = "registers" /\ Regs!Next /\ UNCHANGED <<of, vars, callVars, scanVars, in>>
  \/ of = "scan" /\ Scan!Next /\ UNCHANGED <<of, vars, callVars, regVars, in>>
  \/ of = "arith" /\ Arith!Next /\ UNCHANGED <<of, vars, callVars, regVars, scanVars>>

(* The fairness of Kernel and of Palloc.                                   *)
MCSpec ==
  /\ MCInit /\ [][MCNext]_allVars
  /\ WF_allVars(kernelRuns) /\ \A c \in Contexts : WF_allVars(callRuns(c))

-----------------------------------------------------------------------------
(* The properties of Palloc, FreeList, BitScan and KernelArith, stated     *)
(* there.                                                                  *)

(* The lock of palloc is not left set, its pages are held or free, once,   *)
(* and the list of free registers holds them once (mutex.rs, palloc.rs,    *)
(* PhysRegFile.bsv).                                                       *)
AllocatorsConsistent ==
  /\ of = "calls" => Calls!CallsConsistent
  /\ of = "registers" => Regs!ListOfFree

(* Calls of palloc return (mutex.rs).                                      *)
CallsReturn == Calls!CallsReturn

(* The list through the free pages is a stack (palloc.rs).                 *)
ImplementsPageStack == Calls!ImplementsPageStack

(* The list of free registers is a stack (PhysRegFile.bsv).                *)
ImplementsStack == Regs!ImplementsStack

(* The searches find the first and the last one from start (Utils.bsv);    *)
(* entries, indexes, pixels, fixed point numbers, times and the benchmark  *)
(* are what they are for (vm.rs, pointer.rs, screen.rs, fixed.rs, main.rs).*)
ComputationsCorrect ==
  /\ of = "scan" => Scan!FirstOneFromCorrect /\ Scan!LastOneFromCorrect
  /\ of = "arith" => Arith!ComputationsCorrect
=============================================================================
