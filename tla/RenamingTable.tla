---------------------------- MODULE RenamingTable ----------------------------
(***************************************************************************)
(* Register renaming (mkRenamingTable of PhysRegFile.bsv).  naming is the  *)
(* committed map, backup the speculative one where a bit of speculated     *)
(* says that it is in use, scoreboard the physical registers whose value   *)
(* is not computed yet.  The linked free list is the stack freeList, its   *)
(* last element the head; FreeList.tla shows the list implements it.       *)
(***************************************************************************)
EXTENDS OOOTypes, Sequences

CONSTANT NumPhysReg    \* physical registers, p0 included

ASSUME RenamingAssumption ==
  /\ NumPhysReg \in Nat
  /\ NumPhysReg > NumArchReg

VARIABLES naming, backup, speculated, scoreboard, freeList

renamingVars == <<naming, backup, speculated, scoreboard, freeList>>

PhysReg == 0 .. NumPhysReg - 1

mkRenamingTable ==
  /\ naming = [a \in ArchReg |-> a]
  /\ backup = [a \in ArchReg |-> 0]
  /\ speculated = {}
  /\ scoreboard = {}
  /\ freeList = [k \in 1 .. NumPhysReg - NumArchReg |-> NumPhysReg - k]

free(p) == IF p # 0 THEN Append(freeList, p) ELSE freeList

canAlloc == freeList # <<>>

allocated(arch) == IF arch = zeroReg THEN 0 ELSE freeList[Len(freeList)]

allocate(arch) ==
  /\ canAlloc
  /\ IF arch # zeroReg
       THEN /\ freeList' = SubSeq(freeList, 1, Len(freeList) - 1)
            /\ speculated' = speculated \cup {arch}
            /\ scoreboard' = scoreboard \cup {allocated(arch)}
            /\ backup' = [backup EXCEPT ![arch] = allocated(arch)]
       ELSE UNCHANGED <<freeList, speculated, scoreboard, backup>>
  /\ UNCHANGED naming

rename(arch) == IF arch \in speculated THEN backup[arch] ELSE naming[arch]

ready(p) == p \notin scoreboard

(* Faulty variant: keeping a mapping frees the new register, not the one   *)
(* it replaces.                                                            *)
commit_freesNew(arch, phys, keep, flush) ==
  LET valid == arch \in speculated /\ backup[arch] = phys IN
  /\ speculated' = IF flush THEN {} ELSE IF valid THEN speculated \ {arch} ELSE speculated
  /\ freeList' = free(phys)
  /\ naming' = IF keep THEN [naming EXCEPT ![arch] = phys] ELSE naming
  /\ UNCHANGED <<backup, scoreboard>>

(* Faulty variant: the replaced register is not freed.                     *)
commit_leaks(arch, phys, keep, flush) ==
  LET valid == arch \in speculated /\ backup[arch] = phys IN
  /\ speculated' = IF flush THEN {} ELSE IF valid THEN speculated \ {arch} ELSE speculated
  /\ freeList' = IF keep THEN freeList ELSE free(phys)
  /\ naming' = IF keep THEN [naming EXCEPT ![arch] = phys] ELSE naming
  /\ UNCHANGED <<backup, scoreboard>>

(* Faulty variant: a flush keeps the speculative mappings.                 *)
commit_noFlush(arch, phys, keep, flush) ==
  LET valid == arch \in speculated /\ backup[arch] = phys IN
  /\ speculated' = IF valid THEN speculated \ {arch} ELSE speculated
  /\ IF keep
       THEN freeList' = free(naming[arch]) /\ naming' = [naming EXCEPT ![arch] = phys]
       ELSE freeList' = free(phys) /\ naming' = naming
  /\ UNCHANGED <<backup, scoreboard>>

(* Retire or abandon the mapping arch -> phys; flush drops all the         *)
(* speculative mappings at once.                                           *)
commit(arch, phys, keep, flush) ==
  LET valid == arch \in speculated /\ backup[arch] = phys IN
  /\ speculated' = CASE flush -> {}
                     [] ~flush /\ valid -> speculated \ {arch}
                     [] OTHER -> speculated
  /\ IF keep
       THEN freeList' = free(naming[arch]) /\ naming' = [naming EXCEPT ![arch] = phys]
       ELSE freeList' = free(phys) /\ naming' = naming
  /\ UNCHANGED <<backup, scoreboard>>

wakeup(pdst) ==
  /\ scoreboard' = scoreboard \ {pdst}
  /\ UNCHANGED <<naming, backup, speculated, freeList>>
=============================================================================
