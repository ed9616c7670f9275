------------------------------ MODULE PageEntry ------------------------------
(***************************************************************************)
(* Addresses, page numbers and page table entries as words (pointer.rs,    *)
(* vm.rs).  A word is a number below UsizeMod; an entry is flags in its    *)
(* low ten bits and a page number above them.                              *)
(***************************************************************************)
EXTENDS Naturals

CONSTANTS PageSize,    \* PAGE_SIZE
          Fanout,      \* entries a table uses: 2^9
          UsizeMod     \* 2^32, the width of usize

PageEntryAssumption ==
  /\ PageSize \in Nat \ {0}
  /\ Fanout \in Nat /\ Fanout > 1
  /\ UsizeMod \in Nat /\ UsizeMod > 1024

(* PhysAddr and VirtAddr: ppn and offset; From<PhyPageNum>.                *)
ppn(addr) == addr \div PageSize
offset(addr) == addr % PageSize
addrOf(page) == page * PageSize

(* Faulty variant: the fields of two levels overlap.                       *)
vpn_overlap(va, level) ==
  CASE level = 0 -> ppn(va) % Fanout
    [] level = 1 -> ppn(va) % Fanout
    [] level = 2 -> (ppn(va) \div (Fanout * Fanout)) % Fanout

(* The index of an address in a table of a level: three fields of 9 bits   *)
(* above the offset.                                                       *)
vpn(va, level) ==
  CASE level = 0 -> ppn(va) % Fanout
    [] level = 1 -> (ppn(va) \div Fanout) % Fanout
    [] level = 2 -> (ppn(va) \div (Fanout * Fanout)) % Fanout

-----------------------------------------------------------------------------
FlagV == 1
FlagR == 2
FlagW == 4
FlagX == 8
FlagU == 16

contains(flags, bit) == (flags \div bit) % 2 = 1

(* flags | bit when on holds, flags & !bit otherwise.                      *)
setBit(flags, bit, on) ==
  CASE on /\ ~ contains(flags, bit) -> flags + bit
    [] ~ on /\ contains(flags, bit) -> flags - bit
    [] OTHER -> flags

entryNew(page, flags) == (flags + page * 1024) % UsizeMod
entryPpn(e) == e \div 1024
(* No entry has one of the two bits above D, for which flags panics.       *)
entryFlags(e) == e % 1024

perms(e) ==
  [write |-> contains(entryFlags(e), FlagW), read |-> contains(entryFlags(e), FlagR),
   exec  |-> contains(entryFlags(e), FlagX), user |-> contains(entryFlags(e), FlagU)]

set_ppn(e, page) == entryNew(page, entryFlags(e))

(* Faulty variant: permissions are added and never taken away.             *)
set_perms_adds(e, p) ==
  LET f1 == IF p.write THEN setBit(entryFlags(e), FlagW, TRUE) ELSE entryFlags(e)
      f2 == IF p.read THEN setBit(f1, FlagR, TRUE) ELSE f1
      f3 == IF p.exec THEN setBit(f2, FlagX, TRUE) ELSE f2
      f4 == IF p.user THEN setBit(f3, FlagU, TRUE) ELSE f3
  IN entryNew(entryPpn(e), f4)

set_perms(e, p) ==
  entryNew(entryPpn(e),
           setBit(setBit(setBit(setBit(entryFlags(e), FlagW, p.write), FlagR, p.read),
                         FlagX, p.exec), FlagU, p.user))

valid(e) == contains(entryFlags(e), FlagV)
leaf(e) == perms(e).exec \/ perms(e).read \/ perms(e).write
clear_valid(e) == entryNew(entryPpn(e), setBit(entryFlags(e), FlagV, FALSE))
set_valid(e) == entryNew(entryPpn(e), setBit(entryFlags(e), FlagV, TRUE))
=============================================================================
