------------------------------- MODULE OOOTypes -------------------------------
(***************************************************************************)
(* Names shared by the modules of the out-of-order core (OOO.bsv).         *)
(***************************************************************************)
EXTENDS Naturals

CONSTANT NumArchReg    \* architectural registers, x0 included

ASSUME NumArchRegAssumption == NumArchReg \in Nat \ {0}

ArchReg == 0 .. NumArchReg - 1
zeroReg == 0
=============================================================================
