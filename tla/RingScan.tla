------------------------------- MODULE RingScan -------------------------------
(***************************************************************************)
(* What firstOneFrom and lastOneFrom of Utils.bsv are meant to find: the   *)
(* first or the last member of a set of slots, going round a ring of size  *)
(* slots from slot n.  BitScan shows the functions find it.                *)
(***************************************************************************)
EXTENDS Naturals

distance(n, i, size) == IF i >= n THEN i - n ELSE i + size - n

isFirstFrom(i, S, n, size) ==
  i \in S /\ \A j \in S : distance(n, i, size) <= distance(n, j, size)

isLastFrom(i, S, n, size) ==
  i \in S /\ \A j \in S : distance(n, i, size) >= distance(n, j, size)
=============================================================================
