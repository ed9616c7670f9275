------------------------------- MODULE MCBCache -------------------------------
(* Instances of the cache: both words of one block are accessed, and one   *)
(* of the other block.                                                     *)
EXTENDS BCache

ThreeWords == Address \ {<<NumTag - 1, i, Words - 1>> : i \in Index}
=============================================================================
