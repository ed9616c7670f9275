-------------------------------- MODULE PageMap --------------------------------
(***************************************************************************)
(* What page tables promise: one map from virtual pages to physical pages  *)
(* and permissions for each table, and what a call does to it.             *)
(***************************************************************************)
EXTENDS Integers

CONSTANTS PageSize,
          VirtPages,   \* numbers of virtual pages
          Unmapped     \* the entry of a page that is not mapped

VARIABLES maps,        \* the map of every table
          call,        \* the call to map or unmap that was made last
          exhausted,   \* no page is left for a table
          stopped      \* the reason of a panic, or "none"

pmVars == <<maps, call, exhausted, stopped>>

NoCall == [op |-> "none"]

PMInit == DOMAIN maps = {} /\ call = NoCall /\ exhausted \in BOOLEAN /\ stopped = "none"

(* The range of a call: its first page and the number of its pages.        *)
First(c) == c.va \div PageSize
Count(c) == c.size \div PageSize

Aligned(c) ==
  /\ c.va % PageSize = 0 /\ c.size % PageSize = 0
  /\ c.op = "map" => c.phys % PageSize = 0

(* What page i of the range becomes: mapped to page i of the physical      *)
(* range, with the permissions asked for, or unmapped.                     *)
Entry(c, i) ==
  IF c.op = "map" THEN [page |-> c.phys \div PageSize + i, perms |-> c.perms] ELSE Unmapped

(* Only a page that is not mapped can be mapped, or the other way round.   *)
Ready(c, m, i) == (m[First(c) + i] = Unmapped) <=> (c.op = "map")

(* The map m with the first n pages of the range of c worked through.      *)
After(c, m, n) ==
  [v \in VirtPages |-> IF v - First(c) \in 0 .. n - 1 THEN Entry(c, v - First(c)) ELSE m[v]]

(* The range is worked through in order, page by page, to its end or to    *)
(* the first page that is not ready or for which there is no memory: that  *)
(* stops the kernel.  No other page and no other table changes.            *)
PMRange(c, m) ==
  \E n \in 0 .. Count(c) :
    /\ \/ stopped' = "none" /\ n = Count(c)
       \/ /\ stopped' = IF c.op = "map" THEN "remap" ELSE "unmap"
          /\ n < Count(c) /\ ~ Ready(c, m, n)
       \/ stopped' = "no page" /\ c.op = "map" /\ n < Count(c) /\ exhausted'
    /\ \A i \in 0 .. n - 1 : Ready(c, m, i)
    /\ maps' = [maps EXCEPT ![c.table] = After(c, m, n)]

(* A call, with the range it names.                                        *)
PMCall(c) ==
  /\ c # NoCall
  /\ IF Aligned(c) THEN \E m \in {maps[c.table]} : PMRange(c, m)
                   ELSE stopped' = "alignment" /\ UNCHANGED maps

(* A new table maps nothing.                                               *)
PMCreate ==
  /\ call' = NoCall
  /\ \E r \in DOMAIN maps' \ DOMAIN maps :
       maps' = [x \in DOMAIN maps \cup {r} |->
                  IF x = r THEN [v \in VirtPages |-> Unmapped] ELSE maps[x]]
  /\ UNCHANGED stopped

(* Pages of callers come and go, and there may be no page for a table.     *)
PMOther ==
  /\ call' = NoCall
  /\ UNCHANGED maps
  /\ stopped' = "none" \/ (stopped' = "no page" /\ exhausted')

PMNext == stopped = "none" /\ (PMCreate \/ PMOther \/ PMCall(call'))

PMSpec == PMInit /\ [][PMNext]_pmVars
=============================================================================
