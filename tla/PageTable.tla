------------------------------- MODULE PageTable -------------------------------
(***************************************************************************)
(* Page tables (vm.rs) in the memory of the page allocator: trees of three *)
(* levels whose nodes are pages.  A page is a sequence of words whoever    *)
(* uses it: a free page holds a link, a table entries, a page of a caller  *)
(* anything.                                                               *)
(*                                                                         *)
(* Callers keep to this: they map and free pages they hold, or map devices,*)
(* and let unmap free a page only when it is mapped nowhere else.          *)
(***************************************************************************)
EXTENDS PageAlloc

CONSTANTS Virts,       \* virtual addresses callers use
          Sizes,       \* sizes of ranges, in bytes
          Perms,       \* permissions
          Device,      \* page number of a device
          MaxTables,   \* bounds on the number of root tables
          MaxHeld      \* and of pages callers hold

VARIABLES pa,          \* memory and head of the free list
          tables,      \* root tables
          held,        \* pages callers hold
          call,        \* the last call, if it was of map or unmap
          panic

vars == <<pa, tables, held, call, panic>>

NoCall == [op |-> "none"]

VirtPages == 0 .. Fanout * Fanout * Fanout - 1

(* What a caller leaves in a page: words that look like valid entries.     *)
scribbled(page) == [s \in Slots |-> entryNew(page, FlagV + FlagR + FlagW)]

Init ==
  /\ pa = initialised([p \in Pages |-> scribbled(p)])
  /\ tables = {} /\ held = {} /\ call = NoCall /\ panic = "none"

(* A page from the allocator, its first Fanout entries cleared.  Without a *)
(* page left, unwrap panics.                                               *)
init_ptable(s) ==
  LET got == alloc(s) IN
  [page |-> got.page,
   pa   |-> IF got.page = NoPage THEN got.pa
            ELSE [got.pa EXCEPT !.mem[got.page] =
                    [i \in Slots |-> IF i < Fanout THEN entryNew(0, 0) ELSE @[i]]]]

-----------------------------------------------------------------------------
(* Faulty variant: a table is created whether or not there is one.         *)
descend_and_alloc_fresh(c, level, va) ==
  LET new == init_ptable(c.pa) IN
  IF c.table = NoPage \/ new.page = NoPage THEN [c EXCEPT !.table = NoPage]
  ELSE [table |-> new.page,
        pa    |-> [new.pa EXCEPT !.mem[c.table][vpn(va, level)] = entryNew(new.page, FlagV)]]

(* One level of walk_and_alloc: to the table an entry points to, which is  *)
(* created when the entry is not valid; c.table is NoPage after a panic.   *)
descend_and_alloc(c, level, va) ==
  LET e   == c.pa.mem[c.table][vpn(va, level)]
      new == init_ptable(c.pa)
  IN CASE c.table = NoPage -> c
       [] c.table # NoPage /\ valid(e) -> [c EXCEPT !.table = entryPpn(e)]
       [] OTHER ->
            [table |-> new.page,
             pa    |-> IF new.page = NoPage THEN new.pa
                       ELSE [new.pa EXCEPT !.mem[c.table][vpn(va, level)] =
                               entryNew(new.page, FlagV)]]

(* The last table on the way to va, whose entry vpn(va, 0) is returned.    *)
walk_and_alloc(s, table, va) ==
  descend_and_alloc(descend_and_alloc([pa |-> s, table |-> table], 2, va), 1, va)

descend(s, table, level, va) ==
  LET e == s.mem[table][vpn(va, level)] IN
  IF table # NoPage /\ valid(e) THEN entryPpn(e) ELSE NoPage

walk(s, table, va) ==
  LET middle == descend(s, table, 2, va) IN
  IF middle = NoPage THEN NoPage ELSE descend(s, middle, 1, va)

(* Faulty variant: a page that is mapped already keeps its entry.          *)
mapPage_quiet(c, table, va, page, p) ==
  LET w == walk_and_alloc(c.pa, table, va)
      e == w.pa.mem[w.table][vpn(va, 0)]
  IN CASE c.panic # "none" -> c
       [] c.panic = "none" /\ w.table = NoPage -> [pa |-> w.pa, panic |-> "no page"]
       [] c.panic = "none" /\ w.table # NoPage /\ valid(e) -> [pa |-> w.pa, panic |-> "none"]
       [] OTHER ->
            [c EXCEPT !.pa = [w.pa EXCEPT !.mem[w.table][vpn(va, 0)] =
                                set_valid(set_perms(set_ppn(e, page), p))]]

(* One turn of the loop of map.                                            *)
mapPage(c, table, va, page, p) ==
  LET w == walk_and_alloc(c.pa, table, va)
      e == w.pa.mem[w.table][vpn(va, 0)]
  IN CASE c.panic # "none" -> c
       [] c.panic = "none" /\ w.table = NoPage -> [pa |-> w.pa, panic |-> "no page"]
       [] c.panic = "none" /\ w.table # NoPage /\ valid(e) -> [pa |-> w.pa, panic |-> "remap"]
       [] OTHER ->
            [c EXCEPT !.pa = [w.pa EXCEPT !.mem[w.table][vpn(va, 0)] =
                                set_valid(set_perms(set_ppn(e, page), p))]]

(* One turn of the loop of unmap.                                          *)
unmapPage(c, table, va, freed) ==
  LET w == walk(c.pa, table, va)
      e == c.pa.mem[w][vpn(va, 0)]
      s == IF freed THEN free(c.pa, entryPpn(e)) ELSE c.pa
  IN CASE c.panic # "none" -> c
       [] c.panic = "none" /\ w = NoPage -> [c EXCEPT !.panic = "unmap"]
       [] c.panic = "none" /\ w # NoPage /\ ~ valid(e) -> [c EXCEPT !.panic = "unmap"]
       [] OTHER -> [c EXCEPT !.pa = [s EXCEPT !.mem[w][vpn(va, 0)] = 0]]

(* Faulty variant: the page after the address of the turn is mapped.       *)
mapRange_shifted(table, va, page, pages, p) ==
  LET upto[i \in 0 .. pages] ==
        IF i = 0 THEN [pa |-> pa, panic |-> panic]
        ELSE mapPage(upto[i - 1], table, va + PageSize * i, page + (i - 1), p)
  IN upto[pages]

mapRange(table, va, page, pages, p) ==
  LET upto[i \in 0 .. pages] ==
        IF i = 0 THEN [pa |-> pa, panic |-> panic]
        ELSE mapPage(upto[i - 1], table, va + PageSize * (i - 1), page + (i - 1), p)
  IN upto[pages]

unmapRange(table, va, pages, freed) ==
  LET upto[i \in 0 .. pages] ==
        IF i = 0 THEN [pa |-> pa, panic |-> panic]
        ELSE unmapPage(upto[i - 1], table, va + PageSize * (i - 1), freed)
  IN upto[pages]

-----------------------------------------------------------------------------
(* Where a table maps a virtual page: the entry at the end of the way      *)
(* through the tree, or Unmapped where the way ends early.                 *)
Unmapped == [page |-> NoPage, perms |-> perms(0)]

translate(table, v) ==
  LET Words   == 0 .. UsizeMod - 1
      entry   == [t \in Pages \cup {NoPage}, i \in Slots |-> IF t = NoPage THEN 0 ELSE pa.mem[t][i]]
      below   == [e \in Words |-> IF valid(e) THEN entryPpn(e) ELSE NoPage]
      mapping == [e \in Words |-> IF valid(e) THEN [page |-> entryPpn(e), perms |-> perms(e)]
                                              ELSE Unmapped]
      va      == addrOf(v)
      last    == below[entry[below[entry[table, vpn(va, 2)]], vpn(va, 1)]]
  IN mapping[entry[last, vpn(va, 0)]]

mappings(page) ==
  {m \in tables \X VirtPages : translate(m[1], m[2]) # Unmapped
                                 /\ translate(m[1], m[2]).page = page}

-----------------------------------------------------------------------------
(* A caller creates a table.                                               *)
create ==
  LET new == init_ptable(pa) IN
  /\ panic = "none" /\ Cardinality(tables) < MaxTables
  /\ pa' = new.pa
  /\ tables' = tables \cup ({new.page} \ {NoPage})
  /\ panic' = IF new.page = NoPage THEN "no page" ELSE "none"
  /\ call' = NoCall /\ UNCHANGED held

(* A caller takes a page and writes to it.                                 *)
take ==
  LET got == alloc(pa) IN
  /\ panic = "none" /\ got.page # NoPage /\ Cardinality(held) < MaxHeld
  /\ pa' = [got.pa EXCEPT !.mem[got.page] = scribbled(got.page)]
  /\ held' = held \cup {got.page}
  /\ call' = NoCall /\ UNCHANGED <<tables, panic>>

(* A caller gives back a page it has not mapped.                           *)
give(page) ==
  /\ panic = "none" /\ page \in held /\ mappings(page) = {}
  /\ pa' = free(pa, page)
  /\ held' = held \ {page}
  /\ call' = NoCall /\ UNCHANGED <<tables, panic>>

map(table, va, phys, size, p) ==
  LET misfit == offset(va) # 0 \/ offset(phys) # 0 \/ size % PageSize # 0
      after  == mapRange(table, va, ppn(phys), size \div PageSize, p)
  IN /\ panic = "none"
     /\ call' = [op |-> "map", table |-> table, va |-> va, phys |-> phys, size |-> size, perms |-> p]
     /\ IF misfit THEN panic' = "alignment" /\ UNCHANGED pa
                  ELSE panic' = after.panic /\ pa' = after.pa
     /\ UNCHANGED <<tables, held>>

(* freed is the argument `free`.                                           *)
unmap(table, va, size, freed) ==
  LET misfit == offset(va) # 0 \/ size % PageSize # 0
      pages  == size \div PageSize
      after  == unmapRange(table, va, pages, freed)
      range  == {v \in ppn(va) .. ppn(va) + pages - 1 : translate(table, v) # Unmapped}
  IN /\ panic = "none"
     /\ freed => \A v \in range : LET q == translate(table, v).page IN
                                   q \in held /\ Cardinality(mappings(q)) = 1
     /\ call' = [op |-> "unmap", table |-> table, va |-> va, size |-> size]
     /\ IF misfit THEN panic' = "alignment" /\ UNCHANGED pa
                  ELSE panic' = after.panic /\ pa' = after.pa
     /\ held' = held \ {translate(table, v).page :
                          v \in {w \in range : freed /\ translate(table, w)' = Unmapped}}
     /\ UNCHANGED tables

(* The panic handler loops.                                                *)
panicked == panic # "none" /\ UNCHANGED vars

inRange(va, size) == ppn(va) + size \div PageSize - 1 \in VirtPages

(* Physical ranges callers may map: pages they hold in a row, or a device. *)
mayMap(page, pages) == page = Device \/ (page .. page + pages - 1) \subseteq held

Next ==
  \/ create \/ take \/ panicked
  \/ \E page \in held : give(page)
  \/ \E t \in tables, va \in Virts, size \in Sizes :
       /\ inRange(va, size)
       /\ \/ \E page \in held \cup {Device}, p \in Perms :
               mayMap(page, size \div PageSize) /\ map(t, va, addrOf(page), size, p)
          \/ \E freed \in BOOLEAN : unmap(t, va, size, freed)

Spec == Init /\ [][Next]_vars

-----------------------------------------------------------------------------
PageTableTypeOK ==
  /\ pa.mem \in [Pages -> [Slots -> 0 .. UsizeMod - 1]]
  /\ pa.node \in Pages \cup {NoPage}
  /\ tables \subseteq Pages /\ held \subseteq Pages
  /\ panic \in {"none", "no page", "remap", "unmap", "alignment"}

(* The tables below the roots, one for each entry that leads there.        *)
children(ts) ==
  {<<t, i>> \in ts \X (0 .. Fanout - 1) : valid(pa.mem[t][i])}
pagesOf(entries) == {entryPpn(pa.mem[e[1]][e[2]]) : e \in entries}
middleEntries == children(tables)
lastEntries == children(pagesOf(middleEntries))

(* Pages come from memory that the kernel and its heap do not use.         *)
PagesOutsideKernel ==
  \A p \in freePages(pa) : addrOf(p) >= KernelEnd /\ addrOf(p + 1) <= MemoryEnd

(* The tables form trees: no table hangs from two entries.  No page is at  *)
(* once free, a table and held by a caller, none is lost (unmap leaves the *)
(* tables it empties in the tree) and none is the kernel's.                *)
PagesPartitioned ==
  LET middle == pagesOf(middleEntries)
      last   == pagesOf(lastEntries)
      kinds  == <<freePages(pa), tables, middle, last, held>>
  IN /\ PageTableTypeOK /\ PagesOutsideKernel
     /\ listEnds(pa)
     /\ Cardinality(middle) = Cardinality(middleEntries)
     /\ Cardinality(last) = Cardinality(lastEntries)
     /\ \A i, j \in 1 .. 5 : i # j => kinds[i] \cap kinds[j] = {}
     /\ UNION {kinds[i] : i \in 1 .. 5} = Pages

Maps ==
  INSTANCE PageMap
    WITH maps      <- [t \in tables |-> [v \in VirtPages |-> translate(t, v)]],
         exhausted <- pa.node = NoPage,
         stopped   <- panic

(* The trees implement one flat map for each table.  A call maps the pages *)
(* of the range it names to the physical pages and permissions it names,   *)
(* or unmaps them, and no other page in no other table; it stops short     *)
(* only at a page that is mapped already, or is not mapped, or when there  *)
(* is no page for a table.                                                 *)
ImplementsMaps == Maps!PMSpec
=============================================================================
