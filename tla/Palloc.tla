-------------------------------- MODULE Palloc --------------------------------
(***************************************************************************)
(* The functions palloc::alloc, free and count: each takes the lock of     *)
(* PAGE_ALLOCATOR (mutex.rs), works on the allocator and drops the guard.  *)
(* Mutex::lock reads the flag, spins in an empty loop if it is set, which  *)
(* never reads it again, and otherwise sets it: two steps.  The memory     *)
(* accesses of an operation are two steps as well, a read and a write.     *)
(*                                                                         *)
(* Contexts are the activities that call them, on one hart.  The kernel    *)
(* enables no interrupt, so a context is only left between two calls.      *)
(***************************************************************************)
EXTENDS PageAlloc, SequencesExt

CONSTANTS Contexts,    \* callers
          MaxAllocs    \* bound on number_alloc

VARIABLES pa, number_alloc,      \* PageAlloc
          lock,                  \* Mutex.lock
          running,               \* the context that has the hart
          call,                  \* the call of each context and where it is
          held                   \* the pages each context holds

vars == <<pa, number_alloc, lock, running, call, held>>

Idle == [op |-> "none", at |-> "idle", page |-> NoPage, link |-> NoPage]

(* palloc::init has run: it is the first thing kernel_main does.           *)
Init ==
  /\ pa = initialised([p \in Pages |-> [s \in Slots |-> 0]])
  /\ number_alloc = 0 /\ lock = FALSE
  /\ running \in Contexts
  /\ call = [c \in Contexts |-> Idle]
  /\ held = [c \in Contexts |-> {}]

goto(c, at) == call' = [call EXCEPT ![c].at = at]

(* Another context gets the hart.                                          *)
switch(c) ==
  /\ c # running
  /\ call[running].at = "idle"
  /\ running' = c
  /\ UNCHANGED <<pa, number_alloc, lock, call, held>>

begin(c, op, page) ==
  /\ running = c /\ call[c].at = "idle"
  /\ op = "alloc" => number_alloc < MaxAllocs
  /\ op = "free" => page \in held[c]
  /\ op # "free" => page = NoPage
  /\ call' = [call EXCEPT ![c] = [Idle EXCEPT !.op = op, !.at = "test", !.page = page]]
  /\ UNCHANGED <<pa, number_alloc, lock, running, held>>

(* Mutex::lock: the test of the flag.  A context in the empty loop stays   *)
(* there.                                                                  *)
lock_test(c) ==
  /\ running = c /\ call[c].at \in {"test", "spin"}
  /\ goto(c, IF lock \/ call[c].at = "spin" THEN "spin" ELSE "set")
  /\ UNCHANGED <<pa, number_alloc, lock, running, held>>

lock_set(c) ==
  /\ running = c /\ call[c].at = "set"
  /\ lock' = TRUE
  /\ goto(c, "read")
  /\ UNCHANGED <<pa, number_alloc, running, held>>

(* Through the guard: number_alloc, the head and the link of the head are  *)
(* read ...                                                                *)
body_read(c) ==
  /\ running = c /\ call[c].at = "read"
  /\ CASE call[c].op = "alloc" ->
            /\ number_alloc' = number_alloc + 1
            /\ call' = [call EXCEPT ![c] = [@ EXCEPT
                 !.at = "write", !.page = pa.node,
                 !.link = IF pa.node = NoPage THEN NoPage ELSE linkOf(pa.mem, pa.node)]]
       [] call[c].op = "free" ->
            call' = [call EXCEPT ![c] = [@ EXCEPT !.at = "write", !.link = pa.node]]
              /\ UNCHANGED number_alloc
       [] call[c].op = "count" -> goto(c, "unlock") /\ UNCHANGED number_alloc
  /\ UNCHANGED <<pa, lock, running, held>>

(* Faulty variant: the head stays after an allocation.                     *)
body_write_keepsHead(c) ==
  LET k == call[c] IN
  /\ running = c /\ k.at = "write"
  /\ pa' = IF k.op = "free" THEN free(pa, k.page) ELSE pa
  /\ held' = [held EXCEPT ![c] = IF k.op = "free" THEN @ \ {k.page}
                                 ELSE @ \cup ({k.page} \ {NoPage})]
  /\ goto(c, "unlock")
  /\ UNCHANGED <<number_alloc, lock, running>>

(* ... and the new head, and for free the link in the page, are written.   *)
body_write(c) ==
  LET k == call[c] IN
  /\ running = c /\ k.at = "write"
  /\ \/ /\ k.op = "alloc"
        /\ pa' = IF k.page = NoPage THEN pa ELSE [pa EXCEPT !.node = k.link]
        /\ held' = [held EXCEPT ![c] = @ \cup ({k.page} \ {NoPage})]
     \/ /\ k.op = "free"
        /\ pa' = free([pa EXCEPT !.node = k.link], k.page)
        /\ held' = [held EXCEPT ![c] = @ \ {k.page}]
  /\ goto(c, "unlock")
  /\ UNCHANGED <<number_alloc, lock, running>>

(* Faulty variant: the guard is forgotten and never dropped.               *)
unlock_forgotten(c) ==
  /\ running = c /\ call[c].at = "unlock"
  /\ call' = [call EXCEPT ![c] = Idle]
  /\ UNCHANGED <<pa, number_alloc, lock, running, held>>

(* MutexGuard::drop.                                                       *)
unlock(c) ==
  /\ running = c /\ call[c].at = "unlock"
  /\ lock' = FALSE
  /\ call' = [call EXCEPT ![c] = Idle]
  /\ UNCHANGED <<pa, number_alloc, running, held>>

step(c) == lock_test(c) \/ lock_set(c) \/ body_read(c) \/ body_write(c) \/ unlock(c)

Next ==
  \E c \in Contexts :
    \/ switch(c) \/ step(c)
    \/ \E op \in {"alloc", "free", "count"}, page \in held[c] \cup {NoPage} : begin(c, op, page)

(* A running context goes on; nothing makes the scheduler switch.          *)
Spec == Init /\ [][Next]_vars /\ \A c \in Contexts : WF_vars(step(c))

-----------------------------------------------------------------------------
inside(c) == call[c].at \in {"read", "write", "unlock"}

(* The flag of the mutex tells whether somebody is inside: it is not left  *)
(* set for the next caller to spin on for ever.                            *)
LockedIsInside == lock = \E c \in Contexts : inside(c)

(* Between calls, every page is held by one context or on the free list,   *)
(* once.                                                                   *)
PagesAccounted ==
  (\A c \in Contexts : call[c].at = "idle") =>
    /\ listEnds(pa)
    /\ freePages(pa) \cup UNION {held[c] : c \in Contexts} = Pages
    /\ \A c \in Contexts : freePages(pa) \cap held[c] = {}
    /\ \A c, d \in Contexts : c # d => held[c] \cap held[d] = {}

(* The lock and the list agree with the calls that are under way.          *)
CallsConsistent == LockedIsInside /\ PagesAccounted

(* A call that has begun returns.                                          *)
CallsReturn == \A c \in Contexts : call[c].at # "idle" ~> call[c].at = "idle"

Stack ==
  INSTANCE FreeStack
    WITH Reg     <- Pages,
         initial <- [k \in 1 .. Cardinality(Pages) |-> firstPage + k - 1],
         stack   <- Reverse(SelectSeq(nthFree(pa), LAMBDA p : p # NoPage))

(* The list through the pages is a stack: alloc returns the page freed     *)
(* last, and never the same page twice.                                    *)
ImplementsPageStack == Stack!StackSpec
=============================================================================
