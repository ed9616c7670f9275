---------------------------- MODULE ProcessManager ----------------------------
(***************************************************************************)
(* The process table (process.rs): a vector of processes and a vector of   *)
(* the identifiers that were freed.  ProcessId has a private field, so the *)
(* identifiers of callers come from new_process; a caller frees what it    *)
(* created, once.  The page table, registers, program counter and IPC      *)
(* buffer of a process stay opaque: "who" stands for them.                 *)
(***************************************************************************)
EXTENDS Naturals, Sequences

CONSTANT MaxCreated    \* bound on the calls of new_process

VARIABLES processes,   \* every process, free and allocated
          free,        \* identifiers of the free ones
          created,     \* processes created so far, which are named 1 .. created
          pidOf        \* the identifier returned for each process alive

vars == <<processes, free, created, pidOf>>

(* ProcessManager::new.                                                    *)
Init == processes = <<>> /\ free = <<>> /\ created = 0 /\ pidOf = <<>>

alive == DOMAIN pidOf
returned(who, pid) == pidOf' = [w \in alive \cup {who} |-> IF w = who THEN pid ELSE pidOf[w]]

(* ProcessManager::free.                                                   *)
free_process(who) ==
  LET pid == pidOf[who] IN
  /\ processes' = [processes EXCEPT ![pid + 1].free = TRUE]
  /\ free' = Append(free, pid)
  /\ pidOf' = [w \in alive \ {who} |-> pidOf[w]]
  /\ UNCHANGED created

(* new_process with a freed identifier: the last one, which stays in the   *)
(* vector (last, not pop).                                                 *)
reuse ==
  LET who == created + 1
      pid == free[Len(free)]
  IN /\ created < MaxCreated /\ free # <<>>
     /\ processes' = [processes EXCEPT ![pid + 1] =
                        [pid |-> pid, who |-> who, free |-> FALSE]]
     /\ created' = who
     /\ returned(who, pid)
     /\ UNCHANGED free

(* new_process without one: a new entry.                                   *)
push ==
  LET who == created + 1
      pid == Len(processes)
  IN /\ created < MaxCreated /\ free = <<>>
     /\ processes' = Append(processes, [pid |-> pid, who |-> who, free |-> FALSE])
     /\ created' = who
     /\ returned(who, pid)
     /\ UNCHANGED free

Next == push \/ reuse \/ \E who \in alive : free_process(who)

Spec == Init /\ [][Next]_vars

-----------------------------------------------------------------------------
(* "A ProcessId is an unique identifier at each instant": two processes    *)
(* alive have different identifiers.                                       *)
UniquePids == \A v, w \in alive : pidOf[v] = pidOf[w] => v = w
=============================================================================
