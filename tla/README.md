# A TLA+ model of the DOoOM processor and kernel

DOoOM is a RISC-V system on chip written in Bluespec (`src/src/*.bsv`), with
bare-metal software in Zig (`soft/`) and Rust (`rust/`). This directory holds
TLA+ modules for its out-of-order core, its blocking caches and the Rust kernel
that runs on it: they are model-checked with TLC on small instances. With TLAPS it
is proved, for every value of the constants, that the core implements the ISA, that
its fetch unit provides one stream of instructions, that the blocking cache is a
memory, and that the load-store unit, whose loads read early and whose stores wait in
a buffer, is a sequential memory.

Paths below are relative to the root of the repository.

## 1. The system

### Parts, their state and operations

| part | source | state | operations |
|---|---|---|---|
| out-of-order core | `src/CoreOOO.bsv`, `src/OOO.bsv` | epoch, kill bits, register file, queues between stages | rules: rename, dispatch, connect*, write_back, execute_direct, commit_dmem, commit_instruction, discard_instruction |
| reorder buffer | `src/ROB.bsv` | ring of entries, result and wait-for-memory bits | enq, first, writeBack, dmemCommit, deq |
| renaming | `src/PhysRegFile.bsv` | naming, backup, speculated, scoreboard, linked free list | rename, allocate, wakeup, commit or abandon, flush |
| issue queues | `src/IssueQueue.bsv` | entries ordered by age | enq, wakeup, issue |
| functional units | `src/FunctionalUnit.bsv`, `src/ALU.bsv`, `src/MulDiv.bsv`, `src/FPoint.bsv` | operations in flight | enq, deq |
| CSRs | `src/CSR.bsv` | machine-mode registers | CSR instructions, trap, mret, interrupt lines |
| load-store unit | `src/lsu/*.bsv` | load ring, store ring, store buffer, request and answer queues | enqLoad/Store, wakeup*, commit, deq, emptySTB, invalidate; 7 internal rules |
| fetch unit | `src/FetchDecode.bsv` | pc, epoch, predictions waiting for words | 7 rules, redirect, invalidate |
| branch prediction | `src/BranchPred.bsv` | BTB, return stack, history | start, predict, train |
| blocking caches | `src/cache/BCache*.bsv`, `src/BlockRam.bsv` | tags, valid and dirty bits, data, one miss | read, write, invalidate, acquire, release |
| non-blocking cache | `src/cache/Cache.bsv`, `MSHR.bsv`, `src/LinkList.bsv` | MSHR lists | unfinished, in no SoC |
| in-order core | `src/Core.bsv`, `Pipeline.bsv`, `STB.bsv` | pipeline registers, store buffer | in no SoC of `Soc.bs` |
| buses | `src/AXI4*.bsv`, `AXI4_Lite_Adapter.bsv` | routing queues | crossbars, arbitration |
| devices | `src/Clint.bsv`, `UART.bsv`, `SdCard.bsv`, `Screen.bsv`, `TestBench.bsv`, `SDRAM.bsv` | registers, shifters, timers | bus reads and writes |
| kernel heap | `rust/src/hole.rs`, `linked_list_allocator.rs`, `kalloc.rs` | list of holes kept in the holes, bytes in use, bytes pending | init, alloc, dealloc, extend |
| page allocator, mutex | `rust/src/palloc.rs`, `mutex.rs` | list of free pages kept in the pages, lock flag | alloc, free, count; lock, drop |
| page tables | `rust/src/vm.rs`, `pointer.rs` | trees of three levels in pages | init_ptable, walk, map, unmap |
| process table | `rust/src/process.rs` | vector of processes, vector of freed identifiers | new_process, free |
| traps | `rust/src/main.rs`, `trap.rs`, `handler.rs`, `trampoline.s` | registers, trap state, kernel stack, machine CSRs | run_user, user_trap, handler |
| boot loader, benchmarks | `soft/src` (Zig) | SD card, processes, locks | boot, scheduling |

### How they interact

The fetch unit delivers decoded instructions with a predicted next pc and an
epoch. The core renames their registers, gives each a slot of the reorder buffer
and sends it to the issue queue of its class (EXEC, CONTROL, DMEM) or to the
queue of instructions that execute at the head of the buffer (DIRECT: CSR
accesses, fences, environment calls). Units finish in any order; `write_back`
stores the value, wakes waiters and marks the slot done. The head retires: it is
committed, discarded (older epoch), restarted (a load the load-store unit has
disowned), trapped or interrupted. Anything but a correctly predicted commit
*flushes*: the epoch advances, the renaming map returns to its committed state
and the fetch unit is redirected; nothing in flight is removed, it drains and is
discarded one by one. Loads read speculatively; stores write when they retire,
through the store buffer. Fetch unit and load-store unit have a cache each, kept
coherent by software alone.

The kernel sets up its page allocator, its heap (for `Box` and `Vec`) and the trap
vector, and then enters the user program, which shares machine mode and memory
with it, and comes back by a trap, for ever. Page tables take their pages from the
page allocator; page tables and processes have no caller in this version.

### What is hard

* Everything in flight survives a flush, so every table is used by instructions
  of two epochs at once: registers, slots, ring entries and answers on their way
  must not be confused with those of their successors.
* Many pairings are by order or by counting only: words with predictions in the
  fetch unit, cache and device answers with loads, write answers with the store
  buffer, `commit` with the heads of the rings.
* Wrapping indices, epochs and ages; rings whose size is not a power of two.
* Rules fire in the same cycle and read each other's state before or after the
  write, according to the port of each register.
* Fences, shared request queues and bounded answers can wait for each other.
* The cache overwrites tags and answers writes before the blocks have moved.
* The allocators keep their lists in the very memory they manage: a wrong merge, a
  stale word read as a link, a page with two owners show long after their cause.
* A trap comes at any instruction of the user and finds no free register.

`PROJECT.json` lists each hazard with its line and the properties that cover it.

## 2. Modules

### The core

| module | models |
|---|---|
| `OOOTypes`, `ExecUnits` | instruction classes, operands, results, CSR effects |
| `ROB` | `mkROB` |
| `RenamingTable` | `mkRenamingTable`, its free list as a stack |
| `IssueQueue` | `mkIssueQueue` |
| `OOOCore` | `mkCoreOOO`: one action per rule, on the four modules above |
| `Isa` | abstract: one instruction at a time, precise traps |
| `FreeList`, `FreeStack` | the linked free list, and the stack it implements |
| `FetchDecode`, `FetchStream` | `mkFetchDecode`, and the stream of instructions `OOOCore` assumes of it |

A Bluespec rule is atomic and a clock cycle is equivalent to firing its rules one
after the other, so the actions are the rules. Words are abstracted to
`0..NumVal-1`, program counters to `0..NumPc-1` with a cyclic successor; the set
`Misaligned` plays the targets that raise an exception. A program is a function
from pcs to instructions. What the load-store unit answers is left open in
`OOOCore` (any value, or an alignment fault), as is which younger load a
committing store disowns; `LSUCore` settles both.

Two couplings of `OOOCore` come from the schedule and not from the rules alone:

* `commit_dmem` and the retirement rule of the same entry are one step.
  `dmemCommit` precedes `deq` in `ROB.bsv`, `deq` needs it for a memory
  operation, both are ready from the same result, and `commit_instruction` reads
  `killed` as it was at the start of the cycle.
* `execute_direct` never meets a head that failed to decode and has no result
  yet. Such an entry has the tag DIRECT and no operands in `direct_issue_queue`;
  its failure waits in a queue that `write_back` serves round-robin, and is
  written before a younger direct instruction can have filled
  `direct_issue_queue`. This is a count of cycles, which the model assumes.

### The load-store unit

| module | models |
|---|---|
| `LsuTypes` | accesses, alignment, shifts and strobes |
| `RingScan` | what the circular searches are to find |
| `LSU` | `mkLSU` with its load queue, store queue and store buffer |
| `LSUCore` | the rules of the core that drive it, on any stream of loads, stores, branches, fences and cache-block operations |
| `SeqMemory` | abstract: accesses act at once, in the order they retire |
| `BitScan` | the bit-level searches of `Utils.bsv`, against `RingScan` |

A word has two lanes instead of four bytes and an access covers the word or one
lane; sign extension is left out. The two rings, the kill search, the age
comparison and the order of the answers are as in the code. The caches and the
device bus are external: `mem` holds what they hold; they take the requests of
their queue in order, read or write at that moment, and answer later. `MmioCap`
is the number of device reads that can be answered and not yet taken.

`issueLoad` tests the store queue and the store buffer and marks the load
executed in one step, as the rule does; in a cycle it comes after the
retirement of a store, whose entry it finds in the store buffer
(`valid[2]`), so that no store is missed between the two searches.

### The cache

| module | models |
|---|---|
| `BCache` | `mkBufferBCache`: matching, misses, write-backs, invalidations, the word by word movers of `BCacheUtils.bsv` |
| `CachedMemory` | abstract: one request at a time, which writes the word it names at once or is owed the contents of the word it names |

An action is a rule or a method; `matching` is one action for each of its
branches. The way of a miss (`randomWay`, a free-running counter) is any way. The
memory behind the cache is external: it takes and gives the words of a burst in
order. `out` is the response register of the data memory with its owner
(`mkVectorBramBE` hands it to the port that has read). Requests are numbered by
nothing: `MaxPending` bounds those whose answer has not been taken. `waiting` is the
request between `start` and its match; it is what `CachedMemory` calls `asked`, so
that an answer is judged by the address, data and mask of the request it answers.

### The kernel

| module | models |
|---|---|
| `HoleList`, `Heap` | `hole.rs`; `Heap` and `LockedHeap` with callers that free what they hold |
| `BlockHeap` | abstract: a set of disjoint blocks; the layout asked for gets its lowest place |
| `PageEntry` | page numbers, indexes, entries as words (`vm.rs`, `pointer.rs`) |
| `PageAlloc` | `PageAlloc` as operators on the words of memory |
| `PageTable` | `init_ptable`, the walks, `map`, `unmap`, on that memory, with callers |
| `PageMap` | abstract: one flat map for each table, and what a call with a given range does to it |
| `Palloc` | the calls of the allocator through `Mutex`, by several contexts |
| `ProcessManager` | `process.rs` |
| `Kernel` | `kernel_main`, `trampoline.s`, `handler`, `user_main`, the trap and `mret` of `CSR.bsv` |
| `KernelArith` | entries, indexes, pixels, fixed point, counters, the matrix product |

*Heap.* Addresses are numbers, holes records, the links the order of a sequence;
`suits` is the first half of `split_current`, `split_current` the surgery, both with
the arithmetic of the code. A panic ends in an endless loop, as in `main.rs`. `asked`
and `ret` are the layout of the last allocation and its result; they are forgotten
when memory is freed or added, guard nothing, and are what `BlockHeap` judges a result
by. *Page tables.* A page is a row of words whoever owns it, so a free page, a table
and a page of a caller can be mistaken for one another; callers leave words in their
pages that look like valid entries. An `Option` in a free page is a tag and a number.
`call` is the last call of `map` or `unmap` with its table, range, physical address
and permissions, for `PageMap`. *Traps.* A word is a value of the user or the kernel
(one of two versions for each register), an address, or a place of the kernel stack;
the routines of `trampoline.s` are split where they go from one context to the other,
and an interrupt may come wherever the hart would take it. *Lock.* `Mutex::lock`
(`mutex.rs:27-31`) is a load and a later store, and a caller that finds the lock taken
spins in a loop that never looks again; both are steps of `Palloc`. Contexts are left
only between calls: the kernel runs on one hart with interrupts disabled
(`main.rs:195-196`), and with contexts that could be left anywhere the lock would
exclude nobody. *Contracts.* Callers free once what they hold; they let `unmap` free
only pages mapped nowhere else; physical memory does not wrap around.

### Proofs

| module | theorems |
|---|---|
| `ROB_proofs` | lemmas: which slots enq and deq add and remove, the order of the slots, queues and counting |
| `OOOCore_proofs` | `TypeCorrect`, `HolderCorrect`, `OneHolderCorrect`, `NoLeakCorrect`, `OrderCorrect`, `EpochWindowCorrect`, `KilledCorrect`, `ResultsCorrect`, `ResultOnceCorrect`, `NoLostWakeupCorrect` |
| `Isa_proofs` | `SourceCorrect`, `NoUseAfterFreeCorrect`, `ValueCorrect`, `IsaCorrect` |
| `FetchDecode_proofs` | `FetchTypeCorrect`, `WordsPairedCorrect`, `StreamCorrect` |
| `BCache_proofs` | `CacheCorrect`, `LinesConsistentCorrect`, `InvalidatedIsGoneCorrect`, `CachedMemoryCorrect` |
| `LSU_proofs` | `LsuTypeCorrect`, `StbCoversCorrect`, `RingsFollowCorrect`, `AgesCorrect`, `AnsweredCorrect` |
| `Memory_proofs` | `MemoryCorrect` |
| `Heap_proofs` | `HeapCorrect`, `BlocksCorrect` |

Operators named `x_something` next to an operator `x` are faulty variants of it:
replacing `x` by the variant must break a property. They are not used by the
specifications.

## 3. Runs

| run | question | states |
|---|---|---|
| `core` | renaming, reorder buffer, epochs and wakeups under mispredictions and killed loads; illegal instructions, CSR accesses, ecall, mret, fence.i, misaligned jumps and interrupts at any moment; refinement of `Isa` | 222 k |
| `core_liveness` | the core retires instructions for ever | 89 k |
| `lsu_order` | early loads, kills, flushes and byte accesses on one word; refinement of `SeqMemory` | 747 k |
| `lsu_mmio` | cache and device accesses, misaligned accesses, fences: each answered once; refinement of `SeqMemory` | 284 k |
| `lsu_liveness` | reads of cache and devices that share one queue never block | 47 k |
| `lsu_drain` | with stores and fences, the buffer drains and the head retires | 346 k |
| `lsu_barriers` | a barrier at the head completes; **violated**, see below | |
| `fetch` | redirections at any moment; refinement of `FetchStream`; progress | 21 k |
| `bcache` | two blocks of two words in two ways, that evict each other; refinement of `CachedMemory`; progress | 613 k |
| `memory` | page tables with ranges that fail half way, refinement of `PageMap`, which knows the call; the heap under allocations, frees and extensions in any order, refinement of `BlockHeap`, which knows the layout | 33 k |
| `units` | contexts across ecalls and interrupts at any instruction, and every ecall returns; calls of the page allocator by two contexts; the linked list of free registers; the circular searches for every mask, start and size up to 8; pure computations | 51 k |
| `process_ids` | live processes have different identifiers; **violated**, see below | |

`memory` and `units` check several modules that do not interact. A behaviour of
`MCMemory` or `MCUnits` is about one of them, which `of` names in its first state;
the variables of the others keep their first values. The states are the sum of
those of the parts, and each part has its own fairness.

### What the properties say

* `OneHolder`, `NoLeak`: every physical register is mapped, held by one
  instruction in flight, or free, and only one of these. `NoUseAfterFree`: what a
  current instruction is about to read has not been freed.
* `ResultOnce`: each slot is written back exactly once while it is live (`enq`
  does not clear the result bit). `NoLostWakeup`: a register is marked busy and
  an operand waits for it exactly while its producer is in flight.
* `EpochWindow`: in program order, the instructions of the machine belong to the
  epoch just before the current one, then to the current one. Two epochs would
  be enough; the code has 256.
* `KilledIsLive`: the mark of a disowned load never falls on a later instruction.
* `ImplementsIsa`: committed registers, CSRs and pcs are those of a machine that
  executes one instruction at a time. An instruction executed at the head retires
  in two steps (its CSR effect, then its register and pc) and nothing, an
  interrupt least of all, comes between.
* `RingsFollowRob`, `AnsweredOnce`, `StbCoversWrites`: the pairings by order and by
  counting are right; `lsu_mmio` checks `AnsweredOnce` for misaligned accesses, which
  answer without being read or stored. `AgesOrdered`: ages compare in program order
  although they wrap; the comment of `Utils.bsv:79-82` asks for twice as many ages as
  instructions.
* `ImplementsMemory`: retired loads return what the retired stores before them
  wrote.
* `WordsPaired`, `ImplementsStream`, `Delivers`: the fetch unit neither skips, repeats
  nor mixes up words across redirections, and goes on.

* `LinesConsistent` (no block in two ways, a clean line is what memory holds, no queue
  overfilled) and `InvalidatedIsGone`: what makes it sound to overwrite a tag before
  the block has moved and to drop a clean line. `ImplementsCachedMemory`: a write
  changes the bytes it names of the word at its address, and a read is answered, in
  order, with what the writes before it left at its address. `Serves`: a request is
  not left waiting.
* `HeapConsistent`: holes are sorted, apart, large enough for their node, and are
  exactly the memory between the blocks; the counters tell the truth, to the last
  byte cut off at an end; the assertions of the list never fail for a caller that
  is right. `ImplementsBlocks`: the layout asked for gets the lowest place that has
  its size and alignment and leaves room for nodes; it gets nothing, and the kernel
  stops, only when that layout is too large or has no such place.
* `PagesPartitioned`: every page is free, a root, an inner or a last table, or a
  caller's, and only one of these; tables are trees, and no page is the kernel's
  own memory. `ImplementsMaps`: page i of the range of a call is mapped to page i of
  the physical range with the permissions given, or unmapped, in order, to the end or
  to the first page that is not ready or finds no table; only then does the call
  panic, and nothing else changes.
* `AllocatorsConsistent`: the lock of the page allocator is set only while a call
  is inside and every page is free or held, once; the linked list of registers
  holds each free register once. `CallsReturn`: the guard is always dropped.
  `ImplementsPageStack`, `ImplementsStack`: both lists are stacks.
* `ContextsKept`: across any number of traps the kernel finds its callee-saved
  registers and its stack, which does not drift, and is not interrupted while it
  exchanges them; a trap finds the trap state. `ResumesUser`: the user finds all
  its registers, at the right instruction. `EcallsReturn`: with interrupts masked it
  always gets to the instruction after its ecall. That instruction is a `cbo.clean`,
  which need not complete (see `lsu_barriers`).
* `ComputationsCorrect`: the searches find the first and the last one from a
  start; an update of an entry keeps its other fields; the indexes and the offset
  are the address; a pixel keeps the leading bits of its colours; fixed point
  numbers are ordered and form a group; elapsed times survive a wrap of the
  counter; the benchmark computes a matrix product.

### Finding: `process_ids`

`new_process` (`rust/src/process.rs:47-54`) takes `self.free.last()`, which leaves
the identifier in the vector. Create, free, create, create: the second and third
process both get identifier 0, and the third has overwritten the second, against
`process.rs:21-22`, "A ProcessId is an unique identifier at each instant". The
vector of freed identifiers also never shrinks. Nothing in the kernel calls the
process table yet.

### Finding: `lsu_barriers`

`mkLSU.invalidate` (`src/lsu/LSU.bsv:258-261`) puts an entry into `invalidateQ`,
a queue of one place. No rule of the load-store unit takes it out:
`cache.invalidateAck` is not called there, as it is in `src/STB.bsv:165-168` and
`src/FetchDecode.bsv:134-137`. `emptySTB`, which FENCE waits for, requires
`invalidateQ.canEnq`. After one cache-block operation, the next FENCE and the next
cache-block operation therefore wait at the head of the reorder buffer for ever,
although `README.md:6-7` gives `zicbom` instructions as the way to synchronize the
caches and `soft/src/boot.zig:56-86` runs a loop of `cbo.clean` and a fence.
`BarriersComplete` states that a barrier at the head completes; TLC shows a fair
execution in which it does not.

### Bounds

The bounds are chosen so that every queue fills and every pointer wraps.

* Core: 3 slots, 2 entries per issue queue, 2 operations per
  unit, 3 architectural registers (x0 and two others) and 2 spare physical ones,
  so that allocation blocks; 3 epochs. Programs are loops of two instructions,
  one per hazard, since speculation and the arbitrary predictions unroll them in
  every order. For liveness, without a view: 2 slots and queues of one entry.
* Load-store unit: 2 loads, 2 stores, a buffer of 1 or 2, 3 slots and 6 ages, exactly
  twice the slots, so that they wrap with the comparison at its limit (2 slots and 8
  ages in `lsu_mmio`, 4 in the others with 2 slots). One word is enough for ordering
  (stores to other words do not interact), two when one is a device. The prediction of
  the pc after a load or a store may be wrong as well as that after a branch
  (`Mispredictions`), but in `lsu_liveness`, which is about full queues: flushes
  multiply its states by thirty and `lsu_drain` has them.
* `MmioCap`: with `MmioCap` = `LqSize` - 1 the unit is live, with one less it is
  not (the mutant of `lsu_liveness`). In the SoC a device read can be answered and
  wait in `rresponseQ` (2), in the device (at least 3 places) and in the crossbar
  (1): 6, and `LqSize` - 1 is 5.
* Fetch: 2 pcs, 2 epochs, 2 reads inside the cache, and the 3-entry queues of the
  code.
* Cache: one set (sets do not interact), two ways, two tags, blocks of two words
  of which three words are accessed: hits, clean and dirty misses and
  invalidations of both blocks happen, and blocks move in more than one step. A word
  has one byte that is written or not: the bytes of a word do not interact. Buffers
  have one entry (two in the code), so that they fill more often, and two requests
  wait for their answers at most.
* Heap: words of 2 bytes, sizes and alignments below and above a node, memory that
  starts or ends unaligned, and extensions of less than a word up to more than a
  node; enough memory for three or four blocks, hence two holes with blocks on all
  sides of them.
* Pages: 2 entries per table instead of 512 and 8 virtual pages, 2 root tables, and
  so few pages that they run out in the middle of a range; 3 pages for the calls
  through the lock.
* Free registers: 6 physical and 3 architectural ones.
* Computations: halves of 3 bits for fixed point numbers, whose arithmetic is the
  same in every width; page numbers at the borders of 20 bits and addresses at the
  borders of each field, with words of 30 bits, the largest TLC computes with.
* Traps need no bound: their states are finite.
* `process_ids`: 5 processes are created at most; the violation needs 3.

### Views

`core` uses the view `CoreView`, `lsu_order` and `lsu_mmio` the view `LsuView`. A view
identifies states that differ by a rotation of a ring or of the epochs or ages, in the
names of physical registers, or in data that is written again before it is read. Next
and the properties are blind to these differences: indices are only compared and
advanced, a register is named by its holder (a name by `OneHolder` and `NoLeak`, which
are proved without the view), and a free slot, an address that is not there yet or the
result of an instruction of an old epoch is never read. `storeQ` answers by slot
number, so `LsuView` shows it as it is. The history variable `retired` is left out of
`LsuView`: it constrains no action, and a step is judged by its new value and the
memory of the step itself. A load that leaves `retired` as it was is a stutter of
`SeqMemory`, and rightly so: no store has retired since, so the value retired then is
still the one memory holds. The view of `memory` leaves out `call`, `asked` and `ret`,
which no guard reads: the step that sets them is judged as it is generated, whatever
state it leads to. The runs that check liveness use no view.

### Fairness and deadlock

Each rule, and each group of rules that competes for one port (the dispatch rules, the
retirement rules), is weakly fair: the Bluespec scheduler fires every ready rule each
cycle unless it conflicts with a more urgent one, and the rules that conflict here
exclude each other by their guards or are served round-robin (`mkGetScheduler` for
`write_back`). The caches, the devices and the fetch unit are assumed to answer.
Nothing obliges the program to redirect, to interrupt or to invalidate, nor the
instruction cache to acknowledge an invalidation. The cache assumes that its memory
answers and that the processor takes its answers. In `Palloc` and `Kernel` the hart
goes on executing the context it is in; nothing obliges the scheduler to switch, a
device to interrupt or a `cbo.clean` to complete, which the second one does not
(`lsu_barriers`). Deadlock is checked in every run but `lsu_liveness`, `lsu_drain` and
`lsu_barriers`, where `HeadRetires` and `BarriersComplete` say which kind of stop is
not allowed, and `process_ids`, where no process is left to be created.

## 4. What is proved

All theorems hold for every value of the constants that satisfies the named
assumptions, as weak as the code justifies: positive sizes (`RobSizeAssumption`,
`LsuAssumption`, `FetchAssumption`, `BCacheAssumption`), at least one spare physical
register, at least two epochs, programs made of instructions, and for the
load-store unit at least twice as many ages as slots in the reorder buffer
(`AgeAssumption`; `Utils.bsv` asks for it, and the processor has 256 and 16). For the
heap, alignments divide the word or are multiples of it, as powers of two do
(`HeapAssumption`; `Layout` takes no others).
The larger inductive invariants were checked with TLC before they were proved.

**The core.**

* `TypeCorrect`: `Spec => []TypeOK`. Besides the types it contains `RingOK`, the
  agreement of the full and empty flags with the pointers, without which nothing
  can be said of the set `Live` of occupied slots. `ROB_proofs` shows that `enq`
  adds `nextP` to `Live` behind the others and `deq` removes `firstP`.
* `OneHolderCorrect`, `NoLeakCorrect`: from the inductive invariant
  `HolderInv == ZeroInv /\ PdstInv /\ OneHolder /\ NoLeak`. `ZeroInv` (x0 is p0,
  which is never free) and `PdstInv` (an instruction holds p0 exactly when it
  writes no register) are needed because `commit` and `free` skip p0: without them
  a retiring instruction could free a register that the map still uses. The
  argument is one of moving a register from one holder to another: `allocate`
  moves it from the free list to an entry, `commit` moves the entry's register to
  the map and the old one to the free list, abandoning moves it back.
* `OrderCorrect` and `EpochWindowCorrect`: `OrderInv` reads the machine as one
  sequence, from the head of the reorder buffer through the stage registers to the
  fetch unit. Its epochs are the old ones followed by the current one, and each
  instruction has the pc that the one before it predicted, as long as both are of
  one epoch. `EpochWindow` follows, and so does what retirement needs: the head,
  when it is current, has the pc that the architecture is at.
* `KilledCorrect`: from `KillInv == DmemInv /\ KilledIsLive`, where `DmemInv` says
  that exactly the loads and stores in the buffer wait for `commit_dmem`, so that
  every marked slot is cleared when it leaves.
* `ResultOnceCorrect` and `NoLostWakeupCorrect`: `ResultsInv` is the conjunction of
  `ProducerInv` (a slot without result is in one issue queue or one unit, and what
  these hold is such a slot with its registers), `DirectInv` (the queue of direct
  instructions is the subsequence of the buffer that is executed at the head) and
  `NoLostWakeup`, which is needed for the first: an operand becomes ready in the
  very step that writes its register.
* `NoUseAfterFreeCorrect`, `ValueCorrect`, `IsaCorrect`: `Source(p, a, n)` names,
  for a register name and a position in the buffer, who provides its value: the
  youngest older instruction of the epoch that writes the register, or the
  committed map. `SourceInv` says that a waiting operand was renamed to exactly
  this register; that such a register is not freed follows with `HolderInv`.
  `ValueInv` says of every result of the current epoch, wherever it is (in a unit,
  in the buffer, in the register file), that its unit may compute it from the values
  of its sources. `IsaInv` relates the head to the architectural state, and
  `IsaCorrect` shows that each step of the core is a step of `Isa` or leaves its
  state alone: `commit_ok`, `commit_exception`, `commit_interrupt` and
  `execute_direct` are its instructions, traps and interrupts.

**The fetch unit.** `FetchTypeCorrect` and `WordsPairedCorrect`: types with the
capacities of the queues; `WordsPaired` is inductive on top of them. It counts the
words that are read and being read as one sequence, which `enqRResponse` does not
change, which `start` extends together with the predictor and from which decoding
takes the head together with the prediction. `StreamCorrect` is the refinement of
`FetchStream`. The mapping reads the outputs and the predictions that are still
valid as one queue; `EpochsInOrder` is needed because validity is decided when a
word is decoded: when something of this epoch has been taken, everything behind it
is of this epoch too, so a redirection finds nothing of the epoch it starts.

**The cache.** `CacheCorrect` proves `CacheInv`: types and the control state
(`ControlInv`), the requests and answers still to come (`OutInv`), the block being
fetched and the one being written back (`FillingInv`, `LeavingInv`: the words
already moved are equal on both sides), and the two parts of `LinesConsistent`. The
tag of a line is overwritten when the miss is found, before the old block has left
and the new one has come; so the invariant cannot speak of lines alone and
follows the block that leaves and the one that comes. `CachedMemoryCorrect`: the
memory that the processor sees is what the valid lines hold, or what is on its way,
or what the memory behind holds; each step leaves it alone, or takes a request, writes
the word that the request names, owes its contents or gives an answer. That a hit is
on the word asked for needs that a line whose tag is that of the request holds its
block (`CacheInv`), and the request is remembered as `waiting` until it is served.

**The load-store unit.**

* `LsuTypeCorrect` and `StbCoversCorrect`: `PairInv` and `CountInv` say which
  positions of `isStoreMMIO` have been sent, and that `wresponseQ` and `cacheWrite`
  count those of their own kind. The bounds of the two counters in the type
  invariant rest on them.
* `RingsFollowCorrect`: `RingInv` describes each ring as an interval from its head,
  linked with the entries of the reorder buffer in both directions and ordered as
  they are; `TagInv` lists the memory operations behind `tagQ`. What leaves the
  buffer is first in the order, so it is the head of its ring and of `tagQ`: this is
  why `commit` may ignore the index.
* `AgesCorrect`: `AgeInv` gives the age of an entry as `current_age` minus its
  distance to the tail; fewer than half of the ages are then in use.
* `AnsweredCorrect`: `PlaceInv` assigns to every slot one of nine places (none,
  operands awaited, address known, read from the cache, read from a device, three
  queues of replies, store ready to be answered), and says that each structure holds
  exactly the slots of its place, each once. Every action moves one slot. It rests
  on `RingInv`: only because a ring slot belongs to one live operation do the
  answers, which carry a ring slot, reach the right entry.
* `MemoryCorrect`: `Spec => ImplementsMemory`, the refinement of `SeqMemory`, from all
  of the above. `programMem`, what the program sees, is the contents of the caches and
  devices under the youngest buffered store of each lane. It changes only when a store
  commits: `WrittenInv` says that what has been written and is still buffered is in
  memory, so that `writeRequest` and `doDeqSTB` leave it alone. A load is `Right` while
  it is of the current epoch and no load of the epoch up to it is killed (`EpochInv`,
  `KilledInv`: kill bits belong to loads in the buffer). `ReadInv`, `ReplyInv` and
  `ResultInv` say that a right load that has read has the contents of its word,
  wherever the value is (on its way back, in a reply, in the reorder buffer), and that
  one that has issued and is still to be read finds no buffered store on its word;
  `AddrInv` and `FedInv` tie the operands in the rings and the requests to the pending
  loads. A committing store kills the oldest executed load of its word, hence no
  executed load of that word stays right, and the search of `issueLoad` finds the older
  stores that have not committed; a flush makes everything stale. The oldest
  operation, when it retires and is not killed, is right: it returns what `SeqMemory`
  does.

**The kernel heap.**

* `HeapCorrect`: `Spec => []HeapConsistent`, from the inductive invariant `HeapInv`.
  Its main part says that holes and blocks tile the heap: each is at a multiple of
  the word and as large as a node at least, no two overlap, and every byte between
  the two ends of the list is in one of them. `HeapConsistent` alone is not
  inductive: that no two blocks overlap and that each is a multiple of the word with
  room for a node is what keeps a freed block from reaching another one or from
  leaving a gap too small for a hole, which `check_merge_top` and
  `check_merge_bottom` would swallow. Freeing turns a block into a hole where it
  lies; the merges join neighbours and leave the bytes covered the same; a split
  cuts one hole into the block and at most two holes.
* `BlocksCorrect`: `Spec => ImplementsBlocks`. By the tiling a hole is exactly a gap
  between the blocks (`HoleIsGap`); the places `BlockHeap` has for the layout asked
  for are therefore those
  that `suits` finds in some hole (`PlacesInHoles`, `SuitsIsPlace`), and since the list
  is sorted and `suits` takes the lowest place of a hole, the first hole that suits
  has the lowest place of all (`FirstFitIsLeast`). An
  allocation fails when no hole suits that layout, hence when it has no place
  (`NothingFits`).

Only model-checked: everything about liveness and the absence of deadlock, which is
out of reach of the prover; `PagesPartitioned`,
`ImplementsMaps` and the properties of `Palloc`, whose free pages are found by
following links through memory, a recursive function that would need induction over
data; `ContextsKept` and the others of `Kernel`, which has no constants and finitely
many states, so that TLC's run of it is exhaustive; `BitScan`, `FreeList` and the
other algorithms of the `units` run, whose recursive definitions need induction too.

## 5. What is not modelled

* Core: floating point, the bits of the arithmetic, the counters, mcause and mtval
  (but for exception or interrupt in `Kernel`); branch prediction, whose answers
  are arbitrary; the composition of load-store unit, cache and bus, so that the
  order of buffered stores, cache-block operations and instruction reads is not
  covered. Device reads have no side effects in `LSU`, so what a speculative read
  of a device consumes is not covered.
* Hardware around it: buses, timer, UART, SD card, screen, SDRAM controller, the
  in-order core and the non-blocking cache (in no SoC), Verilog and the simulation
  harness.
* Kernel: console output, one store into the frame buffer, benchmarks that are not
  called, views of memory as bytes, addresses that wrap around, floating-point
  registers across a trap. The Zig software.

## 6. Plan

1. Proofs: the free list of pages as a sequence kept beside memory, then
   `PagesPartitioned` of the page tables and `ImplementsMaps`.
2. The load-store unit over `BCache`, for the order of cache-block operations and
   buffered stores.
3. `Csr` with the whole register map and `Clint`; interrupts from their source to
   the trap. `BranchPred`, buses, devices; multiplication and division.
