# A TLA+ verification of libsei

libsei hardens event handlers against transient hardware faults.  A handler
runs as a *transaction*: it is executed N times (*phases* 0 to N-1, N is the
*level*), every phase starts from the same memory, and the results are compared
before anything becomes visible.  Without `ROLLBACK` a disagreement stops the
process; with it the core is blacklisted and the transaction is retried on
another one.

## The system and its modules

| Part of the library (`src/src/`) | Module | How state and actions correspond |
|---|---|---|
| `abuf.c`, the log of writes | `Abuf` | closed forms of push, swap and the heap comparisons |
| the loop of `abuf_swap` | `AbufSwap` | one action per entry; `SwapResult` ties it to `Abuf` |
| the loops of `abuf_cmp_heap*`, `abuf_try_cmp_heap*` | `AbufCmp` | one action per iteration; `CmpResult` ties them to `Abuf` |
| `talloc.c` / `tbin.c`, `wts.c` / `obuf.c` / `ibuf.c` | `Talloc` / `Tbin` / `Obuf` / `Ibuf` | operators on the C structs as records |
| `mode_cow.c` driven by `__sei_prepare`, `__sei_begin`, `__sei_commit` | `Sei` | composes the modules above; one action per entry point |
| what a transaction promises | `Tx` | abstract specification: one atomic execution |
| `cpu_isolation.c` | `CpuIsolation` | choice of cores, as operators |
| `sei_try_commit`, `sei_rollback`, the retry loop, the SIGSEGV handler | `SeiRollback` | extends `Sei` with cores, affinity and retries |
| pthread wrappers of `tmi.c` (two-phase locking) | `Locks` | several threads, the log of lock results, late unlocking |
| `cow.c` with `memcpy` and `memset` of `tmi.c` | `Cow` | the builds without `COW_APPEND_ONLY`: a hash table of words per phase, with its own transaction machine |
| `tbar.c`, the traversal barrier | `Tbar` | every atomic load and increment is a step |
| `cpu_isolation.c` shared by several threads, with the checksum loop of `ibuf.c` and the recovery of `__sei_commit` | `CpuThreads` | every region under the lock is a step, and so are `sched_getcpu` and setting an affinity |
| wrappers of `socket`, `connect`, `bind` and `close` | `Calls` | the kernel's descriptors, the log `abuf_sc`, delayed closes |
| `stash.c` with `__sei_shift`, `sei_shift` and `tbar_idup` | `Stash` | two stashes, and what was sent on which connection |
| `heap.c` (builds with `COW_USEHEAP`) | `Heap` | blocks at offsets, free lists linked through headers |
| `crc.c`, `crc32c/` | `Crc` | one action per iteration; a word is a set of bits; the tables are computed by the generator in the comment of `crc32c_software.c` (its literals are these values) and the hardware is taken as the `crc32` instruction |
| `libc/`: `strtol`, `strtoul`, `strtoll`, `strtoull`, `memmove` | `Libc` | operators, with long integers and words of a few bits and bytes |
| `examples/ukv`: store, hash table, iterators | `Ukv` | chains as sequences of keys |

`MC*` modules give the constants their values; `MCParts` instantiates all
sequential parts at once, and a behaviour is one of a single part.  `*Proofs`
modules hold the theorems (`SeiPhaseProofs` the inductive invariant of `Sei` and
its lemmas up to the end of a phase, `SeiProofs` the rest).

How the handler is modelled.  It is any deterministic program: phase 0 performs
arbitrary legal operations, which are remembered in `script`, and later phases
perform the same.  A fault makes a later phase skip an operation or perform one
of its own; since phase 0 is arbitrary, a fault in phase 0 is included.  Memory
is a function on cells, an access is an address and a number of cells, a
checksum is the contents it was computed from, an object is one cell, a system
call is a value.  After an exit only `sent`, what has left the process, is of
interest.  Unless stated otherwise the build is the default one: `MODE=cow`
with `COW_WT` and `COW_APPEND_ONLY`, `SEI_2PL`, `SEI_WRAP_SC`.  `NDEBUG` is a
constant, because the release build compiles all assertions out.

`Cow` is the other way to keep what a phase writes, so it stands beside `Sei`
and leaves allocation, calls and messages to it.  Memory is bytes here, since
entries are words while stores are bytes, half words and words, and `wt` says
whether `COW_WT` is defined.  `memcpy` and `memset` become the sequences of
stores that `tmi.c` makes of them; `InPlace` is what C says they do.

`CpuThreads` looks at the cores only.  A fault belongs to a core here: a
computation on a faulty core may go wrong, and the comparison then notices it.
The scheduler may move a thread within its affinity; after a checksum across
cores the thread stays pinned to the second core, as `ibuf.c` leaves it.
`Allowed` are the cores the system lets the process use: an affinity to others
fails, and the process exits.

## The runs

| Run | Question | Bounds |
|---|---|---|
| `MCTbar` | Does `tbar_check` return 1 only after a grace period, and does it return 1 eventually? | 2 threads, 2 traversals each, joining in any order |
| `MCSei` | Release build: does the log undo every phase, is everything phase 0 wrote verified, is a correct transaction never refused? | 2 transactions of 2 operations, levels 2 and 3 mixed, 1 fault |
| `SeiDebug` | Debug build: do only agreeing phases commit, is the execution atomic (`Tx`), do the output queues stay in step? | 2 transactions of 2 operations of every kind, a ring of 1 entry so that indices wrap, 1 fault |
| `MCSeiRollback` | Does a thread stay off blacklisted cores, and does every attempt start with the heap of the first? | 5 cores, core migration, 2 faults, 2 transactions |
| `RollbackEffects` | Are effects performed once, inputs verified, phases in agreement, which exits remain, and does every transaction end? | 3 cores, core migration or not, 1 fault, 2 operations of every kind, a message that a fault may corrupt |
| `MCCow` | Do loads see the stores before them, do entries fit, do only agreeing phases commit, and is a correct transaction never refused? | both builds, level 2, 3 words in 2 buckets with room for 1 entry, 2 transactions of 2 operations, 1 fault |
| `MCLocks` | Are locks held until the commit and results replayed, also after retries?  Without retries, are all locks released, and do transactions end whose handlers wait in order? | 2 threads with up to 3 and 2 lock operations, 2 locks, 3 phases, 1 fault |
| `MCCpuThreads` | Are the cores that computed wrongly blacklisted, does every retry cost another core, are cores chosen in turn, does the process exit only when they are spent, and does every handler end? | 2 threads, 3 cores of which 2 are faulty, 1 thread with messages, both checksum modes, 1 move by the scheduler |
| `MCParts`: logs | Do the loops of `abuf_swap` and of the comparisons compute the closed forms? | all logs of up to 3 overlapping accesses; 2 phases of up to 3 entries or 3 of up to 2, stale entries, room for one conflict |
| `MCParts`: heap | Do the free lists hold the freed blocks and no others, and are blocks disjoint? | blocks of 4 and 8 bytes in a heap of 24 |
| `MCParts`: calls | Does phase 1 see the results of phase 0, and are the right descriptors closed? | 2 handlers of up to 3 calls, 4 descriptors, 1 retry or SIGSEGV |
| `MCParts`: stash | Do both stashes stay in step, and is every buffer freed once? | 4 connections, 3 messages, room for 1 at first |
| `MCParts`: libc | Do the functions return what C says? | numerals of up to 3 digits with sign and prefix, 6-bit integers, 5 bases; moves of up to 2 words of 4 bytes with every overlap and alignment |
| `MCParts`: crc | Do all implementations agree on all pieces of a message? | 19 bytes at 4 alignments, cut anywhere, the implementation chosen anew for each piece |
| `MCParts`: ukv | Is the store a map, and do iterators visit every key once? | 4 keys that collide, 2 values, growth from 2 to 3 chains |
| `SeiNwayAgreement` | violated, see below | level 3, debug build, 1 fault |
| `RollbackOld` | violated, see below | 2 cores, 1 fault |
| `LocksHierarchy` | violated, see below | 2 threads and locks as in `MCLocks`, 2 phases, no fault |

Why the bounds are enough.  Two cells and two values tell any two results
apart.  Two operations give a cell written twice, an object allocated and freed
in one transaction, and a message appended and completed; two transactions give
stale log entries, objects freed by a later transaction and levels that change.
Five cores are the least number with which an affinity that was saved is
blacklisted completely while the retry can still migrate.  Two of the words of
`MCCow` share a bucket, which has to grow for the second, and its calls begin
and end inside words, half words and bytes.  Three operations let a handler of
`MCLocks` lock or try again, or lock below, what it has unlocked, while the
other thread can hold both locks; only the first thread uses `trylock`, which
the second can make fail.  One transaction each is enough there, as the log is
empty between transactions (`Stages` of `LocksProofs`).  In a comparison only
equality of values and addresses matters.  In `MCCpuThreads` one core is
healthy, so that handlers can still succeed after both others were blacklisted,
by one thread or by two.  Heap blocks of two classes can be freed in every order
and reused; handles double the stash twice; the limits of a 6-bit integer can be
written in each base; a message of 19 bytes has leading bytes, two words of
each size and trailing bytes.

`CHECK_DEADLOCK FALSE` is set where the process may exit, or all transactions
of the bound have run, and for `Locks`, where a handler may wait for a lock of
its own: one that it has unlocked, or that it forgot in a retry.  In `MCParts` the callers of a part may stop, the loops of `abuf.c`
may not.

Fairness.  `CpuThreads`: a thread that has started a handler is scheduled and
goes on; nothing is assumed of faulty cores, which may fail every time.  `Tbar`:
a thread inside `tbar.c` keeps running and a handler ends its traversal (strong fairness on
`tbar_leave`).  `Locks`: threads are scheduled, handlers return, and a mutex
that stays free is taken by a thread that waits for it.  `RollbackEffects`: the
phases after phase 0 and the library make progress; nothing is assumed of
faults or of the number of operations in phase 0, and the retries are finite
because each costs a core.

## What is proved

TLAPS checks these theorems for every value of the constants that satisfies the
named assumptions of the modules.

* `SeiProofs!TypeCorrect`, `UndoLogHolds`: at every point of every phase,
  whatever faults did, exchanging the log with memory gives back the memory of
  `__sei_begin`.  The invariant is inductive only together with what the logs of
  the finished phases hold (`SeiPhaseProofs!Cow`: their entries are well formed,
  and exchanging them with the memory at the start of the transaction gives the
  memory at the end of their phase) and with the room left in the logs (`Room`).  `AbufProofs`
  has the lemmas on the closed forms: a push extends what the log undoes, a swap
  restores, and a second swap redoes.
* `SeiProofs!VerifiedWritesHold`: if all accesses to one address have the same
  size (`UniformAccesses`), level 2 commits only if every cell that phase 0 wrote
  holds the value phase 0 computed.
* `SeiProofs!AgreementHolds`: in the debug build with N = 2, under the same
  assumption, a commit implies that the phases agree on all of memory.
* `AbufSwapProofs!SwapResultHolds`: the loop of `abuf_swap` computes the closed
  forms, for every log and memory.  The invariant says what memory and log hold
  after i entries.
* `TbarProofs!GracePeriodHolds`: as long as counts fit an `int`, `tbar_check`
  returns 1 only after a grace period, for any number of threads.  The invariant
  relates snapshots, marks and the counts at the instant of the leave.
* `LocksProofs!HeldUntilCommitHolds`: what the log of a thread says is locked is
  held by it until it is released after the commit, with `ROLLBACK` too.
  `LocksReleaseProofs!AllReleasedHolds`: as long as no handler was retried (always
  without `ROLLBACK`), nothing remains held after `__sei_commit`.  The invariant
  adds that every lock of a thread in a transaction is one of its log
  (`Accounted`), which a retry breaks.
* `CpuThreadsProofs`, for any number of threads, cores and faulty cores:
  `InvolvedCoresHolds` (the cores that computed wrongly are blacklisted before
  the next attempt), `RetriesBoundedHolds` (each retry of a handler has cost a
  core), and, when the process may use all cores, `ExitOnlyWhenSpentHolds`.  The
  bound on retries is not inductive: another thread may already have blacklisted
  the core on which a thread fails, and then its failure costs nothing new.  The
  invariant (`Paid`) says that the retries are covered by blacklisted cores
  *other* than the one the thread runs on, which holds because a thread that has
  been retried is pinned to a core that was not blacklisted when it came.

Only model-checked: liveness (the prover has no fairness or `ENABLED`), the
comparison loops, `AtomicOnce` (the refinement of `Tx`), outputs, inputs,
`RoundRobin`, everything about `SeiRollback` and `Cow`, and the parts of
`MCParts` except `abuf_swap`.  What recursive functions compute for every
input would need induction over data, which the installed provers cannot do.

## Where the code disagrees with what it says

Three disagreements are runs of the project:

* `SeiNwayAgreement`: README.rst:173 says "all N executions must produce
  identical results for commit to succeed"; `abuf_cmp_heap_nway` never looks at
  the values of phases 1 to N-2.
* `RollbackOld`: mode_cow.c:932 says "abuf[0] contains old values"; once
  `sei_switch` has run, it holds what phase 0 computed, and a rollback writes
  that to memory.  `PhaseZeroRollback` is what does hold.
* `LocksHierarchy`: README.rst:61 relies on lock hierarchies "to avoid circular
  waits and deadlocks".  `Legal` is this hierarchy: a handler locks only above
  what it holds.  As unlocking is delayed to the commit (tmi.c:1254), a handler
  that locks, unlocks and locks the same mutex waits for itself, and one that
  unlocks 2 and then locks 1 may wait for another that holds 1 and locks 2.
  `OrderedEnd` is what does hold: transactions end if handlers wait only for locks
  above all that they have acquired, unlocked since or not.

The others were found with the same modules; the table names the property and
the constants (others as in the run named) with which TLC shows them.

| Property | Start from | Change | What happens |
|---|---|---|---|
| `Agreement` | `SeiNwayAgreement` | `SEI_DMR_REDUNDANCY = 2`, `Levels = {2}`, `NDEBUG = TRUE` | abuf.c:291 only asserts equal numbers of writes, so an extra write commits |
| `VerifiedWrites` | `SeiNwayAgreement` | N = 2 as above, `Accesses <- Nested` | abuf.c:332: a narrow write excuses the whole of a wide one at its address |
| `NoFalseAlarm` | `MCSei` | `Accesses <- Inner`, `Faults = 0` | abuf.c:332: a narrow write inside a wide one stops the process |
| `NoFalseAlarm` | `MCSei` | `Kinds = {"free_null"}`, `Faults = 0` | tbin.c:144 refuses `free(NULL)` |
| `NoFalseAlarm` | `MCSei` | `Kinds = {"send"}`, `Calls = {"c"}`, `Faults = 0` | wts.c:90 compares the compile-time number of phases |
| `AtomicOnce` | `MCSei` | the same with `Levels = {3}` | tmi.c:998: phase 2 performs a call before the commit |
| `OutputsAgree` | `MCSei` | `Kinds = {"output"}`, `Pieces = {"a"}`, `Faults = 0` | obuf.c:171: queues of mixed levels get out of step |
| `VerifiedWrites` | `RollbackOld` | none | abuf.c:540: an earlier entry excuses the last write; abuf.c:406 claims "the same logic as abuf_cmp_heap()" |
| `NoNewDangling` | `RollbackOld` | `Heap = {4}`, `Kinds = {"write", "malloc"}` | abuf.c:669 clears the current pointer, not the restored one |
| `RetriesEnd` | `MCLocks` | none | tmi.c:1481 forgets the locks it holds, and the retry waits for them |
| `ConflictsFit` | `MCParts` | none | abuf.c:274 accepts one conflict more than the array holds |
| `NoFalseRefusal` | `MCCow` | `Levels = {3}` | mode_cow.c:600: the comparison with phase 1 empties the table of phase 0, so the one with phase 2 refuses every transaction that wrote |
| `TablesAgree` | `MCCow` | `Levels = {3}`, `Builds = {FALSE}` | mode_cow.c:600 again: without `COW_WT`, a phase 2 that a fault kept from writing agrees with the emptied table, and the transaction commits |
| `ReadsOwnWrites` | `MCCow` | `Sets <- HighByte` | tmi.c:798: the byte is sign extended, and words are filled with 0xFF |
| `ReadsOwnWrites` | `MCCow` | `Copies <- NoBytes` | tmi.c:748: `memcpy` of no bytes copies one |
| `ReadsOwnWrites` | `MCCow` | `Copies <- Overlap` | tmi.c:764: `memmove` is a `memcpy` that goes forward |
| `NoBlacklistedAffinity` | `MCCpuThreads` | none | cpu_isolation.c:350: the saved affinity is filtered under the lock and applied after it, when another thread may have blacklisted more cores |
| `ExitOnlyWhenSpent` | `MCCpuThreads` | `Allowed = {0, 1}` | cpu_isolation.c:26 counts the online cores; when a cpuset withholds some, the affinity fails and the process exits with cores left |
| `ClassInTable` | `MCParts` | `Sizes <- {1, 3, 7}` in `Heap` | heap.c:95: the header is added after the size was compared with `ALLOC_MAX_SIZE`, so the largest requests have no free list |
| `ReplayedAfterSigsegv` | `MCParts` | none | protect.c:53 starts the handler again without cleaning `abuf_sc`, so phase 1 gets results of the interrupted attempt |
| `NoneLost` | `MCParts` | none | tmi.c:841: descriptors that a failed attempt has opened stay open |
| `HeldOpen` | `MCParts` | `Level <- 3` in `Calls` | tmi.c:884: phase 2 closes at once, and the commit closes the same number again |
| `OnlyDestination` | `MCParts` | none | libc/string/bcopy.c:101: after the leading bytes, words and trailing bytes are counted from `length` again, which "Copy whole words, then mop up any trailing bytes." (bcopy.c:99) does not say |
| `MarkedOnlyIfEnded` | `MCTbar` | `IntMax = 2`, `Uint64 = 16`, `Spec` | tbar.c:208 truncates a 64-bit count to `int` |

A property of a part of `MCParts` is checked there as `part = "heap" =>
Heap!ClassInTable`, with the name of its part.

`ExitReasons` lists three ways to exit that README.rst:156 ("The process
terminates only when all available cores have been blacklisted") leaves out: a
second SIGSEGV, as the handler of protect.c:33 never unblocks it; core migration
with one core left (cpu_isolation.c:230); and phases that allocate different
numbers of objects (talloc.c:132), which `sei_try_commit` does not check.

## Not modelled

* Control-flow flags (`cfc.c`): they are set and checked in program order, and
  only a corrupted program counter inside the library makes a check fail.
* `mode_heap.c` and `cow_apply_heap`: line 288 of `mode_heap.c` has a `//`
  comment inside a macro, which swallows the lines behind it, and the file does
  not compile.
* `HEAP_PROTECT`, the table of `ignore_addr`: pages and stack addresses, which the
  models do not have.
* Mini traversals (`SEI_MTL`), `TBAR_PTHREAD`, `COW_DISABLE_REALLOC`, the
  checksum builds `CRC_CHECKSUM` and `CRC_NONE`, static phase migration: build
  variants that the default configuration leaves out.
* Allocation failure and limits of tables: the code asserts that they do not
  happen, and beyond the assertion the outcome depends on memory layout.
* `realloc`, `calloc` and the string functions that only read or copy byte by
  byte: they are compositions of what is modelled, or loops of one statement.
* Fault injection, statistics and logs, which do not act on the protocol; the
  assembly, which the models take as "the phase starts again"; the network code
  of the example applications.

## Plan

Built in this order: `Abuf` and its loops, the small buffers, `Sei` with `Tx`,
`SeiRollback` with `CpuIsolation`, `Locks`, `Tbar`, the proofs, `Cow`,
`CpuThreads` with its proofs, and the parts of `MCParts`.  What would come next:

1. A composition of `SeiRollback` and `CpuThreads`: memory and cores of several
   threads together, which is beyond TLC with the present state of either.
2. Proofs of `DistinctAgreement`, `HeapAtStart`, and of the refinement of `Tx` by
   the debug build.
3. The build variants listed above.
