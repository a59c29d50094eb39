----------------------------- MODULE SeiRollback ----------------------------
(***************************************************************************)
(* The thread of Sei in the ROLLBACK build (SEI_CPU_ISOLATION and          *)
(* SEI_SIGSEGV_RECOVERY, release): when the phases disagree or a phase     *)
(* takes a SIGSEGV, the core is blacklisted, the thread migrates, the      *)
(* transaction is rolled back and the handler starts again in phase 0      *)
(* (__sei_commit in tmi.c, protect_handler in protect.c, sei_rollback and  *)
(* sei_try_commit in mode_cow.c).                                          *)
(*                                                                         *)
(* A retry may perform other operations than the attempt before: it starts *)
(* from what the rollback has left in memory.                              *)
(***************************************************************************)
EXTENDS Sei, CpuIsolation

CONSTANTS
  PtrSize,       \* sizeof(void*) in cells
  CoreMigration  \* TRUE if handlers use the variants __sei_prepare*_core

ASSUME RollbackConstants ==
  /\ num_cores \in Nat \ {0} /\ PtrSize \in Nat /\ CoreMigration \in BOOLEAN
  /\ NDEBUG

VARIABLES
  blacklist, rr_cursor,  \* cpu_isolation_state
  core,                  \* the core that the thread runs on
  affinity,              \* the cores that it may run on
  saved_affinity,        \* {} unless affinity_saved
  phase0_core,
  core_migration,        \* sei->core_migration_enabled
  segv_blocked,          \* SIGSEGV is blocked in the thread's signal mask
  start                  \* history: memory when the attempt started, and the
                         \* heap when the transaction did

isolation == <<blacklist, rr_cursor>>
place == <<core, affinity>>
migration == <<saved_affinity, phase0_core, core_migration>>
cpuvars == <<isolation, place, migration, segv_blocked, start>>
rvars == <<vars, cpuvars>>

RInit ==
  /\ Init
  /\ blacklist = {} /\ rr_cursor = 0
  /\ affinity = Cores /\ core \in Cores
  /\ saved_affinity = {} /\ phase0_core = -1 /\ core_migration = FALSE
  /\ segv_blocked = FALSE
  /\ start = [mem |-> Zero, heap |-> {}]

-----------------------------------------------------------------------------
\* A recovery that blacklists nothing.
recover_core_same(faulty) ==
  LET new_core == get_next_available(blacklist, rr_cursor)
  IN  /\ ~all_blacklisted(blacklist \cup faulty)
      /\ core' = new_core /\ affinity' = {new_core}
      /\ rr_cursor' = next_cursor(new_core)
      /\ UNCHANGED blacklist

\* cpu_isolation_blacklist_core or _current, then migrate_current_thread.  The
\* caller exits if no core is left.
recover_core(faulty) ==
  LET new_core == get_next_available(blacklist', rr_cursor)
  IN  /\ blacklist' = blacklist \cup faulty
      /\ ~all_blacklisted(blacklist')
      /\ core' = new_core /\ affinity' = {new_core}
      /\ rr_cursor' = next_cursor(new_core)

no_core_left(faulty) ==
  /\ blacklist' = blacklist \cup faulty
  /\ all_blacklisted(blacklist')
  /\ Exit
  /\ UNCHANGED <<sent, rr_cursor, place, migration, segv_blocked, start>>

\* abuf_restore_filtered: the entries are restored first to last, except in
\* objects of the transaction; a pointer to one is cleared instead.
restore_entry(e, m) ==
  IF talloc_addr_in_range(talloc, e.addr) THEN m
  ELSE IF e.size = PtrSize /\ talloc_addr_in_range(talloc, m[e.addr])
    THEN Store(m, [x \in Cells(e.addr, e.size) |-> NULL])
    ELSE Store(m, e.wvalue)

\* A restore that misses the first entry.
abuf_restore_but_one(b, n) ==
  LET restored[i \in 0 .. n] ==
        IF i <= 1 THEN mem ELSE restore_entry(b[i - 1], restored[i - 1])
  IN  restored[n]

abuf_restore_filtered(b, n) ==
  LET restored[i \in 0 .. n] ==
        IF i = 0 THEN mem ELSE restore_entry(b[i - 1], restored[i - 1])
  IN  restored[n]

\* A rollback without tbin_reset.
sei_rollback_keeping_frees ==
  /\ mem' = abuf_restore_filtered(buf[0], pushed[0])
  /\ pushed' = [q \in Phase |-> IF q < level THEN 0 ELSE pushed[q]]
  /\ heap' = heap \ talloc_objects(talloc)
  /\ talloc' = talloc_rollback(talloc, level)
  /\ obuf' = obuf_reset(obuf, level)
  /\ wts' = wts_reset(wts)
  /\ p' = 0
  /\ script' = <<>> /\ k' = 0
  /\ start' = [start EXCEPT !.mem = mem']
  /\ UNCHANGED <<level, ready, ntx, old, res, buf, tbin, ibuf, sent, status>>

sei_rollback ==
  /\ mem' = abuf_restore_filtered(buf[0], pushed[0])
  /\ pushed' = [q \in Phase |-> IF q < level THEN 0 ELSE pushed[q]]
  /\ tbin' = tbin_reset(tbin, level)
  /\ heap' = heap \ talloc_objects(talloc)
  /\ talloc' = talloc_rollback(talloc, level)
  /\ obuf' = obuf_reset(obuf, level)
  /\ wts' = wts_reset(wts)
  /\ p' = 0
  /\ script' = <<>> /\ k' = 0
  /\ start' = [start EXCEPT !.mem = mem']
  /\ UNCHANGED <<level, ready, ntx, old, res, buf, ibuf, sent, status>>

-----------------------------------------------------------------------------
\* __sei_prepare and _nm; _n and _nm_n, which leave core migration as it was;
\* _core and _nm_core.
prepare ==
  /\ sei_prepare
  /\ \/ level' = SEI_DMR_REDUNDANCY /\ core_migration' = FALSE
     \/ UNCHANGED core_migration
     \/ CoreMigration /\ level' = 2 /\ core_migration' = TRUE
  /\ UNCHANGED <<isolation, place, saved_affinity, phase0_core, segv_blocked,
                 start>>

\* ibuf_prepare computes the checksum twice and the results differ.
prepare_sdc ==
  /\ Idle /\ ~ready /\ ntx < MaxTx /\ Msg # {}
  /\ faults > 0
  /\ \/ /\ recover_core({core})
        /\ faults' = faults - 1
        /\ UNCHANGED <<script, k, txvars, cowvars, effectvars, status,
                       migration, segv_blocked, start>>
     \/ no_core_left({core})

begin ==
  /\ sei_begin
  /\ start' = [mem |-> mem, heap |-> heap]
  /\ UNCHANGED <<isolation, place, migration, segv_blocked>>

run_handler == handler /\ UNCHANGED cpuvars

\* The scheduler moves the thread.
schedule ==
  /\ status = "run"
  /\ core' \in affinity \ {core}
  /\ UNCHANGED <<vars, isolation, affinity, migration, segv_blocked, start>>

\* Phase 0 to 1 with core migration changes to another core.
migrating == core_migration /\ p = 0

switch ==
  /\ sei_switch
  /\ \/ ~migrating /\ UNCHANGED <<place, saved_affinity, phase0_core>>
     \/ /\ migrating
        /\ available_excluding(blacklist, core) # {}
        /\ saved_affinity' = IF saved_affinity = {} THEN affinity
                             ELSE saved_affinity
        /\ phase0_core' = core
        /\ core' = migrate_excluding_core(blacklist, core)
        /\ affinity' = {core'}
  /\ UNCHANGED <<isolation, core_migration, segv_blocked, start>>

switch_exit ==
  /\ PhaseDone /\ p < level - 1
  /\ migrating /\ available_excluding(blacklist, core) = {}
  /\ Exit
  /\ UNCHANGED <<sent, cpuvars>>

\* sei_try_commit without the check of the delayed frees.
try_commit_unfreed ==
  /\ abuf_try_cmp_heap_nway(buf, pushed, level, mem)
  /\ ibuf_correct(ibuf, Message)
  /\ wts_can_flush(wts)

\* sei_try_commit.
try_commit ==
  /\ abuf_try_cmp_heap_nway(buf, pushed, level, mem)
  /\ ibuf_correct(ibuf, Message)
  /\ wts_can_flush(wts)
  /\ tbin_can_flush(tbin, level)

\* A restore that brings the blacklisted cores back.
restore_affinity_all ==
  \/ saved_affinity = {} /\ UNCHANGED <<isolation, place>>
  \/ /\ saved_affinity # {}
     /\ affinity' = saved_affinity
     /\ core' \in IF core \in saved_affinity THEN {core} ELSE saved_affinity
     /\ UNCHANGED isolation

\* The rest of __sei_commit: the affinity is restored, without the blacklisted
\* cores; if none is left, the thread migrates once more.
restore_affinity ==
  LET mask == saved_affinity \ blacklist
  IN  \/ saved_affinity = {} /\ UNCHANGED <<isolation, place>>
      \/ /\ mask # {}
         /\ affinity' = mask
         /\ core' \in IF core \in mask THEN {core} ELSE mask
         /\ UNCHANGED isolation
      \/ saved_affinity # {} /\ mask = {} /\ recover_core({})

commit ==
  /\ CommitPoint /\ try_commit
  /\ tbin_can_flush(tbin, level) /\ talloc_agree(talloc, level)
  /\ finish
  /\ restore_affinity
  /\ saved_affinity' = {}
  /\ UNCHANGED <<phase0_core, core_migration, segv_blocked, start>>

\* The system calls are made when tbin_flush fails, which sei_try_commit has
\* excluded, or talloc_clean finds that the phases allocated different numbers
\* of objects, which it has not checked: the process exits.
commit_exit ==
  /\ CommitPoint /\ try_commit
  /\ ~(tbin_can_flush(tbin, level) /\ talloc_agree(talloc, level))
  /\ sent' = sent \o wts[0]
  /\ Exit
  /\ UNCHANGED cpuvars

\* The retry loop of __sei_commit.
SuspectCores == IF core_migration THEN {phase0_core, core} \cap Cores ELSE {core}

retry ==
  /\ CommitPoint /\ ~try_commit
  /\ \/ /\ recover_core(SuspectCores)
        /\ sei_rollback
        /\ phase0_core' = IF core_migration THEN -1 ELSE phase0_core
        /\ UNCHANGED <<faults, saved_affinity, core_migration, segv_blocked>>
     \/ no_core_left(SuspectCores)

\* protect_handler.  It leaves with __sei_switch, so that SIGSEGV remains
\* blocked; the kernel ends a process that takes a blocked SIGSEGV.
sigsegv ==
  /\ Running /\ faults > 0
  /\ faults' = faults - 1
  /\ ~segv_blocked
  /\ \/ /\ recover_core({core})
        /\ sei_rollback
        /\ segv_blocked' = TRUE
        /\ UNCHANGED migration
     \/ /\ blacklist' = blacklist \cup {core} /\ all_blacklisted(blacklist')
        /\ status' = "exit"
        /\ UNCHANGED <<script, k, txvars, cowvars, effectvars, rr_cursor,
                       place, migration, segv_blocked, start>>

sigsegv_killed ==
  /\ Running /\ faults > 0 /\ segv_blocked
  /\ Exit
  /\ UNCHANGED <<sent, cpuvars>>

output_next == sei_output_next /\ UNCHANGED cpuvars

RNext ==
  \/ prepare \/ prepare_sdc \/ begin
  \/ run_handler \/ schedule
  \/ switch \/ switch_exit
  \/ commit \/ commit_exit \/ retry
  \/ sigsegv \/ sigsegv_killed
  \/ output_next

RSpec == RInit /\ [][RNext]_rvars

\* The thread is scheduled, so the handler and the library make progress; no
\* fairness is assumed of faults and of the choice of more operations.
Progress == replay_step /\ UNCHANGED cpuvars
Decide == switch \/ switch_exit \/ commit \/ commit_exit \/ retry

FairRSpec == RSpec /\ WF_rvars(Progress) /\ WF_rvars(Decide)

-----------------------------------------------------------------------------
\* A thread never runs, and may never be scheduled, on a blacklisted core:
\* recovery pins it elsewhere and cpu_isolation_restore_affinity does not
\* bring the core back.
HealthyCores ==
  status = "run" => core \in affinity /\ affinity \cap blacklist = {}

\* Every attempt of a transaction starts with the heap of its first one: a
\* rollback neither leaks an object nor frees one twice, and drops the delayed
\* frees.
HeapAtStart ==
  Running /\ k = 0 /\ p = 0 => heap = start.heap /\ tbin[0] = <<>>

Operations(op) == {i \in DOMAIN script : script[i].op = op}

\* What a transaction sends and frees is what its last attempt asked for,
\* once, however many attempts there were.
EffectsOnce ==
  [][Committing =>
       /\ \E s \in [1 .. Cardinality(Operations("send")) -> Operations("send")] :
            /\ \A i, j \in DOMAIN s : i < j => s[i] < s[j]
            /\ sent' = sent \o [i \in DOMAIN s |-> script[s[i]].call]
       /\ heap' = heap \ {script[i].ptr : i \in Operations("free")}]_rvars

\* README.rst says "The process terminates only when all available cores have
\* been blacklisted".  There are exactly three more reasons to exit: a second SIGSEGV, core migration with a single core left,
\* or different numbers of allocations.  What sei_try_commit accepts is not
\* refused by the flushes of sei_commit any more.
ExitReasons ==
  status = "exit" =>
    \/ blacklist = Cores
    \/ segv_blocked
    \/ migrating /\ available_excluding(blacklist, core) = {}
    \/ ~talloc_agree(talloc, level)

\* Every transaction ends, however many faults hit it: each retry costs a core.
Termination == p >= 0 ~> (p = -1 \/ status = "exit")

\* No address is logged twice.
DistinctAddrs(q) ==
  \A i, j \in 0 .. pushed[q] - 1 : i # j => buf[q][i].addr # buf[q][j].addr

\* Where phase 0 writes no address twice, sei_try_commit lets only transactions
\* of level 2 commit whose phases agree on all of memory.
DistinctAgreement ==
  [][Committing /\ level = 2 /\ DistinctAddrs(0) => res[0] = mem]_rvars

RolledBack == p >= 0 /\ blacklist' # blacklist /\ status' = "run"

\* sei_rollback in phase 0, where cow[0] still holds old values, restores
\* memory if no address was written twice and no pointer to a new object is
\* around.
PhaseZeroRollback ==
  [][RolledBack /\ p = 0 /\ DistinctAddrs(0) /\ talloc_objects(talloc) = {}
       => mem' = start.mem]_rvars

-----------------------------------------------------------------------------
\* "Restore memory from COW buffer (abuf[0] contains old values)"
\* (mode_cow.c): a rollback gives back the memory of __sei_begin.
RollbackRestores ==
  [][RolledBack => \A x \in Cell \ talloc_objects(talloc) : mem'[x] = old[x]]_rvars

\* abuf_restore_filtered clears pointers to objects that talloc_rollback frees:
\* a rollback leaves no pointer to a freed object that was not there before.
NoNewDangling ==
  [][RolledBack => \A x \in Global :
       mem'[x] \in Heap => mem'[x] \in heap' \/ mem'[x] = old[x]]_rvars
=============================================================================
