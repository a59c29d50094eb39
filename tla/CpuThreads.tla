----------------------------- MODULE CpuThreads -----------------------------
(***************************************************************************)
(* Several threads that share cpu_isolation_state in the ROLLBACK build:   *)
(* the checksum loop of ibuf_prepare (src/src/ibuf.c), with and without    *)
(* SEI_CRC_MIGRATE_CORES, and the recovery of __sei_commit (src/src/tmi.c) *)
(* as seen by the cores.  Every region under cpu_isolation_state.lock is a *)
(* step; sched_getcpu and pthread_setaffinity_np outside it are steps of   *)
(* their own.  SeiRollback has what a single thread does to memory.        *)
(*                                                                         *)
(* Faults come from faulty cores: a computation there may go wrong, and is *)
(* then noticed by the comparison of the phases or of the checksums.       *)
(***************************************************************************)
EXTENDS CpuIsolation

CONSTANTS
  Thread,
  Receiver,  \* the threads that have input messages to verify
  Allowed,   \* the cores the system lets the process use: an affinity to
             \* others fails
  FaultyCores,  \* the sets of cores that may be faulty
  MaxTx,     \* bound: transactions of a thread
  MaxMoves   \* bound: moves by the scheduler

ASSUME CpuConstants ==
  /\ num_cores \in Nat \ {0}
  /\ Allowed \subseteq Cores
  /\ FaultyCores \subseteq SUBSET Cores

VARIABLES
  cross,       \* SEI_CRC_MIGRATE_CORES is defined
  bad,         \* the faulty cores
  blacklist, num_blacklisted, rr_cursor,  \* cpu_isolation_state
  th,          \* the threads: where they are, and their thread-local variables
  status,      \* "run", or "exit"
  last,        \* history: the core that get_next_available returned last
  moves        \* the moves by the scheduler so far

state == <<blacklist, num_blacklisted, rr_cursor>>
cvars == <<cross, bad, state, th, status, last, moves>>

Outside(c) ==
  [pc |-> "idle",
   core |-> c, affinity |-> Allowed,
   saved_affinity |-> {},   \* {} unless affinity_saved
   phase0_core |-> -1,      \* also crc_phase0_core
   exclude |-> -1,          \* phase0_core of ibuf_correct_on_entry_safe
   current_core |-> -1,
   mask |-> {},
   core_migration |-> FALSE,
   again |-> "idle",        \* where the thread goes on after it has migrated
   ntx |-> 0,
   used |-> {},             \* history: the cores that computed in this attempt,
   wrong |-> {},            \* those that computed wrongly, whether the scheduler
   moved |-> FALSE,         \* has moved the thread, and the recoveries so far,
   tries |-> 0]             \* up to num_cores + 1

CpuInit ==
  /\ cross \in BOOLEAN
  /\ bad \in FaultyCores
  /\ blacklist = {} /\ num_blacklisted = 0 /\ rr_cursor = 0
  /\ \E c \in Allowed : th = [t \in Thread |-> Outside(c)]
  /\ status = "run" /\ last = -1 /\ moves = 0

\* A thread with its locals reset where they are dead.
Fresh(me) ==
  [me EXCEPT !.phase0_core = -1, !.exclude = -1, !.current_core = -1,
             !.mask = {}, !.again = "idle", !.used = {}, !.wrong = {},
             !.moved = FALSE]

At(t, pc) == status = "run" /\ th[t].pc = pc

Exits ==
  /\ status' = "exit"
  /\ UNCHANGED <<cross, bad, state, th, last, moves>>

-----------------------------------------------------------------------------
\* __sei_prepare and its variants, with a message to verify or without.
prepare(t) ==
  /\ At(t, "idle") /\ th[t].ntx < MaxTx
  /\ \E pc \in {"phase0"} \cup (IF t \in Receiver THEN {"crc"} ELSE {}),
        migration \in BOOLEAN :
       th' = [th EXCEPT ![t].pc = pc, ![t].core_migration = migration,
                        ![t].ntx = @ + 1, ![t].tries = 0]
  /\ UNCHANGED <<cross, bad, state, status, last, moves>>

Computing(t) ==
  th[t].pc \in {"crc0", "crc1", "phase0", "phase1"} \cup (IF cross THEN {} ELSE {"crc"})

Used(t) == th[t].used \cup {th[t].core}

\* The scheduler moves a thread.  Where its core is not read any more, a move
\* makes no difference.
schedule(t) ==
  /\ status = "run" /\ moves < MaxMoves
  /\ Computing(t) \/ th[t].pc \in {"crc", "crc_core", "sdc"}
  /\ \E c \in th[t].affinity \ {th[t].core} :
       th' = [th EXCEPT ![t].core = c, ![t].moved = TRUE,
                        ![t].used = IF Computing(t) THEN Used(t) ELSE @]
  /\ moves' = moves + 1
  /\ UNCHANGED <<cross, bad, state, status, last>>

-----------------------------------------------------------------------------
\* cpu_isolation_blacklist_core that does not look whether the core is
\* blacklisted already.
blacklist_core_recount(c) ==
  \/ /\ c \notin Cores
     /\ UNCHANGED <<blacklist, num_blacklisted>>
  \/ /\ c \in Cores
     /\ blacklist' = blacklist \cup {c}
     /\ num_blacklisted' = num_blacklisted + 1

\* cpu_isolation_blacklist_core, and the locked part of _blacklist_current.
blacklist_core(c) ==
  \/ /\ c \notin Cores \/ c \in blacklist
     /\ UNCHANGED <<blacklist, num_blacklisted>>
  \/ /\ c \in Cores \ blacklist
     /\ blacklist' = blacklist \cup {c}
     /\ num_blacklisted' = num_blacklisted + 1

\* The thread me is pinned to core c.
Pinned(me, c) == [me EXCEPT !.core = c, !.affinity = {c}, !.again = "idle"]

\* A migration that leaves the cursor where it is.
migrate_current_thread_stay(t, me) ==
  LET new_core == get_next_available(blacklist, rr_cursor)
  IN  /\ num_blacklisted < num_cores
      /\ th' = [th EXCEPT ![t] = Pinned([me EXCEPT !.pc = me.again], new_core)]
      /\ last' = new_core
      /\ UNCHANGED <<cross, bad, state, status, moves>>

\* cpu_isolation_migrate_current_thread; me is the thread when it goes on.
migrate_current_thread(t, me) ==
  LET new_core == get_next_available(blacklist, rr_cursor)
  IN  \/ /\ num_blacklisted < num_cores => new_core \notin Allowed
         /\ Exits
      \/ /\ num_blacklisted < num_cores /\ new_core \in Allowed
         /\ th' = [th EXCEPT ![t] = Pinned([me EXCEPT !.pc = me.again], new_core)]
         /\ rr_cursor' = next_cursor(new_core)
         /\ last' = new_core
         /\ UNCHANGED <<cross, bad, blacklist, num_blacklisted, status, moves>>

\* cpu_isolation_migrate_excluding_core.
migrate_excluding(t, c, me) ==
  LET available == available_excluding(blacklist, c)
      new_core == migrate_excluding_core(blacklist, c)
  IN  \/ /\ available # {} => new_core \notin Allowed
         /\ Exits
      \/ /\ available # {} /\ new_core \in Allowed
         /\ th' = [th EXCEPT ![t] = Pinned(me, new_core)]
         /\ UNCHANGED <<cross, bad, state, status, last, moves>>

-----------------------------------------------------------------------------
\* Thread t sets its locals, and nothing else changes.
Locals(t, me) ==
  /\ th' = [th EXCEPT ![t] = me]
  /\ UNCHANGED <<cross, bad, state, status, last, moves>>

\* The results differ, because faulty cores computed some of them: recovery
\* begins, and goes on at pc.
Suspect(t, pc) ==
  \E wrong \in SUBSET (Used(t) \cap bad) \ {{}} :
    Locals(t, [th[t] EXCEPT !.pc = "sdc", !.again = pc, !.wrong = wrong])

\* The comparison of the checksums: with each other, then with the one that
\* came with the message, which is dropped if they differ.
verified_crc(t) ==
  \/ Suspect(t, "crc")
  \/ \E pc \in {"phase0", "idle"} : Locals(t, Fresh([th[t] EXCEPT !.pc = pc]))

\* ibuf_prepare and ibuf_correct_on_entry_safe.  Without migration the checksum
\* is computed redundantly on one core.  With it, the core is read in both
\* functions before the first computation; the thread then moves to another
\* core for the second one, and stays there.
crc(t) ==
  /\ At(t, "crc")
  /\ \/ /\ cross
        /\ Locals(t, [th[t] EXCEPT !.pc = "crc_core", !.phase0_core = th[t].core])
     \/ ~cross /\ verified_crc(t)

crc_core(t) ==
  /\ At(t, "crc_core")
  /\ Locals(t, [th[t] EXCEPT !.pc = "crc0", !.exclude = th[t].core])

crc_migrate(t) ==
  /\ At(t, "crc0")
  /\ migrate_excluding(t, th[t].exclude,
       [th[t] EXCEPT !.pc = "crc1", !.exclude = -1, !.used = Used(t)])

crc_compare(t) == At(t, "crc1") /\ verified_crc(t)

\* The end of a phase; before phase 1, core migration moves the thread.
phase0(t) ==
  /\ At(t, "phase0")
  /\ \/ /\ th[t].core_migration
        /\ Locals(t, [th[t] EXCEPT !.pc = "switch", !.phase0_core = th[t].core,
                        !.used = Used(t),
                        !.saved_affinity = IF @ = {} THEN th[t].affinity ELSE @])
     \/ /\ ~th[t].core_migration
        /\ Locals(t, [th[t] EXCEPT !.pc = "phase1", !.used = Used(t)])

switch(t) ==
  /\ At(t, "switch")
  /\ migrate_excluding(t, th[t].phase0_core, [th[t] EXCEPT !.pc = "phase1"])

\* sei_try_commit.
phase1(t) ==
  /\ At(t, "phase1")
  /\ \/ Suspect(t, "phase0")
     \/ /\ th[t].saved_affinity # {}
        /\ Locals(t, Fresh([th[t] EXCEPT !.pc = "restore"]))
     \/ /\ th[t].saved_affinity = {}
        /\ Locals(t, Fresh([th[t] EXCEPT !.pc = "idle"]))

-----------------------------------------------------------------------------
\* Are both cores blacklisted, or the current one only?
BothCores(t) == IF th[t].again = "crc" THEN cross ELSE th[t].core_migration

\* A recovery that blacklists the current core only.
sdc_one(t) ==
  /\ At(t, "sdc")
  /\ Locals(t, [th[t] EXCEPT !.pc = "blacklist_current",
                             !.current_core = th[t].core])

\* The recovery of ibuf_prepare and of __sei_commit: current_core, or the
\* sched_getcpu of cpu_isolation_blacklist_current,
sdc(t) ==
  /\ At(t, "sdc")
  /\ Locals(t, [th[t] EXCEPT !.current_core = th[t].core,
                  !.pc = IF BothCores(t) THEN "blacklist_phase0"
                         ELSE "blacklist_current"])

\* the blacklisting,
blacklist_phase0(t) ==
  /\ At(t, "blacklist_phase0")
  /\ blacklist_core(th[t].phase0_core)
  /\ th' = [th EXCEPT ![t].pc = "blacklist_current"]
  /\ UNCHANGED <<cross, bad, rr_cursor, status, last, moves>>

blacklist_current(t) ==
  /\ At(t, "blacklist_current")
  /\ blacklist_core(th[t].current_core)
  /\ th' = [th EXCEPT ![t].pc = "migrate"]
  /\ UNCHANGED <<cross, bad, rr_cursor, status, last, moves>>

\* the migration, and the next attempt.
migrate(t) ==
  /\ At(t, "migrate")
  /\ migrate_current_thread(t,
       [Fresh(th[t]) EXCEPT !.again = th[t].again, !.tries = Lowest({@ + 1, num_cores + 1})])

\* A restore that is tried again until a core is left.
restore_again(t) ==
  LET mask == th[t].saved_affinity \ blacklist
  IN  /\ At(t, "restore")
      /\ Locals(t, [th[t] EXCEPT !.mask = mask,
                      !.pc = IF mask = {} THEN @ ELSE "setaffinity"])

\* The end of __sei_commit: cpu_isolation_apply_blacklist copies the blacklist
\* under the lock; the affinity is set after it.
restore(t) ==
  LET mask == th[t].saved_affinity \ blacklist
  IN  /\ At(t, "restore")
      /\ Locals(t, [th[t] EXCEPT !.mask = mask,
                      !.pc = IF mask = {} THEN "remigrate" ELSE "setaffinity"])

setaffinity(t) ==
  /\ At(t, "setaffinity")
  /\ \E c \in IF th[t].core \in th[t].mask THEN {th[t].core} ELSE th[t].mask :
       Locals(t, [Fresh(th[t]) EXCEPT !.pc = "idle", !.core = c,
                    !.affinity = th[t].mask, !.saved_affinity = {}])

remigrate(t) ==
  /\ At(t, "remigrate")
  /\ migrate_current_thread(t, [Fresh(th[t]) EXCEPT !.saved_affinity = {}])

Work(t) ==
  \/ crc(t) \/ crc_core(t) \/ crc_migrate(t) \/ crc_compare(t)
  \/ phase0(t) \/ switch(t) \/ phase1(t)
  \/ sdc(t) \/ blacklist_phase0(t) \/ blacklist_current(t) \/ migrate(t)
  \/ restore(t) \/ setaffinity(t) \/ remigrate(t)

CpuDone ==
  /\ status = "exit" \/ \A t \in Thread : th[t].pc = "idle" /\ th[t].ntx = MaxTx
  /\ UNCHANGED cvars

CpuNext ==
  \/ \E t \in Thread : prepare(t) \/ schedule(t) \/ Work(t)
  \/ CpuDone

\* A thread that has started a handler is scheduled and goes on.
CpuFairness == \A t \in Thread : WF_cvars(Work(t))

CpuSpec == CpuInit /\ [][CpuNext]_cvars /\ CpuFairness

-----------------------------------------------------------------------------
\* "The process terminates only when all available cores have been blacklisted"
\* (README.rst), also when threads blacklist cores at the same time: at most
\* the core is left that core migration has to exclude.
ExitOnlyWhenSpent ==
  status = "exit" => Cardinality(Cores \ blacklist) <= 1

\* "If SDC is detected, all involved cores are blacklisted" (README.rst): when
\* a thread migrates for a new attempt, the cores that computed wrongly in the
\* last one are blacklisted, unless the scheduler had moved the thread.
InvolvedCores ==
  \A t \in Thread :
    th[t].pc = "migrate" /\ ~th[t].moved => th[t].wrong \subseteq blacklist

\* Every recovery of a handler costs another core, whatever other threads
\* blacklist in between and however old the affinity that a thread restored:
\* a handler is tried no more often than there are cores.
RetriesBounded == \A t \in Thread : th[t].tries <= Cardinality(blacklist)

\* "Round-robin selection to avoid core hot-spotting" (cpu_isolation.c): two
\* recoveries in a row, of the same thread or of two, choose different cores
\* while there are two.
RoundRobin ==
  [][\A t \in Thread :
       /\ th[t].pc \in {"migrate", "remigrate"} /\ th'[t].pc # th[t].pc
       /\ Cores \ blacklist # {last}
       => th'[t].core # last]_cvars

\* Every handler ends, or the process exits, although faulty cores never recover.
HandlersEnd ==
  \A t \in Thread : th[t].pc # "idle" ~> th[t].pc = "idle" \/ status = "exit"

\* No thread is given a blacklisted core.  (It does not hold, see README.md.)
NoBlacklistedAffinity ==
  [][\A t \in Thread : th'[t].affinity # th[t].affinity
                         => th'[t].affinity \cap blacklist = {}]_cvars
=============================================================================
