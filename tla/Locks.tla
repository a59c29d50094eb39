-------------------------------- MODULE Locks -------------------------------
(***************************************************************************)
(* Threads whose handlers use mutexes: the wrappers pthread_mutex_lock,    *)
(* _trylock and _unlock of src/src/tmi.c in the build SEI_MT, SEI_2PL, and *)
(* the part of __sei_begin, __sei_commit and the SIGSEGV handler that acts *)
(* on the log __sei_thread->abuf of lock results.                          *)
(*                                                                         *)
(* Phase 0 takes the locks and logs the results; later phases read the     *)
(* log.  Unlocking in a handler does nothing: the locks are released after *)
(* the commit (two-phase locking).  As in module Sei the handler of phase  *)
(* 0 is arbitrary and later phases perform the same operations, unless a   *)
(* fault hits them.  Handlers respect the lock hierarchy that README.rst   *)
(* asks for: they lock above all they hold.                                *)
(***************************************************************************)
EXTENDS Integers, Sequences, FiniteSets

CONSTANTS
  Thread,
  Lock,      \* mutexes, numbered by the lock hierarchy
  Level,     \* the redundancy level N
  ROLLBACK,  \* TRUE in the build with SEI_CPU_ISOLATION
  Kinds,     \* bounds, for each thread: kinds and number of the operations of
  MaxOps,    \*   a handler
  MaxLog,    \* bound: entries of the log (the code reallocates it)
  MaxFaults, \* bound: faults in a behaviour
  MaxTx      \* bound: transactions and other critical sections of a thread

ASSUME LocksConstants ==
  /\ Lock \subseteq Nat \ {0} /\ 0 \notin Thread
  /\ Level \in Nat /\ Level >= 2
  /\ ROLLBACK \in BOOLEAN
  /\ MaxLog \in Nat /\ MaxFaults \in Nat /\ MaxTx \in Nat

\* A phase pops at most one entry for each operation.
ASSUME HandlerBounds ==
  /\ MaxOps \in [Thread -> 0 .. MaxLog]
  /\ Kinds \in [Thread -> SUBSET {"lock", "trylock", "unlock"}]

VARIABLES
  owner,   \* the thread that holds a mutex, or Free
  p,       \* sei->p of every thread
  late,    \* is the thread in the loop of __sei_commit that unlocks?
  log,     \* the array of __sei_thread->abuf, and its two counters
  pushed, poped,
  script,  \* the operations of phase 0 and their results
  want,    \* the mutex that the thread waits for in phase 0, or 0
  k,       \* how many of them the current phase has got through
  same,    \* history: the results of the phase are those of phase 0
  faults, ntx,
  status   \* "run", or "exit" after fail_ifn

vars == <<owner, p, late, log, pushed, poped, script, want, k, same,
          faults, ntx, status>>
logvars == <<log, pushed>>
handlervars == <<script, want, k, same>>

Free == 0
Result == {"0", "EBUSY"}
Op == [op : {"lock", "trylock", "unlock"}, lock : Lock]

Init ==
  /\ owner = [l \in Lock |-> Free]
  /\ p = [t \in Thread |-> -1]
  /\ late = [t \in Thread |-> FALSE]
  /\ log = [t \in Thread |->
              [i \in 0 .. MaxLog - 1 |-> [addr |-> 0, wvalue |-> "0"]]]
  /\ pushed = [t \in Thread |-> 0] /\ poped = [t \in Thread |-> 0]
  /\ script = [t \in Thread |-> <<>>]
  /\ want = [t \in Thread |-> 0] /\ k = [t \in Thread |-> 0]
  /\ same = [t \in Thread |-> TRUE]
  /\ faults = MaxFaults /\ ntx = [t \in Thread |-> 0]
  /\ status = "run"

Idle(t) == status = "run" /\ p[t] = -1 /\ ~late[t]
Running(t) == status = "run" /\ p[t] >= 0

\* pthread_mutex_lock and _unlock of a thread that is not in a transaction.
Outside(t) == {l \in Lock : owner[l] = t}

lock_outside(t) ==
  /\ Idle(t) /\ ntx[t] < MaxTx
  /\ Outside(t) = {}
  /\ \E l \in Lock : owner[l] = Free /\ owner' = [owner EXCEPT ![l] = t]
  /\ ntx' = [ntx EXCEPT ![t] = @ + 1]
  /\ UNCHANGED <<p, late, logvars, poped, handlervars, faults, status>>

unlock_outside(t) ==
  /\ Idle(t)
  /\ \E l \in Outside(t) : owner' = [owner EXCEPT ![l] = Free]
  /\ UNCHANGED <<p, late, logvars, poped, handlervars, faults, ntx, status>>

\* __sei_begin; the application holds no lock when it starts a handler.
begin(t) ==
  /\ Idle(t) /\ ntx[t] < MaxTx /\ Outside(t) = {}
  /\ p' = [p EXCEPT ![t] = 0]
  /\ ntx' = [ntx EXCEPT ![t] = @ + 1]
  /\ UNCHANGED <<owner, late, logvars, poped, handlervars, faults, status>>

-----------------------------------------------------------------------------
abuf_push(t, l, r) ==
  /\ log' = [log EXCEPT ![t][pushed[t]] = [addr |-> l, wvalue |-> r]]
  /\ pushed' = [pushed EXCEPT ![t] = @ + 1]

\* The handler goes on after operation o of phase 0 has returned r.
returned(t, o, r) ==
  /\ script' = [script EXCEPT ![t] =
                  Append(@, [op |-> o.op, lock |-> o.lock, r |-> r])]
  /\ k' = [k EXCEPT ![t] = @ + 1]

\* The locks that the handler holds as it believes.
Holds(t) ==
  {l \in Lock : \E i \in 1 .. Len(script[t]) :
     /\ script[t][i].op # "unlock" /\ script[t][i].lock = l
     /\ script[t][i].r = "0"
     /\ \A j \in i + 1 .. Len(script[t]) :
          ~(script[t][j].op = "unlock" /\ script[t][j].lock = l)}

\* The lock hierarchy: a mutex is unlocked by its holder, and acquired only
\* above those that the handler still holds.
Legal(t, o) ==
  IF o.op = "unlock" THEN o.lock \in Holds(t)
  ELSE \A l \in Holds(t) : l < o.lock

\* Within the bounds, the handler may call o next.
MayCall(t, o) ==
  o.op \in Kinds[t] /\ Len(script[t]) < MaxOps[t] /\ Legal(t, o)

InHandler(t) == Running(t) /\ want[t] = 0

\* pthread_mutex_lock in phase 0: the call, and the return with the mutex.
lock_call(t) ==
  /\ InHandler(t) /\ p[t] = 0 /\ pushed[t] < MaxLog
  /\ \E o \in Op : o.op = "lock" /\ MayCall(t, o)
                   /\ want' = [want EXCEPT ![t] = o.lock]
  /\ UNCHANGED <<owner, p, late, logvars, poped, script, k, same, faults, ntx,
                 status>>

lock_return(t) ==
  /\ Running(t) /\ want[t] # 0
  /\ owner[want[t]] = Free
  /\ owner' = [owner EXCEPT ![want[t]] = t]
  /\ abuf_push(t, want[t], "0")
  /\ returned(t, [op |-> "lock", lock |-> want[t]], "0")
  /\ want' = [want EXCEPT ![t] = 0]
  /\ UNCHANGED <<p, late, poped, same, faults, ntx, status>>

\* pthread_mutex_trylock and _unlock in phase 0.
trylock(t) ==
  /\ InHandler(t) /\ p[t] = 0 /\ pushed[t] < MaxLog
  /\ \E o \in Op :
       LET r == IF owner[o.lock] = Free THEN "0" ELSE "EBUSY"
       IN  /\ o.op = "trylock" /\ MayCall(t, o)
           /\ owner' = IF r = "0" THEN [owner EXCEPT ![o.lock] = t] ELSE owner
           /\ abuf_push(t, o.lock, r)
           /\ returned(t, o, r)
  /\ UNCHANGED <<p, late, poped, want, same, faults, ntx, status>>

\* pthread_mutex_unlock without two-phase locking.
unlock_now(t) ==
  /\ InHandler(t) /\ p[t] = 0
  /\ \E o \in Op :
       /\ o.op = "unlock" /\ MayCall(t, o) /\ returned(t, o, "0")
       /\ owner' = [owner EXCEPT ![o.lock] = Free]
  /\ UNCHANGED <<p, late, logvars, poped, want, same, faults, ntx, status>>

unlock(t) ==
  /\ InHandler(t) /\ p[t] = 0
  /\ \E o \in Op : o.op = "unlock" /\ MayCall(t, o) /\ returned(t, o, "0")
  /\ UNCHANGED <<owner, p, late, logvars, poped, want, same, faults, ntx, status>>

\* The operations of a later phase: abuf_pop_uint64_t returns the next result,
\* and the process exits if it is the result of another lock.  In the release
\* build nothing stops it from reading beyond what was pushed.
pop_fails(t, o) == o.op # "unlock" /\ log[t][poped[t]].addr # o.lock

popped(t, o) == IF o.op = "unlock" THEN "0" ELSE log[t][poped[t]].wvalue

replay(t, o) ==
  /\ poped' = [poped EXCEPT ![t] = IF o.op = "unlock" THEN @ ELSE @ + 1]
  /\ status' = IF pop_fails(t, o) THEN "exit" ELSE "run"
  /\ UNCHANGED <<owner, p, late, logvars, script, want, ntx>>

replay_step(t) ==
  /\ Running(t) /\ p[t] > 0 /\ k[t] < Len(script[t])
  /\ LET o == script[t][k[t] + 1]
     IN  /\ replay(t, o)
         /\ same' = [same EXCEPT ![t] =
                       @ /\ ~pop_fails(t, o) /\ popped(t, o) = o.r]
  /\ k' = [k EXCEPT ![t] = @ + 1]
  /\ UNCHANGED faults

\* A fault in a later phase: an operation is skipped, or done on another lock.
replay_fault(t) ==
  /\ Running(t) /\ p[t] > 0 /\ k[t] < Len(script[t]) /\ faults > 0
  /\ \/ UNCHANGED <<owner, p, late, logvars, poped, script, want, ntx, status>>
     \/ \E o \in Op : replay(t, o)
  /\ same' = [same EXCEPT ![t] = FALSE]
  /\ faults' = faults - 1
  /\ k' = [k EXCEPT ![t] = @ + 1]

-----------------------------------------------------------------------------
PhaseDone(t) == InHandler(t) /\ (p[t] = 0 \/ k[t] = Len(script[t]))

\* The phase switch without abuf_rewind, and with an off-by-one in its guard.
switch_unwound(t) ==
  /\ PhaseDone(t) /\ p[t] < Level - 1
  /\ p' = [p EXCEPT ![t] = @ + 1]
  /\ k' = [k EXCEPT ![t] = 0]
  /\ UNCHANGED <<owner, late, logvars, poped, script, want, same, faults, ntx,
                 status>>

\* __sei_commit before the last phase: abuf_rewind, and the next phase starts.
switch(t) ==
  /\ PhaseDone(t) /\ p[t] < Level - 1
  /\ p' = [p EXCEPT ![t] = @ + 1]
  /\ poped' = [poped EXCEPT ![t] = 0]
  /\ k' = [k EXCEPT ![t] = 0]
  /\ UNCHANGED <<owner, late, logvars, script, want, same, faults, ntx, status>>

\* The commit without abuf_rewind.
commit_unwound(t) ==
  /\ PhaseDone(t) /\ p[t] = Level - 1
  /\ p' = [p EXCEPT ![t] = -1]
  /\ late' = [late EXCEPT ![t] = TRUE]
  /\ script' = [script EXCEPT ![t] = <<>>] /\ k' = [k EXCEPT ![t] = 0]
  /\ same' = [same EXCEPT ![t] = TRUE]
  /\ UNCHANGED <<owner, logvars, poped, want, faults, ntx, status>>

\* __sei_commit after the last phase: the transaction commits, then the log is
\* rewound and every lock that was acquired is unlocked.
commit(t) ==
  /\ PhaseDone(t) /\ p[t] = Level - 1
  /\ p' = [p EXCEPT ![t] = -1]
  /\ late' = [late EXCEPT ![t] = TRUE]
  /\ poped' = [poped EXCEPT ![t] = 0]
  /\ script' = [script EXCEPT ![t] = <<>>] /\ k' = [k EXCEPT ![t] = 0]
  /\ same' = [same EXCEPT ![t] = TRUE]
  /\ UNCHANGED <<owner, logvars, want, faults, ntx, status>>

\* The loop that pops only the entries it unlocks, and goes round at the others.
late_unlock_stuck(t) ==
  /\ status = "run" /\ late[t] /\ poped[t] < pushed[t]
  /\ LET e == log[t][poped[t]]
     IN  /\ e.wvalue = "0"
         /\ owner' = [owner EXCEPT ![e.addr] = Free]
  /\ poped' = [poped EXCEPT ![t] = @ + 1]
  /\ UNCHANGED <<p, late, logvars, handlervars, faults, ntx, status>>

late_unlock(t) ==
  /\ status = "run" /\ late[t] /\ poped[t] < pushed[t]
  /\ LET e == log[t][poped[t]]
     IN  owner' = IF e.wvalue = "0" THEN [owner EXCEPT ![e.addr] = Free]
                  ELSE owner
  /\ poped' = [poped EXCEPT ![t] = @ + 1]
  /\ UNCHANGED <<p, late, logvars, handlervars, faults, ntx, status>>

\* abuf_clean.
commit_end(t) ==
  /\ status = "run" /\ late[t] /\ poped[t] >= pushed[t]
  /\ late' = [late EXCEPT ![t] = FALSE]
  /\ pushed' = [pushed EXCEPT ![t] = 0] /\ poped' = [poped EXCEPT ![t] = 0]
  /\ UNCHANGED <<owner, p, log, handlervars, faults, ntx, status>>

\* A fault has been detected: without ROLLBACK the process exits; with it the
\* handler starts again.  The retry loop cleans the log, the SIGSEGV handler
\* does not; neither unlocks.
detected(t) ==
  /\ PhaseDone(t) /\ p[t] = Level - 1 /\ faults > 0
  /\ faults' = faults - 1
  /\ IF ROLLBACK
       THEN /\ p' = [p EXCEPT ![t] = 0]
            /\ pushed' = [pushed EXCEPT ![t] = 0]
            /\ poped' = [poped EXCEPT ![t] = 0]
            /\ script' = [script EXCEPT ![t] = <<>>] /\ k' = [k EXCEPT ![t] = 0]
            /\ same' = [same EXCEPT ![t] = TRUE]
            /\ UNCHANGED status
       ELSE status' = "exit" /\ UNCHANGED <<p, pushed, poped, script, k, same>>
  /\ UNCHANGED <<owner, late, log, want, ntx>>

sigsegv(t) ==
  /\ ROLLBACK
  /\ InHandler(t) /\ faults > 0
  /\ faults' = faults - 1
  /\ p' = [p EXCEPT ![t] = 0]
  /\ script' = [script EXCEPT ![t] = <<>>] /\ k' = [k EXCEPT ![t] = 0]
  /\ same' = [same EXCEPT ![t] = TRUE]
  /\ UNCHANGED <<owner, late, logvars, poped, want, ntx, status>>

\* All threads have finished, or the process has exited.
Done ==
  /\ status = "exit"
       \/ \A t \in Thread : Idle(t) /\ ntx[t] = MaxTx /\ Outside(t) = {}
  /\ UNCHANGED vars

Next ==
  \/ \E t \in Thread :
       \/ lock_outside(t) \/ unlock_outside(t)
       \/ begin(t) \/ switch(t) \/ commit(t) \/ late_unlock(t) \/ commit_end(t)
       \/ lock_call(t) \/ lock_return(t) \/ trylock(t) \/ unlock(t)
       \/ replay_step(t) \/ replay_fault(t)
       \/ detected(t) \/ sigsegv(t)
  \/ Done

Spec == Init /\ [][Next]_vars

\* Threads are scheduled and handlers return; a mutex that remains free is
\* taken by a thread that waits for it.  Nothing else is assumed.
Advance(t) ==
  \/ unlock_outside(t) \/ lock_return(t) \/ replay_step(t)
  \/ switch(t) \/ commit(t) \/ late_unlock(t) \/ commit_end(t)

FairSpec == Spec /\ \A t \in Thread : WF_vars(Advance(t))

-----------------------------------------------------------------------------
\* The type invariant of the mutexes, the logs and the handlers.
TypeOK ==
  /\ owner \in [Lock -> Thread \cup {Free}]
  /\ p \in [Thread -> -1 .. Level - 1] /\ late \in [Thread -> BOOLEAN]
  /\ log \in [Thread -> [0 .. MaxLog - 1 ->
                          [addr : Lock \cup {0}, wvalue : Result]]]
  /\ pushed \in [Thread -> 0 .. MaxLog] /\ poped \in [Thread -> Nat]
  /\ script \in [Thread -> Seq([op : {"lock", "trylock", "unlock"},
                                lock : Lock, r : Result])]
  /\ want \in [Thread -> Lock \cup {0}] /\ k \in [Thread -> Nat]
  /\ same \in [Thread -> BOOLEAN]
  /\ faults \in 0 .. MaxFaults /\ ntx \in [Thread -> 0 .. MaxTx]
  /\ status \in {"run", "exit"}

\* Two-phase locking: every lock that a handler acquired belongs to its thread
\* until __sei_commit has unlocked it, in all phases and although the handler
\* has called pthread_mutex_unlock.  No other thread sees what is not yet
\* verified.
HeldUntilCommit ==
  \A t \in Thread : \A i \in 0 .. pushed[t] - 1 :
    log[t][i].wvalue = "0" /\ (late[t] => i >= poped[t])
      => owner[log[t][i].addr] = t

\* Later phases are given the results that phase 0 was given, whatever other
\* threads have done to the mutexes meanwhile, and the log never makes a phase
\* without a fault exit.
ReplaysPhaseZero == faults = MaxFaults => (\A t \in Thread : same[t]) /\ status = "run"

\* No handler has been retried: the build has no ROLLBACK, or no fault has
\* happened yet.
NoRetry == ROLLBACK => faults = MaxFaults

\* When __sei_commit returns, the thread has released all its locks, unless a
\* handler was retried (a retry forgets the locks of the first attempt).
AllReleased ==
  [][\A t \in Thread : NoRetry /\ late[t] /\ ~late'[t] =>
       \A l \in Lock : owner'[l] # t]_vars

\* The hierarchy of README.rst:61-64 is respected (Legal), so that every
\* transaction should end: no thread waits forever in pthread_mutex_lock.
TransactionsEnd ==
  \A t \in Thread : p[t] = 0 ~> (Idle(t) \/ status = "exit")

\* The locks that the handler has acquired, unlocked since or not.
Taken(t) ==
  {script[t][i].lock : i \in {j \in 1 .. Len(script[t]) :
     script[t][j].op # "unlock" /\ script[t][j].r = "0"}}

\* What two-phase locking asks for beyond the hierarchy: a handler waits only
\* for a lock above all that it has acquired, unlocked since or not.
InOrder ==
  \A t \in Thread : want[t] # 0 => \A l \in Taken(t) : l < want[t]

\* If handlers do, and none is retried, every transaction ends, although
\* pthread_mutex_unlock is delayed to the commit.
OrderedEnd == [](NoRetry /\ InOrder) => TransactionsEnd

\* The same with retries.  It fails: __sei_commit forgets the locks that the
\* first attempt has taken, and the retry waits for them.
RetriesEnd == []InOrder => TransactionsEnd
=============================================================================
