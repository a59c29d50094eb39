-------------------------------- MODULE Tbar --------------------------------
(***************************************************************************)
(* The traversal barrier of src/src/tbar.c (build option SEI_TBAR, the     *)
(* default lock-free variant without TBAR_PTHREAD).                        *)
(*                                                                         *)
(* Every thread counts its traversals in one shared array: a count is odd  *)
(* while the thread is inside a traversal.  On leaving, a thread takes a   *)
(* snapshot of all counts, one atomic load at a time; tbar_check later     *)
(* says whether every traversal of the snapshot has ended, i.e. whether a  *)
(* grace period has passed since the thread left.  A thread is named by    *)
(* the index tbar->me that tbar_init gives it.                             *)
(***************************************************************************)
EXTENDS Integers

CONSTANTS
  MaxThreads,  \* SEI_MAX_THREADS, the length of every items array
  MaxCount,    \* bound: no count grows beyond it
  IntMax,      \* 2^31, the first value a C int cannot hold
  Uint64       \* 2^64, the modulus of the counters

ASSUME TbarConstants ==
  /\ MaxThreads \in Nat \ {0}
  /\ MaxCount \in Nat
  /\ IntMax \in Nat \ {0}
  /\ Uint64 \in Nat
  /\ MaxCount < Uint64
  /\ 2 * IntMax <= Uint64

Tid == 0 .. MaxThreads - 1

VARIABLES
  me,      \* global->me, the number of threads that called tbar_init
  count,   \* count[i] is global->items[i].count
  snap,    \* snap[t][i] is tbar->items[i].count of thread t
  mark,    \* mark[t] holds the i with tbar->items[i].mark = 1
  pc,      \* where thread t is inside tbar.c
  m,       \* the local m of tbar_leave
  i,       \* the loop variable of tbar_leave and tbar_check
  r,       \* the local r of tbar_check
  left,    \* history: the counts at the instant of t's last leave
  passed   \* history: threads whose tbar_check returned 1 since their leave

vars == <<me, count, snap, mark, pc, m, i, r, left, passed>>

Pcs == {"new", "idle", "leave_m", "leave_i", "check"}

Init ==
  /\ me = 0
  /\ count = [t \in Tid |-> 0]
  /\ snap = [t \in Tid |-> [j \in Tid |-> 0]]
  /\ mark = [t \in Tid |-> {}]
  /\ pc = [t \in Tid |-> "new"]
  /\ m = [t \in Tid |-> 0]
  /\ i = [t \in Tid |-> 0]
  /\ r = [t \in Tid |-> 1]
  /\ left = [t \in Tid |-> [j \in Tid |-> 0]]
  /\ passed = {}

InTraversal(t) == count[t] % 2 = 1

\* tbar->me = __sync_fetch_and_add(&global->me, 1): t is the next index.
tbar_init(t) ==
  /\ pc[t] = "new"
  /\ t = me
  /\ me' = me + 1
  /\ pc' = [pc EXCEPT ![t] = "idle"]
  /\ UNCHANGED <<count, snap, mark, m, i, r, left, passed>>

tbar_enter(t) ==
  /\ pc[t] = "idle"
  /\ ~InTraversal(t)
  /\ count[t] + 2 <= MaxCount
  /\ count' = [count EXCEPT ![t] = @ + 1]
  /\ UNCHANGED <<me, snap, mark, pc, m, i, r, left, passed>>

\* The atomic increment of tbar_leave; the traversal of t ends here.
tbar_leave(t) ==
  /\ pc[t] = "idle"
  /\ InTraversal(t)
  /\ count' = [count EXCEPT ![t] = @ + 1]
  /\ pc' = [pc EXCEPT ![t] = "leave_m"]
  /\ left' = [left EXCEPT ![t] = count']
  /\ passed' = passed \ {t}
  /\ UNCHANGED <<me, snap, mark, m, i, r>>

\* int m = global->me; // I'm feeling lucky
leave_read_me(t) ==
  /\ pc[t] = "leave_m"
  /\ m' = [m EXCEPT ![t] = me]
  /\ i' = [i EXCEPT ![t] = 0]
  /\ pc' = [pc EXCEPT ![t] = "leave_i"]
  /\ UNCHANGED <<me, count, snap, mark, r, left, passed>>

\* One iteration of the snapshot loop: load one count, reset its mark.
leave_snapshot(t) ==
  /\ pc[t] = "leave_i"
  /\ i[t] < m[t]
  /\ snap' = [snap EXCEPT ![t][i[t]] = count[i[t]]]
  /\ mark' = [mark EXCEPT ![t] = @ \ {i[t]}]
  /\ i' = [i EXCEPT ![t] = @ + 1]
  /\ UNCHANGED <<me, count, pc, m, r, left, passed>>

\* On return the locals die; dead locals keep their initial values.
leave_return(t) ==
  /\ pc[t] = "leave_i"
  /\ i[t] >= m[t]
  /\ pc' = [pc EXCEPT ![t] = "idle"]
  /\ m' = [m EXCEPT ![t] = 0]
  /\ i' = [i EXCEPT ![t] = 0]
  /\ UNCHANGED <<me, count, snap, mark, r, left, passed>>

tbar_check(t) ==
  /\ pc[t] = "idle"
  /\ r' = [r EXCEPT ![t] = 1]
  /\ i' = [i EXCEPT ![t] = 0]
  /\ pc' = [pc EXCEPT ![t] = "check"]
  /\ UNCHANGED <<me, count, snap, mark, m, left, passed>>

\* "int count = ...items[i].count" truncates to an int, and the comparison
\* with a uint64_t converts the int back by sign extension.
AsInt(c) ==
  LET low == c % (2 * IntMax)
  IN  IF low < IntMax THEN low ELSE low + (Uint64 - 2 * IntMax)

\* Ended with >= for >, and Ended without the test for an even count.
Ended_or_same(t, j) ==
  \/ j \in mark[t]
  \/ snap[t][j] % 2 = 0
  \/ AsInt(count[j]) >= snap[t][j]

Ended_if_moved(t, j) == j \in mark[t] \/ AsInt(count[j]) > snap[t][j]

\* tbar_check finds that the traversal entry j of the snapshot records, if it
\* records one, has ended.
Ended(t, j) ==
  \/ j \in mark[t]
  \/ snap[t][j] % 2 = 0
  \/ AsInt(count[j]) > snap[t][j]

\* One iteration of the loop of tbar_check (it rereads global->me).
check_item(t) ==
  /\ pc[t] = "check"
  /\ i[t] < me
  /\ IF Ended(t, i[t])
       THEN mark' = [mark EXCEPT ![t] = @ \union {i[t]}] /\ UNCHANGED r
       ELSE r' = [r EXCEPT ![t] = 0] /\ UNCHANGED mark
  /\ i' = [i EXCEPT ![t] = @ + 1]
  /\ UNCHANGED <<me, count, snap, pc, m, left, passed>>

check_return(t) ==
  /\ pc[t] = "check"
  /\ i[t] >= me
  /\ pc' = [pc EXCEPT ![t] = "idle"]
  /\ passed' = IF r[t] = 1 THEN passed \union {t} ELSE passed
  /\ i' = [i EXCEPT ![t] = 0]
  /\ r' = [r EXCEPT ![t] = 1]
  /\ UNCHANGED <<me, count, snap, mark, m, left>>

Step(t) ==
  \/ leave_read_me(t)
  \/ leave_snapshot(t)
  \/ leave_return(t)
  \/ check_item(t)
  \/ check_return(t)

Next ==
  \E t \in Tid :
    \/ tbar_init(t)
    \/ tbar_enter(t)
    \/ tbar_leave(t)
    \/ tbar_check(t)
    \/ Step(t)

Spec == Init /\ [][Next]_vars

(***************************************************************************)
(* Fairness: a thread inside tbar.c keeps running, a handler terminates    *)
(* (__sei_commit calls tbar_leave at its end), and a thread that waits for *)
(* the barrier polls __sei_bar again.                                      *)
(***************************************************************************)
Fairness ==
  \A t \in Tid : WF_vars(Step(t)) /\ SF_vars(tbar_leave(t))
                 /\ SF_vars(tbar_check(t))

FairSpec == Spec /\ Fairness

-----------------------------------------------------------------------------

\* The type invariant of the counters, the snapshots and the locals.
TypeOK ==
  /\ me \in 0 .. MaxThreads
  /\ count \in [Tid -> 0 .. MaxCount]
  /\ snap \in [Tid -> [Tid -> 0 .. MaxCount]]
  /\ mark \in [Tid -> SUBSET Tid]
  /\ pc \in [Tid -> Pcs]
  /\ m \in [Tid -> 0 .. MaxThreads]
  /\ i \in [Tid -> 0 .. MaxThreads]
  /\ r \in [Tid -> {0, 1}]
  /\ left \in [Tid -> [Tid -> 0 .. MaxCount]]
  /\ passed \subseteq Tid

\* The comments of tbar_check: an entry is marked when its count is even ("if
\* ok, mark and skip") or after "check for updates" saw the count move on.  A
\* mark is never reset before the next leave, so a wrong one is never noticed.
MarkedOnlyIfEnded ==
  \A t, j \in Tid :
    j \in mark[t] => snap[t][j] % 2 = 0 \/ count[j] > snap[t][j]

\* The grace period of tbar_leave/tbar_check: once tbar_check has returned 1
\* to t, every traversal that was running when t left has ended, although the
\* snapshot was taken later, count by count, with other threads entering,
\* leaving and joining meanwhile.
GracePeriod ==
  \A t, j \in Tid :
    (t \in passed /\ left[t][j] % 2 = 1) => count[j] > left[t][j]

\* A thread that keeps polling tbar_check after leaving is released.
Released ==
  \A t \in Tid : (pc[t] = "leave_m") ~> (t \in passed)
=============================================================================
