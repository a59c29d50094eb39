------------------------- MODULE LocksReleaseProofs -------------------------
(***************************************************************************)
(* A commit of Locks releases every lock unless a handler was retried,     *)
(* from the inductive invariant of LocksProofs.                            *)
(***************************************************************************)
EXTENDS LocksProofs

\* A lock of a thread in a transaction is accounted for by the log.
Logged(t, l) ==
  \E i \in 0 .. MaxLog - 1 : Pending(t, i) /\ log[t][i].addr = l

Accounted ==
  \A t \in Thread, l \in Lock :
    owner[l] = t => (p[t] < 0 /\ ~late[t]) \/ Logged(t, l)

\* A step keeps it if a thread gets locks only by logging them, and loses the
\* entries of no lock that it keeps.
LEMMA AccountedStep ==
  ASSUME IInv, Accounted, NEW t \in Thread, Others(t),
         \A q \in Thread \ {t}, l \in Lock : owner'[l] = q => owner[l] = q,
         \A l \in Lock : owner'[l] = t =>
           (p'[t] < 0 /\ ~late'[t]) \/ Logged(t, l)'
  PROVE  Accounted'
<1> SUFFICES ASSUME NEW q \in Thread \ {t}, NEW l \in Lock, owner'[l] = q
             PROVE  (p'[q] < 0 /\ ~late'[q]) \/ Logged(q, l)'
  BY DEF Accounted
<1>1. (p[q] < 0 /\ ~late[q]) \/ Logged(q, l)
  BY DEF Accounted
<1>2. /\ p'[q] = p[q] /\ late'[q] = late[q] /\ log'[q] = log[q]
      /\ pushed'[q] = pushed[q] /\ poped'[q] = poped[q]
  BY DEF Others
<1> QED
  BY <1>1, <1>2 DEF Logged, Pending, Acquired

LEMMA AccountedPush ==
  ASSUME IInv, Accounted, NEW t \in Thread, NEW l \in Lock, NEW r \in Result,
         p[t] = 0, pushed[t] < MaxLog,
         owner' = IF r = "0" THEN [owner EXCEPT ![l] = t] ELSE owner,
         abuf_push(t, l, r),
         UNCHANGED <<p, late, poped>>,
         want' = want \/ want' = [want EXCEPT ![t] = 0]
  PROVE  Accounted'
<1> USE LocksConstants
<1>1. Types /\ Stages(t)
  BY DEF IInv
<1>2. pushed[t] \in 0 .. MaxLog - 1 /\ pushed[t] \in Nat /\ ~late[t]
  BY <1>1 DEF Types, Stages
<1>3. /\ log'[t] = [log[t] EXCEPT ![pushed[t]] = [addr |-> l, wvalue |-> r]]
      /\ pushed'[t] = pushed[t] + 1
  BY <1>1 DEF abuf_push, Types
<1>4. Others(t)
  BY <1>1 DEF Others, Types, abuf_push
<1>5. \A q \in Thread \ {t}, m \in Lock : owner'[m] = q => owner[m] = q
  BY <1>1 DEF Types
<1>6. ASSUME NEW m \in Lock, owner'[m] = t PROVE Logged(t, m)'
  <2>1. CASE r = "0" /\ m = l
    <3>1. log'[t][pushed[t]].addr = l /\ log'[t][pushed[t]].wvalue = "0"
      BY <1>1, <1>2, <1>3, <2>1 DEF Types
    <3>2. pushed[t] \in 0 .. pushed'[t] - 1
      BY <1>2, <1>3
    <3> QED
      BY <1>2, <2>1, <3>1, <3>2 DEF Logged, Pending, Acquired
  <2>2. CASE ~(r = "0" /\ m = l)
    <3>1. owner[m] = t
      BY <1>1, <1>6, <2>2 DEF Types
    <3>2. PICK i \in 0 .. MaxLog - 1 : Pending(t, i) /\ log[t][i].addr = m
      BY <3>1 DEF Accounted, Logged
    <3>3. log'[t][i] = log[t][i] /\ i \in 0 .. pushed'[t] - 1
      BY <1>1, <1>2, <1>3, <3>2, SMTT(30) DEF Types, Pending, Acquired
    <3> QED
      BY <1>2, <3>2, <3>3 DEF Logged, Pending, Acquired
  <2> QED
    BY <2>1, <2>2
<1> QED
  BY <1>4, <1>5, <1>6, AccountedStep

\* A retry costs a fault, and faults never come back.
FaultsBound == faults \in 0 .. MaxFaults

LEMMA NextFaultsBound ==
  ASSUME FaultsBound, [Next]_vars PROVE FaultsBound' /\ (NoRetry' => NoRetry)
<1> USE LocksConstants
<1>1. faults' = faults \/ (faults > 0 /\ faults' = faults - 1)
  <2>1. CASE UNCHANGED vars
    BY <2>1 DEF vars
  <2>2. CASE Next
    BY <2>2 DEF Next, lock_outside, unlock_outside, begin, switch, commit,
      late_unlock, commit_end, lock_call, lock_return, trylock, unlock,
      replay_step, replay_fault, detected, sigsegv, Done, vars
  <2> QED
    BY <2>1, <2>2
<1> QED
  BY <1>1 DEF FaultsBound, NoRetry

LEMMA NextAccounted ==
  ASSUME NoRetry', FaultsBound, IInv, Accounted, [Next]_vars PROVE Accounted'
<1> USE LocksConstants
<1>0. Types /\ \A t \in Thread : Stages(t) /\ Distinct(t) /\ Held(t)
  BY DEF IInv
<1>1. ASSUME UNCHANGED <<owner, p, late, log, pushed, poped>> PROVE Accounted'
  <2>1. \A t \in Thread, i \in 0 .. MaxLog - 1 : Pending(t, i)' <=> Pending(t, i)
    BY <1>1 DEF Pending, Acquired
  <2>2. \A t \in Thread, l \in Lock : Logged(t, l)' <=> Logged(t, l)
    BY <1>1, <2>1 DEF Logged
  <2> QED
    BY <1>1, <2>2 DEF Accounted
<1>2. ASSUME NEW t \in Thread, lock_outside(t) \/ unlock_outside(t) PROVE Accounted'
  <2>1. UNCHANGED <<p, late, log, pushed, poped, want>> /\ p[t] = -1 /\ ~late[t]
    BY <1>2 DEF lock_outside, unlock_outside, logvars, handlervars, Idle
  <2>2. Others(t)
    BY <2>1 DEF Others
  <2>3. PICK l \in Lock : \/ owner' = [owner EXCEPT ![l] = t]
                          \/ owner' = [owner EXCEPT ![l] = Free]
    BY <1>2 DEF lock_outside, unlock_outside, Outside
  <2>4. \A q \in Thread \ {t}, m \in Lock : owner'[m] = q => owner[m] = q
    BY <1>0, <2>3 DEF Types, Free
  <2> QED
    BY <2>1, <2>2, <2>4, AccountedStep
<1>3. ASSUME NEW t \in Thread, begin(t) PROVE Accounted'
  <2>1. /\ UNCHANGED <<owner, late, log, pushed, poped, want>>
        /\ p' = [p EXCEPT ![t] = 0] /\ \A l \in Lock : owner[l] # t
    BY <1>3 DEF begin, Outside, logvars, handlervars
  <2>2. Others(t)
    BY <1>0, <2>1 DEF Others, Types
  <2> QED
    BY <2>1, <2>2, AccountedStep
<1>4. ASSUME NEW t \in Thread, lock_call(t) PROVE Accounted'
  <2>1. UNCHANGED <<owner, p, late, log, pushed, poped>>
    BY <1>4 DEF lock_call, logvars
  <2> QED
    BY <2>1, <1>1
<1>5. ASSUME NEW t \in Thread, lock_return(t) PROVE Accounted'
  <2>1. /\ want[t] # 0
        /\ owner' = [owner EXCEPT ![want[t]] = t]
        /\ abuf_push(t, want[t], "0")
        /\ want' = [want EXCEPT ![t] = 0]
        /\ UNCHANGED <<p, late, poped>>
    BY <1>5 DEF lock_return
  <2>2. want[t] \in Lock /\ p[t] = 0 /\ pushed[t] < MaxLog
    BY <1>0, <2>1 DEF Types, Stages
  <2>3. "0" \in Result
    BY DEF Result
  <2> QED
    BY <2>1, <2>2, <2>3, AccountedPush, Zenon
<1>6. ASSUME NEW t \in Thread, trylock(t) PROVE Accounted'
  <2> DEFINE r(o) == IF owner[o.lock] = Free THEN "0" ELSE "EBUSY"
  <2>1. PICK o \in Op :
          /\ owner' = IF r(o) = "0" THEN [owner EXCEPT ![o.lock] = t] ELSE owner
          /\ abuf_push(t, o.lock, r(o))
    BY <1>6 DEF trylock
  <2>2. UNCHANGED <<p, late, poped, want>> /\ p[t] = 0 /\ pushed[t] < MaxLog
    BY <1>6 DEF trylock
  <2>3. o.lock \in Lock /\ r(o) \in Result
    BY DEF Op, Result
  <2> HIDE DEF r
  <2> QED
    BY <2>1, <2>2, <2>3, AccountedPush, Zenon
<1>7. ASSUME NEW t \in Thread, unlock(t) PROVE Accounted'
  BY <1>1, <1>7 DEF unlock, logvars
<1>8. ASSUME NEW t \in Thread, replay_step(t) \/ replay_fault(t) \/ switch(t)
      PROVE  Accounted'
  <2>1. UNCHANGED <<owner, late, log, pushed, want>>
    BY <1>8 DEF replay_step, replay_fault, replay, switch, logvars
  <2>2. /\ p[t] >= 0
        /\ p' = p \/ p' = [p EXCEPT ![t] = @ + 1]
        /\ poped' = poped \/ \E n : poped' = [poped EXCEPT ![t] = n]
    BY <1>8 DEF replay_step, replay_fault, replay, switch, PhaseDone, InHandler,
                Running
  <2>3. ~late[t]
    BY <1>0, <2>2 DEF Types, Stages
  <2>4. Others(t)
    BY <1>0, <2>1, <2>2 DEF Others, Types
  <2>5. ASSUME NEW l \in Lock, owner'[l] = t PROVE Logged(t, l)'
    <3>1. owner[l] = t /\ ~(p[t] < 0)
      BY <1>0, <2>1, <2>2, <2>5 DEF Types
    <3>2. PICK i \in 0 .. MaxLog - 1 : Pending(t, i) /\ log[t][i].addr = l
      BY <3>1 DEF Accounted, Logged
    <3> QED
      BY <2>1, <2>3, <3>2 DEF Logged, Pending, Acquired
  <2> QED
    BY <2>1, <2>4, <2>5, AccountedStep
<1>9. ASSUME NEW t \in Thread, commit(t) PROVE Accounted'
  <2>1. /\ UNCHANGED <<owner, log, pushed, want>> /\ p[t] >= 0
        /\ p' = [p EXCEPT ![t] = -1] /\ late' = [late EXCEPT ![t] = TRUE]
        /\ poped' = [poped EXCEPT ![t] = 0]
    BY <1>9 DEF commit, PhaseDone, InHandler, Running, logvars
  <2>2. Others(t)
    BY <1>0, <2>1 DEF Others, Types
  <2>3. poped'[t] = 0 /\ p[t] \in Int
    BY <1>0, <2>1 DEF Types
  <2>4. ASSUME NEW l \in Lock, owner'[l] = t PROVE Logged(t, l)'
    <3>1. PICK i \in 0 .. MaxLog - 1 : Pending(t, i) /\ log[t][i].addr = l
      BY <2>1, <2>3, <2>4 DEF Accounted, Logged
    <3> QED
      BY <2>1, <2>3, <3>1 DEF Logged, Pending, Acquired
  <2> QED
    BY <2>1, <2>2, <2>4, AccountedStep
<1>10. ASSUME NEW t \in Thread, late_unlock(t) PROVE Accounted'
  <2> DEFINE e == log[t][poped[t]]
  <2>1. /\ late[t] /\ poped[t] < pushed[t]
        /\ owner' = IF e.wvalue = "0" THEN [owner EXCEPT ![e.addr] = Free]
                    ELSE owner
        /\ poped' = [poped EXCEPT ![t] = @ + 1]
        /\ UNCHANGED <<p, late, log, pushed, want>>
    BY <1>10 DEF late_unlock, logvars, handlervars
  <2>2. Others(t)
    BY <1>0, <2>1 DEF Others, Types
  <2>3. \A m \in Lock : owner'[m] # Free => owner'[m] = owner[m]
    BY <1>0, <2>1 DEF Types
  <2>4. ASSUME NEW l \in Lock, owner'[l] = t PROVE Logged(t, l)'
    <3>1. owner[l] = t /\ ~(e.wvalue = "0" /\ e.addr = l)
      BY <1>0, <2>1, <2>3, <2>4 DEF Types, Free
    <3>2. PICK i \in 0 .. MaxLog - 1 : Pending(t, i) /\ log[t][i].addr = l
      BY <2>1, <3>1, Zenon DEF Accounted, Logged
    <3>3. i # poped[t] /\ i >= poped[t] /\ poped[t] \in Nat
      BY <1>0, <2>1, <3>1, <3>2 DEF Pending, Acquired, Types
    <3>4. poped'[t] = poped[t] + 1
      BY <1>0, <2>1 DEF Types
    <3>5. i >= poped'[t]
      BY <3>3, <3>4
    <3> QED
      BY <2>1, <3>2, <3>5 DEF Logged, Pending, Acquired
  <2>5. \A q \in Thread \ {t}, m \in Lock : owner'[m] = q => owner[m] = q
    BY <2>3 DEF Free
  <2> QED
    BY <2>2, <2>4, <2>5, AccountedStep
<1>11. ASSUME NEW t \in Thread, commit_end(t) PROVE Accounted'
  <2>1. /\ UNCHANGED <<owner, p, log, want>> /\ late[t]
        /\ late' = [late EXCEPT ![t] = FALSE]
        /\ pushed' = [pushed EXCEPT ![t] = 0] /\ poped' = [poped EXCEPT ![t] = 0]
    BY <1>11 DEF commit_end, handlervars
  <2>2. Others(t)
    BY <1>0, <2>1 DEF Others, Types
  <2>3. p'[t] < 0 /\ ~late'[t]
    BY <1>0, <2>1 DEF Stages, Types
  <2> QED
    BY <2>1, <2>2, <2>3, AccountedStep
<1>12. ASSUME NEW t \in Thread, detected(t) PROVE Accounted'
  <2>1. faults' # MaxFaults
    BY <1>12 DEF detected, FaultsBound
  <2>2. ~ROLLBACK
    BY <2>1 DEF NoRetry
  <2> QED
    BY <1>1, <1>12, <2>2 DEF detected
<1>13. ASSUME NEW t \in Thread, sigsegv(t) PROVE Accounted'
  <2>1. ROLLBACK /\ faults' # MaxFaults
    BY <1>13 DEF sigsegv, FaultsBound
  <2> QED
    BY <2>1 DEF NoRetry
<1>14. CASE Done \/ UNCHANGED vars
  BY <1>1, <1>14 DEF Done, vars
<1> QED
  BY <1>2, <1>3, <1>4, <1>5, <1>6, <1>7, <1>8, <1>9, <1>10, <1>11, <1>12,
     <1>13, <1>14 DEF Next

\* __sei_commit returns with all locks of the handler released, for any threads,
\* locks, level and faults, as long as no handler was retried.
THEOREM AllReleasedHolds == Spec => AllReleased
<1> DEFINE Inv == IInv /\ FaultsBound /\ (NoRetry => Accounted)
<1>1. Init => Inv
  <2>1. Init => Accounted /\ FaultsBound
    BY LocksConstants DEF Init, Accounted, Free, FaultsBound
  <2> QED
    BY <2>1, InitIInv
<1>2. Inv /\ [Next]_vars => Inv'
  BY NextIInv, NextAccounted, NextFaultsBound
<1>3. Inv /\ [Next]_vars
        => [\A t \in Thread : NoRetry /\ late[t] /\ ~late'[t] =>
              \A l \in Lock : owner'[l] # t]_vars
  <2> SUFFICES ASSUME IInv, Accounted, Next, NEW t \in Thread,
                      late[t], ~late'[t], NEW l \in Lock, owner'[l] = t
               PROVE  FALSE
    BY DEF vars
  <2>0. Types
    BY DEF IInv
  <2>1. commit_end(t)
    <3>1. \A q \in Thread : ~(\/ lock_outside(q) \/ unlock_outside(q) \/ begin(q)
                             \/ switch(q) \/ late_unlock(q) \/ lock_call(q)
                             \/ lock_return(q) \/ trylock(q) \/ unlock(q)
                             \/ replay_step(q) \/ replay_fault(q)
                             \/ detected(q) \/ sigsegv(q))
      BY DEF lock_outside, unlock_outside, begin, switch, late_unlock, lock_call,
             lock_return, trylock, unlock, replay_step, replay_fault, replay,
             detected, sigsegv
    <3>2. \A q \in Thread : ~commit(q)
      BY <2>0, Zenon DEF commit, Types
    <3>3. \A q \in Thread : commit_end(q) => q = t
      BY <2>0 DEF commit_end, Types
    <3>4. ~Done
      BY DEF Done, vars
    <3> QED
      BY <3>1, <3>2, <3>3, <3>4, SMTT(30) DEF Next
  <2>2. owner[l] = t /\ poped[t] >= pushed[t]
    BY <2>1 DEF commit_end
  <2>3. Logged(t, l)
    BY <2>2 DEF Accounted
  <2> QED
    BY <2>0, <2>2, <2>3 DEF Logged, Pending, Acquired, Types
<1> HIDE DEF Inv
<1> QED
  BY <1>1, <1>2, <1>3, PTL DEF Spec, AllReleased
=============================================================================
