---------------------------- MODULE LocksProofs -----------------------------
(***************************************************************************)
(* Proofs about Locks: locks are held until the commit has released them.  *)
(*                                                                         *)
(* An acquired lock appears once in the log (Distinct): it was free when   *)
(* it was acquired, so no earlier entry can have kept it.  Hence the loop  *)
(* that unlocks entry after entry frees no lock that a later entry, or the *)
(* log of another thread, still needs.                                     *)
(***************************************************************************)
EXTENDS Locks, TLAPS

Types ==
  /\ owner \in [Lock -> Thread \cup {Free}]
  /\ p \in [Thread -> Int] /\ late \in [Thread -> BOOLEAN]
  /\ log \in [Thread -> [0 .. MaxLog - 1 ->
                          [addr : Lock \cup {0}, wvalue : Result]]]
  /\ pushed \in [Thread -> 0 .. MaxLog] /\ poped \in [Thread -> Nat]
  /\ want \in [Thread -> Lock \cup {0}]

\* Between transactions the log is empty, and a thread that waits for a lock
\* has room to log it.
Stages(t) ==
  /\ late[t] => p[t] = -1
  /\ p[t] >= 0 \/ late[t] \/ pushed[t] = 0
  /\ want[t] # 0 => p[t] = 0 /\ pushed[t] < MaxLog

Acquired(t, i) == i \in 0 .. pushed[t] - 1 /\ log[t][i].wvalue = "0"

\* The entries that the loop of __sei_commit has not got to yet.
Pending(t, i) == Acquired(t, i) /\ (late[t] => i >= poped[t])

Distinct(t) ==
  \A i, j \in 0 .. MaxLog - 1 :
    Acquired(t, i) /\ Acquired(t, j) /\ i # j => log[t][i].addr # log[t][j].addr

Held(t) ==
  \A i \in 0 .. MaxLog - 1 :
    /\ Acquired(t, i) => log[t][i].addr \in Lock
    /\ Pending(t, i) => owner[log[t][i].addr] = t

IInv == Types /\ \A t \in Thread : Stages(t) /\ Distinct(t) /\ Held(t)

\* What a step of thread t does to the log and the locks of the others.
Others(t) ==
  \A q \in Thread \ {t} :
    /\ p'[q] = p[q] /\ late'[q] = late[q] /\ log'[q] = log[q]
    /\ pushed'[q] = pushed[q] /\ poped'[q] = poped[q] /\ want'[q] = want[q]

\* The inductive invariant contains the property.
LEMMA IInvHeld == IInv => HeldUntilCommit
BY LocksConstants DEF IInv, Types, Held, Pending, Acquired, HeldUntilCommit

LEMMA InitIInv == Init => IInv
<1> SUFFICES ASSUME Init PROVE IInv
  OBVIOUS
<1>1. Types
  BY LocksConstants DEF Init, Types, Result
<1>2. ASSUME NEW t \in Thread PROVE Stages(t) /\ Distinct(t) /\ Held(t)
  BY <1>2, LocksConstants DEF Init, Stages, Distinct, Held, Pending, Acquired
<1> QED
  BY <1>1, <1>2 DEF IInv

\* A thread that no step of its own concerns keeps its part of the invariant
\* if no lock that it holds changes hands.
LEMMA OthersKeep ==
  ASSUME IInv, NEW t \in Thread, NEW q \in Thread \ {t}, Others(t),
         \A l \in Lock : owner[l] = q => owner'[l] = q
  PROVE  Stages(q)' /\ Distinct(q)' /\ Held(q)'
<1>1. /\ p'[q] = p[q] /\ late'[q] = late[q] /\ log'[q] = log[q]
      /\ pushed'[q] = pushed[q] /\ poped'[q] = poped[q] /\ want'[q] = want[q]
  BY DEF Others
<1>2. Stages(q) /\ Distinct(q) /\ Held(q)
  BY DEF IInv
<1>3. Stages(q)'
  BY <1>1, <1>2 DEF Stages
<1>4. Distinct(q)'
  BY <1>1, <1>2 DEF Distinct, Acquired
<1>5. Held(q)'
  BY <1>1, <1>2 DEF Held, Pending, Acquired
<1> QED
  BY <1>3, <1>4, <1>5

\* A push in phase 0 of a result, after which the lock belongs to the thread
\* if the result says so.
LEMMA PushKeeps ==
  ASSUME IInv, NEW t \in Thread, NEW l \in Lock, NEW r \in Result,
         p[t] = 0, pushed[t] < MaxLog,
         r = "0" => owner[l] = Free,
         owner' = IF r = "0" THEN [owner EXCEPT ![l] = t] ELSE owner,
         abuf_push(t, l, r),
         UNCHANGED <<p, late, poped>>,
         want' = want \/ want' = [want EXCEPT ![t] = 0],
         want'[t] = 0
  PROVE  IInv'
<1> USE LocksConstants
<1>1. /\ Types /\ Stages(t) /\ Distinct(t) /\ Held(t)
  BY DEF IInv
<1>2. pushed[t] \in 0 .. MaxLog - 1 /\ pushed[t] \in Nat
  BY <1>1 DEF Types
<1>3. /\ log'[t] = [log[t] EXCEPT ![pushed[t]] = [addr |-> l, wvalue |-> r]]
      /\ pushed'[t] = pushed[t] + 1
      /\ \A q \in Thread \ {t} : log'[q] = log[q] /\ pushed'[q] = pushed[q]
  BY <1>1 DEF abuf_push, Types
<1>4. Types'
  <2>1. log' \in [Thread -> [0 .. MaxLog - 1 ->
                          [addr : Lock \cup {0}, wvalue : Result]]]
    BY <1>1, <1>2 DEF abuf_push, Types
  <2>2. pushed' \in [Thread -> 0 .. MaxLog]
    BY <1>1, <1>2 DEF abuf_push, Types
  <2>3. want' \in [Thread -> Lock \cup {0}]
    BY <1>1, Zenon DEF Types
  <2>4. owner' \in [Lock -> Thread \cup {Free}]
    BY <1>1 DEF Types
  <2> QED
    BY <1>1, <2>1, <2>2, <2>3, <2>4 DEF Types
<1>5. Others(t)
  BY <1>1, <1>3 DEF Others, Types
<1>6. ASSUME NEW q \in Thread \ {t} PROVE Stages(q)' /\ Distinct(q)' /\ Held(q)'
  <2>1. \A m \in Lock : owner[m] = q => owner'[m] = q
    BY <1>1 DEF Types, Free
  <2> QED
    BY <1>5, <2>1, OthersKeep
<1>7. ~late[t] /\ ~late'[t]
  BY <1>1 DEF Stages, Types
<1>8. \A i \in 0 .. MaxLog - 1 :
        Acquired(t, i)' <=> (Acquired(t, i) \/ (i = pushed[t] /\ r = "0"))
  BY <1>1, <1>2, <1>3, SMTT(30) DEF Acquired, Types
<1>9. \A i \in 0 .. MaxLog - 1 : Acquired(t, i) => log'[t][i] = log[t][i]
  BY <1>1, <1>2, <1>3 DEF Acquired, Types
<1>10. log'[t][pushed[t]].addr = l
  BY <1>1, <1>2, <1>3 DEF Types
<1>11. \A i \in 0 .. MaxLog - 1 :
         Acquired(t, i) => /\ log[t][i].addr \in Lock
                           /\ owner[log[t][i].addr] = t
  BY <1>1, <1>7 DEF Held, Pending
<1>12. r = "0" => \A i \in 0 .. MaxLog - 1 : Acquired(t, i) => log[t][i].addr # l
  BY <1>11 DEF Free
<1>13. Stages(t)'
  BY <1>1, <1>2, <1>3, <1>7 DEF Stages, Types
<1>14. Distinct(t)'
  <2> SUFFICES ASSUME NEW i \in 0 .. MaxLog - 1, NEW j \in 0 .. MaxLog - 1,
                      Acquired(t, i)', Acquired(t, j)', i # j
               PROVE  log'[t][i].addr # log'[t][j].addr
    BY DEF Distinct
  <2>1. CASE Acquired(t, i) /\ Acquired(t, j)
    BY <1>1, <1>9, <2>1 DEF Distinct
  <2>2. CASE i = pushed[t] /\ r = "0"
    BY <1>8, <1>9, <1>10, <1>12, <2>2
  <2>3. CASE j = pushed[t] /\ r = "0"
    BY <1>8, <1>9, <1>10, <1>12, <2>3
  <2> QED
    BY <1>8, <2>1, <2>2, <2>3
<1>15. Held(t)'
  <2> SUFFICES ASSUME NEW i \in 0 .. MaxLog - 1, Acquired(t, i)'
               PROVE  log'[t][i].addr \in Lock /\ owner'[log'[t][i].addr] = t
    BY DEF Held, Pending
  <2>1. CASE Acquired(t, i)
    BY <1>1, <1>9, <1>11, <2>1, SMTT(30) DEF Types
  <2>2. CASE i = pushed[t] /\ r = "0"
    BY <1>1, <1>10, <2>2 DEF Types
  <2> QED
    BY <1>8, <2>1, <2>2
<1> QED
  BY <1>4, <1>6, <1>13, <1>14, <1>15 DEF IInv

\* Every step keeps the invariant.
LEMMA NextIInv == IInv /\ [Next]_vars => IInv'
<1> SUFFICES ASSUME IInv, [Next]_vars PROVE IInv'
  OBVIOUS
<1> USE LocksConstants
<1>0. Types /\ \A t \in Thread : Stages(t) /\ Distinct(t) /\ Held(t)
  BY DEF IInv
<1>1. ASSUME UNCHANGED <<owner, p, late, log, pushed, poped, want>> PROVE IInv'
  BY <1>0, <1>1 DEF IInv, Types, Stages, Distinct, Held, Pending, Acquired
<1>2. ASSUME NEW t \in Thread, lock_outside(t) PROVE IInv'
  <2>1. PICK l \in Lock : owner[l] = Free /\ owner' = [owner EXCEPT ![l] = t]
    BY <1>2, Zenon DEF lock_outside
  <2>2. UNCHANGED <<p, late, log, pushed, poped, want>>
    BY <1>2 DEF lock_outside, logvars, handlervars
  <2>3. Types'
    BY <1>0, <2>1, <2>2 DEF Types
  <2>4. \A m \in Lock, q \in Thread : owner[m] = q => owner'[m] = q
    BY <1>0, <2>1 DEF Types, Free
  <2>5. ASSUME NEW q \in Thread PROVE Stages(q)' /\ Distinct(q)' /\ Held(q)'
    <3>1. Stages(q)' /\ Distinct(q)'
      BY <1>0, <2>2 DEF Stages, Distinct, Acquired
    <3>2. Held(q)'
      <4> SUFFICES ASSUME NEW i \in 0 .. MaxLog - 1, Acquired(q, i)'
                   PROVE  /\ log'[q][i].addr \in Lock
                          /\ Pending(q, i)' => owner'[log'[q][i].addr] = q
        BY DEF Held, Pending
      <4>1. Acquired(q, i) /\ (Pending(q, i)' => Pending(q, i))
        BY <2>2 DEF Acquired, Pending
      <4>2. log[q][i].addr \in Lock
        BY <1>0, <4>1 DEF Held
      <4>3. Pending(q, i) => owner[log[q][i].addr] = q
        BY <1>0 DEF Held
      <4> QED
        BY <2>2, <2>4, <4>1, <4>2, <4>3, Zenon
    <3> QED
      BY <3>1, <3>2
  <2> QED
    BY <2>3, <2>5 DEF IInv
<1>3. ASSUME NEW t \in Thread, unlock_outside(t) PROVE IInv'
  <2>1. PICK l \in Lock : owner[l] = t /\ owner' = [owner EXCEPT ![l] = Free]
    BY <1>3, Zenon DEF unlock_outside, Outside
  <2>2. UNCHANGED <<p, late, log, pushed, poped, want>>
    BY <1>3 DEF unlock_outside, logvars, handlervars
  <2>3. pushed[t] = 0
    BY <1>0, <1>3 DEF unlock_outside, Idle, Stages
  <2>4. Types'
    BY <1>0, <2>1, <2>2 DEF Types
  <2>5. \A m \in Lock, q \in Thread \ {t} : owner[m] = q => owner'[m] = q
    BY <1>0, <2>1 DEF Types
  <2>6. Others(t)
    BY <2>2 DEF Others
  <2>7. \A i \in 0 .. MaxLog - 1 : ~Acquired(t, i)'
    BY <2>2, <2>3 DEF Acquired
  <2>8. Stages(t)' /\ Distinct(t)' /\ Held(t)'
    BY <1>0, <2>2, <2>7 DEF Stages, Distinct, Held, Pending
  <2>9. \A q \in Thread \ {t} : Stages(q)' /\ Distinct(q)' /\ Held(q)'
    BY <2>5, <2>6, OthersKeep
  <2> QED
    BY <2>4, <2>8, <2>9 DEF IInv
<1>4. ASSUME NEW t \in Thread, begin(t) PROVE IInv'
  <2>1. /\ UNCHANGED <<owner, late, log, pushed, poped, want>>
        /\ p' = [p EXCEPT ![t] = 0] /\ p[t] = -1 /\ ~late[t]
    BY <1>4 DEF begin, Idle, logvars, handlervars
  <2>2. Types'
    BY <1>0, <2>1 DEF Types
  <2>3. ASSUME NEW q \in Thread PROVE Stages(q)' /\ Distinct(q)' /\ Held(q)'
    BY <1>0, <2>1 DEF Types, Stages, Distinct, Held, Pending, Acquired
  <2> QED
    BY <2>2, <2>3 DEF IInv
<1>5. ASSUME NEW t \in Thread, lock_call(t) PROVE IInv'
  <2>1. PICK o \in Op : want' = [want EXCEPT ![t] = o.lock]
    BY <1>5, Zenon DEF lock_call
  <2>2. /\ UNCHANGED <<owner, p, late, log, pushed, poped>>
        /\ p[t] = 0 /\ pushed[t] < MaxLog
    BY <1>5 DEF lock_call, logvars
  <2>3. Types'
    BY <1>0, <2>1, <2>2 DEF Types, Op
  <2>4. ASSUME NEW q \in Thread PROVE Stages(q)' /\ Distinct(q)' /\ Held(q)'
    <3>1. Stages(q)'
      BY <1>0, <2>1, <2>2 DEF Types, Stages
    <3>2. Distinct(q)' /\ Held(q)'
      BY <1>0, <2>2 DEF Distinct, Held, Pending, Acquired
    <3> QED
      BY <3>1, <3>2
  <2> QED
    BY <2>3, <2>4 DEF IInv
<1>6. ASSUME NEW t \in Thread, lock_return(t) PROVE IInv'
  <2>1. /\ want[t] # 0 /\ owner[want[t]] = Free
        /\ owner' = [owner EXCEPT ![want[t]] = t]
        /\ abuf_push(t, want[t], "0")
        /\ want' = [want EXCEPT ![t] = 0]
        /\ UNCHANGED <<p, late, poped>>
    BY <1>6 DEF lock_return
  <2>2. want[t] \in Lock /\ want'[t] = 0
    BY <1>0, <2>1 DEF Types
  <2>3. p[t] = 0 /\ pushed[t] < MaxLog
    BY <1>0, <2>1 DEF Stages
  <2>4. "0" \in Result
    BY DEF Result
  <2> QED
    BY <2>1, <2>2, <2>3, <2>4, PushKeeps, Zenon
<1>7. ASSUME NEW t \in Thread, trylock(t) PROVE IInv'
  <2> DEFINE r(o) == IF owner[o.lock] = Free THEN "0" ELSE "EBUSY"
  <2>1. PICK o \in Op :
          /\ owner' = IF r(o) = "0" THEN [owner EXCEPT ![o.lock] = t] ELSE owner
          /\ abuf_push(t, o.lock, r(o))
    BY <1>7, SMTT(30) DEF trylock
  <2>2. UNCHANGED <<p, late, poped, want>> /\ p[t] = 0 /\ pushed[t] < MaxLog
        /\ want[t] = 0
    BY <1>7 DEF trylock, InHandler
  <2>3. o.lock \in Lock /\ r(o) \in Result /\ (r(o) = "0" => owner[o.lock] = Free)
    BY DEF Op, Result
  <2> HIDE DEF r
  <2> QED
    BY <2>1, <2>2, <2>3, PushKeeps, Zenon
<1>8. ASSUME NEW t \in Thread, unlock(t) PROVE IInv'
  BY <1>1, <1>8 DEF unlock, logvars
<1>9. ASSUME NEW t \in Thread, p[t] > 0,
             UNCHANGED <<owner, p, late, log, pushed, want>>,
             NEW n \in Nat, poped' = [poped EXCEPT ![t] = n]
      PROVE  IInv'
  <2>1. Types'
    BY <1>0, <1>9 DEF Types
  <2>2. ~late[t]
    BY <1>0, <1>9 DEF Stages, Types
  <2>3. ASSUME NEW q \in Thread PROVE Stages(q)' /\ Distinct(q)' /\ Held(q)'
    BY <1>0, <1>9, <2>2 DEF Types, Stages, Distinct, Held, Pending, Acquired
  <2> QED
    BY <2>1, <2>3 DEF IInv
<1>10. ASSUME NEW t \in Thread, p[t] > 0, NEW o, replay(t, o) PROVE IInv'
  <2>1. UNCHANGED <<owner, p, late, log, pushed, want>>
    BY <1>10 DEF replay, logvars
  <2>2. poped[t] \in Nat /\ poped[t] + 1 \in Nat
    BY <1>0 DEF Types
  <2>3. \/ poped' = [poped EXCEPT ![t] = poped[t]]
        \/ poped' = [poped EXCEPT ![t] = poped[t] + 1]
    BY <1>10, Zenon DEF replay
  <2> QED
    BY <1>9, <1>10, <2>1, <2>2, <2>3
<1>11. ASSUME NEW t \in Thread, replay_step(t) PROVE IInv'
  BY <1>10, <1>11 DEF replay_step
<1>12. ASSUME NEW t \in Thread, replay_fault(t) PROVE IInv'
  BY <1>1, <1>10, <1>12 DEF replay_fault, logvars
<1>13. ASSUME NEW t \in Thread, switch(t) PROVE IInv'
  <2>1. /\ UNCHANGED <<owner, late, log, pushed, want>>
        /\ want[t] = 0 /\ p[t] >= 0 /\ p[t] \in Int
        /\ p' = [p EXCEPT ![t] = @ + 1]
        /\ poped' = [poped EXCEPT ![t] = 0]
    BY <1>0, <1>13 DEF switch, InHandler, PhaseDone, Running, Idle, logvars, handlervars, Types
  <2>2. Types'
    BY <1>0, <2>1 DEF Types
  <2>3. ASSUME NEW q \in Thread PROVE Stages(q)' /\ Distinct(q)' /\ Held(q)'
    <3>1. Stages(q)'
      BY <1>0, <2>1 DEF Types, Stages
    <3>2. Distinct(q)' /\ Held(q)'
      BY <1>0, <2>1, SMTT(30) DEF Types, Stages, Distinct, Held, Pending, Acquired
    <3> QED
      BY <3>1, <3>2
  <2> QED
    BY <2>2, <2>3 DEF IInv
<1>14. ASSUME NEW t \in Thread, commit(t) PROVE IInv'
  <2>1. /\ UNCHANGED <<owner, log, pushed, want>>
        /\ want[t] = 0 /\ p[t] >= 0
        /\ p' = [p EXCEPT ![t] = -1]
        /\ late' = [late EXCEPT ![t] = TRUE]
        /\ poped' = [poped EXCEPT ![t] = 0]
    BY <1>0, <1>14 DEF commit, InHandler, PhaseDone, Running, Idle, logvars, handlervars, Types
  <2>2. Types'
    BY <1>0, <2>1 DEF Types
  <2>3. ASSUME NEW q \in Thread PROVE Stages(q)' /\ Distinct(q)' /\ Held(q)'
    <3>1. Stages(q)'
      BY <1>0, <2>1 DEF Types, Stages
    <3>2. Distinct(q)' /\ Held(q)'
      BY <1>0, <2>1, SMTT(30) DEF Types, Stages, Distinct, Held, Pending, Acquired
    <3> QED
      BY <3>1, <3>2
  <2> QED
    BY <2>2, <2>3 DEF IInv
<1>15. ASSUME NEW t \in Thread, late_unlock(t) PROVE IInv'
  <2> DEFINE e == log[t][poped[t]]
  <2>1. /\ late[t] /\ poped[t] < pushed[t]
        /\ owner' = IF e.wvalue = "0" THEN [owner EXCEPT ![e.addr] = Free]
                    ELSE owner
        /\ poped' = [poped EXCEPT ![t] = @ + 1]
        /\ UNCHANGED <<p, late, log, pushed, want>>
    BY <1>15 DEF late_unlock, logvars, handlervars
  <2>2. poped[t] \in 0 .. MaxLog - 1 /\ poped[t] \in 0 .. pushed[t] - 1
        /\ poped[t] \in Nat
    BY <1>0, <2>1, SMTT(30) DEF Types
  <2>3. e.wvalue = "0" => e.addr \in Lock /\ owner[e.addr] = t
    BY <1>0, <2>1, <2>2 DEF Held, Pending, Acquired
  <2>4. Types'
    <3>1. owner' \in [Lock -> Thread \cup {Free}]
      BY <1>0, <2>1, Zenon DEF Types
    <3>2. poped' \in [Thread -> Nat]
      BY <1>0, <2>1, <2>2 DEF Types
    <3> QED
      BY <1>0, <2>1, <3>1, <3>2 DEF Types
  <2>5. Others(t)
    BY <1>0, <2>1 DEF Others, Types
  <2>6. \A m \in Lock, q \in Thread \ {t} : owner[m] = q => owner'[m] = q
    BY <1>0, <2>1, <2>3 DEF Types
  <2>7. \A q \in Thread \ {t} : Stages(q)' /\ Distinct(q)' /\ Held(q)'
    BY <2>5, <2>6, OthersKeep
  <2>8. Stages(t)' /\ Distinct(t)'
    BY <1>0, <2>1 DEF Stages, Distinct, Acquired
  <2>9. Held(t)'
    <3> SUFFICES ASSUME NEW i \in 0 .. MaxLog - 1, Acquired(t, i)'
                 PROVE  /\ log'[t][i].addr \in Lock
                        /\ i >= poped'[t] => owner'[log'[t][i].addr] = t
      BY <2>1 DEF Held, Pending
    <3>1. Acquired(t, i) /\ log'[t][i] = log[t][i] /\ poped'[t] = poped[t] + 1
      BY <1>0, <2>1 DEF Acquired, Types
    <3>2. log[t][i].addr \in Lock
      BY <1>0, <3>1 DEF Held
    <3>3. ASSUME i >= poped[t] + 1 PROVE owner'[log[t][i].addr] = t
      <4>1. owner[log[t][i].addr] = t
        BY <1>0, <2>1, <2>2, <3>1, <3>3 DEF Held, Pending
      <4>2. e.wvalue = "0" => Acquired(t, poped[t])
        BY <2>2 DEF Acquired
      <4>3. e.wvalue = "0" => log[t][i].addr # e.addr
        BY <1>0, <2>2, <3>1, <3>3, <4>2 DEF Distinct
      <4> QED
        BY <1>0, <2>1, <2>3, <3>2, <4>1, <4>3 DEF Types
    <3> QED
      BY <3>1, <3>2, <3>3
  <2> QED
    BY <2>4, <2>7, <2>8, <2>9 DEF IInv
<1>16. ASSUME NEW t \in Thread, commit_end(t) PROVE IInv'
  <2>1. /\ UNCHANGED <<owner, p, log, want>>
        /\ late[t] /\ late' = [late EXCEPT ![t] = FALSE]
        /\ pushed' = [pushed EXCEPT ![t] = 0]
        /\ poped' = [poped EXCEPT ![t] = 0]
    BY <1>0, <1>16 DEF commit_end, InHandler, PhaseDone, Running, Idle, logvars, handlervars, Types
  <2>2. Types'
    BY <1>0, <2>1 DEF Types
  <2>3. ASSUME NEW q \in Thread PROVE Stages(q)' /\ Distinct(q)' /\ Held(q)'
    <3>1. Stages(q)'
      BY <1>0, <2>1 DEF Types, Stages
    <3>2. Distinct(q)' /\ Held(q)'
      BY <1>0, <2>1, SMTT(30) DEF Types, Stages, Distinct, Held, Pending, Acquired
    <3> QED
      BY <3>1, <3>2
  <2> QED
    BY <2>2, <2>3 DEF IInv
<1>17. ASSUME NEW t \in Thread, detected(t) PROVE IInv'
  <2>1. CASE ~ROLLBACK
    BY <1>1, <1>17, <2>1 DEF detected
  <2>2. CASE ROLLBACK
    <3>1. /\ UNCHANGED <<owner, late, log, want>>
          /\ want[t] = 0 /\ p[t] >= 0
          /\ p' = [p EXCEPT ![t] = 0]
          /\ pushed' = [pushed EXCEPT ![t] = 0]
          /\ poped' = [poped EXCEPT ![t] = 0]
      BY <1>17, <2>2 DEF detected, PhaseDone, InHandler, Running
    <3>2. Types'
      BY <1>0, <3>1 DEF Types
    <3>3. ASSUME NEW q \in Thread PROVE Stages(q)' /\ Distinct(q)' /\ Held(q)'
      BY <1>0, <3>1, SMTT(30) DEF Types, Stages, Distinct, Held, Pending, Acquired
    <3> QED
      BY <3>2, <3>3 DEF IInv
  <2> QED
    BY <2>1, <2>2
<1>18. ASSUME NEW t \in Thread, sigsegv(t) PROVE IInv'
  <2>1. /\ UNCHANGED <<owner, late, log, pushed, poped, want>>
        /\ want[t] = 0 /\ p[t] >= 0
        /\ p' = [p EXCEPT ![t] = 0]
    BY <1>0, <1>18 DEF sigsegv, InHandler, PhaseDone, Running, Idle, logvars, handlervars, Types
  <2>2. Types'
    BY <1>0, <2>1 DEF Types
  <2>3. ASSUME NEW q \in Thread PROVE Stages(q)' /\ Distinct(q)' /\ Held(q)'
    <3>1. Stages(q)'
      BY <1>0, <2>1 DEF Types, Stages
    <3>2. Distinct(q)' /\ Held(q)'
      BY <1>0, <2>1, SMTT(30) DEF Types, Stages, Distinct, Held, Pending, Acquired
    <3> QED
      BY <3>1, <3>2
  <2> QED
    BY <2>2, <2>3 DEF IInv
<1>19. CASE Done \/ UNCHANGED vars
  BY <1>1, <1>19 DEF Done, vars
<1> QED
  BY <1>2, <1>3, <1>4, <1>5, <1>6, <1>7, <1>8, <1>11, <1>12, <1>13, <1>14,
     <1>15, <1>16, <1>17, <1>18, <1>19 DEF Next

\* Two-phase locking holds for any threads, locks, level and faults, with and
\* without ROLLBACK: no other thread gets a lock before __sei_commit has
\* reached it in the log.
THEOREM HeldUntilCommitHolds == Spec => []HeldUntilCommit
<1>1. Init => IInv
  BY InitIInv
<1>2. IInv /\ [Next]_vars => IInv'
  BY NextIInv
<1>3. IInv => HeldUntilCommit
  BY IInvHeld
<1> QED
  BY <1>1, <1>2, <1>3, PTL DEF Spec
=============================================================================
