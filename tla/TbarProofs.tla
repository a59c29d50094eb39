----------------------------- MODULE TbarProofs -----------------------------
(***************************************************************************)
(* The grace period of tbar.c, proved for any number of threads and any    *)
(* number of traversals that a C int can count.                            *)
(*                                                                         *)
(* GracePeriod compares the counts with those at the instant of the leave, *)
(* while tbar_check only sees the snapshot that was loaded afterwards.     *)
(* The inductive invariant ties the two: a completed snapshot entry is at  *)
(* least as recent as the leave, and a thread that the snapshot missed had *)
(* not entered any traversal at the leave.                                 *)
(***************************************************************************)
EXTENDS Tbar, TLAPS

\* Thread j was counted by t's snapshot, or had no traversal when t left.
Recent(t, j) == left[t][j] = 0 \/ snap[t][j] >= left[t][j]

\* A thread without an index has not started, a traversal that was entered can
\* be counted out again, and snapshots lag the counts.
Lag ==
  /\ \A j \in Tid : j >= me => pc[j] = "new" /\ count[j] = 0
  /\ \A j \in Tid : count[j] % 2 = 1 => count[j] + 1 <= MaxCount
  /\ \A t, j \in Tid : count[j] >= left[t][j] /\ count[j] >= snap[t][j]

\* What the snapshot loop of tbar_leave has achieved so far.
Snapshot ==
  \A t, j \in Tid :
    /\ pc[t] \in {"new", "idle", "check"} => Recent(t, j)
    /\ pc[t] = "leave_i" /\ j < i[t] => Recent(t, j)
    /\ pc[t] = "leave_i" /\ j >= m[t] => left[t][j] = 0
    /\ pc[t] \in {"leave_m", "leave_i"} => t \notin passed

\* What the loop of tbar_check has established so far.
Checked ==
  \A t, j \in Tid :
    /\ pc[t] = "check" /\ r[t] = 1 /\ j < i[t] => j \in mark[t]
    /\ t \in passed => j \in mark[t] \/ left[t][j] = 0

IInv == TypeOK /\ Lag /\ Snapshot /\ Checked /\ MarkedOnlyIfEnded

-----------------------------------------------------------------------------

\* Thread indices are numbers below MaxThreads.
LEMMA TidNat == \A j \in Tid : j \in Nat /\ j < MaxThreads
  BY TbarConstants DEF Tid

\* A count below 2^31 survives the assignment to an int and the conversion
\* back to uint64_t in tbar_check.
LEMMA AsIntExact ==
  ASSUME MaxCount < IntMax, NEW c \in 0 .. MaxCount
  PROVE  AsInt(c) = c
<1>1. c % (2 * IntMax) = c
  BY TbarConstants
<1> QED
  BY <1>1, TbarConstants DEF AsInt

\* Initially all counts are 0, no index is given out and nothing is marked.
LEMMA InitIInv == Init => IInv
  BY TbarConstants, TidNat DEF Init, IInv, TypeOK, Lag, Snapshot, Checked, Recent,
     MarkedOnlyIfEnded, Pcs

\* Every step of every thread preserves the inductive invariant.
LEMMA NextIInv ==
  ASSUME MaxCount < IntMax
  PROVE  IInv /\ [Next]_vars => IInv'
<1> SUFFICES ASSUME IInv, [Next]_vars
             PROVE  IInv'
  OBVIOUS
<1> USE TbarConstants, TidNat DEF IInv
<1>1. ASSUME NEW t \in Tid, tbar_init(t)
      PROVE  IInv'
  <2>1. TypeOK'
    BY <1>1 DEF tbar_init, TypeOK, Pcs
  <2>2. Lag'
    BY <1>1 DEF tbar_init, Lag, TypeOK
  <2>3. Snapshot'
    BY <1>1 DEF tbar_init, Snapshot, Recent, Lag, TypeOK, Pcs
  <2>4. Checked'
    BY <1>1 DEF tbar_init, Checked, Snapshot, Lag, TypeOK, Pcs
  <2>5. MarkedOnlyIfEnded'
    BY <1>1 DEF tbar_init, MarkedOnlyIfEnded, Lag, TypeOK
  <2> QED
    BY <2>1, <2>2, <2>3, <2>4, <2>5
<1>2. ASSUME NEW t \in Tid, tbar_enter(t)
      PROVE  IInv'
  <2>0. count[t] \in Nat /\ count[t] + 1 \in 0 .. MaxCount
    BY <1>2 DEF tbar_enter, InTraversal, TypeOK, Lag
  <2>1. TypeOK'
    BY <1>2, <2>0 DEF tbar_enter, InTraversal, TypeOK, Pcs
  <2>2. Lag'
    BY <1>2 DEF tbar_enter, InTraversal, Lag, TypeOK
  <2>3. Snapshot'
    BY <1>2 DEF tbar_enter, InTraversal, Snapshot, Recent, Lag, TypeOK, Pcs
  <2>4. Checked'
    BY <1>2 DEF tbar_enter, InTraversal, Checked, Snapshot, Lag, TypeOK, Pcs
  <2>5. MarkedOnlyIfEnded'
    BY <1>2 DEF tbar_enter, InTraversal, MarkedOnlyIfEnded, Lag, TypeOK
  <2> QED
    BY <2>1, <2>2, <2>3, <2>4, <2>5
<1>3. ASSUME NEW t \in Tid, tbar_leave(t)
      PROVE  IInv'
  <2>0. count[t] \in Nat /\ count[t] + 1 \in 0 .. MaxCount
    BY <1>3 DEF tbar_leave, InTraversal, TypeOK, Lag
  <2>1. TypeOK'
    BY <1>3, <2>0 DEF tbar_leave, InTraversal, TypeOK, Pcs
  <2>2. Lag'
    BY <1>3 DEF tbar_leave, InTraversal, Lag, TypeOK
  <2>3. Snapshot'
    BY <1>3 DEF tbar_leave, InTraversal, Snapshot, Recent, Lag, TypeOK, Pcs
  <2>4. Checked'
    BY <1>3 DEF tbar_leave, InTraversal, Checked, Snapshot, Lag, TypeOK, Pcs
  <2>5. MarkedOnlyIfEnded'
    BY <1>3 DEF tbar_leave, InTraversal, MarkedOnlyIfEnded, Lag, TypeOK
  <2> QED
    BY <2>1, <2>2, <2>3, <2>4, <2>5
<1>4. ASSUME NEW t \in Tid, leave_read_me(t)
      PROVE  IInv'
  <2>1. TypeOK'
    BY <1>4 DEF leave_read_me, TypeOK, Pcs
  <2>2. Lag'
    BY <1>4 DEF leave_read_me, Lag, TypeOK
  <2>3. Snapshot'
    BY <1>4 DEF leave_read_me, Snapshot, Recent, Lag, TypeOK, Pcs
  <2>4. Checked'
    BY <1>4 DEF leave_read_me, Checked, Snapshot, Lag, TypeOK, Pcs
  <2>5. MarkedOnlyIfEnded'
    BY <1>4 DEF leave_read_me, MarkedOnlyIfEnded, Lag, TypeOK
  <2> QED
    BY <2>1, <2>2, <2>3, <2>4, <2>5
<1>5. ASSUME NEW t \in Tid, leave_snapshot(t)
      PROVE  IInv'
  <2>0. i[t] \in Tid /\ i[t] \in Nat /\ i[t] + 1 \in 0 .. MaxThreads
    <3>1. i[t] \in 0 .. MaxThreads /\ m[t] \in 0 .. MaxThreads /\ i[t] < m[t]
      BY <1>5 DEF leave_snapshot, TypeOK
    <3> QED
      BY <3>1, TbarConstants DEF Tid
  <2>1. TypeOK'
    BY <1>5, <2>0 DEF leave_snapshot, TypeOK, Pcs
  <2>2. Lag'
    BY <1>5 DEF leave_snapshot, Lag, TypeOK
  <2>3. Snapshot'
    <3> SUFFICES ASSUME NEW u \in Tid, NEW j \in Tid
                 PROVE  /\ pc'[u] \in {"new", "idle", "check"} => Recent(u, j)'
                        /\ pc'[u] = "leave_i" /\ j < i'[u] => Recent(u, j)'
                        /\ pc'[u] = "leave_i" /\ j >= m'[u] => left'[u][j] = 0
                        /\ pc'[u] \in {"leave_m", "leave_i"} => u \notin passed'
      BY DEF Snapshot
    <3>1. CASE u # t
      BY <1>5, <3>1 DEF leave_snapshot, Snapshot, Recent, TypeOK
    <3>2. CASE u = t /\ j # i[t]
      <4>1. snap'[u][j] = snap[u][j]
        BY <1>5, <2>0, <3>2 DEF leave_snapshot, TypeOK
      <4>2. j < i'[u] => j < i[u]
        <5>1. i'[u] = i[t] + 1
          BY <1>5, <3>2 DEF leave_snapshot, TypeOK
        <5> QED
          BY <2>0, <3>2, <5>1, TidNat
      <4>3. UNCHANGED <<pc, m, left, passed>>
        BY <1>5 DEF leave_snapshot
      <4> QED
        BY <4>1, <4>2, <4>3 DEF Snapshot, Recent
    <3>3. CASE u = t /\ j = i[t]
      <4>1. snap'[u][j] = count[j]
        BY <1>5, <2>0, <3>3 DEF leave_snapshot, TypeOK
      <4> QED
        BY <1>5, <3>3, <4>1 DEF leave_snapshot, Snapshot, Recent, Lag
    <3> QED
      BY <3>1, <3>2, <3>3
  <2>4. Checked'
    BY <1>5 DEF leave_snapshot, Checked, Snapshot, Lag, TypeOK, Pcs
  <2>5. MarkedOnlyIfEnded'
    BY <1>5 DEF leave_snapshot, MarkedOnlyIfEnded, Lag, TypeOK
  <2> QED
    BY <2>1, <2>2, <2>3, <2>4, <2>5
<1>6. ASSUME NEW t \in Tid, leave_return(t)
      PROVE  IInv'
  <2>1. TypeOK'
    BY <1>6 DEF leave_return, TypeOK, Pcs
  <2>2. Lag'
    BY <1>6 DEF leave_return, Lag, TypeOK
  <2>3. Snapshot'
    BY <1>6 DEF leave_return, Snapshot, Recent, Lag, TypeOK, Pcs
  <2>4. Checked'
    BY <1>6 DEF leave_return, Checked, Snapshot, Lag, TypeOK, Pcs
  <2>5. MarkedOnlyIfEnded'
    BY <1>6 DEF leave_return, MarkedOnlyIfEnded, Lag, TypeOK
  <2> QED
    BY <2>1, <2>2, <2>3, <2>4, <2>5
<1>7. ASSUME NEW t \in Tid, tbar_check(t)
      PROVE  IInv'
  <2>1. TypeOK'
    BY <1>7 DEF tbar_check, TypeOK, Pcs
  <2>2. Lag'
    BY <1>7 DEF tbar_check, Lag, TypeOK
  <2>3. Snapshot'
    BY <1>7 DEF tbar_check, Snapshot, Recent, Lag, TypeOK, Pcs
  <2>4. Checked'
    BY <1>7 DEF tbar_check, Checked, Snapshot, Lag, TypeOK, Pcs
  <2>5. MarkedOnlyIfEnded'
    BY <1>7 DEF tbar_check, MarkedOnlyIfEnded, Lag, TypeOK
  <2> QED
    BY <2>1, <2>2, <2>3, <2>4, <2>5
<1>8. ASSUME NEW t \in Tid, check_item(t)
      PROVE  IInv'
  <2>0. i[t] \in Tid /\ i[t] \in Nat /\ i[t] + 1 \in 0 .. MaxThreads
    <3>1. i[t] \in 0 .. MaxThreads /\ me \in 0 .. MaxThreads /\ i[t] < me
      BY <1>8 DEF check_item, TypeOK
    <3> QED
      BY <3>1, TbarConstants DEF Tid
  <2>1. TypeOK'
    <3>1. mark' \in [Tid -> SUBSET Tid] /\ r' \in [Tid -> {0, 1}]
      <4>1. /\ mark' = [mark EXCEPT ![t] = @ \union {i[t]}] \/ mark' = mark
            /\ r' = [r EXCEPT ![t] = 0] \/ r' = r
        BY <1>8 DEF check_item
      <4>2. mark[t] \union {i[t]} \in SUBSET Tid
        BY <2>0 DEF TypeOK
      <4>3. mark' \in [Tid -> SUBSET Tid]
        BY <4>1, <4>2 DEF TypeOK
      <4> QED
        BY <4>1, <4>3 DEF TypeOK
    <3>2. i' \in [Tid -> 0 .. MaxThreads]
      BY <1>8, <2>0 DEF check_item, TypeOK
    <3>3. UNCHANGED <<me, count, snap, pc, m, left, passed>>
      BY <1>8 DEF check_item
    <3> QED
      BY <3>1, <3>2, <3>3 DEF TypeOK
  <2>2. Lag'
    BY <1>8 DEF check_item, Ended, Lag, TypeOK
  <2>3. Snapshot'
    BY <1>8 DEF check_item, Ended, Snapshot, Recent, Lag, TypeOK, Pcs
  <2>4. Checked'
    <3>1. \A u \in Tid : mark[u] \subseteq mark'[u]
      BY <1>8, ZenonT(30) DEF check_item, TypeOK
    <3>2. r'[t] = 1 => r[t] = 1 /\ i[t] \in mark'[t]
      BY <1>8 DEF check_item, TypeOK
    <3>3. \A j \in Tid : j < i[t] + 1 => j < i[t] \/ j = i[t]
      BY <2>0, TidNat
    <3> SUFFICES ASSUME NEW u \in Tid, NEW j \in Tid
                 PROVE  /\ pc'[u] = "check" /\ r'[u] = 1 /\ j < i'[u]
                             => j \in mark'[u]
                        /\ u \in passed' => j \in mark'[u] \/ left'[u][j] = 0
      BY DEF Checked
    <3>4. CASE u # t
      BY <1>8, <3>1, <3>4 DEF check_item, Checked, TypeOK
    <3>5. CASE u = t
      BY <1>8, <3>1, <3>2, <3>3, <3>5 DEF check_item, Checked, TypeOK
    <3> QED
      BY <3>4, <3>5
  <2>5. MarkedOnlyIfEnded'
    <3>1. AsInt(count[i[t]]) = count[i[t]]
      BY <2>0, AsIntExact DEF TypeOK
    <3>2. Ended(t, i[t]) => snap[t][i[t]] % 2 = 0 \/ count[i[t]] > snap[t][i[t]]
      BY <2>0, <3>1 DEF Ended, MarkedOnlyIfEnded
    <3>3. \A u, j \in Tid : j \in mark'[u] =>
             j \in mark[u] \/ (u = t /\ j = i[t] /\ Ended(t, i[t]))
      BY <1>8 DEF check_item, TypeOK
    <3> QED
      BY <1>8, <3>2, <3>3 DEF check_item, MarkedOnlyIfEnded
  <2> QED
    BY <2>1, <2>2, <2>3, <2>4, <2>5
<1>9. ASSUME NEW t \in Tid, check_return(t)
      PROVE  IInv'
  <2>1. TypeOK'
    BY <1>9 DEF check_return, TypeOK, Pcs
  <2>2. Lag'
    BY <1>9 DEF check_return, Lag, TypeOK
  <2>3. Snapshot'
    BY <1>9 DEF check_return, Snapshot, Recent, Lag, TypeOK, Pcs
  <2>4. Checked'
    BY <1>9 DEF check_return, Checked, Snapshot, Lag, TypeOK, Pcs
  <2>5. MarkedOnlyIfEnded'
    BY <1>9 DEF check_return, MarkedOnlyIfEnded, Lag, TypeOK
  <2> QED
    BY <2>1, <2>2, <2>3, <2>4, <2>5
<1>10. CASE UNCHANGED vars
  BY <1>10 DEF vars, TypeOK, Lag, Snapshot, Checked, Recent, MarkedOnlyIfEnded
<1> QED
  BY <1>1, <1>2, <1>3, <1>4, <1>5, <1>6, <1>7, <1>8, <1>9, <1>10
     DEF Next, Step

\* The grace period of tbar_check, for every number of threads, as long as no
\* thread has run 2^31 half-traversals (the range of the int in tbar_check).
THEOREM GracePeriodHolds ==
  ASSUME MaxCount < IntMax
  PROVE  Spec => []GracePeriod
<1>1. IInv => GracePeriod
  <2> SUFFICES ASSUME IInv, NEW t \in Tid, NEW j \in Tid,
                      t \in passed, left[t][j] % 2 = 1
               PROVE  count[j] > left[t][j]
    BY DEF GracePeriod
  <2>1. /\ count[j] \in Nat /\ snap[t][j] \in Nat /\ left[t][j] \in Nat
        /\ left[t][j] # 0 /\ count[j] >= snap[t][j]
    BY TbarConstants DEF IInv, TypeOK, Lag
  <2>2. pc[t] \in {"new", "idle", "check"}
    BY DEF IInv, TypeOK, Snapshot, Pcs
  <2>3. snap[t][j] >= left[t][j]
    BY <2>1, <2>2 DEF IInv, Snapshot, Recent
  <2>4. snap[t][j] % 2 = 0 \/ count[j] > snap[t][j]
    BY <2>1 DEF IInv, Checked, MarkedOnlyIfEnded
  <2> QED
    BY <2>1, <2>3, <2>4
<1> QED
  BY InitIInv, NextIInv, <1>1, PTL DEF Spec
=============================================================================
