----------------------------- MODULE SeiProofs ------------------------------
(***************************************************************************)
(* Theorems about Sei for every memory layout, redundancy level, handler   *)
(* and number of faults and transactions.                                  *)
(***************************************************************************)
EXTENDS SeiPhaseProofs

\* Memory before the phase is restored, its results stay in its log.
LEMMA SwitchStep == IInv /\ sei_switch => IInv'
<1> SUFFICES ASSUME IInv, sei_switch PROVE IInv'
  OBVIOUS
<1> DEFINE n == pushed[p]
           c == abuf_swap_buf(buf[p], n, mem)
<1>1. p >= 0 /\ p < level - 1 /\ p' = p + 1 /\ k' = 0
      /\ (p = 0 \/ k = Len(script))
  BY DEF sei_switch, PhaseDone, Running
<1>2. /\ mem' = abuf_swap_mem(buf[p], n, mem)
      /\ buf' = [buf EXCEPT ![p] = c]
      /\ res' = [res EXCEPT ![p] = mem]
  BY DEF sei_switch
<1>3. UNCHANGED <<script, faults, level, old, pushed, heap, status>>
  BY DEF sei_switch
<1>4. /\ mem \in Memory
      /\ old \in Memory
      /\ DOMAIN buf = Phase /\ res \in [Phase -> Memory]
      /\ pushed \in [Phase -> 0 .. MaxLog]
      /\ level \in 2 .. SEI_DMR_REDUNDANCY /\ p \in Int
      /\ faults \in 0 .. Faults
  BY DEF IInv, TypeOK
<1>5. p \in Phase /\ n \in Nat /\ n <= MaxLog /\ DOMAIN buf[p] = 0 .. MaxLog - 1
  BY <1>1, RunningPhase DEF IInv
<1>6. 0 .. n - 1 \subseteq DOMAIN buf[p]
  BY <1>5, Naturals
<1>7. Undoes(buf[p], n, mem, old)
  BY <1>1 DEF IInv, Cow, Current
<1>8. old = [x \in DOMAIN mem |-> old[x]] /\ DOMAIN old = DOMAIN mem
  BY <1>4 DEF Memory
<1>9. abuf_swap_mem(buf[p], n, mem) = old
  BY <1>5, <1>7, <1>8, SwapRestores
<1>10. mem' = old
  BY <1>2, <1>9
<1>11. buf'[p] = c /\ \A q \in Phase : q # p => buf'[q] = buf[q]
  BY <1>2, <1>4, <1>5
<1>12. res'[p] = mem /\ \A q \in Phase : q # p => res'[q] = res[q]
  BY <1>2, <1>4, <1>5
<1>13. DOMAIN buf' = Phase /\ res' \in [Phase -> Memory]
  BY <1>2, <1>4, ZenonT(30)
<1>14. /\ DOMAIN c = 0 .. MaxLog - 1
       /\ \A i \in 0 .. n - 1 :
            /\ c[i].addr = buf[p][i].addr /\ c[i].size = buf[p][i].size
            /\ DOMAIN c[i].wvalue = DOMAIN buf[p][i].wvalue
  <2>1. DOMAIN c = DOMAIN buf[p]
    BY Zenon DEF abuf_swap_buf
  <2>2. ASSUME NEW i \in 0 .. n - 1
        PROVE  /\ c[i].addr = buf[p][i].addr /\ c[i].size = buf[p][i].size
               /\ DOMAIN c[i].wvalue = DOMAIN buf[p][i].wvalue
    <3> HIDE DEF n
    <3>1. i \in 0 .. n - 1 /\ n \in Nat
      BY <1>5
    <3>2. i \in DOMAIN buf[p] /\ ~(i >= n)
      BY <1>6, <3>1
    <3> QED
      BY <3>2 DEF abuf_swap_buf, Entry
  <2> QED
    BY <1>5, <2>1, <2>2
<1>15. Redoes(c, n, old, mem)
  BY <1>5, <1>6, <1>8, <1>9, SwapRedoes, Zenon
<1>16. p + 1 \in Phase /\ p' \in -1 .. level' - 1
  BY <1>1, <1>3, <1>4, Naturals, SMTT(30) DEF Phase
<1> HIDE DEF n, c
<1>17. TypeOK'
  <2>1. \A q \in Phase : DOMAIN buf'[q] = 0 .. MaxLog - 1
    BY <1>11, <1>14 DEF IInv, TypeOK
  <2>2. k' \in 0 .. Len(script')
    BY <1>1, <1>3 DEF IInv, TypeOK
  <2> QED
    BY <1>3, <1>4, <1>10, <1>13, <1>16, <2>1, <2>2, ZenonT(30) DEF IInv, TypeOK
<1>18. LogsOK'
  <2> SUFFICES ASSUME NEW q \in Phase, NEW i \in 0 .. pushed[q] - 1
               PROVE  EntryOK(buf'[q][i])
    BY <1>3, Zenon DEF LogsOK, EntryOK
  <2>1. EntryOK(buf[q][i])
    BY DEF IInv, Cow, LogsOK
  <2>2. CASE q # p
    BY <1>11, <2>1, <2>2
  <2>3. CASE q = p
    BY <1>11, <1>14, <2>1, <2>3, Zenon DEF EntryOK, n
  <2> QED
    BY <2>2, <2>3
<1>19. Fresh'
  BY <1>1, <1>3, <1>4, PhaseInt DEF IInv, Cow, Fresh
<1>20. pushed[p + 1] = 0
  BY <1>4, <1>16 DEF IInv, Cow, Fresh
<1>21. Current'
  <2>1. Undoes(buf'[p + 1], 0, old, old)
    BY DEF Undoes, Covering
  <2> QED
    BY <1>1, <1>3, <1>10, <1>20, <2>1 DEF Current
<1>22. Ended'
  <2> SUFFICES ASSUME NEW q \in Phase, q < p + 1
               PROVE  Redoes(buf'[q], pushed[q], old, res'[q])
    BY <1>1, <1>3 DEF Ended
  <2>1. CASE q = p
    BY <1>11, <1>12, <1>15, <2>1 DEF n
  <2>2. CASE q # p
    <3>1. q < p
      BY <1>4, <2>2, PhaseInt
    <3> QED
      BY <1>11, <1>12, <2>2, <3>1 DEF IInv, Cow, Ended
  <2> QED
    BY <2>1, <2>2
<1>23. Room'
  BY <1>1, <1>3, <1>4, <1>20, Naturals DEF Room
<1> QED
  BY <1>17, <1>18, <1>19, <1>21, <1>22, <1>23 DEF IInv, Cow

LEMMA CommitStep == IInv /\ sei_commit => IInv'
<1> SUFFICES ASSUME IInv, sei_commit PROVE IInv'
  OBVIOUS
<1>1. p >= 0 /\ p = level - 1 /\ p' = -1 /\ script' = <<>> /\ k' = 0
  BY DEF sei_commit, finish, CommitPoint, PhaseDone, Running
<1>2. /\ pushed' = [q \in Phase |-> IF q < level THEN 0 ELSE pushed[q]]
      /\ old' = Zero /\ res' = [q \in Phase |-> Zero] /\ heap' = Live(0)
  BY DEF sei_commit, finish
<1>3. UNCHANGED <<faults, level, mem, buf, status>>
  BY DEF sei_commit, finish
<1>4. /\ level \in 2 .. SEI_DMR_REDUNDANCY
      /\ pushed \in [Phase -> 0 .. MaxLog] /\ heap \subseteq Heap
  BY DEF IInv, TypeOK
<1>5. \A q \in Phase : pushed'[q] = 0
  <2> SUFFICES ASSUME NEW q \in Phase, ~(q < level) PROVE pushed[q] = 0
    BY <1>2
  <2>1. q > p
    BY <1>1, <1>4, PhaseInt, Naturals
  <2> QED
    BY <2>1 DEF IInv, Cow, Fresh
<1>6. old' \in Memory /\ res' \in [Phase -> Memory]
  BY <1>2 DEF Zero, Memory
<1>7. pushed' \in [Phase -> 0 .. MaxLog]
  BY <1>2, <1>4, Naturals
<1>8. heap' \subseteq Heap
  BY <1>2, <1>4 DEF Live
<1>9. script' \in Seq(Op) /\ Len(script') = 0
  BY <1>1
<1>10. p' \in -1 .. level' - 1
  <2>1. \A l \in 2 .. SEI_DMR_REDUNDANCY : -1 \in -1 .. l - 1
    BY Naturals
  <2> QED
    BY <1>1, <1>3, <1>4, <2>1
<1>11. k' \in 0 .. Len(script') /\ Len(script') <= MaxOps
  BY <1>1, <1>9, Naturals, SMTT(30)
<1>12. TypeOK'
  BY <1>2, <1>3, <1>6, <1>7, <1>8, <1>9, <1>10, <1>11, SMTT(30) DEF IInv, TypeOK
<1>13. LogsOK' /\ Fresh'
  BY <1>5 DEF LogsOK, Fresh
<1>14. Current' /\ Ended'
  BY <1>1, PhaseInt DEF Current, Ended
<1>15. Room'
  BY <1>1, <1>9 DEF Room
<1> QED
  BY <1>12, <1>13, <1>14, <1>15 DEF IInv, Cow

\* Steps that touch neither memory nor the logs nor the handler.
LEMMA IdleStep ==
  ASSUME IInv, UNCHANGED <<script, k, faults, p, level, old, res, mem, buf,
                           pushed, heap>>,
         status' \in {"run", "exit"}
  PROVE  IInv'
<1>1. TypeOK'
  BY SMTT(30) DEF IInv, TypeOK
<1>2. Cow'
  BY DEF IInv, Cow, LogsOK, Fresh, Current, Ended
<1>3. Room'
  BY DEF IInv, Room
<1> QED
  BY <1>1, <1>2, <1>3 DEF IInv

LEMMA ExitStep ==
  ASSUME IInv,
         \/ commit_refused \/ commit_broken
         \/ sei_output_next \/ output_failed
  PROVE  IInv'
<1>1. CASE commit_refused
  <2>1. UNCHANGED <<script, k, faults, p, level, old, res, mem, buf, pushed, heap>>
    BY <1>1 DEF commit_refused, Exit, handlervars, txvars, cowvars
  <2>2. status' = "exit"
    BY <1>1 DEF commit_refused, Exit
  <2> QED
    BY <2>1, <2>2, IdleStep
<1>2. CASE commit_broken
  <2>1. UNCHANGED <<script, k, faults, p, level, old, res, mem, buf, pushed, heap>>
    BY <1>2 DEF commit_broken, Exit, handlervars, txvars, cowvars
  <2>2. status' = "exit"
    BY <1>2 DEF commit_broken, Exit
  <2> QED
    BY <2>1, <2>2, IdleStep
<1>3. CASE sei_output_next
  <2>1. UNCHANGED <<script, k, faults, p, level, old, res, mem, buf, pushed, heap>>
    BY <1>3 DEF sei_output_next, Exit, handlervars, txvars, cowvars
  <2>2. status' = status \/ status' = "exit"
    BY <1>3 DEF sei_output_next, Exit
  <2>3. status \in {"run", "exit"}
    BY DEF IInv, TypeOK
  <2> QED
    BY <2>1, <2>2, <2>3, IdleStep
<1>4. CASE output_failed
  <2>1. UNCHANGED <<script, k, faults, p, level, old, res, mem, buf, pushed, heap>>
    BY <1>4 DEF output_failed, Exit, handlervars, txvars, cowvars
  <2>2. status' = "exit"
    BY <1>4 DEF output_failed, Exit
  <2> QED
    BY <2>1, <2>2, IdleStep
<1> QED
  BY <1>1, <1>2, <1>3, <1>4

LEMMA NextIInv == IInv /\ [Next]_vars => IInv'
<1> SUFFICES ASSUME IInv, [Next]_vars PROVE IInv'
  OBVIOUS
<1>1. CASE UNCHANGED vars
  <2>1. UNCHANGED <<script, k, faults, p, level, old, res, mem, buf, pushed,
                    heap>> /\ UNCHANGED status
    BY <1>1 DEF vars, handlervars, txvars, cowvars, effectvars
  <2> QED
    BY <2>1, IdleStep DEF IInv, TypeOK
<1>2. CASE handler
  BY <1>2, HandlerStep, ReplayStep, SkipStep, OpFaultStep DEF handler
<1> QED
  BY <1>1, <1>2, PrepareStep, BeginStep, SwitchStep, ExitStep, CommitStep
     DEF Next

LEMMA IInvHolds == Spec => []IInv
  BY InitIInv, NextIInv, PTL DEF Spec

-----------------------------------------------------------------------------
\* The logs fit their arrays and memory holds only what handlers store, in
\* every behaviour (the bounds checks of abuf_push and sei_switch).
THEOREM TypeCorrect == Spec => []TypeOK
<1>1. IInv => TypeOK
  BY DEF IInv
<1> QED
  BY <1>1, IInvHolds, PTL

\* SEI_WRITE and abuf_swap fit together: whatever a phase and the faults in it
\* have written, swapping its log gives back the memory of __sei_begin.
THEOREM UndoLogHolds == Spec => []UndoLog
<1>1. IInv => UndoLog
  <2> SUFFICES ASSUME IInv, p >= 0
               PROVE  abuf_swap_mem(buf[p], pushed[p], mem) = old
    BY DEF UndoLog, Running
  <2>1. old = [x \in DOMAIN mem |-> old[x]]
    BY DEF IInv, TypeOK, Memory
  <2>2. Undoes(buf[p], pushed[p], mem, old) /\ pushed[p] \in Nat
    BY RunningPhase DEF IInv, Cow, Current
  <2> QED
    BY <2>1, <2>2, SwapRestores
<1> QED
  BY <1>1, IInvHolds, PTL

-----------------------------------------------------------------------------
\* Handlers access an address with one size only.
UniformAccesses == \A a, b \in Accesses : a[1] = b[1] => a[2] = b[2]

\* Only sei_commit ends a transaction.
LEMMA OnlyCommit ==
  ASSUME IInv, [Next]_vars, Committing PROVE sei_commit
<1>1. p \in Int /\ p' # p
  BY DEF IInv, TypeOK, Committing
<1>2. ~handler /\ ~UNCHANGED vars
  BY <1>1 DEF handler, handler_step, replay_step, skip_fault, op_fault, txvars,
              vars
<1>3. ~sei_prepare /\ ~sei_output_next /\ ~output_failed
  BY <1>1 DEF sei_prepare, sei_output_next, output_failed, Exit, txvars
<1>4. ~commit_refused /\ ~commit_broken
  BY <1>1 DEF commit_refused, commit_broken, Exit, txvars
<1>5. ~sei_begin /\ ~sei_switch
  BY <1>1 DEF Committing, sei_begin, sei_switch, PhaseDone, Running
<1> QED
  BY <1>2, <1>3, <1>4, <1>5 DEF Next

\* At the commit of a transaction of level 2, memory is phase 0's result in
\* every cell of its log.
LEMMA CommitVerified ==
  ASSUME UniformAccesses, IInv, [Next]_vars, Committing, level = 2,
         NEW x \in Cell, Covering(buf[0], pushed[0], x) # {}
  PROVE  mem[x] = res[0][x]
<1> DEFINE b == buf[0]
           n == pushed[0]
           r == res[0]
<1>1. p = 1 /\ abuf_cmp_heap(buf, pushed, mem, NDEBUG)
  <2>1. sei_commit
    BY OnlyCommit
  <2>2. p = level - 1 /\ Compared
    BY <2>1 DEF sei_commit, CommitPoint
  <2> QED
    BY <2>2 DEF Compared
<1>2. n \in Nat /\ 0 \in Phase
  <2>1. pushed[0] \in 0 .. MaxLog /\ 0 \in Phase
    BY PhaseInt DEF IInv, TypeOK
  <2> QED
    BY <2>1, Naturals
<1>3. Redoes(b, n, old, r)
  BY <1>1, <1>2 DEF IInv, Cow, Ended
<1>4. \A i \in 0 .. n - 1 : EntryOK(b[i])
  BY <1>2 DEF IInv, Cow, LogsOK
<1>5. WellFormed(b, n)
  BY <1>4, Zenon DEF WellFormed, EntryOK
<1>6. SameSize(b, n)
  <2> SUFFICES ASSUME NEW i \in 0 .. n - 1, NEW j \in 0 .. n - 1,
                      b[i].addr = b[j].addr
               PROVE  b[i].size = b[j].size
    BY DEF SameSize
  <2>1. <<b[i].addr, b[i].size>> \in Accesses /\ <<b[j].addr, b[j].size>> \in Accesses
    BY <1>4 DEF EntryOK
  <2> HIDE DEF b
  <2> QED
    BY <2>1 DEF UniformAccesses
<1>7. \A i \in Conflicts(b, n, mem) : Overwritten(b, n, i)
  BY <1>1 DEF abuf_cmp_heap
<1>8. x \in DOMAIN old
  BY DEF IInv, TypeOK, Memory
<1>9. Covering(b, n, x) # {}
  OBVIOUS
<1> HIDE DEF b, n, r
<1>10. mem[x] = r[x]
  BY <1>2, <1>3, <1>5, <1>6, <1>7, <1>8, <1>9, ComparedEqual, SMTT(30)
<1> QED
  BY <1>10 DEF r

\* In every build: a cell that phase 0 wrote is committed only with the value
\* that phase 0 computed, if every address is accessed with one size.
THEOREM VerifiedWritesHold ==
  ASSUME UniformAccesses PROVE Spec => VerifiedWrites
<1>1. IInv /\ [Next]_vars =>
        [Committing /\ level = 2 =>
           \A x \in Written(0) : mem[x] = res[0][x]]_vars
  <2> SUFFICES ASSUME IInv, [Next]_vars, Committing, level = 2,
                      NEW x \in Written(0)
               PROVE  mem[x] = res[0][x]
    OBVIOUS
  <2>1. x \in Cell /\ Covering(buf[0], pushed[0], x) # {}
    BY DEF Written
  <2> QED
    BY <2>1, CommitVerified
<1> QED
  BY <1>1, IInvHolds, PTL DEF Spec, VerifiedWrites

\* In the debug build, which asserts that the logs have the same length and
\* sizes, the two executions of a committed transaction agree on all of memory.
THEOREM AgreementHolds ==
  ASSUME UniformAccesses, ~NDEBUG, SEI_DMR_REDUNDANCY = 2
  PROVE  Spec => Agreement
<1>1. ASSUME IInv, [Next]_vars, Committing
      PROVE  \A q \in 0 .. level - 2 : res[q] = mem
  <2>1. level = 2
    BY <1>1 DEF IInv, TypeOK
  <2>2. p = 1 /\ abuf_cmp_heap(buf, pushed, mem, NDEBUG)
    BY <1>1, <2>1, OnlyCommit DEF sei_commit, CommitPoint, Compared
  <2>3. SameSizes(buf, pushed, 1) /\ SameAddrs(buf, pushed, 1)
    BY <2>2 DEF abuf_cmp_heap
  <2>4. 0 \in Phase /\ 1 \in Phase
    BY DEF Phase
  <2>5. \A x : Covering(buf[0], pushed[0], x) = Covering(buf[1], pushed[1], x)
    <3>1. \A i \in 0 .. pushed[0] - 1 : DOMAIN buf[0][i].wvalue = DOMAIN buf[1][i].wvalue
      BY <1>1, <2>3, <2>4, Zenon DEF IInv, Cow, LogsOK, EntryOK, SameSizes, SameAddrs
    <3>2. pushed[0] = pushed[1]
      BY <2>3 DEF SameSizes
    <3> QED
      BY <3>1, <3>2 DEF Covering
  <2>6. Redoes(buf[0], pushed[0], old, res[0])
    BY <1>1, <2>2, <2>4 DEF IInv, Cow, Ended
  <2>7. Undoes(buf[1], pushed[1], mem, old)
    BY <1>1, <2>2 DEF IInv, Cow, Current
  <2>8. mem \in Memory /\ old \in Memory /\ res[0] \in Memory
    BY <1>1, <2>4 DEF IInv, TypeOK
  <2>9. ASSUME NEW x \in Cell PROVE res[0][x] = mem[x]
    <3>1. CASE Covering(buf[0], pushed[0], x) # {}
      BY <1>1, <2>1, <3>1, CommitVerified
    <3>2. CASE Covering(buf[0], pushed[0], x) = {}
      BY <2>5, <2>6, <2>7, <2>8, <3>2 DEF Redoes, Undoes, Memory
    <3> QED
      BY <3>1, <3>2
  <2>10. res[0] = mem
    BY <2>8, <2>9 DEF Memory
  <2> QED
    BY <2>1, <2>10
<1>2. IInv /\ [Next]_vars =>
        [Committing => \A q \in 0 .. level - 2 : res[q] = mem]_vars
  BY <1>1
<1> QED
  BY <1>2, IInvHolds, PTL DEF Spec, Agreement
=============================================================================
