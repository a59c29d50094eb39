--------------------------- MODULE SeiPhaseProofs ---------------------------
(***************************************************************************)
(* The inductive invariant of Sei, and the lemmas that what happens within *)
(* a phase (the handler, its replays, the faults) preserves it.            *)
(***************************************************************************)
EXTENDS Sei, AbufProofs

\* Entry i of log q records an access of a handler, cell by cell.
EntryOK(e) ==
  /\ <<e.addr, e.size>> \in Accesses
  /\ DOMAIN e.wvalue = Cells(e.addr, e.size)

LogsOK == \A q \in Phase : \A i \in 0 .. pushed[q] - 1 : EntryOK(buf[q][i])

\* The logs of the phases to come are empty.
Fresh == \A q \in Phase : q > p => pushed[q] = 0

\* The log of the running phase undoes it; those of the phases that have ended
\* hold their results.
Current == p >= 0 => Undoes(buf[p], pushed[p], mem, old)

Ended == \A q \in Phase : q < p => Redoes(buf[q], pushed[q], old, res[q])

\* A log never outgrows its array.
Room ==
  /\ p <= 0 => k = Len(script)
  /\ p >= 0 => pushed[p] + faults <= k + Faults

Cow == LogsOK /\ Fresh /\ Current /\ Ended

IInv == TypeOK /\ Cow /\ Room

-----------------------------------------------------------------------------
LEMMA Naturals ==
  /\ SEI_DMR_REDUNDANCY \in Nat /\ SEI_DMR_REDUNDANCY >= 2
  /\ MaxOps \in Nat /\ Faults \in Nat /\ MaxTx \in Nat
  /\ MaxLog \in Nat /\ MaxLog = MaxOps + Faults
  BY SeiConstants DEF MaxLog

LEMMA PhaseInt == Phase \subseteq Nat /\ 0 \in Phase
  BY Naturals DEF Phase

\* The operands of a write.
LEMMA OpWrite ==
  ASSUME NEW o \in Op, o.op = "write"
  PROVE  o.at \in Accesses /\ o.byte \in Byte \cup Heap
  BY DEF Op

LEMMA RunningPhase ==
  ASSUME TypeOK, p >= 0
  PROVE  p \in Phase /\ pushed[p] \in Nat /\ pushed[p] <= MaxLog
         /\ DOMAIN buf[p] = 0 .. MaxLog - 1
<1>1. p \in Int /\ level \in Int /\ p <= level - 1 /\ level <= SEI_DMR_REDUNDANCY
  BY Naturals DEF TypeOK
<1>2. p \in Phase
  BY <1>1, Naturals DEF Phase
<1> QED
  BY <1>2, Naturals DEF TypeOK

LEMMA InitIInv == Init => IInv
<1> SUFFICES ASSUME Init PROVE IInv
  OBVIOUS
<1>1. mem \in Memory /\ old \in Memory /\ Zero \in Memory
  BY DEF Init, Zero, Memory
<1>2. heap \subseteq Heap /\ p \in -1 .. level - 1
      /\ level \in 2 .. SEI_DMR_REDUNDANCY
  BY Naturals DEF Init
<1>3. pushed \in [Phase -> 0 .. MaxLog] /\ res \in [Phase -> Memory]
  BY <1>1, Naturals DEF Init
<1>4. DOMAIN buf = Phase /\ \A q \in Phase : DOMAIN buf[q] = 0 .. MaxLog - 1
  BY DEF Init, EmptyLog
<1>5. script \in Seq(Op) /\ Len(script) = 0 /\ k = 0 /\ faults \in 0 .. Faults
  BY Naturals DEF Init
<1>6. TypeOK
  BY <1>1, <1>2, <1>3, <1>4, <1>5, Naturals DEF TypeOK, Init
<1>7. Cow
  BY PhaseInt DEF Init, Cow, LogsOK, Fresh, Current, Ended
<1>8. Room
  BY <1>5 DEF Init, Room
<1> QED
  BY <1>6, <1>7, <1>8 DEF IInv

-----------------------------------------------------------------------------
\* One operation of the handler.
Typed ==
  /\ mem \in Memory
  /\ heap \subseteq Heap
  /\ pushed \in [Phase -> 0 .. MaxLog]
  /\ DOMAIN buf = Phase /\ \A q \in Phase : DOMAIN buf[q] = 0 .. MaxLog - 1

LEMMA WriteStep ==
  ASSUME TypeOK, Cow, p >= 0, pushed[p] < MaxLog, UNCHANGED txvars,
         NEW o \in Op, sei_write(o)
  PROVE  Typed' /\ Cow' /\ pushed'[p] = pushed[p] + 1
<1> DEFINE a == o.at[1]
           s == o.at[2]
           n == pushed[p]
           v == [x \in Cells(a, s) |-> o.byte]
<1>1. o.at \in Accesses /\ o.byte \in Byte \cup Heap
  BY OpWrite DEF sei_write
<1>2. o.at = <<a, s>>
  BY <1>1, SeiConstants
<1>3. /\ buf' = [buf EXCEPT ![p] = abuf_push(buf[p], n, a, s, Load(mem, a, s))]
      /\ mem' = Store(mem, v)
      /\ pushed' = [pushed EXCEPT ![p] = pushed[p] + 1]
  BY DEF sei_write
<1>4. UNCHANGED <<p, level, old, res, heap>>
  BY DEF sei_write, txvars, effectvars
<1>5. p \in Phase /\ n \in 0 .. MaxLog - 1 /\ n \in Nat
  BY RunningPhase, Naturals
<1>6. DOMAIN buf = Phase /\ DOMAIN buf[p] = 0 .. MaxLog - 1
      /\ pushed \in [Phase -> 0 .. MaxLog] /\ DOMAIN mem = Cell
  BY <1>5 DEF TypeOK, Memory
<1> DEFINE c == abuf_push(buf[p], n, a, s, Load(mem, a, s))
<1>7. /\ DOMAIN c = 0 .. MaxLog - 1
      /\ \A i \in 0 .. n - 1 : c[i] = buf[p][i]
      /\ c[n] = Entry(a, s, Load(mem, a, s))
  BY <1>5, <1>6, Naturals DEF abuf_push
<1>8. buf'[p] = c /\ \A q \in Phase : q # p => buf'[q] = buf[q]
  BY <1>3, <1>5, <1>6
<1>9. pushed'[p] = n + 1 /\ \A q \in Phase : q # p => pushed'[q] = pushed[q]
  BY <1>3, <1>5, <1>6
<1>10. n + 1 \in 0 .. MaxLog
  BY <1>5, Naturals
<1> HIDE DEF c, n, a, s, v
<1>11. Typed'
  <2>1. mem' \in Memory
    BY <1>1, <1>3, <1>6 DEF Store, v, TypeOK, Memory
  <2>2. pushed' \in [Phase -> 0 .. MaxLog]
    BY <1>3, <1>5, <1>6, <1>10 DEF n
  <2>3. DOMAIN buf' = Phase
    BY <1>3, <1>6
  <2>4. \A q \in Phase : DOMAIN buf'[q] = 0 .. MaxLog - 1
    BY <1>7, <1>8 DEF TypeOK
  <2>5. heap' \subseteq Heap
    BY <1>4 DEF TypeOK
  <2> QED
    BY <2>1, <2>2, <2>3, <2>4, <2>5 DEF Typed
<1>12. LogsOK'
  <2> SUFFICES ASSUME NEW q \in Phase, NEW i \in 0 .. pushed'[q] - 1
               PROVE  EntryOK(buf'[q][i])
    BY Zenon DEF LogsOK, EntryOK
  <2>1. CASE q # p
    BY <1>8, <1>9, <2>1 DEF Cow, LogsOK
  <2>2. CASE q = p /\ i = n
    <3>1. EntryOK(Entry(a, s, Load(mem, a, s)))
      BY <1>1, <1>2 DEF EntryOK, Entry, Load
    <3> QED
      BY <1>7, <1>8, <2>2, <3>1, Zenon
  <2>3. CASE q = p /\ i # n
    <3>1. i \in 0 .. n - 1
      BY <1>5, <1>9, <2>3
    <3>2. EntryOK(buf[p][i])
      BY <1>5, <3>1 DEF Cow, LogsOK, n
    <3> QED
      BY <1>7, <1>8, <2>3, <3>1, <3>2, Zenon
  <2> QED
    BY <2>1, <2>2, <2>3
<1>13. Fresh'
  BY <1>4, <1>9, PhaseInt DEF Cow, Fresh
<1>14. Current'
  <2>1. Undoes(buf[p], n, mem, old)
    BY DEF Cow, Current, n
  <2>2. n \in DOMAIN buf[p] /\ 0 .. n - 1 \subseteq DOMAIN buf[p]
    BY <1>5, <1>6, Naturals
  <2>3. DOMAIN v = Cells(a, s)
    BY DEF v
  <2>4. Undoes(c, n + 1, mem', old)
    BY <1>3, <1>5, <2>1, <2>2, <2>3, PushUndoes DEF c
  <2>5. Undoes(buf'[p], pushed'[p], mem', old)
    BY <1>8, <1>9, <2>4
  <2> QED
    BY <1>4, <2>5 DEF Current
<1>15. Ended'
  <2> SUFFICES ASSUME NEW q \in Phase, q < p
               PROVE  Redoes(buf'[q], pushed'[q], old, res[q])
    BY <1>4 DEF Ended
  <2>1. q # p
    BY PhaseInt, <1>5
  <2> QED
    BY <1>8, <1>9, <2>1 DEF Cow, Ended
<1> QED
  BY <1>9, <1>11, <1>12, <1>13, <1>14, <1>15 DEF Cow, n

\* The operations other than writes leave memory and the logs alone.
LEMMA OtherStep ==
  ASSUME TypeOK, Cow, UNCHANGED txvars, NEW o \in Op,
         sei_malloc(o) \/ sei_free(o) \/ send(o) \/ sei_output(o)
  PROVE  Typed' /\ Cow' /\ pushed' = pushed
<1>1. UNCHANGED <<mem, buf, pushed>>
  BY SMTT(30) DEF sei_malloc, sei_free, send, sei_output, cowvars
<1>2. heap' \subseteq Heap
  BY DEF sei_malloc, sei_free, send, sei_output, TypeOK
<1>3. UNCHANGED <<p, old, res>>
  BY DEF txvars
<1>4. Typed'
  BY <1>1, <1>2 DEF TypeOK, Typed
<1>5. Cow'
  BY <1>1, <1>3 DEF Cow, LogsOK, Fresh, Current, Ended
<1> QED
  BY <1>1, <1>4, <1>5

LEMMA ExecStep ==
  ASSUME TypeOK, Cow, p >= 0, pushed[p] < MaxLog, UNCHANGED txvars,
         NEW o \in Op, Exec(o)
  PROVE  Typed' /\ Cow' /\ pushed'[p] \in Int /\ pushed'[p] <= pushed[p] + 1
<1>1. pushed[p] \in Int
  BY RunningPhase
<1>2. CASE sei_write(o)
  BY <1>1, <1>2, WriteStep
<1>3. CASE sei_malloc(o) \/ sei_free(o) \/ send(o) \/ sei_output(o)
  BY <1>1, <1>3, OtherStep
<1> QED
  BY <1>2, <1>3 DEF Exec

-----------------------------------------------------------------------------
LEMMA PrepareStep == IInv /\ sei_prepare => IInv'
<1> SUFFICES ASSUME IInv, sei_prepare PROVE IInv'
  OBVIOUS
<1>1. UNCHANGED <<script, k, faults, p, old, res, buf, pushed, heap, status>>
  BY DEF sei_prepare, handlervars
<1>2. p = -1 /\ level' \in 2 .. SEI_DMR_REDUNDANCY
  BY SeiConstants DEF sei_prepare, Idle
<1>3. mem' \in Memory
  <2>1. mem \in Memory
    BY DEF IInv, TypeOK
  <2>2. CASE UNCHANGED mem
    BY <2>1, <2>2
  <2>3. CASE \E v \in [Msg -> Byte] : mem' = Store(mem, v)
    BY <2>1, <2>3 DEF Store, Memory
  <2>4. UNCHANGED mem \/ \E v \in [Msg -> Byte] : mem' = Store(mem, v)
    <3> SUFFICES ASSUME ~UNCHANGED mem
                 PROVE  \E v \in [Msg -> Byte] : mem' = Store(mem, v)
      OBVIOUS
    <3>1. \E v \in [Msg -> Byte], crc \in [Msg -> Byte],
             mode \in {"READ_ONLY", "READ_WRITE"} : mem' = Store(mem, v)
      BY DEF sei_prepare
    <3> QED
      BY <3>1
  <2> QED
    BY <2>2, <2>3, <2>4
<1>4. p' \in -1 .. level' - 1
  <2>1. \A l \in 2 .. SEI_DMR_REDUNDANCY : -1 \in -1 .. l - 1
    BY Naturals
  <2>2. -1 \in -1 .. level' - 1
    BY <1>2, <2>1, Zenon
  <2> QED
    BY <1>1, <1>2, <2>2, Zenon
<1>5. TypeOK'
  BY <1>1, <1>2, <1>3, <1>4, Zenon DEF IInv, TypeOK
<1>6. LogsOK' /\ Fresh'
  BY <1>1 DEF IInv, Cow, LogsOK, Fresh
<1>7. Current' /\ Ended'
  BY <1>1, <1>2, PhaseInt DEF Current, Ended
<1>8. Room'
  BY <1>1 DEF IInv, Room
<1> QED
  BY <1>5, <1>6, <1>7, <1>8 DEF IInv, Cow

LEMMA BeginStep == IInv /\ sei_begin => IInv'
<1> SUFFICES ASSUME IInv, sei_begin PROVE IInv'
  OBVIOUS
<1>1. UNCHANGED <<script, k, faults, level, res, mem, buf, pushed, heap, status>>
  BY DEF sei_begin, handlervars, cowvars, effectvars
<1>2. p = -1 /\ p' = 0 /\ old' = mem
  BY DEF sei_begin, Idle
<1>3. level \in 2 .. SEI_DMR_REDUNDANCY /\ faults \in 0 .. Faults
  BY DEF IInv, TypeOK
<1>4. p' \in -1 .. level' - 1
  BY <1>1, <1>2, <1>3, Naturals
<1>5. TypeOK'
  BY <1>1, <1>2, <1>4 DEF IInv, TypeOK
<1>6. \A q \in Phase : pushed[q] = 0
  BY <1>2, PhaseInt DEF IInv, Cow, Fresh
<1>7. LogsOK' /\ Fresh'
  BY <1>1, <1>6, PhaseInt DEF LogsOK, Fresh
<1>8. Current'
  <2>1. pushed[0] = 0
    BY <1>6, PhaseInt
  <2>2. Undoes(buf[0], 0, mem, mem)
    BY DEF Undoes, Covering
  <2> QED
    BY <1>1, <1>2, <2>1, <2>2 DEF Current
<1>9. Ended'
  BY <1>2, PhaseInt DEF Ended
<1>10. Room'
  <2>1. k = Len(script) /\ k \in Nat
    BY <1>2 DEF IInv, Room, TypeOK
  <2>2. pushed[0] + faults <= k + Faults
    BY <1>3, <1>6, <2>1, PhaseInt, Naturals
  <2> QED
    BY <1>1, <1>2, <2>1, <2>2 DEF Room
<1> QED
  BY <1>5, <1>7, <1>8, <1>9, <1>10 DEF IInv, Cow

\* The steps of the handler: ExecStep gives what concerns memory and the logs,
\* the rest is the position in the script and the budget of faults.
LEMMA HandlerStep == IInv /\ handler_step => IInv'
<1> SUFFICES ASSUME IInv, handler_step PROVE IInv'
  OBVIOUS
<1>1. p = 0 /\ k < MaxOps /\ k' = k + 1 /\ UNCHANGED <<faults, status>>
      /\ UNCHANGED txvars
  BY DEF handler_step
<1>2. PICK o \in Op : Exec(o) /\ script' = Append(script, o)
  BY DEF handler_step
<1>3. script \in Seq(Op) /\ k \in Nat /\ k = Len(script) /\ faults \in 0 .. Faults
  BY <1>1 DEF IInv, TypeOK, Room
<1>4. pushed[p] \in Nat /\ pushed[p] + faults <= k + Faults
  BY <1>1, RunningPhase DEF IInv, Room
<1>5. pushed[p] <= k + Faults /\ pushed[p] < MaxLog
  BY <1>1, <1>3, <1>4, Naturals
<1>6. Typed' /\ Cow' /\ pushed'[p] \in Int /\ pushed'[p] <= pushed[p] + 1
  BY <1>1, <1>2, <1>5, ExecStep DEF IInv
<1>7. script' \in Seq(Op) /\ Len(script') = k + 1 /\ k + 1 <= MaxOps
  BY <1>1, <1>2, <1>3, Naturals
<1>8. k' \in 0 .. Len(script')
  BY <1>1, <1>3, <1>7
<1>9. UNCHANGED <<p, level, old, res>>
  BY <1>1 DEF txvars
<1>10. TypeOK'
  BY <1>1, <1>6, <1>7, <1>8, <1>9 DEF IInv, TypeOK, Typed
<1>11. pushed'[p] + faults <= k + 1 + Faults
  BY <1>3, <1>4, <1>6, Naturals
<1>12. Room'
  BY <1>1, <1>7, <1>9, <1>11 DEF Room
<1> QED
  BY <1>6, <1>10, <1>12 DEF IInv

LEMMA ReplayStep == IInv /\ replay_step => IInv'
<1> SUFFICES ASSUME IInv, replay_step PROVE IInv'
  OBVIOUS
<1>1. p > 0 /\ k < Len(script) /\ k' = k + 1 /\ Exec(script[k + 1])
      /\ UNCHANGED <<script, faults, status>> /\ UNCHANGED txvars
  BY DEF replay_step
<1>2. script \in Seq(Op) /\ k \in Nat /\ Len(script) <= MaxOps
      /\ Len(script) \in Nat /\ faults \in 0 .. Faults /\ p \in Int
  BY Naturals DEF IInv, TypeOK
<1>3. script[k + 1] \in Op
  BY <1>1, <1>2
<1>4. pushed[p] \in Nat /\ pushed[p] + faults <= k + Faults /\ p >= 0
  BY <1>1, <1>2, RunningPhase DEF IInv, Room
<1>5. pushed[p] < MaxLog
  BY <1>1, <1>2, <1>4, Naturals
<1>6. Typed' /\ Cow' /\ pushed'[p] \in Int /\ pushed'[p] <= pushed[p] + 1
  BY <1>1, <1>3, <1>4, <1>5, ExecStep DEF IInv
<1>7. k' \in 0 .. Len(script')
  BY <1>1, <1>2
<1>8. UNCHANGED <<p, level, old, res>>
  BY <1>1 DEF txvars
<1>9. TypeOK'
  BY <1>1, <1>6, <1>7, <1>8 DEF IInv, TypeOK, Typed
<1>10. pushed'[p] + faults <= k + 1 + Faults
  BY <1>2, <1>4, <1>6, Naturals
<1>11. Room'
  BY <1>1, <1>2, <1>8, <1>10 DEF Room
<1> QED
  BY <1>6, <1>9, <1>11 DEF IInv

LEMMA SkipStep == IInv /\ skip_fault => IInv'
<1> SUFFICES ASSUME IInv, skip_fault PROVE IInv'
  OBVIOUS
<1>1. p > 0 /\ k < Len(script) /\ k' = k + 1 /\ faults' = faults - 1 /\ faults > 0
  BY DEF skip_fault
<1>2. UNCHANGED <<script, mem, buf, pushed, heap, p, level, old, res, status>>
  BY DEF skip_fault, txvars, cowvars, effectvars
<1>3. k \in Nat /\ Len(script) \in Nat /\ faults \in 0 .. Faults /\ p \in Int
  BY Naturals DEF IInv, TypeOK
<1>4. k' \in 0 .. Len(script') /\ faults' \in 0 .. Faults
  BY <1>1, <1>2, <1>3, Naturals
<1>5. TypeOK'
  BY <1>2, <1>4, SMTT(30) DEF IInv, TypeOK
<1>6. Cow'
  BY <1>2 DEF IInv, Cow, LogsOK, Fresh, Current, Ended
<1>7. pushed[p] \in Nat /\ pushed[p] + faults <= k + Faults
  BY <1>1, <1>3, RunningPhase DEF IInv, Room
<1>8. pushed[p] + faults' <= k' + Faults
  BY <1>1, <1>3, <1>7, Naturals
<1>9. Room'
  BY <1>1, <1>2, <1>3, <1>8 DEF Room
<1> QED
  BY <1>5, <1>6, <1>9 DEF IInv

\* A fault spends one unit of the budget and pushes at most one entry.
LEMMA FaultSpent ==
  ASSUME NEW n \in Int, NEW m \in Int, NEW f \in Int, NEW i \in Int, NEW j \in Int,
         NEW b \in Int, m + f <= i + b, n <= m + 1, i <= j
  PROVE  n + (f - 1) <= j + b
  OBVIOUS

LEMMA OpFaultStep == IInv /\ op_fault => IInv'
<1> SUFFICES ASSUME IInv, op_fault PROVE IInv'
  OBVIOUS
<1>1. p > 0 /\ faults > 0 /\ k' \in {k, k + 1} /\ k' <= Len(script)
      /\ faults' = faults - 1 /\ UNCHANGED <<script, status>> /\ UNCHANGED txvars
  BY DEF op_fault
<1>2. PICK o \in Op : Exec(o)
  BY DEF op_fault
<1>3. k \in Nat /\ Len(script) \in Nat /\ Len(script) <= MaxOps /\ k <= Len(script)
      /\ faults \in 0 .. Faults /\ p \in Int
  BY Naturals DEF IInv, TypeOK
<1>4. pushed[p] \in Nat /\ pushed[p] + faults <= k + Faults /\ p >= 0
  BY <1>1, <1>3, RunningPhase DEF IInv, Room
<1>5. pushed[p] < MaxLog
  BY <1>1, <1>3, <1>4, Naturals
<1>6. Typed' /\ Cow' /\ pushed'[p] \in Int /\ pushed'[p] <= pushed[p] + 1
  BY <1>1, <1>2, <1>4, <1>5, ExecStep DEF IInv
<1>7. k' \in 0 .. Len(script') /\ faults' \in 0 .. Faults
  BY <1>1, <1>3, Naturals
<1>8. UNCHANGED <<p, level, old, res>>
  BY <1>1 DEF txvars
<1>9. TypeOK'
  BY <1>1, <1>6, <1>7, <1>8 DEF IInv, TypeOK, Typed
<1>10. pushed'[p] + faults' <= k' + Faults
  <2>1. k' \in Int /\ k \in Int /\ k <= k'
    BY <1>1, <1>3
  <2>2. faults \in Int /\ Faults \in Int /\ pushed[p] \in Int
    BY <1>3, <1>4, Naturals
  <2>3. pushed'[p] \in Int /\ pushed'[p] <= pushed[p] + 1
    BY <1>6
  <2>4. pushed[p] + faults <= k + Faults
    BY <1>4
  <2>5. pushed'[p] + (faults - 1) <= k' + Faults
    BY <2>1, <2>2, <2>3, <2>4, FaultSpent
  <2> QED
    BY <1>1, <2>5
<1>11. Room'
  BY <1>1, <1>3, <1>8, <1>10 DEF Room
<1> QED
  BY <1>6, <1>9, <1>11 DEF IInv
=============================================================================
