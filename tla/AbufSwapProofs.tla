--------------------------- MODULE AbufSwapProofs ---------------------------
(***************************************************************************)
(* The loop of abuf_swap computes the closed forms of Abuf, for logs of    *)
(* any length, any accesses and any memory.                                *)
(***************************************************************************)
EXTENDS AbufSwap, AbufProofs

\* The entries of cell x after entry j, and the value the first of them has
\* taken from memory or memory itself holds.
Later(x, j) == {l \in Covering(b0, pushed, x) : l > j}

Value(x, j) ==
  IF Later(x, j) = {} THEN mem0[x] ELSE b0[First(Later(x, j))].wvalue[x]

\* Loop invariant: the entries after i have been exchanged.
MemSwapped == \A x \in Cell : mem[x] = Value(x, i)

BufSwapped ==
  \A j \in 0 .. pushed - 1 :
    b[j] = IF j > i
             THEN Entry(b0[j].addr, b0[j].size,
                        [x \in DOMAIN b0[j].wvalue |-> Value(x, j)])
             ELSE b0[j]

LInv == TypeOK /\ MemSwapped /\ BufSwapped

-----------------------------------------------------------------------------
\* A logged entry holds one byte for each cell of its access.
LEMMA LoggedEntry ==
  ASSUME NEW e \in Logged
  PROVE  /\ e = Entry(e.addr, e.size, e.wvalue)
         /\ e.wvalue \in [Cells(e.addr, e.size) -> Byte]
         /\ Cells(e.addr, e.size) \subseteq Cell
         /\ <<e.addr, e.size>> \in Accesses
<1>1. PICK a \in Accesses : e \in {Entry(a[1], a[2], v) :
                                     v \in [Cells(a[1], a[2]) -> Byte]}
  BY DEF Logged
<1>2. PICK v \in [Cells(a[1], a[2]) -> Byte] : e = Entry(a[1], a[2], v)
  BY <1>1
<1>3. e.addr = a[1] /\ e.size = a[2] /\ e.wvalue = v
  BY <1>2 DEF Entry
<1>4. a = <<a[1], a[2]>> /\ Cells(a[1], a[2]) \subseteq Cell
  BY SwapConstants
<1> QED
  BY <1>2, <1>3, <1>4

LEMMA EntryLogged ==
  ASSUME NEW a, NEW s, <<a, s>> \in Accesses, NEW v \in [Cells(a, s) -> Byte]
  PROVE  Entry(a, s, v) \in Logged
<1> DEFINE acc == <<a, s>>
<1>1. acc \in Accesses /\ acc[1] = a /\ acc[2] = s
  OBVIOUS
<1>2. Entry(a, s, v) \in {Entry(acc[1], acc[2], w) :
                            w \in [Cells(acc[1], acc[2]) -> Byte]}
  BY <1>1
<1> HIDE DEF acc
<1> QED
  BY <1>1, <1>2 DEF Logged

LEMMA InitLInv == Init => LInv
<1> SUFFICES ASSUME Init PROVE LInv
  OBVIOUS
<1>1. pushed \in Nat /\ i = pushed - 1 /\ b0 = b /\ mem0 = mem
  BY SwapConstants DEF Init
<1>2. TypeOK
  BY <1>1 DEF Init, TypeOK
<1>3. \A x : Later(x, i) = {}
  BY <1>1, CoveringIndex DEF Later
<1>4. MemSwapped
  BY <1>1, <1>3 DEF MemSwapped, Value
<1>5. BufSwapped
  BY <1>1 DEF BufSwapped
<1> QED
  BY <1>2, <1>4, <1>5 DEF LInv

LEMMA SwapStep == LInv /\ ABUF_SWAP => LInv'
<1> SUFFICES ASSUME LInv, ABUF_SWAP PROVE LInv'
  OBVIOUS
<1> DEFINE e == b[i]
           c == Entry(e.addr, e.size, Load(mem, e.addr, e.size))
<1>1. /\ i >= 0 /\ i' = i - 1
      /\ b' = [b EXCEPT ![i] = c]
      /\ mem' = Store(mem, e.wvalue)
      /\ UNCHANGED <<pushed, b0, mem0>>
  BY DEF ABUF_SWAP
<1>2. /\ pushed \in Nat /\ i \in -1 .. pushed - 1
      /\ b \in [0 .. pushed - 1 -> Logged] /\ b0 \in [0 .. pushed - 1 -> Logged]
      /\ mem \in [Cell -> Byte] /\ mem0 \in [Cell -> Byte]
  BY DEF LInv, TypeOK
<1>3. i \in 0 .. pushed - 1 /\ i' \in -1 .. pushed - 1 /\ i \in Int
  BY <1>1, <1>2
<1>4. e \in Logged /\ e = b0[i]
  <2>1. \A j \in 0 .. pushed - 1 : ~(j > i) => b[j] = b0[j]
    BY Zenon DEF LInv, BufSwapped
  <2>2. ~(i > i)
    BY <1>3
  <2> QED
    BY <1>2, <1>3, <2>1, <2>2
<1> HIDE DEF e
<1>5. /\ e.wvalue \in [Cells(e.addr, e.size) -> Byte]
      /\ Cells(e.addr, e.size) \subseteq Cell
      /\ <<e.addr, e.size>> \in Accesses
  BY <1>4, LoggedEntry
<1>6. Load(mem, e.addr, e.size) \in [Cells(e.addr, e.size) -> Byte]
  BY <1>2, <1>5 DEF Load
<1>7. c \in Logged
  BY <1>5, <1>6, EntryLogged
<1> HIDE DEF c
<1>8. TypeOK'
  <2>1. b' \in [0 .. pushed - 1 -> Logged]
    BY <1>1, <1>2, <1>3, <1>7
  <2>2. mem' \in [Cell -> Byte]
    BY <1>1, <1>2, <1>5 DEF Store
  <2> QED
    BY <1>1, <1>2, <1>3, <2>1, <2>2 DEF TypeOK
<1>9. \A x, j : Later(x, j)' = Later(x, j) /\ Value(x, j)' = Value(x, j)
  BY <1>1 DEF Later, Value
<1>10. MemSwapped'
  <2> SUFFICES ASSUME NEW x \in Cell PROVE mem'[x] = Value(x, i - 1)
    BY <1>1, <1>9 DEF MemSwapped
  <2>1. mem[x] = Value(x, i)
    BY DEF LInv, MemSwapped
  <2>2. Covering(b0, pushed, x) \subseteq 0 .. pushed - 1
    BY <1>2, CoveringIndex
  <2>3. CASE x \in DOMAIN e.wvalue
    <3>1. i \in Later(x, i - 1) /\ Later(x, i - 1) \in SUBSET Nat
          /\ \A l \in Later(x, i - 1) : i <= l
      BY <1>2, <1>3, <1>4, <2>2, <2>3 DEF Later, Covering
    <3>2. First(Later(x, i - 1)) \in Later(x, i - 1)
          /\ First(Later(x, i - 1)) <= i
      BY <3>1, FirstLeast
    <3>3. First(Later(x, i - 1)) \in Nat /\ i \in Nat
      BY <1>3, <3>1, <3>2
    <3>4. First(Later(x, i - 1)) = i
      BY <3>1, <3>2, <3>3
    <3>5. Value(x, i - 1) = b0[i].wvalue[x]
      BY <3>1, <3>4 DEF Value
    <3>6. mem'[x] = e.wvalue[x]
      BY <1>1, <1>2, <2>3 DEF Store
    <3> QED
      BY <1>4, <3>5, <3>6
  <2>4. CASE x \notin DOMAIN e.wvalue
    <3>1. i \notin Covering(b0, pushed, x)
      BY <1>4, <2>4 DEF Covering
    <3>2. Later(x, i - 1) = Later(x, i)
      BY <1>3, <2>2, <3>1 DEF Later
    <3>3. mem'[x] = mem[x]
      BY <1>1, <1>2, <2>4 DEF Store
    <3> QED
      BY <2>1, <3>2, <3>3 DEF Value
  <2> QED
    BY <2>3, <2>4
<1>11. BufSwapped'
  <2> SUFFICES ASSUME NEW j \in 0 .. pushed - 1
               PROVE  b'[j] = IF j > i - 1
                        THEN Entry(b0[j].addr, b0[j].size,
                               [x \in DOMAIN b0[j].wvalue |-> Value(x, j)])
                        ELSE b0[j]
    BY <1>1, <1>9 DEF BufSwapped
  <2>1. b[j] = IF j > i
                 THEN Entry(b0[j].addr, b0[j].size,
                            [x \in DOMAIN b0[j].wvalue |-> Value(x, j)])
                 ELSE b0[j]
    BY DEF LInv, BufSwapped
  <2>2. CASE j # i
    <3>1. b'[j] = b[j] /\ (j > i - 1 <=> j > i)
      BY <1>1, <1>2, <1>3, <2>2
    <3> QED
      BY <2>1, <3>1
  <2>3. CASE j = i
    <3>1. b'[i] = c /\ j > i - 1
      BY <1>1, <1>2, <1>3, <2>3
    <3>2. Load(mem, e.addr, e.size) = [x \in DOMAIN e.wvalue |-> Value(x, i)]
      BY <1>5 DEF LInv, MemSwapped, Load
    <3>3. c = Entry(e.addr, e.size, [x \in DOMAIN e.wvalue |-> Value(x, i)])
      BY <3>2 DEF c
    <3> QED
      BY <1>4, <2>3, <3>1, <3>3
  <2> QED
    BY <2>2, <2>3
<1> QED
  BY <1>8, <1>10, <1>11 DEF LInv

-----------------------------------------------------------------------------
\* The loop of abuf_swap and the closed forms that Sei uses agree.
THEOREM SwapResultHolds == Spec => []SwapResult
<1>1. LInv /\ [Next]_vars => LInv'
  <2> SUFFICES ASSUME LInv, UNCHANGED vars PROVE LInv'
    BY SwapStep DEF Next, Done
  <2>1. UNCHANGED <<b, mem, i, pushed, b0, mem0>>
    BY DEF vars
  <2> QED
    BY <2>1, Zenon DEF LInv, TypeOK, MemSwapped, BufSwapped, Value, Later
<1>2. LInv => SwapResult
  <2> SUFFICES ASSUME LInv, i = -1
               PROVE  /\ mem = abuf_swap_mem(b0, pushed, mem0)
                      /\ b = abuf_swap_buf(b0, pushed, mem0)
    BY DEF SwapResult
  <2>1. /\ pushed \in Nat
        /\ b \in [0 .. pushed - 1 -> Logged] /\ b0 \in [0 .. pushed - 1 -> Logged]
        /\ mem \in [Cell -> Byte] /\ mem0 \in [Cell -> Byte]
    BY DEF LInv, TypeOK
  <2>2. \A x : Later(x, -1) = Covering(b0, pushed, x)
    BY <2>1, CoveringIndex DEF Later
  <2>3. mem = abuf_swap_mem(b0, pushed, mem0)
    BY <2>1, <2>2 DEF LInv, MemSwapped, Value, abuf_swap_mem
  <2>4. ASSUME NEW j \in 0 .. pushed - 1
        PROVE  b[j] = Entry(b0[j].addr, b0[j].size,
                            [x \in DOMAIN b0[j].wvalue |-> Value(x, j)])
    BY <2>1 DEF LInv, BufSwapped
  <2>5. ASSUME NEW j \in 0 .. pushed - 1
        PROVE  b[j] = abuf_swap_buf(b0, pushed, mem0)[j]
    <3>1. j \in DOMAIN b0 /\ ~(j >= pushed)
      BY <2>1
    <3>2. abuf_swap_buf(b0, pushed, mem0)[j]
            = Entry(b0[j].addr, b0[j].size,
                    [x \in DOMAIN b0[j].wvalue |->
                       IF {l \in Covering(b0, pushed, x) : l > j} = {}
                         THEN mem0[x]
                         ELSE b0[First({l \in Covering(b0, pushed, x) : l > j})]
                                .wvalue[x]])
      BY <3>1, Zenon DEF abuf_swap_buf
    <3>3. b[j] = Entry(b0[j].addr, b0[j].size,
                    [x \in DOMAIN b0[j].wvalue |->
                       IF {l \in Covering(b0, pushed, x) : l > j} = {}
                         THEN mem0[x]
                         ELSE b0[First({l \in Covering(b0, pushed, x) : l > j})]
                                .wvalue[x]])
      BY <2>4, Zenon DEF Value, Later
    <3> QED
      BY <3>2, <3>3
  <2>6. DOMAIN abuf_swap_buf(b0, pushed, mem0) = 0 .. pushed - 1
        /\ abuf_swap_buf(b0, pushed, mem0)
             = [j \in 0 .. pushed - 1 |-> abuf_swap_buf(b0, pushed, mem0)[j]]
    BY <2>1 DEF abuf_swap_buf
  <2>7. b = abuf_swap_buf(b0, pushed, mem0)
    BY <2>1, <2>5, <2>6
  <2> QED
    BY <2>3, <2>7
<1> QED
  BY InitLInv, <1>1, <1>2, PTL DEF Spec
=============================================================================
