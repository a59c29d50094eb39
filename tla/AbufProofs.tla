----------------------------- MODULE AbufProofs -----------------------------
(***************************************************************************)
(* Facts about the operators of Abuf, for logs of any length and accesses  *)
(* of any size: what swapping a log with memory does, and what a           *)
(* successful comparison of two logs means.                                *)
(***************************************************************************)
EXTENDS Abuf, WellFoundedInduction, TLAPS

\* The log (b, n) undoes what changed memory from old to mem: cells that are
\* not logged are unchanged, and the first entry of a cell holds its old value.
Undoes(b, n, mem, old) ==
  \A x \in DOMAIN mem :
    /\ Covering(b, n, x) = {} => mem[x] = old[x]
    /\ \A i \in Covering(b, n, x) :
         (\A j \in Covering(b, n, x) : i <= j) => b[i].wvalue[x] = old[x]

\* The log (b, n) holds the changes from old to new: the last entry of a cell
\* holds its new value.
Redoes(b, n, old, new) ==
  \A x \in DOMAIN old :
    /\ Covering(b, n, x) = {} => new[x] = old[x]
    /\ \A i \in Covering(b, n, x) :
         (\A j \in Covering(b, n, x) : j <= i) => b[i].wvalue[x] = new[x]

\* Every pushed entry has one value for each cell of its access.
WellFormed(b, n) ==
  \A i \in 0 .. n - 1 : DOMAIN b[i].wvalue = Cells(b[i].addr, b[i].size)

\* Accesses at the same address have the same size.
SameSize(b, n) ==
  \A i, j \in 0 .. n - 1 : b[i].addr = b[j].addr => b[i].size = b[j].size

-----------------------------------------------------------------------------
\* A nonempty set of numbers has a least element.
LEMMA Least ==
  ASSUME NEW S \in SUBSET Nat, S # {}
  PROVE  \E i \in S : \A j \in S : i <= j
<1> DEFINE R == OpToRel(<, Nat)
<1>1. IsWellFoundedOn(R, Nat)
  BY NatLessThanWellFounded, Zenon
<1>2. \A i, j \in Nat : i < j => <<i, j>> \in R
  BY DEF OpToRel
<1>3. PICK i \in S : \A j \in S : <<j, i>> \notin R
  <2> HIDE DEF R
  <2> QED BY <1>1, WFMin, Zenon
<1>4. ASSUME NEW j \in S PROVE i <= j
  <2>1. i \in Nat /\ j \in Nat
    BY <1>3, Zenon
  <2>2. ~(j < i)
    BY <1>2, <1>3, <2>1, Zenon
  <2> QED
    BY <2>1, <2>2
<1> QED
  BY <1>4

\* First is the least element of a set of numbers.
LEMMA FirstLeast ==
  ASSUME NEW S \in SUBSET Nat, S # {}
  PROVE  First(S) \in S /\ \A j \in S : First(S) <= j
  BY Least, Zenon DEF First

\* A set of indices below n has a greatest element.
LEMMA LastExists ==
  ASSUME NEW n \in Nat, NEW S \in SUBSET (0 .. n - 1), S # {}
  PROVE  \E i \in S : \A j \in S : j <= i
<1> DEFINE T == {n - 1 - i : i \in S}
<1>1. T \in SUBSET Nat /\ T # {}
  OBVIOUS
<1>2. PICK m \in T : \A l \in T : m <= l
  BY <1>1, Least, Zenon
<1>3. PICK i \in S : m = n - 1 - i
  BY <1>2
<1>4. \A j \in S : n - 1 - i <= n - 1 - j
  BY <1>2, <1>3, SMTT(30)
<1>5. \A j \in S : j <= i
  BY <1>4
<1> QED
  BY <1>5

\* The entries that cover a cell are indices of pushed entries.
LEMMA CoveringIndex ==
  ASSUME NEW b, NEW n \in Nat, NEW x
  PROVE  Covering(b, n, x) \in SUBSET (0 .. n - 1)
         /\ Covering(b, n, x) \in SUBSET Nat
  BY DEF Covering

\* Swapping a log that undoes a change restores the old memory.
LEMMA SwapRestores ==
  ASSUME NEW b, NEW n \in Nat, NEW mem, NEW old,
         old = [x \in DOMAIN mem |-> old[x]], Undoes(b, n, mem, old)
  PROVE  abuf_swap_mem(b, n, mem) = old
<1>1. ASSUME NEW x \in DOMAIN mem
      PROVE  (IF Covering(b, n, x) = {} THEN mem[x]
              ELSE b[First(Covering(b, n, x))].wvalue[x]) = old[x]
  <2>1. CASE Covering(b, n, x) = {}
    BY <2>1 DEF Undoes
  <2>2. CASE Covering(b, n, x) # {}
    BY <2>2, FirstLeast, CoveringIndex DEF Undoes
  <2> QED
    BY <2>1, <2>2
<1> QED
  BY <1>1 DEF abuf_swap_mem

\* Conversely, a log whose swap restores the old memory undoes the change.
LEMMA UndoesSwap ==
  ASSUME NEW b, NEW n \in Nat, NEW mem, NEW old,
         abuf_swap_mem(b, n, mem) = old
  PROVE  Undoes(b, n, mem, old)
<1> SUFFICES ASSUME NEW x \in DOMAIN mem
             PROVE /\ Covering(b, n, x) = {} => mem[x] = old[x]
                   /\ \A i \in Covering(b, n, x) :
                        (\A j \in Covering(b, n, x) : i <= j)
                          => b[i].wvalue[x] = old[x]
  BY DEF Undoes
<1>1. old[x] = IF Covering(b, n, x) = {} THEN mem[x]
               ELSE b[First(Covering(b, n, x))].wvalue[x]
  BY DEF abuf_swap_mem
<1>2. ASSUME NEW i \in Covering(b, n, x),
             \A j \in Covering(b, n, x) : i <= j
      PROVE  i = First(Covering(b, n, x))
  BY <1>2, FirstLeast, CoveringIndex
<1> QED
  BY <1>1, <1>2

\* Logging the value of the cells before they are overwritten keeps the log
\* able to undo (sei_write).
LEMMA PushUndoes ==
  ASSUME NEW b, NEW n \in Nat, n \in DOMAIN b, 0 .. n - 1 \subseteq DOMAIN b,
         NEW mem, NEW old, NEW a, NEW s, NEW v,
         DOMAIN v = Cells(a, s),
         Undoes(b, n, mem, old)
  PROVE  Undoes(abuf_push(b, n, a, s, Load(mem, a, s)), n + 1,
                Store(mem, v), old)
<1> DEFINE c == abuf_push(b, n, a, s, Load(mem, a, s))
           m == Store(mem, v)
<1>1. /\ \A i \in 0 .. n - 1 : c[i] = b[i]
      /\ c[n].wvalue = Load(mem, a, s)
  BY DEF abuf_push, Entry
<1>2. DOMAIN c[n].wvalue = Cells(a, s)
  BY <1>1 DEF Load
<1>3. \A x : Covering(c, n + 1, x) =
               Covering(b, n, x) \cup (IF x \in Cells(a, s) THEN {n} ELSE {})
  BY <1>1, <1>2 DEF Covering
<1>4. DOMAIN m = DOMAIN mem
      /\ \A x \in DOMAIN mem : x \notin Cells(a, s) => m[x] = mem[x]
  BY DEF Store
<1> SUFFICES ASSUME NEW x \in DOMAIN mem
             PROVE /\ Covering(c, n + 1, x) = {} => m[x] = old[x]
                   /\ \A i \in Covering(c, n + 1, x) :
                        (\A j \in Covering(c, n + 1, x) : i <= j)
                          => c[i].wvalue[x] = old[x]
  BY <1>4 DEF Undoes
<1>5. Covering(c, n + 1, x) = {} => m[x] = old[x]
  BY <1>3, <1>4 DEF Undoes
<1>6. ASSUME NEW i \in Covering(c, n + 1, x),
             \A j \in Covering(c, n + 1, x) : i <= j
      PROVE  c[i].wvalue[x] = old[x]
  <2>1. CASE i # n
    <3>1. i \in Covering(b, n, x) /\ i \in 0 .. n - 1
      BY <1>3, <1>6, <2>1, CoveringIndex
    <3>2. \A j \in Covering(b, n, x) : i <= j
      BY <1>3, <1>6
    <3> QED
      BY <1>1, <3>1, <3>2 DEF Undoes
  <2>2. CASE i = n
    <3>1. Covering(b, n, x) = {}
      BY <1>3, <1>6, <2>2, CoveringIndex
    <3>2. x \in Cells(a, s)
      BY <1>3, <1>6, <3>1
    <3> QED
      BY <1>1, <2>2, <3>1, <3>2 DEF Load, Undoes
  <2> QED
    BY <2>1, <2>2
<1> QED
  BY <1>5, <1>6

\* Swapping turns a log that undoes a phase into one that holds its results,
\* and keeps the accesses of the entries.
LEMMA SwapKeepsAccesses ==
  ASSUME NEW b, NEW n \in Nat, 0 .. n - 1 \subseteq DOMAIN b, NEW mem
  PROVE  /\ DOMAIN abuf_swap_buf(b, n, mem) = DOMAIN b
         /\ \A i \in 0 .. n - 1 :
              /\ abuf_swap_buf(b, n, mem)[i].addr = b[i].addr
              /\ abuf_swap_buf(b, n, mem)[i].size = b[i].size
              /\ DOMAIN abuf_swap_buf(b, n, mem)[i].wvalue = DOMAIN b[i].wvalue
  BY DEF abuf_swap_buf, Entry

LEMMA SwapRedoes ==
  ASSUME NEW b, NEW n \in Nat, 0 .. n - 1 \subseteq DOMAIN b,
         NEW mem, NEW old, DOMAIN old = DOMAIN mem,
         abuf_swap_mem(b, n, mem) = old
  PROVE  Redoes(abuf_swap_buf(b, n, mem), n, old, mem)
<1> DEFINE c == abuf_swap_buf(b, n, mem)
<1>1. \A x : Covering(c, n, x) = Covering(b, n, x)
  BY SwapKeepsAccesses DEF Covering
<1> SUFFICES ASSUME NEW x \in DOMAIN old
             PROVE /\ Covering(b, n, x) = {} => mem[x] = old[x]
                   /\ \A i \in Covering(b, n, x) :
                        (\A j \in Covering(b, n, x) : j <= i)
                          => c[i].wvalue[x] = mem[x]
  BY <1>1 DEF Redoes
<1>2. Covering(b, n, x) = {} => mem[x] = old[x]
  BY DEF abuf_swap_mem
<1>3. ASSUME NEW i \in Covering(b, n, x),
             \A j \in Covering(b, n, x) : j <= i
      PROVE  c[i].wvalue[x] = mem[x]
  <2>1. {j \in Covering(b, n, x) : j > i} = {}
    BY <1>3, CoveringIndex
  <2>2. i \in 0 .. n - 1 /\ x \in DOMAIN b[i].wvalue
    BY <1>3 DEF Covering
  <2>3. c[i].wvalue[x] = LET later == {j \in Covering(b, n, x) : j > i}
                         IN  IF later = {} THEN mem[x]
                             ELSE b[First(later)].wvalue[x]
    BY <2>2 DEF abuf_swap_buf, Entry
  <2> QED
    BY <2>1, <2>3
<1> QED
  BY <1>2, <1>3

\* If every conflict of phase 0's log with memory is excused by a later entry
\* at the same address, memory holds phase 0's result in every logged cell.
LEMMA ComparedEqual ==
  ASSUME NEW b, NEW n \in Nat, NEW mem, NEW old, NEW new,
         WellFormed(b, n), SameSize(b, n), Redoes(b, n, old, new),
         \A i \in Conflicts(b, n, mem) : Overwritten(b, n, i),
         NEW x \in DOMAIN old, Covering(b, n, x) # {}
  PROVE  mem[x] = new[x]
<1>1. PICK i \in Covering(b, n, x) : \A j \in Covering(b, n, x) : j <= i
  BY LastExists, CoveringIndex, Zenon
<1>2. i \in 0 .. n - 1 /\ x \in DOMAIN b[i].wvalue
  BY <1>1 DEF Covering
<1>3. b[i].wvalue[x] = new[x]
  BY <1>1 DEF Redoes
<1>4. ~Overwritten(b, n, i)
  <2> SUFFICES ASSUME NEW j \in i + 1 .. n - 1, b[j].addr = b[i].addr
               PROVE  FALSE
    BY DEF Overwritten
  <2>1. i \in 0 .. n - 1 /\ j \in 0 .. n - 1 /\ j > i
    BY <1>2
  <2>2. b[j].size = b[i].size
    BY <2>1 DEF SameSize
  <2>3. DOMAIN b[j].wvalue = DOMAIN b[i].wvalue
    BY <2>1, <2>2 DEF WellFormed
  <2>4. j \in Covering(b, n, x)
    BY <1>2, <2>1, <2>3 DEF Covering
  <2>5. j <= i
    BY <1>1, <2>4
  <2> QED
    BY <2>1, <2>5
<1>5. i \notin Conflicts(b, n, mem)
  BY <1>4
<1> QED
  BY <1>2, <1>3, <1>5 DEF Conflicts
=============================================================================
