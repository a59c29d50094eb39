-------------------------------- MODULE Abuf --------------------------------
(***************************************************************************)
(* The append-only buffers of src/src/abuf.c: the undo log that every      *)
(* phase of a transaction keeps (sei->cow[p] in mode_cow.c).               *)
(*                                                                         *)
(* Memory is a function from cells (bytes) to values.  An abuf is given by *)
(* its array b of entries and the number n of entries pushed; entries of b *)
(* from n on are left over from earlier transactions (abuf_clean only      *)
(* resets the counters).  The counter poped is 0 whenever an operation of  *)
(* this module starts and is left out.  The loops of abuf_swap and of the  *)
(* heap comparisons are given in closed form; AbufSwap and AbufCmp are the *)
(* loops of the source and relate them to these forms.                     *)
(***************************************************************************)
EXTENDS Integers, FiniteSets

CONSTANT ABUF_MAX_CONFLICTS  \* length of the array of conflicting entries

\* The cells that an access of size s at address a touches.
Cells(a, s) == a .. a + s - 1

Load(mem, a, s) == [x \in Cells(a, s) |-> mem[x]]

\* The memory after the value v is stored in the cells DOMAIN v.
Store(mem, v) == [x \in DOMAIN mem |-> IF x \in DOMAIN v THEN v[x] ELSE mem[x]]

\* abuf_entry_t: wvalue holds one value for every cell of the access.
Entry(a, s, v) == [addr |-> a, size |-> s, wvalue |-> v]

\* abuf_push_<type>: record the value v of the cells at a.
abuf_push(b, n, a, s, v) == [b EXCEPT ![n] = Entry(a, s, v)]

\* The pushed entries that hold a value for cell x.
Covering(b, n, x) == {i \in 0 .. n - 1 : x \in DOMAIN b[i].wvalue}

First(S) == CHOOSE i \in S : \A j \in S : i <= j

\* abuf_swap exchanges each entry with memory, last entry first.  Memory ends
\* with the oldest logged value, i.e. the value before the first write ...
abuf_swap_mem(b, n, mem) ==
  [x \in DOMAIN mem |->
     IF Covering(b, n, x) = {} THEN mem[x]
     ELSE b[First(Covering(b, n, x))].wvalue[x]]

\* ... and entry i with the value that its own write had left in memory: what
\* the next write to the cell had logged, or the value memory had at the end.
abuf_swap_buf(b, n, mem) ==
  [i \in DOMAIN b |->
     IF i >= n THEN b[i]
     ELSE Entry(b[i].addr, b[i].size,
            [x \in DOMAIN b[i].wvalue |->
               LET later == {j \in Covering(b, n, x) : j > i}
               IN  IF later = {} THEN mem[x] ELSE b[First(later)].wvalue[x]])]

\* An entry conflicts when memory differs from its value (ABUF_CONFLICT).
Conflicts(b, n, mem) ==
  {i \in 0 .. n - 1 : \E x \in DOMAIN b[i].wvalue : mem[x] # b[i].wvalue[x]}

\* The search of the other comparisons, which also accepts earlier entries.
Overwritten_any(b, n, i) == \E j \in (0 .. n - 1) \ {i} : b[j].addr = b[i].addr

\* abuf_cmp_heap searches backwards: a conflict is excused by a later entry
\* with the same address.
Overwritten(b, n, i) == \E j \in i + 1 .. n - 1 : b[j].addr = b[i].addr

\* abuf_try_cmp_heap and the N-way variants excuse it by any other entry with
\* the same address.
Duplicated(b, n, i) == \E j \in (0 .. n - 1) \ {i} : b[j].addr = b[i].addr

\* The other phases logged the same addresses as phase 0 and, where checked,
\* the same number of entries of the same sizes.  Without the check of the
\* number, entries of b[q] beyond n[q] are read all the same.
SameAddrs(b, n, q) == \A i \in 0 .. n[0] - 1 : b[0][i].addr = b[q][i].addr

\* SameSizes without the check of the numbers.
SameSizes_only(b, n, q) == \A i \in 0 .. n[0] - 1 : b[0][i].size = b[q][i].size

SameSizes(b, n, q) ==
  n[0] = n[q] /\ \A i \in 0 .. n[0] - 1 : b[0][i].size = b[q][i].size

(***************************************************************************)
(* The comparisons of phase 0's log b[0] with memory.  In the normal build *)
(* the numbers and sizes of the entries are only asserted (NDEBUG).        *)
(***************************************************************************)
abuf_cmp_heap(b, n, mem, NDEBUG) ==
  /\ NDEBUG \/ SameSizes(b, n, 1)
  /\ SameAddrs(b, n, 1)
  /\ Cardinality(Conflicts(b[0], n[0], mem)) <= ABUF_MAX_CONFLICTS + 1
  /\ \A i \in Conflicts(b[0], n[0], mem) : Overwritten(b[0], n[0], i)

abuf_cmp_heap_nway(b, n, N, mem, NDEBUG) ==
  /\ \A q \in 1 .. N - 1 : NDEBUG \/ SameSizes(b, n, q)
  /\ \A q \in 1 .. N - 1 : SameAddrs(b, n, q)
  /\ Cardinality(Conflicts(b[0], n[0], mem)) <= ABUF_MAX_CONFLICTS
  /\ \A i \in Conflicts(b[0], n[0], mem) : Duplicated(b[0], n[0], i)

\* abuf_try_cmp_heap (N = 2) and abuf_try_cmp_heap_nway of the rollback build.
abuf_try_cmp_heap_nway(b, n, N, mem) ==
  /\ \A q \in 1 .. N - 1 : SameSizes(b, n, q) /\ SameAddrs(b, n, q)
  /\ Cardinality(Conflicts(b[0], n[0], mem)) <= ABUF_MAX_CONFLICTS
  /\ \A i \in Conflicts(b[0], n[0], mem) : Duplicated(b[0], n[0], i)
=============================================================================
