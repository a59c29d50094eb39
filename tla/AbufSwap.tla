------------------------------ MODULE AbufSwap ------------------------------
(***************************************************************************)
(* The loop of abuf_swap (src/src/abuf.c), one entry per step.  Abuf gives *)
(* its effect in closed form, abuf_swap_mem and abuf_swap_buf; SwapResult  *)
(* says that the loop computes just that, for logs that write a cell       *)
(* several times and with accesses that overlap.                           *)
(***************************************************************************)
EXTENDS Abuf

CONSTANTS Cell, Byte,  \* memory is a function from Cell to Byte
          Accesses,    \* the pairs <<address, size>> that are logged
          MaxPushed    \* bound: the length of the log

ASSUME SwapConstants ==
  /\ Accesses \subseteq Nat \X Nat
  /\ \A a \in Accesses : Cells(a[1], a[2]) \subseteq Cell
  /\ MaxPushed \in Nat

VARIABLES b, mem,     \* the entries of the log and memory
          i,          \* the loop index
          pushed,     \* the number of entries
          b0, mem0    \* history: the log and memory before the loop

vars == <<b, mem, i, pushed, b0, mem0>>

Logged ==
  UNION {{Entry(a[1], a[2], v) : v \in [Cells(a[1], a[2]) -> Byte]} :
           a \in Accesses}

Init ==
  /\ pushed \in 0 .. MaxPushed
  /\ b \in [0 .. pushed - 1 -> Logged]
  /\ mem \in [Cell -> Byte]
  /\ i = pushed - 1
  /\ b0 = b /\ mem0 = mem

\* ABUF_SWAP that writes memory before it reads it.
ABUF_SWAP_late_read ==
  /\ i >= 0
  /\ mem' = Store(mem, b[i].wvalue)
  /\ b' = [b EXCEPT ![i] = Entry(b[i].addr, b[i].size,
                                 Load(mem', b[i].addr, b[i].size))]
  /\ i' = i - 1
  /\ UNCHANGED <<pushed, b0, mem0>>

\* ABUF_SWAP on entry i, then --i.
ABUF_SWAP ==
  /\ i >= 0
  /\ b' = [b EXCEPT ![i] = Entry(b[i].addr, b[i].size,
                                 Load(mem, b[i].addr, b[i].size))]
  /\ mem' = Store(mem, b[i].wvalue)
  /\ i' = i - 1
  /\ UNCHANGED <<pushed, b0, mem0>>

Done == i < 0 /\ UNCHANGED vars

Next == ABUF_SWAP \/ Done

Spec == Init /\ [][Next]_vars /\ WF_vars(ABUF_SWAP)

-----------------------------------------------------------------------------
\* The type invariant of the loop: its index, the log and memory.
TypeOK ==
  /\ pushed \in Nat
  /\ i \in -1 .. pushed - 1
  /\ b \in [0 .. pushed - 1 -> Logged] /\ b0 \in [0 .. pushed - 1 -> Logged]
  /\ mem \in [Cell -> Byte] /\ mem0 \in [Cell -> Byte]

\* When the loop of abuf_swap ends, it has computed the closed forms that the
\* phase switch of Sei uses.
SwapResult ==
  i = -1 => /\ mem = abuf_swap_mem(b0, pushed, mem0)
            /\ b = abuf_swap_buf(b0, pushed, mem0)
=============================================================================
