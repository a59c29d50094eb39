--------------------------------- MODULE Tx ---------------------------------
(***************************************************************************)
(* What a hardened handler promises its application: it is executed once,  *)
(* its result is then frozen, and either exactly this result becomes       *)
(* visible in one step or the process stops.  The system calls of the      *)
(* handler are made with the commit, or at the latest when the process     *)
(* stops; never before.                                                    *)
(***************************************************************************)
EXTENDS Sequences

CONSTANT Msg  \* the cells where input arrives

VARIABLES
  mem, heap, sent,     \* what is visible: memory, live objects, calls made
  pmem, pheap, psend,  \* the result of the handler
  stage                \* "idle", "compute", "verify" or "exit"

txspec == <<mem, heap, sent, pmem, pheap, psend, stage>>

Init ==
  /\ stage = "idle"
  /\ sent = <<>> /\ psend = <<>>
  /\ pmem = mem /\ pheap = heap

\* Input arrives between transactions, and nowhere else.
Receive ==
  /\ stage = "idle"
  /\ stage' = "idle"
  /\ \A x \in DOMAIN mem \ Msg : mem'[x] = mem[x]
  /\ pmem' = mem'
  /\ UNCHANGED <<heap, sent, pheap, psend>>

Begin == stage = "idle" /\ stage' = "compute"
         /\ UNCHANGED <<mem, heap, sent, pmem, pheap, psend>>

\* One operation of the handler changes its result and nothing visible.
Compute == stage = "compute" /\ stage' = "compute"
           /\ UNCHANGED <<mem, heap, sent>>

Finish == stage = "compute" /\ stage' = "verify"
          /\ UNCHANGED <<mem, heap, sent, pmem, pheap, psend>>

Commit ==
  /\ stage = "verify" /\ stage' = "idle"
  /\ mem' = pmem /\ heap' = pheap /\ sent' = sent \o psend
  /\ pmem' = pmem /\ pheap' = pheap /\ psend' = <<>>

Stop ==
  /\ stage # "exit" /\ stage' = "exit"
  /\ sent' \in {sent, sent \o psend}
  /\ UNCHANGED <<mem, heap>>

Next == Receive \/ Begin \/ Compute \/ Finish \/ Commit \/ Stop

Spec == Init /\ [][Next]_txspec
=============================================================================
