------------------------------ MODULE MCLocks -------------------------------
(***************************************************************************)
(* Instances of Locks for model checking: the constants are given in the   *)
(* configurations.                                                         *)
(***************************************************************************)
EXTENDS Locks

CONSTANTS t1, t2

\* The handlers of t1 can lock again, or below, what they have unlocked; those of
\* t2 can hold both locks and leave trylock to t1.
OpsBound == [t \in Thread |-> IF t = t1 THEN 3 ELSE 2]

KindsBound ==
  [t \in Thread |-> {"lock", "unlock"} \cup IF t = t1 THEN {"trylock"} ELSE {}]
=============================================================================
