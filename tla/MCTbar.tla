------------------------------- MODULE MCTbar -------------------------------
(***************************************************************************)
(* Model-checking instance of Tbar: two threads that join at any time and  *)
(* take at most MaxCount / 2 traversals each.                              *)
(***************************************************************************)
EXTENDS Tbar
=============================================================================
