---------------------------- MODULE MCSeiRollback ---------------------------
(***************************************************************************)
(* Instances of SeiRollback for model checking.  Cells 1 and 2 are         *)
(* globals, cell 4 is a heap object.                                       *)
(***************************************************************************)
EXTENDS SeiRollback

Bytes == {<<1, 1>>, <<2, 1>>}

OneByte == {<<1, 1>>}

WithHeap == {<<1, 1>>, <<4, 1>>}
=============================================================================
