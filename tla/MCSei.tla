------------------------------- MODULE MCSei --------------------------------
(***************************************************************************)
(* Instances of Sei for model checking.  Cells 1 to 3 are globals, 4 and 5 *)
(* are heap objects.                                                       *)
(***************************************************************************)
EXTENDS Sei

\* Every access of one size: no two writes overlap partially.
Bytes == {<<1, 1>>, <<2, 1>>}

\* One global and the heap object 4.
OneCell == {<<1, 1>>, <<4, 1>>}

\* A two-byte and a one-byte access at the same address.
Nested == {<<1, 2>>, <<1, 1>>}

\* A one-byte access inside a two-byte one.
Inner == {<<1, 2>>, <<2, 1>>}
=============================================================================
