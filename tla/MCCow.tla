------------------------------- MODULE MCCow --------------------------------
(***************************************************************************)
(* An instance of Cow for model checking: three words, two of which share  *)
(* a bucket that has room for one entry at first.                          *)
(***************************************************************************)
EXTENDS Cow

\* Stores of every size, in each of the words.
SomeAccesses == {<<3, 1>>, <<6, 2>>, <<12, 4>>, <<16, 8>>}

\* Part of a word; from the middle of a word over a word into the next one.
SomeSets == {<<9, 7, 3>>, <<5, 7, 13>>}

\* Over a half word and a word; byte by byte.
SomeCopies == {<<2, 14, 10>>, <<20, 1, 3>>}

\* Calls that the run leaves out, see README.md: a byte above 127, a copy of no
\* bytes, and a memmove, which tmi.c forwards to memcpy, to an overlapping range.
HighByte == {<<8, 200, 8>>}
NoBytes == {<<0, 8, 0>>}
Overlap == {<<1, 0, 3>>}
=============================================================================
