-------------------------------- MODULE Tbin --------------------------------
(***************************************************************************)
(* The trash bin of src/src/tbin.c and the waitress of src/src/wts.c: both *)
(* keep, for every phase, the list of the frees (the system calls) that    *)
(* are delayed until the commit.  A bin maps a phase to its list.          *)
(***************************************************************************)
EXTENDS Integers, Sequences, Talloc

CONSTANT SEI_DMR_REDUNDANCY  \* compile-time maximal number of phases

Phase == 0 .. SEI_DMR_REDUNDANCY - 1

tbin_init == [q \in Phase |-> <<>>]

\* The free of x is delayed by phase q.
tbin_add(bin, q, x) == [bin EXCEPT ![q] = Append(@, x)]

\* tbin_can_flush, and the checks that tbin_flush makes before every free.
tbin_can_flush(bin, level) ==
  /\ \A q \in 1 .. level - 1 : bin[q] = bin[0]
  /\ \A i \in 1 .. Len(bin[0]) : bin[0][i] # NULL

\* The counters that tbin_flush and tbin_reset clear.
tbin_reset(bin, level) ==
  [q \in Phase |-> IF q < level THEN <<>> ELSE bin[q]]

wts_init == [q \in Phase |-> <<>>]

\* The call x, with its arguments, is delayed by phase q.
wts_add(wts, q, x) == [wts EXCEPT ![q] = Append(@, x)]

\* wts_can_flush compares the lists of all SEI_DMR_REDUNDANCY phases, however
\* many of them the transaction runs.
wts_can_flush(wts) == \A q \in Phase : wts[q] = wts[0]

\* wts_flush clears all counters, wts_reset those of the phases 0 and 1.
wts_flushed == [q \in Phase |-> <<>>]

\* A reset that keeps the delayed calls.
wts_reset_none(wts) == wts

wts_reset(wts) == [q \in Phase |-> IF q \in {0, 1} THEN <<>> ELSE wts[q]]
=============================================================================
