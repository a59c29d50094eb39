------------------------------- MODULE Talloc -------------------------------
(***************************************************************************)
(* The traversal allocator of src/src/talloc.c.  Phase 0 allocates, later  *)
(* phases are handed the same objects in the same order.  A talloc_t is a  *)
(* record: p, the number of allocations size[q] of every phase q, and the  *)
(* array allocations, which keeps the addresses of earlier transactions    *)
(* beyond size[0].  An object is named by its address; 0 is NULL.          *)
(***************************************************************************)
EXTENDS Integers

NULL == 0

talloc_init(max, N) ==
  [p |-> 0, size |-> [q \in 0 .. N - 1 |-> 0],
   allocations |-> [i \in 0 .. max - 1 |-> NULL]]

\* talloc_malloc, where a is what malloc returns if it is called (phase 0).
talloc_malloc(t, a) ==
  LET i == t.size[t.p]
  IN  [t EXCEPT !.size[t.p] = i + 1,
                !.allocations[i] = IF t.p = 0 THEN a ELSE @]

\* A switch that does not advance the phase.
talloc_switch_none(t) == t

talloc_switch(t) == [t EXCEPT !.p = @ + 1]

\* The counts that talloc_clean compares.
talloc_agree(t, level) == \A q \in 1 .. level - 1 : t.size[q] = t.size[0]

talloc_clean(t, level) ==
  [t EXCEPT !.p = 0,
            !.size = [q \in DOMAIN @ |-> IF q < level THEN 0 ELSE @[q]]]

\* The objects that this transaction has allocated.
talloc_objects(t) ==
  {t.allocations[i] : i \in 0 .. t.size[0] - 1} \ {NULL}

\* talloc_rollback: the objects are freed by the caller of this operator.
talloc_rollback(t, level) ==
  [talloc_clean(t, level) EXCEPT
     !.allocations = [i \in DOMAIN @ |-> IF i < t.size[0] THEN NULL ELSE @[i]]]

\* Objects are single cells, so an address is in range when it is an object.
talloc_addr_in_range(t, a) == a \in talloc_objects(t)
=============================================================================
