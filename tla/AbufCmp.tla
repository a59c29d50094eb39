------------------------------- MODULE AbufCmp ------------------------------
(***************************************************************************)
(* The comparison of the logs of N phases with memory (src/src/abuf.c) as  *)
(* the loops of the source, in the variants                                *)
(*   "cmp"   abuf_cmp_heap, which fails by ending the process;             *)
(*   "nway"  abuf_cmp_heap_nway, likewise;                                 *)
(*   "try"   abuf_try_cmp_heap_nway, and abuf_try_cmp_heap at N = 2, which *)
(*           return 0.                                                     *)
(* A first loop compares the entries and collects the conflicts, a second  *)
(* one searches every conflict for an entry that excuses it.  CmpResult    *)
(* says that they compute the closed forms of Abuf.                        *)
(***************************************************************************)
EXTENDS Abuf, Sequences

CONSTANTS Cell, Byte, Accesses,
          MaxN,       \* bound: the number of phases
          MaxEntries  \* bound: the length of all logs together

VARIABLES b, pushed, mem,   \* the logs and memory
          N,                \* the number of phases
          variant, NDEBUG,  \* the function and the build
          pc,               \* "counts", "scan", "search", "ok" or "fail"
          poped,            \* the entry that the first loop compares
          entry,            \* the conflicts collected, by index
          j                 \* the entry that the second loop looks at

arguments == <<b, pushed, mem, N, variant, NDEBUG>>
vars == <<arguments, pc, poped, entry, j>>

Logged ==
  UNION {{Entry(a[1], a[2], v) : v \in [Cells(a[1], a[2]) -> Byte]} :
           a \in Accesses}

\* The values in the logs of phases 1 to N - 1 are not looked at.
Shapes == {Entry(a[1], a[2], <<>>) : a \in Accesses}

(***************************************************************************)
(* A log that is shorter than that of phase 0 is followed by entries of    *)
(* earlier transactions; entries beyond the end of phase 0's are never     *)
(* read.  Values are only compared with memory, which may hence be zero,   *)
(* and the lengths with each other; the variant "try" does not depend on   *)
(* NDEBUG.                                                                 *)
(***************************************************************************)
Init ==
  /\ N \in 2 .. MaxN
  /\ \E n \in 0 .. MaxEntries \div N :
       /\ \E first \in [0 .. n - 1 -> Logged],
             rest \in [1 .. N - 1 -> [0 .. n - 1 -> Shapes]] :
            b = [q \in 0 .. N - 1 |-> IF q = 0 THEN first ELSE rest[q]]
       /\ pushed \in [0 .. N - 1 -> {n - 1, n, n + 1} \cap Nat] /\ pushed[0] = n
  /\ mem = [x \in Cell |-> 0]
  /\ variant \in IF N = 2 THEN {"cmp", "try"} ELSE {"nway", "try"}
  /\ NDEBUG \in IF variant = "try" THEN {TRUE} ELSE BOOLEAN
  /\ pc = "counts" /\ poped = 0 /\ entry = <<>> /\ j = 0

\* What the debug build asserts, the rollback build checks.
Strict == variant = "try" \/ ~NDEBUG

counts ==
  /\ pc = "counts"
  /\ pc' = IF Strict /\ \E q \in 1 .. N - 1 : pushed[q] # pushed[0]
             THEN "fail" ELSE "scan"
  /\ UNCHANGED <<arguments, poped, entry, j>>

\* Is there no room for a conflict in entry[]?  (ABUF_CONFLICT tests <=.)
Full == IF variant = "cmp" THEN Len(entry) > ABUF_MAX_CONFLICTS
        ELSE Len(entry) >= ABUF_MAX_CONFLICTS

scan ==
  /\ pc = "scan" /\ poped < pushed[0]
  /\ LET e == b[0][poped]
         differs == \E q \in 1 .. N - 1 :
                      \/ b[q][poped].addr # e.addr
                      \/ Strict /\ b[q][poped].size # e.size
         conflict == \E x \in DOMAIN e.wvalue : mem[x] # e.wvalue[x]
     IN  /\ pc' = IF differs \/ (conflict /\ Full) THEN "fail" ELSE "scan"
         /\ entry' = IF pc' = "scan" /\ conflict THEN Append(entry, poped)
                     ELSE entry
  /\ poped' = poped + 1
  /\ UNCHANGED <<arguments, j>>

scanned ==
  /\ pc = "scan" /\ poped = pushed[0]
  /\ pc' = IF entry = <<>> THEN "ok" ELSE "search"
  /\ j' = pushed[0] - 1
  /\ UNCHANGED <<arguments, poped, entry>>

\* A search that takes a conflict for its own excuse.
search_itself ==
  /\ pc = "search" /\ j >= 0
  /\ LET excused == b[0][j].addr = b[0][Head(entry)].addr
     IN  \/ /\ excused
            /\ entry' = Tail(entry)
            /\ pc' = IF Tail(entry) = <<>> THEN "ok" ELSE "search"
            /\ j' = pushed[0] - 1
         \/ /\ ~excused
            /\ j' = j - 1
            /\ UNCHANGED <<pc, entry>>
  /\ UNCHANGED <<arguments, poped>>

\* The second loop takes the conflicts in order and searches backwards.
search ==
  /\ pc = "search" /\ j >= 0
  /\ LET ce == Head(entry)
         same == b[0][j].addr = b[0][ce].addr
         excused == same /\ j # ce
     IN  \/ /\ excused
            /\ entry' = Tail(entry)
            /\ pc' = IF Tail(entry) = <<>> THEN "ok" ELSE "search"
            /\ j' = pushed[0] - 1
         \/ /\ ~excused
            /\ pc' = IF same /\ variant = "cmp" THEN "fail" ELSE "search"
            /\ j' = j - 1
            /\ UNCHANGED entry
  /\ UNCHANGED <<arguments, poped>>

not_found ==
  /\ pc = "search" /\ j < 0
  /\ pc' = "fail"
  /\ UNCHANGED <<arguments, poped, entry, j>>

Done == pc \in {"ok", "fail"} /\ UNCHANGED vars

Next == counts \/ scan \/ scanned \/ search \/ not_found \/ Done

Spec == Init /\ [][Next]_vars

-----------------------------------------------------------------------------
\* The decision of the closed form.
Accepted ==
  CASE variant = "cmp"  -> abuf_cmp_heap(b, pushed, mem, NDEBUG)
    [] variant = "nway" -> abuf_cmp_heap_nway(b, pushed, N, mem, NDEBUG)
    [] variant = "try"  -> abuf_try_cmp_heap_nway(b, pushed, N, mem)

\* The loops of the heap comparisons decide as the closed forms that Sei and
\* SeiRollback use.
CmpResult == (pc = "ok" => Accepted) /\ (pc = "fail" => ~Accepted)

\* The conflicts fit the array entry[ABUF_MAX_CONFLICTS] of the comparison.
ConflictsFit == Len(entry) <= ABUF_MAX_CONFLICTS
=============================================================================
