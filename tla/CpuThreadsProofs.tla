-------------------------- MODULE CpuThreadsProofs --------------------------
(***************************************************************************)
(* Recovery with any number of threads and cores: which cores are          *)
(* blacklisted, how often a handler is retried, and when the process       *)
(* exits.                                                                  *)
(*                                                                         *)
(* The inductive invariant says of every thread, at each place of its      *)
(* recovery, which cores can have computed wrongly, and that the core it   *)
(* runs on is one more than those its retries have cost: another thread    *)
(* may have blacklisted that core already.                                 *)
(***************************************************************************)
EXTENDS CpuThreads, FiniteSetTheorems, TLAPS

Pc ==
  {"idle", "crc", "crc_core", "crc0", "crc1", "phase0", "switch", "phase1", "sdc",
   "blacklist_phase0", "blacklist_current", "migrate", "restore", "setaffinity",
   "remigrate"}

ThreadState ==
  [pc : Pc, core : Cores, affinity : SUBSET Cores,
   saved_affinity : SUBSET Cores, phase0_core : Int, exclude : Int,
   current_core : Int, mask : SUBSET Cores, core_migration : BOOLEAN,
   again : {"idle", "crc", "phase0"}, ntx : Nat, used : SUBSET Cores, wrong : SUBSET Cores,
   moved : BOOLEAN, tries : Nat]

\* What me.wrong and me.used can contain when the blacklist is B.
Involved(me, B) ==
  \/ me.moved
  \/ /\ me.pc \in {"idle", "crc", "crc_core", "crc0", "phase0"} => me.used = {}
     /\ me.pc \in {"crc_core", "crc0"} => cross /\ me.phase0_core = me.core
     /\ me.pc = "crc1" => cross /\ me.used \subseteq {me.phase0_core}
     /\ me.pc = "switch" => me.core_migration /\ me.used \subseteq {me.phase0_core}
     /\ me.pc = "phase1" =>
          me.used \subseteq {IF me.core_migration THEN me.phase0_core ELSE me.core}
     /\ me.pc = "sdc" =>
          me.wrong \subseteq {me.core} \cup
            (IF (IF me.again = "crc" THEN cross ELSE me.core_migration)
               THEN {me.phase0_core} ELSE {})
     /\ me.pc = "blacklist_phase0" =>
          me.wrong \subseteq {me.phase0_core, me.current_core}
     /\ me.pc = "blacklist_current" => me.wrong \subseteq B \cup {me.current_core}
     /\ me.pc = "migrate" => me.wrong \subseteq B

\* The retries of me are paid for by cores of B, and the core it runs on is
\* not one of these.
Paid(me, B) ==
  /\ me.tries <= Cardinality(B)
  /\ me.pc \in {"crc", "crc_core", "crc0", "crc1", "phase0", "switch", "phase1",
                "sdc"} =>
       /\ me.tries <= Cardinality(B \ {me.core})
       /\ me.tries = 0 \/ me.affinity = {me.core}
  /\ me.pc \in {"blacklist_phase0", "blacklist_current"} =>
       /\ me.current_core \in Cores
       /\ me.tries <= Cardinality(B \ {me.current_core})
  /\ me.pc = "migrate" => me.tries + 1 <= Cardinality(B)
  /\ me.pc \in {"sdc", "blacklist_phase0", "blacklist_current", "migrate"} =>
       me.again \in {"crc", "phase0"}

Types ==
  /\ cross \in BOOLEAN
  /\ bad \subseteq Cores
  /\ blacklist \subseteq Cores
  /\ num_blacklisted = Cardinality(blacklist)
  /\ rr_cursor \in Cores
  /\ th \in [Thread -> ThreadState]

IInv ==
  /\ Types
  /\ \A t \in Thread : Involved(th[t], blacklist) /\ Paid(th[t], blacklist)
  /\ Allowed = Cores => ExitOnlyWhenSpent

-----------------------------------------------------------------------------
\* Sets of cores are finite, and smaller if they are contained in another.
LEMMA CoreSets ==
  ASSUME NEW B \in SUBSET Cores
  PROVE  /\ IsFiniteSet(B)
         /\ Cardinality(B) \in Nat
         /\ \A C \in SUBSET B : Cardinality(C) <= Cardinality(B)
         /\ \A c \in Cores : Cardinality(B \cup {c}) = Cardinality(B \ {c}) + 1
<1>1. IsFiniteSet(Cores)
  BY CpuConstants, FS_Interval DEF Cores
<1>2. IsFiniteSet(B)
  BY <1>1, FS_Subset
<1>3. Cardinality(B) \in Nat
  BY <1>2, FS_CardinalityType
<1>4. \A C \in SUBSET B : Cardinality(C) <= Cardinality(B)
  BY <1>2, FS_Subset
<1>5. ASSUME NEW c \in Cores
      PROVE  Cardinality(B \cup {c}) = Cardinality(B \ {c}) + 1
  <2>1. IsFiniteSet(B \ {c})
    BY <1>2, FS_RemoveElement
  <2>2. (B \ {c}) \cup {c} = B \cup {c} /\ c \notin B \ {c}
    OBVIOUS
  <2> QED
    BY <2>1, <2>2, FS_AddElement
<1> QED
  BY <1>2, <1>3, <1>4, <1>5

\* Lowest is what its name says.
LEMMA LowestIn ==
  ASSUME NEW S \in SUBSET Nat, S # {}
  PROVE  Lowest(S) \in S /\ \A d \in S : Lowest(S) <= d
<1>1. \E x \in S : \A y \in S : ~ (<<y, x>> \in OpToRel(<, Nat))
  BY NatLessThanWellFounded, WFMin, Zenon
<1>2. \A x, y \in S : <<y, x>> \notin OpToRel(<, Nat) => x <= y
  BY DEF OpToRel
<1> QED
  BY <1>1, <1>2, Zenon DEF Lowest

LEMMA Wrap ==
  ASSUME NEW n \in Nat \ {0}, NEW c \in 0 .. n - 1
  PROVE  c % n = c /\ (c + n) % n = c
  OBVIOUS

\* While a core is left, cpu_isolation_get_next_available finds one.
LEMMA NextAvailable ==
  ASSUME NEW B \in SUBSET Cores, Cardinality(B) < num_cores, NEW rr \in Cores
  PROVE  /\ get_next_available(B, rr) \in Cores \ B
         /\ next_cursor(get_next_available(B, rr)) \in Cores
<1> DEFINE S == {i \in Cores : (rr + i) % num_cores \notin B}
<1> USE CpuConstants
<1>1. PICK c \in Cores : c \notin B
  <2>1. Cardinality(Cores) = num_cores
    BY FS_Interval DEF Cores
  <2>2. B # Cores
    BY <2>1
  <2> QED
    BY <2>2
<1>2. S # {}
  <2>1. CASE c >= rr
    <3>1. c - rr \in Cores /\ rr + (c - rr) = c
      BY <2>1 DEF Cores
    <3>2. c % num_cores = c
      BY Wrap DEF Cores
    <3> QED
      BY <3>1, <3>2, <1>1
  <2>2. CASE c < rr
    <3>1. c - rr + num_cores \in Cores /\ rr + (c - rr + num_cores) = c + num_cores
      BY <2>2 DEF Cores
    <3>2. (c + num_cores) % num_cores = c
      BY Wrap DEF Cores
    <3> QED
      BY <3>1, <3>2, <1>1
  <2> QED
    BY <2>1, <2>2 DEF Cores
<1>3. S \subseteq Nat
  BY DEF Cores
<1>4. Lowest(S) \in S
  BY <1>2, <1>3, LowestIn
<1>5. (rr + Lowest(S)) % num_cores \in Cores \ B
  <2>1. \A i \in Cores : (rr + i) % num_cores \in Cores
    BY DEF Cores
  <2> QED
    BY <1>4, <2>1, Zenon
<1>6. \A d \in Cores : (d + 1) % num_cores \in Cores
  BY DEF Cores
<1> HIDE DEF S
<1>7. get_next_available(B, rr) = (rr + Lowest(S)) % num_cores
  BY DEF get_next_available, S
<1> QED
  BY <1>5, <1>6, <1>7 DEF next_cursor

\* What was paid stays so when other cores are blacklisted.
LEMMA PaidMonotone ==
  ASSUME NEW me \in ThreadState, NEW B, NEW C \in SUBSET Cores, B \subseteq C,
         Paid(me, B)
  PROVE  Paid(me, C)
<1>1. \A c \in Int :
        /\ Cardinality(B) \in Nat /\ Cardinality(C) \in Nat
        /\ Cardinality(B \ {c}) \in Nat /\ Cardinality(C \ {c}) \in Nat
        /\ Cardinality(B) <= Cardinality(C)
        /\ Cardinality(B \ {c}) <= Cardinality(C \ {c})
  <2> TAKE c \in Int
  <2>1. /\ B \in SUBSET Cores /\ B \ {c} \in SUBSET Cores /\ C \ {c} \in SUBSET Cores
        /\ B \in SUBSET C /\ B \ {c} \in SUBSET (C \ {c})
    OBVIOUS
  <2> QED
    BY <2>1, CoreSets
<1>2. me.core \in Int /\ me.current_core \in Int /\ me.tries \in Nat
  BY CpuConstants DEF ThreadState, Cores
<1>3. /\ Cardinality(B) <= Cardinality(C)
      /\ Cardinality(B) \in Nat /\ Cardinality(C) \in Nat
  BY <1>1, <1>2, Zenon
<1>4. /\ Cardinality(B \ {me.core}) <= Cardinality(C \ {me.core})
      /\ Cardinality(B \ {me.core}) \in Nat /\ Cardinality(C \ {me.core}) \in Nat
  BY <1>1, <1>2
<1>5. /\ Cardinality(B \ {me.current_core}) <= Cardinality(C \ {me.current_core})
      /\ Cardinality(B \ {me.current_core}) \in Nat
      /\ Cardinality(C \ {me.current_core}) \in Nat
  BY <1>1, <1>2, SMTT(60)
<1>6. me.tries <= Cardinality(C) /\ (me.pc = "migrate" => me.tries + 1 <= Cardinality(C))
  BY <1>2, <1>3 DEF Paid
<1>7. me.tries <= Cardinality(B \ {me.core}) => me.tries <= Cardinality(C \ {me.core})
  BY <1>2, <1>4
<1>8. me.tries <= Cardinality(B \ {me.current_core})
        => me.tries <= Cardinality(C \ {me.current_core})
  BY <1>2, <1>5
<1> QED
  BY <1>6, <1>7, <1>8, Zenon DEF Paid

\* A step of thread t keeps the invariant if t's new state satisfies it.
LEMMA ThreadStep ==
  ASSUME IInv, NEW t \in Thread, NEW me \in ThreadState,
         th' = [th EXCEPT ![t] = me],
         UNCHANGED <<cross, bad, status>>,
         status = "run",
         blacklist \subseteq blacklist', blacklist' \subseteq Cores,
         num_blacklisted' = Cardinality(blacklist'),
         rr_cursor' \in Cores,
         Involved(me, blacklist'), Paid(me, blacklist')
  PROVE  IInv'
<1>1. Types'
  BY DEF IInv, Types
<1>2. ASSUME NEW u \in Thread
      PROVE  Involved(th[u], blacklist)' /\ Paid(th[u], blacklist)'
  <2>1. CASE u = t
    <3>1. th'[u] = me
      BY <2>1 DEF IInv, Types
    <3> QED
      BY <3>1, SMTT(60) DEF Involved, Paid
  <2>2. CASE u # t
    <3>1. th'[u] = th[u] /\ th[u] \in ThreadState
      BY <2>2 DEF IInv, Types
    <3>2. Paid(th[u], blacklist')
      BY <3>1, PaidMonotone DEF IInv
    <3>3. Involved(th[u], blacklist')
      BY DEF IInv, Involved
    <3>4. Involved(th[u], blacklist)'
      BY <3>1, <3>3, Zenon DEF Involved
    <3>5. Paid(th[u], blacklist)'
      BY <3>1, <3>2, Zenon DEF Paid
    <3> QED
      BY <3>4, <3>5
  <2> QED
    BY <2>1, <2>2
<1>3. (Allowed = Cores => ExitOnlyWhenSpent)'
  BY DEF ExitOnlyWhenSpent
<1> QED
  BY <1>1, <1>2, <1>3 DEF IInv

\* The same for a step that changes nothing but t's locals.
LEMMA LocalsStep ==
  ASSUME IInv, NEW t \in Thread, NEW me \in ThreadState, status = "run",
         Locals(t, me), Involved(me, blacklist), Paid(me, blacklist)
  PROVE  IInv'
<1>1. /\ th' = [th EXCEPT ![t] = me]
      /\ UNCHANGED <<cross, bad, status, blacklist, num_blacklisted, rr_cursor>>
  BY DEF Locals, state
<1>2. Types
  BY DEF IInv
<1>3. /\ blacklist' \subseteq Cores /\ rr_cursor' \in Cores
      /\ num_blacklisted' = Cardinality(blacklist')
  BY <1>1, <1>2 DEF Types
<1>4. Involved(me, blacklist') /\ Paid(me, blacklist')
  BY <1>1
<1> QED
  BY <1>1, <1>3, <1>4, ThreadStep, Zenon

\* The exits: a thread finds no core, or none besides the one to exclude.
LEMMA ExitStep ==
  ASSUME IInv, Exits, Allowed = Cores => Cardinality(Cores \ blacklist) <= 1
  PROVE  IInv'
<1>1. UNCHANGED <<cross, bad, blacklist, num_blacklisted, rr_cursor, th>>
  BY DEF Exits, state
<1>2. Types'
  BY <1>1 DEF IInv, Types
<1>3. \A t \in Thread : (Involved(th[t], blacklist) /\ Paid(th[t], blacklist))'
  BY <1>1, ZenonT(60) DEF IInv, Involved, Paid
<1>4. (Allowed = Cores => ExitOnlyWhenSpent)'
  BY <1>1 DEF ExitOnlyWhenSpent
<1> QED
  BY <1>2, <1>3, <1>4 DEF IInv

\* A thread that is pinned to core c, and goes on at pc.
LEMMA PinnedState ==
  ASSUME NEW me \in ThreadState, NEW c \in Cores, NEW pc \in Pc,
         NEW you, you = Pinned([me EXCEPT !.pc = pc], c)
  PROVE  /\ you \in ThreadState
         /\ you.pc = pc /\ you.core = c /\ you.affinity = {c}
         /\ you.used = me.used /\ you.tries = me.tries /\ you.moved = me.moved
         /\ you.phase0_core = me.phase0_core
         /\ you.core_migration = me.core_migration
<1> DEFINE they == [me EXCEPT !.pc = pc]
<1>1. they \in ThreadState
  BY DEF ThreadState
<1>2. you = [they EXCEPT !.core = c, !.affinity = {c}, !.again = "idle"]
  BY DEF Pinned
<1>3. {c} \in SUBSET Cores
  OBVIOUS
<1> HIDE DEF they
<1>4. you \in ThreadState
  BY <1>1, <1>2, <1>3, ZenonT(60) DEF ThreadState
<1>5. /\ they.pc = pc /\ they.used = me.used /\ they.tries = me.tries
      /\ they.moved = me.moved /\ they.phase0_core = me.phase0_core
      /\ they.core_migration = me.core_migration
  BY DEF they, ThreadState
<1> QED
  BY <1>1, <1>2, <1>4, <1>5, ZenonT(60) DEF ThreadState

\* cpu_isolation_migrate_current_thread: the new core is not blacklisted, so it
\* was not paid for yet.
LEMMA MigrateStep ==
  ASSUME IInv, NEW t \in Thread, NEW me \in ThreadState, status = "run",
         migrate_current_thread(t, me),
         me.again \in {"crc", "phase0", "idle"}, me.used = {},
         me.tries <= Cardinality(blacklist)
  PROVE  IInv'
<1> DEFINE c == get_next_available(blacklist, rr_cursor)
           you == Pinned([me EXCEPT !.pc = me.again], c)
<1>1. Types /\ blacklist \in SUBSET Cores /\ rr_cursor \in Cores
  BY DEF IInv, Types
<1>2. num_blacklisted < num_cores => c \in Cores \ blacklist /\ next_cursor(c) \in Cores
  BY <1>1, NextAvailable DEF Types
<1>3. CASE (num_blacklisted < num_cores => c \notin Allowed) /\ Exits
  <2>1. ASSUME Allowed = Cores PROVE Cardinality(Cores \ blacklist) <= 1
    <3>1. ~(num_blacklisted < num_cores)
      BY <1>2, <1>3, <2>1
    <3>2. IsFiniteSet(Cores) /\ Cardinality(Cores) = num_cores
      BY CpuConstants, FS_Interval DEF Cores
    <3>3. Cardinality(blacklist) \in Nat /\ Cardinality(blacklist) <= Cardinality(Cores)
      BY <1>1, <3>2, CoreSets, FS_Subset
    <3>4. Cardinality(Cores) = Cardinality(blacklist)
      BY <1>1, <3>1, <3>2, <3>3, CpuConstants DEF Types
    <3>5. Cores = blacklist
      BY <1>1, <3>2, <3>4, FS_Subset
    <3>6. Cores \ blacklist = {}
      BY <3>5
    <3> QED
      BY <3>6, FS_EmptySet
  <2> QED
    BY <1>3, <2>1, ExitStep
<1>4. CASE /\ num_blacklisted < num_cores /\ c \in Allowed
           /\ th' = [th EXCEPT ![t] = you]
           /\ rr_cursor' = next_cursor(c)
           /\ UNCHANGED <<cross, bad, blacklist, num_blacklisted, status>>
  <2>1. c \in Cores \ blacklist /\ rr_cursor' \in Cores
    BY <1>2, <1>4
  <2>2. /\ you \in ThreadState
        /\ you.pc = me.again /\ you.core = c /\ you.affinity = {c}
        /\ you.used = {} /\ you.tries = me.tries
    <3>1. me.again \in Pc
      BY DEF Pc
    <3> QED
      BY <2>1, <3>1, PinnedState
  <2>3. Involved(you, blacklist)
    BY <2>2 DEF Involved
  <2>4. blacklist \ {c} = blacklist
    BY <2>1
  <2>5. Paid(you, blacklist)
    BY <2>2, <2>4 DEF Paid
  <2>6. /\ blacklist' = blacklist /\ blacklist' \subseteq Cores
        /\ num_blacklisted' = Cardinality(blacklist')
    BY <1>1, <1>4 DEF Types
  <2> HIDE DEF you
  <2> QED
    BY <1>4, <2>1, <2>2, <2>3, <2>5, <2>6, ThreadStep, Zenon
<1> QED
  BY <1>3, <1>4 DEF migrate_current_thread

\* cpu_isolation_migrate_excluding_core, before the second computation.
LEMMA ExcludingStep ==
  ASSUME IInv, NEW t \in Thread, NEW e \in Int, NEW me \in ThreadState,
         status = "run", migrate_excluding(t, e, me),
         \/ me.pc = "crc1" /\ (me.moved \/ cross)
         \/ me.pc = "phase1" /\ (me.moved \/ me.core_migration),
         me.moved \/ me.used \subseteq {me.phase0_core},
         me.tries <= Cardinality(blacklist)
  PROVE  IInv'
<1> DEFINE S == available_excluding(blacklist, e)
           c == migrate_excluding_core(blacklist, e)
           you == Pinned(me, c)
<1>1. Types /\ blacklist \in SUBSET Cores
  BY DEF IInv, Types
<1>2. S # {} => c \in Cores \ blacklist
  <2>1. S \in SUBSET Nat /\ S \subseteq Cores \ blacklist
    BY CpuConstants DEF available_excluding, Cores
  <2> QED
    BY <2>1, LowestIn DEF migrate_excluding_core
<1>3. CASE (S # {} => c \notin Allowed) /\ Exits
  <2>1. ASSUME Allowed = Cores PROVE Cardinality(Cores \ blacklist) <= 1
    <3>1. S = {}
      BY <1>2, <1>3, <2>1
    <3>2. Cores \ blacklist \in SUBSET {e}
      BY <3>1 DEF available_excluding
    <3>3. IsFiniteSet({e}) /\ Cardinality({e}) = 1
      BY FS_Singleton, Zenon
    <3> QED
      BY <3>2, <3>3, FS_Subset
  <2> QED
    BY <1>3, <2>1, ExitStep
<1>4. CASE /\ S # {} /\ c \in Allowed
           /\ th' = [th EXCEPT ![t] = you]
           /\ UNCHANGED <<cross, bad, state, status>>
  <2>1. c \in Cores \ blacklist
    BY <1>2, <1>4
  <2>2. /\ you \in ThreadState
        /\ you.pc = me.pc /\ you.core = c /\ you.affinity = {c}
        /\ you.used = me.used /\ you.tries = me.tries /\ you.moved = me.moved
        /\ you.phase0_core = me.phase0_core
        /\ you.core_migration = me.core_migration
    <3>1. me = [me EXCEPT !.pc = me.pc] /\ me.pc \in Pc
      BY DEF ThreadState
    <3>2. you = Pinned([me EXCEPT !.pc = me.pc], c)
      BY <3>1, SMTT(60)
    <3> QED
      BY <2>1, <3>1, <3>2, PinnedState
  <2>3. Involved(you, blacklist)
    BY <2>2 DEF Involved
  <2>4. blacklist \ {c} = blacklist
    BY <2>1
  <2>5. Paid(you, blacklist)
    BY <2>2, <2>4 DEF Paid
  <2>6. /\ blacklist' = blacklist /\ blacklist' \subseteq Cores /\ rr_cursor' \in Cores
        /\ num_blacklisted' = Cardinality(blacklist')
    BY <1>1, <1>4 DEF Types, state
  <2> HIDE DEF you
  <2> QED
    BY <1>4, <2>2, <2>3, <2>5, <2>6, ThreadStep, Zenon
<1> QED
  BY <1>3, <1>4 DEF migrate_excluding

-----------------------------------------------------------------------------
\* What the invariant says of a thread.
LEMMA Mine ==
  ASSUME IInv, NEW t \in Thread
  PROVE  /\ th[t] \in ThreadState
         /\ Involved(th[t], blacklist) /\ Paid(th[t], blacklist)
         /\ blacklist \in SUBSET Cores
         /\ Cardinality(blacklist) \in Nat
         /\ \A c \in Int : Cardinality(blacklist \ {c}) \in Nat
<1>1. blacklist \in SUBSET Cores /\ th[t] \in ThreadState
  BY DEF IInv, Types
<1>2. \A c \in Int : blacklist \ {c} \in SUBSET Cores
  BY <1>1
<1> QED
  BY <1>1, <1>2, CoreSets DEF IInv

LEMMA FreshState ==
  ASSUME NEW me \in ThreadState, NEW pc \in Pc,
         NEW you, you = Fresh([me EXCEPT !.pc = pc])
  PROVE  /\ you \in ThreadState
         /\ you.pc = pc /\ you.core = me.core /\ you.affinity = me.affinity
         /\ you.saved_affinity = me.saved_affinity /\ you.tries = me.tries
         /\ you.used = {} /\ you.wrong = {} /\ ~you.moved
<1> DEFINE they == [me EXCEPT !.pc = pc]
<1>1. they \in ThreadState
  BY DEF ThreadState
<1>2. you = [they EXCEPT !.phase0_core = -1, !.exclude = -1, !.current_core = -1,
                         !.mask = {}, !.again = "idle", !.used = {}, !.wrong = {},
                         !.moved = FALSE]
  BY DEF Fresh
<1>3. /\ they.pc = pc /\ they.core = me.core /\ they.affinity = me.affinity
      /\ they.saved_affinity = me.saved_affinity /\ they.tries = me.tries
  BY DEF ThreadState
<1> HIDE DEF they
<1>4. you \in ThreadState
  <2>1. \A a \in Int, E \in SUBSET Cores :
          [they EXCEPT !.phase0_core = a, !.exclude = a, !.current_core = a,
                       !.mask = E, !.again = "idle", !.used = E, !.wrong = E,
                       !.moved = FALSE] \in ThreadState
    BY <1>1, ZenonT(60) DEF ThreadState
  <2>2. -1 \in Int /\ {} \in SUBSET Cores
    OBVIOUS
  <2> QED
    BY <1>2, <2>1, <2>2, ZenonT(60)
<1> QED
  BY <1>1, <1>2, <1>3, <1>4, ZenonT(60) DEF ThreadState

\* Before its first retry, a thread has nothing to pay for.
LEMMA NothingPaid ==
  ASSUME NEW B \in SUBSET Cores, NEW me \in ThreadState, me.tries = 0,
         me.pc \in {"crc", "crc_core", "crc0", "crc1", "phase0", "phase1", "sdc"},
         me.pc = "sdc" => me.again \in {"crc", "phase0"}
  PROVE  Paid(me, B)
<1>1. B \ {me.core} \in SUBSET Cores
  OBVIOUS
<1>2. Cardinality(B) \in Nat /\ Cardinality(B \ {me.core}) \in Nat
  BY <1>1, CoreSets
<1>3. 0 <= Cardinality(B) /\ 0 <= Cardinality(B \ {me.core})
  BY <1>2
<1> QED
  BY <1>3 DEF Paid

LEMMA PrepareStep ==
  ASSUME IInv, NEW t \in Thread, prepare(t)
  PROVE  IInv'
<1>1. PICK pc \in {"phase0", "crc"}, migration \in BOOLEAN :
        th' = [th EXCEPT ![t].pc = pc, ![t].core_migration = migration,
                         ![t].ntx = @ + 1, ![t].tries = 0]
  BY Zenon DEF prepare
<1> DEFINE me == [th[t] EXCEPT !.pc = pc, !.core_migration = migration,
                               !.ntx = @ + 1, !.tries = 0]
<1>2. th[t] \in ThreadState /\ th \in [Thread -> ThreadState]
  BY Mine DEF IInv, Types
<1>3. /\ me \in ThreadState
      /\ me.pc = pc /\ me.used = th[t].used
      /\ me.moved = th[t].moved /\ me.tries = 0
  <2>1. pc \in Pc /\ th[t].ntx + 1 \in Nat
    BY <1>2 DEF Pc, ThreadState
  <2> QED
    BY <1>2, <2>1, Zenon DEF ThreadState
<1>4. Locals(t, me)
  BY <1>1, <1>2, ZenonT(60) DEF prepare, Locals
<1> HIDE DEF me
<1>5. Involved(me, blacklist)
  BY <1>3, Mine DEF Involved, prepare, At
<1>6. Paid(me, blacklist)
  <2>1. blacklist \in SUBSET Cores
    BY Mine
  <2>2. /\ me.pc \in {"crc", "crc_core", "crc0", "crc1", "phase0", "phase1", "sdc"}
        /\ me.pc # "sdc"
    BY <1>3
  <2> QED
    BY <1>3, <2>1, <2>2, NothingPaid
<1> QED
  BY <1>3, <1>4, <1>5, <1>6, LocalsStep DEF prepare, At

\* The scheduler moves a thread only if its affinity has several cores, which
\* is so only before the first retry.
LEMMA ScheduleStep ==
  ASSUME IInv, NEW t \in Thread, schedule(t)
  PROVE  IInv'
<1>1. PICK c \in th[t].affinity \ {th[t].core} :
        th' = [th EXCEPT ![t].core = c, ![t].moved = TRUE,
                         ![t].used = IF Computing(t) THEN Used(t) ELSE @]
  BY Zenon DEF schedule
<1> DEFINE me == [th[t] EXCEPT !.core = c, !.moved = TRUE,
                               !.used = IF Computing(t) THEN Used(t) ELSE @]
<1>2. th[t] \in ThreadState /\ th \in [Thread -> ThreadState]
  BY Mine DEF IInv, Types
<1>3. c \in Cores /\ th[t].affinity # {th[t].core} /\ Used(t) \in SUBSET Cores
  BY <1>1, <1>2 DEF ThreadState, Used
<1>4. /\ me \in ThreadState /\ me.moved /\ me.pc = th[t].pc
      /\ me.tries = th[t].tries /\ me.again = th[t].again
  BY <1>2, <1>3, Zenon DEF ThreadState
<1>5. th' = [th EXCEPT ![t] = me]
  BY <1>1, <1>2, Zenon
<1>6. th[t].pc \in {"crc", "crc_core", "crc0", "crc1", "phase0", "phase1", "sdc"}
  BY DEF schedule, Computing
<1> HIDE DEF me
<1>7. me.tries = 0 /\ (me.pc = "sdc" => me.again \in {"crc", "phase0"})
  BY <1>3, <1>4, <1>6, Mine, ZenonT(60) DEF Paid
<1>8. Involved(me, blacklist)
  BY <1>4 DEF Involved
<1>9. Paid(me, blacklist)
  <2>1. blacklist \in SUBSET Cores
    BY Mine
  <2>2. me.pc \in {"crc", "crc_core", "crc0", "crc1", "phase0", "phase1", "sdc"}
    BY <1>4, <1>6
  <2> QED
    BY <1>4, <1>7, <2>1, <2>2, NothingPaid
<1>10. /\ UNCHANGED <<cross, bad, status, blacklist, num_blacklisted, rr_cursor>>
       /\ status = "run"
  BY DEF schedule, state
<1>11. /\ blacklist' = blacklist /\ blacklist' \subseteq Cores /\ rr_cursor' \in Cores
       /\ num_blacklisted' = Cardinality(blacklist')
  BY <1>10 DEF IInv, Types
<1> QED
  BY <1>4, <1>5, <1>8, <1>9, <1>10, <1>11, ThreadStep, Zenon

\* Recovery begins: the results that differ come from the core of the thread,
\* or from that and phase0_core if there are two.
LEMMA SuspectStep ==
  ASSUME IInv, NEW t \in Thread, status = "run", NEW again \in {"crc", "phase0"},
         Suspect(t, again), th[t].pc \in {"crc", "crc1", "phase1"},
         th[t].moved \/ th[t].used \subseteq {th[t].core} \cup
           (IF (IF again = "crc" THEN cross ELSE th[t].core_migration)
              THEN {th[t].phase0_core} ELSE {})
  PROVE  IInv'
<1>1. PICK wrong \in SUBSET (Used(t) \cap bad) :
        Locals(t, [th[t] EXCEPT !.pc = "sdc", !.again = again, !.wrong = wrong])
  BY Zenon DEF Suspect
<1> DEFINE me == [th[t] EXCEPT !.pc = "sdc", !.again = again, !.wrong = wrong]
<1>2. th[t] \in ThreadState
  BY Mine
<1>3. wrong \in SUBSET Cores /\ wrong \subseteq th[t].used \cup {th[t].core}
  BY <1>2 DEF IInv, Types, Used, ThreadState
<1>4. /\ me \in ThreadState /\ me.pc = "sdc" /\ me.again = again /\ me.wrong = wrong
      /\ me.core = th[t].core /\ me.phase0_core = th[t].phase0_core
      /\ me.core_migration = th[t].core_migration /\ me.moved = th[t].moved
      /\ me.tries = th[t].tries /\ me.affinity = th[t].affinity
  BY <1>2, <1>3, Zenon DEF ThreadState, Pc
<1>5. Locals(t, me)
  BY <1>1
<1> HIDE DEF me
<1>6. Involved(me, blacklist)
  BY <1>3, <1>4 DEF Involved
<1>7. Paid(me, blacklist)
  BY <1>4, Mine, Zenon DEF Paid
<1> QED
  BY <1>4, <1>5, <1>6, <1>7, LocalsStep

\* A computation has succeeded.
LEMMA FreshStep ==
  ASSUME IInv, NEW t \in Thread, status = "run", NEW pc \in {"idle", "phase0", "restore"},
         Locals(t, Fresh([th[t] EXCEPT !.pc = pc])),
         th[t].pc \in {"crc", "crc1", "phase1"}
  PROVE  IInv'
<1> DEFINE me == Fresh([th[t] EXCEPT !.pc = pc])
<1>1. th[t] \in ThreadState /\ pc \in Pc
  BY Mine DEF Pc
<1>2. /\ me \in ThreadState /\ me.pc = pc /\ me.core = th[t].core
      /\ me.affinity = th[t].affinity /\ me.tries = th[t].tries /\ me.used = {}
  BY <1>1, FreshState
<1>3. Locals(t, me)
  OBVIOUS
<1> HIDE DEF me
<1>4. Involved(me, blacklist)
  BY <1>2 DEF Involved
<1>5. Paid(me, blacklist)
  BY <1>2, Mine, Zenon DEF Paid
<1> QED
  BY <1>2, <1>3, <1>4, <1>5, LocalsStep

LEMMA VerifiedStep ==
  ASSUME IInv, NEW t \in Thread, status = "run", verified_crc(t),
         (th[t].pc = "crc" /\ ~cross) \/ th[t].pc = "crc1"
  PROVE  IInv'
<1>1. CASE Suspect(t, "crc")
  <2>1. th[t].moved \/ th[t].used \subseteq {th[t].core} \cup
          (IF cross THEN {th[t].phase0_core} ELSE {})
    BY Mine DEF Involved
  <2> QED
    BY <1>1, <2>1, SuspectStep
<1>2. ASSUME NEW pc \in {"phase0", "idle"}, Locals(t, Fresh([th[t] EXCEPT !.pc = pc]))
      PROVE  IInv'
  BY <1>2, FreshStep, Zenon
<1> QED
  BY <1>1, <1>2 DEF verified_crc

LEMMA CrcSteps ==
  ASSUME IInv, NEW t \in Thread,
         crc(t) \/ crc_core(t) \/ crc_migrate(t) \/ crc_compare(t)
  PROVE  IInv'
<1>1. th[t] \in ThreadState /\ th[t].core \in Int
  BY Mine, CpuConstants DEF ThreadState, Cores
<1>2. CASE crc(t)
  <2>1. CASE ~cross /\ verified_crc(t)
    BY <1>2, <2>1, VerifiedStep DEF crc, At
  <2>2. CASE cross /\ Locals(t, [th[t] EXCEPT !.pc = "crc_core",
                                               !.phase0_core = th[t].core])
    <3> DEFINE me == [th[t] EXCEPT !.pc = "crc_core", !.phase0_core = th[t].core]
    <3>1. /\ me \in ThreadState /\ me.pc = "crc_core" /\ me.core = th[t].core
          /\ me.phase0_core = th[t].core /\ me.affinity = th[t].affinity
          /\ me.tries = th[t].tries /\ me.used = th[t].used /\ me.moved = th[t].moved
      BY <1>1, Zenon DEF ThreadState, Pc
    <3>2. Locals(t, me)
      BY <2>2
    <3> HIDE DEF me
    <3>3. Involved(me, blacklist)
      BY <1>2, <2>2, <3>1, Mine DEF Involved, crc, At
    <3>4. Paid(me, blacklist)
      BY <1>2, <3>1, Mine, Zenon DEF Paid, crc, At
    <3> QED
      BY <1>2, <3>1, <3>2, <3>3, <3>4, LocalsStep DEF crc, At
  <2> QED
    BY <1>2, <2>1, <2>2 DEF crc
<1>3. CASE crc_core(t)
  <2> DEFINE me == [th[t] EXCEPT !.pc = "crc0", !.exclude = th[t].core]
  <2>1. /\ me \in ThreadState /\ me.pc = "crc0" /\ me.core = th[t].core
        /\ me.phase0_core = th[t].phase0_core /\ me.affinity = th[t].affinity
        /\ me.tries = th[t].tries /\ me.used = th[t].used /\ me.moved = th[t].moved
    BY <1>1, Zenon DEF ThreadState, Pc
  <2>2. Locals(t, me)
    BY <1>3 DEF crc_core
  <2> HIDE DEF me
  <2>3. Involved(me, blacklist)
    BY <1>3, <2>1, Mine DEF Involved, crc_core, At
  <2>4. Paid(me, blacklist)
    BY <1>3, <2>1, Mine, Zenon DEF Paid, crc_core, At
  <2> QED
    BY <1>3, <2>1, <2>2, <2>3, <2>4, LocalsStep DEF crc_core, At
<1>4. CASE crc_migrate(t)
  <2> DEFINE me == [th[t] EXCEPT !.pc = "crc1", !.exclude = -1, !.used = Used(t)]
  <2>1. Used(t) \in SUBSET Cores /\ -1 \in Int /\ th[t].exclude \in Int
    BY <1>1 DEF Used, ThreadState
  <2>2. /\ me \in ThreadState /\ me.pc = "crc1" /\ me.used = Used(t)
        /\ me.phase0_core = th[t].phase0_core /\ me.tries = th[t].tries
        /\ me.moved = th[t].moved
    BY <1>1, <2>1, Zenon DEF ThreadState, Pc
  <2>3. migrate_excluding(t, th[t].exclude, me)
    BY <1>4 DEF crc_migrate
  <2> HIDE DEF me
  <2>4. (me.moved \/ cross) /\ (me.moved \/ me.used \subseteq {me.phase0_core})
    BY <1>4, <2>2, Mine DEF Involved, crc_migrate, At, Used
  <2>5. me.tries <= Cardinality(blacklist)
    BY <2>2, Mine, Zenon DEF Paid
  <2> QED
    BY <1>4, <2>1, <2>2, <2>3, <2>4, <2>5, ExcludingStep DEF crc_migrate, At
<1>5. CASE crc_compare(t)
  BY <1>5, VerifiedStep DEF crc_compare, At
<1> QED
  BY <1>2, <1>3, <1>4, <1>5

LEMMA PhaseSteps ==
  ASSUME IInv, NEW t \in Thread, phase0(t) \/ switch(t) \/ phase1(t)
  PROVE  IInv'
<1>1. th[t] \in ThreadState /\ th[t].core \in Int /\ Used(t) \in SUBSET Cores
  BY Mine, CpuConstants DEF ThreadState, Cores, Used
<1>2. CASE phase0(t) /\ th[t].core_migration
  <2> DEFINE A == IF th[t].saved_affinity = {} THEN th[t].affinity
                  ELSE th[t].saved_affinity
             me == [th[t] EXCEPT !.pc = "switch", !.phase0_core = th[t].core,
                                 !.used = Used(t), !.saved_affinity = A]
  <2>1. A \in SUBSET Cores
    BY <1>1 DEF ThreadState
  <2>2. Locals(t, me)
    BY <1>1, <1>2 DEF phase0, ThreadState
  <2> HIDE DEF A
  <2>3. /\ me \in ThreadState /\ me.pc = "switch" /\ me.core = th[t].core
        /\ me.phase0_core = th[t].core /\ me.affinity = th[t].affinity
        /\ me.tries = th[t].tries /\ me.used = Used(t) /\ me.moved = th[t].moved
        /\ me.core_migration
    BY <1>1, <1>2, <2>1, Zenon DEF ThreadState, Pc
  <2> HIDE DEF me
  <2>4. Involved(me, blacklist)
    BY <1>2, <2>3, Mine DEF Involved, phase0, At, Used
  <2>5. Paid(me, blacklist)
    BY <1>2, <2>3, Mine, Zenon DEF Paid, phase0, At
  <2> QED
    BY <1>2, <2>2, <2>3, <2>4, <2>5, LocalsStep DEF phase0, At
<1>3. CASE phase0(t) /\ ~th[t].core_migration
  <2> DEFINE me == [th[t] EXCEPT !.pc = "phase1", !.used = Used(t)]
  <2>1. Locals(t, me)
    BY <1>3 DEF phase0
  <2>2. /\ me \in ThreadState /\ me.pc = "phase1" /\ me.core = th[t].core
        /\ me.affinity = th[t].affinity /\ me.tries = th[t].tries
        /\ me.used = Used(t) /\ me.moved = th[t].moved /\ ~me.core_migration
    BY <1>1, <1>3, Zenon DEF ThreadState, Pc
  <2> HIDE DEF me
  <2>3. Involved(me, blacklist)
    BY <1>3, <2>2, Mine DEF Involved, phase0, At, Used
  <2>4. Paid(me, blacklist)
    BY <1>3, <2>2, Mine, ZenonT(60) DEF Paid, phase0, At
  <2> QED
    BY <1>3, <2>1, <2>2, <2>3, <2>4, LocalsStep DEF phase0, At
<1>4. CASE switch(t)
  <2> DEFINE me == [th[t] EXCEPT !.pc = "phase1"]
  <2>1. /\ me \in ThreadState /\ me.pc = "phase1" /\ me.used = th[t].used
        /\ me.phase0_core = th[t].phase0_core /\ me.tries = th[t].tries
        /\ me.moved = th[t].moved /\ me.core_migration = th[t].core_migration
        /\ th[t].phase0_core \in Int
    BY <1>1 DEF ThreadState, Pc
  <2>2. migrate_excluding(t, th[t].phase0_core, me)
    BY <1>4 DEF switch
  <2> HIDE DEF me
  <2>3. /\ me.moved \/ me.core_migration
        /\ me.moved \/ me.used \subseteq {me.phase0_core}
    BY <1>4, <2>1, Mine DEF Involved, switch, At
  <2>4. me.tries <= Cardinality(blacklist)
    BY <2>1, Mine, Zenon DEF Paid
  <2> QED
    BY <1>4, <2>1, <2>2, <2>3, <2>4, ExcludingStep DEF switch, At
<1>5. CASE phase1(t)
  <2>1. CASE Suspect(t, "phase0")
    <3>1. th[t].moved \/ th[t].used \subseteq {th[t].core} \cup
            (IF th[t].core_migration THEN {th[t].phase0_core} ELSE {})
      BY <1>5, Mine DEF Involved, phase1, At
    <3> QED
      BY <1>5, <2>1, <3>1, SuspectStep DEF phase1, At
  <2>2. ASSUME NEW pc \in {"idle", "restore"},
               Locals(t, Fresh([th[t] EXCEPT !.pc = pc]))
        PROVE  IInv'
    BY <1>5, <2>2, FreshStep, Zenon DEF phase1, At
  <2> QED
    BY <1>5, <2>1, <2>2 DEF phase1
<1> QED
  BY <1>2, <1>3, <1>4, <1>5 DEF phase0

LEMMA SdcStep ==
  ASSUME IInv, NEW t \in Thread, sdc(t)
  PROVE  IInv'
<1> DEFINE pc == IF BothCores(t) THEN "blacklist_phase0" ELSE "blacklist_current"
           me == [th[t] EXCEPT !.current_core = th[t].core, !.pc = pc]
<1>1. th[t] \in ThreadState /\ th[t].core \in Int /\ pc \in Pc
  BY Mine, CpuConstants DEF ThreadState, Cores, Pc
<1>2. Locals(t, me)
  BY DEF sdc
<1>3. pc = IF BothCores(t) THEN "blacklist_phase0" ELSE "blacklist_current"
  OBVIOUS
<1> HIDE DEF pc
<1>4. /\ me \in ThreadState /\ me.pc = pc /\ me.current_core = th[t].core
      /\ me.core = th[t].core /\ me.phase0_core = th[t].phase0_core
      /\ me.wrong = th[t].wrong /\ me.moved = th[t].moved
      /\ me.tries = th[t].tries /\ me.again = th[t].again
  BY <1>1, Zenon DEF ThreadState
<1> HIDE DEF me
<1>5. Involved(me, blacklist)
  BY <1>3, <1>4, Mine DEF Involved, sdc, At, BothCores
<1>6. Paid(me, blacklist)
  <2>1. th[t].core \in Cores
    BY <1>1 DEF ThreadState
  <2> QED
    BY <1>3, <1>4, <2>1, Mine, Zenon DEF Paid, sdc, At
<1> QED
  BY <1>2, <1>4, <1>5, <1>6, LocalsStep DEF sdc, At

\* cpu_isolation_blacklist_core keeps num_blacklisted right.
LEMMA Blacklisted ==
  ASSUME IInv, NEW c \in Int, blacklist_core(c)
  PROVE  /\ blacklist \subseteq blacklist' /\ blacklist' \subseteq Cores
         /\ num_blacklisted' = Cardinality(blacklist')
         /\ c \in Cores => blacklist' = blacklist \cup {c}
<1>1. blacklist \in SUBSET Cores /\ num_blacklisted = Cardinality(blacklist)
  BY DEF IInv, Types
<1>2. CASE c \in Cores \ blacklist
  <2>1. IsFiniteSet(blacklist)
    BY <1>1, CoreSets
  <2>2. blacklist' = blacklist \cup {c} /\ num_blacklisted' = num_blacklisted + 1
    BY <1>2 DEF blacklist_core
  <2>3. Cardinality(blacklist \cup {c}) = Cardinality(blacklist) + 1
    BY <1>2, <2>1, FS_AddElement
  <2> QED
    BY <1>1, <1>2, <2>2, <2>3
<1>3. CASE c \notin Cores \ blacklist
  <2>1. blacklist' = blacklist /\ num_blacklisted' = num_blacklisted
    BY <1>3 DEF blacklist_core
  <2> QED
    BY <1>1, <1>3, <2>1
<1> QED
  BY <1>2, <1>3

LEMMA BlacklistPhaseZeroStep ==
  ASSUME IInv, NEW t \in Thread, blacklist_phase0(t)
  PROVE  IInv'
<1> DEFINE me == [th[t] EXCEPT !.pc = "blacklist_current"]
<1>1. th[t] \in ThreadState /\ th \in [Thread -> ThreadState]
  BY Mine DEF IInv, Types
<1>2. /\ me \in ThreadState /\ me.pc = "blacklist_current"
      /\ me.current_core = th[t].current_core
      /\ me.wrong = th[t].wrong /\ me.moved = th[t].moved
      /\ me.tries = th[t].tries /\ me.again = th[t].again
  BY <1>1, SMTT(60) DEF ThreadState, Pc
<1>3. th' = [th EXCEPT ![t] = me]
  BY <1>1 DEF blacklist_phase0
<1> HIDE DEF me
<1>4. th[t].phase0_core \in Int /\ th[t].wrong \subseteq Cores
  BY <1>1 DEF ThreadState
<1>5. /\ blacklist \subseteq blacklist' /\ blacklist' \subseteq Cores
      /\ num_blacklisted' = Cardinality(blacklist')
      /\ th[t].phase0_core \in Cores => th[t].phase0_core \in blacklist'
  BY <1>4, Blacklisted DEF blacklist_phase0
<1>6. Involved(me, blacklist')
  BY <1>2, <1>4, <1>5, Mine DEF Involved, blacklist_phase0, At
<1>7. Paid(me, blacklist')
  <2>1. Paid(me, blacklist)
    BY <1>2, Mine, Zenon DEF Paid, blacklist_phase0, At
  <2> QED
    BY <1>2, <1>5, <2>1, PaidMonotone
<1>8. /\ UNCHANGED <<cross, bad, status, rr_cursor>> /\ status = "run"
      /\ rr_cursor' \in Cores
  BY DEF blacklist_phase0, At, IInv, Types
<1> QED
  BY <1>2, <1>3, <1>5, <1>6, <1>7, <1>8, ThreadStep, Zenon

\* The core of the thread becomes one that the retry is paid with.
LEMMA BlacklistCurrentStep ==
  ASSUME IInv, NEW t \in Thread, blacklist_current(t)
  PROVE  IInv'
<1> DEFINE me == [th[t] EXCEPT !.pc = "migrate"]
<1>1. th[t] \in ThreadState /\ th \in [Thread -> ThreadState]
  BY Mine DEF IInv, Types
<1>2. /\ me \in ThreadState /\ me.pc = "migrate"
      /\ me.wrong = th[t].wrong /\ me.moved = th[t].moved
      /\ me.tries = th[t].tries /\ me.again = th[t].again
  BY <1>1 DEF ThreadState, Pc
<1>3. th' = [th EXCEPT ![t] = me]
  BY <1>1 DEF blacklist_current
<1> HIDE DEF me
<1>4. /\ th[t].current_core \in Cores /\ th[t].current_core \in Int
      /\ th[t].tries \in Nat
      /\ th[t].tries <= Cardinality(blacklist \ {th[t].current_core})
      /\ th[t].again \in {"crc", "phase0"}
  BY <1>1, Mine, Zenon DEF Paid, ThreadState, blacklist_current, At
<1>5. /\ blacklist' = blacklist \cup {th[t].current_core}
      /\ blacklist \subseteq blacklist' /\ blacklist' \subseteq Cores
      /\ num_blacklisted' = Cardinality(blacklist')
  BY <1>4, Blacklisted DEF blacklist_current
<1>6. Involved(me, blacklist')
  BY <1>2, <1>5, Mine DEF Involved, blacklist_current, At
<1>7. Paid(me, blacklist')
  <2>1. Cardinality(blacklist') = Cardinality(blacklist \ {th[t].current_core}) + 1
    BY <1>4, <1>5, Mine, CoreSets
  <2>2. Cardinality(blacklist \ {th[t].current_core}) \in Nat
    BY <1>4, Mine
  <2>3. me.tries + 1 <= Cardinality(blacklist') /\ me.tries <= Cardinality(blacklist')
    BY <1>2, <1>4, <2>1, <2>2
  <2> QED
    BY <1>2, <1>4, <2>3 DEF Paid
<1>8. /\ UNCHANGED <<cross, bad, status, rr_cursor>> /\ status = "run"
      /\ rr_cursor' \in Cores
  BY DEF blacklist_current, At, IInv, Types
<1> QED
  BY <1>2, <1>3, <1>5, <1>6, <1>7, <1>8, ThreadStep, Zenon

LEMMA RetryStep ==
  ASSUME IInv, NEW t \in Thread, migrate(t)
  PROVE  IInv'
<1> DEFINE they == Fresh(th[t])
           n == Lowest({they.tries + 1, num_cores + 1})
           me == [they EXCEPT !.again = th[t].again, !.tries = n]
<1>1. th[t] \in ThreadState /\ th[t] = [th[t] EXCEPT !.pc = th[t].pc] /\ th[t].pc \in Pc
  BY Mine DEF ThreadState
<1>2. they \in ThreadState /\ they.used = {} /\ they.tries = th[t].tries
  BY <1>1, FreshState
<1>3. /\ th[t].tries \in Nat /\ th[t].tries + 1 <= Cardinality(blacklist)
      /\ th[t].again \in {"crc", "phase0"}
  BY <1>1, Mine, Zenon DEF Paid, ThreadState, migrate, At
<1>4. n \in Nat /\ n <= th[t].tries + 1
  <2> DEFINE S == {they.tries + 1, num_cores + 1}
  <2>1. S \in SUBSET Nat /\ S # {} /\ th[t].tries + 1 \in S
    BY <1>2, <1>3, CpuConstants
  <2> HIDE DEF S
  <2>2. Lowest(S) \in Nat /\ Lowest(S) <= th[t].tries + 1
    BY <2>1, LowestIn, Zenon
  <2> QED
    BY <2>2 DEF S
<1>5. migrate_current_thread(t, me)
  BY <1>2 DEF migrate, ThreadState
<1> HIDE DEF they, n
<1>6. me \in ThreadState /\ me.again = th[t].again /\ me.used = {} /\ me.tries = n
  BY <1>2, <1>3, <1>4, Zenon DEF ThreadState
<1>7. n <= Cardinality(blacklist)
  BY <1>3, <1>4, Mine
<1> HIDE DEF me
<1> QED
  BY <1>3, <1>5, <1>6, <1>7, MigrateStep DEF migrate, At

\* The end of a commit that had migrated between its phases.
LEMMA RestoreSteps ==
  ASSUME IInv, NEW t \in Thread, restore(t) \/ setaffinity(t) \/ remigrate(t)
  PROVE  IInv'
<1>1. th[t] \in ThreadState /\ th[t] = [th[t] EXCEPT !.pc = th[t].pc] /\ th[t].pc \in Pc
  BY Mine DEF ThreadState
<1>2. th[t].tries <= Cardinality(blacklist)
  BY Mine, Zenon DEF Paid
<1>3. CASE restore(t)
  <2> DEFINE mask == th[t].saved_affinity \ blacklist
             pc == IF mask = {} THEN "remigrate" ELSE "setaffinity"
             me == [th[t] EXCEPT !.mask = mask, !.pc = pc]
  <2>1. Locals(t, me)
    BY <1>3 DEF restore
  <2>2. mask \in SUBSET Cores /\ pc \in Pc /\ pc \in {"remigrate", "setaffinity"}
    BY <1>1 DEF ThreadState, Pc
  <2> HIDE DEF mask, pc
  <2>3. me \in ThreadState /\ me.pc = pc /\ me.tries = th[t].tries
    BY <1>1, <2>2, Zenon DEF ThreadState
  <2> HIDE DEF me
  <2>4. Involved(me, blacklist) /\ Paid(me, blacklist)
    BY <1>2, <2>2, <2>3 DEF Involved, Paid
  <2> QED
    BY <1>3, <2>1, <2>3, <2>4, LocalsStep DEF restore, At
<1> DEFINE they == Fresh(th[t])
<1>4. they \in ThreadState /\ they.used = {} /\ they.tries = th[t].tries
  BY <1>1, FreshState
<1>5. they.again = "idle"
  BY <1>1, SMTT(60) DEF Fresh, ThreadState
<1>6. CASE setaffinity(t)
  <2>1. PICK c \in IF th[t].core \in th[t].mask THEN {th[t].core} ELSE th[t].mask :
          Locals(t, [they EXCEPT !.pc = "idle", !.core = c,
                       !.affinity = th[t].mask, !.saved_affinity = {}])
    BY <1>6, Zenon DEF setaffinity
  <2> HIDE DEF they
  <2> DEFINE me == [they EXCEPT !.pc = "idle", !.core = c,
                                !.affinity = th[t].mask, !.saved_affinity = {}]
  <2>2. c \in Cores /\ th[t].mask \in SUBSET Cores /\ {} \in SUBSET Cores
    BY <1>1, <2>1 DEF ThreadState
  <2>3. me \in ThreadState /\ me.pc = "idle" /\ me.used = {} /\ me.tries = th[t].tries
    BY <1>4, <2>2, Zenon DEF ThreadState, Pc
  <2>4. Locals(t, me)
    BY <2>1
  <2> HIDE DEF me
  <2>5. Involved(me, blacklist) /\ Paid(me, blacklist)
    BY <1>2, <2>3 DEF Involved, Paid
  <2> QED
    BY <1>6, <2>3, <2>4, <2>5, LocalsStep, ZenonT(60) DEF setaffinity, At
<1>7. CASE remigrate(t)
  <2> DEFINE me == [they EXCEPT !.saved_affinity = {}]
  <2>1. migrate_current_thread(t, me)
    BY <1>7 DEF remigrate
  <2> HIDE DEF they
  <2>2. /\ me \in ThreadState /\ me.again = "idle" /\ me.used = {}
        /\ me.tries = th[t].tries
    BY <1>4, <1>5 DEF ThreadState
  <2> HIDE DEF me
  <2> QED
    BY <1>2, <1>7, <2>1, <2>2, MigrateStep DEF remigrate, At
<1> QED
  BY <1>3, <1>6, <1>7

-----------------------------------------------------------------------------
LEMMA CpuInitial == CpuInit => IInv
<1> SUFFICES ASSUME CpuInit PROVE IInv
  OBVIOUS
<1>1. PICK c \in Allowed : th = [t \in Thread |-> Outside(c)]
  BY DEF CpuInit
<1>2. c \in Cores /\ Allowed \in SUBSET Cores /\ {} \in SUBSET Cores /\ -1 \in Int
  BY CpuConstants
<1>3. Outside(c) \in ThreadState
  BY <1>2 DEF Outside, ThreadState, Pc
<1>4. Cardinality({}) = 0
  BY FS_EmptySet
<1>5. Types
  BY <1>1, <1>3, <1>4, CpuConstants, SMTT(60) DEF CpuInit, Types, Cores
<1>6. Involved(Outside(c), {})
  BY DEF Involved, Outside
<1>7. Paid(Outside(c), {})
  BY <1>4 DEF Paid, Outside
<1>8. ExitOnlyWhenSpent
  BY DEF CpuInit, ExitOnlyWhenSpent
<1> QED
  BY <1>1, <1>5, <1>6, <1>7, <1>8 DEF CpuInit, IInv

LEMMA CpuInductive == IInv /\ [CpuNext]_cvars => IInv'
<1> SUFFICES ASSUME IInv, [CpuNext]_cvars PROVE IInv'
  OBVIOUS
<1>1. CASE UNCHANGED cvars
  <2>1. UNCHANGED <<cross, bad, blacklist, num_blacklisted, rr_cursor, th, status>>
    BY <1>1 DEF cvars, state
  <2>2. Types'
    BY <2>1, SMTT(60) DEF IInv, Types
  <2>3. \A t \in Thread : (Involved(th[t], blacklist) /\ Paid(th[t], blacklist))'
    BY <2>1, ZenonT(60) DEF IInv, Involved, Paid
  <2>4. (Allowed = Cores => ExitOnlyWhenSpent)'
    BY <2>1 DEF IInv, ExitOnlyWhenSpent
  <2> QED
    BY <2>2, <2>3, <2>4 DEF IInv
<1>2. ASSUME NEW t \in Thread, prepare(t) \/ schedule(t) \/ Work(t) PROVE IInv'
  BY <1>2, PrepareStep, ScheduleStep, CrcSteps, PhaseSteps, SdcStep,
     BlacklistPhaseZeroStep, BlacklistCurrentStep, RetryStep, RestoreSteps DEF Work
<1> QED
  BY <1>1, <1>2 DEF CpuNext, CpuDone

LEMMA CpuInvariant == CpuSpec => []IInv
<1> QED
  BY CpuInitial, CpuInductive, PTL DEF CpuSpec

\* "If SDC is detected, all involved cores are blacklisted" (README.rst), for any
\* number of threads that recover at the same time: before the next attempt of
\* __sei_commit or ibuf_prepare, the cores that computed wrongly are
\* blacklisted, unless the scheduler had moved the thread.
THEOREM InvolvedCoresHolds == CpuSpec => []InvolvedCores
<1>1. IInv => InvolvedCores
  BY DEF IInv, Involved, InvolvedCores
<1> QED
  BY <1>1, CpuInvariant, PTL

\* The retry loops of __sei_commit and ibuf_prepare: every retry of a handler
\* has cost a core, also when several threads blacklist the same cores.
THEOREM RetriesBoundedHolds == CpuSpec => []RetriesBounded
<1>1. IInv => RetriesBounded
  BY Zenon DEF IInv, Paid, RetriesBounded
<1> QED
  BY <1>1, CpuInvariant, PTL

\* If the process may use every core that cpu_isolation_init has counted, it
\* exits only when they are blacklisted, up to the one that core migration has
\* to exclude.
THEOREM ExitOnlyWhenSpentHolds ==
  ASSUME Allowed = Cores
  PROVE  CpuSpec => []ExitOnlyWhenSpent
<1>1. IInv => ExitOnlyWhenSpent
  BY DEF IInv
<1> QED
  BY <1>1, CpuInvariant, PTL
=============================================================================
