-------------------------------- MODULE Cow ---------------------------------
(***************************************************************************)
(* The builds without COW_APPEND_ONLY (USE_ABUF=no or ALGO=clog): a phase  *)
(* keeps the words it writes in a hash table, src/src/cow.c, instead of    *)
(* the log of Abuf.  With COW_WT it writes memory in place and the table   *)
(* holds the old words; without, memory stays as it is, the table holds    *)
(* the new words and loads look there first.                               *)
(*                                                                         *)
(* Handlers store bytes, half words and words, and call memcpy and memset, *)
(* which src/src/tmi.c turns into such stores.  As in Sei, phase 0 does    *)
(* anything, later phases repeat it and faults skip or change operations.  *)
(***************************************************************************)
EXTENDS Integers, SequencesExt

CONSTANTS
  Words,     \* memory is the words 0 .. Words - 1 of 8 bytes
  COW_MAX,   \* the number of buckets
  COW_SIZE,  \* the entries a bucket has room for at first
  Builds,    \* the values of COW_WT
  Levels,    \* the redundancy levels that handlers ask for
  Byte,      \* the bytes that handlers store
  Accesses,  \* the pairs <<address, size>> that handlers store to
  Sets,      \* the triples <<address, byte, number>> of calls to memset
  Copies,    \* the triples <<destination, source, number>> of calls to memcpy
  MaxOps,    \* bound: operations of a handler
  Faults,    \* bound: faults in a behaviour
  MaxTx      \* bound: transactions of a behaviour

\* Compilers align accesses.
ASSUME Aligned == \A a \in Accesses : a[2] \in {1, 2, 4, 8} /\ a[1] % a[2] = 0

VARIABLES
  wt,      \* COW_WT is defined
  mem,     \* the memory, a function of the addresses
  cow,     \* sei->cow
  p,       \* sei->p
  level,   \* sei->redundancy_level
  status,  \* "run", or "exit" after fail_ifn
  script, k, faults, ntx,  \* as in Sei
  old,     \* history: the memory at sei_begin
  view,    \* history: what the phase would have made of old in place
  res      \* history: view at the end of every phase

vars == <<wt, mem, cow, p, level, status, script, k, faults, ntx, old, view, res>>

Addr == 0 .. 8 * Words - 1
Bucket == 0 .. COW_MAX - 1
Phase == 0 .. Max(Levels) - 1

Op ==
  [op : {"store"}, at : Accesses, byte : Byte]
    \cup [op : {"memset"}, arg : Sets] \cup [op : {"memcpy"}, arg : Copies]

-----------------------------------------------------------------------------
HASH(key) == key % COW_MAX
ADDR2KEY(a) == a \div 8
PICKMASK(a, s) == (a % 8) \div 2^(s \div 2)

Word(m, key) == [j \in 0 .. 7 |-> m[8 * key + j]]

\* m with the bytes v at a and after.
Stored(m, a, v) ==
  [x \in DOMAIN m |-> IF x - a \in DOMAIN v THEN v[x - a] ELSE m[x]]

Empty == [table |-> [h \in Bucket |-> <<>>], max_size |-> [h \in Bucket |-> COW_SIZE]]

cow_find(c, key) == SelectInSeq(c.table[HASH(key)], LAMBDA e : e.wkey = key)

\* cow_read of one byte.
cow_read(c, m, a) ==
  LET i == cow_find(c, ADDR2KEY(a))
  IN  IF wt \/ i = 0 THEN m[a]
      ELSE c.table[HASH(ADDR2KEY(a))][i].wvalue[PICKMASK(a, 1)]

\* COW_CHECK_SIZE that never extends the bucket.
COW_CHECK_SIZE_never(c, h) == c.max_size

\* COW_CHECK_SIZE: a bucket doubles when its last slot is about to be used.
COW_CHECK_SIZE(c, h) ==
  IF Len(c.table[h]) + 1 = c.max_size[h]
    THEN [c.max_size EXCEPT ![h] = 2 * @] ELSE c.max_size

\* cow_write that takes a new entry for every store.
cow_write_append(c, m, a, v) ==
  LET h == HASH(ADDR2KEY(a))
      new == [wkey |-> ADDR2KEY(a), wvalue |-> Word(m, ADDR2KEY(a))]
      slot == PICKMASK(a, Cardinality(DOMAIN v)) * Cardinality(DOMAIN v)
      e == IF wt THEN new ELSE [new EXCEPT !.wvalue = Stored(@, slot, v)]
  IN  [table |-> [c.table EXCEPT ![h] = Append(@, e)],
       max_size |-> COW_CHECK_SIZE(c, h)]

\* cow_write: the entry of the word, made from memory if there is none, takes
\* the value, unless COW_WT stores it in memory.
cow_write(c, m, a, v) ==
  LET h == HASH(ADDR2KEY(a))
      i == cow_find(c, ADDR2KEY(a))
      s == Cardinality(DOMAIN v)
      t == IF i # 0 THEN c.table[h]
           ELSE Append(c.table[h],
                       [wkey |-> ADDR2KEY(a), wvalue |-> Word(m, ADDR2KEY(a))])
      e == IF i # 0 THEN i ELSE Len(t)
  IN  [table |-> [c.table EXCEPT ![h] =
                    IF wt THEN t
                    ELSE [t EXCEPT ![e].wvalue = Stored(@, PICKMASK(a, s) * s, v)]],
       max_size |-> IF i # 0 THEN c.max_size ELSE COW_CHECK_SIZE(c, h)]

\* What a store makes of the table and the memory st.
Write(st, a, v) ==
  [c |-> cow_write(st.c, st.m, a, v), m |-> IF wt THEN Stored(st.m, a, v) ELSE st.m]

-----------------------------------------------------------------------------
\* The stores <<address, size>> of a run of bytes from a up to e.
ByteStores(a, e) == [i \in 1 .. e - a |-> <<a + i - 1, 1>>]
WordStores(a, e) == [i \in 1 .. (e - a) \div 8 |-> <<a + 8 * (i - 1), 8>>]

Up(a, n) == n * ((a + n - 1) \div n)

\* _ITM_memsetW: bytes up to a word, words, and the bytes left.
memset_stores(a, n) ==
  LET p64 == Min({Up(a, 8), a + n})
      e64 == Max({p64, 8 * ((a + n) \div 8)})
  IN  ByteStores(a, p64) \o WordStores(p64, e64)
        \o ByteStores(e64, a + n)

\* The value v of memset's words: c is sign-extended before it is shifted.
memset_word(c) == [j \in 0 .. 7 |-> IF c > 127 /\ j > 0 THEN 255 ELSE c]

\* _ITM_memcpyRtWt: with COW_WT and four bytes or more, bytes up to a half word,
\* a half word up to a word, words, a half word and bytes; otherwise bytes, at
\* least one.
memcpy_stores(d, n) ==
  LET b == Up(d, 4)
      h == IF b % 8 # 0 /\ d + n - b >= 4 THEN b + 4 ELSE b
      w == h + 8 * ((d + n - h) \div 8)
      t == IF d + n - w >= 4 THEN w + 4 ELSE w
  IN  IF wt /\ n >= 4
        THEN ByteStores(d, b) \o (IF h > b THEN << <<b, 4>> >> ELSE <<>>)
               \o WordStores(h, d + n) \o (IF t > w THEN << <<w, 4>> >> ELSE <<>>)
               \o ByteStores(t, d + n)
        ELSE ByteStores(d, d + (IF n = 0 THEN 1 ELSE n))

memcpy(st, d, s, n) ==
  FoldLeft(LAMBDA r, w :
             Write(r, w[1], [j \in 0 .. w[2] - 1 |->
                               cow_read(r.c, r.m, w[1] - d + s + j)]),
           st, memcpy_stores(d, n))

memset(st, a, c, n) ==
  FoldLeft(LAMBDA r, w :
             Write(r, w[1], IF w[2] = 8 THEN memset_word(c) ELSE [j \in {0} |-> c]),
           st, memset_stores(a, n))

\* The table and memory after operation o, and what C says memory should be.
Exec(st, o) ==
  CASE o.op = "store"  -> Write(st, o.at[1], [j \in 0 .. o.at[2] - 1 |-> o.byte])
    [] o.op = "memset" -> memset(st, o.arg[1], o.arg[2], o.arg[3])
    [] o.op = "memcpy" -> memcpy(st, o.arg[1], o.arg[2], o.arg[3])

InPlace(m, o) ==
  CASE o.op = "store"  -> Stored(m, o.at[1], [j \in 0 .. o.at[2] - 1 |-> o.byte])
    [] o.op = "memset" -> Stored(m, o.arg[1], [j \in 0 .. o.arg[3] - 1 |-> o.arg[2]])
    [] o.op = "memcpy" ->
         Stored(m, o.arg[1], [j \in 0 .. o.arg[3] - 1 |-> m[o.arg[2] + j]])

-----------------------------------------------------------------------------
Entries(c) == FlattenSeq([h \in 1 .. COW_MAX |-> c.table[h - 1]])

\* The memory after every entry is stored.
cow_apply(c, m) == FoldLeft(LAMBDA r, e : Stored(r, 8 * e.wkey, e.wvalue), m, Entries(c))

\* A swap that only changes memory.
cow_swap_memory(c, m) == c

\* The table after cow_swap; a word has one entry.
cow_swap(c, m) ==
  LET Swapped(e) == [e EXCEPT !.wvalue = Word(m, e.wkey)]
  IN  [c EXCEPT !.table = [h \in Bucket |->
         [i \in DOMAIN c.table[h] |-> Swapped(c.table[h][i])]]]

\* The table whose sizes are reset; buckets keep their room.
Cleared(c) == [c EXCEPT !.table = [h \in Bucket |-> <<>>]]

\* cow_apply_cmp that forgets the values.
cow_cmp_keys(c1, c2, m) ==
  \A h \in Bucket :
    /\ Len(c1.table[h]) = Len(c2.table[h])
    /\ \A j \in DOMAIN c1.table[h] : c1.table[h][j].wkey = c2.table[h][j].wkey

\* The checks of cow_apply_cmp.
cow_cmp(c1, c2, m) ==
  \A h \in Bucket :
    /\ Len(c1.table[h]) = Len(c2.table[h])
    /\ \A j \in DOMAIN c1.table[h] :
         LET e1 == c1.table[h][j]
             e2 == c2.table[h][j]
         IN  /\ e1.wkey = e2.wkey
             /\ e1.wvalue = IF wt THEN Word(m, e1.wkey) ELSE e2.wvalue

-----------------------------------------------------------------------------
Init ==
  /\ wt \in Builds
  /\ mem = [x \in Addr |-> x % 3]
  /\ cow = [q \in Phase |-> Empty]
  /\ p = -1 /\ level = Max(Levels)
  /\ status = "run"
  /\ script = <<>> /\ k = 0 /\ faults = Faults /\ ntx = 0
  /\ old = mem /\ view = mem /\ res = [q \in Phase |-> mem]

Running == status = "run" /\ p >= 0

\* The handler's redundancy level; __sei_prepare_n sets it before sei_begin.
sei_set_redundancy == level' \in Levels

sei_begin ==
  /\ status = "run" /\ p = -1 /\ ntx < MaxTx
  /\ sei_set_redundancy
  /\ p' = 0 /\ k' = 0 /\ script' = <<>>
  /\ ntx' = ntx + 1
  /\ old' = mem /\ view' = mem
  /\ UNCHANGED <<wt, mem, cow, status, faults, res>>

Do(o) ==
  LET st == Exec([c |-> cow[p], m |-> mem], o)
  IN  /\ cow' = [cow EXCEPT ![p] = st.c]
      /\ mem' = st.m
      /\ view' = InPlace(view, o)
      /\ UNCHANGED <<wt, p, level, status, ntx, old, res>>

handler_step ==
  /\ Running /\ p = 0 /\ k < MaxOps
  /\ \E o \in Op : Do(o) /\ script' = Append(script, o)
  /\ k' = k + 1
  /\ UNCHANGED faults

replay_step ==
  /\ Running /\ p > 0 /\ k < Len(script)
  /\ Do(script[k + 1])
  /\ k' = k + 1
  /\ UNCHANGED <<script, faults>>

\* A later phase skips an operation, or performs another one.
skip_fault ==
  /\ Running /\ p > 0 /\ k < Len(script) /\ faults > 0
  /\ k' = k + 1
  /\ faults' = faults - 1
  /\ UNCHANGED <<wt, mem, cow, p, level, status, script, ntx, old, view, res>>

op_fault ==
  /\ Running /\ p > 0 /\ faults > 0
  /\ \E o \in Op : Do(o)
  /\ k' \in {k, k + 1} /\ k' <= Len(script)
  /\ faults' = faults - 1
  /\ UNCHANGED script

PhaseDone == Running /\ (p = 0 \/ k = Len(script))

sei_switch ==
  /\ PhaseDone /\ p < level - 1
  /\ p' = p + 1 /\ k' = 0
  /\ IF wt THEN /\ mem' = cow_apply(cow[p], mem)
                /\ cow' = [cow EXCEPT ![p] = cow_swap(@, mem)]
     ELSE UNCHANGED <<mem, cow>>
  /\ res' = [res EXCEPT ![p] = view]
  /\ view' = old
  /\ UNCHANGED <<wt, level, status, script, faults, ntx, old>>

\* sei_commit compares phase 0 with every other phase; the first comparison
\* empties the tables of both.
Compared ==
  \A q \in 1 .. level - 1 :
    cow_cmp(IF q = 1 THEN cow[0] ELSE Cleared(cow[0]), cow[q], mem)

sei_commit ==
  /\ PhaseDone /\ p = level - 1
  /\ Compared
  /\ p' = -1
  /\ mem' = IF wt THEN mem ELSE cow_apply(cow[0], mem)
  /\ cow' = [q \in Phase |-> IF q < level THEN Cleared(cow[q]) ELSE cow[q]]
  /\ res' = [res EXCEPT ![p] = view]
  /\ UNCHANGED <<wt, level, status, script, k, faults, ntx, old, view>>

commit_refused ==
  /\ PhaseDone /\ p = level - 1
  /\ ~Compared
  /\ status' = "exit"
  /\ UNCHANGED <<wt, mem, cow, p, level, script, k, faults, ntx, old, view, res>>

Next ==
  \/ sei_begin \/ handler_step \/ replay_step \/ skip_fault \/ op_fault
  \/ sei_switch \/ sei_commit \/ commit_refused

Spec == Init /\ [][Next]_vars

-----------------------------------------------------------------------------
\* cow_write and cow_read fit together: a handler that loads a byte gets what
\* it would get if its stores, memset and memcpy had all been done in place,
\* whether the byte is in an entry, beside one in the same word, or in neither.
\* It holds from the start of a phase, so cow_swap undoes all of the phase before.
ReadsOwnWrites == Running => \A a \in Addr : cow_read(cow[p], mem, a) = view[a]

\* The tables never use a slot that COW_CHECK_SIZE has not made room for.
RoomForEntries ==
  \A q \in Phase, h \in Bucket : Len(cow[q].table[h]) <= cow[q].max_size[h]

\* cow_apply_cmp lets a transaction commit only if all phases made the same of
\* every byte of memory, and memory then has it, in every build.
TablesAgree ==
  [][p >= 0 /\ p' = -1 =>
       /\ \A q \in 0 .. level - 2 : res[q] = view
       /\ mem' = view]_vars

\* Without faults sei_commit never refuses a transaction.
NoFalseRefusal == faults = Faults => status = "run"
=============================================================================
