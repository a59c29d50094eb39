--------------------------------- MODULE Ukv ---------------------------------
(***************************************************************************)
(* The key-value store of src/examples/ukv: ukv.c over the hash table of   *)
(* hashtable/hashtable.c and its iterators (hashtable_itr.c).  A chain of  *)
(* the table is the sequence of the keys of its entries; ukv_set inserts a *)
(* key only when it is absent, so that a key names its entry.  The mixing  *)
(* in hash() and the string hash are an arbitrary function of the key;     *)
(* memory does not run out.                                                *)
(***************************************************************************)
EXTENDS Integers, Sequences, SequencesExt, FiniteSets

CONSTANTS
  Key,
  Value,
  HashOf,   \* hash(h, k), a function of the key
  primes,   \* the sizes of the table, a sequence
  NULL

VARIABLES
  table,       \* h->table, with h->tablelength its number of chains
  entrycount,
  primeindex,  \* counts from 1 here
  v,           \* the value of every entry
  itr,         \* the iterator in use, if any
  visited,     \* the keys it has pointed to, in order
  start,       \* the keys in the table when it was made, NULL after a search
  map          \* what has been stored, a function

ukvvars == <<table, entrycount, primeindex, v, itr, visited, start, map>>

tablelength == Cardinality(DOMAIN table)
indexFor(length, k) == HashOf[k] % length
Indexes(length) == 0 .. length - 1

\* size * max_load_factor, rounded up
loadlimit == (65 * tablelength + 99) \div 100

create_hashtable ==
  /\ table = [j \in Indexes(primes[1]) |-> <<>>]
  /\ entrycount = 0
  /\ primeindex = 1
  /\ v = <<>>
  /\ itr = NULL
  /\ visited = <<>>
  /\ start = NULL
  /\ map = <<>>

\* All entries in the order in which expand moves them.
Entries == FlattenSeq([j \in 1 .. tablelength |-> table[j - 1]])

\* Every entry is put in front of the chain it moves to.
hashtable_expand ==
  [j \in Indexes(primes[primeindex + 1]) |->
    Reverse(SelectSeq(Entries,
                      LAMBDA k : indexFor(primes[primeindex + 1], k) = j))]

Chain(k) == table[indexFor(tablelength, k)]
In(k, chain) == \E j \in 1 .. Len(chain) : chain[j] = k

hashtable_search(k) == IF In(k, Chain(k)) THEN v[k] ELSE NULL

Put(f, x, y) == [z \in DOMAIN f \cup {x} |-> IF z = x THEN y ELSE f[z]]
Drop(f, x) == [z \in DOMAIN f \ {x} |-> f[z]]

hashtable_insert(k, value) ==
  LET grown == entrycount + 1 > loadlimit /\ primeindex < Len(primes)
      t == IF grown THEN hashtable_expand ELSE table
      index == indexFor(Cardinality(DOMAIN t), k)
  IN  /\ entrycount' = entrycount + 1
      /\ primeindex' = IF grown THEN primeindex + 1 ELSE primeindex
      /\ table' = [t EXCEPT ![index] = <<k>> \o @]
      /\ v' = Put(v, k, value)

NoIterator == UNCHANGED <<itr, visited, start>>

ukv_set(k, value) ==
  /\ itr = NULL
  /\ hashtable_search(k) = NULL
  /\ hashtable_insert(k, value)
  /\ map' = Put(map, k, value)
  /\ NoIterator

\* hashtable_remove
ukv_del(k) ==
  /\ itr = NULL
  /\ In(k, Chain(k))
  /\ table' = [table EXCEPT ![indexFor(tablelength, k)] =
                 SelectSeq(@, LAMBDA x : x # k)]
  /\ entrycount' = entrycount - 1
  /\ v' = Drop(v, k)
  /\ map' = Drop(map, k)
  /\ UNCHANGED primeindex
  /\ NoIterator

hashtable_change(k, value) ==
  /\ itr = NULL
  /\ In(k, Chain(k))
  /\ v' = [v EXCEPT ![k] = value]
  /\ map' = [map EXCEPT ![k] = value]
  /\ UNCHANGED <<table, entrycount, primeindex>>
  /\ NoIterator

\* The head of the first chain from j on that is not empty.
FromChain(t, j) ==
  LET full == {i \in j .. tablelength - 1 : t[i] # <<>>}
      i == CHOOSE x \in full : \A y \in full : x <= y
  IN  IF full = {} THEN [e |-> NULL, parent |-> NULL, index |-> tablelength]
                   ELSE [e |-> Head(t[i]), parent |-> NULL, index |-> i]

hashtable_iterator ==
  /\ itr = NULL
  /\ itr' = FromChain(table, 0)
  /\ visited' = IF itr'.e = NULL THEN <<>> ELSE <<itr'.e>>
  /\ start' = DOMAIN map
  /\ UNCHANGED <<table, entrycount, primeindex, v, map>>

At(chain, k) == CHOOSE j \in 1 .. Len(chain) : chain[j] = k

\* itr->e->next, and the chain from there on, while itr->e was in t.
After(chain, k) == SubSeq(chain, At(chain, k) + 1, Len(chain))

\* An iterator that looks for the next chain at its own index.
Advanced_stay(t, rest) ==
  IF rest # <<>> THEN [e |-> Head(rest), parent |-> itr.e, index |-> itr.index]
                 ELSE FromChain(t, itr.index)

\* The iterator behind its entry in the chain "rest" that follows it.
Advanced(t, rest) ==
  IF rest # <<>> THEN [e |-> Head(rest), parent |-> itr.e, index |-> itr.index]
                 ELSE FromChain(t, itr.index + 1)

Visit(i) == visited' = IF i.e = NULL THEN visited ELSE Append(visited, i.e)

hashtable_iterator_advance ==
  /\ itr # NULL /\ itr.e # NULL
  /\ itr' = Advanced(table, After(table[itr.index], itr.e))
  /\ Visit(itr')
  /\ UNCHANGED <<table, entrycount, primeindex, v, start, map>>

\* if (itr->parent == remember_e) itr->parent = remember_parent;
Corrected(i) == IF i.parent = itr.e THEN [i EXCEPT !.parent = itr.parent] ELSE i

\* The chain after itr->parent->next (or the head) was set to itr->e->next; a
\* parent that is no longer in the chain does not change it.
Unlinked(chain) ==
  IF itr.parent = NULL THEN After(chain, itr.e)
  ELSE IF In(itr.parent, chain)
    THEN SubSeq(chain, 1, At(chain, itr.parent)) \o After(chain, itr.e)
    ELSE chain

hashtable_iterator_remove ==
  /\ itr # NULL /\ itr.e # NULL
  /\ LET chain == table[itr.index]
     IN  /\ table' = [table EXCEPT ![itr.index] = Unlinked(chain)]
         /\ itr' = Corrected(Advanced(table', After(chain, itr.e)))
  /\ entrycount' = entrycount - 1
  /\ v' = Drop(v, itr.e)
  /\ map' = Drop(map, itr.e)
  /\ Visit(itr')
  /\ UNCHANGED <<primeindex, start>>

\* hashtable_iterator_search finds an entry and forgets what was visited.
hashtable_iterator_search(k) ==
  /\ itr # NULL
  /\ In(k, Chain(k))
  /\ LET at == At(Chain(k), k)
     IN  itr' = [e |-> k, parent |-> IF at = 1 THEN NULL ELSE Chain(k)[at - 1],
                 index |-> indexFor(tablelength, k)]
  /\ start' = NULL
  /\ visited' = <<>>
  /\ UNCHANGED <<table, entrycount, primeindex, v, map>>

\* The caller frees the iterator.
free_iterator ==
  /\ itr # NULL
  /\ itr' = NULL
  /\ visited' = <<>>
  /\ start' = NULL
  /\ UNCHANGED <<table, entrycount, primeindex, v, map>>

UkvNext ==
  \/ \E k \in Key, value \in Value : ukv_set(k, value) \/ hashtable_change(k, value)
  \/ \E k \in Key : ukv_del(k) \/ hashtable_iterator_search(k)
  \/ hashtable_iterator
  \/ hashtable_iterator_advance
  \/ hashtable_iterator_remove
  \/ free_iterator

UkvSpec == create_hashtable /\ [][UkvNext]_ukvvars

\* ukv_get returns what was last stored under a key and not deleted, through
\* every growth of the table and every removal by an iterator, and
\* hashtable_count the number of keys.
GetIsMap ==
  /\ \A k \in Key :
       hashtable_search(k) = IF k \in DOMAIN map THEN map[k] ELSE NULL
  /\ entrycount = Cardinality(DOMAIN map)

\* An iterator that has come to its end has visited every key that was in the
\* table when it was made exactly once, whatever it has removed on its way
\* (hashtable_iterator_advance, hashtable_iterator_remove).
VisitsAllOnce ==
  itr # NULL /\ start # NULL =>
    /\ \A j, l \in 1 .. Len(visited) : visited[j] = visited[l] => j = l
    /\ itr.e = NULL => {visited[j] : j \in 1 .. Len(visited)} = start
==============================================================================
