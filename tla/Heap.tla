-------------------------------- MODULE Heap --------------------------------
(***************************************************************************)
(* The private heap of src/src/heap.c (builds with COW_USEHEAP), of which  *)
(* talloc.c and tbin.c take and return blocks.  Blocks are powers of two   *)
(* with a header in front of the data; a freed block is appended to the    *)
(* list of its class, which is linked through the headers.  Offsets from   *)
(* heap->data stand for addresses.                                         *)
(***************************************************************************)
EXTENDS Integers, Sequences, FiniteSets

CONSTANTS
  ALLOC_MAX_SIZE,
  HEAP_SIZE,   \* heap->size
  HEADER,      \* sizeof(allocation_t)
  Sizes        \* the sizes that handlers ask for

Nil == -1

VARIABLES
  free_list,  \* heap->free_list, the first block of every class
  cursor,     \* heap->cursor
  header,     \* the headers in heap->data, by the offset of their block
  live        \* the blocks in use, with the size that was asked for

heapvars == <<free_list, cursor, header, live>>

\* while (x >>= 1) ++r;
int_log2[x \in 0 .. 2 * (HEAP_SIZE + HEADER)] ==
  IF x < 2 THEN 0 ELSE 1 + int_log2[x \div 2]

\* All bits below the highest one of v - 1 are set, and 1 is added.
upper_power_of_two(v) == IF v = 1 THEN 1 ELSE 2^(int_log2[v - 1] + 1)

\* The classes that free_list has an entry for.
Class == 0 .. int_log2[upper_power_of_two(ALLOC_MAX_SIZE)]

heap_init ==
  /\ free_list = [c \in Class |-> Nil]
  /\ cursor = 0
  /\ header = << >>
  /\ live = << >>

\* f with x mapped to y.
With(f, x, y) == [z \in DOMAIN f \cup {x} |-> IF z = x THEN y ELSE f[z]]
Without(f, x) == [z \in DOMAIN f \ {x} |-> f[z]]

block_size(size) == upper_power_of_two(size + HEADER)

\* A block leaves its list and keeps its link.
reuse_linked(size) ==
  LET log2 == int_log2[block_size(size)]
      a == free_list[log2]
  IN  /\ a # Nil
      /\ free_list' = [free_list EXCEPT ![log2] = header[a].next]
      /\ live' = With(live, a, size)
      /\ UNCHANGED <<cursor, header>>

\* heap_malloc: the first block of the free list,
reuse(size) ==
  LET log2 == int_log2[block_size(size)]
      a == free_list[log2]
  IN  /\ a # Nil
      /\ free_list' = [free_list EXCEPT ![log2] = header[a].next]
      /\ header' = [header EXCEPT ![a].next = Nil]
      /\ live' = With(live, a, size)
      /\ UNCHANGED cursor

\* or a new one at the cursor, if there is room.
carve(size) ==
  LET pow_2_size == block_size(size)
  IN  /\ free_list[int_log2[pow_2_size]] = Nil
      /\ cursor + pow_2_size < HEAP_SIZE
      /\ header' = With(header, cursor, [size |-> pow_2_size, next |-> Nil])
      /\ live' = With(live, cursor, size)
      /\ cursor' = cursor + pow_2_size
      /\ UNCHANGED free_list

out_of_memory(size) ==
  LET pow_2_size == block_size(size)
  IN  /\ free_list[int_log2[pow_2_size]] = Nil
      /\ cursor + pow_2_size >= HEAP_SIZE
      /\ UNCHANGED heapvars

heap_malloc(size) == reuse(size) \/ carve(size) \/ out_of_memory(size)

\* The list that starts at block a; one that runs into itself repeats a block.
List(a) ==
  LET n == Cardinality(DOMAIN header)
      walk[i \in 0 .. n] ==
        IF i = 0 THEN <<a>>
        ELSE LET s == walk[i - 1]
                 next == header[s[Len(s)]].next
             IN  IF next = Nil THEN s ELSE Append(s, next)
  IN  walk[n]

FreeBlocks(c) ==
  IF free_list[c] = Nil THEN << >> ELSE List(free_list[c])

\* heap_free: the block becomes the last one of its list.
heap_free(a) ==
  LET log2 == int_log2[header[a].size]
      list == FreeBlocks(log2)
  IN  /\ \/ /\ list = << >>
            /\ free_list' = [free_list EXCEPT ![log2] = a]
            /\ UNCHANGED header
         \/ /\ list # << >>
            /\ header' = [header EXCEPT ![list[Len(list)]].next = a]
            /\ UNCHANGED free_list
      /\ live' = Without(live, a)
      /\ UNCHANGED cursor

HeapNext ==
  \/ \E size \in Sizes : heap_malloc(size)
  \/ \E a \in DOMAIN live : heap_free(a)

HeapSpec == heap_init /\ [][HeapNext]_heapvars

-----------------------------------------------------------------------------
\* The free lists of heap.c are linked through the headers of the blocks: they
\* stay free of cycles and of blocks in use, and every block that is not in use
\* can be reached in the list of its class, so none is lost or handed out twice.
FreeListsSound ==
  \A c \in Class :
    /\ \A i, j \in DOMAIN FreeBlocks(c) : i # j => FreeBlocks(c)[i] # FreeBlocks(c)[j]
    /\ {FreeBlocks(c)[i] : i \in DOMAIN FreeBlocks(c)}
         = {a \in DOMAIN header \ DOMAIN live : header[a].size = 2^c}

\* The data of a block from heap_malloc ends before the header of the next
\* block and inside the heap, also when the block was used before.
DataDisjoint ==
  \A a \in DOMAIN live :
    \A b \in DOMAIN header \cup {HEAP_SIZE} : b > a => a + HEADER + live[a] <= b

\* heap_malloc admits sizes up to ALLOC_MAX_SIZE, and free_list has a class for
\* each of them.  (It does not hold for the largest, see README.md.)
ClassInTable == \A size \in Sizes : int_log2[block_size(size)] \in Class
=============================================================================
