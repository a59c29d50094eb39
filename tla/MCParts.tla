------------------------------- MODULE MCParts -------------------------------
(***************************************************************************)
(* The sequential parts of the library, checked side by side: a behaviour  *)
(* is one of a single part and leaves the variables of the others alone.   *)
(* The bounds of every part are those of its instance below.               *)
(***************************************************************************)
EXTENDS AbufSwap, Sequences

CONSTANT NULL

VARIABLES
  part,
  N, variant, NDEBUG, pc, poped, entry, j,
  free_list, cursor, header, live,
  cp, handler, step, result, sc, sc_poped, deferred, open, held, ran, retries,
  struck,
  obuf, tbar, obufs, tbars, max_obufs, max_tbars, messages, snapshots, handle,
  sent_on,
  call, ret,
  msg, address, impl, end, pos, e_crc, division,
  table, entrycount, primeindex, v, itr, visited, start, map

\* Overlapping accesses of two sizes.
Overlapping == {<<1, 1>>, <<1, 2>>, <<2, 1>>}

Cmp == INSTANCE AbufCmp WITH MaxN <- 3, MaxEntries <- 6

\* Requests that need blocks of 4 and 8 bytes, in a heap of three of the larger.
Heap == INSTANCE Heap WITH
  ALLOC_MAX_SIZE <- 8, HEAP_SIZE <- 24, HEADER <- 2, Sizes <- {1, 3, 6}

Calls == INSTANCE Calls WITH
  Level <- 2, MaxCalls <- 3, MaxFd <- 4, Handlers <- 2, Retries <- 1

\* A stash that is extended twice.
Stash == INSTANCE Stash WITH INITIAL_SIZE <- 1, MaxHandles <- 4, MaxMessages <- 3

\* Space and sign, then up to three digits, 'f' and 'x' among them: 31, 32, 63
\* and 64 can be written in every base.
Numerals ==
  {prefix \o digits : prefix \in {<<>>, <<-1>>, <<-2>>, <<-3>>, <<-1, -2>>},
     digits \in UNION {[1 .. n -> {0, 1, 2, 3, 15, 33}] : n \in 0 .. 3}}

\* Words of 4 bytes; moves of up to two words with every overlap and alignment.
Libc == INSTANCE Libc WITH
  LONG_BITS <- 6, Texts <- Numerals, Bases <- {0, 1, 5, 10, 16}, wsize <- 4,
  Moves <- (8 .. 15) \X (8 .. 15) \X (0 .. 8)

\* A message of two words of 8 bytes and 3 bytes more.
Message ==
  [n \in 1 .. 19 |-> {k \in 0 .. 7 : ((37 * n + 11) \div 2^k) % 2 = 1}]

Crc == INSTANCE Crc WITH Messages <- {Message}, Addresses <- 0 .. 3

\* Chains of several keys before and after the table grows from 2 to 3.
Ukv == INSTANCE Ukv WITH
  Key <- 1 .. 4, Value <- {1, 2}, HashOf <- <<0, 3, 5, 6>>, primes <- <<2, 3>>

-----------------------------------------------------------------------------
swapvars == <<i, b0, mem0>>
logvars == <<b, mem, pushed>>
cmpvars == <<N, variant, NDEBUG, pc, poped, entry, j>>
heapvars == <<free_list, cursor, header, live>>
callvars == <<cp, handler, step, result, sc, sc_poped, deferred, open, held,
              ran, retries, struck>>
stashvars == <<obuf, tbar, obufs, tbars, max_obufs, max_tbars, messages,
               snapshots, handle, sent_on>>
libcvars == <<call, ret>>
crcvars == <<msg, address, impl, end, pos, e_crc, division>>
ukvvars == <<table, entrycount, primeindex, v, itr, visited, start, map>>

allvars == <<part, swapvars, logvars, cmpvars, heapvars, callvars, stashvars,
             libcvars, crcvars, ukvvars>>

\* The variables of the parts that are not checked.
NoLog == b = 0 /\ mem = 0 /\ pushed = 0
NoSwap == i = 0 /\ b0 = 0 /\ mem0 = 0
NoCmp ==
  N = 0 /\ variant = 0 /\ NDEBUG = 0 /\ pc = 0 /\ poped = 0 /\ entry = 0 /\ j = 0
NoHeap == free_list = 0 /\ cursor = 0 /\ header = 0 /\ live = 0
NoCalls ==
  /\ cp = 0 /\ handler = 0 /\ step = 0 /\ result = 0 /\ sc = 0 /\ sc_poped = 0
  /\ deferred = 0 /\ open = 0 /\ held = 0 /\ ran = 0 /\ retries = 0 /\ struck = 0
NoStash ==
  /\ obuf = 0 /\ tbar = 0 /\ obufs = 0 /\ tbars = 0 /\ max_obufs = 0
  /\ max_tbars = 0 /\ messages = 0 /\ snapshots = 0 /\ handle = 0 /\ sent_on = 0
NoLibc == call = 0 /\ ret = 0
NoCrc ==
  /\ msg = 0 /\ address = 0 /\ impl = 0 /\ end = 0 /\ pos = 0 /\ e_crc = 0
  /\ division = 0
NoUkv ==
  /\ table = 0 /\ entrycount = 0 /\ primeindex = 0 /\ v = 0 /\ itr = 0
  /\ visited = 0 /\ start = 0 /\ map = 0

PartsInit ==
  \/ /\ part = "swap"
     /\ NoCmp /\ NoHeap /\ NoCalls /\ NoStash /\ NoLibc /\ NoCrc /\ NoUkv
     /\ Init
  \/ /\ part = "cmp"
     /\ NoSwap /\ NoHeap /\ NoCalls /\ NoStash /\ NoLibc /\ NoCrc /\ NoUkv
     /\ Cmp!Init
  \/ /\ part = "heap"
     /\ NoLog /\ NoSwap /\ NoCmp /\ NoCalls /\ NoStash /\ NoLibc /\
        NoCrc /\ NoUkv
     /\ Heap!heap_init
  \/ /\ part = "calls"
     /\ NoLog /\ NoSwap /\ NoCmp /\ NoHeap /\ NoStash /\ NoLibc /\ NoCrc /\
        NoUkv
     /\ Calls!CallsInit
  \/ /\ part = "stash"
     /\ NoLog /\ NoSwap /\ NoCmp /\ NoHeap /\ NoCalls /\ NoLibc /\ NoCrc /\
        NoUkv
     /\ Stash!StashInit
  \/ /\ part = "libc"
     /\ NoLog /\ NoSwap /\ NoCmp /\ NoHeap /\ NoCalls /\ NoStash /\
        NoCrc /\ NoUkv
     /\ Libc!LibcInit
  \/ /\ part = "crc"
     /\ NoLog /\ NoSwap /\ NoCmp /\ NoHeap /\ NoCalls /\ NoStash /\
        NoLibc /\ NoUkv
     /\ Crc!CrcInit
  \/ /\ part = "ukv"
     /\ NoLog /\ NoSwap /\ NoCmp /\ NoHeap /\ NoCalls /\ NoStash /\
        NoLibc /\ NoCrc
     /\ Ukv!create_hashtable

PartsNext ==
  \/ /\ part = "swap"
     /\ UNCHANGED <<part, cmpvars, heapvars, callvars, stashvars, libcvars,
                    crcvars, ukvvars>>
     /\ Next
  \/ /\ part = "cmp"
     /\ UNCHANGED <<part, swapvars, heapvars, callvars, stashvars,
                    libcvars, crcvars, ukvvars>>
     /\ Cmp!Next
  \/ /\ part = "heap"
     /\ UNCHANGED <<part, logvars, swapvars, cmpvars, callvars, stashvars,
                    libcvars, crcvars, ukvvars>>
     /\ Heap!HeapNext
  \/ /\ part = "calls"
     /\ UNCHANGED <<part, logvars, swapvars, cmpvars, heapvars, stashvars,
                    libcvars, crcvars, ukvvars>>
     /\ Calls!CallsNext
  \/ /\ part = "stash"
     /\ UNCHANGED <<part, logvars, swapvars, cmpvars, heapvars, callvars,
                    libcvars, crcvars, ukvvars>>
     /\ Stash!StashNext
  \/ /\ part = "libc"
     /\ UNCHANGED <<part, logvars, swapvars, cmpvars, heapvars, callvars,
                    stashvars, crcvars, ukvvars>>
     /\ Libc!LibcNext
  \/ /\ part = "crc"
     /\ UNCHANGED <<part, logvars, swapvars, cmpvars, heapvars, callvars,
                    stashvars, libcvars, ukvvars>>
     /\ Crc!CrcNext
  \/ /\ part = "ukv"
     /\ UNCHANGED <<part, logvars, swapvars, cmpvars, heapvars, callvars,
                    stashvars, libcvars, crcvars>>
     /\ Ukv!UkvNext
  \* The callers of the library may stop; the loops may not.
  \/ part \notin {"swap", "cmp"} /\ UNCHANGED allvars

PartsSpec == PartsInit /\ [][PartsNext]_allvars

-----------------------------------------------------------------------------
\* The properties of the modules, each of its part.

\* The comparison loops of abuf.c decide as the closed forms.
CmpResult == part = "cmp" => Cmp!CmpResult

\* The free lists of heap.c hold the freed blocks and no other, and no two
\* blocks that heap_malloc gave out overlap.
HeapSound == part = "heap" => Heap!FreeListsSound /\ Heap!DataDisjoint

\* Phase 1 sees the results of the calls of phase 0 (abuf_sc of tmi.c).
ReplayedResults == part = "calls" => Calls!ReplayedResults

\* No deferred close (tmi.c, wts.c) hits a descriptor that is held.
HeldOpen == part = "calls" => Calls!HeldOpen

\* The stashes of __sei_shift and sei_shift stay in step, and sei_fini frees
\* every output buffer once.
StashesSound == part = "stash" => Stash!InStep /\ Stash!FreedOnce

\* strtol and strtoul return the number or the limit, and memmove_bsd leaves in
\* the destination what was in the source.
LibcResults ==
  part = "libc" => Libc!StrtolValue /\ Libc!StrtoulValue /\ Libc!DestinationCopied

\* All implementations of CRC-32C agree on a message and on its pieces.
PiecesAgree == part = "crc" => Crc!PiecesAgree

\* ukv_get returns what ukv_set stored, and an iterator of the hash table
\* visits every key once, also while it removes entries.
UkvSound == part = "ukv" => Ukv!GetIsMap /\ Ukv!VisitsAllOnce
=============================================================================
