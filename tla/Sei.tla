-------------------------------- MODULE Sei ---------------------------------
(***************************************************************************)
(* A thread that runs hardened event handlers: src/src/mode_cow.c driven   *)
(* by __sei_prepare*, __sei_begin and __sei_commit of src/src/tmi.c, in    *)
(* the default build (MODE=cow, COW_WT, COW_APPEND_ONLY) without ROLLBACK. *)
(*                                                                         *)
(* A transaction runs its handler level times.  Every phase p writes       *)
(* memory in place and logs the old values in cow[p]; between two phases   *)
(* sei_switch exchanges the log with memory, which undoes the phase and    *)
(* leaves its results in the log.  After the last phase sei_commit         *)
(* compares the logs with memory and performs the delayed effects.         *)
(*                                                                         *)
(* The handler is any deterministic program: in phase 0 it performs        *)
(* arbitrary operations, which are remembered in script, and the later     *)
(* phases perform the same ones unless a fault hits them.  A fault makes a *)
(* phase skip an operation or perform an arbitrary one.                    *)
(***************************************************************************)
EXTENDS Abuf, Tbin, Obuf, Ibuf

CONSTANTS
  Global,    \* the cells of global variables, Msg among them
  Heap,      \* the cells malloc hands out, one per object
  Msg,       \* the cells of the input message
  Byte,      \* what a cell can hold, besides the address of an object
  Accesses,  \* the pairs <<address, size>> that handlers write
  Levels,    \* the redundancy levels that handlers ask for
  Calls,     \* the system calls that handlers make
  Pieces,    \* the pieces of output that handlers append
  Kinds,     \* the kinds of operations that handlers use
  NDEBUG,    \* TRUE in the release build: assertions are compiled out
  MaxOps,    \* bound: operations of a handler
  Faults,    \* bound: faults in a behaviour
  MaxTx      \* bound: transactions of a behaviour

ASSUME SeiConstants ==
  /\ Global \subseteq Nat \ {0} /\ Heap \subseteq Nat \ {0}
  /\ Global \cap Heap = {}
  /\ Msg \subseteq Global
  /\ Byte \subseteq Nat
  /\ Accesses \subseteq Nat \X Nat
  /\ SEI_DMR_REDUNDANCY \in Nat /\ SEI_DMR_REDUNDANCY >= 2
  /\ Levels \subseteq 2 .. SEI_DMR_REDUNDANCY
  /\ NDEBUG \in BOOLEAN
  /\ MaxOps \in Nat /\ Faults \in Nat /\ MaxTx \in Nat

VARIABLES
  mem,      \* the memory, a function of the cells
  heap,     \* the objects that are allocated
  p,        \* sei->p
  level,    \* sei->redundancy_level
  buf,      \* buf[q] and pushed[q] are the abuf sei->cow[q]
  pushed,
  talloc, tbin, wts, obuf, ibuf,
  sent,     \* the system calls performed so far
  status,   \* "run", or "exit" after fail_ifn or an assertion
  ready,    \* __sei_prepare has succeeded, __sei_begin not been called
  script,   \* the operations of phase 0
  k,        \* how many of them the current phase has got through
  faults,   \* how many faults may still happen
  ntx,      \* the number of transactions begun
  old,      \* history: the memory at __sei_begin
  res       \* history: the memory at the end of every phase

handlervars == <<script, k, faults>>
txvars == <<p, level, ready, ntx, old, res>>
cowvars == <<mem, buf, pushed>>
effectvars == <<heap, talloc, tbin, wts, obuf, ibuf, sent>>
vars == <<handlervars, txvars, cowvars, effectvars, status>>

Cell == Global \cup Heap
MaxLog == MaxOps + Faults
EmptyLog == [i \in 0 .. MaxLog - 1 |-> Entry(0, 0, <<>>)]
Memory == [Cell -> Byte \cup Heap \cup {0}]
Zero == [x \in Cell |-> 0]
Message == [x \in Msg |-> mem[x]]

Op ==
  UNION {
    IF "write" \in Kinds
      THEN [op : {"write"}, at : Accesses, byte : Byte \cup Heap] ELSE {},
    IF "malloc" \in Kinds THEN [op : {"malloc"}] ELSE {},
    IF "free" \in Kinds THEN [op : {"free"}, ptr : Heap] ELSE {},
    IF "free_null" \in Kinds THEN [op : {"free"}, ptr : {NULL}] ELSE {},
    IF "send" \in Kinds THEN [op : {"send"}, call : Calls] ELSE {},
    IF "output" \in Kinds
      THEN [op : {"append"}, piece : Pieces] \cup [op : {"done"}] ELSE {}}

-----------------------------------------------------------------------------
\* sei_init.
Init ==
  /\ mem = Zero
  /\ heap = {}
  /\ p = -1
  /\ level = SEI_DMR_REDUNDANCY
  /\ buf = [q \in Phase |-> EmptyLog]
  /\ pushed = [q \in Phase |-> 0]
  /\ talloc = talloc_init(MaxLog, SEI_DMR_REDUNDANCY)
  /\ tbin = tbin_init
  /\ wts = wts_init
  /\ obuf = obuf_init(SEI_DMR_REDUNDANCY)
  /\ ibuf = ibuf_init
  /\ sent = <<>>
  /\ status = "run"
  /\ ready = FALSE
  /\ script = <<>> /\ k = 0 /\ faults = Faults /\ ntx = 0
  /\ old = Zero /\ res = [q \in Phase |-> Zero]

Idle == status = "run" /\ p = -1
Running == status = "run" /\ p >= 0

(***************************************************************************)
(* A message arrives in the cells Msg (or none does), and __sei_prepare or *)
(* one of its variants checks it and sets the redundancy level.  If the    *)
(* checksum does not match, the application drops the message.             *)
(***************************************************************************)
sei_prepare ==
  /\ Idle /\ ~ready /\ ntx < MaxTx
  /\ level' \in Levels
  /\ \/ /\ ibuf' = ibuf_prepare(ibuf, "none", <<>>)
        /\ ready' = TRUE
        /\ UNCHANGED mem
     \/ /\ Msg # {}
        /\ \E v \in [Msg -> Byte], crc \in [Msg -> Byte],
              mode \in {"READ_ONLY", "READ_WRITE"} :
             /\ mem' = Store(mem, v)
             /\ ibuf' = ibuf_prepare(ibuf, mode, crc)
             /\ ready' = (v = crc)
  /\ UNCHANGED <<handlervars, p, ntx, old, res, buf, pushed, heap, talloc,
                 tbin, wts, obuf, sent, status>>

sei_begin ==
  /\ Idle /\ ready
  /\ p' = 0
  /\ ready' = FALSE
  /\ ntx' = ntx + 1
  /\ old' = mem
  /\ UNCHANGED <<handlervars, level, res, cowvars, effectvars, status>>

\* fail_ifn, or an assertion of the debug build, ends the process.
Exit ==
  /\ status' = "exit"
  /\ UNCHANGED <<handlervars, txvars, cowvars, heap, talloc, tbin, wts, obuf,
                 ibuf>>

-----------------------------------------------------------------------------
\* SEI_WRITE that logs the value after it has written.
sei_write_then_log(o) ==
  /\ o.op = "write"
  /\ LET a == o.at[1]
         s == o.at[2]
     IN  /\ mem' = Store(mem, [x \in Cells(a, s) |-> o.byte])
         /\ buf' = [buf EXCEPT ![p] =
                      abuf_push(@, pushed[p], a, s, Load(mem', a, s))]
  /\ pushed' = [pushed EXCEPT ![p] = @ + 1]
  /\ UNCHANGED effectvars

\* SEI_WRITE: log the old value, then write in place.
sei_write(o) ==
  /\ o.op = "write"
  /\ LET a == o.at[1]
         s == o.at[2]
     IN  /\ buf' = [buf EXCEPT ![p] =
                      abuf_push(@, pushed[p], a, s, Load(mem, a, s))]
         /\ mem' = Store(mem, [x \in Cells(a, s) |-> o.byte])
  /\ pushed' = [pushed EXCEPT ![p] = @ + 1]
  /\ UNCHANGED effectvars

sei_malloc(o) ==
  /\ o.op = "malloc"
  /\ IF p = 0
       THEN \E a \in Heap \ heap :
              heap' = heap \cup {a} /\ talloc' = talloc_malloc(talloc, a)
       ELSE talloc' = talloc_malloc(talloc, NULL) /\ UNCHANGED heap
  /\ UNCHANGED <<cowvars, tbin, wts, obuf, ibuf, sent>>

sei_free(o) ==
  /\ o.op = "free"
  /\ tbin' = tbin_add(tbin, p, o.ptr)
  /\ UNCHANGED <<cowvars, heap, talloc, wts, obuf, ibuf, sent>>

\* send that only phase 0 delays.
send_early(o) ==
  /\ o.op = "send"
  /\ IF p = 0
       THEN wts' = wts_add(wts, p, o.call) /\ UNCHANGED sent
       ELSE sent' = Append(sent, o.call) /\ UNCHANGED wts
  /\ UNCHANGED <<cowvars, heap, talloc, tbin, obuf, ibuf>>

\* send and sendto: phases 0 and 1 delay the call, later ones perform it.
send(o) ==
  /\ o.op = "send"
  /\ IF p \in {0, 1}
       THEN wts' = wts_add(wts, p, o.call) /\ UNCHANGED sent
       ELSE sent' = Append(sent, o.call) /\ UNCHANGED wts
  /\ UNCHANGED <<cowvars, heap, talloc, tbin, obuf, ibuf>>

\* sei_output_append and sei_output_done.
OutputAsserted(o) ==
  \/ o.op = "append" /\ obuf_can_push(obuf)
  \/ o.op = "done" /\ obuf_can_done(obuf)

sei_output(o) ==
  /\ \/ o.op = "append" /\ obuf' = obuf_push(obuf, o.piece)
     \/ o.op = "done" /\ obuf' = obuf_done(obuf)
  /\ NDEBUG \/ OutputAsserted(o)
  /\ UNCHANGED <<cowvars, heap, talloc, tbin, wts, ibuf, sent>>

Exec(o) ==
  sei_write(o) \/ sei_malloc(o) \/ sei_free(o) \/ send(o) \/ sei_output(o)

\* The objects that phase q has not freed.
Live(q) == heap \ {tbin[q][i] : i \in 1 .. Len(tbin[q])}

\* What a correct handler does: it stays within live memory, frees an object
\* once, honours READ_ONLY, completes messages that have contents, and leaves
\* no more of them to be fetched than there is room for.
Legal(o) ==
  /\ o.op = "write" =>
       /\ Cells(o.at[1], o.at[2]) \subseteq Global \cup Live(0)
       /\ o.byte \in Byte \cup Live(0)
       /\ ibuf.mode = "READ_ONLY" => Cells(o.at[1], o.at[2]) \cap Msg = {}
  /\ o.op = "free" => o.ptr \in Live(0) \cup {NULL}
  /\ o.op = "done" => obuf_can_done(obuf)
  /\ o.op = "append" => obuf_can_push(obuf)

\* Phase 0 performs any operation.
handler_step ==
  /\ Running /\ p = 0
  /\ k < MaxOps
  /\ \E o \in Op : Legal(o) /\ Exec(o) /\ script' = Append(script, o)
  /\ k' = k + 1
  /\ UNCHANGED <<faults, txvars, status>>

\* A later phase performs the next operation of phase 0.
replay_step ==
  /\ Running /\ p > 0
  /\ k < Len(script)
  /\ Exec(script[k + 1])
  /\ k' = k + 1
  /\ UNCHANGED <<script, faults, txvars, status>>

\* A fault: the phase skips an operation, or performs one of its own instead
\* of, or before, the next operation of phase 0.
skip_fault ==
  /\ Running /\ p > 0 /\ faults > 0
  /\ k < Len(script)
  /\ k' = k + 1
  /\ faults' = faults - 1
  /\ UNCHANGED <<script, txvars, cowvars, effectvars, status>>

op_fault ==
  /\ Running /\ p > 0 /\ faults > 0
  /\ \E o \in Op :
       /\ o.op = "write" => Cells(o.at[1], o.at[2]) \subseteq Global \cup heap
       /\ Exec(o)
  /\ k' \in {k, k + 1} /\ k' <= Len(script)
  /\ faults' = faults - 1
  /\ UNCHANGED <<script, txvars, status>>

handler == handler_step \/ replay_step \/ skip_fault \/ op_fault

\* An assertion of obuf_push or obuf_done fails in a phase that a fault has
\* brought out of step, or in the operation that a fault makes up.
output_failed ==
  /\ Running /\ p > 0 /\ ~NDEBUG
  /\ \E o \in Op :
       /\ o.op \in {"append", "done"} /\ ~OutputAsserted(o)
       /\ faults > 0 \/ (k < Len(script) /\ o = script[k + 1])
  /\ Exit
  /\ UNCHANGED sent

-----------------------------------------------------------------------------
\* The handler has returned in phase p.
PhaseDone == Running /\ (p = 0 \/ k = Len(script))

\* A switch with an off-by-one in its guard.
sei_switch_once_more ==
  /\ PhaseDone /\ p < level
  /\ p' = p + 1
  /\ k' = 0
  /\ talloc' = talloc_switch(talloc)
  /\ obuf' = obuf_close(obuf, level)
  /\ ibuf' = ibuf_switch(ibuf, Message)
  /\ mem' = abuf_swap_mem(buf[p], pushed[p], mem)
  /\ buf' = [buf EXCEPT ![p] = abuf_swap_buf(@, pushed[p], mem)]
  /\ res' = [res EXCEPT ![p] = mem]
  /\ UNCHANGED <<script, faults, level, ready, ntx, old, pushed, heap, tbin,
                 wts, sent, status>>

\* __sei_commit in a phase that is not the last: sei_switch, then the handler
\* is started again.
sei_switch ==
  /\ PhaseDone /\ p < level - 1
  /\ p' = p + 1
  /\ k' = 0
  /\ talloc' = talloc_switch(talloc)
  /\ obuf' = obuf_close(obuf, level)
  /\ ibuf' = ibuf_switch(ibuf, Message)
  /\ mem' = abuf_swap_mem(buf[p], pushed[p], mem)
  /\ buf' = [buf EXCEPT ![p] = abuf_swap_buf(@, pushed[p], mem)]
  /\ res' = [res EXCEPT ![p] = mem]
  /\ UNCHANGED <<script, faults, level, ready, ntx, old, pushed, heap, tbin,
                 wts, sent, status>>

\* The comparison that sei_commit makes.
Compared ==
  IF level = 2
    THEN /\ NDEBUG \/ SEI_DMR_REDUNDANCY = 2
         /\ abuf_cmp_heap(buf, pushed, mem, NDEBUG)
    ELSE /\ NDEBUG \/ SEI_DMR_REDUNDANCY = level
         /\ abuf_cmp_heap_nway(buf, pushed, level, mem, NDEBUG)

CommitPoint == PhaseDone /\ p = level - 1

\* The comparison or wts_flush fails: no effect has left the process.
commit_refused ==
  /\ CommitPoint
  /\ ~(Compared /\ wts_can_flush(wts))
  /\ Exit
  /\ UNCHANGED sent

\* wts_flush has made the system calls when tbin_flush or talloc_clean, or in
\* the debug build the assertion on the input message, fails.
commit_broken ==
  /\ CommitPoint
  /\ Compared /\ wts_can_flush(wts)
  /\ ~(/\ tbin_can_flush(tbin, level) /\ talloc_agree(talloc, level)
       /\ NDEBUG \/ ibuf_correct(ibuf, Message))
  /\ sent' = sent \o wts[0]
  /\ Exit

\* The effects of the transaction become final.
finish ==
  /\ p' = -1
  /\ pushed' = [q \in Phase |-> IF q < level THEN 0 ELSE pushed[q]]
  /\ sent' = sent \o wts[0]
  /\ wts' = wts_flushed
  /\ heap' = Live(0)
  /\ tbin' = tbin_reset(tbin, level)
  /\ talloc' = talloc_clean(talloc, level)
  /\ obuf' = obuf_close(obuf, level)
  /\ script' = <<>> /\ k' = 0
  /\ old' = Zero /\ res' = [q \in Phase |-> Zero]
  /\ UNCHANGED <<faults, level, ready, ntx, mem, buf, ibuf, status>>

sei_commit ==
  /\ CommitPoint
  /\ Compared /\ wts_can_flush(wts)
  /\ tbin_can_flush(tbin, level) /\ talloc_agree(talloc, level)
  /\ NDEBUG \/ ibuf_correct(ibuf, Message)
  /\ finish

\* sei_output_next, called by the application when a checksum is there.
sei_output_next ==
  /\ Idle /\ obuf_size(obuf) > 0
  /\ \/ /\ NDEBUG \/ obuf_agree(obuf, level)
        /\ obuf' = obuf_pop(obuf, level)
        /\ UNCHANGED <<handlervars, txvars, cowvars, heap, talloc, tbin, wts,
                       ibuf, sent, status>>
     \/ ~(NDEBUG \/ obuf_agree(obuf, level)) /\ Exit /\ UNCHANGED sent

Next ==
  \/ sei_prepare \/ sei_begin
  \/ handler \/ output_failed
  \/ sei_switch
  \/ commit_refused \/ commit_broken \/ sei_commit
  \/ sei_output_next

Spec == Init /\ [][Next]_vars

-----------------------------------------------------------------------------
\* The type invariant of memory, the logs and the phase structure.
TypeOK ==
  /\ mem \in Memory /\ old \in Memory /\ res \in [Phase -> Memory]
  /\ heap \subseteq Heap
  /\ p \in -1 .. level - 1
  /\ level \in 2 .. SEI_DMR_REDUNDANCY
  /\ pushed \in [Phase -> 0 .. MaxLog]
  /\ DOMAIN buf = Phase /\ \A q \in Phase : DOMAIN buf[q] = 0 .. MaxLog - 1
  /\ script \in Seq(Op) /\ Len(script) <= MaxOps /\ k \in 0 .. Len(script)
  /\ faults \in 0 .. Faults
  /\ status \in {"run", "exit"}

\* The contract between SEI_WRITE and abuf_swap: at every point of every phase,
\* whatever the handler and faults have written so far, exchanging the log
\* with memory gives back the memory of __sei_begin.  Hence all phases start
\* from the same memory ("allowing subsequent phases to record the same OLD
\* values", mode_cow.c).
UndoLog == Running => abuf_swap_mem(buf[p], pushed[p], mem) = old

Committing == p >= 0 /\ p' = -1

\* All phases of a transaction that commits have produced the same memory.
Agreement ==
  [][Committing => \A q \in 0 .. level - 2 : res[q] = mem]_vars

\* The cells that phase q wrote.
Written(q) == {x \in Cell : Covering(buf[q], pushed[q], x) # {}}

\* What the release build guarantees at level 2: in every cell that phase 0
\* wrote, the memory that is committed is the one phase 0 had computed.
VerifiedWrites ==
  [][Committing /\ level = 2 =>
       \A x \in Written(0) : mem[x] = res[0][x]]_vars

\* Without a fault the process never stops: sei_commit refuses no transaction
\* and no assertion fails.
NoFalseAlarm == faults = Faults => status = "run"

\* Without a fault the checksum queues of all phases agree between
\* transactions, however the application fetches them (the assertions of
\* obuf_size and obuf_pop).
OutputsAgree ==
  Idle /\ faults = Faults =>
    \A q \in 1 .. level - 1 :
      /\ obuf.head[q] = obuf.head[0] /\ obuf.tail[q] = obuf.tail[0]
      /\ obuf.crc[q] = obuf.crc[0]

\* A message that was received READ_ONLY is intact when its transaction
\* commits, and one received READ_WRITE is what the phase before the last made
\* of it: ibuf_correct, which sei_commit asserts in the debug build and
\* sei_try_commit tests with ROLLBACK, where the comparison of the logs misses
\* the last of two writes to one address.
InputVerified ==
  [][Committing /\ ibuf.mode # "none" =>
       Message = IF ibuf.mode = "READ_ONLY" THEN ibuf.crc
                 ELSE [x \in Msg |-> res[level - 2][x]]]_vars

\* The redundant execution implements a single atomic one (module Tx).
Committed == p = -1

Single ==
  INSTANCE Tx WITH
    mem <- IF Committed THEN mem ELSE old,
    heap <- IF Committed THEN heap ELSE heap \ talloc_objects(talloc),
    sent <- sent,
    pmem <- IF p > 0 THEN res[0] ELSE mem,
    pheap <- Live(0),
    psend <- wts[0],
    stage <- IF status = "exit" THEN "exit"
             ELSE IF p = -1 THEN "idle"
             ELSE IF p = 0 THEN "compute" ELSE "verify"

AtomicOnce == Single!Spec
=============================================================================
