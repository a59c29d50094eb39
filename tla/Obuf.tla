-------------------------------- MODULE Obuf --------------------------------
(***************************************************************************)
(* The output buffer of src/src/obuf.c: one ring of message checksums per  *)
(* phase.  An entry's CRC is represented by the sequence of pieces that it *)
(* was computed from, which also gives its size.  An obuf_t is a record of *)
(* the phase p that pushes next and, for every phase, the ring (head, tail *)
(* and entries) in the fields head, tail, crc and done.                    *)
(***************************************************************************)
EXTENDS Integers, Sequences

CONSTANT MAX_MSGS  \* entries of a ring

LOCAL PerPhase(N, v) == [q \in 0 .. N - 1 |-> v]

LOCAL Ring(v) == [i \in 0 .. MAX_MSGS - 1 |-> v]

obuf_init(N) ==
  [p |-> 0, head |-> PerPhase(N, 0), tail |-> PerPhase(N, 0),
   crc |-> PerPhase(N, Ring(<<>>)), done |-> PerPhase(N, Ring(FALSE))]

\* A close that stays in the phase.
obuf_close_none(o, level) == o

obuf_close(o, level) == [o EXCEPT !.p = (@ + 1) % level]

\* The entry that phase p fills.
LOCAL Slot(o) == o.tail[o.p] % MAX_MSGS

obuf_push(o, piece) == [o EXCEPT !.crc[o.p][Slot(o)] = Append(@, piece)]

\* obuf_done appends the length to the checksum and closes it.
obuf_done(o) ==
  [o EXCEPT !.crc[o.p][Slot(o)] = Append(@, "closed"),
            !.done[o.p][Slot(o)] = TRUE, !.tail[o.p] = @ + 1]

\* What obuf_push and obuf_done assert.
obuf_can_push(o) == ~o.done[o.p][Slot(o)]

obuf_can_done(o) ==
  /\ ~o.done[o.p][Slot(o)]
  /\ o.crc[o.p][Slot(o)] # <<>>
  /\ o.tail[o.p] + 1 - o.head[o.p] <= MAX_MSGS

\* The checksum that obuf_pop takes from phase q.
obuf_crc(o, q) == o.crc[q][o.head[q] % MAX_MSGS]

\* The entry that obuf_pop takes from phase q.
LOCAL Popped(o, q, i, level) == q < level /\ i = o.head[q] % MAX_MSGS

obuf_pop(o, level) ==
  [o EXCEPT
     !.head = [q \in DOMAIN @ |-> IF q < level THEN @[q] + 1 ELSE @[q]],
     !.crc  = [q \in DOMAIN @ |-> [i \in DOMAIN @[q] |->
                 IF Popped(o, q, i, level) THEN <<>> ELSE @[q][i]]],
     !.done = [q \in DOMAIN @ |-> [i \in DOMAIN @[q] |->
                 IF Popped(o, q, i, level) THEN FALSE ELSE @[q][i]]]]

\* What obuf_size and obuf_pop assert before they trust phase 0.
obuf_agree(o, level) ==
  \A q \in 1 .. level - 1 :
    /\ o.head[q] = o.head[0] /\ o.tail[q] = o.tail[0]
    /\ obuf_crc(o, q) = obuf_crc(o, 0)
    /\ o.done[q][o.head[q] % MAX_MSGS] = o.done[0][o.head[0] % MAX_MSGS]

obuf_size(o) == o.tail[0] - o.head[0]

\* obuf_reset empties the rings of the phases below level altogether.
obuf_reset(o, level) ==
  LET Reset(f, v) == [q \in DOMAIN f |-> IF q < level THEN v ELSE f[q]]
  IN  [p |-> 0, head |-> Reset(o.head, 0), tail |-> Reset(o.tail, 0),
       crc |-> Reset(o.crc, Ring(<<>>)), done |-> Reset(o.done, Ring(FALSE))]
=============================================================================
