-------------------------------- MODULE Stash --------------------------------
(***************************************************************************)
(* Connections of one thread: __sei_shift of src/src/tmi.c changes between *)
(* the traversal barriers in its stash and, through sei_shift of           *)
(* mode_cow.c, between the output buffers in the stash of the transaction  *)
(* (stash.c).  A traversal puts a message into the current buffer and a    *)
(* snapshot, which says when the message may leave, into the current       *)
(* barrier.  Buffers and barriers are numbered in the order of creation.   *)
(***************************************************************************)
EXTENDS Integers, Sequences

CONSTANTS
  INITIAL_SIZE,  \* of a stash
  MaxHandles,    \* connections
  MaxMessages    \* traversals

VARIABLES
  obuf, tbar,            \* sei->obuf and __sei_thread->tbar
  obufs, tbars,          \* the two stashes
  max_obufs, max_tbars,  \* max_items of each
  messages,              \* the messages in every buffer
  snapshots,             \* the traversal every barrier has the snapshot of
  handle,                \* the handle of the current connection
  sent_on                \* the handle every message was sent on

stashvars == <<obuf, tbar, obufs, tbars, max_obufs, max_tbars, messages,
               snapshots, handle, sent_on>>

\* Before the first shift there is one buffer and one barrier; they become
\* those of handle 0.
StashInit ==
  /\ obuf = 1 /\ tbar = 1
  /\ obufs = <<>> /\ tbars = <<>>
  /\ max_obufs = INITIAL_SIZE /\ max_tbars = INITIAL_SIZE
  /\ messages = <<{}>>
  /\ snapshots = <<0>>
  /\ handle = 0
  /\ sent_on = <<>>

\* stash_extend
Extended(stash, max_items) ==
  IF Len(stash) = max_items THEN 2 * max_items ELSE max_items

\* if (stash_size(sei->stash) != 0) sei->obuf = obuf_init(OBUF_SIZE);
new_obuf ==
  IF obufs = <<>> THEN UNCHANGED <<obuf, messages>>
  ELSE /\ obuf' = Len(messages) + 1
       /\ messages' = Append(messages, {})

\* tbar_idup copies the snapshot of the current barrier.
new_tbar ==
  IF tbars = <<>> THEN UNCHANGED <<tbar, snapshots>>
  ELSE /\ tbar' = Len(snapshots) + 1
       /\ snapshots' = Append(snapshots, snapshots[tbar])

\* handle == -1: a new connection
shift_new ==
  /\ Len(tbars) < MaxHandles
  /\ new_tbar
  /\ new_obuf
  /\ obufs' = Append(obufs, obuf')
  /\ max_obufs' = Extended(obufs, max_obufs)
  /\ tbars' = Append(tbars, tbar')
  /\ max_tbars' = Extended(tbars, max_tbars)
  /\ handle' = Len(tbars)
  /\ UNCHANGED sent_on

\* The barrier stays that of the connection before.
shift_obuf(h) ==
  /\ h \in 0 .. Len(tbars) - 1
  /\ obuf' = obufs[h + 1]
  /\ handle' = h
  /\ UNCHANGED <<tbar, obufs, tbars, max_obufs, max_tbars, messages, snapshots,
                 sent_on>>

\* The handle that __sei_shift returned for a connection.
shift(h) ==
  /\ h \in 0 .. Len(tbars) - 1
  /\ obuf' = obufs[h + 1]
  /\ tbar' = tbars[h + 1]
  /\ handle' = h
  /\ UNCHANGED <<obufs, tbars, max_obufs, max_tbars, messages, snapshots, sent_on>>

\* A traversal with one message: sei_output_append, then the snapshot that
\* tbar_leave takes.
traverse ==
  /\ Len(sent_on) < MaxMessages
  /\ LET m == Len(sent_on) + 1
     IN  /\ messages' = [messages EXCEPT ![obuf] = @ \cup {m}]
         /\ snapshots' = [snapshots EXCEPT ![tbar] = m]
  /\ sent_on' = Append(sent_on, handle)
  /\ UNCHANGED <<obuf, tbar, obufs, tbars, max_obufs, max_tbars, handle>>

StashNext ==
  \/ shift_new
  \/ \E h \in 0 .. MaxHandles - 1 : shift(h)
  \/ traverse

StashSpec == StashInit /\ [][StashNext]_stashvars

\* The two stashes stay in step, as "assert (handle == h)", which is commented
\* out in __sei_shift, would say: the buffer of a handle holds exactly
\* what was sent on it, its barrier the snapshot of the last of these messages,
\* what was sent before the first shift belongs to handle 0, and the arrays of
\* both stashes have room.
InStep ==
  /\ Len(obufs) = Len(tbars) /\ Len(obufs) <= max_obufs /\ Len(tbars) <= max_tbars
  /\ \A h \in 0 .. Len(tbars) - 1 :
       LET sent_h == {m \in 1 .. Len(sent_on) : sent_on[m] = h}
       IN  /\ messages[obufs[h + 1]] = sent_h
           /\ sent_h # {} => /\ snapshots[tbars[h + 1]] \in sent_h
                             /\ \A m \in sent_h : m <= snapshots[tbars[h + 1]]

\* Every buffer is in the stash exactly once when there is a stash at all:
\* sei_fini then frees those in the stash and no other.
FreedOnce ==
  obufs # <<>> =>
    /\ {obufs[i] : i \in 1 .. Len(obufs)} = 1 .. Len(messages)
    /\ Len(obufs) = Len(messages)
==============================================================================
