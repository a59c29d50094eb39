-------------------------------- MODULE Ibuf --------------------------------
(***************************************************************************)
(* The input buffer of src/src/ibuf.c.  A checksum is represented by the   *)
(* contents it was computed from.  An ibuf_t is a record of the mode       *)
(* ("none" stands for a NULL message), the checksum crc that came with the *)
(* message, and the checksum tcrc of the message as the last finished      *)
(* phase left it.                                                          *)
(***************************************************************************)

ibuf_init == [mode |-> "none", crc |-> <<>>, tcrc |-> <<>>]

\* ibuf_prepare of a message that arrived with checksum crc.
ibuf_prepare(ib, mode, crc) == [ib EXCEPT !.mode = mode, !.crc = crc]

ibuf_switch(ib, msg) ==
  IF ib.mode = "READ_WRITE" THEN [ib EXCEPT !.tcrc = msg] ELSE ib

\* A check that forgets READ_WRITE messages.
ibuf_correct_ro(ib, msg) == ib.mode = "READ_ONLY" => msg = ib.crc

ibuf_correct(ib, msg) ==
  \/ ib.mode = "none"
  \/ ib.mode = "READ_ONLY" /\ msg = ib.crc
  \/ ib.mode = "READ_WRITE" /\ msg = ib.tcrc
=============================================================================
