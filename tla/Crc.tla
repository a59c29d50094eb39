--------------------------------- MODULE Crc ---------------------------------
(***************************************************************************)
(* The checksums of src/src/crc.c and src/src/crc32c: obuf_push appends    *)
(* the pieces of a message one by one, the receiver checks the whole, each *)
(* with the implementation crc32c_impl has chosen on its machine.  A word  *)
(* is the set of its bits that are one.                                    *)
(***************************************************************************)
EXTENDS Integers, Sequences

CONSTANTS
  Messages,  \* sequences of bytes
  Addresses  \* the addresses that a message may start at, modulo 4

VARIABLES
  msg,      \* the message
  address,  \* where it starts
  impl,     \* the implementation that appends the current piece
  end,      \* where the piece ends
  pos,      \* the bytes that were appended
  e_crc,    \* e->crc of the output buffer, or the result of crc_compute
  division  \* history: the remainder of the bits of these bytes

crcvars == <<msg, address, impl, end, pos, e_crc, division>>

LowByte == 0 .. 7
Xor(a, b) == (a \ b) \cup (b \ a)
Shift(x, k) == {b - k : b \in {c \in x : c >= k}}

\* 0x82f63b78, the reversed polynomial
CRCPOLY == {3, 4, 5, 6, 8, 9, 11, 12, 13, 17, 18, 20, 21, 22, 23, 25, 31}

crc_init == 0 .. 31

\* x = (x>>1) ^ (CRCPOLY & (-(int32_t)(x & 1)));
Bit(x) == IF 0 \in x THEN Xor(Shift(x, 1), CRCPOLY) ELSE Shift(x, 1)
Bits8(x) == Bit(Bit(Bit(Bit(Bit(Bit(Bit(Bit(x))))))))

\* The tables o32, o40, ..., o88 are 0, 1, ..., 7 here.
crc_table0 == [n \in SUBSET LowByte |-> Bits8(n)]
Following(t) ==
  [n \in SUBSET LowByte |->
    LET c == t[n] IN Xor(crc_table0[c \cap LowByte], Shift(c, 8))]
crc_table1 == Following(crc_table0)
crc_table2 == Following(crc_table1)
crc_table3 == Following(crc_table2)
crc_table4 == Following(crc_table3)
crc_table5 == Following(crc_table4)
crc_table6 == Following(crc_table5)
crc_table7 == Following(crc_table6)

\* The byte of x that starts at bit k.
ByteOf(x, k) == Shift(x, k) \cap LowByte

\* *(uint32_t*) p_buf
Load32(data) ==
  UNION {{b + 8 * (i - 1) : b \in data[i]} : i \in 1 .. 4}

\* The tables of the two words are exchanged.
Slice8_exchanged(crc, data) ==
  LET x == Xor(crc, Load32(data))
      y == Load32(SubSeq(data, 5, 8))
  IN  Xor(Xor(Xor(crc_table7[ByteOf(y, 0)], crc_table6[ByteOf(y, 8)]),
              Xor(crc_table5[ByteOf(y, 16)], crc_table4[ByteOf(y, 24)])),
          Xor(Xor(crc_table3[ByteOf(x, 0)], crc_table2[ByteOf(x, 8)]),
              Xor(crc_table1[ByteOf(x, 16)], crc_table0[ByteOf(x, 24)])))

Slice8(crc, data) ==
  LET x == Xor(crc, Load32(data))
      y == Load32(SubSeq(data, 5, 8))
  IN  Xor(Xor(Xor(crc_table7[ByteOf(x, 0)], crc_table6[ByteOf(x, 8)]),
              Xor(crc_table5[ByteOf(x, 16)], crc_table4[ByteOf(x, 24)])),
          Xor(Xor(crc_table3[ByteOf(y, 0)], crc_table2[ByteOf(y, 8)]),
              Xor(crc_table1[ByteOf(y, 16)], crc_table0[ByteOf(y, 24)])))

Slice4(crc, data) ==
  LET x == Xor(crc, Load32(data))
  IN  Xor(Xor(crc_table3[ByteOf(x, 0)], crc_table2[ByteOf(x, 8)]),
          Xor(crc_table1[ByteOf(x, 16)], crc_table0[ByteOf(x, 24)]))

Sarwate(crc, c) == Xor(crc_table0[ByteOf(Xor(crc, c), 0)], Shift(crc, 8))

\* The bytes of the data, divided one after the other: what the crc32
\* instruction does with those of its operand, the lowest first.
crc32(crc, data) ==
  LET loop[k \in 0 .. Len(data)] ==
        IF k = 0 THEN crc ELSE Bits8(Xor(loop[k - 1], data[k]))
  IN  loop[Len(data)]

Impl == {"sarwate", "by4", "by8", "hw32", "hw64"}
Size == [sarwate |-> 1, by4 |-> 4, by8 |-> 8, hw32 |-> 4, hw64 |-> 8]

\* The operand of the next instruction in the switch over the last bytes.
Operand(left) ==
  CASE left \in {7, 3, 1} -> 1 [] left \in {6, 2} -> 2 [] left \in {5, 4} -> 4

\* The bytes that the next iteration takes: a word, or before the words single
\* bytes up to a multiple of 4, and after them those that are left.
Taken ==
  LET left == end - pos
      misaligned == impl \in {"by4", "by8"} /\ (address + pos) % 4 # 0
  IN  IF left >= Size[impl] /\ ~misaligned THEN Size[impl]
      ELSE IF impl \in {"hw32", "hw64"} THEN Operand(left) ELSE 1

CrcInit ==
  /\ msg \in Messages
  /\ address \in Addresses
  /\ impl = "sarwate"
  /\ end = 0
  /\ pos = 0
  /\ e_crc = crc_init
  /\ division = crc_init

\* crc_append of the next n bytes: a piece of obuf_push, or all of crc_compute.
crc_append(f, n) ==
  /\ pos = end
  /\ end + n <= Len(msg)
  /\ end' = end + n
  /\ impl' = f
  /\ UNCHANGED <<msg, address, pos, e_crc, division>>

\* An iteration of one of the loops of the implementation.
iterate ==
  LET data == SubSeq(msg, pos + 1, pos + Taken)
  IN  /\ pos < end
      /\ pos' = pos + Taken
      /\ e_crc' = IF impl \in {"hw32", "hw64"} THEN crc32(e_crc, data)
                  ELSE IF Taken = 8 THEN Slice8(e_crc, data)
                  ELSE IF Taken = 4 THEN Slice4(e_crc, data)
                  ELSE Sarwate(e_crc, data[1])
      /\ division' = crc32(division, data)
      /\ UNCHANGED <<msg, address, impl, end>>

CrcNext ==
  \/ \E f \in Impl, n \in 1 .. Len(msg) : crc_append(f, n)
  \/ iterate

CrcSpec == CrcInit /\ [][CrcNext]_crcvars

\* However a message is cut into pieces, wherever it lies and whichever
\* implementation appends each of them, the checksum is the remainder of the
\* division of its bits: the one that obuf_push of the sender has appended
\* and the one that crc_compute of the receiver finds are the same.
PiecesAgree == e_crc = division
=============================================================================
