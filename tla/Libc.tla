-------------------------------- MODULE Libc --------------------------------
(***************************************************************************)
(* The copies of libc functions that handlers call in place of the         *)
(* uninstrumented ones (src/src/libc, included by support.c): strtol,      *)
(* strtoll, strtoul, strtoull and memmove_bsd (memmove).                   *)
(* Long integers have few bits and words few bytes; a character is the     *)
(* value of its digit or one of four other classes.                        *)
(***************************************************************************)
EXTENDS Integers, Sequences

CONSTANTS
  LONG_BITS,  \* bits of a long
  Texts,      \* the strings that are converted
  Bases,      \* the bases they are converted in
  wsize,      \* bytes of a word, a power of two
  Moves       \* <<dest, src, n>> of the calls of memmove

LONG_MAX == 2^(LONG_BITS - 1) - 1
LONG_MIN == -2^(LONG_BITS - 1)
ULONG_MAX == 2^LONG_BITS - 1

\* Characters: 0 .. 35 for the digits and letters ('x' is 33), and these.
Space == -1
Minus == -2
Plus == -3
Nul == -4
X == 33

VARIABLES
  call,  \* the function that was called and its arguments
  ret    \* what it has returned, or the memory it has left

libcvars == <<call, ret>>

None == [fn |-> "none"]

LibcInit == call = None /\ ret = None

-----------------------------------------------------------------------------

\* C divides towards zero.
CDiv(a, b) == IF a < 0 THEN -((-a) \div b) ELSE a \div b
CMod(a, b) == a - b * CDiv(a, b)

\* *s, with the terminator after the last character.
Char(s, i) == IF i <= Len(s) THEN s[i] ELSE Nul

\* The first position that is no space.
Skipped(s) == CHOOSE i \in 1 .. Len(s) + 1 :
  Char(s, i) # Space /\ \A j \in 1 .. i - 1 : s[j] = Space

\* The sign, the base and the place of the first digit.
Prefix(s, base) ==
  LET i == Skipped(s)
      signed == Char(s, i) \in {Minus, Plus}
      d == IF signed THEN i + 1 ELSE i
      hex == base \in {0, 16} /\ Char(s, d) = 0 /\ Char(s, d + 1) = X
  IN  [neg |-> Char(s, i) = Minus,
       at |-> IF hex THEN d + 2 ELSE d,
       base |-> IF hex THEN 16 ELSE IF base # 0 THEN base
                ELSE IF Char(s, d) = 0 THEN 8 ELSE 10]

IsDigit(c, base) == c >= 0 /\ c < base

\* A cutoff that admits the digit after the limit.
TooBig_late(neg, acc, c, cutoff, cutlim) ==
  IF neg THEN acc < cutoff \/ (acc = cutoff /\ c > cutlim + 1)
         ELSE acc > cutoff \/ (acc = cutoff /\ c > cutlim + 1)

TooBig(neg, acc, c, cutoff, cutlim) ==
  IF neg THEN acc < cutoff \/ (acc = cutoff /\ c > cutlim)
         ELSE acc > cutoff \/ (acc = cutoff /\ c > cutlim)

\* The loop over the digits: "down" accumulates negative values.
Converted(s, p, down, limit) ==
  LET cutoff == CDiv(limit, p.base)
      cutlim == IF down THEN -CMod(limit, p.base) ELSE CMod(limit, p.base)
      loop[i \in p.at .. Len(s) + 2] ==
        IF i = p.at THEN [acc |-> 0, any |-> 0, i |-> i]
        ELSE LET l == loop[i - 1]
                 c == Char(s, i - 1)
             IN  IF l.i # i - 1 \/ ~IsDigit(c, p.base) THEN l
                 ELSE IF l.any < 0 THEN [l EXCEPT !.i = i]
                 ELSE IF TooBig(down, l.acc, c, cutoff, cutlim)
                   THEN [acc |-> limit, any |-> -1, i |-> i]
                   ELSE [acc |-> l.acc * p.base + (IF down THEN -c ELSE c),
                         any |-> 1, i |-> i]
  IN  loop[Len(s) + 2]

\* The end is 1, the start of the string, when there was no digit.
Result(l, r) == [r |-> r, erange |-> l.any < 0,
                 end |-> IF l.any = 0 THEN 1 ELSE l.i]

\* long and long long are both 64 bits wide.
Signed(s, base) ==
  LET p == Prefix(s, base)
      l == Converted(s, p, p.neg, IF p.neg THEN LONG_MIN ELSE LONG_MAX)
  IN  Result(l, l.acc)

strtol(s, base) ==
  /\ call' = [fn |-> "strtol", s |-> s, base |-> base]
  /\ ret' = IF base = 0 \/ base \in 2 .. 36
              THEN Signed(s, base)
              ELSE [r |-> 0, erange |-> FALSE, end |-> 1]

\* The base is not checked.
strtoll(s, base) ==
  /\ call' = [fn |-> "strtoll", s |-> s, base |-> base]
  /\ ret' = Signed(s, base)

\* if (neg && any > 0) acc = -acc;
negated(p, l) ==
  IF p.neg /\ l.any > 0 THEN (-l.acc) % 2^LONG_BITS ELSE l.acc

Unsigned(s, base) ==
  LET p == Prefix(s, base)
      l == Converted(s, p, FALSE, ULONG_MAX)
  IN  Result(l, negated(p, l))

strtoul(s, base) ==
  /\ call' = [fn |-> "strtoul", s |-> s, base |-> base]
  /\ ret' = Unsigned(s, base)

strtoull(s, base) ==
  /\ call' = [fn |-> "strtoull", s |-> s, base |-> base]
  /\ ret' = Unsigned(s, base)

-----------------------------------------------------------------------------

\* A word of w bytes is read, then written.
Word(m, d, s, w) ==
  [a \in DOMAIN m |-> IF a \in d .. d + w - 1 THEN m[s + a - d] ELSE m[a]]

\* t words from s to d, upwards or downwards from there.
Up(m, d, s, t, w) ==
  LET loop[k \in 0 .. t] ==
        IF k = 0 THEN m ELSE Word(loop[k - 1], d + (k - 1) * w, s + (k - 1) * w, w)
  IN  loop[t]

Down(m, d, s, t, w) ==
  LET loop[k \in 0 .. t] == IF k = 0 THEN m ELSE Word(loop[k - 1], d - k * w, s - k * w, w)
  IN  loop[t]

SameAlignment(d, s) == d % wsize = s % wsize
Aligned(d, s) == d % wsize = 0 /\ s % wsize = 0

\* Only the bytes of the alignment are subtracted from n; the words and the
\* trailing bytes are counted from length.
Forward(m, d, s, length) ==
  LET t == IF Aligned(d, s) THEN 0
           ELSE IF ~SameAlignment(d, s) \/ length < wsize THEN length
           ELSE wsize - (s % wsize)
      words == length \div wsize
      m1 == Up(m, d, s, t, 1)
      m2 == Up(m1, d + t, s + t, words, wsize)
  IN  Up(m2, d + t + words * wsize, s + t + words * wsize, length % wsize, 1)

Backward(m, d, s, length) ==
  LET dend == d + length
      send == s + length
      t == IF Aligned(dend, send) THEN 0
           ELSE IF ~SameAlignment(dend, send) \/ length <= wsize THEN length
           ELSE send % wsize
      words == length \div wsize
      m1 == Down(m, dend, send, t, 1)
      m2 == Down(m1, dend - t, send - t, words, wsize)
  IN  Down(m2, dend - t - words * wsize, send - t - words * wsize,
           length % wsize, 1)

Moved(m, d, s, length) ==
  IF length = 0 \/ d = s THEN m
  ELSE IF d < s THEN Forward(m, d, s, length) ELSE Backward(m, d, s, length)

\* Memory of 8 words, in which every byte is different.
Memory == [a \in 0 .. 8 * wsize - 1 |-> a]

memmove(d, s, length) ==
  /\ call' = [fn |-> "memmove", dest |-> d, src |-> s, n |-> length]
  /\ ret' = Moved(Memory, d, s, length)

-----------------------------------------------------------------------------

\* One call, in a state of its own.
LibcNext ==
  \/ call = None /\ \E s \in Texts, base \in Bases : strtol(s, base)
  \/ call = None /\ \E s \in Texts, base \in Bases : strtoll(s, base)
  \/ call = None /\ \E s \in Texts, base \in Bases : strtoul(s, base)
  \/ call = None /\ \E s \in Texts, base \in Bases : strtoull(s, base)
  \/ call = None /\ \E m \in Moves : memmove(m[1], m[2], m[3])

LibcSpec == LibcInit /\ [][LibcNext]_libcvars

\* The number a string denotes: the digits up to the first other character.
Number(s, base) ==
  LET p == Prefix(s, base)
      Ends == {i \in p.at .. Len(s) + 2 : ~IsDigit(Char(s, i), p.base)}
      end == CHOOSE i \in Ends : \A j \in Ends : i <= j
      value[i \in p.at .. end] ==
        IF i = p.at THEN 0 ELSE value[i - 1] * p.base + Char(s, i - 1)
  IN  IF p.neg THEN -value[end] ELSE value[end]

\* strtol (and strtoll) returns the number, and the nearest limit with ERANGE when the
\* number does not fit, for both signs and every base (cutoff and cutlim).
StrtolValue ==
  call.fn \in {"strtol", "strtoll"} =>
    LET n == Number(call.s, call.base)
    IN  IF n > LONG_MAX THEN ret.r = LONG_MAX /\ ret.erange
        ELSE IF n < LONG_MIN THEN ret.r = LONG_MIN /\ ret.erange
        ELSE ret.r = n /\ ~ret.erange

\* strtoul (and strtoull) returns the number modulo 2^LONG_BITS when its magnitude fits, and
\* ULONG_MAX with ERANGE when it does not, also after a minus sign.
StrtoulValue ==
  call.fn \in {"strtoul", "strtoull"} =>
    LET n == Number(call.s, call.base)
    IN  IF n \in -ULONG_MAX .. ULONG_MAX
          THEN ret.r = n % 2^LONG_BITS /\ ~ret.erange
          ELSE ret.r = ULONG_MAX /\ ret.erange

\* memmove leaves in the destination what was in the source, for every overlap
\* and alignment ("Copy a block of memory, handling overlap.").
DestinationCopied ==
  call.fn = "memmove" =>
    \A k \in 0 .. call.n - 1 : ret[call.dest + k] = Memory[call.src + k]

\* memmove writes nothing outside the destination.  It does not hold: after
\* the bytes of the alignment, length bytes are copied once more.
OnlyDestination ==
  call.fn = "memmove" =>
    \A a \in DOMAIN ret \ (call.dest .. call.dest + call.n - 1) : ret[a] = Memory[a]
==============================================================================
