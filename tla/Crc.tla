-------------------------------- MODULE Crc ---------------------------------
(***************************************************************************)
(* The CRC of p1/src/crc.c (the same file in p4 and p5) and, to compare it *)
(* with, the definition that the PNG standard gives: the remainder of a    *)
(* polynomial division.                                                    *)
(*                                                                         *)
(* A word is the set of its bits that are 1, so that exclusive or is the   *)
(* symmetric difference; bit 0 is the least significant. A byte is a word  *)
(* with bits in 0..7.                                                      *)
(***************************************************************************)
EXTENDS Integers, Sequences, FiniteSetsExt

\* The byte with the value n.
Bits(n) == {k \in 0..7 : (n \div 2^k) % 2 = 1}

\* 0xffffffffL
Ones == 0..31

Shift(c, k) == {b - k : b \in {x \in c : x >= k}}

\* 0xedb88320
Polynomial == {31, 30, 29, 27, 26, 24, 23, 21, 20, 19, 15, 9, 8, 5}

(***************************************************************************)
(* crc.c                                                                   *)
(***************************************************************************)

\* A turn of the inner loop of make_crc_table.
Turn(c) == IF 0 \in c THEN SymDiff(Polynomial, Shift(c, 1)) ELSE Shift(c, 1)

\* The inner loop: eight turns of it.
Entry(byte) ==
    LET turned[k \in 0..8] == IF k = 0 THEN byte ELSE Turn(turned[k - 1])
    IN  turned[8]

crc_table == [byte \in SUBSET (0..7) |-> Entry(byte)]

BugUpdate(c, byte) ==  \* the mask is 0x7f
    SymDiff(crc_table[SymDiff(c, byte) \cap (0..6)], Shift(c, 8))

\* One turn of the loop of update_crc.
Update(c, byte) == SymDiff(crc_table[SymDiff(c, byte) \cap (0..7)], Shift(c, 8))

\* update_crc and crc.
UpdateCrc(crc, buf) ==
    LET c[n \in 0..Len(buf)] == IF n = 0 THEN crc ELSE Update(c[n - 1], buf[n])
    IN  c[Len(buf)]

CrcOf(buf) == SymDiff(UpdateCrc(Ones, buf), Ones)

(***************************************************************************)
(* The standard. The bits of a message, the least significant of the first *)
(* byte first, are the coefficients of a polynomial, the highest power     *)
(* first; its first 32 are complemented, and it is multiplied by x^32.     *)
(* A polynomial is the set of its powers.                                  *)
(***************************************************************************)

Generator == {32, 26, 23, 22, 16, 12, 11, 10, 8, 7, 5, 4, 2, 1, 0}

\* The message of n bytes, times x^32, with its first 32 bits complemented (of a
\* shorter message, the zeros that follow it are).
Message(buf) ==
    LET top == 8 * Len(buf) + 31
    IN  SymDiff({top - p : p \in {q \in 0..(8 * Len(buf) - 1) : q % 8 \in buf[q \div 8 + 1]}},
                {top - p : p \in 0..31})

\* A step of the division: if the power d is there, the generator times x^(d - 32) is
\* subtracted.
Remove(poly, d) ==
    IF d \in poly THEN SymDiff(poly, {e + d - 32 : e \in Generator}) ELSE poly

\* The powers from the highest, 8 * n + 31, down to x^32 are removed, one after the other.
Remainder(poly, n) ==
    LET rest[k \in 0..(8 * n)] == IF k = 0 THEN poly ELSE Remove(rest[k - 1], 8 * n + 32 - k)
    IN  rest[8 * n]

\* The running value that belongs to the bytes of buf: bit 0 is the highest power.
Reference(buf) == {31 - e : e \in Remainder(Message(buf), Len(buf))}
=============================================================================
