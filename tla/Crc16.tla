------------------------------- MODULE Crc16 -------------------------------
(***************************************************************************)
(* The checksum of data packets (src/grainuum/grainuum-state.c), on whole  *)
(* numbers, and the one USB asks for, on the bits of the wire.             *)
(***************************************************************************)
EXTENDS Integers, Sequences, SequencesExt, Bitwise

\* Eight rounds: crc and c lose a bit each.
crc16_add(crc, c, poly) ==
    LET Round(x, y) == IF (x ^^ y) % 2 = 1 THEN (x \div 2) ^^ poly ELSE x \div 2
        after[i \in 0 .. 8] == IF i = 0 THEN crc
                               ELSE Round(after[i - 1], c \div 2 ^ (i - 1))
    IN after[8]

crc16(data, init, poly) == FoldLeft(LAMBDA crc, c : crc16_add(crc, c, poly), init, data)

\* The complement follows the data, the low byte first.
WithCrc(data) == LET crc == 65535 - crc16(data, 65535, 40961)
                 IN data \o <<crc % 256, crc \div 256>>
-----------------------------------------------------------------------------
\* The remainder by x^16 + x^15 + x^2 + 1, from all ones on: bit 1 is that of x^15.
Divide(rest, bit) ==
    LET carry == (rest[1] + bit) % 2
    IN [i \in 1 .. 16 |-> IF i \in {1, 14, 16} THEN (carry + IF i = 16 THEN 0 ELSE rest[i + 1]) % 2
                          ELSE rest[i + 1]]
Remainder(bits) == FoldLeft(Divide, [i \in 1 .. 16 |-> 1], bits)

\* What is left of a packet with a correct checksum.
Residue == <<1, 0, 0, 0, 0, 0, 0, 0, 0, 0, 0, 0, 1, 1, 0, 1>>
=============================================================================
