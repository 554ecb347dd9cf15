------------------------------- MODULE Murmur3 -------------------------------
(***************************************************************************)
(* MurmurHash3_x86_32 (src/src/murmur3.c), by which the receiver's version *)
(* of the firmware and its pieces are compared.  A word of 32 bits is a    *)
(* pair of halves, the upper one first: TLC's integers are too small.      *)
(***************************************************************************)
EXTENDS Integers, Sequences, Bitwise

Half == 65536

Plus(x, y)    == LET lo == x[2] + y[2]
                 IN <<(x[1] + y[1] + (lo \div Half)) % Half, lo % Half>>
Xor32(x, y)   == <<x[1] ^^ y[1], x[2] ^^ y[2]>>
\* Times a number of at most 15 bits.
Scaled(x, n)  == Plus(<<(x[1] * n) % Half, 0>>, <<(x[2] * n) \div Half, (x[2] * n) % Half>>)
\* x * y, one byte of y after the other.
Product(x, y) ==
    LET byte == <<y[1] \div 256, y[1] % 256, y[2] \div 256, y[2] % 256>>
        upTo[n \in 0 .. 4] == IF n = 0 THEN <<0, 0>>
                              ELSE Plus(Scaled(upTo[n - 1], 256), Scaled(x, byte[n]))
    IN upTo[4]

\* Both for n < 16.
ShiftRight(x, n) == <<x[1] \div 2 ^ n, (x[2] \div 2 ^ n) + (x[1] % 2 ^ n) * 2 ^ (16 - n)>>
rotl32(x, n)     == <<((x[1] * 2 ^ n) % Half) + (x[2] \div 2 ^ (16 - n)),
                      ((x[2] * 2 ^ n) % Half) + (x[1] \div 2 ^ (16 - n))>>

\* The constants c1 and c2, 0xe6546b64 and the two of fmix32.
c1 == <<\hCC9E, \h2D51>>
c2 == <<\h1B87, \h3593>>
BlockConstant == <<\hE654, \h6B64>>
MixConstants == << <<\h85EB, \hCA6B>>, <<\hC2B2, \hAE35>> >>

Scramble(k1) == Product(rotl32(Product(k1, c1), 15), c2)

\* A block into the hash so far; the tail goes in with no more than an exclusive or.
MixBlock(h1, k1) == Plus(Scaled(rotl32(Xor32(h1, Scramble(k1)), 13), 5), BlockConstant)

fmix32(h) ==
    LET a == Xor32(h, <<0, h[1]>>)
        b == Product(a, MixConstants[1])
        c == Xor32(b, ShiftRight(b, 13))
        d == Product(c, MixConstants[2])
    IN  Xor32(d, <<0, d[1]>>)

\* The word that starts at the byte i of the key, the lowest byte first; bytes behind
\* its end count as 0, as in the tail.
getblock32(key, i) ==
    LET byte(n) == IF i + n > Len(key) THEN 0 ELSE key[i + n]
    IN <<byte(3) * 256 + byte(2), byte(1) * 256 + byte(0)>>

MurmurHash3_x86_32(key, seed) ==
    LET nblocks == Len(key) \div 4
        body[n \in 0 .. nblocks] ==
            IF n = 0 THEN seed ELSE MixBlock(body[n - 1], getblock32(key, 4 * n - 3))
        tail == IF Len(key) % 4 = 0 THEN body[nblocks]
                ELSE Xor32(body[nblocks], Scramble(getblock32(key, 4 * nblocks + 1)))
    IN fmix32(Xor32(tail, <<0, Len(key)>>))
=============================================================================
