----------------------------- MODULE MCLineCode -----------------------------
(***************************************************************************)
(* TLC instance of LineCode: packets that start with a PID of the program, *)
(* with runs of ones of every length, inside bytes, over their boundaries  *)
(* and at the end, up to the longest packet and one byte beyond it.        *)
(***************************************************************************)
EXTENDS LineCode, Crc16

\* The bits of a byte, the lowest first.
Bits(byte) == [i \in 1 .. 8 |-> (byte \div 2 ^ (i - 1)) % 2]

RECURSIVE BitsOf(_)
BitsOf(bytes) == IF bytes = << >> THEN << >> ELSE Bits(Head(bytes)) \o BitsOf(Tail(bytes))

\* A host that divides as USB says accepts what grainuum_state_process_tx appends
\* to the data (grainuum-state.c:154-157), up to eight bytes of it.
ASSUME CrcIsUsb ==
    \A data \in UNION {[1 .. n -> {0, 1, 90, 128, 255}] : n \in 0 .. 3}
               \cup {[i \in 1 .. 8 |-> (i * step) % 256] : step \in {0, 1, 37, 255}} :
        Remainder(BitsOf(WithCrc(data))) = Residue

Data0 == 195
Data1 == 75
Ack == 210

\* DATA0 with n bytes of value b
Filled(b, n) == <<Data0>> \o [i \in 1 .. n |-> b]

MCPackets ==
    {BitsOf(bytes) : bytes \in
        {<<Ack>>} \cup {<<Data1, a, b>> : a, b \in {63, 252, 255}}
        \cup {Filled(b, 10) : b \in {126, 255}}
        \cup {Filled(b, 11) : b \in {85, 255}}}
=============================================================================
