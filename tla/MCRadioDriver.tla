--------------------------- MODULE MCRadioDriver ---------------------------
(***************************************************************************)
(* Packets for the receiver, for a transmitter, for everybody and for      *)
(* another node, of the smallest and the largest size that fit.  The       *)
(* firmware server, the largest sender, is checked against a plain copy;   *)
(* what is one step of RadioDriver, against the bytes on the bus; and the  *)
(* hash, against known values.                                             *)
(***************************************************************************)
EXTENDS RadioDriver, FirmwareServer, Murmur3, FiniteSets

Bus == INSTANCE Spi

Bytes(n) == [i \in 1 .. n |-> n]

MCHeard == {[dst |-> 0, src |-> 1, prot |-> 1, payload |-> Bytes(4)],
            [dst |-> 2, src |-> 0, prot |-> 2, payload |-> Bytes(62)],
            [dst |-> 255, src |-> 2, prot |-> 3, payload |-> Bytes(0)],
            [dst |-> 3, src |-> 0, prot |-> 2, payload |-> Bytes(9)]}
MCToSend == {[dst |-> 0, prot |-> 4, payload |-> Bytes(0)],
             [dst |-> 255, prot |-> 5, payload |-> Bytes(62)]}
MCAddresses == {0, 2}
MCCuts == {1, 3, 20}

\* Memory is read out complete and in order, by requests of any length: an
\* answer never moves the reader to an offset that gets none.
Memory == [addr \in 0 .. 120 |-> addr]
ASSUME FirmwareReadsOut ==
    \A offset \in {0, 4, 12}, length \in 0 .. 100 :
        ReadOut(offset, length, Memory) = [i \in 1 .. length |-> Memory[offset + i - 1]]

\* What the server sends fits the radio's buffer.
ASSUME FirmwareFits == Fields + PayloadSize + 4 <= RADIO_FIFO_DEPTH
-----------------------------------------------------------------------------
\* RadioDriver tells registers by their names: no two have one address, none is the
\* FIFO's, and none has the bit that says it is written.
Addressed == Registers \cup {"IrqFlags2", "FifoThresh", "NodeAddress", "BroadcastAddress"}
Address(r) == Bus!RegisterAddress[r]
ASSUME RegistersApart ==
    /\ \A r \in Addressed : Address(r) \in 1 .. 127
    /\ \A r, s \in Addressed : Address(r) = Address(s) => r = s

\* A register that was set is read back, and nothing else has changed: not
\* another register, not the FIFO, and the chip is left unselected.
Contents == [addr \in 1 .. 127 |-> addr % 7]
AtRest == Bus!Idle(Contents, <<1, 2>>)
ASSUME SetAndGet ==
    \A r \in Addressed, val \in {0, 1, 127, 128, 255} :
        LET set == Bus!radio_set(AtRest, Address(r), val)
            get == Bus!radio_get(set, Address(r))
        IN /\ get.val = val
           /\ \A bus \in {set, get.bus} :
                  /\ bus.regs = [Contents EXCEPT ![Address(r)] = val]
                  /\ bus.fifo = <<1, 2>> /\ ~bus.selected

\* What radioSend loads is what radioUnloadPacket gets out of the chip that
\* receives it: every byte, once, in order, and no more.
ASSUME FramesCross ==
    \A n \in 0 .. 16 :
        LET pkt      == [dst |-> 2, src |-> 0, prot |-> 2, payload |-> [i \in 1 .. n |-> 255 - i]]
            loaded   == Bus!LoadFifo(Bus!Idle(Contents, <<>>), Frame(pkt))
            unloaded == Bus!UnloadFifo(Bus!Idle(Contents, loaded.fifo))
        IN /\ loaded.regs = Contents /\ unloaded.bus.regs = Contents
           /\ unloaded.frame = Frame(pkt) /\ unloaded.bus.fifo = <<>>
-----------------------------------------------------------------------------
\* The values published with the hash, for keys of every length modulo 4.
ASSUME KnownHashes ==
    LET H(key) == MurmurHash3_x86_32(key, <<0, 0>>)
    IN /\ H(<<>>) = <<0, 0>> /\ MurmurHash3_x86_32(<<>>, <<0, 1>>) = <<\h514E, \h28B7>>
       /\ H(<<33>>) = <<\h7266, \h1CF4>> /\ H(<<33, 67>>) = <<\hA0F7, \hB07A>>
       /\ H(<<33, 67, 101>>) = <<\h7E4A, \h8634>>
       /\ H(<<33, 67, 101, 135>>) = <<\hF55B, \h516B>>
       /\ H(<<255, 255, 255, 255>>) = <<\h7629, \h3B50>>
       /\ MurmurHash3_x86_32(<<33, 67, 101, 135>>, <<\h5082, \hEDEE>>) = <<\h2362, \hF9DE>>

\* Two keys that differ in one word, wherever it is, have different hashes: a piece
\* of firmware with one word damaged never passes for the right one.
Damaged(place) == {[i \in 1 .. 11 |-> IF i \in place .. place + 2 THEN word[i - place] ELSE i] :
                       word \in [0 .. 2 -> {0, 1, 128, 255}]}
ASSUME OneWordTells ==
    \A place \in {1, 2, 5, 9} :
        Cardinality({MurmurHash3_x86_32(key, <<\hB62A, \h238C>>) : key \in Damaged(place)})
            = Cardinality(Damaged(place))
=============================================================================
