------------------------------ MODULE UsbLine ------------------------------
(***************************************************************************)
(* How low-speed USB puts a packet on the line, one symbol per bit time:   *)
(* the sync pattern, then a 1 keeps the line and a 0 flips it, after six   *)
(* ones in a row (the last bit of the sync pattern is the first of them)   *)
(* one flip is stuffed in, also at the end of the packet, and the packet   *)
(* ends with SE0 SE0 J.  A sender may stop at any time.                    *)
(***************************************************************************)
EXTENDS Integers, Sequences

CONSTANT Packets \* packets as sequences of bits, first bit first

VARIABLES packet, \* the packet on the line
          phase,  \* "sync", "data", "se0", "rest", "idle"
          sent,   \* symbols (sync) or bits (data) sent
          ones,   \* ones since the last flip
          line    \* the symbol on the line

vars == <<packet, phase, sent, ones, line>>

SyncPattern == <<"K", "J", "K", "J", "K", "J", "K", "K">>
Flip(s) == IF s = "J" THEN "K" ELSE "J"
MaxOnes == 6

Init == /\ packet \in Packets
        /\ phase = "sync" /\ sent = 0 /\ ones = 1 /\ line = "J"

Sync == /\ phase = "sync"
        /\ line' = SyncPattern[sent + 1]
        /\ IF sent + 1 = 8 THEN phase' = "data" /\ sent' = 0
                           ELSE phase' = "sync" /\ sent' = sent + 1
        /\ UNCHANGED <<packet, ones>>

Bit == /\ phase = "data" /\ ones < MaxOnes /\ sent < Len(packet)
       /\ IF packet[sent + 1] = 1 THEN line' = line /\ ones' = ones + 1
                                  ELSE line' = Flip(line) /\ ones' = 0
       /\ sent' = sent + 1
       /\ UNCHANGED <<packet, phase>>

Stuff == /\ phase = "data" /\ ones = MaxOnes
         /\ line' = Flip(line) /\ ones' = 0
         /\ UNCHANGED <<packet, phase, sent>>

EndOfPacket ==
    /\ \/ phase = "data" /\ ones < MaxOnes /\ sent = Len(packet)
             /\ phase' = "se0" /\ line' = "SE0"
       \/ phase = "se0" /\ phase' = "rest" /\ line' = "SE0"
       \/ phase = "rest" /\ phase' = "idle" /\ line' = "J"
    /\ UNCHANGED <<packet, sent, ones>>

Stop == /\ phase' = "idle" /\ line' = "J"
        /\ UNCHANGED <<packet, sent, ones>>

Next == Sync \/ Bit \/ Stuff \/ EndOfPacket \/ Stop

Spec == Init /\ [][Next]_vars
=============================================================================
