----------------------------- MODULE RadioPort -----------------------------
(***************************************************************************)
(* What the radio driver promises the program of one node.  Started, it    *)
(* has the address 1, keeps one packet that is for the node or for         *)
(* everybody, and hands it out once and unchanged.  What the program sends *)
(* goes on the air unchanged if no packet waits or is arriving.  If one    *)
(* waits, that one is sent again instead; if one is arriving, there is no  *)
(* telling what is sent.                                                   *)
(***************************************************************************)
CONSTANTS Packets,   \* [dst, src, prot, payload]
          Addresses,
          Broadcast,
          StartAddress,
          NoAddress, \* the address while the radio is not started
          NoPacket,
          Garbled    \* bytes that are no packet

VARIABLES address, \* the node's address
          busy,    \* a packet is arriving
          buffer,  \* the packet not yet fetched
          given,   \* the last packet handed to a handler
          onair    \* the last packet sent

port == <<address, busy, buffer, given, onair>>

up == address # NoAddress

Init == /\ address = NoAddress /\ busy = FALSE /\ buffer = NoPacket
        /\ given = NoPacket /\ onair = NoPacket

Start == /\ ~up /\ address' = StartAddress
         /\ UNCHANGED <<busy, buffer, given, onair>>

Restart == /\ address' = NoAddress /\ busy' = FALSE /\ buffer' = NoPacket
           /\ UNCHANGED <<given, onair>>

Begin == /\ up /\ ~busy /\ buffer = NoPacket /\ busy' = TRUE
         /\ UNCHANGED <<address, buffer, given, onair>>

Hear(pkt) == /\ busy /\ pkt.dst \in {address, Broadcast}
             /\ busy' = FALSE /\ buffer' = pkt
             /\ UNCHANGED <<address, given, onair>>

\* An arriving packet is not for the node or is damaged, or leaving reception
\* empties the chip.
Lose == /\ busy' = FALSE /\ buffer' = NoPacket
        /\ UNCHANGED <<address, given, onair>>

HandOut == /\ buffer # NoPacket /\ given' = buffer /\ buffer' = NoPacket
           /\ UNCHANGED <<address, busy, onair>>

SetAddress == /\ up /\ address' \in Addresses
              /\ UNCHANGED <<busy, buffer, given, onair>>

Send(pkt) == /\ up /\ pkt.src = address
             /\ onair' \in IF busy THEN Packets \cup {Garbled}
                           ELSE IF buffer = NoPacket THEN {pkt} ELSE {buffer}
             /\ busy' = FALSE /\ buffer' = NoPacket
             /\ UNCHANGED <<address, given>>

Next == \/ Start \/ Restart \/ Begin \/ Lose \/ HandOut \/ SetAddress
        \/ \E pkt \in Packets : Hear(pkt) \/ Send(pkt)

Spec == Init /\ [][Next]_port
=============================================================================
