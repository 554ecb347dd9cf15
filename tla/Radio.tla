------------------------------- MODULE Radio -------------------------------
(***************************************************************************)
(* The radio driver (src/src/radio.c) of every node, and the chip it       *)
(* drives, which is external: a buffer for one packet, which is used to    *)
(* send as well, and a filter for the node's address and the broadcast     *)
(* address.  The air takes no time and may lose a packet for any of the    *)
(* nodes; a packet is delayed by staying in a buffer until it is polled,   *)
(* and repeated by a node that sends while it is there.                    *)
(***************************************************************************)
EXTENDS Integers, Sequences

CONSTANT Nodes

VARIABLES address,  \* node -> its address
          handlers, \* node -> the protocols of its handler table, in order
          fifo      \* node -> the packet in its chip, or NoPacket

NoPacket == [prot |-> "none"] \* an empty buffer

radio == <<address, handlers, fifo>>

RADIO_BROADCAST_ADDRESS == 255
StartAddress == 1 \* what radioStart sets

\* Mutant: the chip keeps the address it had.
RadioStartKeepsAddress(node) ==
    fifo' = [fifo EXCEPT ![node] = NoPacket] /\ UNCHANGED address

\* radioStart: the buffer is drained.
RadioStart(node) == /\ address' = [address EXCEPT ![node] = StartAddress]
                    /\ fifo' = [fifo EXCEPT ![node] = NoPacket]

\* Mutant: an existing handler is not looked for.
SetHandlerAppends(table, prot) == Append(table, prot)

\* radioSetHandler: an existing entry is replaced, else one is added.  There is
\* one function per protocol, and the size of the table is not looked at.
SetHandler(table, prot) ==
    IF \E i \in 1 .. Len(table) : table[i] = prot THEN table ELSE Append(table, prot)

\* CONFIG_WHITE: the chip keeps packets for the node and for everybody.
Accepts(node, pkt) == pkt.dst \in {address[node], RADIO_BROADCAST_ADDRESS}

\* radioSend: out of reception, load, transmit, and back.  What is loaded comes
\* behind a packet that still waits in the buffer, and the chip sends the first one;
\* unless it empties the buffer as it leaves reception (both as in RadioPort).  Of
\* the nodes whose buffer is empty and that accept what is sent any may miss it, but
\* those in "sure".
CanHear(node, pkt) == {n \in Nodes \ {node} : fifo[n] = NoPacket /\ Accepts(n, pkt)}
OnAir(node, pkt) == {pkt} \cup ({fifo[node]} \ {NoPacket})
RadioSend(node, pkt, sure) ==
    \E sent \in OnAir(node, pkt) : \E got \in SUBSET CanHear(node, sent) :
        /\ sure \subseteq got
        /\ fifo' = [n \in Nodes |-> IF n = node THEN NoPacket
                                    ELSE IF n \in got THEN sent ELSE fifo[n]]

\* radioPoll, radioUnloadPacket: the packet leaves the buffer ...
Unload(node) == fifo[node] # NoPacket /\ fifo' = [fifo EXCEPT ![node] = NoPacket]

\* ... and is given to the handler of its protocol, if there is one.
Handled(node, prot) == /\ fifo[node].prot = prot
                       /\ \E i \in 1 .. Len(handlers[node]) : handlers[node][i] = prot
Unhandled(node) == \A i \in 1 .. Len(handlers[node]) : handlers[node][i] # fifo[node].prot
=============================================================================
