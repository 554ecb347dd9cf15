----------------------------- MODULE PacketFifo -----------------------------
(***************************************************************************)
(* What the queue between the USB interrupt and the main loop promises:    *)
(* packets are processed once each, in the order they were captured, and   *)
(* the packet being processed does not change under the state machine.     *)
(* PhyQueue implements it while the main loop keeps up; RxDongle builds    *)
(* on it.                                                                  *)
(***************************************************************************)
EXTENDS Sequences

CONSTANTS Packets,   \* what the interrupt may capture and keep
          NoPacket   \* no packet is being processed

VARIABLES queue,     \* captured and not yet taken
          current    \* the packet grainuumProcess is working on

fifo == <<queue, current>>

Init == queue = << >> /\ current = NoPacket

\* The interrupt keeps a packet.
Put(p) == queue' = Append(queue, p) /\ UNCHANGED current

\* The main loop starts on the oldest packet.
Take == /\ current = NoPacket
        /\ queue # << >>
        /\ current' = Head(queue)
        /\ queue' = Tail(queue)

\* grainuumProcess returns.
Done == current # NoPacket /\ current' = NoPacket /\ UNCHANGED queue

Next == (\E p \in Packets : Put(p)) \/ Take \/ Done

Spec == Init /\ [][Next]_fifo
=============================================================================
