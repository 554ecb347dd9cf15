------------------------------ MODULE PhyQueue ------------------------------
(***************************************************************************)
(* phy_queue of src/hidusb.c: the ring of packet slots the USB interrupt   *)
(* (grainuumCaptureI) fills and the main loop (process_next_usb_event)     *)
(* empties, from usbStart on.  Indices count slots where the code counts   *)
(* bytes.                                                                  *)
(*                                                                         *)
(* The macros test for "empty" but never for "full", and the interrupt     *)
(* writes into the head slot whatever it captures, also what it does not   *)
(* keep.  The only protection is that the main loop keeps up: a capture    *)
(* starts only with fewer than MaxPending packets waiting.                 *)
(***************************************************************************)
EXTENDS Integers, Sequences

CONSTANTS QSize,       \* slots in the ring (4 in hidusb.c)
          Packets,     \* packet contents the interrupt may capture
          NoSlot,      \* no slot is being processed
          Zeros,       \* what a slot holds before its first use (.bss)
          MaxPending   \* how far behind the main loop may be after a capture

ASSUME QSizeAssumption == QSize \in Nat /\ QSize > 1
ASSUME NoSlotAssumption == NoSlot \notin Packets /\ NoSlot \notin 0 .. QSize - 1
ASSUME ZerosAssumption == Zeros \in Packets
ASSUME MaxPendingAssumption == MaxPending \in Nat

VARIABLES usb,       \* how far usbStart is
          irq,       \* the interrupt of the lines is enabled
          unplugged, \* the device drives both lines low
          head_ptr,  \* phy_queue_head_ptr: slot the interrupt writes, or NoSlot
          head,      \* slot captured next
          tail,      \* slot the main loop takes next
          slots,     \* slot contents
          in_ptr     \* slot grainuumProcess is reading, or NoSlot

ring == <<head_ptr, head, tail, slots, in_ptr>>
start == <<usb, irq, unplugged>>
vars == <<start, ring>>

Stages == {"off", "ready", "unplugged", "listening", "started"}

SlotIds == 0 .. QSize - 1

\* Mutant: the wrap is one slot early.
SuccEarly(i) == IF i + 1 >= QSize - 1 THEN 0 ELSE i + 1

\* The next slot round the ring: += element size, 0 past the end.
Succ(i) == IF i + 1 >= QSize THEN 0 ELSE i + 1

IsEmpty == head = tail

\* What head and tail say is waiting.  A full ring looks empty.
Pending == IF head >= tail THEN head - tail ELSE head + QSize - tail

\* The pointer is NULL, as all of .bss.
Init == /\ usb = "off" /\ irq = FALSE /\ unplugged = FALSE
        /\ head_ptr = NoSlot
        /\ head = 0
        /\ tail = 0
        /\ slots = [i \in SlotIds |-> Zeros]
        /\ in_ptr = NoSlot

Goto(from, to) == usb = from /\ usb' = to

\* grainuumInit: GRAINUUM_BUFFER_INIT.
InitQueue == /\ Goto("off", "ready")
             /\ head' = 0 /\ tail' = 0 /\ head_ptr' = 0
             /\ UNCHANGED <<irq, unplugged, slots, in_ptr>>

\* Both lines driven low, "to simulate unplug".
Disconnect == Goto("ready", "unplugged") /\ unplugged' = TRUE /\ UNCHANGED <<irq, ring>>

EnableIrq == Goto("unplugged", "listening") /\ irq' = TRUE /\ UNCHANGED <<unplugged, ring>>

\* The lines are inputs again.
Connect == Goto("listening", "started") /\ unplugged' = FALSE /\ UNCHANGED <<irq, ring>>

\* Mutant: the interrupt enabled before the ring is set up, and nothing unplugged.
UsbStartIrqFirst == \/ Goto("off", "listening") /\ irq' = TRUE /\ UNCHANGED <<unplugged, ring>>
                    \/ /\ Goto("listening", "started")
                       /\ head' = 0 /\ tail' = 0 /\ head_ptr' = 0
                       /\ UNCHANGED <<irq, unplugged, slots, in_ptr>>

\* usbStart, in its order.
UsbStart == InitQueue \/ Disconnect \/ EnableIrq \/ Connect

\* A SETUP, OUT, ACK or DATA packet: read into the head slot, then kept by
\* grainuumReceivePacket.
Capture(p) ==
    /\ irq /\ ~unplugged /\ Pending < MaxPending
    /\ slots' = [slots EXCEPT ![head_ptr] = p]
    /\ head' = Succ(head)
    /\ head_ptr' = head'
    /\ UNCHANGED <<start, tail, in_ptr>>

\* An IN token, or a packet that does not decode: the samples are in the head
\* slot, but head stays.
CaptureAndForget(p) ==
    /\ irq /\ ~unplugged /\ Pending < MaxPending
    /\ slots' = [slots EXCEPT ![head_ptr] = p]
    /\ UNCHANGED <<start, head_ptr, head, tail, in_ptr>>

\* Mutant: the tail advanced before the packet is read from it.
RemoveAdvanceFirst ==
    /\ usb = "started" /\ in_ptr = NoSlot /\ ~IsEmpty
    /\ in_ptr' = Succ(tail)
    /\ tail' = Succ(tail)
    /\ UNCHANGED <<start, head_ptr, head, slots>>

\* process_next_usb_event: the slot is given back BEFORE it is processed.
Remove ==
    /\ usb = "started" /\ in_ptr = NoSlot /\ ~IsEmpty
    /\ in_ptr' = tail
    /\ tail' = Succ(tail)
    /\ UNCHANGED <<start, head_ptr, head, slots>>

\* grainuumProcess(usb, in_ptr) returns.
Processed ==
    /\ in_ptr # NoSlot
    /\ in_ptr' = NoSlot
    /\ UNCHANGED <<start, head_ptr, head, tail, slots>>

Next == \/ UsbStart
        \/ \E p \in Packets : Capture(p)
        \/ \E p \in Packets : CaptureAndForget(p)
        \/ Remove
        \/ Processed

Spec == Init /\ [][Next]_vars

-----------------------------------------------------------------------------
(* Properties *)

TypeOK == /\ usb \in Stages /\ irq \in BOOLEAN /\ unplugged \in BOOLEAN
          /\ head_ptr \in SlotIds \cup {NoSlot}
          /\ head \in SlotIds
          /\ tail \in SlotIds
          /\ slots \in [SlotIds -> Packets]
          /\ in_ptr \in SlotIds \cup {NoSlot}

\* Whenever the interrupt can see a packet, the pointer it captures to is that of
\* the head slot, never the NULL it starts as (usbStart sets the ring up, unplugs
\* and only then enables the interrupt, grainuum.h:257-269 keeps pointer and head
\* in step).
CapturesIntoHead == irq /\ ~unplugged => head_ptr = head

\* "Advance to the next packet (allowing us to be reentrant)" (hidusb.c:338):
\* while a packet is being processed an interrupt may capture another one
\* without disturbing it.
ProcessingIsReentrant ==
    [][in_ptr # NoSlot /\ in_ptr' = in_ptr => slots'[in_ptr] = slots[in_ptr]]_vars

\* The packets waiting, oldest first.
SlotAt(i) == IF tail + i - 1 >= QSize THEN tail + i - 1 - QSize ELSE tail + i - 1
Waiting == [i \in 1 .. Pending |-> slots[SlotAt(i)]]

InProcess == IF in_ptr = NoSlot THEN NoSlot ELSE slots[in_ptr]

\* The ring is a FIFO of packets with one packet in process.
Fifo == INSTANCE PacketFifo WITH NoPacket <- NoSlot,
                                 queue <- Waiting, current <- InProcess

ImplementsFifo == Fifo!Spec
=============================================================================
