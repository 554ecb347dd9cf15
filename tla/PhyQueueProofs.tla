--------------------------- MODULE PhyQueueProofs ---------------------------
(***************************************************************************)
(* While the main loop keeps up, the ring of packet slots is a FIFO, for   *)
(* every number of slots and every set of packets.                         *)
(***************************************************************************)
EXTENDS PhyQueue, SequenceTheorems, TLAPS

\* The slot in process is the one just behind the tail, so the interrupt gets
\* to it last.
BehindTail == in_ptr # NoSlot => Succ(in_ptr) = tail

\* The interrupt is enabled once the ring is set up, and sees nothing until the
\* lines are released; until then the ring is empty.
StartUp ==
    /\ irq => usb \in {"listening", "started"}
    /\ usb \in {"unplugged", "listening"} => unplugged
    /\ usb # "off" => head_ptr = head
    /\ usb # "started" => head = 0 /\ tail = 0 /\ in_ptr = NoSlot

IInv == TypeOK /\ BehindTail /\ StartUp

LEMMA InitIInv == Init => IInv
<1> SUFFICES ASSUME Init PROVE IInv
  OBVIOUS
<1>1. usb \in Stages /\ irq \in BOOLEAN /\ unplugged \in BOOLEAN
  BY Zenon DEF Init, Stages
<1>2. TypeOK
  BY <1>1, QSizeAssumption, NoSlotAssumption, ZerosAssumption DEF Init, TypeOK, SlotIds
<1>3. BehindTail
  BY DEF Init, BehindTail
<1>4. ~irq /\ usb = "off"
  BY Zenon DEF Init
<1>5. StartUp
  BY <1>4 DEF Init, StartUp
<1>6. QED
  BY <1>2, <1>3, <1>5 DEF IInv

\* Packets are captured only when usbStart is through.
LEMMA CaptureStarted ==
    ASSUME IInv, irq, ~unplugged PROVE usb = "started" /\ head_ptr = head
BY DEF IInv, StartUp

LEMMA NextIInv == IInv /\ [Next]_vars => IInv'
<1> SUFFICES ASSUME IInv, [Next]_vars PROVE IInv'
  OBVIOUS
<1> USE QSizeAssumption, NoSlotAssumption DEF IInv, TypeOK, BehindTail, StartUp, SlotIds, Succ
<1>1. ASSUME NEW p \in Packets, Capture(p) PROVE IInv'
  BY <1>1, CaptureStarted DEF Capture, start
<1>2. ASSUME NEW p \in Packets, CaptureAndForget(p) PROVE IInv'
  BY <1>2, CaptureStarted DEF CaptureAndForget, start
<1>3. CASE Remove
  BY <1>3 DEF Remove, IsEmpty, start
<1>4. CASE Processed
  BY <1>4 DEF Processed, start
<1>5. CASE UsbStart
  <2>1. CASE InitQueue
    BY <2>1 DEF InitQueue, Goto, Stages
  <2>2. CASE Disconnect
    BY <2>2 DEF Disconnect, Goto, Stages, ring
  <2>3. CASE EnableIrq
    BY <2>3 DEF EnableIrq, Goto, Stages, ring
  <2>4. CASE Connect
    BY <2>4 DEF Connect, Goto, Stages, ring
  <2>5. QED
    BY <1>5, <2>1, <2>2, <2>3, <2>4 DEF UsbStart
<1>6. CASE UNCHANGED vars
  BY <1>6 DEF vars, start, ring
<1>7. QED
  BY <1>1, <1>2, <1>3, <1>4, <1>5, <1>6 DEF Next

\* The inductive invariant of the ring.
THEOREM Invariance == Spec => []IInv
BY InitIInv, NextIInv, PTL DEF Spec

\* The indices of the ring (grainuum.h:249-281) stay inside it and every slot
\* holds a packet, also when captures overrun the loop.
THEOREM TypeCorrect == Spec => []TypeOK
<1>1. IInv => TypeOK
  BY DEF IInv
<1>2. QED
  BY <1>1, Invariance, PTL

\* The interrupt never captures through the pointer's first value or away from
\* the head slot.
THEOREM CapturesInTheRing == Spec => []CapturesIntoHead
<1>1. IInv => CapturesIntoHead
  BY CaptureStarted DEF CapturesIntoHead
<1>2. QED
  BY <1>1, Invariance, PTL

\* A capture that finds room before the slot in process never writes into it.
LEMMA CaptureElsewhere ==
    ASSUME IInv, MaxPending < QSize, Pending < MaxPending, in_ptr # NoSlot
    PROVE  in_ptr # head
BY QSizeAssumption, MaxPendingAssumption, NoSlotAssumption
   DEF IInv, TypeOK, BehindTail, SlotIds, Succ, Pending

\* A packet in process is not disturbed by the interrupts that come meanwhile.
THEOREM Reentrant ==
    ASSUME MaxPending < QSize PROVE Spec => ProcessingIsReentrant
<1>1. IInv /\ [Next]_vars =>
        [in_ptr # NoSlot /\ in_ptr' = in_ptr => slots'[in_ptr] = slots[in_ptr]]_vars
  <2> SUFFICES ASSUME IInv, Next, in_ptr # NoSlot, in_ptr' = in_ptr
               PROVE  slots'[in_ptr] = slots[in_ptr]
    OBVIOUS
  <2>1. ASSUME NEW p \in Packets, Capture(p) \/ CaptureAndForget(p)
        PROVE  slots'[in_ptr] = slots[in_ptr]
    <3>1. in_ptr # head /\ head_ptr = head
      BY <2>1, CaptureElsewhere, CaptureStarted DEF Capture, CaptureAndForget
    <3>2. QED
      BY <2>1, <3>1 DEF Capture, CaptureAndForget, IInv, TypeOK
  <2>2. CASE Remove \/ Processed
    BY <2>2 DEF Remove, Processed
  <2>3. CASE UsbStart
    BY <2>3 DEF UsbStart, InitQueue, Disconnect, EnableIrq, Connect, ring
  <2>4. QED
    BY <2>1, <2>2, <2>3 DEF Next
<1>2. QED
  BY <1>1, Invariance, PTL DEF Spec, ProcessingIsReentrant

-----------------------------------------------------------------------------
(* The refinement. *)

\* Waiting reads as the sequence of the slots from tail on.
WaitingShape ==
    /\ Pending \in Nat /\ Pending < QSize
    /\ \A i \in 1 .. Pending : SlotAt(i) \in SlotIds
    /\ Waiting \in Seq(Packets) /\ Len(Waiting) = Pending
    /\ \A i \in 1 .. Pending : Waiting[i] = slots[SlotAt(i)]

LEMMA WaitingIsSeq == IInv => WaitingShape
<1> SUFFICES ASSUME IInv PROVE WaitingShape
  OBVIOUS
<1> USE QSizeAssumption DEF IInv, TypeOK, SlotIds
<1>1. Pending \in Nat /\ Pending < QSize
  BY DEF Pending
<1>2. \A i \in 1 .. Pending : SlotAt(i) \in SlotIds
  BY <1>1 DEF SlotAt
<1>3. Waiting \in [1 .. Pending -> Packets]
  BY <1>2 DEF Waiting
<1>4. Waiting \in Seq(Packets) /\ Len(Waiting) = Pending
  BY <1>1, <1>3
<1>5. QED
  BY <1>1, <1>2, <1>4 DEF Waiting, WaitingShape

LEMMA WaitingIsSeqNext == IInv' => WaitingShape'
BY WaitingIsSeq, PTL

LEMMA CaptureIsPut ==
    ASSUME IInv, IInv', MaxPending < QSize, NEW p \in Packets, Capture(p)
    PROVE  Fifo!Put(p)
<1> USE QSizeAssumption, MaxPendingAssumption
<1>1. /\ Pending < MaxPending /\ head' = Succ(head) /\ tail' = tail /\ in_ptr' = in_ptr
      /\ slots' = [slots EXCEPT ![head] = p]
      /\ head \in SlotIds /\ tail \in SlotIds /\ slots \in [SlotIds -> Packets]
  BY CaptureStarted DEF Capture, IInv, TypeOK
<1>2. WaitingShape /\ WaitingShape'
  BY WaitingIsSeq, WaitingIsSeqNext
<1>3. Pending \in Nat /\ Pending' = Pending + 1
  BY <1>1, <1>2 DEF Pending, Succ, SlotIds
<1>4. \A i \in 1 .. Pending + 1 : (SlotAt(i))' = SlotAt(i)
  BY <1>1 DEF SlotAt
<1>5. SlotAt(Pending + 1) = head /\ \A i \in 1 .. Pending : SlotAt(i) # head
  BY <1>1, <1>3 DEF SlotAt, Pending, SlotIds
<1>6. Waiting' = Append(Waiting, p)
  <2>1. Len(Waiting') = Len(Append(Waiting, p))
    BY <1>2, <1>3, AppendProperties DEF WaitingShape
  <2>2. ASSUME NEW i \in 1 .. Pending + 1 PROVE Waiting'[i] = Append(Waiting, p)[i]
    <3>1. Waiting'[i] = slots'[SlotAt(i)]
      BY <1>2, <1>3, <1>4 DEF WaitingShape
    <3>2. CASE i = Pending + 1
      BY <1>1, <1>2, <1>5, <3>1, <3>2, AppendProperties DEF WaitingShape
    <3>3. CASE i # Pending + 1
      <4>1. i \in 1 .. Pending
        BY <1>3, <3>3
      <4>2. slots'[SlotAt(i)] = Waiting[i]
        BY <1>1, <1>2, <1>5, <4>1 DEF WaitingShape
      <4>3. QED
        BY <1>2, <3>1, <4>1, <4>2, AppendProperties DEF WaitingShape
    <3>4. QED
      BY <3>2, <3>3
  <2>3. QED
    BY <1>2, <1>3, <2>1, <2>2, SeqEqual, AppendProperties DEF WaitingShape
<1>7. InProcess' = InProcess
  <2>1. in_ptr # NoSlot => in_ptr # head
    BY <1>1, CaptureElsewhere
  <2>2. QED
    BY <1>1, <2>1 DEF InProcess, IInv, TypeOK
<1>8. QED
  BY <1>6, <1>7 DEF Fifo!Put

\* What is captured and not kept leaves the queue as it is.
LEMMA ForgetIsStutter ==
    ASSUME IInv, IInv', MaxPending < QSize, NEW p \in Packets, CaptureAndForget(p)
    PROVE  UNCHANGED Fifo!fifo
<1> USE QSizeAssumption, MaxPendingAssumption
<1>1. /\ Pending < MaxPending /\ head' = head /\ tail' = tail /\ in_ptr' = in_ptr
      /\ slots' = [slots EXCEPT ![head] = p]
      /\ head \in SlotIds /\ tail \in SlotIds /\ slots \in [SlotIds -> Packets]
  BY CaptureStarted DEF CaptureAndForget, IInv, TypeOK
<1>2. WaitingShape /\ WaitingShape'
  BY WaitingIsSeq, WaitingIsSeqNext
<1>3. Pending' = Pending /\ \A i \in 1 .. Pending : (SlotAt(i))' = SlotAt(i)
  BY <1>1, <1>2 DEF Pending, SlotAt
<1>4. \A i \in 1 .. Pending : SlotAt(i) # head
  BY <1>1, <1>2 DEF SlotAt, Pending, SlotIds
<1>5. Waiting' = Waiting
  <2>1. \A i \in 1 .. Pending : Waiting'[i] = Waiting[i]
    BY <1>1, <1>2, <1>3, <1>4 DEF WaitingShape
  <2>2. QED
    BY <1>2, <1>3, <2>1, SeqEqual DEF WaitingShape
<1>6. InProcess' = InProcess
  <2>1. in_ptr # NoSlot => in_ptr # head
    BY <1>1, CaptureElsewhere
  <2>2. QED
    BY <1>1, <2>1 DEF InProcess, IInv, TypeOK
<1>7. QED
  BY <1>5, <1>6 DEF Fifo!fifo

LEMMA RemoveIsTake ==
    ASSUME IInv, IInv', Remove
    PROVE  Fifo!Take
<1> USE QSizeAssumption
<1>1. /\ head' = head /\ tail' = Succ(tail) /\ in_ptr = NoSlot /\ in_ptr' = tail
      /\ slots' = slots /\ head # tail
      /\ head \in SlotIds /\ tail \in SlotIds /\ slots \in [SlotIds -> Packets]
  BY DEF Remove, IsEmpty, IInv, TypeOK
<1>2. WaitingShape /\ WaitingShape'
  BY WaitingIsSeq, WaitingIsSeqNext
<1>3. Pending > 0 /\ Pending' = Pending - 1
  BY <1>1, <1>2 DEF Pending, Succ, SlotIds
<1>4. \A i \in 1 .. Pending - 1 : (SlotAt(i))' = SlotAt(i + 1)
  BY <1>1, <1>2 DEF SlotAt, Succ, SlotIds, WaitingShape
<1>5. SlotAt(1) = tail
  BY <1>1 DEF SlotAt, SlotIds
<1>6. Waiting # << >> /\ Head(Waiting) = slots[tail]
  BY <1>2, <1>3, <1>5 DEF WaitingShape
<1>7. Waiting' = Tail(Waiting)
  <2>1. /\ Tail(Waiting) \in Seq(Packets) /\ Len(Tail(Waiting)) = Pending - 1
        /\ \A i \in 1 .. Pending - 1 : Tail(Waiting)[i] = Waiting[i + 1]
    BY <1>2, <1>6, HeadTailProperties DEF WaitingShape
  <2>2. \A i \in 1 .. Pending - 1 : Waiting'[i] = Waiting[i + 1]
    BY <1>1, <1>2, <1>3, <1>4 DEF WaitingShape
  <2>3. QED
    BY <1>2, <1>3, <2>1, <2>2, SeqEqual DEF WaitingShape
<1>8. InProcess = NoSlot /\ InProcess' = slots[tail]
  BY <1>1, NoSlotAssumption DEF InProcess, SlotIds
<1>9. QED
  BY <1>6, <1>7, <1>8 DEF Fifo!Take

LEMMA ProcessedIsDone ==
    ASSUME IInv, Processed
    PROVE  Fifo!Done
<1>1. /\ head' = head /\ tail' = tail /\ slots' = slots
      /\ in_ptr \in SlotIds /\ in_ptr # NoSlot /\ in_ptr' = NoSlot
      /\ slots[in_ptr] \in Packets
  BY DEF Processed, IInv, TypeOK
<1>2. Waiting' = Waiting
  BY <1>1 DEF Waiting, Pending, SlotAt
<1>3. QED
  BY <1>1, <1>2, NoSlotAssumption DEF InProcess, Fifo!Done

\* The ring of slots is a FIFO of packets with one packet in process.
THEOREM FifoRefinement ==
    ASSUME MaxPending < QSize PROVE Spec => ImplementsFifo
<1>1. Init => Fifo!Init
  BY QSizeAssumption DEF Init, Fifo!Init, Waiting, Pending, InProcess
<1>2. IInv /\ IInv' /\ [Next]_vars => [Fifo!Next]_(Fifo!fifo)
  <2> SUFFICES ASSUME IInv, IInv', [Next]_vars PROVE [Fifo!Next]_(Fifo!fifo)
    OBVIOUS
  <2>1. ASSUME NEW p \in Packets, Capture(p) PROVE Fifo!Next
    BY <2>1, CaptureIsPut DEF Fifo!Next
  <2>2. ASSUME NEW p \in Packets, CaptureAndForget(p) PROVE UNCHANGED Fifo!fifo
    BY <2>2, ForgetIsStutter
  <2>3. CASE Remove
    BY <2>3, RemoveIsTake DEF Fifo!Next
  <2>4. CASE Processed
    BY <2>4, ProcessedIsDone DEF Fifo!Next
  <2>5. CASE UsbStart \/ UNCHANGED vars
    <3>1. UNCHANGED <<head, tail, slots, in_ptr>>
      BY <2>5 DEF UsbStart, InitQueue, Disconnect, EnableIrq, Connect, Goto, vars, ring,
                  IInv, StartUp
    <3>2. QED
      BY <3>1 DEF Fifo!fifo, Waiting, Pending, SlotAt, InProcess
  <2>6. QED
    BY <2>1, <2>2, <2>3, <2>4, <2>5 DEF Next
<1>3. QED
  BY <1>1, <1>2, Invariance, PTL DEF Spec, ImplementsFifo, Fifo!Spec
=============================================================================
