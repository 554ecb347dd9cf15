--------------------------- MODULE RxDongleProofs ---------------------------
(***************************************************************************)
(* What the receiver keeps true whatever the host asks, whenever it asks   *)
(* it, and whatever gets lost on the wire: for every set of requests and   *)
(* faults and every number of reports and of packets in the queue.         *)
(***************************************************************************)
EXTENDS RxDongle, SequenceTheorems, FiniteSetTheorems, TLAPS

\* A transfer is set up before its first packet is built, and a packet is
\* queued for as long as it is built.
TransferInv ==
    /\ data_out = NULL => data_out_left = 0 /\ data_out_max = 0
    /\ pc = "tx" => data_out # NULL /\ ~packet_queued
    /\ pc \in {"fill", "queue", "size", "epnum"} => data_out # NULL /\ packet_queued
    /\ TransferHasPacket

\* A report to be sent exists, and SETUP carries one of the host's requests.
SourceInv == /\ ready => kbd >= 1
             /\ bus = "setup" => req \in Requests

IInv == TypeOK /\ TransferInv /\ SourceInv /\ OutBufferFresh /\ OutRingNeverFills

LEMMA InitIInv == Init => IInv
BY NullAssumption, BoundsAssumption
   DEF Init, DeviceInit, IInv, TypeOK, TransferInv, TransferHasPacket, SourceInv,
       OutBufferFresh, OutRingNeverFills, Endpoints, Packets, NUM_BUFFERS, TransferPcs

-----------------------------------------------------------------------------
(* The host only touches the queue and, with an ACK, the size in the queue. *)

LEMMA CaptureType ==
    ASSUME TypeOK, NEW p \in Packets, Capture(p)
    PROVE  queue' \in Seq(Packets) /\ UNCHANGED phy
BY DEF TypeOK, Capture

LEMMA TokenIsPacket ==
    ASSUME NEW pid \in {"SETUP", "OUT"}, NEW ep \in Endpoints
    PROVE  Token(pid, ep) \in Packets
BY DEF Packets

LEMMA DataIsPacket ==
    ASSUME NEW pid \in {"DATA0", "DATA1"}, NEW body \in Requests \cup {NULL}
    PROVE  Data(pid, body) \in Packets
BY DEF Packets

\* What a step of the host can do to the device.
HostEffect == /\ UNCHANGED <<program, main, queued_epnum, packet>>
              /\ queue' \in Seq(Packets)
              /\ queued_size' \in {queued_size, 0}
              /\ bus' = "setup" => req' \in Requests

LEMMA HostStep == ASSUME IInv, Host PROVE HostEffect
<1> USE DEF IInv, SourceInv, HostEffect
<1>0. UNCHANGED <<program, main>> /\ queue \in Seq(Packets)
  BY DEF Host, TypeOK
<1>1. ASSUME NEW r \in Requests, HostSetup(r) PROVE HostEffect
  <2>1. Token("SETUP", 0) \in Packets
    BY TokenIsPacket DEF Endpoints
  <2>2. queue' \in Seq(Packets) /\ UNCHANGED phy
    BY <1>0, <1>1, <2>1, CaptureType DEF HostSetup, SendToken, NotSeen
  <2>3. QED
    BY <1>0, <1>1, <2>2 DEF HostSetup, phy
<1>2. ASSUME NEW ep \in Endpoints, HostOut(ep) PROVE HostEffect
  <2>1. Token("OUT", ep) \in Packets
    BY TokenIsPacket
  <2>2. queue' \in Seq(Packets) /\ UNCHANGED phy
    BY <1>0, <1>2, <2>1, CaptureType DEF HostOut, SendToken, NotSeen
  <2>3. QED
    BY <1>0, <1>2, <2>2 DEF HostOut, phy
<1>3. ASSUME NEW ep \in Endpoints, HostIn(ep) PROVE HostEffect
  BY <1>0, <1>3 DEF HostIn, phy
<1>4. CASE HostSetupData
  <2>1. Data("DATA0", req) \in Packets
    BY <1>4, DataIsPacket DEF HostSetupData
  <2>2. queue' \in Seq(Packets) /\ UNCHANGED phy /\ bus' = "idle"
    BY <1>0, <1>4, <2>1, CaptureType DEF HostSetupData, DataSent, NotSeen
  <2>3. QED
    BY <1>0, <2>2 DEF phy
<1>5. CASE HostOutData0
  <2>1. Data("DATA1", NULL) \in Packets
    BY DataIsPacket
  <2>2. queue' \in Seq(Packets) /\ UNCHANGED phy /\ bus' = "idle"
    BY <1>0, <1>5, <2>1, CaptureType DEF HostOutData0, DataSent, NotSeen
  <2>3. QED
    BY <1>0, <2>2 DEF phy
<1>6. CASE HostOutData1
  <2>1. Data(DataPid(out_toggle), NULL) \in Packets
    BY DataIsPacket DEF DataPid
  <2>2. queue' \in Seq(Packets) /\ UNCHANGED phy /\ bus' = "idle"
    BY <1>0, <1>6, <2>1, CaptureType DEF HostOutData1, DataSent, NotSeen
  <2>3. QED
    BY <1>0, <2>2 DEF phy
<1>7. CASE HostAck
  <2>1. Ack \in Packets
    BY DEF Packets
  <2>2. queue' \in Seq(Packets) /\ queued_size' \in {queued_size, 0}
        /\ UNCHANGED <<queued_epnum, packet>> /\ bus' = "idle"
    BY <1>0, <1>7, <2>1 DEF HostAck, CaptureAck, NotSeen, phy
  <2>3. QED
    BY <1>0, <2>2
<1>8. CASE HostAbort
  BY <1>0, <1>8 DEF HostAbort, phy
<1>9. QED
  BY <1>1, <1>2, <1>3, <1>4, <1>5, <1>6, <1>7, <1>8 DEF Host, HostData

LEMMA HostIInv == IInv /\ Host => IInv'
<1> SUFFICES ASSUME IInv, Host PROVE IInv'
  OBVIOUS
<1>1. HostEffect
  BY HostStep
<1> USE DEF IInv, HostEffect, program, main
<1>2. TypeOK'
  BY <1>1 DEF TypeOK
<1>3. TransferInv'
  BY <1>1 DEF TransferInv, TransferHasPacket
<1>4. SourceInv'
  BY <1>1 DEF SourceInv
<1>5. OutBufferFresh' /\ OutRingNeverFills'
  BY <1>1 DEF OutBufferFresh, OutRingNeverFills
<1>6. QED
  BY <1>2, <1>3, <1>4, <1>5

-----------------------------------------------------------------------------
(* grainuumProcess *)

LEMMA TakenType ==
    ASSUME TypeOK, NEW pid, Taken(pid)
    PROVE  /\ pc = "usb" /\ queue' \in Seq(Packets)
           /\ Head(queue) \in Packets /\ Head(queue).pid = pid
BY HeadTailProperties DEF TypeOK, Taken

LEMMA PacketKinds ==
    ASSUME NEW p \in Packets
    PROVE  /\ p.pid \in {"SETUP", "OUT"} => p.ep \in Endpoints
           /\ p.pid \in {"DATA0", "DATA1"} => p.body \in Requests \cup {NULL}
BY DEF Packets, Token, Data, Ack

LEMMA SetupTokenIInv == IInv /\ ProcessSetupToken /\ UNCHANGED <<main, host>> => IInv'
<1> SUFFICES ASSUME IInv, ProcessSetupToken, UNCHANGED <<main, host>> PROVE IInv'
  OBVIOUS
<1> USE DEF IInv, ProcessSetupToken, main, host, stage, phy, ep1
<1>1. pc = "usb" /\ queue' \in Seq(Packets) /\ tok_epnum' \in Endpoints
  BY TakenType, PacketKinds
<1>2. TypeOK'
  BY <1>1 DEF TypeOK, ClearTx
<1>3. TransferInv' /\ SourceInv'
  BY DEF TransferInv, TransferHasPacket, SourceInv, ClearTx, TransferPcs
<1>4. OutBufferFresh' /\ OutRingNeverFills'
  BY <1>1 DEF OutBufferFresh, OutRingNeverFills
<1>5. QED
  BY <1>2, <1>3, <1>4

LEMMA OutTokenIInv == IInv /\ ProcessOutToken /\ UNCHANGED <<main, host>> => IInv'
<1> SUFFICES ASSUME IInv, ProcessOutToken, UNCHANGED <<main, host>> PROVE IInv'
  OBVIOUS
<1> USE DEF IInv, ProcessOutToken, get_usb_ep1_buffer, main, host, stage, phy, transfer, ep1
<1>1. pc = "usb" /\ queue' \in Seq(Packets) /\ tok_epnum' \in Endpoints
  BY TakenType, PacketKinds
<1>2. TypeOK'
  BY <1>1 DEF TypeOK
<1>3. TransferInv' /\ SourceInv'
  BY <1>1 DEF TransferInv, TransferHasPacket, SourceInv, TransferPcs
<1>4. OutBufferFresh' /\ OutRingNeverFills'
  BY <1>1 DEF OutBufferFresh, OutRingNeverFills
<1>5. QED
  BY <1>2, <1>3, <1>4

LEMMA TakenDataType ==
    ASSUME TypeOK, TakenData
    PROVE  /\ pc = "usb" /\ queue' \in Seq(Packets) /\ UNCHANGED phy
           /\ Head(queue).body \in Requests \cup {NULL}
           /\ data_buffer' \in [Endpoints -> 0 .. 1]
<1>1. PICK bit \in 0 .. 1 : Taken(DataPid(1 - bit))
                            /\ data_buffer' = [data_buffer EXCEPT ![tok_epnum] = bit]
  BY DEF TakenData
<1>2. DataPid(1 - bit) \in {"DATA0", "DATA1"}
  BY DEF DataPid
<1>3. QED
  BY <1>1, <1>2, TakenType, PacketKinds DEF TakenData, TypeOK

LEMMA SetupDataIInv == IInv /\ ProcessSetupData /\ UNCHANGED <<main, host>> => IInv'
<1> SUFFICES ASSUME IInv, ProcessSetupData, UNCHANGED <<main, host>> PROVE IInv'
  OBVIOUS
<1> DEFINE setup == IF Head(queue).body = NULL THEN Unknown ELSE Head(queue).body
<1> USE DEF IInv, ProcessSetupData, main, host, stage, phy, ep1
<1>1. /\ pc = "usb" /\ queue' \in Seq(Packets) /\ UNCHANGED phy
      /\ Head(queue).body \in Requests \cup {NULL}
      /\ data_buffer' \in [Endpoints -> 0 .. 1]
  BY TakenDataType
<1>2. setup \in Sources /\ setup.len \in Nat /\ setup.wLength \in Nat
  BY <1>1, RequestsAssumption DEF Sources, Unknown
<1>3. /\ address' \in BOOLEAN
      /\ data_out_epnum' = tok_epnum /\ data_out_left' = setup.len
      /\ data_out_max' = setup.wLength /\ data_out' = [src |-> setup, off |-> 0]
      /\ packet_queued' = FALSE
  BY DEF SendData, TypeOK
<1>4. data_out' \in Pointers
  BY <1>2, <1>3 DEF Pointers
<1>5. TypeOK'
  BY <1>1, <1>2, <1>3, <1>4 DEF TypeOK, TransferPcs
<1>6. TransferInv' /\ SourceInv'
  BY <1>3, <1>4, NullAssumption DEF TransferInv, TransferHasPacket, SourceInv, TransferPcs
<1>7. OutBufferFresh' /\ OutRingNeverFills'
  BY <1>1 DEF OutBufferFresh, OutRingNeverFills
<1>8. QED
  BY <1>5, <1>6, <1>7

LEMMA OutDataIInv == IInv /\ ProcessOutData /\ UNCHANGED <<main, host>> => IInv'
<1> SUFFICES ASSUME IInv, ProcessOutData, UNCHANGED <<main, host>> PROVE IInv'
  OBVIOUS
<1> USE DEF IInv, ProcessOutData, received_data, main, host, stage, phy, transfer, NUM_BUFFERS
<1>1. /\ pc = "usb" /\ queue' \in Seq(Packets) /\ UNCHANGED phy
      /\ data_buffer' \in [Endpoints -> 0 .. 1]
  BY TakenDataType
<1>2. TypeOK'
  BY <1>1 DEF TypeOK
<1>3. TransferInv' /\ SourceInv'
  BY <1>1 DEF TransferInv, TransferHasPacket, SourceInv, TransferPcs
<1>4. OutBufferFresh' /\ OutRingNeverFills'
  BY <1>1 DEF OutBufferFresh, OutRingNeverFills, TypeOK, Endpoints
<1>5. QED
  BY <1>2, <1>3, <1>4

LEMMA IgnoreDataIInv == IInv /\ IgnoreData /\ UNCHANGED <<main, host>> => IInv'
<1> SUFFICES ASSUME IInv, IgnoreData, UNCHANGED <<main, host>> PROVE IInv'
  OBVIOUS
<1> USE DEF IInv, IgnoreData, main, host, stage, phy, transfer, token, ep1
<1>1. /\ pc = "usb" /\ queue' \in Seq(Packets) /\ UNCHANGED phy
      /\ data_buffer' \in [Endpoints -> 0 .. 1]
  BY TakenDataType
<1>2. TypeOK'
  BY <1>1 DEF TypeOK
<1>3. TransferInv' /\ SourceInv'
  BY <1>1 DEF TransferInv, TransferHasPacket, SourceInv, TransferPcs
<1>4. OutBufferFresh' /\ OutRingNeverFills'
  BY <1>1 DEF OutBufferFresh, OutRingNeverFills
<1>5. QED
  BY <1>2, <1>3, <1>4

LEMMA LastAckIInv == IInv /\ ProcessLastAck /\ UNCHANGED <<main, host>> => IInv'
<1> SUFFICES ASSUME IInv, ProcessLastAck, UNCHANGED <<main, host>> PROVE IInv'
  OBVIOUS
<1> USE DEF IInv, ProcessLastAck, main, host, stage, phy, ep1
<1>1. pc = "usb" /\ queue' \in Seq(Packets)
  BY TakenType
<1>2. data_buffer' \in [Endpoints -> 0 .. 1]
  BY DEF TypeOK
<1>3. TypeOK'
  BY <1>1, <1>2 DEF TypeOK, ClearTx
<1>4. TransferInv' /\ SourceInv'
  BY DEF TransferInv, TransferHasPacket, SourceInv, ClearTx, TransferPcs
<1>5. OutBufferFresh' /\ OutRingNeverFills'
  BY <1>1 DEF OutBufferFresh, OutRingNeverFills
<1>6. QED
  BY <1>3, <1>4, <1>5

LEMMA AckIInv == IInv /\ ProcessAck /\ UNCHANGED <<main, host>> => IInv'
<1> SUFFICES ASSUME IInv, ProcessAck, UNCHANGED <<main, host>> PROVE IInv'
  OBVIOUS
<1> USE DEF IInv, ProcessAck, LastAck, Chunk, main, host, stage, phy, token, ep1
<1>1. pc = "usb" /\ queue' \in Seq(Packets)
  BY TakenType
<1>2. data_buffer' \in [Endpoints -> 0 .. 1]
  BY DEF TypeOK
<1>3. data_out_left' \in Nat /\ data_out_max' \in Nat /\ data_out_left >= 8
  BY DEF TypeOK
<1>4. data_out' \in Pointers
  <2>1. data_out \in [src : Sources, off : Nat]
    BY <1>3 DEF TypeOK, TransferInv, Pointers
  <2>2. data_out' = [data_out EXCEPT !.off = data_out.off + 8]
    OBVIOUS
  <2>3. QED
    BY <2>1, <2>2 DEF Pointers
<1>5. TypeOK'
  BY <1>1, <1>2, <1>3, <1>4 DEF TypeOK, TransferPcs
<1>6. TransferInv' /\ SourceInv'
  BY <1>4, NullAssumption DEF TransferInv, TransferHasPacket, SourceInv, TransferPcs
<1>7. OutBufferFresh' /\ OutRingNeverFills'
  BY <1>1 DEF OutBufferFresh, OutRingNeverFills
<1>8. QED
  BY <1>5, <1>6, <1>7

-----------------------------------------------------------------------------
(* grainuum_state_process_tx *)

LEMMA TxPidType == ASSUME TypeOK PROVE TxPid \in {"DATA0", "DATA1"}
BY DEF TxPid, DataPid

LEMMA TxEndIInv == IInv /\ TxEnd /\ UNCHANGED <<main, host>> => IInv'
<1> SUFFICES ASSUME IInv, TxEnd, UNCHANGED <<main, host>> PROVE IInv'
  OBVIOUS
<1> USE DEF IInv, TxEnd, main, host, stage, token, ep1
<1>1. ~NothingToSend
  BY DEF TransferInv, NothingToSend
<1>2. /\ ClearTx /\ UNCHANGED data_out_epnum
      /\ packet' = packet \/ packet' = [packet EXCEPT !.pid = TxPid]
  BY <1>1
<1>3. TypeOK'
  BY <1>2, TxPidType DEF TypeOK, ClearTx
<1>4. TransferInv' /\ SourceInv'
  BY <1>2 DEF TransferInv, TransferHasPacket, SourceInv, ClearTx, TypeOK, TransferPcs
<1>5. OutBufferFresh' /\ OutRingNeverFills'
  BY DEF OutBufferFresh, OutRingNeverFills
<1>6. QED
  BY <1>3, <1>4, <1>5

LEMMA TxStartIInv == IInv /\ TxStart /\ UNCHANGED <<main, host>> => IInv'
<1> SUFFICES ASSUME IInv, TxStart, UNCHANGED <<main, host>> PROVE IInv'
  OBVIOUS
<1> USE DEF IInv, TxStart, main, host, stage, token, ep1
<1>1. packet' = [packet EXCEPT !.pid = TxPid]
  OBVIOUS
<1>2. TypeOK'
  BY <1>1, TxPidType DEF TypeOK, TransferPcs
<1>3. TransferInv' /\ SourceInv'
  BY DEF TransferInv, TransferHasPacket, SourceInv, TransferPcs
<1>4. OutBufferFresh' /\ OutRingNeverFills'
  BY DEF OutBufferFresh, OutRingNeverFills
<1>5. QED
  BY <1>2, <1>3, <1>4

LEMMA TxFillIInv == IInv /\ TxFill /\ UNCHANGED <<main, host>> => IInv'
<1> SUFFICES ASSUME IInv, TxFill, UNCHANGED <<main, host>> PROVE IInv'
  OBVIOUS
<1> USE DEF IInv, TxFill, main, host, stage, token, transfer, ep1
<1>1. data_out \in [src : Sources, off : Nat]
  BY DEF TypeOK, TransferInv, Pointers
<1>2. Least(Chunk, Least(data_out_left, data_out_max)) \in Nat
  BY DEF Least, Chunk, TypeOK
<1>3. TypeOK'
  BY <1>1, <1>2 DEF TypeOK, TransferPcs
<1>4. TransferInv' /\ SourceInv'
  BY DEF TransferInv, TransferHasPacket, SourceInv, TransferPcs
<1>5. OutBufferFresh' /\ OutRingNeverFills'
  BY DEF OutBufferFresh, OutRingNeverFills
<1>6. QED
  BY <1>3, <1>4, <1>5

LEMMA WriteQueueIInv ==
    IInv /\ (WriteQueue \/ WriteQueueSize \/ WriteQueueEpnum) /\ UNCHANGED <<main, host>>
    => IInv'
<1> SUFFICES ASSUME IInv, WriteQueue \/ WriteQueueSize \/ WriteQueueEpnum,
                    UNCHANGED <<main, host>>
             PROVE  IInv'
  OBVIOUS
<1> USE DEF IInv, WriteQueue, WriteQueueSize, WriteQueueEpnum,
            main, host, stage, token, transfer, ep1
<1>1. packet.len + Overhead \in Nat
  BY DEF TypeOK, Overhead
<1>2. /\ queued_size' \in Nat /\ queued_epnum' \in Endpoints
      /\ pc' \in {"ep1", "sent", "size", "epnum"}
  BY <1>1 DEF TypeOK
<1>3. TypeOK'
  BY <1>2 DEF TypeOK, TransferPcs
<1>4. TransferInv' /\ SourceInv'
  BY DEF TransferInv, TransferHasPacket, SourceInv, TransferPcs, TypeOK
<1>5. OutBufferFresh' /\ OutRingNeverFills'
  BY DEF OutBufferFresh, OutRingNeverFills
<1>6. QED
  BY <1>3, <1>4, <1>5

-----------------------------------------------------------------------------
(* The main loop *)

LEMMA UsbSendIInv == IInv /\ UsbSend /\ UNCHANGED host => IInv'
<1> SUFFICES ASSUME IInv, UsbSend, UNCHANGED host PROVE IInv'
  OBVIOUS
<1>1. /\ UNCHANGED <<queued_size, queued_epnum, packet, queue, token, data_buffer,
                     address, ep1, kbd, ready, led, bus, req>>
      /\ pc = "input" /\ ready /\ pc' = "tx" /\ after' = "sent"
  BY DEF UsbSend, host, stage, phy
<1>2. /\ data_out_epnum' = 1 /\ data_out_left' = 8 /\ data_out_max' = 8
      /\ data_out' = [src |-> Report(kbd), off |-> 0] /\ packet_queued' = FALSE
  BY DEF UsbSend, SendData, Chunk
<1>3. Report(kbd) \in Sources
  BY <1>1 DEF IInv, TypeOK, SourceInv, Sources
<1>4. data_out' \in Pointers
  BY <1>2, <1>3 DEF Pointers
<1>5. TypeOK'
  <2>1. TypeOK
    BY DEF IInv
  <2>2. data_out_left' \in Nat /\ data_out_max' \in Nat /\ data_out_epnum' \in Endpoints
    BY <1>2 DEF Endpoints
  <2>3. packet_queued' \in BOOLEAN
    BY <1>2, Zenon
  <2>4. ready' \in BOOLEAN /\ address' \in BOOLEAN /\ data_buffer' \in [Endpoints -> 0 .. 1]
    BY <1>1, <2>1, Zenon DEF TypeOK
  <2>5. queue' \in Seq(Packets) /\ queued_size' \in Nat /\ queued_epnum' \in Endpoints
        /\ packet' \in [pid : {"none", "DATA0", "DATA1"}, src : Sources \cup {NULL},
                        off : Nat, len : Nat]
    BY <1>1, <2>1, Zenon DEF TypeOK
  <2>6. pc' \in {"usb", "ep1", "radio", "input", "sent"} \cup TransferPcs
        /\ after' \in {"ep1", "sent"}
    BY <1>1 DEF TransferPcs
  <2>7. QED
    BY <1>1, <1>4, <2>1, <2>2, <2>3, <2>4, <2>5, <2>6, Zenon DEF TypeOK, token, ep1
<1>6. TransferInv' /\ SourceInv'
  BY <1>1, <1>2, <1>4, NullAssumption
     DEF IInv, TransferInv, TransferHasPacket, SourceInv, TransferPcs
<1>7. OutBufferFresh' /\ OutRingNeverFills'
  BY <1>1 DEF IInv, OutBufferFresh, OutRingNeverFills, token, ep1
<1>8. QED
  BY <1>5, <1>6, <1>7 DEF IInv

LEMMA RadioPollIInv == IInv /\ RadioPoll /\ UNCHANGED host => IInv'
<1> SUFFICES ASSUME IInv, RadioPoll, UNCHANGED host PROVE IInv'
  OBVIOUS
<1>1. /\ UNCHANGED <<phy, queue, transfer, token, data_buffer, address, ep1, after,
                     led, bus, req>>
      /\ pc = "radio" /\ pc' = "input"
  BY DEF RadioPoll, host, stage
<1>2. \/ kbd < MaxReports /\ kbd' = kbd + 1 /\ ready' = TRUE
      \/ UNCHANGED <<kbd, ready>>
  BY Zenon DEF RadioPoll
<1>3. kbd' \in 0 .. MaxReports /\ ready' \in BOOLEAN /\ (ready' => kbd' >= 1)
  <2>1. kbd \in 0 .. MaxReports /\ ready \in BOOLEAN /\ (ready => kbd >= 1)
    BY Zenon DEF IInv, TypeOK, SourceInv
  <2>2. CASE kbd < MaxReports /\ kbd' = kbd + 1 /\ ready' = TRUE
    <3>1. kbd' \in 0 .. MaxReports /\ kbd' >= 1
      BY <2>1, <2>2, BoundsAssumption
    <3>2. QED
      BY <2>2, <3>1, Zenon
  <2>3. CASE UNCHANGED <<kbd, ready>>
    BY <2>1, <2>3, Zenon
  <2>4. QED
    BY <1>2, <2>2, <2>3, Zenon
<1>4. TypeOK'
  BY <1>1, <1>3 DEF IInv, TypeOK, phy, transfer, token, ep1
<1>5. TransferInv' /\ SourceInv'
  BY <1>1, <1>3
     DEF IInv, TransferInv, TransferHasPacket, SourceInv, TransferPcs, transfer
<1>6. OutBufferFresh' /\ OutRingNeverFills'
  BY <1>1 DEF IInv, OutBufferFresh, OutRingNeverFills, token, ep1
<1>7. QED
  BY <1>4, <1>5, <1>6 DEF IInv

LEMMA LoopIInv ==
    IInv /\ (NoEvent \/ DrainEp1 \/ NotSent \/ Sent) /\ UNCHANGED host => IInv'
<1> SUFFICES ASSUME IInv, NoEvent \/ DrainEp1 \/ NotSent \/ Sent, UNCHANGED host
             PROVE  IInv'
  OBVIOUS
<1> USE DEF IInv, NoEvent, DrainEp1, NotSent, Sent,
            host, main, stage, phy, token, transfer, ep1, NUM_BUFFERS
<1>1. TypeOK'
  <2>1. CASE NoEvent \/ NotSent
    BY <2>1 DEF TypeOK
  <2>2. CASE DrainEp1
    <3>1. ep1_tail' \in 0 .. 3 /\ led' \in Nat
      BY <2>2 DEF TypeOK
    <3>2. QED
      BY <2>2, <3>1 DEF TypeOK
  <2>3. CASE Sent
    BY <2>3 DEF TypeOK
  <2>4. QED
    BY <2>1, <2>2, <2>3
<1>2. TransferInv'
  BY DEF TransferInv, TransferHasPacket, TransferPcs
<1>3. SourceInv'
  BY DEF SourceInv, TypeOK
<1>4. OutBufferFresh' /\ OutRingNeverFills'
  BY DEF OutBufferFresh, OutRingNeverFills
<1>5. QED
  BY <1>1, <1>2, <1>3, <1>4

LEMMA StutterIInv == IInv /\ UNCHANGED vars => IInv'
BY DEF IInv, vars, device, main, stage, TypeOK, TransferInv, TransferHasPacket, SourceInv,
       OutBufferFresh, OutRingNeverFills

LEMMA NextIInv == IInv /\ [Next]_vars => IInv'
<1> SUFFICES ASSUME IInv, [Next]_vars PROVE IInv'
  OBVIOUS
<1>1. CASE Host
  BY <1>1, HostIInv
<1>2. CASE UsbProcess /\ UNCHANGED host
  BY <1>2, SetupTokenIInv, OutTokenIInv, SetupDataIInv, OutDataIInv, IgnoreDataIInv,
     LastAckIInv, AckIInv, TxEndIInv, TxStartIInv, TxFillIInv, WriteQueueIInv
     DEF UsbProcess, Process, ProcessTx
<1>3. CASE UsbSend /\ UNCHANGED host
  BY <1>3, UsbSendIInv
<1>4. CASE (NoEvent \/ DrainEp1 \/ RadioPoll \/ NotSent \/ Sent) /\ UNCHANGED host
  BY <1>4, LoopIInv, RadioPollIInv
<1>5. CASE UNCHANGED vars
  BY <1>5, StutterIInv
<1>6. QED
  BY <1>1, <1>2, <1>3, <1>4, <1>5 DEF Next, MainLoop

\* The inductive invariant of the receiver.
THEOREM Invariance == Spec => []IInv
BY InitIInv, NextIInv, PTL DEF Spec

\* Every variable keeps its type.
THEOREM TypeCorrect == Spec => []TypeOK
<1>1. IInv => TypeOK
  BY DEF IInv
<1>2. QED
  BY <1>1, Invariance, PTL

\* A transfer always has a packet with the interrupt or an ACK to wait for.
THEOREM TransfersHavePackets == Spec => []TransferHasPacket
<1>1. IInv => TransferHasPacket
  BY DEF IInv, TransferInv
<1>2. QED
  BY <1>1, Invariance, PTL

\* OUT data lands at the start of the buffer that is handed over next
\* (grainuum-state.c:293-303), whichever tokens and data were lost before.
THEOREM OutDataFits == Spec => []OutBufferFresh
<1>1. IInv => OutBufferFresh
  BY DEF IInv
<1>2. QED
  BY <1>1, Invariance, PTL

\* The ring of EP1 buffers, whose head advances without a look at its tail
\* (hidusb.c:293), never fills.
THEOREM OutRingHasRoom == Spec => []OutRingNeverFills
<1>1. IInv => OutRingNeverFills
  BY DEF IInv
<1>2. QED
  BY <1>1, Invariance, PTL
-----------------------------------------------------------------------------
(* LED reports, counted.  Data in the queue counts as a report if it comes *)
(* right behind an OUT token of endpoint 1; if it comes first, if such a   *)
(* token was taken before it.  Behind an ACK nobody can tell: the ACK of a *)
(* transfer's last packet makes the state machine forget the token, any    *)
(* other ACK does not.  So reports are counted twice, the Sure ones from   *)
(* below and, with those behind an ACK, the Possible ones from above.      *)

IsData(p) == p.pid \in {"DATA0", "DATA1"}
OutToken1 == Token("OUT", 1)
Sure      == {OutToken1}
Possible  == {OutToken1, Ack}

\* The data in q that follows a packet of P, or comes first if first holds.
Followers(q, first, P) ==
    {i \in 1 .. Len(q) : IsData(q[i]) /\ IF i = 1 THEN first ELSE q[i - 1] \in P}
\* Would data appended to q follow a packet of P?
Follows(q, first, P) == IF q = << >> THEN first ELSE q[Len(q)] \in P
Bit(b) == IF b THEN 1 ELSE 0

LEMMA FollowersFinite ==
    ASSUME NEW q \in Seq(Packets), NEW first \in BOOLEAN, NEW P
    PROVE  /\ IsFiniteSet(Followers(q, first, P))
           /\ Cardinality(Followers(q, first, P)) \in Nat
<1>1. IsFiniteSet(1 .. Len(q))
  BY FS_Interval
<1>2. Followers(q, first, P) \subseteq 1 .. Len(q)
  BY DEF Followers
<1>3. QED
  BY <1>1, <1>2, FS_Subset, FS_CardinalityType

LEMMA FollowersEmpty ==
    ASSUME NEW first \in BOOLEAN, NEW P
    PROVE  Cardinality(Followers(<< >>, first, P)) = 0
<1>1. Followers(<< >>, first, P) = {}
  BY DEF Followers
<1>2. QED
  BY <1>1, FS_EmptySet

LEMMA FollowersAppend ==
    ASSUME NEW q \in Seq(Packets), NEW first \in BOOLEAN, NEW P, NEW p \in Packets
    PROVE  Cardinality(Followers(Append(q, p), first, P)) =
               Cardinality(Followers(q, first, P))
               + Bit(IsData(p) /\ Follows(q, first, P))
<1> DEFINE n == Len(q) + 1
           F == Followers(q, first, P)
           G == Followers(Append(q, p), first, P)
           new == IsData(p) /\ Follows(q, first, P)
<1>1. /\ n \in Nat \ {0} /\ Len(Append(q, p)) = n /\ Append(q, p)[n] = p
      /\ \A i \in 1 .. n - 1 : Append(q, p)[i] = q[i]
      /\ q = << >> <=> n = 1
  OBVIOUS
<1>2. F \subseteq 1 .. n - 1 /\ n \notin F
  BY <1>1 DEF Followers
<1>3. \A i \in 1 .. n - 1 : i \in G <=> i \in F
  BY <1>1 DEF Followers
<1>4. n \in G <=> new
  <2>1. n # 1 => Append(q, p)[n - 1] = q[Len(q)]
    BY <1>1
  <2>2. QED
    BY <1>1, <2>1 DEF Followers, Follows
<1>5. G \subseteq 1 .. n
  BY <1>1 DEF Followers
<1>6. IsFiniteSet(F) /\ Cardinality(F) \in Nat
  BY FollowersFinite
<1>7. new \in BOOLEAN
  OBVIOUS
<1>8. /\ new => G = F \cup {n}
      /\ ~new => G = F
  <2> HIDE DEF F, G, new
  <2>1. \A i \in 1 .. n : i \in 1 .. n - 1 \/ i = n
    BY <1>1
  <2> HIDE DEF n
  <2>2. \A i \in G : i \in F \/ (i = n /\ new)
    BY <1>3, <1>4, <1>5, <2>1
  <2>3. F \subseteq G
    BY <1>2, <1>3
  <2>4. QED
    BY <1>4, <2>2, <2>3
<1> HIDE DEF n, F, G, new
<1>9. Cardinality(F \cup {n}) = Cardinality(F) + 1
  BY <1>2, <1>6, FS_AddElement
<1>10. Cardinality(G) = Cardinality(F) + Bit(new)
  <2>1. CASE new
    BY <1>8, <1>9, <2>1 DEF Bit
  <2>2. CASE ~new
    BY <1>6, <1>8, <2>2 DEF Bit
  <2>3. QED
    BY <1>7, <2>1, <2>2
<1>11. QED
  BY <1>10, Zenon DEF F, G, new

\* Without its first packet, a queue is looked at from the next one on.
LEMMA FollowersTail ==
    ASSUME NEW q \in Seq(Packets), q # << >>, NEW first \in BOOLEAN, NEW P
    PROVE  Cardinality(Followers(q, first, P)) =
               Cardinality(Followers(Tail(q), Head(q) \in P, P))
               + Bit(IsData(Head(q)) /\ first)
<1> DEFINE F == Followers(q, first, P)
           T == Followers(Tail(q), Head(q) \in P, P)
           S == {i \in F : i # 1}
           f == [i \in T |-> i + 1]
           new == IsData(Head(q)) /\ first
<1>1. /\ Len(q) \in Nat \ {0} /\ Head(q) = q[1] /\ Tail(q) \in Seq(Packets)
      /\ Len(Tail(q)) = Len(q) - 1
      /\ \A i \in 1 .. Len(q) - 1 : Tail(q)[i] = q[i + 1]
  OBVIOUS
<1>2. IsFiniteSet(T) /\ IsFiniteSet(F) /\ Cardinality(T) \in Nat
  <2>1. (Head(q) \in P) \in BOOLEAN
    OBVIOUS
  <2>2. QED
    BY <1>1, <2>1, FollowersFinite, Zenon
<1>3. \A i \in 1 .. Len(q) - 1 : i \in T <=> i + 1 \in F
  <2> SUFFICES ASSUME NEW i \in 1 .. Len(q) - 1 PROVE i \in T <=> i + 1 \in F
    OBVIOUS
  <2>1. i + 1 \in 1 .. Len(q) /\ i + 1 # 1 /\ (i + 1) - 1 = i /\ Tail(q)[i] = q[i + 1]
    BY <1>1
  <2>2. i # 1 => Tail(q)[i - 1] = q[i]
    BY <1>1
  <2>3. i \in T <=> IsData(q[i + 1]) /\ q[i] \in P
    BY <1>1, <2>1, <2>2 DEF Followers
  <2>4. i + 1 \in F <=> IsData(q[i + 1]) /\ q[i] \in P
    BY <2>1 DEF Followers
  <2>5. QED
    BY <2>3, <2>4
<1>4. T \subseteq 1 .. Len(q) - 1 /\ F \subseteq 1 .. Len(q)
  BY <1>1 DEF Followers
<1>5. f \in Bijection(T, S)
  <2>1. \A i \in T : i \in Int /\ f[i] = i + 1 /\ i + 1 \in S
    BY <1>1, <1>3, <1>4
  <2>2. f \in [T -> S]
    BY <2>1
  <2>3. \A i, j \in T : f[i] = f[j] => i = j
    BY <2>1
  <2>4. \A j \in S : \E i \in T : f[i] = j
    <3> SUFFICES ASSUME NEW j \in S PROVE \E i \in T : f[i] = j
      OBVIOUS
    <3>1. j - 1 \in 1 .. Len(q) - 1 /\ (j - 1) + 1 = j
      BY <1>1, <1>4
    <3>2. j - 1 \in T
      BY <1>3, <3>1
    <3>3. QED
      BY <2>1, <3>1, <3>2
  <2>5. QED
    BY <2>2, <2>3, <2>4 DEF Bijection, Injection, Surjection, IsInjective
<1>6. 1 \in F <=> new
  BY <1>1 DEF Followers
<1>7. 1 \notin S /\ F = IF 1 \in F THEN S \cup {1} ELSE S
  OBVIOUS
<1> HIDE DEF F, T, S, f, new
<1>8. ExistsBijection(T, S)
  BY <1>5 DEF ExistsBijection
<1>9. IsFiniteSet(S) /\ Cardinality(S) = Cardinality(T)
  BY <1>2, <1>8, FS_Bijection
<1>10. Cardinality(S \cup {1}) = Cardinality(S) + 1
  BY <1>7, <1>9, FS_AddElement
<1>11. Cardinality(F) = Cardinality(T) + Bit(new)
  <2>1. CASE new
    BY <1>2, <1>6, <1>7, <1>9, <1>10, <2>1 DEF Bit
  <2>2. CASE ~new
    BY <1>2, <1>6, <1>7, <1>9, <2>2 DEF Bit
  <2>3. QED
    BY <2>1, <2>2
<1>12. QED
  BY <1>11, Zenon DEF F, T, new

\* More data follows if the first packet does.
LEMMA FollowersFirst ==
    ASSUME NEW q \in Seq(Packets), NEW a \in BOOLEAN, NEW b \in BOOLEAN, a => b, NEW P
    PROVE  Cardinality(Followers(q, a, P)) <= Cardinality(Followers(q, b, P))
<1>1. Followers(q, a, P) \subseteq Followers(q, b, P)
  BY DEF Followers
<1>2. QED
  BY <1>1, FollowersFinite, FS_Subset
\* Is the data of the next DATA packet taken for a report?
OutTaken      == packet_type = "out" /\ tok_epnum = 1
Waiting(P)    == Cardinality(Followers(queue, OutTaken, P))
NextCounts(P) == Follows(queue, OutTaken, P)

\* What the host means the data it is about to send for, and whether the
\* device takes it for something else, because the token before it got lost.
Expected    == bus = "out" /\ bus_ep = 1
TokenMissed == /\ bus \in {"setup", "out"}
               /\ ~((NextCounts(Sure) <=> Expected) /\ (NextCounts(Possible) <=> Expected))

\* Reports that reached the main loop, the one in the EP1 ring included.
Seen == led + Bit(ep1_head # ep1_tail)

\* Reports seen and waiting are the reports the host saw acknowledged, give or
\* take one for each fault, and a lost token can still make its difference
\* when the data comes.
LedInv == /\ outs \in Nat /\ faults \in Nat
          /\ Seen + Waiting(Possible) + Bit(TokenMissed) <= outs + faults
          /\ outs + Bit(TokenMissed) <= Seen + Waiting(Sure) + faults

LEMMA BitType == ASSUME NEW b \in BOOLEAN PROVE Bit(b) \in 0 .. 1
BY DEF Bit

LEMMA WaitingType ==
    ASSUME TypeOK, NEW P
    PROVE  Waiting(P) \in Nat /\ OutTaken \in BOOLEAN /\ Seen \in Nat
<1>1. queue \in Seq(Packets) /\ OutTaken \in BOOLEAN /\ led \in Nat
  BY DEF TypeOK, OutTaken
<1>2. Waiting(P) \in Nat
  BY <1>1, FollowersFinite DEF Waiting
<1>3. QED
  BY <1>1, <1>2 DEF Seen, Bit

LEMMA AppendWaiting ==
    ASSUME TypeOK, NEW p \in Packets, queue' = Append(queue, p),
           UNCHANGED <<packet_type, tok_epnum>>, NEW P
    PROVE  /\ Waiting(P)' = Waiting(P) + Bit(IsData(p) /\ NextCounts(P))
           /\ NextCounts(P)' <=> p \in P
<1>1. queue \in Seq(Packets) /\ OutTaken \in BOOLEAN /\ OutTaken' = OutTaken
  BY DEF TypeOK, OutTaken
<1>2. Waiting(P)' = Waiting(P) + Bit(IsData(p) /\ NextCounts(P))
  <2>1. Cardinality(Followers(Append(queue, p), OutTaken, P)) =
            Waiting(P) + Bit(IsData(p) /\ NextCounts(P))
    BY <1>1, FollowersAppend, Zenon DEF Waiting, NextCounts
  <2>2. QED
    BY <1>1, <2>1, Zenon DEF Waiting
<1>3. queue' # << >> /\ queue'[Len(queue')] = p
  BY <1>1
<1>4. QED
  BY <1>2, <1>3 DEF NextCounts, Follows

\* Packets are taken without a report coming or going, but for the data of one.
LEMMA TakenWaiting ==
    ASSUME TypeOK, NEW pid, Taken(pid), UNCHANGED <<bus, bus_ep>>,
           Head(queue) # Ack => (OutTaken' <=> Head(queue) = OutToken1)
    PROVE  /\ Waiting(Sure)' >= Waiting(Sure) - Bit(IsData(Head(queue)) /\ OutTaken)
           /\ Waiting(Possible)' <= Waiting(Possible) - Bit(IsData(Head(queue)) /\ OutTaken)
           /\ Waiting(Sure)' \in Nat /\ Waiting(Possible)' \in Nat
           /\ TokenMissed' => TokenMissed
<1> DEFINE h == Head(queue)
           t == Tail(queue)
           c == Bit(IsData(h) /\ OutTaken)
           W(first, P) == Cardinality(Followers(t, first, P))
<1>1. /\ queue \in Seq(Packets) /\ queue # << >> /\ t \in Seq(Packets) /\ queue' = t
      /\ OutTaken \in BOOLEAN /\ OutTaken' \in BOOLEAN
  BY HeadTailProperties DEF TypeOK, Taken, OutTaken
<1>2. c \in 0 .. 1
  BY <1>1, BitType DEF IsData
<1>3. /\ h \in Sure <=> h = OutToken1
      /\ h \in Possible <=> h = OutToken1 \/ h = Ack
      /\ Ack # OutToken1
  BY DEF Sure, Possible, OutToken1, Token, Ack
<1>4. /\ Waiting(Sure) = W(h \in Sure, Sure) + c
      /\ Waiting(Possible) = W(h \in Possible, Possible) + c
  BY <1>1, FollowersTail DEF Waiting
<1>5. Waiting(Sure)' = W(OutTaken', Sure) /\ Waiting(Possible)' = W(OutTaken', Possible)
  BY <1>1 DEF Waiting
<1>6. /\ (h \in Sure) \in BOOLEAN /\ (h \in Sure => OutTaken')
      /\ (h \in Possible) \in BOOLEAN /\ (OutTaken' => h \in Possible)
  BY <1>1, <1>3
<1>7. /\ W(h \in Sure, Sure) <= W(OutTaken', Sure)
      /\ W(OutTaken', Possible) <= W(h \in Possible, Possible)
  BY <1>1, <1>6, FollowersFirst, Zenon
<1>8. /\ W(h \in Sure, Sure) \in Nat /\ W(OutTaken', Sure) \in Nat
      /\ W(h \in Possible, Possible) \in Nat /\ W(OutTaken', Possible) \in Nat
  BY <1>1, <1>6, FollowersFinite, Zenon
<1>9. TokenMissed' => TokenMissed
  <2>1. CASE queue' # << >>
    <3>1. queue'[Len(queue')] = queue[Len(queue)]
      BY <1>1, <2>1
    <3>2. \A P \in {Sure, Possible} : NextCounts(P)' <=> NextCounts(P)
      BY <1>1, <2>1, <3>1 DEF NextCounts, Follows
    <3>3. QED
      BY <3>2 DEF TokenMissed, Expected
  <2>2. CASE queue' = << >>
    <3>1. queue[Len(queue)] = h
      <4>1. Len(t) = Len(queue) - 1 /\ Len(queue) \in Nat /\ h = queue[1]
        BY <1>1
      <4>2. Len(t) = 0
        BY <1>1, <2>2, EmptySeq, Zenon
      <4>3. Len(queue) = 1
        BY <4>1, <4>2
      <4>4. QED
        BY <4>1, <4>3, Zenon
    <3>2. /\ NextCounts(Sure) <=> h \in Sure
          /\ NextCounts(Possible) <=> h \in Possible
          /\ NextCounts(Sure)' <=> OutTaken'
          /\ NextCounts(Possible)' <=> OutTaken'
      BY <1>1, <2>2, <3>1 DEF NextCounts, Follows
    <3>3. h = Ack => (~NextCounts(Sure) /\ NextCounts(Possible))
      BY <1>3, <3>2
    <3>4. h # Ack => /\ NextCounts(Sure) <=> NextCounts(Sure)'
                     /\ NextCounts(Possible) <=> NextCounts(Possible)'
      BY <1>3, <3>2
    <3>5. Expected' <=> Expected
      BY DEF Expected
    <3>6. ~TokenMissed /\ bus \in {"setup", "out"} =>
              /\ NextCounts(Sure) <=> Expected
              /\ NextCounts(Possible) <=> Expected
      BY DEF TokenMissed
    <3>7. TokenMissed' => /\ bus \in {"setup", "out"}
                          /\ ~(/\ NextCounts(Sure)' <=> Expected'
                               /\ NextCounts(Possible)' <=> Expected')
      BY Zenon DEF TokenMissed
    <3>8. QED
      BY <3>3, <3>4, <3>5, <3>6, <3>7
  <2>3. QED
    BY <2>1, <2>2
<1> HIDE DEF c, W
<1>10. QED
  BY <1>2, <1>4, <1>5, <1>7, <1>8, <1>9 DEF c
-----------------------------------------------------------------------------
(* The host keeps the count. *)

LEMMA InitLedInv == Init => LedInv
<1> SUFFICES ASSUME Init PROVE LedInv
  OBVIOUS
<1>1. queue = << >> /\ OutTaken = FALSE /\ bus = "idle" /\ led = 0 /\ outs = 0 /\ faults = 0
      /\ ep1_head = ep1_tail
  BY DEF Init, DeviceInit, OutTaken
<1>2. Waiting(Sure) = 0 /\ Waiting(Possible) = 0
  BY <1>1, FollowersEmpty DEF Waiting
<1>3. QED
  BY <1>1, <1>2 DEF LedInv, Seen, TokenMissed, Bit

LEMMA TokenMissedType == TokenMissed \in BOOLEAN /\ (bus = "idle" => ~TokenMissed)
BY DEF TokenMissed

\* All of the device that is counted and the host leaves alone.
counted == <<led, ep1_head, ep1_tail, packet_type, tok_epnum>>

LEMMA CountedSeen == ASSUME UNCHANGED counted PROVE Seen' = Seen /\ OutTaken' = OutTaken
BY DEF counted, Seen, OutTaken, Bit

LEMMA SentTokenLedInv ==
    ASSUME TypeOK, LedInv, NEW pid \in {"SETUP", "OUT"}, NEW ep \in Endpoints,
           bus = "idle", SendToken(pid, ep), UNCHANGED <<counted, outs>>,
           bus' = IF pid = "SETUP" THEN "setup" ELSE "out"
    PROVE  LedInv'
<1>1. /\ outs \in Nat /\ faults \in Nat /\ outs' = outs /\ Seen' = Seen
      /\ Seen + Waiting(Possible) <= outs + faults
      /\ outs <= Seen + Waiting(Sure) + faults
      /\ Seen \in Nat /\ Waiting(Sure) \in Nat /\ Waiting(Possible) \in Nat
  BY WaitingType, TokenMissedType, CountedSeen DEF LedInv, Bit
<1>2. Bit(TokenMissed') \in 0 .. 1
  BY BitType DEF TokenMissed
<1>3. CASE Fault("token") /\ NotSeen
  <2>1. Waiting(Sure)' = Waiting(Sure) /\ Waiting(Possible)' = Waiting(Possible)
    BY <1>3, CountedSeen DEF NotSeen, Waiting
  <2>2. faults' = faults + 1
    BY <1>3 DEF Fault
  <2>3. QED
    BY <1>1, <1>2, <2>1, <2>2 DEF LedInv
<1>4. CASE Capture(Token(pid, ep)) /\ NoFault
  <2> DEFINE p == Token(pid, ep)
  <2>1. p \in Packets /\ ~IsData(p) /\ queue' = Append(queue, p) /\ faults' = faults
    BY <1>4, TokenIsPacket DEF Capture, NoFault, IsData, Token
  <2>2. /\ Waiting(Sure)' = Waiting(Sure) /\ Waiting(Possible)' = Waiting(Possible)
        /\ NextCounts(Sure)' <=> p \in Sure
        /\ NextCounts(Possible)' <=> p \in Possible
    BY <1>1, <2>1, AppendWaiting DEF counted, Bit
  <2>3. p \in Sure <=> pid = "OUT" /\ ep = 1
    BY DEF Sure, OutToken1, Token
  <2>4. p \in Possible <=> pid = "OUT" /\ ep = 1
    BY DEF Possible, OutToken1, Token, Ack
  <2>5. Expected' <=> pid = "OUT" /\ ep = 1
    BY DEF Expected, SendToken
  <2>6. ~TokenMissed'
    BY <2>2, <2>3, <2>4, <2>5 DEF TokenMissed
  <2>7. QED
    BY <1>1, <2>1, <2>2, <2>6 DEF LedInv, Bit
<1>5. QED
  BY <1>3, <1>4 DEF SendToken

\* A step that sends data, or loses it.
LEMMA SentDataLedInv ==
    ASSUME TypeOK, LedInv, bus \in {"setup", "out"}, NEW p \in Packets, IsData(p),
           \/ Capture(p) /\ NoFault /\ outs' = outs + Bit(Expected)
           \/ Capture(p) /\ Fault("handshake") /\ outs' = outs
           \/ NotSeen /\ Fault("data") /\ outs' = outs,
           bus' = "idle", UNCHANGED counted
    PROVE  LedInv'
<1>1. /\ outs \in Nat /\ faults \in Nat /\ Seen' = Seen
      /\ Seen + Waiting(Possible) + Bit(TokenMissed) <= outs + faults
      /\ outs + Bit(TokenMissed) <= Seen + Waiting(Sure) + faults
      /\ Seen \in Nat /\ Waiting(Sure) \in Nat /\ Waiting(Possible) \in Nat
  BY WaitingType, CountedSeen DEF LedInv
<1>2. Bit(TokenMissed) \in 0 .. 1 /\ Bit(TokenMissed') = 0
  BY BitType, TokenMissedType DEF TokenMissed, Bit
<1>3. ASSUME Capture(p)
      PROVE  /\ Waiting(Sure)' = Waiting(Sure) + Bit(NextCounts(Sure))
             /\ Waiting(Possible)' = Waiting(Possible) + Bit(NextCounts(Possible))
             /\ Bit(NextCounts(Sure)) \in 0 .. 1 /\ Bit(NextCounts(Possible)) \in 0 .. 1
             /\ Waiting(Sure)' \in Nat /\ Waiting(Possible)' \in Nat
  <2>1. queue' = Append(queue, p)
    BY <1>3 DEF Capture
  <2>2. /\ Waiting(Sure)' = Waiting(Sure) + Bit(NextCounts(Sure))
        /\ Waiting(Possible)' = Waiting(Possible) + Bit(NextCounts(Possible))
    BY <2>1, AppendWaiting DEF counted, Bit
  <2>3. QED
    BY <1>1, <2>2 DEF Bit
<1>4. CASE Capture(p) /\ NoFault /\ outs' = outs + Bit(Expected)
  <2>1. Bit(Expected) \in 0 .. 1 /\ faults' = faults
    BY <1>4 DEF Bit, NoFault
  <2>2. \/ Bit(TokenMissed) = 1
        \/ Bit(NextCounts(Sure)) = Bit(Expected) /\ Bit(NextCounts(Possible)) = Bit(Expected)
    BY DEF TokenMissed, Bit
  <2>3. QED
    BY <1>1, <1>2, <1>3, <1>4, <2>1, <2>2 DEF LedInv
<1>5. CASE Capture(p) /\ Fault("handshake") /\ outs' = outs
  <2>1. faults' = faults + 1
    BY <1>5 DEF Fault
  <2>2. QED
    BY <1>1, <1>2, <1>3, <1>5, <2>1 DEF LedInv
<1>6. CASE NotSeen /\ Fault("data") /\ outs' = outs
  <2>1. faults' = faults + 1
    BY <1>6 DEF Fault
  <2>2. Waiting(Sure)' = Waiting(Sure) /\ Waiting(Possible)' = Waiting(Possible)
    BY <1>6, CountedSeen DEF NotSeen, Waiting
  <2>3. QED
    BY <1>1, <1>2, <1>6, <2>1, <2>2 DEF LedInv
<1>7. QED
  BY <1>4, <1>5, <1>6

LEMMA HostLedInv == IInv /\ LedInv /\ Host => LedInv'
<1> SUFFICES ASSUME TypeOK, SourceInv, LedInv, Host PROVE LedInv'
  BY DEF IInv
<1>0. UNCHANGED counted
  BY DEF Host, program, main, counted
<1>1. ASSUME NEW r \in Requests, HostSetup(r) PROVE LedInv'
  <2>1. SendToken("SETUP", 0) /\ bus = "idle" /\ bus' = "setup" /\ outs' = outs
    BY <1>1 DEF HostSetup
  <2>2. QED
    BY <1>0, <2>1, SentTokenLedInv DEF Endpoints
<1>2. ASSUME NEW ep \in Endpoints, HostOut(ep) PROVE LedInv'
  <2>1. SendToken("OUT", ep) /\ bus = "idle" /\ bus' = "out" /\ outs' = outs
    BY <1>2 DEF HostOut
  <2>2. QED
    BY <1>0, <2>1, SentTokenLedInv
<1>3. CASE HostSetupData
  <2>1. Data("DATA0", req) \in Packets /\ IsData(Data("DATA0", req))
    BY <1>3, DataIsPacket DEF HostSetupData, SourceInv, IsData, Data
  <2>2. bus = "setup" /\ bus' = "idle" /\ outs' = outs /\ Bit(Expected) = 0
    BY <1>3 DEF HostSetupData, DataSent, Expected, Bit
  <2>3. \/ Capture(Data("DATA0", req)) /\ (NoFault \/ Fault("handshake"))
        \/ NotSeen /\ Fault("data")
    BY <1>3 DEF HostSetupData, DataSent
  <2>4. outs' = outs + Bit(Expected)
    BY <2>2 DEF LedInv
  <2>5. QED
    BY <1>0, <2>1, <2>2, <2>3, <2>4, SentDataLedInv
<1>4. CASE HostOutData0
  <2>1. Data("DATA1", NULL) \in Packets /\ IsData(Data("DATA1", NULL))
    BY DataIsPacket DEF IsData, Data
  <2>2. bus = "out" /\ bus' = "idle" /\ outs' = outs /\ Bit(Expected) = 0
    BY <1>4 DEF HostOutData0, DataSent, Expected, Bit
  <2>3. \/ Capture(Data("DATA1", NULL)) /\ (NoFault \/ Fault("handshake"))
        \/ NotSeen /\ Fault("data")
    BY <1>4 DEF HostOutData0, DataSent
  <2>4. outs' = outs + Bit(Expected)
    BY <2>2 DEF LedInv
  <2>5. QED
    BY <1>0, <2>1, <2>2, <2>3, <2>4, SentDataLedInv
<1>5. CASE HostOutData1
  <2> DEFINE p == Data(DataPid(out_toggle), NULL)
  <2>1. p \in Packets /\ IsData(p)
    BY DataIsPacket DEF DataPid, IsData, Data
  <2>2. bus = "out" /\ bus' = "idle" /\ Bit(Expected) = 1
    BY <1>5 DEF HostOutData1, DataSent, Expected, Bit
  <2>3. \/ Capture(p) /\ NoFault /\ outs' = outs + 1
        \/ Capture(p) /\ Fault("handshake") /\ outs' = outs
        \/ NotSeen /\ Fault("data") /\ outs' = outs
    BY <1>5 DEF HostOutData1, DataSent
  <2> HIDE DEF p
  <2>4. QED
    BY <1>0, <2>1, <2>2, <2>3, SentDataLedInv
<1>6. CASE HostAck
  <2>1. Ack \in Packets /\ ~IsData(Ack)
    BY DEF Packets, IsData, Ack
  <2>2. bus = "ack" /\ bus' = "idle" /\ outs' = outs
    BY <1>6 DEF HostAck
  <2>3. \/ queue' = Append(queue, Ack) /\ faults' = faults
        \/ queue' = queue /\ faults' = faults + 1
    BY <1>6 DEF HostAck, CaptureAck, NoFault, NotSeen, Fault
  <2>4. Waiting(Sure)' = Waiting(Sure) /\ Waiting(Possible)' = Waiting(Possible)
    <3>1. CASE queue' = Append(queue, Ack)
      BY <1>0, <2>1, <3>1, AppendWaiting, WaitingType DEF counted, Bit
    <3>2. CASE queue' = queue
      BY <1>0, <3>2, CountedSeen DEF Waiting
    <3>3. QED
      BY <2>3, <3>1, <3>2
  <2>5. ~TokenMissed /\ ~TokenMissed' /\ Seen' = Seen
    BY <1>0, <2>2, CountedSeen DEF TokenMissed
  <2>6. QED
    BY <2>2, <2>3, <2>4, <2>5, WaitingType DEF LedInv, Bit
<1>7. ASSUME \/ \E ep \in Endpoints : HostIn(ep)
             \/ HostAbort
      PROVE  LedInv'
  <2>1. /\ bus = "idle" /\ bus' \in {"idle", "ack"} /\ outs' = outs /\ queue' = queue
        /\ faults' = faults \/ faults' = faults + 1
    BY <1>7 DEF HostIn, HostAbort, Fault
  <2>2. Waiting(Sure)' = Waiting(Sure) /\ Waiting(Possible)' = Waiting(Possible)
    BY <1>0, <2>1, CountedSeen DEF Waiting
  <2>3. ~TokenMissed /\ ~TokenMissed' /\ Seen' = Seen
    BY <1>0, <2>1, CountedSeen DEF TokenMissed
  <2>4. QED
    BY <2>1, <2>2, <2>3, WaitingType DEF LedInv, Bit
<1>8. QED
  BY <1>1, <1>2, <1>3, <1>4, <1>5, <1>6, <1>7 DEF Host, HostData
-----------------------------------------------------------------------------
(* So does the main loop. *)

\* A packet is taken: c is 1 for the data of a report, which goes to the ring.
LEMMA TakenCounts ==
    ASSUME NEW seen \in Nat, NEW sure \in Nat, NEW possible \in Nat,
           NEW o \in Nat, NEW f \in Nat, NEW missed \in 0 .. 1, NEW c \in 0 .. 1,
           NEW sure2 \in Nat, NEW possible2 \in Nat, NEW missed2 \in 0 .. 1,
           missed2 <= missed, sure2 >= sure - c, possible2 <= possible - c,
           seen + possible + missed <= o + f, o + missed <= seen + sure + f
    PROVE  /\ (seen + c) + possible2 + missed2 <= o + f
           /\ o + missed2 <= (seen + c) + sure2 + f
OBVIOUS

LEMMA TakenLedInv ==
    ASSUME TypeOK, LedInv, NEW pid, Taken(pid), UNCHANGED <<bus, bus_ep, outs, faults>>,
           Head(queue) # Ack => (OutTaken' <=> Head(queue) = OutToken1),
           Seen' = Seen + Bit(IsData(Head(queue)) /\ OutTaken)
    PROVE  LedInv'
<1> DEFINE c == Bit(IsData(Head(queue)) /\ OutTaken)
<1>1. /\ Waiting(Sure)' >= Waiting(Sure) - c
      /\ Waiting(Possible)' <= Waiting(Possible) - c
      /\ Waiting(Sure)' \in Nat /\ Waiting(Possible)' \in Nat
      /\ TokenMissed' => TokenMissed
  BY TakenWaiting
<1>2. /\ Bit(TokenMissed) \in 0 .. 1 /\ Bit(TokenMissed') \in 0 .. 1
      /\ Bit(TokenMissed') <= Bit(TokenMissed) /\ c \in 0 .. 1
  BY <1>1 DEF Bit
<1>3. /\ Seen \in Nat /\ Waiting(Sure) \in Nat /\ Waiting(Possible) \in Nat
      /\ outs \in Nat /\ faults \in Nat
      /\ Seen + Waiting(Possible) + Bit(TokenMissed) <= outs + faults
      /\ outs + Bit(TokenMissed) <= Seen + Waiting(Sure) + faults
  BY WaitingType DEF LedInv
<1> HIDE DEF c
<1>4. /\ (Seen + c) + Waiting(Possible)' + Bit(TokenMissed') <= outs + faults
      /\ outs + Bit(TokenMissed') <= (Seen + c) + Waiting(Sure)' + faults
  BY <1>1, <1>2, <1>3, TakenCounts
<1>5. Seen' = Seen + c
  BY DEF c
<1>6. QED
  BY <1>3, <1>4, <1>5 DEF LedInv

\* Steps that neither take a packet nor change what the next data is for.
LEMMA IdleLedInv ==
    ASSUME TypeOK, LedInv, Seen' = Seen,
           UNCHANGED <<queue, packet_type, tok_epnum, bus, bus_ep, outs, faults>>
    PROVE  LedInv'
<1>1. OutTaken' = OutTaken
  BY DEF OutTaken
<1>2. Waiting(Sure)' = Waiting(Sure) /\ Waiting(Possible)' = Waiting(Possible)
  BY <1>1 DEF Waiting
<1>3. TokenMissed' = TokenMissed
  BY <1>1 DEF TokenMissed, NextCounts, Expected
<1>4. QED
  BY <1>2, <1>3 DEF LedInv

LEMMA TakenPid ==
    ASSUME TypeOK, NEW pid, Taken(pid)
    PROVE  /\ Head(queue) \in Packets
           /\ IsData(Head(queue)) <=> pid \in {"DATA0", "DATA1"}
           /\ Head(queue) = Ack <=> pid = "ACK"
           /\ Head(queue) = OutToken1 <=> pid = "OUT" /\ Head(queue).ep = 1
<1>1. Head(queue) \in Packets /\ Head(queue).pid = pid
  BY TakenType
<1>2. QED
  BY <1>1 DEF Packets, IsData, OutToken1, Token, Data, Ack

LEMMA TakenDataPid ==
    ASSUME TakenData PROVE \E pid \in {"DATA0", "DATA1"} : Taken(pid)
BY DEF TakenData, DataPid

LEMMA ProcessLedInv == IInv /\ LedInv /\ Process /\ UNCHANGED <<main, host>> => LedInv'
<1> SUFFICES ASSUME TypeOK, OutRingNeverFills, LedInv, Process, UNCHANGED <<main, host>>
             PROVE  LedInv'
  BY DEF IInv
<1>1. UNCHANGED <<bus, bus_ep, outs, faults, led>> /\ Seen \in Nat
  BY WaitingType DEF main, host
<1>2. ASSUME NEW pid, Taken(pid), UNCHANGED ep1, pid \notin {"DATA0", "DATA1"} \/ ~OutTaken,
             pid # "ACK" => (OutTaken' <=> Head(queue) = OutToken1)
      PROVE  LedInv'
  <2>1. Seen' = Seen
    BY <1>1, <1>2 DEF Seen, ep1
  <2>2. Bit(IsData(Head(queue)) /\ OutTaken) = 0
    BY <1>2, TakenPid DEF Bit
  <2>3. Seen' = Seen + Bit(IsData(Head(queue)) /\ OutTaken)
    BY <1>1, <2>1, <2>2
  <2>4. QED
    BY <1>1, <1>2, <2>3, TakenPid, TakenLedInv
<1>3. CASE ProcessSetupToken
  <2>1. Taken("SETUP") /\ UNCHANGED ep1 /\ ~OutTaken'
    BY <1>3 DEF ProcessSetupToken, OutTaken
  <2>2. QED
    BY <1>2, <2>1, TakenPid
<1>4. CASE ProcessOutToken
  <2>1. Taken("OUT") /\ UNCHANGED ep1 /\ (OutTaken' <=> Head(queue).ep = 1)
    BY <1>4 DEF ProcessOutToken, OutTaken
  <2>2. QED
    BY <1>2, <2>1, TakenPid
<1>5. CASE ProcessSetupData \/ IgnoreData
  <2>1. TakenData /\ UNCHANGED ep1 /\ ~OutTaken /\ ~OutTaken'
    BY <1>5 DEF ProcessSetupData, IgnoreData, OutTaken, token
  <2>2. PICK pid \in {"DATA0", "DATA1"} : Taken(pid)
    BY <2>1, TakenDataPid
  <2>3. QED
    BY <1>2, <2>1, <2>2, TakenPid
<1>6. CASE ProcessOutData
  <2>1. /\ TakenData /\ OutTaken /\ ~OutTaken' /\ ep1_tail' = ep1_tail
        /\ ep1_head' = (ep1_head + 1) % NUM_BUFFERS
    BY <1>6 DEF ProcessOutData, received_data, OutTaken, TypeOK, Endpoints
  <2>2. PICK pid \in {"DATA0", "DATA1"} : Taken(pid)
    BY <2>1, TakenDataPid
  <2>3. IsData(Head(queue)) /\ Head(queue) # OutToken1 /\ pc = "usb"
    BY <2>2, TakenPid DEF Taken
  <2>4. ep1_head = ep1_tail /\ ep1_head' # ep1_tail'
    BY <2>1, <2>3 DEF OutRingNeverFills, TypeOK, NUM_BUFFERS
  <2>5. Seen = led /\ Seen' = led + 1
    BY <1>1, <2>4 DEF Seen, Bit, TypeOK
  <2>6. Seen' = Seen + Bit(IsData(Head(queue)) /\ OutTaken)
    BY <2>1, <2>3, <2>5 DEF Bit
  <2>7. QED
    BY <1>1, <2>1, <2>2, <2>3, <2>6, TakenLedInv
<1>7. CASE ProcessLastAck \/ ProcessAck
  <2>1. Taken("ACK") /\ UNCHANGED ep1
    BY <1>7 DEF ProcessLastAck, ProcessAck
  <2>2. QED
    BY <1>2, <2>1
<1>8. QED
  BY <1>3, <1>4, <1>5, <1>6, <1>7 DEF Process

LEMMA DrainEp1LedInv == IInv /\ LedInv /\ DrainEp1 /\ UNCHANGED host => LedInv'
<1> SUFFICES ASSUME TypeOK, OutRingNeverFills, LedInv, DrainEp1, UNCHANGED host
             PROVE  LedInv'
  BY DEF IInv
<1>1. Seen' = Seen
  BY DEF DrainEp1, Seen, Bit, OutRingNeverFills, TypeOK
<1>2. QED
  BY <1>1, IdleLedInv DEF DrainEp1, token, host

LEMMA LoopLedInv ==
    /\ IInv /\ LedInv
    /\ \/ (NoEvent \/ RadioPoll \/ NotSent \/ UsbSend \/ Sent) /\ UNCHANGED host
       \/ ProcessTx /\ UNCHANGED <<main, host>>
       \/ UNCHANGED vars
    => LedInv'
<1> SUFFICES ASSUME TypeOK, LedInv,
                    \/ (NoEvent \/ RadioPoll \/ NotSent \/ UsbSend \/ Sent) /\ UNCHANGED host
                    \/ ProcessTx /\ UNCHANGED <<main, host>>
                    \/ UNCHANGED vars
             PROVE  LedInv'
  BY DEF IInv
<1>1. UNCHANGED <<queue, packet_type, tok_epnum, bus, bus_ep, outs, faults, led,
                  ep1_head, ep1_tail>>
  BY DEF NoEvent, RadioPoll, NotSent, UsbSend, Sent, ProcessTx, TxEnd, TxStart, TxFill,
         WriteQueue, WriteQueueSize, WriteQueueEpnum, main, host, token, ep1, vars, device
<1>2. QED
  BY <1>1, IdleLedInv DEF Seen

LEMMA NextLedInv == IInv /\ LedInv /\ [Next]_vars => LedInv'
BY HostLedInv, ProcessLedInv, DrainEp1LedInv, LoopLedInv DEF Next, MainLoop, UsbProcess

\* LED reports arrive: with the queue drained, the main loop has seen every
\* report the host saw acknowledged once (hidusb.c:196-219), and each fault on
\* the wire lost or repeated one at most, whichever packets it hit.
THEOREM LedReportsCounted == Spec => []LedReportsArrive
<1>1. Spec => []LedInv
  BY InitLedInv, NextLedInv, Invariance, PTL DEF Spec
<1>2. IInv /\ LedInv => LedReportsArrive
  <2> SUFFICES ASSUME IInv, LedInv, queue = << >>, pc = "usb"
               PROVE  led <= outs + faults /\ outs <= led + faults
    BY DEF LedReportsArrive
  <2>1. Waiting(Sure) = 0 /\ Waiting(Possible) = 0
    BY WaitingType, FollowersEmpty DEF Waiting, IInv
  <2>2. Seen = led /\ led \in Nat
    BY DEF IInv, TypeOK, OutRingNeverFills, Seen, Bit
  <2>3. QED
    BY <2>1, <2>2 DEF LedInv, Bit
<1>3. QED
  BY <1>1, <1>2, Invariance, PTL
=============================================================================
