------------------------------ MODULE Grainuum ------------------------------
(***************************************************************************)
(* The Grainuum USB device stack (src/grainuum): the transmit queue shared *)
(* with the interrupt (grainuum-phy.c) and the packet state machine the    *)
(* main loop runs (grainuum-state.c).  The module has the state and the    *)
(* operations; RxDongle adds the main loop that calls them and the host at *)
(* the other end of the cable.                                             *)
(*                                                                         *)
(* An interrupt is atomic.  The main loop is split where it writes what    *)
(* the interrupt reads: the packet buffer and the queued_* fields.  All    *)
(* else it does to one packet touches only state of its own and is one     *)
(* step, which takes the packet from the queue as well: PhyQueue shows the *)
(* packet in process is not disturbed.                                     *)
(***************************************************************************)
EXTENDS Integers, Sequences

CONSTANTS Requests,    \* control requests the host may make
          MaxReports,  \* keyboard reports that arrive over the radio (bound)
          MaxBacklog,  \* packets the main loop may be behind (see PhyQueue)
          NULL         \* the null pointer

VARIABLES
  \* struct GrainuumUSB and the packet buffer it points at.
  queued_size, queued_epnum, packet,
  \* phy_queue, as PacketFifo's queue.
  queue,
  \* struct GrainuumState.
  data_out, data_out_left, data_out_max, data_out_epnum, packet_queued,
  tok_epnum, data_buffer, packet_type, address, tok_pos, tok_buf,
  \* The ring of EP1 OUT buffers of hidusb.c.
  ep1_head, ep1_tail,
  \* Where the main loop is, and where grainuum_state_process_tx returns to.
  pc, after

phy      == <<queued_size, queued_epnum, packet>>
transfer == <<data_out, data_out_left, data_out_max, data_out_epnum, packet_queued>>
token    == <<tok_epnum, packet_type, tok_pos, tok_buf>>
ep1      == <<ep1_head, ep1_tail>>
device   == <<queued_size, queued_epnum, packet, queue, data_out, data_out_left,
              data_out_max, data_out_epnum, packet_queued, tok_epnum, data_buffer,
              packet_type, address, tok_pos, tok_buf, ep1_head, ep1_tail, pc, after>>

Endpoints   == 0 .. 1
Chunk       == 8          \* data bytes in a packet
Overhead    == 3          \* PID and CRC-16
NUM_BUFFERS == 4          \* EP1 OUT buffers
Least(a, b) == IF a <= b THEN a ELSE b

\* A control request; len is what getDescriptor returns for it, whatever its kind.
\* It is not asked about SET_ADDRESS and SET_CONFIGURATION, which have no answer.
Kinds == {"get", "set_address", "set_configuration", "class", "class_out"}
ASSUME RequestsAssumption ==
    /\ Requests \subseteq [kind : Kinds, len : Nat, wLength : Nat]
    /\ \A r \in Requests : r.kind \in {"set_address", "set_configuration"} => r.len = 0
ASSUME BoundsAssumption == MaxReports \in Nat /\ MaxBacklog \in Nat

\* SETUP data that is none of the host's requests: getDescriptor knows no answer.
Unknown == [kind |-> "class", len |-> 0, wLength |-> 0]

\* What a transfer sends: the answer to a request, or a keyboard report.
Report(n) == [report |-> n]
Sources   == Requests \cup {Unknown} \cup {Report(n) : n \in 1 .. MaxReports}
Pointers  == [src : Sources, off : Nat]
ASSUME NullAssumption == NULL \notin Pointers /\ NULL \notin Sources

\* Packets the interrupt keeps, without their CRCs.
Token(pid, ep)  == [pid |-> pid, ep |-> ep]
Data(pid, body) == [pid |-> pid, body |-> body]
Ack             == [pid |-> "ACK"]
Packets == {Token(p, e) : p \in {"SETUP", "OUT"}, e \in Endpoints}
           \cup {Data(p, b) : p \in {"DATA0", "DATA1"}, b \in Requests \cup {NULL}}
           \cup {Ack}

DataPid(bit) == IF bit = 1 THEN "DATA1" ELSE "DATA0"

DeviceInit ==
    /\ queued_size = 0 /\ queued_epnum = 0
    /\ packet = [pid |-> "none", src |-> NULL, off |-> 0, len |-> 0]
    /\ queue = << >>
    /\ data_out = NULL /\ data_out_left = 0 /\ data_out_max = 0
    /\ data_out_epnum = 0 /\ packet_queued = FALSE
    /\ tok_epnum = 0 /\ data_buffer = [e \in Endpoints |-> 0]
    /\ packet_type = "none" /\ address = FALSE
    /\ tok_pos = 0 /\ tok_buf = 0
    /\ ep1_head = 0 /\ ep1_tail = 0
    /\ pc = "usb" /\ after = "ep1"

-----------------------------------------------------------------------------
(* The interrupt: grainuumCaptureI. *)

CanCapture == Len(queue) < MaxBacklog

\* SETUP, OUT and DATA packets are kept for the main loop.
Capture(p) == /\ CanCapture
              /\ queue' = Append(queue, p)
              /\ UNCHANGED phy

\* Mutant: the packet stays with the interrupt after its ACK.
CaptureAckKeepsPacket == Capture(Ack)

\* So is an ACK, and it frees the transmit queue.
CaptureAck == /\ CanCapture
              /\ queued_size' = 0
              /\ queue' = Append(queue, Ack)
              /\ UNCHANGED <<queued_epnum, packet>>

\* An IN token is answered on the spot, with a NAK unless this holds.
Answers(ep) == queued_size # 0 /\ queued_epnum = ep

\* What goes out: queued_size bytes of whatever the packet buffer holds.  The
\* host takes it for damaged unless the CRC comes where the size says.
Reply    == [packet EXCEPT !.len = queued_size - Overhead]
ReplyOk  == queued_size = packet.len + Overhead

-----------------------------------------------------------------------------
(* grainuumProcess: one packet from the queue. *)

Taken(pid) == /\ pc = "usb"
              /\ queue # << >>
              /\ Head(queue).pid = pid
              /\ queue' = Tail(queue)

\* grainuum_state_clear_tx
ClearTx == /\ data_out' = NULL
           /\ data_out_left' = 0
           /\ data_out_max' = 0
           /\ packet_queued' = FALSE

\* grainuum_state_send_data
SendData(ep, src, size, max) ==
    /\ data_out_epnum' = ep
    /\ data_out_left' = size
    /\ data_out_max' = max
    /\ data_out' = [src |-> src, off |-> 0]
    /\ packet_queued' = FALSE

ProcessSetupToken ==
    /\ Taken("SETUP")
    /\ packet_type' = "setup"
    /\ tok_epnum' = Head(queue).ep
    /\ ClearTx
    /\ pc' = "ep1"
    /\ UNCHANGED <<phy, data_out_epnum, data_buffer, address, tok_pos, tok_buf, ep1, after>>

\* The same buffer, and so the same place, until data has come.
get_usb_ep1_buffer == ep1_head

ProcessOutToken ==
    /\ Taken("OUT")
    /\ packet_type' = "out"
    /\ tok_epnum' = Head(queue).ep
    /\ tok_pos' = 0
    /\ tok_buf' = get_usb_ep1_buffer
    /\ pc' = "ep1"
    /\ UNCHANGED <<phy, transfer, data_buffer, address, ep1, after>>

TakenData == /\ \E bit \in 0 .. 1 :
                  /\ Taken(DataPid(1 - bit))
                  /\ data_buffer' = [data_buffer EXCEPT ![tok_epnum] = bit]
             /\ UNCHANGED phy

\* grainuum_state_process_setup, and on to grainuum_state_process_tx.
ProcessSetupData ==
    /\ packet_type = "setup"
    /\ TakenData
    /\ LET setup == IF Head(queue).body = NULL THEN Unknown ELSE Head(queue).body
       IN  /\ address' = (address \/ setup.kind = "set_address")
           /\ SendData(tok_epnum, setup, setup.len, setup.wLength)
    /\ packet_type' = "none"
    /\ pc' = "tx"
    /\ after' = "ep1"
    /\ UNCHANGED <<tok_epnum, tok_pos, tok_buf, ep1>>

\* The buffer goes to the main loop, whatever the next one holds.
received_data ==
    ep1_head' = IF tok_epnum = 1 THEN (ep1_head + 1) % NUM_BUFFERS ELSE ep1_head

\* What both mutants of ProcessOutData do.
CopyOutData ==
    /\ packet_type = "out" /\ tok_epnum # 0
    /\ TakenData
    /\ tok_pos' = tok_pos + 1
    /\ received_data
    /\ UNCHANGED <<transfer, tok_epnum, address, tok_buf, ep1_tail, after>>

\* Mutants: more data is taken without a token, and the next packet is
\* processed before the buffer of this one is drained.
ProcessOutDataStaysOut == CopyOutData /\ pc' = "ep1" /\ UNCHANGED packet_type
ProcessOutDataNoDrain  == CopyOutData /\ pc' = "usb" /\ packet_type' = "none"

\* grainuum_state_parse_data for an OUT transaction on EP1, and received_data.
ProcessOutData ==
    /\ packet_type = "out" /\ tok_epnum # 0
    /\ TakenData
    /\ tok_pos' = tok_pos + 1
    /\ received_data
    /\ packet_type' = "none"
    /\ pc' = "ep1"
    /\ UNCHANGED <<transfer, tok_epnum, address, tok_buf, ep1_tail, after>>

\* Data nobody waits for, and the data of an OUT on EP0.
IgnoreData ==
    /\ packet_type = "none" \/ (packet_type = "out" /\ tok_epnum = 0)
    /\ TakenData
    /\ pc' = "ep1"
    /\ UNCHANGED <<transfer, token, address, ep1, after>>

\* Mutants: tested before the subtraction, and a transfer that fills its last
\* packet ended without the empty one.
LastAckBefore   == data_out_left < 0 \/ data_out_max < 0
LastAckNoEmpty  == data_out_left - Chunk <= 0 \/ data_out_max - Chunk < 0

\* usbStateTransferSuccess: the last packet of the transfer was acknowledged ...
LastAck == data_out_left - Chunk < 0 \/ data_out_max - Chunk < 0

ProcessLastAck ==
    /\ LastAck
    /\ Taken("ACK")
    /\ data_buffer' = [data_buffer EXCEPT ![tok_epnum] = 1 - @]
    /\ ClearTx
    /\ packet_type' = IF packet_type = "out" THEN "none" ELSE packet_type
    /\ pc' = "ep1"
    /\ UNCHANGED <<phy, data_out_epnum, tok_epnum, address, tok_pos, tok_buf, ep1, after>>

\* What the mutants of ProcessAck do.
NextPacket(step) ==
    /\ ~LastAck
    /\ Taken("ACK")
    /\ data_out' = [data_out EXCEPT !.off = @ + Chunk]
    /\ data_out_left' = data_out_left - step
    /\ data_out_max' = data_out_max - Chunk
    /\ pc' = "tx"
    /\ after' = "ep1"
    /\ UNCHANGED <<phy, data_out_epnum, token, address, ep1>>
Flip == data_buffer' = [data_buffer EXCEPT ![tok_epnum] = 1 - @]

\* Mutants: the data toggle does not alternate, the packet stays marked as
\* queued, and the PID of a packet counts as data sent.
ProcessAckNoToggle  == NextPacket(Chunk) /\ packet_queued' = FALSE /\ UNCHANGED data_buffer
ProcessAckQueued    == NextPacket(Chunk) /\ Flip /\ UNCHANGED packet_queued
ProcessAckCountsPid == NextPacket(Chunk + 1) /\ Flip /\ packet_queued' = FALSE

\* ... or the next one follows.
ProcessAck ==
    /\ ~LastAck
    /\ Taken("ACK")
    /\ data_buffer' = [data_buffer EXCEPT ![tok_epnum] = 1 - @]
    /\ data_out' = [data_out EXCEPT !.off = @ + Chunk]
    /\ data_out_left' = data_out_left - Chunk
    /\ data_out_max' = data_out_max - Chunk
    /\ packet_queued' = FALSE
    /\ pc' = "tx"
    /\ after' = "ep1"
    /\ UNCHANGED <<phy, data_out_epnum, token, address, ep1>>

Process == \/ ProcessSetupToken \/ ProcessOutToken \/ ProcessSetupData
           \/ ProcessOutData \/ IgnoreData \/ ProcessLastAck \/ ProcessAck

-----------------------------------------------------------------------------
(* grainuum_state_process_tx: the next packet of the transfer. *)

NothingToSend == data_out = NULL \/ packet_queued
AllSent       == data_out_left < 0 \/ data_out_max < 0
EmptyPacket   == data_out_left = 0 \/ data_out_max = 0

TxPid == DataPid(data_buffer[tok_epnum])

\* Mutant: the transfer is not cleared at its end.
TxEndKeepsTransfer ==
    /\ pc = "tx"
    /\ NothingToSend \/ AllSent \/ (EmptyPacket /\ data_out_epnum # 0)
    /\ packet' = IF NothingToSend \/ AllSent THEN packet
                                             ELSE [packet EXCEPT !.pid = TxPid]
    /\ pc' = after
    /\ UNCHANGED <<queued_size, queued_epnum, queue, transfer, token, data_buffer,
                   address, ep1, after>>

\* Nothing left: EP0 ends with an empty packet, no other endpoint does.  The
\* PID is picked before that is found out.
TxEnd ==
    /\ pc = "tx"
    /\ NothingToSend \/ AllSent \/ (EmptyPacket /\ data_out_epnum # 0)
    /\ IF NothingToSend THEN UNCHANGED transfer
                        ELSE ClearTx /\ UNCHANGED data_out_epnum
    /\ packet' = IF NothingToSend \/ AllSent THEN packet
                                             ELSE [packet EXCEPT !.pid = TxPid]
    /\ pc' = after
    /\ UNCHANGED <<queued_size, queued_epnum, queue, token, data_buffer, address, ep1, after>>

\* Mutant: the packet is not marked as queued.
TxStartUnmarked ==
    /\ pc = "tx"
    /\ ~(NothingToSend \/ AllSent \/ (EmptyPacket /\ data_out_epnum # 0))
    /\ packet' = [packet EXCEPT !.pid = TxPid]
    /\ pc' = "fill"
    /\ UNCHANGED <<queued_size, queued_epnum, queue, transfer, token, data_buffer,
                   address, ep1, after>>

TxStart ==
    /\ pc = "tx"
    /\ ~(NothingToSend \/ AllSent \/ (EmptyPacket /\ data_out_epnum # 0))
    /\ packet_queued' = TRUE
    /\ packet' = [packet EXCEPT !.pid = TxPid]
    /\ pc' = "fill"
    /\ UNCHANGED <<queued_size, queued_epnum, queue, data_out, data_out_left, data_out_max,
                   data_out_epnum, token, data_buffer, address, ep1, after>>

\* Mutant: the last packet is not cut to wLength.
TxFillAnySize ==
    /\ pc = "fill"
    /\ packet' = [packet EXCEPT !.src = data_out.src, !.off = data_out.off,
                                !.len = Least(Chunk, data_out_left)]
    /\ pc' = "queue"
    /\ UNCHANGED <<queued_size, queued_epnum, queue, transfer, token, data_buffer,
                   address, ep1, after>>

TxFill ==
    /\ pc = "fill"
    /\ packet' = [packet EXCEPT
                    !.src = data_out.src,
                    !.off = data_out.off,
                    !.len = Least(Chunk, Least(data_out_left, data_out_max))]
    /\ pc' = "queue"
    /\ UNCHANGED <<queued_size, queued_epnum, queue, transfer, token, data_buffer,
                   address, ep1, after>>

\* grainuumWriteQueue.  The fields are not volatile, so the stores of the
\* endpoint and of the size may come in either order.
WriteQueue ==
    /\ pc = "queue"
    /\ \/ /\ queued_epnum' = data_out_epnum
          /\ pc' = "size"
          /\ UNCHANGED queued_size
       \/ /\ queued_size' = packet.len + Overhead
          /\ pc' = "epnum"
          /\ UNCHANGED queued_epnum
    /\ UNCHANGED <<packet, queue, transfer, token, data_buffer, address, ep1, after>>

\* Mutant: PID and CRC not counted.
WriteQueueSizeOfData ==
    /\ pc = "size"
    /\ queued_size' = packet.len
    /\ pc' = after
    /\ UNCHANGED <<queued_epnum, packet, queue, transfer, token, data_buffer, address, ep1, after>>

WriteQueueSize ==
    /\ pc = "size"
    /\ queued_size' = packet.len + Overhead
    /\ pc' = after
    /\ UNCHANGED <<queued_epnum, packet, queue, transfer, token, data_buffer, address, ep1, after>>

WriteQueueEpnum ==
    /\ pc = "epnum"
    /\ queued_epnum' = data_out_epnum
    /\ pc' = after
    /\ UNCHANGED <<queued_size, packet, queue, transfer, token, data_buffer, address, ep1, after>>

ProcessTx == TxEnd \/ TxStart \/ TxFill \/ WriteQueue \/ WriteQueueSize \/ WriteQueueEpnum
=============================================================================
