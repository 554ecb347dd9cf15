------------------------------ MODULE RxDongle ------------------------------
(***************************************************************************)
(* The receiver dongle: the main loop of palawanRxMain (src/src/main.c)    *)
(* with the USB glue of hidusb.c around Grainuum, plugged into a host.     *)
(*                                                                         *)
(* The host is external: it is modelled from the USB transactions the      *)
(* device code answers.  It makes control transfers (Requests), polls EP1  *)
(* for keyboard reports once the device is configured and sends LED        *)
(* reports to EP1 OUT.  It works as USB 2.0 asks for: data toggles tell a  *)
(* retransmission from new data, a transaction without a handshake is      *)
(* repeated.  Faults says what may get lost on the wire.  A reply the host *)
(* cannot decode is no step at all: the host just asks again.              *)
(***************************************************************************)
EXTENDS Grainuum, FiniteSets

CONSTANTS MaxRequests,   \* control transfers (bound)
          MaxOuts,       \* LED reports (bound)
          Faults,        \* kinds of fault that happen
          MaxFaults,     \* faults (bound)
          EarlyKeys      \* keys are pressed before the device is configured

FaultKinds == {"token",     \* the device misses a SETUP or OUT token
               "data",      \* the device misses the data of a SETUP or OUT
               "handshake", \* the host misses the device's ACK
               "ack0",      \* the device misses an ACK in the middle of a transfer
               "ack0_last", \* ... the ACK of a stage's last packet
               "ack1",      \* ... the ACK of a report
               "abort"}     \* the host gives a control transfer up
ASSUME FaultsAssumption == Faults \subseteq FaultKinds /\ MaxFaults \in Nat
ASSUME EarlyKeysAssumption == EarlyKeys \in BOOLEAN
ASSUME HostBoundsAssumption == MaxRequests \in Nat /\ MaxOuts \in Nat

VARIABLES
  kbd, ready,           \* input_config: the current report, is it to be sent
  led,                  \* LED reports the main loop has seen
  bus,                  \* the transaction under way: none, or what comes next
  bus_ep,               \* its endpoint
  ctl, req, got,        \* control stage, request, chunks received for it
  toggle, out_toggle,   \* data toggle the host expects (IN), sends (EP1 OUT)
  enumeration,          \* default, addressed, configured
  requests, outs, faults,  \* counted against the bounds
  accepted, delivered   \* reports usbSend took, reports the host took

main  == <<kbd, ready, led, accepted>>
stage == <<ctl, req, got, toggle, enumeration, requests>>
vars  == <<device, main, stage, bus, bus_ep, out_toggle, outs, faults, delivered>>

\* All of Grainuum that only the main loop changes.
program == <<data_out, data_out_left, data_out_max, data_out_epnum, packet_queued,
             tok_epnum, data_buffer, packet_type, address, tok_pos, tok_buf,
             ep1_head, ep1_tail, pc, after>>
host    == <<stage, bus, bus_ep, out_toggle, outs, faults, delivered>>

Init == /\ DeviceInit
        /\ kbd = 0 /\ ready = FALSE /\ led = 0
        /\ bus = "idle" /\ bus_ep = 0
        /\ ctl = "none" /\ req = Unknown /\ got = << >>
        /\ toggle = [e \in Endpoints |-> 0] /\ out_toggle = 0
        /\ enumeration = "default"
        /\ requests = 0 /\ outs = 0 /\ faults = 0
        /\ accepted = << >> /\ delivered = << >>

-----------------------------------------------------------------------------
(* The main loop: usbProcess, radioPoll, usbSend. *)

NoEvent == /\ pc = "usb" /\ queue = << >>
           /\ pc' = "ep1"
           /\ UNCHANGED <<phy, queue, transfer, token, data_buffer, address, ep1, after, main>>

UsbProcess == (Process \/ ProcessTx) /\ UNCHANGED main

\* Mutant: the buffer handed over stays in the ring.
DrainEp1KeepsBuffer ==
    /\ pc = "ep1"
    /\ led' = IF ep1_head # ep1_tail THEN led + 1 ELSE led
    /\ pc' = "radio"
    /\ UNCHANGED <<phy, queue, transfer, token, data_buffer, address, ep1, after,
                   kbd, ready, accepted>>

\* The second half of usbProcess hands at most one EP1 buffer to received_data.
DrainEp1 ==
    /\ pc = "ep1"
    /\ IF ep1_head # ep1_tail
       THEN led' = led + 1 /\ ep1_tail' = (ep1_tail + 1) % NUM_BUFFERS
       ELSE UNCHANGED <<led, ep1_tail>>
    /\ pc' = "radio"
    /\ UNCHANGED <<phy, queue, transfer, token, data_buffer, address, ep1_head, after,
                   kbd, ready, accepted>>

\* radioPoll: an input packet may change the report (input-server.c).
RadioPoll ==
    /\ pc = "radio"
    /\ \/ /\ kbd < MaxReports
          /\ EarlyKeys \/ enumeration = "configured"
          /\ kbd' = kbd + 1
          /\ ready' = TRUE
       \/ UNCHANGED <<kbd, ready>>
    /\ pc' = "input"
    /\ UNCHANGED <<phy, queue, transfer, token, data_buffer, address, ep1, after,
                   led, accepted>>

\* Mutant: a transfer under way is not looked at.
AgainNoAddress == ~address

\* grainuumSendData returns EAGAIN
Again == data_out # NULL \/ ~address \/ packet_queued

NotSent ==
    /\ pc = "input"
    /\ ~ready \/ Again
    /\ pc' = "usb"
    /\ UNCHANGED <<phy, queue, transfer, token, data_buffer, address, ep1, after, main>>

UsbSend ==
    /\ pc = "input"
    /\ ready /\ ~Again
    /\ SendData(1, Report(kbd), Chunk, Chunk)
    /\ accepted' = Append(accepted, Report(kbd))
    /\ pc' = "tx"
    /\ after' = "sent"
    /\ UNCHANGED <<phy, queue, token, data_buffer, address, ep1, kbd, ready, led>>

Sent ==
    /\ pc = "sent"
    /\ ready' = FALSE
    /\ pc' = "usb"
    /\ UNCHANGED <<phy, queue, transfer, token, data_buffer, address, ep1, after,
                   kbd, led, accepted>>

MainLoop == /\ NoEvent \/ UsbProcess \/ DrainEp1 \/ RadioPoll \/ NotSent \/ UsbSend \/ Sent
            /\ UNCHANGED host

-----------------------------------------------------------------------------
(* The host. *)

Fault(kind) == kind \in Faults /\ faults < MaxFaults /\ faults' = faults + 1
NoFault     == UNCHANGED faults
NotSeen     == UNCHANGED <<phy, queue>>

\* A token the device sees, or misses without anyone noticing.
SendToken(pid, ep) == /\ \/ Capture(Token(pid, ep)) /\ NoFault
                         \/ Fault("token") /\ NotSeen
                      /\ bus_ep' = ep

\* The host takes the address and the configuration one after the other.
Allowed(r) == CASE r.kind = "set_address"       -> enumeration = "default"
                [] r.kind = "set_configuration" -> enumeration = "addressed"
                [] r.kind = "get"               -> TRUE
                [] OTHER                        -> enumeration = "configured"

\* A control transfer begins, or its SETUP is repeated.
HostSetup(r) ==
    /\ bus = "idle"
    /\ \/ ctl = "none" /\ Allowed(r) /\ requests < MaxRequests /\ requests' = requests + 1
       \/ ctl = "setup" /\ r = req /\ UNCHANGED requests
    /\ SendToken("SETUP", 0)
    /\ bus' = "setup" /\ ctl' = "setup" /\ req' = r /\ got' = << >>
    /\ UNCHANGED <<toggle, enumeration, out_toggle, outs, delivered>>

FirstStage(r) == CASE r.kind = "get"       -> "data_in"
                   [] r.kind = "class_out" -> "data_out"
                   [] OTHER                -> "status_in"

\* The data of a SETUP or OUT arrives, or is sent again because the host did
\* not see the device's ACK: Heard is what the host knows.
DataSent(pid, body, Heard, NotHeard) ==
    /\ \/ Capture(Data(pid, body)) /\ NoFault /\ Heard
       \/ Capture(Data(pid, body)) /\ Fault("handshake") /\ NotHeard
       \/ NotSeen /\ Fault("data") /\ NotHeard
    /\ bus' = "idle"

HostSetupData ==
    /\ bus = "setup"
    /\ DataSent("DATA0", req,
                ctl' = FirstStage(req) /\ toggle' = [toggle EXCEPT ![0] = 1],
                UNCHANGED <<ctl, toggle>>)
    /\ UNCHANGED <<bus_ep, req, got, enumeration, requests, out_toggle, outs, delivered>>

HostOut(ep) ==
    /\ bus = "idle"
    /\ \/ ep = 0 /\ ctl \in {"data_out", "status_out"}
       \/ ep = 1 /\ enumeration = "configured" /\ outs < MaxOuts
    /\ SendToken("OUT", ep)
    /\ bus' = "out"
    /\ UNCHANGED <<stage, out_toggle, outs, delivered>>

HostOutData0 ==
    /\ bus = "out" /\ bus_ep = 0
    /\ DataSent("DATA1", NULL,
                ctl' = IF ctl = "data_out" THEN "status_in" ELSE "none",
                UNCHANGED ctl)
    /\ UNCHANGED <<bus_ep, req, got, toggle, enumeration, requests, out_toggle, outs, delivered>>

HostOutData1 ==
    /\ bus = "out" /\ bus_ep = 1
    /\ DataSent(DataPid(out_toggle), NULL,
                out_toggle' = 1 - out_toggle /\ outs' = outs + 1,
                UNCHANGED <<out_toggle, outs>>)
    /\ UNCHANGED <<bus_ep, stage, delivered>>

\* An IN the device answers.  (A NAK changes nothing.)  The host drops data
\* with the wrong toggle as a repetition, and acknowledges it all the same.  This
\* one also takes data in a status stage, where an empty packet should be.
HostIn(ep) ==
    /\ bus = "idle"
    /\ \/ ep = 0 /\ ctl \in {"data_in", "status_in"}
       \/ ep = 1 /\ enumeration = "configured"
    /\ Answers(ep) /\ ReplyOk
    /\ IF Reply.pid = DataPid(toggle[ep])
       THEN /\ toggle' = [toggle EXCEPT ![ep] = 1 - @]
            /\ IF ep = 0
               THEN /\ got' = Append(got, [src |-> Reply.src, off |-> Reply.off,
                                           len |-> Reply.len])
                    /\ UNCHANGED delivered
               ELSE delivered' = Append(delivered, Reply.src) /\ UNCHANGED got
       ELSE UNCHANGED <<toggle, got, delivered>>
    /\ bus' = "ack" /\ bus_ep' = ep
    /\ UNCHANGED <<phy, queue, ctl, req, enumeration, requests, out_toggle, outs, faults>>

Received == IF got = << >> THEN 0 ELSE Chunk * (Len(got) - 1) + got[Len(got)].len
DataInOver == got # << >> /\ (got[Len(got)].len < Chunk \/ Received >= req.wLength)

\* The stage after the packet on the bus.
NextStage == CASE ctl = "data_in" /\ DataInOver   -> "status_out"
               [] ctl = "status_in" /\ got # << >> -> "none"
               [] OTHER                            -> ctl

HostAck ==
    /\ bus = "ack"
    /\ \/ CaptureAck /\ NoFault
       \/ /\ NotSeen
          /\ \/ bus_ep = 1 /\ Fault("ack1")
             \/ bus_ep = 0 /\ NextStage = ctl /\ Fault("ack0")
             \/ bus_ep = 0 /\ NextStage # ctl /\ Fault("ack0_last")
    /\ bus' = "idle"
    /\ IF bus_ep = 0
       THEN /\ ctl' = NextStage
            /\ enumeration' = IF NextStage # "none" THEN enumeration
                              ELSE CASE req.kind = "set_address"       -> "addressed"
                                     [] req.kind = "set_configuration" -> "configured"
                                     [] OTHER                          -> enumeration
       ELSE UNCHANGED <<ctl, enumeration>>
    /\ UNCHANGED <<bus_ep, req, got, toggle, requests, out_toggle, outs, delivered>>

\* The host gives a transfer up; so does one that takes data in a status stage for
\* an error, when it is answered with some.
HostAbort ==
    /\ bus = "idle" /\ ctl # "none"
    /\ Fault("abort")
    /\ ctl' = "none"
    /\ UNCHANGED <<phy, queue, bus, bus_ep, req, got, toggle, enumeration, requests,
                   out_toggle, outs, delivered>>

HostData == HostSetupData \/ HostOutData0 \/ HostOutData1
Host == /\ \/ \E r \in Requests : HostSetup(r)
           \/ \E ep \in Endpoints : HostOut(ep) \/ HostIn(ep)
           \/ HostData \/ HostAck \/ HostAbort
        /\ UNCHANGED <<program, main>>

Next == MainLoop \/ Host

Spec == Init /\ [][Next]_vars

\* The main loop runs; the host polls every endpoint it waits for and finishes
\* the transactions and transfers it began.
HostKeepsOn == UNCHANGED <<program, main>>
Fairness == /\ WF_vars(MainLoop)
            /\ \A ep \in Endpoints : SF_vars(HostIn(ep) /\ HostKeepsOn)
            /\ SF_vars(HostOut(0) /\ HostKeepsOn)
            /\ SF_vars(ctl = "setup" /\ HostSetup(req) /\ HostKeepsOn)
            /\ WF_vars(HostData /\ HostKeepsOn)
            /\ WF_vars(HostAck /\ HostKeepsOn)
FairSpec == Spec /\ Fairness

-----------------------------------------------------------------------------
(* Properties *)

TransferPcs == {"tx", "fill", "queue", "size", "epnum"}

\* Every variable keeps its type; the endpoint 1 indices stay in their ring.
TypeOK ==
    /\ queued_size \in Nat /\ queued_epnum \in Endpoints
    /\ packet \in [pid : {"none", "DATA0", "DATA1"}, src : Sources \cup {NULL},
                   off : Nat, len : Nat]
    /\ queue \in Seq(Packets)
    /\ data_out \in Pointers \cup {NULL}
    /\ data_out_left \in Nat /\ data_out_max \in Nat
    /\ data_out_epnum \in Endpoints /\ packet_queued \in BOOLEAN
    /\ tok_epnum \in Endpoints /\ data_buffer \in [Endpoints -> 0 .. 1]
    /\ packet_type \in {"none", "setup", "out"} /\ address \in BOOLEAN
    /\ tok_pos \in Nat /\ tok_buf \in 0 .. NUM_BUFFERS - 1
    /\ ep1_head \in 0 .. NUM_BUFFERS - 1 /\ ep1_tail \in 0 .. NUM_BUFFERS - 1
    /\ pc \in {"usb", "ep1", "radio", "input", "sent"} \cup TransferPcs
    /\ after \in {"ep1", "sent"}
    /\ kbd \in 0 .. MaxReports /\ ready \in BOOLEAN /\ led \in Nat

\* Outside grainuum_state_process_tx a transfer exists exactly while one of its
\* packets is queued.  A transfer with no packet queued would wait for an ACK
\* that cannot come, and usbSend would answer EAGAIN for good; a packet without
\* a transfer would be overwritten by the next one.
TransferHasPacket ==
    pc \notin TransferPcs => (packet_queued <=> data_out # NULL)

\* An OUT transaction on EP1 is always copied to the start of the free buffer
\* received_data is about to hand over, whatever tokens got lost before it.
OutBufferFresh ==
    packet_type = "out" /\ tok_epnum = 1 => tok_pos = 0 /\ tok_buf = ep1_head

\* usbProcess drains a buffer for each packet it processes, so the EP1 ring,
\* whose head is never checked against its tail, holds one buffer at most.
OutRingNeverFills ==
    ep1_head # ep1_tail => pc = "ep1" /\ ep1_head = (ep1_tail + 1) % NUM_BUFFERS

\* The packet buffer is not sent by the interrupt while the main loop builds
\* the next packet in it.
NoTornPacket == pc \in {"fill", "queue", "size"} => queued_size = 0

\* Between packets, the one packet of a transfer is either still with the
\* interrupt or its ACK is in the queue: no ACK is counted twice, none is missing.
Acks == Cardinality({i \in DOMAIN queue : queue[i] = Ack})
OneAckPerPacket ==
    pc \notin TransferPcs =>
        (IF queued_size # 0 THEN 1 ELSE 0) + Acks = (IF packet_queued THEN 1 ELSE 0)

\* What the host reads in a control transfer is what getDescriptor answers to its own
\* request, chunk by chunk, nothing skipped, repeated or cut: the data of a read, and
\* in a status stage the first packet of the answer, which is empty but for SET_REPORT.
Wanted == Least(req.len, req.wLength)
ControlDataIntact ==
    \A i \in DOMAIN got :
        got[i] = [src |-> req, off |-> Chunk * (i - 1),
                  len |-> Least(Chunk, Wanted - Chunk * (i - 1))]

\* The host ends the data stage of a control read with all of the answer.
ControlReadComplete == ctl = "status_out" => Received = Wanted

\* When the queue is drained, every LED report the host saw acknowledged has
\* reached the main loop once; a fault on the wire costs or repeats one at most.
LedReportsArrive ==
    queue = << >> /\ pc = "usb" => led <= outs + faults /\ outs <= led + faults

\* "Pick the correct PID, DATA0 or DATA1" (grainuum-state.c:119): when the host
\* has all reports but the one being sent, that one carries the toggle the host
\* expects on its endpoint.
CorrectPid ==
    /\ queued_size # 0 /\ queued_epnum = 1 /\ pc \notin TransferPcs
    /\ accepted = Append(delivered, packet.src)
    => packet.pid = DataPid(toggle[1])

\* Exactly once, in order: the reports taken by usbSend are the reports the
\* host gets, one at a time.
Pipe == INSTANCE ReportPipe WITH Values <- {Report(n) : n \in 1 .. MaxReports}
ImplementsPipe == Pipe!Spec
EveryReportDelivered == Pipe!Liveness

\* Once the host has configured the device, a pending report is taken.
ReportsGetOut == (ready /\ enumeration = "configured") ~> ~ready

\* "If the packet is divisible by 8, this will cause one more call to this
\* function ... This will send a NULL packet, which indicates end-of-transfer."
\* (grainuum-state.c:171-173): a transfer with nothing left to send ends.
NullPacketEndsTransfer ==
    (enumeration = "configured" /\ data_out # NULL /\ EmptyPacket) ~> (data_out = NULL)

\* A control transfer comes to its end.
ControlEnds == (ctl # "none") ~> (ctl = "none")
=============================================================================
