-------------------------- MODULE RxTransferProofs --------------------------
(***************************************************************************)
(* What the receiver gets across the cable: the answers of control reads   *)
(* and the keyboard reports, for every set of requests, every number of    *)
(* reports and every number of lost packets, as long as what gets lost is  *)
(* one that the protocol can lose (Quiet).  usb_mixed, usb_pid and         *)
(* usb_null_packet are what happens beyond it.                             *)
(***************************************************************************)
EXTENDS RxDongleProofs, FiniteSetTheorems

\* No LED reports; SETUP and OUT data, and ACKs that do not end a stage, are all
\* that gets lost.  A control read takes less than the answer, or all of it with
\* a short packet at the end; of what getDescriptor finds for any other request,
\* which goes into the status stage, the host takes one packet, a short one (for
\* SET_REPORT it is a single byte).  Reports, if there are any, follow the bare
\* enumeration.
Quiet ==
    /\ MaxOuts = 0
    /\ Faults \subseteq {"data", "ack0", "ack1"}
    /\ \A r \in Requests :
          IF r.kind = "get"
          THEN ~(r.wLength # 0 /\ r.wLength % Chunk = 0 /\ r.wLength <= r.len)
          ELSE Least(r.len, r.wLength) < Chunk
    /\ MaxReports # 0 => /\ ~EarlyKeys
                         /\ \A r \in Requests : r.kind \in {"set_address", "set_configuration"}

-----------------------------------------------------------------------------
(* The inductive invariant. *)

Positions == 1 .. Len(queue)
HasAck    == \E i \in Positions : queue[i].pid = "ACK"
HasSetup  == \E i \in Positions : queue[i].pid = "SETUP"
HasData0  == \E i \in Positions : queue[i].pid = "DATA0"
HasOut    == \E i \in Positions : queue[i].pid \in {"OUT", "DATA1"}
SetupLast == IF queue = << >> THEN packet_type = "setup" ELSE queue[Len(queue)].pid = "SETUP"
OutLast   == IF queue = << >> THEN packet_type = "out" ELSE queue[Len(queue)].pid = "OUT"

\* Each packet of SETUP or OUT data follows its token ...
FollowsToken ==
    \A i \in Positions :
        /\ queue[i].pid \in {"SETUP", "OUT"} => queue[i].ep = 0
        /\ queue[i].pid = "DATA0" =>
              /\ queue[i].body = req
              /\ IF i = 1 THEN packet_type = "setup" ELSE queue[i - 1].pid = "SETUP"
        /\ queue[i].pid = "DATA1" =>
              IF i = 1 THEN packet_type = "out" ELSE queue[i - 1].pid = "OUT"

\* ... an ACK comes before the next SETUP, and after a SETUP nothing but OUT data.
InOrder ==
    \A i, j \in Positions : i < j =>
        /\ queue[j].pid = "ACK" => queue[i].pid \in {"OUT", "DATA1"}
        /\ queue[i].pid = "DATA0" => queue[j].pid \in {"OUT", "DATA1"} /\ ctl # "data_in"

QueueInv == tok_epnum = 0 /\ FollowsToken /\ InOrder

\* The host reads, or writes, the request the device has seen.
Stages  == {"data_in", "status_in", "data_out"}
Reading == ctl \in Stages /\ ~HasData0

\* The main loop is to offer a packet to the host, or has.
Building == pc \in {"tx", "fill", "queue", "size"}
Offered  == queued_size # 0 \/ Building

Payloads == Sources \cup {NULL}
Chunks   == [src : Payloads, off : Nat, len : Nat]
HostType == /\ got \in Seq(Chunks)
            /\ toggle \in [Endpoints -> 0 .. 1]
            /\ accepted \in Seq(Payloads) /\ delivered \in Seq(Payloads)
            /\ bus_ep \in Endpoints
            /\ req.len \in Nat /\ req.wLength \in Nat
            /\ outs = 0

BusInv ==
    /\ bus \in {"idle", "setup", "out", "ack"}
    /\ bus = "setup" => ctl = "setup" /\ SetupLast
    /\ bus = "out" => ctl \in {"data_out", "status_out"} /\ bus_ep = 0 /\ OutLast
    /\ bus = "ack" => /\ queued_size # 0 /\ bus_ep = data_out_epnum
                      /\ bus_ep = 0 => ctl \in {"data_in", "status_in"}

StageInv ==
    /\ ctl \in Stages \cup {"none", "setup", "status_out"}
    /\ ctl # "none" => req \in Requests
    /\ ctl = "data_in" => req.kind = "get"
    /\ ctl \in {"status_in", "data_out"} => req.kind # "get"
    /\ HasData0 => ctl \in Stages /\ got = << >> /\ toggle[0] = 1
    /\ Reading => packet_type # "setup" /\ ~HasSetup
    /\ Reading /\ ctl = "data_in" => ~HasOut
    /\ ctl \in {"setup", "data_out"} => got = << >>

\* A transfer is offered to the host or waits with its ACK in the queue.
OfferInv ==
    /\ Building => queued_size = 0
    /\ data_out # NULL <=> Offered \/ HasAck
    /\ ~(Offered /\ HasAck)
    /\ queued_size # 0 => queued_size = packet.len + Overhead
    /\ queued_size # 0 \/ pc \in {"queue", "size"} =>
          /\ packet.src = data_out.src /\ packet.off = data_out.off
          /\ packet.len = Least(Chunk, Least(data_out_left, data_out_max))

\* How far the device is in a control transfer: where the host is, or one packet
\* behind with the ACK under way.
Behind == Chunk * Len(got) # data_out.off
ControlInv ==
    /\ ~Reading /\ data_out # NULL /\ data_out_epnum = 0 => ~Offered /\ LastAck
    /\ Reading =>
        /\ data_out # NULL /\ data_out_epnum = 0 /\ data_out.src = req
        /\ data_out_left = req.len - data_out.off
        /\ data_out_max = req.wLength - data_out.off
        /\ Chunk * Len(got) \in {data_out.off, data_out.off + Chunk}
        /\ ctl # "data_in" => data_out.off = 0
        /\ bus = "ack" \/ HasAck => Behind
        /\ bus # "ack" /\ Behind => ctl = "data_in" /\ ~LastAck
        /\ ~Behind =>
              /\ queued_size # 0 \/ pc \in {"fill", "queue", "size"}
                    => packet.pid = DataPid(toggle[0])
              /\ pc = "tx" \/ ctl = "data_in" => data_buffer[0] = toggle[0]
        /\ Behind =>
              /\ ~Building
              /\ queued_size # 0 => packet.pid = DataPid(1 - toggle[0])
              /\ ctl = "data_in" => data_buffer[0] = 1 - toggle[0]

Configured == enumeration = "configured"
Alone      == MaxReports # 0

\* A report is taken when the host has the one before, and the toggles of both
\* sides agree when its ACK is processed.
ReportInv ==
    /\ data_out_epnum = 1 \/ queued_epnum = 1 \/ ready => Configured /\ Alone
    /\ Alone => /\ ctl \in {"none", "setup", "status_in"}
                /\ ~HasOut
                /\ Reading => data_buffer[0] = 1
    /\ ~(Configured /\ Alone) => toggle[1] = 0 /\ accepted = delivered
    /\ accepted # delivered =>
          /\ data_out # NULL /\ data_out_epnum = 1 /\ Offered
          /\ accepted = Append(delivered, data_out.src)
    /\ Alone /\ Configured =>
          /\ ctl = "none" /\ ~HasSetup /\ ~HasData0
          /\ data_buffer[0] = IF HasAck \/ (Offered /\ pc # "tx" /\ accepted = delivered)
                              THEN 1 - toggle[1] ELSE toggle[1]
          /\ data_out # NULL /\ data_out_epnum = 1 =>
                IF pc = "tx" /\ accepted = delivered
                THEN data_out_left = 0 /\ data_out_max = 0
                ELSE data_out_left = Chunk /\ data_out_max = Chunk
          /\ queued_size # 0 \/ pc \in {"fill", "queue", "size"}
                => packet.pid = DataPid(data_buffer[0])
          /\ pc \in {"fill", "queue", "size"} => accepted # delivered
          /\ bus = "ack" => accepted = delivered

DataInv == ControlDataIntact /\ ControlReadComplete

Transfers == /\ HostType /\ QueueInv /\ BusInv /\ StageInv /\ OfferInv
             /\ ControlInv /\ ReportInv /\ DataInv
TInv == IInv /\ Transfers

-----------------------------------------------------------------------------
(* The queue: one packet is taken, or one is added. *)

LEMMA PacketPids ==
    ASSUME NEW p \in Packets
    PROVE  /\ p.pid \in {"SETUP", "OUT", "DATA0", "DATA1", "ACK"}
           /\ p.pid = "ACK" <=> p = Ack
BY DEF Packets, Token, Data, Ack

LEMMA QueuePids ==
    ASSUME TypeOK
    PROVE  /\ Len(queue) \in Nat
           /\ queue = << >> <=> Len(queue) = 0
           /\ \A i \in Positions :
                 /\ queue[i].pid \in {"SETUP", "OUT", "DATA0", "DATA1", "ACK"}
                 /\ queue[i].pid = "ACK" <=> queue[i] = Ack
<1>1. queue \in Seq(Packets) /\ Len(queue) \in Nat /\ (queue = << >> <=> Len(queue) = 0)
  BY DEF TypeOK
<1>2. \A i \in Positions : queue[i] \in Packets
  BY <1>1 DEF Positions
<1>3. QED
  BY <1>1, <1>2, PacketPids

LEMMA TakenPositions ==
    ASSUME TypeOK, NEW pid, Taken(pid)
    PROVE  /\ pc = "usb" /\ Len(queue) \in Nat \ {0}
           /\ Head(queue) = queue[1] /\ queue[1].pid = pid
           /\ Len(queue') = Len(queue) - 1
           /\ queue' = << >> <=> Len(queue) = 1
           /\ \A i \in Positions' : queue'[i] = queue[i + 1] /\ i + 1 \in Positions
<1>1. queue \in Seq(Packets) /\ queue # << >> /\ queue' = Tail(queue)
      /\ pc = "usb" /\ Head(queue).pid = pid
  BY DEF TypeOK, Taken
<1>2. Len(queue) \in Nat \ {0} /\ Len(queue') = Len(queue) - 1
      /\ Head(queue) = queue[1]
  BY <1>1
<1>3. queue' = << >> <=> Len(queue) = 1
  BY <1>1, <1>2
<1>4. \A i \in 1 .. Len(queue) - 1 : queue'[i] = queue[i + 1]
  BY <1>1, <1>2
<1>5. QED
  BY <1>1, <1>2, <1>3, <1>4 DEF Positions

LEMMA AppendPositions ==
    ASSUME TypeOK, NEW p, queue' = Append(queue, p)
    PROVE  /\ Len(queue) \in Nat /\ Len(queue') = Len(queue) + 1 /\ queue' # << >>
           /\ \A i \in Positions : queue'[i] = queue[i] /\ i \in Positions'
           /\ queue'[Len(queue) + 1] = p
           /\ \A i \in Positions' : i \in Positions \/ i = Len(queue) + 1
<1>1. queue \in Seq(Packets) /\ Len(queue) \in Nat
  BY DEF TypeOK
<1>2. Len(queue') = Len(queue) + 1 /\ queue' # << >>
      /\ queue'[Len(queue) + 1] = p
      /\ \A i \in 1 .. Len(queue) : queue'[i] = queue[i]
  BY <1>1
<1>3. QED
  BY <1>1, <1>2 DEF Positions

\* What is in the queue once a packet was taken from it.
LEMMA TakenHas ==
    ASSUME TypeOK, QueueInv, NEW pid, Taken(pid)
    PROVE  /\ HasAck' => HasAck /\ pid # "ACK"
           /\ HasSetup' => HasSetup
           /\ HasData0' => HasData0
           /\ HasOut' => HasOut
           /\ pid # "ACK" => (HasAck => HasAck')
           /\ pid # "SETUP" => (HasSetup => HasSetup')
           /\ pid # "DATA0" => (HasData0 => HasData0')
           /\ pid = "ACK" => HasAck
           /\ pid = "SETUP" => HasSetup /\ ~HasAck
           /\ pid = "DATA0" => /\ HasData0 /\ ~HasAck /\ ~HasSetup' /\ ~HasData0'
                               /\ ctl = "data_in" => ~HasOut'
                               /\ packet_type = "setup" /\ Head(queue).body = req
           /\ pid \in {"OUT", "DATA1"} => HasOut
           /\ pid = "DATA1" => packet_type = "out"
           /\ pid \in {"SETUP", "OUT"} => Head(queue).ep = 0
<1>1. /\ Len(queue) \in Nat \ {0}
      /\ Head(queue) = queue[1] /\ queue[1].pid = pid
      /\ Len(queue') = Len(queue) - 1
      /\ \A i \in Positions' : queue'[i] = queue[i + 1] /\ i + 1 \in Positions
  BY TakenPositions
<1>2. 1 \in Positions /\ \A i \in Positions : i # 1 => i - 1 \in Positions' /\ 1 < i
  BY <1>1 DEF Positions
<1>3. \A i \in Positions : i # 1 => queue'[i - 1] = queue[i]
  BY <1>1, <1>2 DEF Positions
<1>4. \A i \in Positions : i # 1 =>
          /\ queue[i].pid = "ACK" => pid \in {"OUT", "DATA1"}
          /\ pid = "DATA0" => queue[i].pid \in {"OUT", "DATA1"} /\ ctl # "data_in"
  BY <1>1, <1>2 DEF QueueInv, InOrder
<1>5. /\ pid \in {"SETUP", "OUT"} => queue[1].ep = 0
      /\ pid = "DATA0" => queue[1].body = req /\ packet_type = "setup"
      /\ pid = "DATA1" => packet_type = "out"
  BY <1>1, <1>2 DEF QueueInv, FollowsToken
<1>6. \A i \in Positions' : i + 1 # 1
  BY DEF Positions
<1>7. /\ HasAck' => HasAck /\ pid # "ACK"
      /\ HasSetup' => HasSetup
      /\ HasData0' => HasData0
      /\ HasOut' => HasOut
  BY <1>1, <1>4, <1>6 DEF HasAck, HasSetup, HasData0, HasOut
<1>8. /\ pid # "ACK" => (HasAck => HasAck')
      /\ pid # "SETUP" => (HasSetup => HasSetup')
      /\ pid # "DATA0" => (HasData0 => HasData0')
  BY <1>1, <1>2, <1>3 DEF HasAck, HasSetup, HasData0
<1>9. /\ pid = "ACK" => HasAck
      /\ pid = "SETUP" => HasSetup
      /\ pid = "DATA0" => HasData0
      /\ pid \in {"OUT", "DATA1"} => HasOut
  BY <1>1, <1>2 DEF HasAck, HasSetup, HasData0, HasOut
<1>10. pid \in {"SETUP", "DATA0"} => ~HasAck
  BY <1>1, <1>4 DEF HasAck
<1>11. pid = "DATA0" => ~HasSetup' /\ ~HasData0' /\ (ctl = "data_in" => ~HasOut')
  BY <1>1, <1>4, <1>6 DEF HasSetup, HasData0, HasOut
<1>12. QED
  BY <1>1, <1>5, <1>7, <1>8, <1>9, <1>10, <1>11

LEMMA TakenQueueInv ==
    ASSUME TypeOK, QueueInv, NEW pid, Taken(pid),
           tok_epnum' = 0, UNCHANGED <<req, ctl>>,
           pid = "SETUP" => packet_type' = "setup",
           pid = "OUT" => packet_type' = "out"
    PROVE  QueueInv' /\ (SetupLast => SetupLast') /\ (OutLast => OutLast')
<1>1. /\ Len(queue) \in Nat \ {0} /\ queue[1].pid = pid
      /\ Len(queue') = Len(queue) - 1
      /\ queue' = << >> <=> Len(queue) = 1
      /\ \A i \in Positions' : queue'[i] = queue[i + 1] /\ i + 1 \in Positions
  BY TakenPositions
<1>2. FollowsToken'
  <2> SUFFICES ASSUME NEW i \in Positions'
               PROVE
        /\ queue'[i].pid \in {"SETUP", "OUT"} => queue'[i].ep = 0
        /\ queue'[i].pid = "DATA0" =>
              /\ queue'[i].body = req'
              /\ IF i = 1 THEN packet_type' = "setup" ELSE queue'[i - 1].pid = "SETUP"
        /\ queue'[i].pid = "DATA1" =>
              IF i = 1 THEN packet_type' = "out" ELSE queue'[i - 1].pid = "OUT"
    BY DEF FollowsToken
  <2>1. queue'[i] = queue[i + 1] /\ i + 1 \in Positions /\ i + 1 # 1 /\ (i + 1) - 1 = i
    BY <1>1 DEF Positions
  <2>2. i # 1 => queue'[i - 1] = queue[i]
    BY <1>1 DEF Positions
  <2>3. /\ queue[i + 1].pid \in {"SETUP", "OUT"} => queue[i + 1].ep = 0
        /\ queue[i + 1].pid = "DATA0" => queue[i + 1].body = req /\ queue[i].pid = "SETUP"
        /\ queue[i + 1].pid = "DATA1" => queue[i].pid = "OUT"
    BY <2>1 DEF QueueInv, FollowsToken
  <2>4. QED
    BY <1>1, <2>1, <2>2, <2>3
<1>3. InOrder'
  <2> SUFFICES ASSUME NEW i \in Positions', NEW j \in Positions', i < j
               PROVE
        /\ queue'[j].pid = "ACK" => queue'[i].pid \in {"OUT", "DATA1"}
        /\ queue'[i].pid = "DATA0" => queue'[j].pid \in {"OUT", "DATA1"} /\ ctl' # "data_in"
    BY DEF InOrder
  <2>1. i + 1 \in Positions /\ j + 1 \in Positions /\ i + 1 < j + 1
    BY <1>1 DEF Positions
  <2>2. QED
    BY <1>1, <2>1 DEF QueueInv, InOrder
<1>4. Len(queue) # 1 => queue'[Len(queue')] = queue[Len(queue)]
  BY <1>1 DEF Positions
<1>5. queue # << >>
  BY <1>1
<1>6. QED
  BY <1>1, <1>2, <1>3, <1>4, <1>5 DEF QueueInv, SetupLast, OutLast

LEMMA AppendHas ==
    ASSUME TypeOK, NEW p, queue' = Append(queue, p)
    PROVE  /\ HasAck' <=> HasAck \/ p.pid = "ACK"
           /\ HasSetup' <=> HasSetup \/ p.pid = "SETUP"
           /\ HasData0' <=> HasData0 \/ p.pid = "DATA0"
           /\ HasOut' <=> HasOut \/ p.pid \in {"OUT", "DATA1"}
           /\ p.pid = "SETUP" => SetupLast'
           /\ p.pid = "OUT" => OutLast'
<1>1. /\ Len(queue) \in Nat /\ Len(queue') = Len(queue) + 1 /\ queue' # << >>
      /\ \A i \in Positions : queue'[i] = queue[i] /\ i \in Positions'
      /\ queue'[Len(queue) + 1] = p
      /\ \A i \in Positions' : i \in Positions \/ i = Len(queue) + 1
  BY AppendPositions
<1>2. Len(queue) + 1 \in Positions'
  BY <1>1 DEF Positions
<1>3. QED
  BY <1>1, <1>2 DEF HasAck, HasSetup, HasData0, HasOut, SetupLast, OutLast

LEMMA AppendQueueInv ==
    ASSUME TypeOK, QueueInv, NEW p, queue' = Append(queue, p),
           UNCHANGED <<tok_epnum, packet_type>>,
           p.pid \in {"SETUP", "OUT"} => p.ep = 0,
           p.pid = "DATA0" => p.body = req' /\ SetupLast,
           p.pid = "DATA1" => OutLast,
           p.pid = "ACK" => ~HasSetup /\ ~HasData0 /\ ~HasAck,
           p.pid \notin {"OUT", "DATA1"} => ~HasData0,
           HasData0 => UNCHANGED req /\ ctl' # "data_in"
    PROVE  QueueInv'
<1>1. /\ Len(queue) \in Nat /\ Len(queue') = Len(queue) + 1
      /\ \A i \in Positions : queue'[i] = queue[i] /\ i \in Positions'
      /\ queue'[Len(queue) + 1] = p
      /\ \A i \in Positions' : i \in Positions \/ i = Len(queue) + 1
  BY AppendPositions
<1>2. \A i \in Positions : queue[i].pid \in {"SETUP", "OUT", "DATA0", "DATA1", "ACK"}
  BY QueuePids
<1>3. FollowsToken'
  <2> SUFFICES ASSUME NEW i \in Positions'
               PROVE
        /\ queue'[i].pid \in {"SETUP", "OUT"} => queue'[i].ep = 0
        /\ queue'[i].pid = "DATA0" =>
              /\ queue'[i].body = req'
              /\ IF i = 1 THEN packet_type' = "setup" ELSE queue'[i - 1].pid = "SETUP"
        /\ queue'[i].pid = "DATA1" =>
              IF i = 1 THEN packet_type' = "out" ELSE queue'[i - 1].pid = "OUT"
    BY DEF FollowsToken
  <2>1. CASE i \in Positions
    <3>1. i # 1 => queue'[i - 1] = queue[i - 1]
      BY <1>1, <2>1 DEF Positions
    <3>2. /\ queue[i].pid \in {"SETUP", "OUT"} => queue[i].ep = 0
          /\ queue[i].pid = "DATA0" =>
                /\ queue[i].body = req
                /\ IF i = 1 THEN packet_type = "setup" ELSE queue[i - 1].pid = "SETUP"
          /\ queue[i].pid = "DATA1" =>
                IF i = 1 THEN packet_type = "out" ELSE queue[i - 1].pid = "OUT"
      BY <2>1 DEF QueueInv, FollowsToken
    <3>3. queue[i].pid = "DATA0" => UNCHANGED req
      BY <2>1 DEF HasData0
    <3>4. QED
      BY <1>1, <2>1, <3>1, <3>2, <3>3
  <2>2. CASE i = Len(queue) + 1
    <3>1. queue'[i] = p
      BY <1>1, <2>2
    <3>2. queue = << >> <=> i = 1
      BY <1>1, <2>2, QueuePids
    <3>3. i # 1 => queue'[i - 1] = queue[Len(queue)]
      BY <1>1, <2>2 DEF Positions
    <3>4. SetupLast => IF i = 1 THEN packet_type = "setup" ELSE queue'[i - 1].pid = "SETUP"
      BY <3>2, <3>3 DEF SetupLast
    <3>5. OutLast => IF i = 1 THEN packet_type = "out" ELSE queue'[i - 1].pid = "OUT"
      BY <3>2, <3>3 DEF OutLast
    <3>6. QED
      BY <3>1, <3>4, <3>5
  <2>3. QED
    BY <1>1, <2>1, <2>2
<1>4. InOrder'
  <2> SUFFICES ASSUME NEW i \in Positions', NEW j \in Positions', i < j
               PROVE
        /\ queue'[j].pid = "ACK" => queue'[i].pid \in {"OUT", "DATA1"}
        /\ queue'[i].pid = "DATA0" => queue'[j].pid \in {"OUT", "DATA1"} /\ ctl' # "data_in"
    BY DEF InOrder
  <2>1. i \in Positions /\ queue'[i] = queue[i]
    BY <1>1 DEF Positions
  <2>2. CASE j \in Positions
    <3>1. queue'[j] = queue[j]
      BY <1>1, <2>2
    <3>2. queue[i].pid = "DATA0" => ctl' # "data_in"
      BY <2>1 DEF HasData0
    <3>3. QED
      BY <2>1, <2>2, <3>1, <3>2 DEF QueueInv, InOrder
  <2>3. CASE j = Len(queue) + 1
    <3>1. queue'[j] = p
      BY <1>1, <2>3
    <3>2. p.pid = "ACK" => queue[i].pid \in {"OUT", "DATA1"}
      BY <1>2, <2>1 DEF HasAck, HasSetup, HasData0
    <3>3. queue[i].pid = "DATA0" => p.pid \in {"OUT", "DATA1"} /\ ctl' # "data_in"
      BY <2>1 DEF HasData0
    <3>4. QED
      BY <2>1, <3>1, <3>2, <3>3
  <2>4. QED
    BY <1>1, <2>2, <2>3
<1>5. QED
  BY <1>3, <1>4 DEF QueueInv

LEMMA SameQueue ==
    ASSUME UNCHANGED <<queue, packet_type, tok_epnum, req, ctl>>
    PROVE  /\ HasAck' = HasAck /\ HasSetup' = HasSetup /\ HasData0' = HasData0
           /\ HasOut' = HasOut /\ SetupLast' = SetupLast /\ OutLast' = OutLast
           /\ Reading' = Reading
           /\ QueueInv => QueueInv'
<1>1. HasAck' = HasAck /\ HasSetup' = HasSetup /\ HasData0' = HasData0 /\ HasOut' = HasOut
  BY DEF HasAck, HasSetup, HasData0, HasOut, Positions
<1>2. SetupLast' = SetupLast /\ OutLast' = OutLast
  BY DEF SetupLast, OutLast
<1>3. QueueInv => QueueInv'
  BY DEF QueueInv, FollowsToken, InOrder, Positions
<1>4. QED
  BY <1>1, <1>2, <1>3 DEF Reading

\* The main loop does not touch what the host keeps.
LEMMA HostSame ==
    ASSUME UNCHANGED host
    PROVE  /\ UNCHANGED <<bus, bus_ep, ctl, req, got, toggle, enumeration, delivered, outs>>
           /\ DataInv => DataInv'
           /\ HostType /\ accepted' \in Seq(Payloads) => HostType'
<1>1. UNCHANGED <<bus, bus_ep, ctl, req, got, toggle, enumeration, delivered, outs>>
  BY DEF host, stage
<1>2. DataInv => DataInv'
  BY <1>1 DEF DataInv, ControlDataIntact, ControlReadComplete, Wanted, Received
<1>3. HostType /\ accepted' \in Seq(Payloads) => HostType'
  BY <1>1 DEF HostType
<1>4. QED
  BY <1>1, <1>2, <1>3

LEMMA InitTransfers == Init => Transfers
<1> SUFFICES ASSUME Init PROVE Transfers
  OBVIOUS
<1> USE DEF Init, DeviceInit
<1>1. Positions = {} /\ Len(queue) = 0
  BY DEF Positions
<1>2. ~HasAck /\ ~HasSetup /\ ~HasData0 /\ ~HasOut
  BY <1>1 DEF HasAck, HasSetup, HasData0, HasOut
<1>3. QueueInv
  BY <1>1 DEF QueueInv, FollowsToken, InOrder
<1>4. HostType
  BY DEF HostType, Endpoints, Unknown
<1>5. BusInv /\ StageInv
  BY <1>2 DEF BusInv, StageInv, Reading, Stages
<1>6. OfferInv /\ ControlInv
  BY <1>2 DEF OfferInv, ControlInv, Reading, Stages, Offered, Building
<1>7. ReportInv
  BY <1>2 DEF ReportInv, Configured, Reading, Stages, Endpoints
<1>8. DataInv
  BY DEF DataInv, ControlDataIntact, ControlReadComplete
<1>9. QED
  BY <1>3, <1>4, <1>5, <1>6, <1>7, <1>8 DEF Transfers

-----------------------------------------------------------------------------
(* grainuumProcess *)

LEMMA SetupTokenTransfers ==
    TInv /\ ProcessSetupToken /\ UNCHANGED <<main, host>> => Transfers'
<1> SUFFICES ASSUME TInv, ProcessSetupToken, UNCHANGED <<main, host>> PROVE Transfers'
  OBVIOUS
<1> USE DEF TInv, Transfers
<1>0. TypeOK /\ Taken("SETUP") /\ UNCHANGED accepted
  BY DEF IInv, ProcessSetupToken, main
<1>1. /\ pc = "usb" /\ pc' = "ep1" /\ packet_type' = "setup" /\ tok_epnum' = Head(queue).ep
      /\ data_out' = NULL /\ data_out_left' = 0 /\ data_out_max' = 0
      /\ UNCHANGED <<queued_size, queued_epnum, packet, data_out_epnum, data_buffer, ready>>
  BY DEF ProcessSetupToken, Taken, ClearTx, phy, main
<1>2. /\ HasSetup /\ ~HasAck /\ ~HasAck'
      /\ HasSetup' => HasSetup
      /\ HasData0' <=> HasData0
      /\ HasOut' => HasOut
      /\ Head(queue).ep = 0
  BY <1>0, TakenHas
<1>3. /\ UNCHANGED <<bus, bus_ep, ctl, req, got, toggle, enumeration, delivered, outs>>
      /\ DataInv' /\ HostType'
  BY <1>0, HostSame DEF HostType
<1>4. QueueInv' /\ (SetupLast => SetupLast') /\ (OutLast => OutLast')
  BY <1>0, <1>1, <1>2, <1>3, TakenQueueInv
(* A SETUP waits for no transfer: the device has nothing to offer. *)
<1>5. ~Reading /\ (Reading' <=> Reading)
  BY <1>2, <1>3 DEF StageInv, Reading
<1>6. ~Offered /\ data_out = NULL /\ ~Offered' /\ queued_size = 0
  <2>1. data_out # NULL => data_out_epnum = 1
    <3>1. data_out # NULL => Offered
      BY <1>2 DEF OfferInv
    <3>2. data_out_epnum \in {0, 1}
      BY <1>0 DEF TypeOK, Endpoints
    <3>3. QED
      BY <1>5, <3>1, <3>2 DEF ControlInv
  <2>2. data_out_epnum # 1
    BY <1>2 DEF ReportInv
  <2>3. QED
    BY <1>1, <1>2, <2>1, <2>2 DEF OfferInv, Offered, Building
<1>7. BusInv'
  BY <1>1, <1>3, <1>4, <1>6 DEF BusInv
<1>8. StageInv'
  BY <1>1, <1>2, <1>3, <1>5 DEF StageInv
<1>9. OfferInv'
  BY <1>1, <1>2, <1>6 DEF OfferInv, Building, Offered
<1>10. ControlInv'
  BY <1>1, <1>5 DEF ControlInv
<1>11. ReportInv'
  BY <1>1, <1>2, <1>3, <1>5, <1>6, <1>0 DEF ReportInv, Configured
<1>12. QED
  BY <1>3, <1>4, <1>7, <1>8, <1>9, <1>10, <1>11

LEMMA OutTokenTransfers ==
    TInv /\ ProcessOutToken /\ UNCHANGED <<main, host>> => Transfers'
<1> SUFFICES ASSUME TInv, ProcessOutToken, UNCHANGED <<main, host>> PROVE Transfers'
  OBVIOUS
<1> USE DEF TInv, Transfers
<1>0. TypeOK /\ Taken("OUT") /\ UNCHANGED accepted
  BY DEF IInv, ProcessOutToken, main
<1>1. /\ pc = "usb" /\ pc' = "ep1" /\ packet_type' = "out" /\ tok_epnum' = Head(queue).ep
      /\ UNCHANGED <<queued_size, queued_epnum, packet, data_out, data_out_left, data_out_max,
                     data_out_epnum, data_buffer, ready>>
  BY DEF ProcessOutToken, Taken, phy, transfer, main
<1>2. /\ HasAck' <=> HasAck
      /\ HasSetup' <=> HasSetup
      /\ HasData0' <=> HasData0
      /\ HasOut
      /\ Head(queue).ep = 0
  BY <1>0, TakenHas
<1>3. /\ UNCHANGED <<bus, bus_ep, ctl, req, got, toggle, enumeration, delivered, outs>>
      /\ DataInv' /\ HostType'
  BY <1>0, HostSame DEF HostType
<1>4. QueueInv' /\ (SetupLast => SetupLast') /\ (OutLast => OutLast')
  BY <1>0, <1>1, <1>2, <1>3, TakenQueueInv
<1>5. (Reading' <=> Reading) /\ (Offered' <=> Offered) /\ (Building' <=> Building)
      /\ (LastAck' <=> LastAck) /\ (Behind' <=> Behind)
  BY <1>1, <1>2, <1>3 DEF Reading, Offered, Building, LastAck, Behind
<1>6. ~Alone
  BY <1>2 DEF ReportInv
<1>7. BusInv'
  BY <1>1, <1>3, <1>4 DEF BusInv
<1>8. StageInv'
  BY <1>1, <1>2, <1>3, <1>5 DEF StageInv
<1>9. OfferInv'
  BY <1>1, <1>2, <1>5 DEF OfferInv, Building
<1>10. ControlInv'
  BY <1>1, <1>2, <1>3, <1>5 DEF ControlInv
<1>11. ReportInv'
  BY <1>1, <1>3, <1>5, <1>6, <1>0 DEF ReportInv, Configured, Alone
<1>12. QED
  BY <1>3, <1>4, <1>7, <1>8, <1>9, <1>10, <1>11

\* What all packets of data change.
LEMMA TakenDataEffect ==
    ASSUME TInv, TakenData, NEW bit \in 0 .. 1, Taken(DataPid(1 - bit))
    PROVE  /\ data_buffer' = [data_buffer EXCEPT ![0] = bit]
           /\ data_buffer'[0] = bit /\ UNCHANGED phy
           /\ DataPid(1 - bit) = IF bit = 0 THEN "DATA1" ELSE "DATA0"
<1>1. \A b \in 0 .. 1 : DataPid(1 - b) = IF b = 0 THEN "DATA1" ELSE "DATA0"
  BY DEF DataPid
<1>2. PICK b \in 0 .. 1 : Taken(DataPid(1 - b))
                          /\ data_buffer' = [data_buffer EXCEPT ![tok_epnum] = b]
  BY DEF TakenData
<1>3. b = bit
  BY <1>1, <1>2 DEF Taken
<1>4. tok_epnum = 0 /\ data_buffer \in [Endpoints -> 0 .. 1]
  BY DEF TInv, Transfers, QueueInv, IInv, TypeOK
<1>5. data_buffer' = [data_buffer EXCEPT ![0] = bit] /\ data_buffer'[0] = bit
  BY <1>2, <1>3, <1>4 DEF Endpoints
<1>6. QED
  BY <1>1, <1>5 DEF TakenData

LEMMA SetupDataTransfers ==
    TInv /\ ProcessSetupData /\ UNCHANGED <<main, host>> => Transfers'
<1> SUFFICES ASSUME TInv, ProcessSetupData, UNCHANGED <<main, host>> PROVE Transfers'
  OBVIOUS
<1> USE DEF TInv, Transfers
<1>0. TypeOK /\ TakenData /\ UNCHANGED accepted /\ packet_type = "setup"
  BY DEF IInv, ProcessSetupData, main
<1>a. PICK bit \in 0 .. 1 : Taken(DataPid(1 - bit))
  BY <1>0 DEF TakenData
<1>b. bit = 1 /\ Taken("DATA0")
  <2>1. DataPid(1 - bit) = IF bit = 0 THEN "DATA1" ELSE "DATA0"
    BY <1>0, <1>a, TakenDataEffect
  <2>2. ~Taken("DATA1")
    BY <1>0, TakenHas
  <2>3. QED
    BY <1>a, <2>1, <2>2
<1>2. /\ HasData0 /\ ~HasAck /\ ~HasSetup' /\ ~HasData0' /\ ~HasAck'
      /\ ctl = "data_in" => ~HasOut'
      /\ HasOut' => HasOut
      /\ Head(queue).body = req
  BY <1>0, <1>b, TakenHas
<1>3. /\ UNCHANGED <<bus, bus_ep, ctl, req, got, toggle, enumeration, delivered, outs>>
      /\ DataInv' /\ HostType'
  BY <1>0, HostSame DEF HostType
<1>c. ctl \in Stages /\ got = << >> /\ toggle[0] = 1 /\ req # NULL /\ Reading' /\ ~Reading
  <2>1. ctl \in Stages /\ got = << >> /\ toggle[0] = 1
    BY <1>2 DEF StageInv
  <2>2. req \in Requests
    BY <2>1 DEF StageInv, Stages
  <2>3. req # NULL
    BY <2>2, NullAssumption DEF Sources
  <2>4. QED
    BY <1>2, <1>3, <2>1, <2>3 DEF Reading
<1>1. /\ pc = "usb" /\ pc' = "tx" /\ packet_type' = "none" /\ tok_epnum' = 0
      /\ data_out' = [src |-> req, off |-> 0]
      /\ data_out_left' = req.len /\ data_out_max' = req.wLength
      /\ data_out_epnum' = 0 /\ data_buffer'[0] = 1
      /\ UNCHANGED <<queued_size, queued_epnum, packet, ready>>
  <2>1. data_buffer'[0] = 1 /\ UNCHANGED phy
    BY <1>0, <1>a, <1>b, TakenDataEffect
  <2>2. pc = "usb" /\ tok_epnum = 0
    BY <1>b DEF Taken, QueueInv
  <2>3. QED
    BY <1>2, <1>c, <2>1, <2>2 DEF ProcessSetupData, SendData, phy, main
<1>4. QueueInv' /\ (SetupLast => SetupLast') /\ (OutLast => OutLast')
  <2>1. tok_epnum' = 0 /\ UNCHANGED <<req, ctl>>
    BY <1>1, <1>3
  <2>2. QED
    BY <1>0, <1>b, <2>1, TakenQueueInv
<1>5. data_out' # NULL /\ data_out'.src = req /\ data_out'.off = 0
  <2>1. [src |-> req, off |-> 0] \in Pointers
    <3>1. req \in Sources
      BY <1>c DEF StageInv, Stages, Sources
    <3>2. QED
      BY <3>1 DEF Pointers
  <2>2. QED
    BY <1>1, <2>1, NullAssumption
<1>6. ~Offered /\ data_out = NULL /\ Offered' /\ Building' /\ queued_size = 0
  <2>1. data_out # NULL => data_out_epnum = 1
    <3>1. data_out # NULL => Offered
      BY <1>2 DEF OfferInv
    <3>2. data_out_epnum \in {0, 1}
      BY <1>0 DEF TypeOK, Endpoints
    <3>3. QED
      BY <1>c, <3>1, <3>2 DEF ControlInv
  <2>2. data_out_epnum # 1
    BY <1>2 DEF ReportInv
  <2>3. QED
    BY <1>1, <1>2, <2>1, <2>2 DEF OfferInv, Offered, Building
<1>7. BusInv'
  BY <1>1, <1>3, <1>4, <1>6 DEF BusInv
<1>8. StageInv'
  BY <1>1, <1>2, <1>3, <1>c DEF StageInv
<1>9. OfferInv'
  BY <1>1, <1>2, <1>5, <1>6 DEF OfferInv
<1>10. ControlInv'
  <2>1. ~Behind' /\ Chunk * Len(got) = 0
    BY <1>3, <1>5, <1>c DEF Behind, Chunk
  <2>2. bus # "ack"
    BY <1>6 DEF BusInv
  <2>3. req.len \in Nat /\ req.wLength \in Nat
    BY DEF HostType
  <2>4. QED
    BY <1>1, <1>2, <1>3, <1>5, <1>6, <1>c, <2>1, <2>2, <2>3 DEF ControlInv
<1>11. ReportInv'
  <2>1. ~(Alone /\ Configured) /\ ~ready /\ queued_epnum # 1
    BY <1>2 DEF ReportInv
  <2>2. QED
    BY <1>1, <1>2, <1>3, <1>6, <2>1, <1>0 DEF ReportInv, Configured, Alone
<1>12. QED
  BY <1>3, <1>4, <1>7, <1>8, <1>9, <1>10, <1>11

LEMMA OutDataTransfers == TInv => ~ProcessOutData
BY DEF TInv, Transfers, QueueInv, ProcessOutData

\* The data of an OUT changes the toggle of a transfer whose packet is built.
LEMMA IgnoreDataTransfers ==
    TInv /\ IgnoreData /\ UNCHANGED <<main, host>> => Transfers'
<1> SUFFICES ASSUME TInv, IgnoreData, UNCHANGED <<main, host>> PROVE Transfers'
  OBVIOUS
<1> USE DEF TInv, Transfers
<1>0. TypeOK /\ TakenData /\ UNCHANGED accepted /\ packet_type # "setup"
  BY DEF IInv, IgnoreData, main
<1>a. PICK bit \in 0 .. 1 : Taken(DataPid(1 - bit))
  BY <1>0 DEF TakenData
<1>b. Taken("DATA1")
  <2>1. DataPid(1 - bit) = IF bit = 0 THEN "DATA1" ELSE "DATA0"
    BY <1>0, <1>a, TakenDataEffect
  <2>2. ~Taken("DATA0")
    BY <1>0, TakenHas
  <2>3. QED
    BY <1>a, <2>1, <2>2
<1>1. /\ pc = "usb" /\ pc' = "ep1"
      /\ UNCHANGED <<queued_size, queued_epnum, packet, data_out, data_out_left, data_out_max,
                     data_out_epnum, packet_type, tok_epnum, ready>>
  BY <1>0, <1>b DEF IgnoreData, TakenData, Taken, phy, transfer, token, main
<1>2. /\ HasAck' <=> HasAck
      /\ HasSetup' <=> HasSetup
      /\ HasData0' <=> HasData0
      /\ HasOut
  BY <1>0, <1>b, TakenHas
<1>3. /\ UNCHANGED <<bus, bus_ep, ctl, req, got, toggle, enumeration, delivered, outs>>
      /\ DataInv' /\ HostType'
  BY <1>0, HostSame DEF HostType
<1>4. QueueInv' /\ (SetupLast => SetupLast') /\ (OutLast => OutLast')
  <2>1. tok_epnum' = 0 /\ UNCHANGED <<req, ctl>>
    BY <1>1, <1>3 DEF QueueInv
  <2>2. QED
    BY <1>0, <1>b, <2>1, TakenQueueInv
<1>5. (Reading' <=> Reading) /\ (Offered' <=> Offered) /\ (Building' <=> Building)
      /\ (LastAck' <=> LastAck) /\ (Behind' <=> Behind)
  BY <1>1, <1>2, <1>3 DEF Reading, Offered, Building, LastAck, Behind
<1>6. ~Alone /\ ~(Reading /\ ctl = "data_in")
  BY <1>2 DEF ReportInv, StageInv
<1>7. BusInv'
  BY <1>1, <1>3, <1>4 DEF BusInv
<1>8. StageInv'
  BY <1>1, <1>2, <1>3, <1>5, <1>6 DEF StageInv
<1>9. OfferInv'
  BY <1>1, <1>2, <1>5 DEF OfferInv, Building
<1>10. ControlInv'
  BY <1>1, <1>2, <1>3, <1>5, <1>6 DEF ControlInv
<1>11. ReportInv'
  BY <1>1, <1>3, <1>5, <1>6, <1>0 DEF ReportInv, Configured, Alone
<1>12. QED
  BY <1>3, <1>4, <1>7, <1>8, <1>9, <1>10, <1>11

\* What both kinds of ACK change.
LEMMA TakenAckEffect ==
    ASSUME TInv, Taken("ACK"), UNCHANGED host,
           data_buffer' = [data_buffer EXCEPT ![tok_epnum] = 1 - @]
    PROVE  /\ data_buffer'[0] = 1 - data_buffer[0] /\ data_buffer[0] \in 0 .. 1
           /\ HasAck /\ ~HasAck' /\ ~Offered /\ data_out # NULL
           /\ HasSetup' <=> HasSetup
           /\ HasData0' <=> HasData0
           /\ HasOut' => HasOut
           /\ Reading' <=> Reading
           /\ queued_size = 0 /\ bus # "ack" /\ pc = "usb" /\ tok_epnum = 0
<1> USE DEF TInv, Transfers
<1>1. TypeOK /\ tok_epnum = 0 /\ UNCHANGED ctl
  BY HostSame DEF IInv, QueueInv
<1>2. /\ HasAck /\ ~HasAck'
      /\ HasSetup' <=> HasSetup
      /\ HasData0' <=> HasData0
      /\ HasOut' => HasOut
  BY <1>1, TakenHas
<1>3. ~Offered /\ data_out # NULL /\ queued_size = 0
  BY <1>2 DEF OfferInv, Offered
<1>4. data_buffer'[0] = 1 - data_buffer[0] /\ data_buffer[0] \in 0 .. 1
  BY <1>1 DEF TypeOK, Endpoints
<1>5. QED
  BY <1>1, <1>2, <1>3, <1>4 DEF BusInv, Reading, Taken

LEMMA LastAckTransfers ==
    TInv /\ ProcessLastAck /\ UNCHANGED <<main, host>> => Transfers'
<1> SUFFICES ASSUME TInv, ProcessLastAck, UNCHANGED <<main, host>> PROVE Transfers'
  OBVIOUS
<1> USE DEF TInv, Transfers
<1>0. TypeOK /\ Taken("ACK") /\ LastAck /\ UNCHANGED accepted
      /\ data_buffer' = [data_buffer EXCEPT ![tok_epnum] = 1 - @]
  BY DEF IInv, ProcessLastAck, main
<1>1. /\ pc' = "ep1" /\ packet_type' \in {packet_type, "none"}
      /\ data_out' = NULL /\ data_out_left' = 0 /\ data_out_max' = 0
      /\ UNCHANGED <<queued_size, queued_epnum, packet, data_out_epnum, tok_epnum, ready>>
  BY DEF ProcessLastAck, ClearTx, phy, main
<1>2. /\ data_buffer'[0] = 1 - data_buffer[0] /\ data_buffer[0] \in 0 .. 1
      /\ HasAck /\ ~HasAck' /\ ~Offered /\ data_out # NULL
      /\ HasSetup' <=> HasSetup
      /\ HasData0' <=> HasData0
      /\ HasOut' => HasOut
      /\ Reading' <=> Reading
      /\ queued_size = 0 /\ bus # "ack" /\ pc = "usb" /\ tok_epnum = 0
  BY <1>0, TakenAckEffect
<1>3. /\ UNCHANGED <<bus, bus_ep, ctl, req, got, toggle, enumeration, delivered, outs>>
      /\ DataInv' /\ HostType'
  BY <1>0, HostSame DEF HostType
<1>4. QueueInv' /\ (SetupLast => SetupLast') /\ (OutLast => OutLast')
  BY <1>0, <1>1, <1>2, <1>3, TakenQueueInv
<1>5. ~Reading /\ ~Offered'
  <2>1. Reading => Behind /\ ~LastAck
    BY <1>2 DEF ControlInv
  <2>2. QED
    BY <1>0, <1>1, <1>2, <2>1 DEF Offered, Building
<1>6. ~Configured \/ ~Alone \/ data_out_epnum = 0
  BY <1>0, <1>2 DEF ReportInv, LastAck, TypeOK, Endpoints, Chunk
<1>7. BusInv'
  BY <1>1, <1>2, <1>3, <1>4 DEF BusInv
<1>8. StageInv'
  BY <1>1, <1>2, <1>3, <1>5 DEF StageInv
<1>9. OfferInv'
  BY <1>1, <1>2, <1>5 DEF OfferInv, Building, Offered
<1>10. ControlInv'
  BY <1>1, <1>2, <1>5 DEF ControlInv
<1>11. ReportInv'
  BY <1>0, <1>1, <1>2, <1>3, <1>5 DEF ReportInv, Configured, Alone
<1>12. QED
  BY <1>3, <1>4, <1>7, <1>8, <1>9, <1>10, <1>11

LEMMA OneChunkLess ==
    ASSUME NEW all \in Nat, NEW off \in Nat
    PROVE  (all - off) - Chunk = all - (off + Chunk)
BY DEF Chunk

LEMMA AckTransfers ==
    TInv /\ ProcessAck /\ UNCHANGED <<main, host>> => Transfers'
<1> SUFFICES ASSUME TInv, ProcessAck, UNCHANGED <<main, host>> PROVE Transfers'
  OBVIOUS
<1> USE DEF TInv, Transfers
<1>0. TypeOK /\ Taken("ACK") /\ ~LastAck /\ UNCHANGED accepted
      /\ data_buffer' = [data_buffer EXCEPT ![tok_epnum] = 1 - @]
  BY DEF IInv, ProcessAck, main
<1>2. /\ data_buffer'[0] = 1 - data_buffer[0] /\ data_buffer[0] \in 0 .. 1
      /\ HasAck /\ ~HasAck' /\ ~Offered /\ data_out # NULL
      /\ HasSetup' <=> HasSetup
      /\ HasData0' <=> HasData0
      /\ HasOut' => HasOut
      /\ Reading' <=> Reading
      /\ queued_size = 0 /\ bus # "ack" /\ pc = "usb" /\ tok_epnum = 0
  BY <1>0, TakenAckEffect
<1>1. /\ pc' = "tx"
      /\ data_out_left' = data_out_left - Chunk /\ data_out_max' = data_out_max - Chunk
      /\ UNCHANGED <<queued_size, queued_epnum, packet, data_out_epnum, packet_type,
                     tok_epnum, ready>>
  BY DEF ProcessAck, phy, token, main
<1>a. data_out' # NULL /\ data_out'.src = data_out.src /\ data_out'.off = data_out.off + Chunk
      /\ data_out.off \in Nat
  <2>1. data_out \in [src : Sources, off : Nat]
    BY <1>0, <1>2 DEF TypeOK, Pointers
  <2>2. data_out' = [data_out EXCEPT !.off = data_out.off + Chunk]
    BY DEF ProcessAck
  <2>3. data_out' \in Pointers
    BY <2>1, <2>2 DEF Pointers, Chunk
  <2>4. QED
    BY <2>1, <2>2, <2>3, NullAssumption
<1>3. /\ UNCHANGED <<bus, bus_ep, ctl, req, got, toggle, enumeration, delivered, outs>>
      /\ DataInv' /\ HostType'
  BY <1>0, HostSame DEF HostType
<1>4. QueueInv' /\ (SetupLast => SetupLast') /\ (OutLast => OutLast')
  BY <1>0, <1>1, <1>2, <1>3, TakenQueueInv
<1>5. Offered' /\ Building'
  BY <1>1 DEF Offered, Building
(* Only a control read and a report have more than one packet. *)
<1>6. Reading => ctl = "data_in" /\ Behind /\ ~Behind' /\ toggle[0] \in 0 .. 1
  <2>1. Reading => Chunk * Len(got) \in {data_out.off, data_out.off + Chunk}
                   /\ Behind /\ ctl = "data_in"
    BY <1>2 DEF ControlInv
  <2>2. toggle[0] \in 0 .. 1
    BY DEF HostType, Endpoints
  <2>3. QED
    BY <1>3, <1>a, <2>1, <2>2 DEF Behind
<1>b. ~Reading => data_out_epnum = 1 /\ Configured /\ Alone
  BY <1>0, <1>2 DEF ControlInv, ReportInv, TypeOK, Endpoints
<1>7. BusInv'
  BY <1>1, <1>2, <1>3, <1>4 DEF BusInv
<1>8. StageInv'
  BY <1>1, <1>2, <1>3 DEF StageInv
<1>9. OfferInv'
  BY <1>1, <1>2, <1>5, <1>a DEF OfferInv
<1>10. ControlInv'
  <2>1. CASE Reading
    <3>1. /\ data_out.src = req /\ data_out_epnum = 0
          /\ data_out_left = req.len - data_out.off
          /\ data_out_max = req.wLength - data_out.off
          /\ Chunk * Len(got) \in {data_out.off, data_out.off + Chunk}
          /\ data_buffer[0] = 1 - toggle[0]
      BY <1>6, <2>1 DEF ControlInv
    <3>2. Chunk * Len(got) = data_out.off + Chunk
      BY <1>6, <2>1, <3>1 DEF Behind
    <3>3. data_buffer'[0] = toggle[0] /\ req.len \in Nat /\ req.wLength \in Nat
      BY <1>2, <1>6, <2>1, <3>1 DEF HostType
    <3>4. data_out_left' = req.len - data_out'.off /\ data_out_max' = req.wLength - data_out'.off
      BY <1>1, <1>a, <3>1, <3>3, OneChunkLess
    <3>5. QED
      BY <1>1, <1>2, <1>3, <1>6, <1>a, <2>1, <3>1, <3>2, <3>3, <3>4 DEF ControlInv
  <2>2. CASE ~Reading
    BY <1>1, <1>2, <1>b, <2>2 DEF ControlInv
  <2>3. QED
    BY <2>1, <2>2
<1>11. ReportInv'
  <2>1. CASE Reading
    <3>1. ~Alone
      BY <1>6, <2>1 DEF ReportInv
    <3>2. data_out_epnum # 1
      BY <3>1 DEF ReportInv
    <3>3. QED
      BY <1>0, <1>1, <1>2, <1>3, <3>1, <3>2 DEF ReportInv, Configured, Alone
  <2>2. CASE ~Reading
    <3>1. accepted = delivered /\ data_out_left = 8 /\ data_out_max = 8
          /\ data_buffer[0] = 1 - toggle[1]
      BY <1>2, <1>b, <2>2 DEF ReportInv, Chunk
    <3>2. toggle[1] \in 0 .. 1
      BY DEF HostType, Endpoints
    <3>3. data_buffer'[0] = toggle[1] /\ data_out_left' = 0 /\ data_out_max' = 0
      BY <1>1, <1>2, <3>1, <3>2 DEF Chunk
    <3>4. QED
      BY <1>0, <1>1, <1>2, <1>3, <1>5, <1>b, <2>2, <3>1, <3>3 DEF ReportInv, Configured, Alone
  <2>3. QED
    BY <2>1, <2>2
<1>12. QED
  BY <1>3, <1>4, <1>7, <1>8, <1>9, <1>10, <1>11

-----------------------------------------------------------------------------
(* grainuum_state_process_tx *)

\* Steps of the main loop that leave the queue alone.
LEMMA QuietStep ==
    ASSUME Transfers, UNCHANGED host, UNCHANGED <<queue, packet_type, tok_epnum>>
    PROVE  /\ UNCHANGED <<bus, bus_ep, ctl, req, got, toggle, enumeration, delivered, outs>>
           /\ DataInv' /\ QueueInv' /\ StageInv'
           /\ HasAck' = HasAck /\ HasSetup' = HasSetup /\ HasData0' = HasData0
           /\ HasOut' = HasOut /\ SetupLast' = SetupLast /\ OutLast' = OutLast
           /\ Reading' = Reading
           /\ accepted' \in Seq(Payloads) => HostType'
<1>1. /\ UNCHANGED <<bus, bus_ep, ctl, req, got, toggle, enumeration, delivered, outs>>
      /\ DataInv' /\ (accepted' \in Seq(Payloads) => HostType')
  BY HostSame DEF Transfers
<1>2. /\ HasAck' = HasAck /\ HasSetup' = HasSetup /\ HasData0' = HasData0
      /\ HasOut' = HasOut /\ SetupLast' = SetupLast /\ OutLast' = OutLast
      /\ Reading' = Reading /\ QueueInv'
  BY <1>1, SameQueue DEF Transfers
<1>3. StageInv'
  BY <1>1, <1>2 DEF Transfers, StageInv
<1>4. QED
  BY <1>1, <1>2, <1>3

\* While a packet is built, the transfer is one the host is reading, or a report.
LEMMA BuildingTransfer ==
    ASSUME TInv, Building
    PROVE  /\ data_out # NULL /\ ~HasAck /\ queued_size = 0 /\ bus # "ack" /\ tok_epnum = 0
           /\ data_out_left \in Nat /\ data_out_max \in Nat /\ data_out.off \in Nat
           /\ data_buffer[0] \in 0 .. 1 /\ toggle[0] \in 0 .. 1 /\ toggle[1] \in 0 .. 1
           /\ Reading => ~Behind /\ data_out_epnum = 0
           /\ ~Reading => data_out_epnum = 1 /\ Configured /\ Alone
<1> USE DEF TInv, Transfers
<1>1. data_out # NULL /\ ~HasAck /\ queued_size = 0 /\ Offered
  BY DEF OfferInv, Offered
<1>2. bus # "ack" /\ tok_epnum = 0
  BY <1>1 DEF BusInv, QueueInv
<1>3. /\ data_out_left \in Nat /\ data_out_max \in Nat /\ data_out.off \in Nat
      /\ data_out_epnum \in {0, 1} /\ data_buffer[0] \in 0 .. 1
  BY <1>1 DEF IInv, TypeOK, Endpoints, Pointers
<1>4. toggle[0] \in 0 .. 1 /\ toggle[1] \in 0 .. 1
  BY DEF HostType, Endpoints
<1>5. Reading => ~Behind /\ data_out_epnum = 0
  BY DEF ControlInv
<1>6. ~Reading => data_out_epnum = 1 /\ Configured /\ Alone
  BY <1>1, <1>3 DEF ControlInv, ReportInv
<1>7. QED
  BY <1>1, <1>2, <1>3, <1>4, <1>5, <1>6

LEMMA TxEndTransfers == TInv /\ TxEnd /\ UNCHANGED <<main, host>> => Transfers'
<1> SUFFICES ASSUME TInv, TxEnd, UNCHANGED <<main, host>> PROVE Transfers'
  OBVIOUS
<1> USE DEF TInv, Transfers
<1>0. pc = "tx" /\ Building /\ UNCHANGED <<queue, packet_type, tok_epnum, accepted, ready>>
  BY DEF TxEnd, Building, token, main
<1>1. /\ UNCHANGED <<bus, bus_ep, ctl, req, got, toggle, enumeration, delivered, outs>>
      /\ DataInv' /\ QueueInv' /\ StageInv' /\ HostType'
      /\ HasAck' = HasAck /\ HasSetup' = HasSetup /\ HasData0' = HasData0
      /\ HasOut' = HasOut /\ SetupLast' = SetupLast /\ OutLast' = OutLast
      /\ Reading' = Reading
  BY <1>0, QuietStep DEF HostType
<1>2. /\ data_out # NULL /\ ~HasAck /\ queued_size = 0 /\ bus # "ack"
      /\ data_out_left \in Nat /\ data_out_max \in Nat
      /\ Reading => data_out_epnum = 0
      /\ ~Reading => data_out_epnum = 1 /\ Configured /\ Alone
  BY <1>0, BuildingTransfer
<1>3. ~NothingToSend /\ ~AllSent
  BY <1>0, <1>2 DEF IInv, TransferInv, NothingToSend, AllSent
(* So it is a report that ends here, once the host has it. *)
<1>4. EmptyPacket /\ data_out_epnum = 1 /\ ~Reading /\ Configured /\ Alone
  BY <1>2, <1>3 DEF TxEnd
<1>5. accepted = delivered
  BY <1>2, <1>4 DEF ReportInv, EmptyPacket, Chunk
<1>6. /\ data_out' = NULL /\ data_out_left' = 0 /\ data_out_max' = 0
      /\ UNCHANGED <<data_out_epnum, queued_size, queued_epnum, data_buffer>>
      /\ pc' \in {"ep1", "sent"}
  BY <1>3, <1>0 DEF TxEnd, ClearTx, IInv, TypeOK
<1>7. ~Offered' /\ ~Building'
  BY <1>2, <1>6 DEF Offered, Building
<1>8. BusInv'
  BY <1>1, <1>2 DEF BusInv
<1>9. OfferInv'
  BY <1>1, <1>2, <1>6, <1>7 DEF OfferInv
<1>10. ControlInv'
  BY <1>1, <1>4, <1>6 DEF ControlInv
<1>11. ReportInv'
  BY <1>0, <1>1, <1>2, <1>4, <1>5, <1>6, <1>7 DEF ReportInv, Configured, Alone
<1>12. QED
  BY <1>1, <1>8, <1>9, <1>10, <1>11

LEMMA TxStartTransfers == TInv /\ TxStart /\ UNCHANGED <<main, host>> => Transfers'
<1> SUFFICES ASSUME TInv, TxStart, UNCHANGED <<main, host>> PROVE Transfers'
  OBVIOUS
<1> USE DEF TInv, Transfers
<1>0. /\ pc = "tx" /\ pc' = "fill" /\ Building
      /\ UNCHANGED <<queue, packet_type, tok_epnum, accepted, ready, queued_size, queued_epnum,
                     data_out, data_out_left, data_out_max, data_out_epnum, data_buffer>>
  BY DEF TxStart, Building, token, main
<1>1. /\ UNCHANGED <<bus, bus_ep, ctl, req, got, toggle, enumeration, delivered, outs>>
      /\ DataInv' /\ QueueInv' /\ StageInv' /\ HostType'
      /\ HasAck' = HasAck /\ HasSetup' = HasSetup /\ HasData0' = HasData0
      /\ HasOut' = HasOut /\ SetupLast' = SetupLast /\ OutLast' = OutLast
      /\ Reading' = Reading
  BY <1>0, QuietStep DEF HostType
<1>2. /\ data_out # NULL /\ ~HasAck /\ queued_size = 0 /\ bus # "ack" /\ tok_epnum = 0
      /\ data_out_left \in Nat /\ data_out_max \in Nat
      /\ Reading => ~Behind /\ data_out_epnum = 0
      /\ ~Reading => data_out_epnum = 1 /\ Configured /\ Alone
  BY <1>0, BuildingTransfer
<1>3. packet'.pid = DataPid(data_buffer[0])
  BY <1>2 DEF TxStart, TxPid, IInv, TypeOK
(* Only a report that was just taken is sent. *)
<1>4. ~Reading => accepted # delivered
  BY <1>0, <1>2 DEF ReportInv, TxStart, EmptyPacket
<1>5. Building' /\ Offered' /\ Offered /\ (Behind' <=> Behind) /\ (LastAck' <=> LastAck)
  BY <1>0, <1>1 DEF Offered, Building, Behind, LastAck
<1>6. BusInv'
  BY <1>1, <1>2 DEF BusInv
<1>7. OfferInv'
  BY <1>0, <1>1, <1>2, <1>5 DEF OfferInv
<1>8. ControlInv'
  <2>1. Reading => data_buffer[0] = toggle[0]
    BY <1>0, <1>2 DEF ControlInv
  <2>2. QED
    BY <1>0, <1>1, <1>2, <1>3, <1>5, <2>1 DEF ControlInv
<1>9. ReportInv'
  BY <1>0, <1>1, <1>2, <1>3, <1>4, <1>5 DEF ReportInv, StageInv, Reading, Stages, Configured, Alone
<1>10. QED
  BY <1>1, <1>6, <1>7, <1>8, <1>9

LEMMA TxFillTransfers == TInv /\ TxFill /\ UNCHANGED <<main, host>> => Transfers'
<1> SUFFICES ASSUME TInv, TxFill, UNCHANGED <<main, host>> PROVE Transfers'
  OBVIOUS
<1> USE DEF TInv, Transfers
<1>0. /\ pc = "fill" /\ pc' = "queue" /\ Building
      /\ UNCHANGED <<queue, packet_type, tok_epnum, accepted, ready, queued_size, queued_epnum,
                     data_out, data_out_left, data_out_max, data_out_epnum, data_buffer>>
  BY DEF TxFill, Building, transfer, token, main
<1>1. /\ UNCHANGED <<bus, bus_ep, ctl, req, got, toggle, enumeration, delivered, outs>>
      /\ DataInv' /\ QueueInv' /\ StageInv' /\ HostType'
      /\ HasAck' = HasAck /\ HasSetup' = HasSetup /\ HasData0' = HasData0
      /\ HasOut' = HasOut /\ SetupLast' = SetupLast /\ OutLast' = OutLast
      /\ Reading' = Reading
  BY <1>0, QuietStep DEF HostType
<1>2. data_out # NULL /\ ~HasAck /\ queued_size = 0 /\ bus # "ack"
  BY <1>0, BuildingTransfer
<1>3. /\ packet'.pid = packet.pid
      /\ packet'.src = data_out.src /\ packet'.off = data_out.off
      /\ packet'.len = Least(Chunk, Least(data_out_left, data_out_max))
  BY DEF TxFill, IInv, TypeOK
<1>5. Building' /\ Offered' /\ Offered /\ (Behind' <=> Behind) /\ (LastAck' <=> LastAck)
  BY <1>0, <1>1 DEF Offered, Building, Behind, LastAck
<1>6. BusInv'
  BY <1>1, <1>2 DEF BusInv
<1>7. OfferInv'
  BY <1>0, <1>1, <1>2, <1>3, <1>5 DEF OfferInv
<1>8. ControlInv'
  BY <1>0, <1>1, <1>2, <1>3, <1>5 DEF ControlInv
<1>9. ReportInv'
  BY <1>0, <1>1, <1>2, <1>3, <1>5 DEF ReportInv, Configured, Alone
<1>10. QED
  BY <1>1, <1>6, <1>7, <1>8, <1>9

\* grainuumWriteQueue: from here on the interrupt may send the packet.
LEMMA WriteQueueTransfers ==
    TInv /\ (WriteQueue \/ WriteQueueSize \/ WriteQueueEpnum) /\ UNCHANGED <<main, host>>
    => Transfers'
<1> SUFFICES ASSUME TInv, WriteQueue \/ WriteQueueSize \/ WriteQueueEpnum,
                    UNCHANGED <<main, host>>
             PROVE  Transfers'
  OBVIOUS
<1> USE DEF TInv, Transfers
<1>0. /\ UNCHANGED <<queue, packet, packet_type, tok_epnum, accepted, ready,
                     data_out, data_out_left, data_out_max, data_out_epnum, data_buffer>>
      /\ queued_epnum' \in {queued_epnum, data_out_epnum}
      /\ \/ pc = "queue" /\ pc' = "size" /\ UNCHANGED queued_size
         \/ /\ pc \in {"queue", "size"} /\ pc' \in {"epnum", "ep1", "sent"}
            /\ queued_size' = packet.len + Overhead
         \/ pc = "epnum" /\ pc' \in {"ep1", "sent"} /\ UNCHANGED queued_size
  BY DEF WriteQueue, WriteQueueSize, WriteQueueEpnum, IInv, TypeOK, transfer, token, main
<1>1. /\ UNCHANGED <<bus, bus_ep, ctl, req, got, toggle, enumeration, delivered, outs>>
      /\ DataInv' /\ QueueInv' /\ StageInv' /\ HostType'
      /\ HasAck' = HasAck /\ HasSetup' = HasSetup /\ HasData0' = HasData0
      /\ HasOut' = HasOut /\ SetupLast' = SetupLast /\ OutLast' = OutLast
      /\ Reading' = Reading
  BY <1>0, QuietStep DEF HostType
<1>2. packet.len + Overhead # 0
  BY DEF IInv, TypeOK, Overhead
<1>3. /\ queued_size # 0 => queued_size' # 0 
      /\ queued_size' # 0 => queued_size # 0 \/ pc \in {"queue", "size"}
      /\ Building' => pc = "queue" /\ pc' = "size" /\ queued_size' = queued_size
      /\ Building' => Building
  BY <1>0, <1>2 DEF OfferInv, Building
<1>5. (Offered' <=> Offered) /\ (Behind' <=> Behind) /\ (LastAck' <=> LastAck)
  BY <1>0, <1>1, <1>2 DEF Offered, Building, Behind, LastAck
<1>6. BusInv'
  BY <1>0, <1>1, <1>3 DEF BusInv
<1>7. OfferInv'
  BY <1>0, <1>1, <1>3, <1>5 DEF OfferInv
<1>8. ControlInv'
  <2>1. ~Reading /\ data_out # NULL /\ data_out_epnum = 0 => ~Offered /\ LastAck
    BY DEF ControlInv
  <2>2. CASE ~Reading
    BY <1>0, <1>1, <1>5, <2>1, <2>2 DEF ControlInv
  <2>3. CASE Reading
    <3>1. queued_size' # 0 \/ pc' \in {"fill", "queue", "size"}
            => queued_size # 0 \/ pc \in {"fill", "queue", "size"}
      BY <1>0, <1>3
    <3>2. Behind => ~Building
      BY <2>3 DEF ControlInv
    <3>3. pc' # "tx" /\ (Behind => (queued_size' # 0 => queued_size # 0))
      BY <1>0, <3>2 DEF Building
    <3>4. QED
      BY <1>0, <1>1, <1>3, <1>5, <2>3, <3>1, <3>2, <3>3 DEF ControlInv
  <2>4. QED
    BY <2>2, <2>3
<1>9. ReportInv'
  <2>1. /\ pc # "tx" /\ pc' # "tx"
        /\ pc' \in {"fill", "queue", "size"} => pc \in {"fill", "queue", "size"}
        /\ queued_size' # 0 => queued_size # 0 \/ pc \in {"fill", "queue", "size"}
    BY <1>0, <1>3
  <2>2. queued_epnum' = 1 => queued_epnum = 1 \/ data_out_epnum = 1
    BY <1>0
  <2>3. QED
    BY <1>0, <1>1, <1>5, <2>1, <2>2 DEF ReportInv, Configured, Alone
<1>10. QED
  BY <1>1, <1>6, <1>7, <1>8, <1>9

-----------------------------------------------------------------------------
(* The main loop *)

\* No report is pending before the host has configured the device.
LEMMA ReportsConfigured ==
    ASSUME Quiet, TInv, NoEvent \/ DrainEp1 \/ RadioPoll \/ NotSent \/ Sent
    PROVE  ready' => Configured /\ Alone
<1>1. ready => Configured /\ Alone
  BY Zenon DEF TInv, Transfers, ReportInv
<1>2. CASE RadioPoll
  <2>1. CASE kbd < MaxReports /\ (EarlyKeys \/ enumeration = "configured")
    <3>1. kbd \in 0 .. MaxReports
      BY DEF TInv, IInv, TypeOK
    <3>2. MaxReports # 0
      BY <2>1, <3>1, BoundsAssumption
    <3>3. QED
      BY <2>1, <3>2, Zenon DEF Quiet, Configured, Alone
  <2>2. CASE ~(kbd < MaxReports /\ (EarlyKeys \/ enumeration = "configured"))
    <3>1. ready' = ready
      BY <1>2, <2>2, Zenon DEF RadioPoll
    <3>2. QED
      BY <1>1, <3>1, Zenon
  <2>3. QED
    BY <2>1, <2>2
<1>3. CASE Sent
  BY <1>3, Zenon DEF Sent
<1>4. CASE NoEvent \/ DrainEp1 \/ NotSent
  <2>1. ready' = ready
    BY <1>4, Zenon DEF NoEvent, DrainEp1, NotSent, main
  <2>2. QED
    BY <1>1, <2>1, Zenon
<1>5. QED
  BY <1>2, <1>3, <1>4

LEMMA LoopTransfers ==
    ASSUME Quiet, TInv, NoEvent \/ DrainEp1 \/ RadioPoll \/ NotSent \/ Sent, UNCHANGED host
    PROVE  Transfers'
<1> USE DEF TInv, Transfers
<1>0. UNCHANGED <<queue, queued_size, queued_epnum, packet, packet_type, tok_epnum,
                  data_out, data_out_left, data_out_max, data_out_epnum, data_buffer, accepted>>
      /\ pc \notin TransferPcs /\ pc' \notin TransferPcs
  BY DEF NoEvent, DrainEp1, RadioPoll, NotSent, Sent, phy, transfer, token, main, TransferPcs
<1>1. /\ UNCHANGED <<bus, bus_ep, ctl, req, got, toggle, enumeration, delivered, outs>>
      /\ DataInv' /\ QueueInv' /\ StageInv' /\ HostType'
      /\ HasAck' = HasAck /\ HasSetup' = HasSetup /\ HasData0' = HasData0
      /\ HasOut' = HasOut /\ SetupLast' = SetupLast /\ OutLast' = OutLast
      /\ Reading' = Reading
  BY <1>0, QuietStep DEF HostType
<1>2. ready' => Configured /\ Alone
  BY ReportsConfigured
<1>3. ~Building /\ ~Building' /\ pc # "tx" /\ pc' # "tx"
      /\ pc \notin {"fill", "queue", "size"} /\ pc' \notin {"fill", "queue", "size"}
  BY <1>0 DEF Building, TransferPcs
<1>4. (Offered' <=> Offered) /\ (Behind' <=> Behind) /\ (LastAck' <=> LastAck)
  BY <1>0, <1>1, <1>3 DEF Offered, Behind, LastAck
<1>5. BusInv'
  BY <1>0, <1>1 DEF BusInv
<1>6. OfferInv'
  BY <1>0, <1>1, <1>3, <1>4 DEF OfferInv
<1>7. ControlInv'
  BY <1>0, <1>1, <1>3, <1>4 DEF ControlInv
<1>8. ReportInv'
  BY <1>0, <1>1, <1>2, <1>3, <1>4 DEF ReportInv, Configured, Alone
<1>9. QED
  BY <1>1, <1>5, <1>6, <1>7, <1>8

LEMMA AppendDiffers ==
    ASSUME NEW S, NEW s \in Seq(S), NEW x \in S
    PROVE  Append(s, x) # s /\ Append(s, x) \in Seq(S)
OBVIOUS

\* What usbSend finds when it takes a report: nothing is on its way.
LEMMA UsbSendFinds ==
    ASSUME TInv, UsbSend
    PROVE  /\ pc = "input" /\ data_out = NULL /\ kbd \in 1 .. MaxReports
           /\ ~HasAck /\ ~Offered /\ queued_size = 0 /\ bus # "ack"
           /\ accepted = delivered /\ Configured /\ Alone /\ ~Reading /\ tok_epnum = 0
<1> USE DEF TInv, Transfers
<1>1. ready /\ ~Again /\ pc = "input"
  BY Zenon DEF UsbSend
<1>2. Configured /\ Alone
  BY <1>1, Zenon DEF ReportInv
<1>3. data_out = NULL
  BY <1>1, Zenon DEF Again
<1>4. kbd \in 1 .. MaxReports
  <2>1. kbd >= 1
    BY <1>1, Zenon DEF IInv, SourceInv
  <2>2. QED
    BY <2>1 DEF IInv, TypeOK
<1>5. ~HasAck /\ ~Offered /\ queued_size = 0
  BY <1>3 DEF OfferInv, Offered
<1>6. bus # "ack" /\ accepted = delivered /\ ~Reading /\ tok_epnum = 0
  BY <1>2, <1>3, <1>5 DEF BusInv, ReportInv, Reading, Stages, QueueInv
<1>7. QED
  BY <1>1, <1>2, <1>3, <1>4, <1>5, <1>6

LEMMA UsbSendTransfers == TInv /\ UsbSend /\ UNCHANGED host => Transfers'
<1> SUFFICES ASSUME TInv, UsbSend, UNCHANGED host PROVE Transfers'
  OBVIOUS
<1> USE DEF TInv, Transfers
<1>0. /\ pc = "input" /\ data_out = NULL /\ kbd \in 1 .. MaxReports
      /\ ~HasAck /\ ~Offered /\ queued_size = 0 /\ bus # "ack"
      /\ accepted = delivered /\ Configured /\ Alone /\ ~Reading /\ tok_epnum = 0
  BY UsbSendFinds
<1>1. /\ UNCHANGED <<queue, queued_size, queued_epnum, packet, packet_type, tok_epnum,
                     data_buffer, ready>>
      /\ pc' = "tx" /\ data_out_epnum' = 1
      /\ data_out_left' = Chunk /\ data_out_max' = Chunk
      /\ data_out' = [src |-> Report(kbd), off |-> 0]
      /\ accepted' = Append(accepted, Report(kbd))
  BY DEF UsbSend, SendData, phy, token
<1>2. Report(kbd) \in Sources /\ Report(kbd) \in Payloads
  BY <1>0 DEF Sources, Payloads
<1>3. data_out' # NULL /\ data_out'.src = Report(kbd)
  <2>1. data_out' \in Pointers
    BY <1>1, <1>2 DEF Pointers
  <2>2. QED
    BY <1>1, <2>1, NullAssumption
<1>4. accepted' # accepted /\ accepted' \in Seq(Payloads)
  BY <1>1, <1>2, AppendDiffers DEF HostType
<1>5. /\ UNCHANGED <<bus, bus_ep, ctl, req, got, toggle, enumeration, delivered, outs>>
      /\ DataInv' /\ QueueInv' /\ StageInv' /\ HostType'
      /\ HasAck' = HasAck /\ HasSetup' = HasSetup /\ HasData0' = HasData0
      /\ HasOut' = HasOut /\ SetupLast' = SetupLast /\ OutLast' = OutLast
      /\ Reading' = Reading
  BY <1>1, <1>4, QuietStep
<1>6. Building' /\ Offered'
  BY <1>1 DEF Building, Offered
<1>7. BusInv'
  BY <1>0, <1>5 DEF BusInv
<1>8. OfferInv'
  BY <1>0, <1>1, <1>3, <1>5, <1>6 DEF OfferInv
<1>9. ControlInv'
  BY <1>0, <1>1, <1>5 DEF ControlInv
<1>10. ReportInv'
  <2>1. data_buffer[0] = toggle[1] /\ ctl = "none" /\ ~HasSetup /\ ~HasData0 /\ ~HasOut
    BY <1>0 DEF ReportInv
  <2>2. accepted' = Append(delivered', data_out'.src) /\ accepted' # delivered'
    BY <1>0, <1>1, <1>3, <1>4, <1>5
  <2>3. Configured' /\ ~Reading'
    BY <1>0, <1>5 DEF Configured
  <2>4. QED
    BY <1>0, <1>1, <1>3, <1>5, <1>6, <2>1, <2>2, <2>3 DEF ReportInv, Alone
<1>11. QED
  BY <1>5, <1>7, <1>8, <1>9, <1>10

-----------------------------------------------------------------------------
(* The host *)

\* The host leaves the main loop's state alone.
LEMMA ProgramSame ==
    ASSUME UNCHANGED <<program, main>>
    PROVE  UNCHANGED <<data_out, data_out_left, data_out_max, data_out_epnum, data_buffer,
                       packet_type, tok_epnum, pc, ready, accepted>>
BY DEF program, main

\* What does not get lost.
LEMMA NoSuchFault ==
    ASSUME Quiet, NEW kind, Fault(kind)
    PROVE  kind \in {"data", "ack0", "ack1"}
BY DEF Quiet, Fault

\* A transfer outside a control stage is a report, or only waits for its last ACK.
LEMMA NoStage ==
    ASSUME TInv, ~Reading
    PROVE  /\ Offered => data_out_epnum = 1
           /\ data_out_epnum = 1 => Configured /\ Alone
           /\ data_out_epnum \in {0, 1}
<1> USE DEF TInv, Transfers
<1>1. data_out_epnum \in {0, 1}
  BY DEF IInv, TypeOK, Endpoints
<1>2. Offered => data_out # NULL
  BY DEF OfferInv
<1>3. data_out_epnum = 1 => Configured /\ Alone
  BY DEF ReportInv
<1>4. QED
  BY <1>1, <1>2, <1>3 DEF ControlInv

LEMMA HostSetupTransfers ==
    ASSUME Quiet, TInv, NEW r \in Requests, HostSetup(r), UNCHANGED <<program, main>>
    PROVE  Transfers'
<1> USE DEF TInv, Transfers
<1>0. /\ bus = "idle" /\ ctl \in {"none", "setup"} /\ TypeOK
      /\ bus' = "setup" /\ ctl' = "setup" /\ req' = r /\ got' = << >> /\ bus_ep' = 0
      /\ UNCHANGED <<toggle, enumeration, delivered, outs>>
  BY DEF HostSetup, SendToken, IInv
<1>1. UNCHANGED <<data_out, data_out_left, data_out_max, data_out_epnum, data_buffer,
                  packet_type, tok_epnum, pc, ready, accepted>>
  BY ProgramSame
<1>2. queue' = Append(queue, Token("SETUP", 0)) /\ UNCHANGED phy
  BY NoSuchFault DEF HostSetup, SendToken, Capture
<1>3. Token("SETUP", 0).pid = "SETUP" /\ Token("SETUP", 0).ep = 0
  BY DEF Token
<1>4. /\ HasAck' <=> HasAck
      /\ HasSetup'
      /\ HasData0' <=> HasData0
      /\ HasOut' <=> HasOut
      /\ SetupLast'
  BY <1>0, <1>2, <1>3, AppendHas
<1>5. ~HasData0 /\ ~HasData0' /\ ~Reading /\ ~Reading'
  BY <1>0, <1>4 DEF StageInv, Reading, Stages
<1>6. QueueInv'
  BY <1>0, <1>1, <1>2, <1>3, <1>5, AppendQueueInv
(* After the bare enumeration the host has nothing to ask. *)
<1>7. ~(Alone /\ Configured)
  <2>1. SUFFICES ASSUME Alone, Configured PROVE FALSE
    OBVIOUS
  <2>2. r.kind \in {"set_address", "set_configuration"}
    BY <2>1 DEF Quiet, Alone
  <2>3. ctl = "none"
    BY <2>1 DEF ReportInv
  <2>4. Allowed(r)
    BY <2>3 DEF HostSetup
  <2>5. QED
    BY <2>1, <2>2, <2>4 DEF Allowed, Configured
<1>8. UNCHANGED <<queued_size, queued_epnum, packet>>
  BY <1>2 DEF phy
<1>9. (Offered' <=> Offered) /\ (Building' <=> Building) /\ (LastAck' <=> LastAck)
      /\ ~Offered
  BY <1>1, <1>5, <1>7, <1>8, NoStage DEF Offered, Building, LastAck
<1>10. HostType'
  BY <1>0, <1>1, RequestsAssumption DEF HostType, Endpoints
<1>11. BusInv'
  BY <1>0, <1>4 DEF BusInv
<1>12. StageInv'
  BY <1>0, <1>4, <1>5 DEF StageInv
<1>13. OfferInv'
  BY <1>1, <1>4, <1>8, <1>9 DEF OfferInv
<1>14. ControlInv'
  BY <1>1, <1>5, <1>9 DEF ControlInv
<1>15. ReportInv'
  BY <1>0, <1>1, <1>4, <1>5, <1>7, <1>8, <1>9 DEF ReportInv, Configured, Alone
<1>16. DataInv'
  BY <1>0 DEF DataInv, ControlDataIntact, ControlReadComplete
<1>17. QED
  BY <1>6, <1>10, <1>11, <1>12, <1>13, <1>14, <1>15, <1>16

\* What is lost on the way to the device changes nothing there.
LEMMA LostTransfers ==
    ASSUME TInv, UNCHANGED <<program, main, phy, queue>>, bus \in {"setup", "out"}, bus' = "idle",
           UNCHANGED <<bus_ep, ctl, req, got, toggle, enumeration, outs, delivered>>
    PROVE  Transfers'
<1> USE DEF TInv, Transfers
<1>1. /\ UNCHANGED <<data_out, data_out_left, data_out_max, data_out_epnum, data_buffer,
                     packet_type, tok_epnum, pc, ready, accepted>>
      /\ UNCHANGED <<queued_size, queued_epnum, packet>>
  BY ProgramSame DEF phy
<1>2. /\ HasAck' = HasAck /\ HasSetup' = HasSetup /\ HasData0' = HasData0
      /\ HasOut' = HasOut /\ Reading' = Reading /\ QueueInv'
  BY <1>1, SameQueue
<1>3. (Offered' <=> Offered) /\ (Building' <=> Building) /\ (LastAck' <=> LastAck)
      /\ (Behind' <=> Behind)
  BY <1>1 DEF Offered, Building, LastAck, Behind
<1>4. HostType'
  BY <1>1 DEF HostType
<1>5. BusInv' /\ StageInv'
  BY <1>1, <1>2 DEF BusInv, StageInv
<1>6. OfferInv'
  BY <1>1, <1>2, <1>3 DEF OfferInv
<1>7. ControlInv'
  BY <1>1, <1>2, <1>3 DEF ControlInv
<1>8. ReportInv'
  BY <1>1, <1>2, <1>3 DEF ReportInv, Configured
<1>9. DataInv'
  BY DEF DataInv, ControlDataIntact, ControlReadComplete, Wanted, Received
<1>10. QED
  BY <1>2, <1>4, <1>5, <1>6, <1>7, <1>8, <1>9

LEMMA HostSetupDataTransfers ==
    ASSUME Quiet, TInv, HostSetupData, UNCHANGED <<program, main>>
    PROVE  Transfers'
<1> USE DEF TInv, Transfers
<1>0. /\ bus = "setup" /\ bus' = "idle" /\ ctl = "setup" /\ SetupLast /\ TypeOK
      /\ UNCHANGED <<bus_ep, req, got, enumeration, delivered, outs>>
  BY DEF HostSetupData, DataSent, BusInv, IInv
<1>1. \/ NotSeen /\ UNCHANGED <<ctl, toggle>>
      \/ /\ Capture(Data("DATA0", req))
         /\ ctl' = FirstStage(req) /\ toggle' = [toggle EXCEPT ![0] = 1]
  BY NoSuchFault DEF HostSetupData, DataSent
<1>2. CASE NotSeen /\ UNCHANGED <<ctl, toggle>>
  BY <1>0, <1>2, LostTransfers DEF NotSeen
<1>3. CASE /\ Capture(Data("DATA0", req))
           /\ ctl' = FirstStage(req) /\ toggle' = [toggle EXCEPT ![0] = 1]
  <2>1. UNCHANGED <<data_out, data_out_left, data_out_max, data_out_epnum, data_buffer,
                    packet_type, tok_epnum, pc, ready, accepted>>
    BY ProgramSame
  <2>2. queue' = Append(queue, Data("DATA0", req))
        /\ UNCHANGED <<queued_size, queued_epnum, packet>>
    BY <1>3 DEF Capture, phy
  <2>3. Data("DATA0", req).pid = "DATA0" /\ Data("DATA0", req).body = req
    BY DEF Data
  <2>4. /\ HasAck' <=> HasAck
        /\ HasSetup' <=> HasSetup
        /\ HasData0'
        /\ HasOut' <=> HasOut
    BY <1>0, <2>2, <2>3, AppendHas
  <2>5. ~HasData0 /\ ~Reading /\ ~Reading'
    BY <1>0, <2>4 DEF StageInv, Reading, Stages
  <2>6. QueueInv'
    BY <1>0, <2>1, <2>2, <2>3, <2>5, AppendQueueInv
  <2>7. ~(Alone /\ Configured) /\ req \in Requests /\ got = << >>
    BY <1>0 DEF ReportInv, StageInv
  <2>8. /\ ctl' \in Stages
        /\ ctl' = "data_in" => req.kind = "get"
        /\ ctl' \in {"status_in", "data_out"} => req.kind # "get"
        /\ Alone => ctl' = "status_in"
    BY <1>3, <2>7 DEF FirstStage, Stages, Quiet, Alone
  <2>9. toggle' \in [Endpoints -> 0 .. 1] /\ toggle'[0] = 1 /\ toggle'[1] = toggle[1]
    BY <1>3 DEF HostType, Endpoints
  <2>10. (Offered' <=> Offered) /\ (Building' <=> Building) /\ (LastAck' <=> LastAck)
         /\ ~Offered
    BY <2>1, <2>2, <2>5, <2>7, NoStage DEF Offered, Building, LastAck
  <2>11. HostType'
    BY <1>0, <2>1, <2>9 DEF HostType
  <2>12. BusInv'
    BY <1>0 DEF BusInv
  <2>13. StageInv'
    BY <1>0, <2>4, <2>5, <2>7, <2>8, <2>9 DEF StageInv, Stages
  <2>14. OfferInv'
    BY <2>1, <2>2, <2>4, <2>10 DEF OfferInv
  <2>15. ControlInv'
    BY <2>1, <2>5, <2>10 DEF ControlInv
  <2>16. ReportInv'
    BY <1>0, <2>1, <2>2, <2>4, <2>5, <2>7, <2>8, <2>9, <2>10 DEF ReportInv, Configured, Alone
  <2>17. DataInv'
    BY <1>0, <2>7, <2>8 DEF DataInv, ControlDataIntact, ControlReadComplete, Stages
  <2>18. QED
    BY <2>6, <2>11, <2>12, <2>13, <2>14, <2>15, <2>16, <2>17
<1>4. QED
  BY <1>1, <1>2, <1>3

LEMMA HostOutTransfers ==
    ASSUME Quiet, TInv, NEW ep \in Endpoints, HostOut(ep), UNCHANGED <<program, main>>
    PROVE  Transfers'
<1> USE DEF TInv, Transfers
(* There are no LED reports. *)
<1>a. ep = 0 /\ ctl \in {"data_out", "status_out"}
  BY DEF HostOut, HostType, Quiet
<1>0. /\ bus = "idle" /\ bus' = "out" /\ bus_ep' = 0 /\ TypeOK
      /\ UNCHANGED <<ctl, req, got, toggle, enumeration, delivered, outs>>
  BY <1>a DEF HostOut, SendToken, stage, IInv
<1>1. UNCHANGED <<data_out, data_out_left, data_out_max, data_out_epnum, data_buffer,
                  packet_type, tok_epnum, pc, ready, accepted>>
  BY ProgramSame
<1>2. queue' = Append(queue, Token("OUT", 0))
      /\ UNCHANGED <<queued_size, queued_epnum, packet>>
  BY <1>a, NoSuchFault DEF HostOut, SendToken, Capture, phy
<1>3. Token("OUT", 0).pid = "OUT" /\ Token("OUT", 0).ep = 0
  BY DEF Token
<1>4. /\ HasAck' <=> HasAck
      /\ HasSetup' <=> HasSetup
      /\ HasData0' <=> HasData0
      /\ OutLast'
  BY <1>0, <1>2, <1>3, AppendHas
<1>5. QueueInv'
  BY <1>0, <1>1, <1>2, <1>3, <1>a, AppendQueueInv
<1>6. ~Alone
  BY <1>a DEF ReportInv
<1>7. (Offered' <=> Offered) /\ (Building' <=> Building) /\ (LastAck' <=> LastAck)
      /\ (Behind' <=> Behind) /\ (Reading' <=> Reading)
  BY <1>0, <1>1, <1>2, <1>4 DEF Offered, Building, LastAck, Behind, Reading
<1>8. HostType'
  BY <1>0, <1>1 DEF HostType, Endpoints
<1>9. BusInv'
  BY <1>0, <1>4, <1>a DEF BusInv
<1>10. StageInv'
  BY <1>0, <1>1, <1>4, <1>7, <1>a DEF StageInv
<1>11. OfferInv'
  BY <1>1, <1>2, <1>4, <1>7 DEF OfferInv
<1>12. ControlInv'
  BY <1>0, <1>1, <1>2, <1>4, <1>7 DEF ControlInv
<1>13. ReportInv'
  BY <1>0, <1>1, <1>2, <1>6, <1>7 DEF ReportInv, Configured, Alone
<1>14. DataInv'
  BY <1>0 DEF DataInv, ControlDataIntact, ControlReadComplete, Wanted, Received
<1>15. QED
  BY <1>5, <1>8, <1>9, <1>10, <1>11, <1>12, <1>13, <1>14

LEMMA HostOutDataTransfers ==
    ASSUME Quiet, TInv, HostOutData0 \/ HostOutData1, UNCHANGED <<program, main>>
    PROVE  Transfers'
<1> USE DEF TInv, Transfers
<1>a. HostOutData0 /\ ctl \in {"data_out", "status_out"} /\ OutLast
  <2>1. bus = "out"
    BY DEF HostOutData0, HostOutData1
  <2>2. bus_ep = 0 /\ ctl \in {"data_out", "status_out"} /\ OutLast
    BY <2>1 DEF BusInv
  <2>3. ~HostOutData1
    BY <2>2 DEF HostOutData1
  <2>4. QED
    BY <2>2, <2>3
<1>0. /\ bus = "out" /\ bus' = "idle" /\ TypeOK
      /\ UNCHANGED <<bus_ep, req, got, toggle, enumeration, delivered, outs>>
  BY <1>a DEF HostOutData0, DataSent, IInv
<1>1. \/ NotSeen /\ UNCHANGED ctl
      \/ /\ Capture(Data("DATA1", NULL))
         /\ ctl' = IF ctl = "data_out" THEN "status_in" ELSE "none"
  BY <1>a, NoSuchFault DEF HostOutData0, DataSent
<1>2. CASE NotSeen /\ UNCHANGED ctl
  BY <1>0, <1>2, LostTransfers DEF NotSeen
<1>3. CASE /\ Capture(Data("DATA1", NULL))
           /\ ctl' = IF ctl = "data_out" THEN "status_in" ELSE "none"
  <2>1. UNCHANGED <<data_out, data_out_left, data_out_max, data_out_epnum, data_buffer,
                    packet_type, tok_epnum, pc, ready, accepted>>
    BY ProgramSame
  <2>2. queue' = Append(queue, Data("DATA1", NULL))
        /\ UNCHANGED <<queued_size, queued_epnum, packet>>
    BY <1>3 DEF Capture, phy
  <2>3. Data("DATA1", NULL).pid = "DATA1"
    BY DEF Data
  <2>4. /\ HasAck' <=> HasAck
        /\ HasSetup' <=> HasSetup
        /\ HasData0' <=> HasData0
    BY <1>0, <2>2, <2>3, AppendHas
  <2>5. QueueInv'
    BY <1>0, <1>3, <1>a, <2>1, <2>2, <2>3, AppendQueueInv
  <2>6. ~Alone
    BY <1>a DEF ReportInv
  <2>7. (Offered' <=> Offered) /\ (Building' <=> Building) /\ (LastAck' <=> LastAck)
        /\ (Behind' <=> Behind) /\ (Reading' <=> Reading)
    BY <1>0, <1>3, <1>a, <2>1, <2>2, <2>4
       DEF Offered, Building, LastAck, Behind, Reading, Stages
  <2>8. HostType'
    BY <1>0, <2>1 DEF HostType
  <2>9. BusInv'
    BY <1>0 DEF BusInv
  <2>10. StageInv'
    BY <1>0, <1>3, <1>a, <2>1, <2>4, <2>7 DEF StageInv, Stages
  <2>11. OfferInv'
    BY <2>1, <2>2, <2>4, <2>7 DEF OfferInv
  <2>12. ControlInv'
    BY <1>0, <1>3, <1>a, <2>1, <2>2, <2>4, <2>7 DEF ControlInv
  <2>13. ReportInv'
    BY <1>0, <2>1, <2>2, <2>6, <2>7 DEF ReportInv, Configured, Alone
  <2>14. DataInv'
    BY <1>0, <1>3 DEF DataInv, ControlDataIntact, ControlReadComplete, Wanted
  <2>15. QED
    BY <2>5, <2>8, <2>9, <2>10, <2>11, <2>12, <2>13, <2>14
<1>4. QED
  BY <1>1, <1>2, <1>3

\* What the host finds when it takes an answer.
LEMMA HostInFinds ==
    ASSUME TInv, NEW ep \in Endpoints, HostIn(ep)
    PROVE  /\ data_out # NULL /\ ep = data_out_epnum /\ ~HasAck /\ ~Building /\ queued_size # 0
           /\ Reply.pid = packet.pid /\ Reply.src = data_out.src /\ Reply.off = data_out.off
           /\ Reply.len = Least(Chunk, Least(data_out_left, data_out_max))
           /\ ep = 0 => Reading /\ ctl \in {"data_in", "status_in"}
           /\ ep = 1 => ~Reading /\ Configured /\ Alone
<1> USE DEF TInv, Transfers
<1>0. TypeOK /\ ep \in {0, 1}
  BY DEF IInv, Endpoints
<1>1. queued_size # 0 /\ queued_epnum = ep /\ queued_size = packet.len + Overhead
  BY DEF HostIn, Answers, ReplyOk
<1>2. Offered /\ ~HasAck /\ ~Building /\ data_out # NULL
  BY <1>1 DEF OfferInv, Offered
<1>3. /\ packet.src = data_out.src /\ packet.off = data_out.off
      /\ packet.len = Least(Chunk, Least(data_out_left, data_out_max))
  BY <1>1 DEF OfferInv
<1>4. /\ Reply.pid = packet.pid /\ Reply.src = packet.src /\ Reply.off = packet.off
      /\ Reply.len = packet.len
  BY <1>0, <1>1 DEF Reply, TypeOK, Overhead
<1>5. CASE ep = 0
  <2>1. ctl \in {"data_in", "status_in"}
    BY <1>5 DEF HostIn
  <2>2. data_out_epnum = 0
    BY <1>0, <2>1 DEF ReportInv, TypeOK, Endpoints
  <2>3. Reading
    BY <1>2, <2>2, NoStage
  <2>4. QED
    BY <1>1, <1>2, <1>3, <1>4, <1>5, <2>1, <2>2, <2>3
<1>6. CASE ep = 1
  <2>1. Configured /\ Alone /\ ~Reading
    BY <1>1, <1>6 DEF ReportInv, Reading, Stages
  <2>2. data_out_epnum = 1
    BY <1>2, <2>1, NoStage
  <2>3. QED
    BY <1>1, <1>2, <1>3, <1>4, <1>6, <2>1, <2>2
<1>7. QED
  BY <1>0, <1>5, <1>6

LEMMA PidsDiffer ==
    ASSUME NEW a \in 0 .. 1, NEW b \in 0 .. 1
    PROVE  DataPid(a) = DataPid(b) <=> a = b
BY DEF DataPid

\* What remains of a transfer, cut to what the host wants.
LEMMA ChunkWanted ==
    ASSUME NEW all \in Nat, NEW max \in Nat, NEW off \in Nat
    PROVE  Least(all - off, max - off) = Least(all, max) - off
BY DEF Least

LEMMA HostInTransfers ==
    ASSUME TInv, NEW ep \in Endpoints, HostIn(ep), UNCHANGED <<program, main>>
    PROVE  Transfers'
<1> USE DEF TInv, Transfers
<1>0. /\ bus = "idle" /\ bus' = "ack" /\ bus_ep' = ep /\ TypeOK /\ ep \in {0, 1}
      /\ UNCHANGED <<phy, queue, ctl, req, enumeration, outs>>
  BY DEF HostIn, IInv, Endpoints
<1>1. UNCHANGED <<data_out, data_out_left, data_out_max, data_out_epnum, data_buffer,
                  packet_type, tok_epnum, pc, ready, accepted>>
      /\ UNCHANGED <<queued_size, queued_epnum, packet>>
  BY <1>0, ProgramSame DEF phy
<1>2. /\ HasAck' = HasAck /\ HasSetup' = HasSetup /\ HasData0' = HasData0
      /\ HasOut' = HasOut /\ Reading' = Reading /\ QueueInv'
  BY <1>0, <1>1, SameQueue
<1>3. (Offered' <=> Offered) /\ (Building' <=> Building) /\ (LastAck' <=> LastAck)
  BY <1>1 DEF Offered, Building, LastAck
<1>4. /\ data_out # NULL /\ ep = data_out_epnum /\ ~HasAck /\ ~Building /\ queued_size # 0
      /\ Reply.pid = packet.pid /\ Reply.src = data_out.src /\ Reply.off = data_out.off
      /\ Reply.len = Least(Chunk, Least(data_out_left, data_out_max))
      /\ ep = 0 => Reading /\ ctl \in {"data_in", "status_in"}
      /\ ep = 1 => ~Reading /\ Configured /\ Alone
  BY HostInFinds
<1>5. toggle \in [Endpoints -> 0 .. 1] /\ toggle[0] \in 0 .. 1 /\ toggle[1] \in 0 .. 1
      /\ data_buffer[0] \in 0 .. 1
  BY <1>0 DEF HostType, TypeOK, Endpoints
<1>6. BusInv' /\ OfferInv'
  BY <1>0, <1>1, <1>2, <1>3, <1>4 DEF BusInv, OfferInv
<1>7. pc \notin {"tx", "fill", "queue", "size"}
  BY <1>4 DEF Building
<1>8. CASE ep = 0
  <2>1. /\ data_out.src = req
        /\ data_out_left = req.len - data_out.off
        /\ data_out_max = req.wLength - data_out.off
        /\ Chunk * Len(got) \in {data_out.off, data_out.off + Chunk}
        /\ ~Behind => /\ packet.pid = DataPid(toggle[0])
                      /\ ctl = "data_in" => data_buffer[0] = toggle[0]
        /\ Behind => packet.pid = DataPid(1 - toggle[0])
    BY <1>4, <1>8 DEF ControlInv
  <2>2. UNCHANGED delivered /\ ~(Configured /\ Alone) /\ ~HasData0
        /\ ctl \notin {"setup", "data_out", "status_out"}
    BY <1>4, <1>8 DEF HostIn, ReportInv, Reading
  <2>3. CASE Behind
    <3>1. Reply.pid # DataPid(toggle[0])
      BY <1>4, <1>5, <2>1, <2>3, PidsDiffer
    <3>2. UNCHANGED <<toggle, got>>
      BY <1>8, <3>1 DEF HostIn
    <3>3. HostType' /\ StageInv'
      BY <1>0, <1>1, <1>2, <2>2, <3>2 DEF HostType, StageInv
    <3>4. Behind'
      BY <1>1, <2>3, <3>2 DEF Behind
    <3>5. ControlInv'
      BY <1>0, <1>1, <1>2, <1>3, <1>4, <1>8, <2>3, <3>2, <3>4 DEF ControlInv
    <3>6. ReportInv'
      BY <1>0, <1>1, <1>2, <1>3, <1>8, <2>2, <3>2 DEF ReportInv, Configured, Alone
    <3>7. DataInv'
      BY <1>0, <3>2 DEF DataInv, ControlDataIntact, ControlReadComplete, Wanted, Received
    <3>8. QED
      BY <1>2, <1>6, <3>3, <3>5, <3>6, <3>7
  <2>4. CASE ~Behind
    <3> DEFINE chunk == [src |-> Reply.src, off |-> Reply.off, len |-> Reply.len]
    <3>1. /\ toggle' = [toggle EXCEPT ![0] = 1 - toggle[0]]
          /\ got' = Append(got, chunk)
      BY <1>4, <1>8, <2>1, <2>4 DEF HostIn
    <3>2. Chunk * Len(got) = data_out.off /\ got \in Seq(Chunks) /\ Len(got) \in Nat
      BY <2>1, <2>4 DEF Behind, HostType
    <3>3. /\ req.len \in Nat /\ req.wLength \in Nat /\ data_out.off \in Nat
          /\ data_out_left \in Nat /\ data_out_max \in Nat
      BY <1>0, <1>4 DEF HostType, TypeOK, Pointers
    <3>4. chunk = [src |-> req, off |-> Chunk * Len(got),
                   len |-> Least(Chunk, Wanted - Chunk * Len(got))]
      <4>1. Least(data_out_left, data_out_max) = Wanted - data_out.off
        <5>1. Least(req.len - data_out.off, req.wLength - data_out.off)
                = Least(req.len, req.wLength) - data_out.off
          BY <3>3, ChunkWanted
        <5>2. QED
          BY <2>1, <5>1 DEF Wanted
      <4>2. QED
        BY <1>4, <2>1, <3>2, <4>1
    <3>5. chunk \in Chunks
      <4>1. req \in Payloads
        BY <2>2, <1>4, <1>8 DEF StageInv, Payloads, Sources
      <4>2. Reply.len \in Nat
        BY <1>4, <3>3 DEF Least, Chunk
      <4>3. QED
        BY <1>4, <2>1, <3>3, <4>1, <4>2 DEF Chunks
    <3> HIDE DEF chunk
    <3>6. /\ got' \in Seq(Chunks) /\ Len(got') = Len(got) + 1
          /\ \A i \in 1 .. Len(got) : got'[i] = got[i]
          /\ got'[Len(got) + 1] = chunk
          /\ DOMAIN got' = 1 .. Len(got) + 1 /\ DOMAIN got = 1 .. Len(got)
      BY <3>1, <3>2, <3>5
    <3>7. toggle' \in [Endpoints -> 0 .. 1] /\ toggle'[0] = 1 - toggle[0]
          /\ toggle'[1] = toggle[1]
      BY <1>5, <3>1 DEF Endpoints
    <3>8. HostType'
      BY <1>0, <1>1, <2>2, <3>6, <3>7 DEF HostType
    <3>9. StageInv'
      BY <1>0, <1>1, <1>2, <2>2 DEF StageInv
    <3>10. Behind' /\ Chunk * Len(got') = data_out'.off + Chunk
      BY <1>1, <3>2, <3>3, <3>6 DEF Behind, Chunk
    <3>11. ControlInv'
      <4>1. packet.pid = DataPid(1 - toggle'[0])
            /\ (ctl = "data_in" => data_buffer[0] = 1 - toggle'[0])
        BY <1>5, <2>1, <2>4, <3>7
      <4>2. QED
        BY <1>0, <1>1, <1>2, <1>3, <1>4, <1>8, <3>10, <4>1 DEF ControlInv
    <3>12. ReportInv'
      BY <1>0, <1>1, <1>2, <1>3, <1>8, <2>2, <3>7 DEF ReportInv, Configured, Alone
    <3>13. DataInv'
      <4>1. Wanted' = Wanted /\ UNCHANGED req
        BY <1>0 DEF Wanted
      <4>2. ControlDataIntact'
        <5> SUFFICES ASSUME NEW i \in DOMAIN got'
                     PROVE  got'[i] = [src |-> req, off |-> Chunk * (i - 1),
                                       len |-> Least(Chunk, Wanted - Chunk * (i - 1))]
          BY <4>1 DEF ControlDataIntact
        <5>1. CASE i = Len(got) + 1
          <6>1. i - 1 = Len(got)
            BY <3>2, <5>1
          <6>2. QED
            BY <3>4, <3>6, <5>1, <6>1
        <5>2. CASE i # Len(got) + 1
          <6>1. i \in DOMAIN got /\ got'[i] = got[i]
            BY <3>2, <3>6, <5>2
          <6>2. QED
            BY <6>1 DEF DataInv, ControlDataIntact
        <5>3. QED
          BY <5>1, <5>2
      <4>3. QED
        BY <1>0, <2>2, <4>2 DEF DataInv, ControlReadComplete
    <3>14. QED
      BY <1>2, <1>6, <3>8, <3>9, <3>11, <3>12, <3>13
  <2>5. QED
    BY <2>3, <2>4
<1>9. CASE ep = 1
  <2>1. UNCHANGED got /\ ~Reading /\ Configured /\ Alone /\ ctl = "none"
    BY <1>4, <1>9 DEF HostIn, ReportInv
  <2>2. packet.pid = DataPid(data_buffer[0])
        /\ data_buffer[0] = IF accepted = delivered THEN 1 - toggle[1] ELSE toggle[1]
    BY <1>4, <1>7, <2>1 DEF ReportInv, Offered
  <2>3. DataInv' /\ ControlInv'
    BY <1>0, <1>1, <1>2, <1>3, <1>4, <1>9, <2>1
       DEF DataInv, ControlDataIntact, ControlReadComplete, Wanted, ControlInv
  <2>4. CASE accepted = delivered
    <3>1. Reply.pid # DataPid(toggle[1])
      BY <1>4, <1>5, <2>2, <2>4, PidsDiffer
    <3>2. UNCHANGED <<toggle, delivered>>
      BY <1>9, <3>1 DEF HostIn
    <3>3. HostType' /\ StageInv'
      BY <1>0, <1>1, <1>2, <2>1, <3>2 DEF HostType, StageInv
    <3>4. ReportInv'
      BY <1>0, <1>1, <1>2, <1>3, <2>1, <2>4, <3>2 DEF ReportInv, Configured, Alone
    <3>5. QED
      BY <1>2, <1>6, <2>3, <3>3, <3>4
  <2>5. CASE accepted # delivered
    <3>1. /\ toggle' = [toggle EXCEPT ![1] = 1 - toggle[1]]
          /\ delivered' = Append(delivered, data_out.src)
      BY <1>4, <1>9, <2>2, <2>5 DEF HostIn
    <3>2. delivered' = accepted
      BY <2>5, <3>1 DEF ReportInv
    <3>3. toggle' \in [Endpoints -> 0 .. 1] /\ toggle'[0] = toggle[0]
          /\ toggle'[1] = 1 - toggle[1]
      BY <1>5, <3>1 DEF Endpoints
    <3>4. HostType' /\ StageInv'
      BY <1>0, <1>1, <1>2, <2>1, <3>2, <3>3 DEF HostType, StageInv
    <3>5. data_buffer'[0] = 1 - toggle'[1] /\ accepted' = delivered' /\ Offered'
      BY <1>1, <1>4, <1>5, <2>2, <2>5, <3>2, <3>3, <1>3 DEF Offered
    <3>6. ReportInv'
      BY <1>0, <1>1, <1>2, <1>3, <1>4, <1>7, <2>1, <2>2, <2>5, <3>2, <3>5
         DEF ReportInv, Configured, Alone
    <3>7. QED
      BY <1>2, <1>6, <2>3, <3>4, <3>6
  <2>6. QED
    BY <2>4, <2>5
<1>10. QED
  BY <1>0, <1>8, <1>9

\* Both sides see the end of a control read at the same packet, if it does not
\* end with a full one.
LEMMA StageEnd ==
    ASSUME NEW all \in Nat, NEW max \in Nat, NEW k \in Nat,
           all - Chunk * k \in Nat, max - Chunk * k \in Nat,
           ~(max # 0 /\ max % Chunk = 0 /\ max <= all),
           NEW len, len = Least(Chunk, Least(all, max) - Chunk * k)
    PROVE  /\ len < Chunk \/ Chunk * k + len >= max
              <=> (all - Chunk * k) - Chunk < 0 \/ (max - Chunk * k) - Chunk < 0
           /\ len < Chunk \/ Chunk * k + len >= max => Chunk * k + len = Least(all, max)
<1> DEFINE rest == Least(all, max) - Chunk * k
<1>1. rest \in Nat /\ (rest = all - 8 * k \/ rest = max - 8 * k)
      /\ rest <= all - 8 * k /\ rest <= max - 8 * k
  BY DEF Least, Chunk
<1>2. Least(all, max) = 8 * k + rest
  BY DEF Least, Chunk
<1>3. (all - 8 * k) - 8 < 0 \/ (max - 8 * k) - 8 < 0 <=> rest < 8
  BY <1>1
<1>4. len = IF 8 <= rest THEN 8 ELSE rest
  BY DEF Least, Chunk
<1> HIDE DEF rest
<1>5. CASE rest < 8
  BY <1>1, <1>2, <1>3, <1>4, <1>5 DEF Chunk
<1>6. CASE rest >= 8
  <2>1. len = 8
    BY <1>1, <1>4, <1>6
  <2>2. max # 8 * k + 8
    <3>1. SUFFICES ASSUME max = 8 * (k + 1) PROVE FALSE
      OBVIOUS
    <3>2. max % 8 = 0 /\ max # 0
      BY <3>1
    <3>3. max <= all
      BY <1>1, <1>6, <3>1
    <3>4. QED
      BY <3>2, <3>3 DEF Chunk
  <2>3. ~(8 * k + 8 >= max)
    BY <1>1, <1>6, <2>2
  <2>4. QED
    BY <1>1, <1>3, <1>6, <2>1, <2>3 DEF Chunk
<1>7. QED
  BY <1>1, <1>5, <1>6

\* The host's end of the stage is the device's.
LEMMA StageEnds ==
    ASSUME Quiet, TInv, bus = "ack", bus_ep = 0
    PROVE  /\ Reading /\ Behind /\ ctl \in {"data_in", "status_in"} /\ data_out_epnum = 0
           /\ queued_size # 0 /\ ~HasAck /\ ~Building
           /\ NextStage \in {ctl, "status_out", "none"}
           /\ NextStage = ctl => ctl = "data_in" /\ ~LastAck
           /\ NextStage # ctl => LastAck
           /\ NextStage = "status_out" => Received = Wanted
           /\ NextStage = "status_out" => ctl = "data_in"
<1> USE DEF TInv, Transfers
<1>1. /\ queued_size # 0 /\ data_out_epnum = 0 /\ ctl \in {"data_in", "status_in"}
  BY DEF BusInv
<1>2. ~HasAck /\ ~Building /\ Offered
  BY <1>1 DEF OfferInv, Offered
<1>3. Reading
  BY <1>1, <1>2, NoStage
<1>4. /\ Behind /\ data_out # NULL
      /\ data_out_left = req.len - data_out.off
      /\ data_out_max = req.wLength - data_out.off
      /\ Chunk * Len(got) \in {data_out.off, data_out.off + Chunk}
      /\ ctl # "data_in" => data_out.off = 0
  BY <1>3 DEF ControlInv
<1>5. /\ req.len \in Nat /\ req.wLength \in Nat /\ data_out.off \in Nat
      /\ data_out_left \in Nat /\ data_out_max \in Nat /\ got \in Seq(Chunks)
  BY <1>4 DEF IInv, TypeOK, Pointers, HostType
<1>6. Chunk * Len(got) = data_out.off + Chunk /\ Len(got) \in Nat
  BY <1>4, <1>5 DEF Behind
<1>7. Len(got) - 1 \in Nat /\ data_out.off = Chunk * (Len(got) - 1)
      /\ got # << >> /\ Len(got) \in DOMAIN got
  BY <1>5, <1>6 DEF Chunk
<1>8. got[Len(got)].len = Least(Chunk, Wanted - data_out.off)
  BY <1>7 DEF DataInv, ControlDataIntact
<1>9. req \in Requests
  BY <1>1 DEF StageInv
<1>10. CASE ctl = "data_in"
  <2>1. req.kind = "get"
    BY <1>10 DEF StageInv
  <2>2. ~(req.wLength # 0 /\ req.wLength % Chunk = 0 /\ req.wLength <= req.len)
    BY <1>9, <2>1 DEF Quiet
  <2> DEFINE k == Len(got) - 1
             len == got[Len(got)].len
  <2>3. /\ len < Chunk \/ Chunk * k + len >= req.wLength
           <=> (req.len - Chunk * k) - Chunk < 0 \/ (req.wLength - Chunk * k) - Chunk < 0
        /\ len < Chunk \/ Chunk * k + len >= req.wLength => Chunk * k + len = Wanted
    BY <1>4, <1>5, <1>7, <1>8, <2>2, StageEnd DEF Wanted
  <2>4. Received = Chunk * k + len
    BY <1>7 DEF Received
  <2>5. DataInOver <=> len < Chunk \/ Chunk * k + len >= req.wLength
    BY <1>7, <2>4 DEF DataInOver
  <2>6. LastAck <=> (req.len - Chunk * k) - Chunk < 0 \/ (req.wLength - Chunk * k) - Chunk < 0
    BY <1>4, <1>7 DEF LastAck
  <2>7. (DataInOver <=> LastAck) /\ (DataInOver => Received = Wanted)
    BY <2>3, <2>4, <2>5, <2>6
  <2>8. NextStage = IF DataInOver THEN "status_out" ELSE ctl
    BY <1>10 DEF NextStage
  <2>9. QED
    BY <1>1, <1>2, <1>3, <1>4, <1>10, <2>7, <2>8
<1>11. CASE ctl = "status_in"
  <2>1. NextStage = "none"
    BY <1>7, <1>11 DEF NextStage
  <2>2. Least(req.len, req.wLength) < Chunk
    BY <1>9, <1>11 DEF StageInv, Quiet
  <2>3. LastAck
    BY <1>4, <1>5, <1>11, <2>2 DEF LastAck, Chunk, Least
  <2>4. QED
    BY <1>1, <1>2, <1>3, <1>4, <1>11, <2>1, <2>3
<1>12. QED
  BY <1>1, <1>10, <1>11

\* The device hears the ACK.
LEMMA CaptureAckTransfers ==
    ASSUME Quiet, TInv, HostAck, CaptureAck, UNCHANGED <<program, main>>
    PROVE  Transfers'
<1> USE DEF TInv, Transfers
<1>0. /\ bus = "ack" /\ bus' = "idle" /\ TypeOK /\ bus_ep \in {0, 1}
      /\ UNCHANGED <<bus_ep, req, got, toggle, outs, delivered>>
      /\ bus_ep # 0 => UNCHANGED <<ctl, enumeration>>
  BY DEF HostAck, IInv, HostType, Endpoints
<1>1. UNCHANGED <<data_out, data_out_left, data_out_max, data_out_epnum, data_buffer,
                  packet_type, tok_epnum, pc, ready, accepted>>
  BY ProgramSame
<1>2. queue' = Append(queue, Ack) /\ queued_size' = 0 /\ UNCHANGED <<queued_epnum, packet>>
  BY DEF CaptureAck
<1>3. Ack.pid = "ACK"
  BY DEF Ack
<1>4. /\ HasAck'
      /\ HasSetup' <=> HasSetup
      /\ HasData0' <=> HasData0
      /\ HasOut' <=> HasOut
  BY <1>0, <1>2, <1>3, AppendHas
<1>5. queued_size # 0 /\ ~HasAck /\ ~Building /\ data_out # NULL /\ Offered
      /\ bus_ep = data_out_epnum
  BY <1>0 DEF BusInv, OfferInv, Offered
<1>6. ~Building' /\ ~Offered' /\ (LastAck' <=> LastAck) /\ (Behind' <=> Behind)
      /\ pc \notin {"tx", "fill", "queue", "size"}
  BY <1>0, <1>1, <1>2, <1>5 DEF Building, Offered, LastAck, Behind
<1>7. BusInv'
  BY <1>0 DEF BusInv
<1>8. HostType'
  BY <1>0, <1>1 DEF HostType
<1>9. OfferInv'
  BY <1>1, <1>2, <1>4, <1>5, <1>6 DEF OfferInv
<1>10. CASE bus_ep = 0
  <2>1. /\ Reading /\ Behind /\ ctl \in {"data_in", "status_in"} /\ data_out_epnum = 0
        /\ NextStage \in {ctl, "status_out", "none"}
        /\ NextStage = ctl => ctl = "data_in" /\ ~LastAck
        /\ NextStage # ctl => LastAck
        /\ NextStage = "status_out" => Received = Wanted
        /\ NextStage = "status_out" => ctl = "data_in"
    BY <1>0, <1>10, StageEnds
  <2>2. /\ ctl' = NextStage
        /\ enumeration' \in {enumeration, "addressed", "configured"}
        /\ NextStage # "none" => UNCHANGED enumeration
    BY <1>10 DEF HostAck
  <2>3. ~HasSetup /\ ~HasData0 /\ packet_type # "setup"
        /\ (ctl = "data_in" => ~HasOut /\ req.kind = "get") /\ req \in Requests
        /\ (ctl = "status_in" => req.kind # "get")
    BY <2>1 DEF Reading, StageInv, Stages
  <2>4. QueueInv'
    BY <1>0, <1>1, <1>2, <1>3, <1>5, <2>3, AppendQueueInv
  <2>5. Reading' <=> NextStage = ctl
    BY <1>4, <2>1, <2>2, <2>3 DEF Reading, Stages
  <2>6. StageInv'
    BY <1>0, <1>1, <1>4, <2>1, <2>2, <2>3, <2>5 DEF StageInv, Stages
  <2>7. ControlInv'
    <3>1. CASE NextStage = ctl
      <4>1. ctl' = ctl /\ ctl = "data_in" /\ ~LastAck /\ Reading'
        BY <2>1, <2>2, <2>5, <3>1
      <4>2. QED
        BY <1>0, <1>1, <1>2, <1>6, <2>1, <4>1 DEF ControlInv
    <3>2. CASE NextStage # ctl
      BY <1>6, <2>1, <2>5, <3>2 DEF ControlInv
    <3>3. QED
      BY <3>1, <3>2
  (* Enumeration ends with the toggles of endpoint 1 as they started. *)
  <2>8. ReportInv'
    <3>1. ~(Configured /\ Alone) /\ toggle[1] = 0 /\ accepted = delivered
          /\ ~ready /\ queued_epnum # 1
      BY <2>1 DEF ReportInv
    <3>2. ctl' \in {ctl, "none"} \/ ~Alone
      BY <2>1, <2>2 DEF ReportInv
    <3>3. Alone => /\ ctl = "status_in" /\ ctl' = "none" /\ ~HasOut
                   /\ data_buffer[0] = 1 /\ ~Reading'
      BY <2>1, <2>2, <2>5 DEF ReportInv, Stages
    <3>4. QED
      BY <1>0, <1>1, <1>2, <1>4, <1>6, <2>1, <2>3, <3>1, <3>3 DEF ReportInv, Configured, Alone
  <2>9. DataInv'
    BY <1>0, <2>1, <2>2 DEF DataInv, ControlDataIntact, ControlReadComplete, Wanted, Received
  <2>10. QED
    BY <1>7, <1>8, <1>9, <2>4, <2>6, <2>7, <2>8, <2>9
<1>11. CASE bus_ep = 1
  <2>1. data_out_epnum = 1 /\ Configured /\ Alone /\ UNCHANGED <<ctl, enumeration>>
    BY <1>0, <1>5, <1>11 DEF ReportInv
  <2>2. ctl = "none" /\ ~HasSetup /\ ~HasData0 /\ ~HasOut /\ ~Reading /\ ~Reading'
        /\ accepted = delivered /\ data_buffer[0] = 1 - toggle[1]
        /\ data_out_left = Chunk /\ data_out_max = Chunk
    BY <1>0, <1>5, <1>6, <2>1 DEF ReportInv, Reading, Stages
  <2>3. QueueInv'
    BY <1>0, <1>1, <1>2, <1>3, <1>5, <2>1, <2>2, AppendQueueInv
  <2>4. StageInv'
    BY <1>0, <1>1, <1>4, <2>1, <2>2 DEF StageInv
  <2>5. ControlInv'
    BY <1>1, <2>1, <2>2 DEF ControlInv
  <2>6. ReportInv'
    BY <1>0, <1>1, <1>2, <1>4, <1>6, <2>1, <2>2 DEF ReportInv, Configured, Alone
  <2>7. DataInv'
    BY <1>0, <2>1 DEF DataInv, ControlDataIntact, ControlReadComplete, Wanted, Received
  <2>8. QED
    BY <1>7, <1>8, <1>9, <2>3, <2>4, <2>5, <2>6, <2>7
<1>12. QED
  BY <1>0, <1>10, <1>11

\* The device does not hear it, and keeps its packet on offer.
LEMMA LostAckTransfers ==
    ASSUME Quiet, TInv, HostAck, NotSeen, UNCHANGED <<program, main>>,
           bus_ep = 0 => NextStage = ctl
    PROVE  Transfers'
<1> USE DEF TInv, Transfers
<1>0. /\ bus = "ack" /\ bus' = "idle" /\ TypeOK /\ bus_ep \in {0, 1}
      /\ UNCHANGED <<bus_ep, req, got, toggle, outs, delivered, queue>>
      /\ bus_ep # 0 => UNCHANGED <<ctl, enumeration>>
  BY DEF HostAck, NotSeen, IInv, HostType, Endpoints
<1>1. /\ UNCHANGED <<data_out, data_out_left, data_out_max, data_out_epnum, data_buffer,
                     packet_type, tok_epnum, pc, ready, accepted>>
      /\ UNCHANGED <<queued_size, queued_epnum, packet>>
  BY ProgramSame DEF NotSeen, phy
<1>2. UNCHANGED <<ctl, enumeration>>
      /\ (bus_ep = 0 => ctl = "data_in" /\ ~LastAck)
  <2>1. CASE bus_ep = 0
    <3>1. ctl = "data_in" /\ ~LastAck
      BY <1>0, <2>1, StageEnds
    <3>2. QED
      BY <2>1, <3>1 DEF HostAck
  <2>2. QED
    BY <1>0, <2>1
<1>3. /\ HasAck' = HasAck /\ HasSetup' = HasSetup /\ HasData0' = HasData0
      /\ HasOut' = HasOut /\ Reading' = Reading /\ QueueInv'
  BY <1>0, <1>1, <1>2, SameQueue
<1>4. (Offered' <=> Offered) /\ (Building' <=> Building) /\ (LastAck' <=> LastAck)
      /\ (Behind' <=> Behind)
  BY <1>0, <1>1 DEF Offered, Building, LastAck, Behind
<1>5. Reading => bus_ep = 0
  BY <1>0 DEF BusInv, ControlInv
<1>6. HostType' /\ BusInv' /\ StageInv'
  BY <1>0, <1>1, <1>2, <1>3 DEF HostType, BusInv, StageInv
<1>7. OfferInv'
  BY <1>1, <1>3, <1>4 DEF OfferInv
<1>8. ControlInv'
  BY <1>0, <1>1, <1>2, <1>3, <1>4, <1>5 DEF ControlInv
<1>9. ReportInv'
  BY <1>0, <1>1, <1>2, <1>3, <1>4 DEF ReportInv, Configured, Alone
<1>10. DataInv'
  BY <1>0, <1>2 DEF DataInv, ControlDataIntact, ControlReadComplete, Wanted, Received
<1>11. QED
  BY <1>3, <1>6, <1>7, <1>8, <1>9, <1>10

LEMMA HostTransfers == ASSUME Quiet, TInv, Host PROVE Transfers'
<1>0. UNCHANGED <<program, main>>
  BY DEF Host
<1>1. CASE \E r \in Requests : HostSetup(r)
  BY <1>0, <1>1, HostSetupTransfers
<1>2. CASE \E ep \in Endpoints : HostOut(ep)
  BY <1>0, <1>2, HostOutTransfers
<1>3. CASE \E ep \in Endpoints : HostIn(ep)
  BY <1>0, <1>3, HostInTransfers
<1>4. CASE HostSetupData
  BY <1>0, <1>4, HostSetupDataTransfers
<1>5. CASE HostOutData0 \/ HostOutData1
  BY <1>0, <1>5, HostOutDataTransfers
<1>6. CASE HostAck
  <2>1. CASE CaptureAck
    BY <1>0, <1>6, <2>1, CaptureAckTransfers
  <2>2. CASE ~CaptureAck
    <3>1. NotSeen /\ (bus_ep = 0 => NextStage = ctl)
      BY <1>6, <2>2, NoSuchFault DEF HostAck
    <3>2. QED
      BY <1>0, <1>6, <3>1, LostAckTransfers
  <2>3. QED
    BY <2>1, <2>2
<1>7. ~HostAbort
  BY NoSuchFault DEF HostAbort
<1>8. QED
  BY <1>1, <1>2, <1>3, <1>4, <1>5, <1>6, <1>7 DEF Host, HostData

LEMMA StutterTransfers == Transfers /\ UNCHANGED vars => Transfers'
<1> SUFFICES ASSUME Transfers, UNCHANGED vars PROVE Transfers'
  OBVIOUS
<1> USE DEF Transfers, vars, device, main
<1>1. UNCHANGED host /\ accepted' = accepted
  BY DEF host
<1>2. /\ UNCHANGED <<bus, bus_ep, ctl, req, got, toggle, enumeration, delivered, outs>>
      /\ DataInv' /\ QueueInv' /\ StageInv' /\ HostType'
      /\ HasAck' = HasAck /\ HasSetup' = HasSetup /\ HasData0' = HasData0
      /\ HasOut' = HasOut /\ SetupLast' = SetupLast /\ OutLast' = OutLast
      /\ Reading' = Reading
  BY <1>1, QuietStep DEF HostType
<1>3. (Offered' <=> Offered) /\ (Building' <=> Building) /\ (LastAck' <=> LastAck)
      /\ (Behind' <=> Behind)
  BY <1>2 DEF Offered, Building, LastAck, Behind
<1>4. BusInv' /\ OfferInv'
  BY <1>2, <1>3 DEF BusInv, OfferInv
<1>5. ControlInv'
  BY <1>2, <1>3 DEF ControlInv
<1>6. ReportInv'
  BY <1>2, <1>3 DEF ReportInv, Configured
<1>7. QED
  BY <1>2, <1>4, <1>5, <1>6

LEMMA NextTransfers == ASSUME Quiet, TInv, [Next]_vars PROVE TInv'
<1>1. IInv'
  BY NextIInv DEF TInv
<1>2. CASE Host
  BY <1>1, <1>2, HostTransfers DEF TInv
<1>3. CASE UsbProcess /\ UNCHANGED host
  <2>1. UNCHANGED <<main, host>>
    BY <1>3 DEF UsbProcess
  <2>2. Transfers'
    BY <1>3, <2>1, SetupTokenTransfers, OutTokenTransfers, SetupDataTransfers, OutDataTransfers,
       IgnoreDataTransfers, LastAckTransfers, AckTransfers, TxEndTransfers, TxStartTransfers,
       TxFillTransfers, WriteQueueTransfers
       DEF UsbProcess, Process, ProcessTx
  <2>3. QED
    BY <1>1, <2>2 DEF TInv
<1>4. CASE UsbSend /\ UNCHANGED host
  BY <1>1, <1>4, UsbSendTransfers DEF TInv
<1>5. CASE (NoEvent \/ DrainEp1 \/ RadioPoll \/ NotSent \/ Sent) /\ UNCHANGED host
  BY <1>1, <1>5, LoopTransfers DEF TInv
<1>6. CASE UNCHANGED vars
  BY <1>1, <1>6, StutterTransfers DEF TInv
<1>7. QED
  BY <1>2, <1>3, <1>4, <1>5, <1>6 DEF Next, MainLoop

\* The inductive invariant of the transfers.
THEOREM TransferInvariance == ASSUME Quiet PROVE Spec => []TInv
<1>1. Init => TInv
  BY InitIInv, InitTransfers DEF TInv
<1>2. TInv /\ [Next]_vars => TInv'
  BY NextTransfers
<1>3. QED
  BY <1>1, <1>2, PTL DEF Spec

-----------------------------------------------------------------------------
(* What it says of the cable. *)

\* The interrupt never sends a packet while grainuum_state_process_tx fills it.
THEOREM NoPacketTorn == ASSUME Quiet PROVE Spec => []NoTornPacket
<1>1. TInv => NoTornPacket
  BY DEF TInv, Transfers, OfferInv, Building, NoTornPacket
<1>2. QED
  BY <1>1, TransferInvariance, PTL

LEMMA CountAcks ==
    ASSUME TInv PROVE Acks = IF HasAck THEN 1 ELSE 0
<1> USE DEF TInv, Transfers
<1> DEFINE acks == {i \in DOMAIN queue : queue[i] = Ack}
<1>1. TypeOK /\ DOMAIN queue = Positions
  BY DEF IInv, TypeOK, Positions
<1>2. \A i \in Positions : queue[i].pid = "ACK" <=> queue[i] = Ack
  BY <1>1, QueuePids
<1>3. CASE ~HasAck
  <2>1. acks = {}
    BY <1>1, <1>2, <1>3 DEF HasAck
  <2>2. QED
    BY <1>3, <2>1, FS_EmptySet DEF Acks
<1>4. CASE HasAck
  <2>1. PICK i \in Positions : queue[i].pid = "ACK"
    BY <1>4 DEF HasAck
  <2>2. ASSUME NEW j \in Positions, queue[j].pid = "ACK" PROVE j = i
    <3>1. ~(i < j) /\ ~(j < i)
      BY <2>1, <2>2 DEF QueueInv, InOrder
    <3>2. QED
      BY <3>1 DEF Positions
  <2>3. acks = {i}
    BY <1>1, <1>2, <2>1, <2>2
  <2>4. Cardinality(acks) = 1
    BY <2>3, FS_Singleton
  <2>5. QED
    BY <1>4, <2>4 DEF Acks
<1>5. QED
  BY <1>3, <1>4

\* Each packet of a transfer is with the interrupt or has its one ACK in the
\* queue: no ACK is counted twice, and none for a packet that was not sent.
THEOREM AcksCounted == ASSUME Quiet PROVE Spec => []OneAckPerPacket
<1>1. TInv => OneAckPerPacket
  <2> SUFFICES ASSUME TInv, pc \notin TransferPcs
               PROVE  (IF queued_size # 0 THEN 1 ELSE 0) + Acks
                        = (IF packet_queued THEN 1 ELSE 0)
    BY DEF OneAckPerPacket
  <2> DEFINE acks == IF HasAck THEN 1 ELSE 0
  <2>1. Acks = acks
    BY CountAcks
  <2>2. packet_queued <=> data_out # NULL
    BY Zenon DEF TInv, IInv, TransferInv, TransferHasPacket
  <2>3. (Offered <=> queued_size # 0) /\ (data_out # NULL <=> Offered \/ HasAck)
        /\ ~(Offered /\ HasAck)
    BY DEF TInv, Transfers, OfferInv, Offered, Building, TransferPcs
  <2>4. (IF queued_size # 0 THEN 1 ELSE 0) + acks = IF data_out # NULL THEN 1 ELSE 0
    BY <2>3
  <2>5. (IF packet_queued THEN 1 ELSE 0) = IF data_out # NULL THEN 1 ELSE 0
    BY <2>2, Zenon
  <2>6. QED
    BY <2>1, <2>4, <2>5
<1>2. QED
  BY <1>1, TransferInvariance, PTL

\* As long as Quiet holds, every chunk of a control transfer, of a read or of what
\* a status stage carries, is the right part of what getDescriptor answers to the
\* host's own request.
THEOREM ControlReadsIntact == ASSUME Quiet PROVE Spec => []ControlDataIntact
<1>1. TInv => ControlDataIntact
  BY DEF TInv, Transfers, DataInv
<1>2. QED
  BY <1>1, TransferInvariance, PTL

\* A control read that the host ends has all of the answer.
THEOREM ControlReadsComplete == ASSUME Quiet PROVE Spec => []ControlReadComplete
<1>1. TInv => ControlReadComplete
  BY DEF TInv, Transfers, DataInv
<1>2. QED
  BY <1>1, TransferInvariance, PTL

\* A report goes out with the data toggle the host expects.
THEOREM PidsCorrect == ASSUME Quiet PROVE Spec => []CorrectPid
<1>1. TInv => CorrectPid
  <2> SUFFICES ASSUME TInv, queued_size # 0, pc \notin TransferPcs,
                      accepted = Append(delivered, packet.src)
               PROVE  packet.pid = DataPid(toggle[1])
    BY DEF CorrectPid
  <2> USE DEF TInv, Transfers
  <2>1. accepted # delivered
    <3>1. packet.src \in Payloads /\ delivered \in Seq(Payloads)
      BY DEF IInv, TypeOK, HostType, Payloads
    <3>2. QED
      BY <3>1, AppendDiffers
  <2>2. Configured /\ Alone /\ Offered
    BY <2>1 DEF ReportInv
  <2>3. ~HasAck /\ pc # "tx"
    BY <2>2 DEF OfferInv, TransferPcs
  <2>4. QED
    BY <2>1, <2>2, <2>3 DEF ReportInv
<1>2. QED
  BY <1>1, TransferInvariance, PTL

\* What the host does with the answer on endpoint 1: a report is taken once.
LEMMA HostInDelivers ==
    ASSUME TInv, NEW ep \in Endpoints, HostIn(ep)
    PROVE  UNCHANGED delivered \/ (accepted # delivered /\ delivered' = accepted)
<1> USE DEF TInv, Transfers
<1>1. /\ data_out # NULL /\ ep = data_out_epnum /\ ~HasAck /\ ~Building /\ queued_size # 0
      /\ Reply.pid = packet.pid /\ Reply.src = data_out.src
      /\ ep = 1 => ~Reading /\ Configured /\ Alone
  BY HostInFinds
<1>2. CASE ep = 1 /\ accepted = delivered
  <2>1. packet.pid = DataPid(data_buffer[0]) /\ data_buffer[0] = 1 - toggle[1]
    BY <1>1, <1>2 DEF ReportInv, Offered, Building
  <2>2. data_buffer[0] \in 0 .. 1 /\ toggle[1] \in 0 .. 1
    BY DEF IInv, TypeOK, HostType, Endpoints
  <2>3. packet.pid # DataPid(toggle[1])
    BY <2>1, <2>2, PidsDiffer
  <2>4. QED
    BY <1>1, <1>2, <2>3 DEF HostIn
<1>3. CASE ep = 1 /\ accepted # delivered
  <2>1. delivered' = delivered \/ delivered' = Append(delivered, data_out.src)
    BY <1>1, <1>3 DEF HostIn
  <2>2. accepted = Append(delivered, data_out.src)
    BY <1>3 DEF ReportInv
  <2>3. QED
    BY <1>3, <2>1, <2>2
<1>4. CASE ep = 0
  BY <1>4 DEF HostIn
<1>5. QED
  BY <1>2, <1>3, <1>4 DEF Endpoints

\* Every keyboard report usbSend takes reaches the host once, in order and before
\* the next one is taken, whichever ACKs the device misses.
THEOREM PipeRefinement == ASSUME Quiet PROVE Spec => ImplementsPipe
<1>1. Init => Pipe!Init
  BY DEF Init, Pipe!Init
<1>2. TInv /\ [Next]_vars => [Pipe!Next]_(Pipe!pipe)
  <2> SUFFICES ASSUME TInv, [Next]_vars PROVE Pipe!Next \/ UNCHANGED <<accepted, delivered>>
    BY DEF Pipe!pipe
  <2>1. CASE UsbSend /\ UNCHANGED host
    <3>1. kbd \in 1 .. MaxReports /\ accepted = delivered
      BY <2>1, UsbSendFinds
    <3>2. accepted' = Append(accepted, Report(kbd)) /\ UNCHANGED delivered
      BY <2>1 DEF UsbSend, host
    <3>3. Pipe!Accept(Report(kbd))
      BY <3>1, <3>2 DEF Pipe!Accept
    <3>4. QED
      BY <3>1, <3>3 DEF Pipe!Next
  <2>2. CASE Host
    <3>1. UNCHANGED accepted
      BY <2>2 DEF Host, main
    <3>2. CASE \E ep \in Endpoints : HostIn(ep)
      <4>1. UNCHANGED delivered \/ (accepted # delivered /\ delivered' = accepted)
        BY <3>2, HostInDelivers
      <4>2. QED
        BY <3>1, <4>1 DEF Pipe!Next, Pipe!Deliver
    <3>3. CASE ~\E ep \in Endpoints : HostIn(ep)
      <4>1. UNCHANGED delivered
        BY <2>2, <3>3 DEF Host, HostSetup, HostOut, HostData, HostSetupData, HostOutData0,
                          HostOutData1, HostAck, HostAbort
      <4>2. QED
        BY <3>1, <4>1
    <3>4. QED
      BY <3>2, <3>3
  <2>3. CASE MainLoop /\ ~UsbSend
    BY <2>3 DEF MainLoop, UsbProcess, NoEvent, DrainEp1, RadioPoll, NotSent, Sent, main, host
  <2>4. CASE UNCHANGED vars
    BY <2>4 DEF vars, main
  <2>5. QED
    BY <2>1, <2>2, <2>3, <2>4 DEF Next, MainLoop
<1>3. QED
  BY <1>1, <1>2, TransferInvariance, PTL DEF Spec, ImplementsPipe, Pipe!Spec
=============================================================================
