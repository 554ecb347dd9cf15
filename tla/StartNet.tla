------------------------------ MODULE StartNet ------------------------------
(***************************************************************************)
(* How transmitters start (palawanTxMain): each asks the receiver for an   *)
(* address and then for its firmware version, over a radio that loses      *)
(* packets, and asks again when no answer comes in time, while the         *)
(* receiver and the transmitters may restart at any time.  A node that     *)
(* sends while a packet waits in its chip repeats that packet instead of   *)
(* its own, so that an old answer can turn up at any time; a transmitter   *)
(* that runs does not poll its radio any more and repeats whatever it      *)
(* hears.  The receiver's table of addresses is a LeaseTable, which        *)
(* DhcpServer implements; that a packet in the receiver's radio is polled  *)
(* for is shown in InputPath.                                              *)
(***************************************************************************)
EXTENDS Radio

CONSTANTS Receiver, Clients,   \* the nodes
          Slots,               \* addresses of the receiver's table
          Versions,            \* firmware versions (git version and hash)
          FirstVersions,       \* what the nodes may have at first
          MAX_PACKET_HANDLERS, \* entries of a handler table, 10 in the code
          MaxFaults            \* bound: restarts of either side, all together

ASSUME NodesAssumption == Receiver \notin Clients /\ Nodes = Clients \cup {Receiver}
ASSUME SlotsAssumption == Slots # {} /\ Slots \subseteq 2 .. 254
ASSUME VersionsAssumption == FirstVersions \subseteq [Nodes -> Versions]
ASSUME MaxFaultsAssumption == MaxFaults \in Nat

VARIABLES
  phase,         \* client -> where its start-up is
  version,       \* node -> its firmware
  recent, lease, \* the receiver's table
  reply,         \* the answer its handler is about to send, or NoPacket
  life,          \* restarts of the receiver so far
  last,          \* client -> the last answer it took an address from
  lost,          \* leases that were taken away: [uid, addr, life]
  checked,       \* client -> life of the receiver whose version it compared
  faults         \* counted for the bound

\* last, lost and checked are for the properties only.
table  == <<recent, lease>>
vars   == <<radio, phase, version, table, reply, life, last, lost, checked, faults>>

ReceiverAddress == 0
NoAnswer == [addr |-> StartAddress, life |-> 0]

Leases == INSTANCE LeaseTable
            WITH Uids <- Clients, NoAnswer <- NoAnswer, answer <- NoAnswer

\* inputServerSetup, dhcpServerSetup, firmwareServerSetup, echoServerSetup and
\* aboutServerSetup, in the order of palawanRxMain
ReceiverHandlers ==
    LET input    == SetHandler(<< >>, "input")
        dhcp     == SetHandler(input, "dhcp_request")
        firmware == SetHandler(dhcp, "request_firmware")
        echo     == SetHandler(firmware, "echo")
    IN  SetHandler(echo, "about_request")

Init == /\ address = [n \in Nodes |-> IF n = Receiver THEN ReceiverAddress ELSE StartAddress]
        /\ handlers = [n \in Nodes |-> IF n = Receiver THEN ReceiverHandlers ELSE << >>]
        /\ fifo = [n \in Nodes |-> NoPacket]
        /\ phase = [c \in Clients |-> "dhcp"]
        /\ version \in FirstVersions
        /\ recent = << >> /\ lease = [u \in {} |-> StartAddress]
        /\ reply = NoPacket
        /\ life = 0
        /\ last = [c \in Clients |-> NoAnswer] /\ lost = {}
        /\ checked = [c \in Clients |-> 0]
        /\ faults = 0

-----------------------------------------------------------------------------
(* The packets; a field that nobody reads is left out. *)

DhcpRequest(uid) ==
    [prot |-> "dhcp_request", dst |-> RADIO_BROADCAST_ADDRESS, uid |-> uid]
DhcpResponse(uid, addr) ==
    [prot |-> "dhcp_response", dst |-> RADIO_BROADCAST_ADDRESS, uid |-> uid,
     addr |-> addr, life |-> life]
Input == [prot |-> "input", dst |-> ReceiverAddress]
AboutRequest(src) == [prot |-> "about_request", dst |-> ReceiverAddress, src |-> src]
AboutResponse(dst) ==
    [prot |-> "about_response", dst |-> dst, version |-> version[Receiver], life |-> life]

-----------------------------------------------------------------------------
(* The transmitter *)

Fault == faults < MaxFaults /\ faults' = faults + 1

\* dhcpRequestAddress up to its loop
AskAddress(c, sure) ==
    /\ phase[c] = "dhcp" /\ phase' = [phase EXCEPT ![c] = "dhcp_wait"]
    /\ handlers' = [handlers EXCEPT ![c] = SetHandler(@, "dhcp_response")]
    /\ RadioSend(c, DhcpRequest(c), sure)
    /\ UNCHANGED <<address, version, table, reply, life, last, lost, checked, faults>>

\* One round of the loop of palawanTxVerifyFirmware up to its inner loop
AskAbout(c, sure) ==
    /\ phase[c] = "about" /\ phase' = [phase EXCEPT ![c] = "about_wait"]
    /\ RadioSend(c, AboutRequest(address[c]), sure)
    /\ UNCHANGED <<address, handlers, version, table, reply, life, last, lost, checked,
                   faults>>

\* The loop of palawanTxMain: its packets are InputPath's matter, what waits in its
\* chip when it sends one is not.
SendInput(c) ==
    /\ phase[c] = "running" /\ RadioSend(c, Input, {})
    /\ UNCHANGED <<address, handlers, phase, version, table, reply, life, last, lost,
                   checked, faults>>

Waits(c) == phase[c] \in {"dhcp_wait", "about_wait"}

\* Mutant: any client's answer is taken.
IsOwnAny(c) == TRUE

IsOwn(c) == fifo[c].uid = c

\* dhcp_response.  A client that waited for it goes on to the handler of
\* palawanTxVerifyFirmware.  This one stays registered: an answer that comes during
\* the firmware check, a late or a repeated one, moves the address.
TakeAddress(c) ==
    /\ Waits(c) /\ Handled(c, "dhcp_response") /\ Unload(c)
    /\ IF IsOwn(c)
       THEN /\ address' = [address EXCEPT ![c] = fifo[c].addr]
            /\ last' = [last EXCEPT ![c] = [addr |-> fifo[c].addr, life |-> fifo[c].life]]
            /\ IF phase[c] = "dhcp_wait"
               THEN /\ phase' = [phase EXCEPT ![c] = "about"]
                    /\ handlers' = [handlers EXCEPT ![c] = SetHandler(@, "about_response")]
               ELSE UNCHANGED <<phase, handlers>>
       ELSE UNCHANGED <<address, last, phase, handlers>>
    /\ UNCHANGED <<version, table, reply, life, lost, checked, faults>>

\* Mutant: the version is not compared.
VerdictRuns(c) == "running"

\* about_response: the boot loader is started, or the inner and the outer loop
\* are left.
Verdict(c) == IF fifo[c].version # version[c] THEN "bootloader" ELSE "running"

CompareVersion(c) ==
    /\ Waits(c) /\ Handled(c, "about_response") /\ Unload(c)
    /\ phase' = [phase EXCEPT ![c] = Verdict(c)]
    /\ checked' = [checked EXCEPT ![c] = fifo[c].life]
    /\ UNCHANGED <<address, handlers, version, table, reply, life, last, lost, faults>>

\* A packet nobody handles.
Drop(c) == /\ Waits(c) /\ Unload(c) /\ Unhandled(c)
           /\ UNCHANGED <<address, handlers, phase, version, table, reply, life, last,
                          lost, checked, faults>>

\* Mutant: the firmware check does not give up waiting.
TimeoutOfRequest(c) ==
    /\ phase[c] = "dhcp_wait" /\ phase' = [phase EXCEPT ![c] = "dhcp"]
    /\ UNCHANGED <<radio, version, table, reply, life, last, lost, checked, faults>>

\* 200 or 30 rounds without an answer: the request is sent again.  The answer may
\* still be under way, or in the buffer since the last round.
Timeout(c) ==
    /\ \/ phase[c] = "dhcp_wait" /\ phase' = [phase EXCEPT ![c] = "dhcp"]
       \/ phase[c] = "about_wait" /\ phase' = [phase EXCEPT ![c] = "about"]
    /\ UNCHANGED <<radio, version, table, reply, life, last, lost, checked, faults>>

\* Power is lost, or the boot loader has loaded another firmware.
ClientRestarts(c) ==
    /\ Fault
    /\ RadioStart(c)
    /\ handlers' = [handlers EXCEPT ![c] = << >>]
    /\ phase' = [phase EXCEPT ![c] = "dhcp"]
    /\ \E v \in Versions :
         /\ phase[c] # "bootloader" => v = version[c]
         /\ version' = [version EXCEPT ![c] = v]
    /\ UNCHANGED <<table, reply, life, last, lost, checked>>

-----------------------------------------------------------------------------
(* The receiver *)

\* Mutant: an empty entry is taken before the client's own is looked for.
ServedByEmptyEntry(uid) ==
    \/ \E a \in Slots : /\ \A v \in DOMAIN lease : lease[v] # a
                        /\ lease' = [v \in DOMAIN lease \cup {uid} |->
                                       IF v = uid THEN a ELSE lease[v]]
                        /\ recent' = Append(recent, uid)
    \/ Leases!Evict(uid)

Served(uid) == Leases!Renew(uid) \/ Leases!Grant(uid) \/ Leases!Evict(uid)

Evicted == {[uid |-> u, addr |-> lease[u], life |-> life] : u \in DOMAIN lease \ DOMAIN lease'}

\* dhcp_request up to its radioSend: the table is a LeaseTable.
ServeAddress ==
    /\ reply = NoPacket
    /\ Handled(Receiver, "dhcp_request") /\ Unload(Receiver)
    /\ LET uid == fifo[Receiver].uid
       IN  Served(uid) /\ reply' = DhcpResponse(uid, lease'[uid])
    /\ lost' = lost \cup Evicted
    /\ UNCHANGED <<address, handlers, phase, version, life, last, checked, faults>>

\* about_request up to its radioSend, which comes after the whole firmware was
\* hashed: the answer goes to where the request came from.
ServeAbout ==
    /\ reply = NoPacket
    /\ Handled(Receiver, "about_request") /\ Unload(Receiver)
    /\ reply' = AboutResponse(fifo[Receiver].src)
    /\ UNCHANGED <<address, handlers, phase, version, table, life, last, lost, checked,
                   faults>>

\* input_request, whose effect is InputPath's, or a packet that nobody handles.
TakeOther ==
    /\ reply = NoPacket
    /\ Handled(Receiver, "input") \/ Unhandled(Receiver)
    /\ Unload(Receiver)
    /\ UNCHANGED <<address, handlers, phase, version, table, reply, life, last, lost,
                   checked, faults>>

\* The radioSend of the two handlers.
Answer(sure) ==
    /\ reply # NoPacket /\ RadioSend(Receiver, reply, sure) /\ reply' = NoPacket
    /\ UNCHANGED <<address, handlers, phase, version, table, life, last, lost, checked,
                   faults>>

\* Power is lost, perhaps for another firmware: the table is empty again.
ReceiverRestarts ==
    /\ Fault /\ life' = life + 1
    /\ fifo' = [fifo EXCEPT ![Receiver] = NoPacket] /\ reply' = NoPacket
    /\ handlers' = [handlers EXCEPT ![Receiver] = ReceiverHandlers]
    /\ recent' = << >> /\ lease' = [u \in {} |-> StartAddress]
    /\ \E v \in Versions : version' = [version EXCEPT ![Receiver] = v]
    /\ UNCHANGED <<address, phase, last, lost, checked>>

-----------------------------------------------------------------------------
Ask(c, sure) == AskAddress(c, sure) \/ AskAbout(c, sure)
Poll(c)      == TakeAddress(c) \/ CompareVersion(c) \/ Drop(c)
Serve        == ServeAddress \/ ServeAbout \/ TakeOther

Next == \/ \E c \in Clients : Ask(c, {}) \/ Poll(c) \/ Timeout(c) \/ SendInput(c)
                              \/ ClientRestarts(c)
        \/ Serve \/ Answer({}) \/ ReceiverRestarts

Spec == Init /\ [][Next]_vars

\* The answer c asks for.
Awaited(c, pkt) ==
    CASE phase[c] \in {"dhcp", "dhcp_wait"}   -> pkt.prot = "dhcp_response" /\ pkt.uid = c
      [] phase[c] \in {"about", "about_wait"} -> pkt.prot = "about_response" /\ pkt.dst = address[c]
      [] OTHER -> FALSE

\* A request that really goes out, to a receiver that has time for it.
Delivered(c) == fifo[c] = NoPacket /\ reply = NoPacket /\ Ask(c, {Receiver})

\* Everybody runs.  Of the requests of a client that asks for ever some get to the
\* receiver, and of the answers to them some get to the client before the time-out.
Fairness ==
    /\ WF_vars(Serve) /\ WF_vars(Answer({}))
    /\ \A c \in Clients :
         /\ WF_vars(Ask(c, {})) /\ WF_vars(Poll(c)) /\ WF_vars(Timeout(c))
         /\ []<><<Ask(c, {})>>_vars => []<><<Delivered(c)>>_vars
         /\ []<><<Awaited(c, reply) /\ Answer({})>>_vars
              => []<><<Awaited(c, fifo[c]) /\ Poll(c)>>_vars
FairSpec == Spec /\ Fairness

-----------------------------------------------------------------------------
(* Properties *)

Phases == {"dhcp", "dhcp_wait", "about", "about_wait", "running", "bootloader"}
Protocols == {"input", "dhcp_request", "request_firmware", "echo", "about_request",
              "dhcp_response", "about_response"}
Uids   == Clients
Packets ==
    {NoPacket} \cup
    [prot : {"dhcp_request"}, dst : {RADIO_BROADCAST_ADDRESS}, uid : Uids] \cup
    [prot : {"dhcp_response"}, dst : {RADIO_BROADCAST_ADDRESS}, uid : Uids,
     addr : Slots, life : Nat] \cup
    [prot : {"input"}, dst : {ReceiverAddress}] \cup
    [prot : {"about_request"}, dst : {ReceiverAddress}, src : Slots] \cup
    [prot : {"about_response"}, dst : Slots, version : Versions, life : Nat]
HasAddress(c) == phase[c] \notin {"dhcp", "dhcp_wait"}

TypeOK ==
    /\ address \in [Nodes -> {ReceiverAddress, StartAddress} \cup Slots]
    /\ \A c \in Clients : IF HasAddress(c) THEN address[c] = last[c].addr /\ address[c] \in Slots
                                          ELSE address[c] = StartAddress
    /\ handlers \in [Nodes -> Seq(Protocols)]
    /\ fifo \in [Nodes -> Packets] /\ reply \in Packets
    /\ phase \in [Clients -> Phases] /\ version \in [Nodes -> Versions]
    /\ recent \in Seq(Uids) /\ DOMAIN lease \subseteq Uids
    /\ \A u \in DOMAIN lease : lease[u] \in Slots
    /\ life \in Nat /\ lost \subseteq [uid : Uids, addr : Slots, life : Nat]
    /\ last \in [Clients -> [addr : {StartAddress} \cup Slots, life : Nat]]
    /\ checked \in [Clients -> Nat]
    /\ faults \in 0 .. MaxFaults

\* However often a request is repeated, the table of handlers has room:
\* radioSetHandler writes to it without a look at its size (radio.c:527).
HandlersFit == \A n \in Nodes : Len(handlers[n]) <= MAX_PACKET_HANDLERS

Kept(c) == [uid |-> c, addr |-> last[c].addr, life |-> last[c].life] \notin lost

\* Two transmitters that got their addresses from the same life of the receiver
\* have different ones, with answers lost, late or repeated by others, and whoever
\* restarted in between; unless the receiver, out of addresses, gave one of the two
\* away (dhcp-server.c:59).
UniqueAddresses ==
    \A c, d \in Clients :
        c # d /\ HasAddress(c) /\ HasAddress(d) /\ last[c].life = last[d].life
        /\ Kept(c) /\ Kept(d) => address[c] # address[d]

\* A transmitter that restarts gets the address it had before, whichever answer
\* reaches it first, as long as the receiver keeps running and gives neither the
\* old nor the new one away.
AddressKept ==
    [][\A c \in Clients :
         HasAddress(c)' /\ last[c].addr # StartAddress /\ last'[c].life = last[c].life
         /\ Kept(c) /\ Kept(c)' => address'[c] = last[c].addr]_vars

\* A transmitter that runs has the firmware of the receiver, one in its boot
\* loader has another; unless the receiver restarted since it answered.
FirmwareChecked ==
    \A c \in Clients :
        checked[c] = life =>
            /\ phase[c] = "running" => version[c] = version[Receiver]
            /\ phase[c] = "bootloader" => version[c] # version[Receiver]

\* In the end every transmitter runs, or is in its boot loader, whatever was lost,
\* came late or restarted in between.
EveryClientStarts == <>[](\A c \in Clients : phase[c] \in {"running", "bootloader"})
=============================================================================
