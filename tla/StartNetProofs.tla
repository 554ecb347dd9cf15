--------------------------- MODULE StartNetProofs ---------------------------
(***************************************************************************)
(* For any number of transmitters, addresses and versions, and whatever    *)
(* is lost, late, repeated or restarted: StartNet's types, the room in the *)
(* tables of handlers, and that addresses are unique and kept and firmware *)
(* compared.                                                               *)
(***************************************************************************)
EXTENDS StartNet, SequenceTheorems, TLAPS

\* The packets there are: in the buffers, and the one the receiver is about to send.
Held == {fifo[n] : n \in Nodes} \cup {reply}

\* Every answer an address was or may be taken from.
Answers == [uid : Uids, addr : Slots, life : Nat]
Gives(pkt, k) == /\ pkt.prot = "dhcp_response"
                 /\ pkt.uid = k.uid /\ pkt.addr = k.addr /\ pkt.life = k.life
IsLast(k, c) == k.uid = c /\ last[c].addr = k.addr /\ last[c].life = k.life
Given == {k \in Answers : (\E pkt \in Held : Gives(pkt, k)) \/ (\E c \in Clients : IsLast(k, c))}
Lasting(k) == k \notin lost

\* The table: no address twice, and the clients in order are those with a lease.
TableInv ==
    /\ \A u, v \in DOMAIN lease : u # v => lease[u] # lease[v]
    /\ \A u \in DOMAIN lease : \E i \in 1 .. Len(recent) : recent[i] = u
    /\ \A i \in 1 .. Len(recent) : recent[i] \in DOMAIN lease
    /\ \A i, j \in 1 .. Len(recent) : i # j => recent[i] # recent[j]

\* Answers of this life that were not taken back are in the table ...
GivenNow == \A k \in Given : k.life = life /\ Lasting(k) =>
                k.uid \in DOMAIN lease /\ lease[k.uid] = k.addr
\* ... none is of a later life, and those of one life agree.
GivenOnce == \A k, l \in Given : k.life = l.life /\ Lasting(k) /\ Lasting(l) =>
                (k.uid = l.uid <=> k.addr = l.addr)
PastOnly == /\ \A k \in Given : k.life <= life
            /\ \A k \in lost : k.life <= life
            /\ \A c \in Clients : checked[c] <= life
AddressInv == TableInv /\ GivenNow /\ GivenOnce /\ PastOnly

\* The versions on their way that the receiver sent in this life are its own.
VersionInv == \A pkt \in Held :
    pkt.prot = "about_response" =>
        /\ pkt.life <= life
        /\ pkt.life = life => pkt.version = version[Receiver]

ClientHandlers(c) ==
    CASE phase[c] = "dhcp"      -> handlers[c] \in {<< >>, <<"dhcp_response">>}
      [] phase[c] = "dhcp_wait" -> handlers[c] = <<"dhcp_response">>
      [] OTHER                  -> handlers[c] = <<"dhcp_response", "about_response">>
HandlersInv == /\ handlers[Receiver] = ReceiverHandlers
               /\ \A c \in Clients : ClientHandlers(c)

IInv == TypeOK /\ HandlersInv /\ AddressInv /\ VersionInv /\ FirmwareChecked

-----------------------------------------------------------------------------
(* What the driver's operations do. *)

LEMMA NodeFacts ==
    /\ Receiver \in Nodes /\ Clients \subseteq Nodes /\ \A c \in Clients : c # Receiver
    /\ NoPacket \in Packets /\ NoPacket.prot = "none"
    /\ \A a \in Slots : a \in Nat /\ a # ReceiverAddress /\ a # StartAddress
BY NodesAssumption, SlotsAssumption, SMT
   DEF NoPacket, Packets, ReceiverAddress, StartAddress

LEMMA SetHandlerType ==
    ASSUME NEW t \in Seq(Protocols), NEW p \in Protocols
    PROVE  /\ SetHandler(t, p) \in Seq(Protocols)
           /\ Len(SetHandler(t, p)) <= Len(t) + 1
<1> Append(t, p) \in Seq(Protocols) /\ Len(Append(t, p)) = Len(t) + 1 OBVIOUS
<1> Len(t) \in Nat OBVIOUS
<1> QED BY DEF SetHandler

LEMMA ReceiverHandlersFit ==
    ReceiverHandlers \in Seq(Protocols) /\ Len(ReceiverHandlers) <= 5
<1> DEFINE input    == SetHandler(<< >>, "input")
           dhcp     == SetHandler(input, "dhcp_request")
           firmware == SetHandler(dhcp, "request_firmware")
           echo     == SetHandler(firmware, "echo")
           about    == SetHandler(echo, "about_request")
<1>1. input \in Seq(Protocols) /\ Len(input) <= 1
  <2>1. PICK t \in Seq(Protocols) : t = << >> /\ Len(t) = 0 BY EmptySeq
  <2>2. SetHandler(t, "input") \in Seq(Protocols) /\ Len(SetHandler(t, "input")) <= Len(t) + 1
    BY SetHandlerType DEF Protocols
  <2> QED BY <2>1, <2>2
<1> HIDE DEF input
<1>2. dhcp \in Seq(Protocols) /\ Len(dhcp) <= 2 BY <1>1, SetHandlerType DEF Protocols
<1> HIDE DEF dhcp
<1>3. firmware \in Seq(Protocols) /\ Len(firmware) <= 3 BY <1>2, SetHandlerType DEF Protocols
<1> HIDE DEF firmware
<1>4. echo \in Seq(Protocols) /\ Len(echo) <= 4 BY <1>3, SetHandlerType DEF Protocols
<1> HIDE DEF echo
<1>5. about \in Seq(Protocols) /\ Len(about) <= 5 BY <1>4, SetHandlerType DEF Protocols
<1>6. ReceiverHandlers = about BY DEF ReceiverHandlers, input, dhcp, firmware, echo
<1> QED BY <1>5, <1>6

\* A node sends: nothing comes up that was not there or is its own packet.
LEMMA SendEffect ==
    ASSUME NEW n \in Nodes, NEW pkt \in Packets, NEW sure, fifo \in [Nodes -> Packets],
           RadioSend(n, pkt, sure)
    PROVE  /\ fifo' \in [Nodes -> Packets]
           /\ Held' \subseteq Held \cup {NoPacket, pkt, reply'}
<1>1. PICK sent \in OnAir(n, pkt), got \in SUBSET Nodes :
         fifo' = [m \in Nodes |-> IF m = n THEN NoPacket ELSE IF m \in got THEN sent ELSE fifo[m]]
  BY DEF RadioSend, CanHear
<1>2. sent \in Packets /\ sent \in {pkt, fifo[n]} BY DEF OnAir
<1>3. \A m \in Nodes : fifo'[m] \in {NoPacket, pkt} \cup {fifo[k] : k \in Nodes}
  BY <1>1, <1>2
<1>4. fifo' \in [Nodes -> Packets] BY <1>1, <1>2, NodeFacts
<1> QED BY <1>3, <1>4 DEF Held

LEMMA UnloadEffect ==
    ASSUME NEW n \in Nodes, fifo \in [Nodes -> Packets],
           fifo' = [fifo EXCEPT ![n] = NoPacket]
    PROVE  /\ fifo' \in [Nodes -> Packets]
           /\ Held' \subseteq Held \cup {NoPacket, reply'}
<1>1. fifo' \in [Nodes -> Packets] BY NodeFacts
<1>2. \A m \in Nodes : fifo'[m] = NoPacket \/ fifo'[m] = fifo[m] OBVIOUS
<1> QED BY <1>1, <1>2 DEF Held

LEMMA HeldTypes == ASSUME TypeOK PROVE Held \subseteq Packets /\ reply \in Held
BY DEF TypeOK, Held

LEMMA PacketKinds ==
    ASSUME NEW pkt \in Packets
    PROVE  /\ pkt.prot = "dhcp_request" => pkt.uid \in Uids
           /\ pkt.prot = "dhcp_response" =>
                pkt.uid \in Uids /\ pkt.addr \in Slots /\ pkt.life \in Nat
           /\ pkt.prot = "about_request" => pkt.src \in Slots
           /\ pkt.prot = "about_response" =>
                pkt.version \in Versions /\ pkt.life \in Nat
BY DEF Packets, NoPacket

LEMMA PacketTypes ==
    ASSUME TypeOK, NEW u \in Uids, NEW a \in Slots
    PROVE  /\ DhcpRequest(u) \in Packets /\ DhcpResponse(u, a) \in Packets
           /\ AboutRequest(a) \in Packets /\ AboutResponse(a) \in Packets
           /\ Input \in Packets
BY NodeFacts DEF TypeOK, Packets, DhcpRequest, DhcpResponse, AboutRequest, AboutResponse, Input

LEMMA ClientTables ==
    /\ SetHandler(<< >>, "dhcp_response") = <<"dhcp_response">>
    /\ SetHandler(<<"dhcp_response">>, "dhcp_response") = <<"dhcp_response">>
    /\ SetHandler(<<"dhcp_response">>, "about_response")
         = <<"dhcp_response", "about_response">>
    /\ {<< >>, <<"dhcp_response">>, <<"dhcp_response", "about_response">>}
         \subseteq Seq(Protocols)
<1>1. SetHandler(<< >>, "dhcp_response") = <<"dhcp_response">>
  BY EmptySeq DEF SetHandler
<1>2. SetHandler(<<"dhcp_response">>, "dhcp_response") = <<"dhcp_response">>
  <2> DEFINE t == <<"dhcp_response">>
  <2>1. 1 \in 1 .. Len(t) /\ t[1] = "dhcp_response" OBVIOUS
  <2>2. \E i \in 1 .. Len(t) : t[i] = "dhcp_response" BY <2>1
  <2> QED BY <2>2 DEF SetHandler
<1>3. SetHandler(<<"dhcp_response">>, "about_response")
        = <<"dhcp_response", "about_response">>
  <2> DEFINE t == <<"dhcp_response">>
  <2>1. 1 \in 1 .. Len(t) /\ Len(t) = 1 /\ t[1] = "dhcp_response" OBVIOUS
  <2>2. Append(<<"dhcp_response">>, "about_response") = <<"dhcp_response", "about_response">>
    <3>1. t \in Seq(Protocols) /\ <<"dhcp_response", "about_response">> \in Seq(Protocols)
      BY DEF Protocols
    <3>2. "about_response" \in Protocols BY DEF Protocols
    <3>3. /\ Append(t, "about_response") \in Seq(Protocols)
          /\ Len(Append(t, "about_response")) = 2
          /\ Append(t, "about_response")[1] = "dhcp_response"
          /\ Append(t, "about_response")[2] = "about_response"
      BY <2>1, <3>1, <3>2
    <3>4. LET u == <<"dhcp_response", "about_response">>
          IN  Len(u) = 2 /\ u[1] = "dhcp_response" /\ u[2] = "about_response"
      OBVIOUS
    <3>5. \A i \in 1 .. 2 : i = 1 \/ i = 2 OBVIOUS
    <3> QED BY <3>1, <3>3, <3>4, <3>5, SeqEqual
  <2>3. \A i \in 1 .. 1 : i = 1 OBVIOUS
  <2>4. "dhcp_response" # "about_response" OBVIOUS
  <2> QED BY <2>1, <2>2, <2>3, <2>4 DEF SetHandler
<1>4. << >> \in Seq(Protocols) BY EmptySeq
<1>5. <<"dhcp_response">> \in Seq(Protocols) BY DEF Protocols
<1>6. <<"dhcp_response", "about_response">> \in Seq(Protocols) BY DEF Protocols
<1> QED BY <1>1, <1>2, <1>3, <1>4, <1>5, <1>6

-----------------------------------------------------------------------------
(* Types, and the tables of handlers. *)

LEMMA InitTypes == Init => TypeOK /\ HandlersInv
<1> SUFFICES ASSUME Init PROVE TypeOK /\ HandlersInv OBVIOUS
<1>1. /\ address \in [Nodes -> {ReceiverAddress, StartAddress} \cup Slots]
      /\ \A c \in Clients : ~HasAddress(c) /\ address[c] = StartAddress
  BY NodeFacts DEF Init, HasAddress
<1>2. handlers \in [Nodes -> Seq(Protocols)]
  BY NodeFacts, ReceiverHandlersFit, EmptySeq DEF Init
<1>3. fifo \in [Nodes -> Packets] /\ reply \in Packets BY NodeFacts DEF Init
<1>4. phase \in [Clients -> Phases] /\ version \in [Nodes -> Versions]
  BY VersionsAssumption DEF Init, Phases
<1>5. recent \in Seq(Uids) BY EmptySeq DEF Init
<1>6. DOMAIN lease \subseteq Uids /\ \A u \in DOMAIN lease : lease[u] \in Slots
  BY DEF Init
<1>7. /\ life \in Nat /\ lost \subseteq [uid : Uids, addr : Slots, life : Nat]
      /\ last \in [Clients -> [addr : {StartAddress} \cup Slots, life : Nat]]
      /\ checked \in [Clients -> Nat] /\ faults \in 0 .. MaxFaults
  BY MaxFaultsAssumption DEF Init, NoAnswer
<1>8. HandlersInv BY NodeFacts DEF Init, HandlersInv, ClientHandlers
<1> QED BY <1>1, <1>2, <1>3, <1>4, <1>5, <1>6, <1>7, <1>8 DEF TypeOK

LEMMA AskAddressTypes ==
    ASSUME TypeOK, HandlersInv, NEW c \in Clients, AskAddress(c, {})
    PROVE  TypeOK' /\ HandlersInv'
<1>1. fifo' \in [Nodes -> Packets]
  <2>1. DhcpRequest(c) \in Packets BY DEF Packets, DhcpRequest, Uids
  <2> QED BY <2>1, SendEffect, NodeFacts DEF AskAddress, TypeOK
<1>2. handlers[c] \in {<< >>, <<"dhcp_response">>}
  BY DEF HandlersInv, ClientHandlers, AskAddress
<1>3. handlers' = [handlers EXCEPT ![c] = <<"dhcp_response">>]
  BY <1>2, ClientTables DEF AskAddress
<1>4. handlers' \in [Nodes -> Seq(Protocols)]
  BY <1>3, ClientTables DEF TypeOK
<1>5. phase' \in [Clients -> Phases] /\ \A d \in Clients : HasAddress(d)' = HasAddress(d)
  BY DEF AskAddress, TypeOK, Phases, HasAddress
<1>6. TypeOK' BY <1>1, <1>4, <1>5 DEF TypeOK, AskAddress, table
<1>7. handlers[Receiver]' = handlers[Receiver] BY <1>3, NodeFacts
<1>8. ASSUME NEW d \in Clients PROVE ClientHandlers(d)'
  <2>1. CASE d = c
    <3>1. phase'[d] = "dhcp_wait" BY <2>1 DEF AskAddress, TypeOK
    <3>2. handlers'[d] = <<"dhcp_response">> BY <2>1, <1>3, NodeFacts DEF TypeOK
    <3> QED BY <3>1, <3>2 DEF ClientHandlers
  <2>2. CASE d # c
    <3>1. phase'[d] = phase[d] BY <2>2 DEF AskAddress, TypeOK
    <3>2. handlers'[d] = handlers[d] BY <2>2, <1>3, NodeFacts DEF TypeOK
    <3>3. ClientHandlers(d) BY DEF HandlersInv
    <3> QED BY <3>1, <3>2, <3>3 DEF ClientHandlers
  <2> QED BY <2>1, <2>2
<1> QED BY <1>6, <1>7, <1>8 DEF HandlersInv

\* A step that leaves the tables alone, and moves no client before or past its
\* address, keeps HandlersInv.
LEMMA SameHandlers ==
    ASSUME HandlersInv, UNCHANGED handlers,
           \A d \in Clients : \/ phase'[d] = phase[d]
                              \/ HasAddress(d) /\ HasAddress(d)'
                              \/ phase[d] = "dhcp_wait" /\ phase'[d] = "dhcp"
    PROVE  HandlersInv'
BY DEF HandlersInv, ClientHandlers, HasAddress

LEMMA AskAboutTypes ==
    ASSUME TypeOK, HandlersInv, NEW c \in Clients, AskAbout(c, {})
    PROVE  TypeOK' /\ HandlersInv'
<1>1. address[c] \in Slots BY DEF TypeOK, AskAbout, HasAddress
<1>2. fifo' \in [Nodes -> Packets]
  <2>1. AboutRequest(address[c]) \in Packets BY <1>1 DEF Packets, AboutRequest
  <2> QED BY <2>1, SendEffect, NodeFacts DEF AskAbout, TypeOK
<1>3. /\ phase' \in [Clients -> Phases]
      /\ \A d \in Clients : \/ phase'[d] = phase[d]
                            \/ HasAddress(d) /\ HasAddress(d)'
  BY DEF AskAbout, TypeOK, Phases, HasAddress
<1>4. HandlersInv' BY <1>3, SameHandlers DEF AskAbout
<1>5. TypeOK' BY <1>2, <1>3 DEF TypeOK, AskAbout, HasAddress, table
<1> QED BY <1>4, <1>5

LEMMA SendInputTypes ==
    ASSUME TypeOK, HandlersInv, NEW c \in Clients, SendInput(c)
    PROVE  TypeOK' /\ HandlersInv'
<1>1. fifo' \in [Nodes -> Packets]
  <2>1. Input \in Packets BY DEF Packets, Input
  <2> QED BY <2>1, SendEffect, NodeFacts DEF SendInput, TypeOK
<1>2. HandlersInv' BY SameHandlers DEF SendInput
<1> QED BY <1>1, <1>2 DEF TypeOK, SendInput, HasAddress, table

LEMMA TakeAddressTypes ==
    ASSUME TypeOK, HandlersInv, NEW c \in Clients, TakeAddress(c)
    PROVE  TypeOK' /\ HandlersInv'
<1>1. fifo' \in [Nodes -> Packets] /\ c \in Nodes
  BY UnloadEffect, NodeFacts DEF TakeAddress, Unload, TypeOK
<1>2. fifo[c].addr \in Slots /\ fifo[c].life \in Nat
  BY PacketKinds, <1>1 DEF TakeAddress, Handled, TypeOK
<1>3. CASE IsOwn(c) /\ phase[c] = "dhcp_wait"
  <2>1. handlers[c] = <<"dhcp_response">>
    BY <1>3 DEF HandlersInv, ClientHandlers
  <2>2. handlers' = [handlers EXCEPT ![c] = <<"dhcp_response", "about_response">>]
    BY <1>3, <2>1, ClientTables DEF TakeAddress
  <2>3. handlers' \in [Nodes -> Seq(Protocols)] BY <2>2, ClientTables DEF TypeOK
  <2>4. /\ phase' = [phase EXCEPT ![c] = "about"]
        /\ address' = [address EXCEPT ![c] = fifo[c].addr]
        /\ last' = [last EXCEPT ![c] = [addr |-> fifo[c].addr, life |-> fifo[c].life]]
    BY <1>3 DEF TakeAddress
  <2>5. /\ phase' \in [Clients -> Phases]
        /\ address' \in [Nodes -> {ReceiverAddress, StartAddress} \cup Slots]
        /\ last' \in [Clients -> [addr : {StartAddress} \cup Slots, life : Nat]]
    BY <1>2, <2>4 DEF TypeOK, Phases
  <2>6. \A d \in Clients : IF HasAddress(d)' THEN address'[d] = last'[d].addr /\ address'[d] \in Slots
                                             ELSE address'[d] = StartAddress
    BY <1>1, <1>2, <2>4, NodeFacts DEF TypeOK, HasAddress
  <2>7. TypeOK' BY <1>1, <2>3, <2>5, <2>6 DEF TypeOK, TakeAddress, table
  <2>8. ASSUME NEW d \in Clients PROVE ClientHandlers(d)'
    <3>1. CASE d = c
      <4>1. phase'[d] = "about" BY <3>1, <2>4 DEF TypeOK
      <4>2. handlers'[d] = <<"dhcp_response", "about_response">>
        BY <3>1, <2>2, <1>1 DEF TypeOK
      <4> QED BY <4>1, <4>2 DEF ClientHandlers
    <3>2. CASE d # c
      <4>1. phase'[d] = phase[d] /\ handlers'[d] = handlers[d]
        BY <3>2, <2>2, <2>4, NodeFacts DEF TypeOK
      <4>2. ClientHandlers(d) BY DEF HandlersInv
      <4> QED BY <4>1, <4>2 DEF ClientHandlers
    <3> QED BY <3>1, <3>2
  <2>9. handlers'[Receiver] = handlers[Receiver] BY <2>2, NodeFacts
  <2> QED BY <2>7, <2>8, <2>9 DEF HandlersInv
<1>4. CASE IsOwn(c) /\ phase[c] = "about_wait"
  <2>1. /\ UNCHANGED <<phase, handlers>>
        /\ address' = [address EXCEPT ![c] = fifo[c].addr]
        /\ last' = [last EXCEPT ![c] = [addr |-> fifo[c].addr, life |-> fifo[c].life]]
    BY <1>4 DEF TakeAddress
  <2>2. HandlersInv' BY <2>1, SameHandlers
  <2>3. /\ address' \in [Nodes -> {ReceiverAddress, StartAddress} \cup Slots]
        /\ last' \in [Clients -> [addr : {StartAddress} \cup Slots, life : Nat]]
    BY <1>2, <2>1 DEF TypeOK
  <2>4. \A d \in Clients : IF HasAddress(d)' THEN address'[d] = last'[d].addr /\ address'[d] \in Slots
                                             ELSE address'[d] = StartAddress
    BY <1>1, <1>2, <1>4, <2>1, NodeFacts DEF TypeOK, HasAddress
  <2>5. TypeOK' BY <1>1, <2>1, <2>3, <2>4 DEF TypeOK, TakeAddress, table
  <2> QED BY <2>2, <2>5
<1>5. CASE ~IsOwn(c)
  <2>1. UNCHANGED <<address, last, phase, handlers>> BY <1>5 DEF TakeAddress
  <2>2. HandlersInv' BY <2>1, SameHandlers
  <2> QED BY <1>1, <2>1, <2>2 DEF TypeOK, TakeAddress, HasAddress, table
<1> QED BY <1>3, <1>4, <1>5 DEF TakeAddress, Waits

LEMMA CompareVersionTypes ==
    ASSUME TypeOK, HandlersInv, NEW c \in Clients, CompareVersion(c)
    PROVE  TypeOK' /\ HandlersInv' /\ HasAddress(c) /\ fifo[c].life \in Nat
<1>1. fifo' \in [Nodes -> Packets] /\ c \in Nodes
  BY UnloadEffect, NodeFacts DEF CompareVersion, Unload, TypeOK
<1>2. fifo[c].life \in Nat
  BY PacketKinds, <1>1 DEF CompareVersion, Handled, TypeOK
<1>3. phase[c] = "about_wait"
  <2>1. SUFFICES ASSUME phase[c] = "dhcp_wait" PROVE FALSE BY DEF CompareVersion, Waits
  <2>2. handlers[c] = <<"dhcp_response">> BY <2>1 DEF HandlersInv, ClientHandlers
  <2>3. PICK i \in 1 .. Len(handlers[c]) : handlers[c][i] = "about_response"
    BY DEF CompareVersion, Handled
  <2>4. Len(handlers[c]) = 1 /\ handlers[c][1] = "dhcp_response" BY <2>2
  <2>5. i = 1 BY <2>3, <2>4
  <2> QED BY <2>3, <2>4, <2>5
<1>4. Verdict(c) \in {"running", "bootloader"} BY DEF Verdict
<1>5. /\ phase' \in [Clients -> Phases]
      /\ \A d \in Clients : \/ phase'[d] = phase[d]
                            \/ HasAddress(d) /\ HasAddress(d)'
  BY <1>3, <1>4 DEF CompareVersion, TypeOK, Phases, HasAddress
<1>6. HandlersInv' BY <1>5, SameHandlers DEF CompareVersion
<1>7. checked' \in [Clients -> Nat] BY <1>2 DEF CompareVersion, TypeOK
<1>8. TypeOK' BY <1>1, <1>5, <1>7 DEF TypeOK, CompareVersion, HasAddress, table
<1> QED BY <1>2, <1>3, <1>6, <1>8 DEF HasAddress

LEMMA DropTypes ==
    ASSUME TypeOK, HandlersInv, NEW c \in Clients, Drop(c)
    PROVE  TypeOK' /\ HandlersInv'
<1>1. fifo' \in [Nodes -> Packets]
  BY UnloadEffect, NodeFacts DEF Drop, Unload, TypeOK
<1>2. HandlersInv' BY SameHandlers DEF Drop
<1> QED BY <1>1, <1>2 DEF TypeOK, Drop, HasAddress, table

LEMMA TimeoutTypes ==
    ASSUME TypeOK, HandlersInv, NEW c \in Clients, Timeout(c)
    PROVE  TypeOK' /\ HandlersInv'
<1>1. /\ phase' \in [Clients -> Phases]
      /\ \A d \in Clients : \/ phase'[d] = phase[d]
                            \/ HasAddress(d) /\ HasAddress(d)'
                            \/ phase[d] = "dhcp_wait" /\ phase'[d] = "dhcp"
  BY DEF Timeout, TypeOK, Phases, HasAddress
<1>2. HandlersInv' BY <1>1, SameHandlers DEF Timeout, radio
<1>3. TypeOK' BY <1>1 DEF TypeOK, Timeout, HasAddress, table, radio
<1> QED BY <1>2, <1>3

LEMMA ClientRestartsTypes ==
    ASSUME TypeOK, HandlersInv, NEW c \in Clients, ClientRestarts(c)
    PROVE  TypeOK' /\ HandlersInv'
<1>1. fifo' \in [Nodes -> Packets] /\ c \in Nodes
  BY UnloadEffect, NodeFacts DEF ClientRestarts, RadioStart, TypeOK
<1>2. faults' \in 0 .. MaxFaults
  BY MaxFaultsAssumption DEF ClientRestarts, Fault, TypeOK
<1>3. /\ phase' = [phase EXCEPT ![c] = "dhcp"] /\ handlers' = [handlers EXCEPT ![c] = << >>]
      /\ address' = [address EXCEPT ![c] = StartAddress]
  BY DEF ClientRestarts, RadioStart
<1>4. phase' \in [Clients -> Phases] /\ handlers' \in [Nodes -> Seq(Protocols)]
  BY <1>3, EmptySeq DEF TypeOK, Phases
<1>5. version' \in [Nodes -> Versions] BY DEF ClientRestarts, TypeOK
<1>6. /\ address' \in [Nodes -> {ReceiverAddress, StartAddress} \cup Slots]
      /\ \A d \in Clients : IF HasAddress(d)' THEN address'[d] = last'[d].addr /\ address'[d] \in Slots
                                              ELSE address'[d] = StartAddress
  BY <1>1, <1>3, NodeFacts DEF TypeOK, HasAddress, ClientRestarts
<1>7. TypeOK' BY <1>1, <1>2, <1>4, <1>5, <1>6 DEF TypeOK, ClientRestarts, table
<1>8. ASSUME NEW d \in Clients PROVE ClientHandlers(d)'
  <2>1. CASE d = c
    <3>1. phase'[d] = "dhcp" /\ handlers'[d] = << >> BY <2>1, <1>1, <1>3 DEF TypeOK
    <3> QED BY <3>1 DEF ClientHandlers
  <2>2. CASE d # c
    <3>1. phase'[d] = phase[d] /\ handlers'[d] = handlers[d]
      BY <2>2, <1>3, NodeFacts DEF TypeOK
    <3>2. ClientHandlers(d) BY DEF HandlersInv
    <3> QED BY <3>1, <3>2 DEF ClientHandlers
  <2> QED BY <2>1, <2>2
<1>9. handlers'[Receiver] = handlers[Receiver] BY <1>3, NodeFacts
<1> QED BY <1>7, <1>8, <1>9 DEF HandlersInv

\* What a request does to the table.
LEMMA ServedEffect ==
    ASSUME TypeOK, TableInv, NEW u \in Uids, Served(u)
    PROVE  /\ recent' \in Seq(Uids) /\ DOMAIN lease' \subseteq Uids
           /\ \A v \in DOMAIN lease' : lease'[v] \in Slots
           /\ TableInv' /\ u \in DOMAIN lease'
           /\ \A v \in DOMAIN lease \cap DOMAIN lease' : lease'[v] = lease[v]
<1> USE DEF Leases!Leased
<1>1. CASE Leases!Renew(u)
  <2>1. u \in DOMAIN lease /\ lease' = lease BY <1>1 DEF Leases!Renew
  <2>2. PICK k \in 1 .. Len(recent) :
          /\ recent[k] = u
          /\ recent' = [i \in 1 .. Len(recent) |->
                          IF i < k THEN recent[i]
                          ELSE IF i < Len(recent) THEN recent[i + 1] ELSE u]
    BY <1>1 DEF Leases!Renew
  <2>3. recent \in Seq(Uids) /\ Len(recent) \in Nat BY DEF TypeOK
  <2>4. \A i \in 1 .. Len(recent) : recent'[i] \in Uids BY <2>2, <2>3
  <2>5. recent' \in Seq(Uids) /\ Len(recent') = Len(recent) BY <2>2, <2>3, <2>4
  <2>6. \A i \in 1 .. Len(recent) : recent'[i] \in DOMAIN lease
    BY <2>1, <2>2, <2>3 DEF TableInv
  <2>7. ASSUME NEW i \in 1 .. Len(recent), NEW j \in 1 .. Len(recent), i # j
        PROVE  recent'[i] # recent'[j]
    <3> DEFINE from(h) == IF h < k THEN h ELSE IF h < Len(recent) THEN h + 1 ELSE k
    <3>1. \A h \in 1 .. Len(recent) :
            from(h) \in 1 .. Len(recent) /\ recent'[h] = recent[from(h)]
      BY <2>2, <2>3
    <3>2. from(i) # from(j) BY <2>3, <2>7
    <3>3. \E m, n \in 1 .. Len(recent) :
            m # n /\ recent'[i] = recent[m] /\ recent'[j] = recent[n]
      BY <3>1, <3>2
    <3> HIDE DEF from
    <3> QED BY <3>3 DEF TableInv
  <2>8. ASSUME NEW v \in DOMAIN lease PROVE \E i \in 1 .. Len(recent) : recent'[i] = v
    <3>1. PICK j \in 1 .. Len(recent) : recent[j] = v BY DEF TableInv
    <3>2. CASE j < k BY <3>1, <3>2, <2>2, <2>3
    <3>3. CASE j = k
      <4>1. recent'[Len(recent)] = u BY <2>2, <2>3
      <4> QED BY <3>1, <3>3, <4>1, <2>2, <2>3
    <3>4. CASE j > k
      <4>1. j - 1 \in 1 .. Len(recent) /\ recent'[j - 1] = recent[j] BY <3>4, <2>2, <2>3
      <4> QED BY <3>1, <4>1
    <3> QED BY <3>2, <3>3, <3>4, <2>3
  <2>9. TableInv' BY <2>1, <2>5, <2>6, <2>7, <2>8 DEF TableInv
  <2> QED BY <2>1, <2>5, <2>9 DEF TypeOK
<1>2. CASE Leases!Grant(u)
  <2>1. PICK a \in Slots :
          /\ \A v \in DOMAIN lease : lease[v] # a
          /\ lease' = [v \in DOMAIN lease \cup {u} |-> IF v = u THEN a ELSE lease[v]]
    BY <1>2 DEF Leases!Grant
  <2>2. u \notin DOMAIN lease /\ recent' = Append(recent, u) BY <1>2 DEF Leases!Grant
  <2>3. recent \in Seq(Uids) /\ Len(recent) \in Nat BY DEF TypeOK
  <2>4. /\ recent' \in Seq(Uids) /\ Len(recent') = Len(recent) + 1
        /\ \A i \in 1 .. Len(recent) : recent'[i] = recent[i]
        /\ recent'[Len(recent) + 1] = u
    BY <2>2, <2>3
  <2>5. /\ DOMAIN lease' = DOMAIN lease \cup {u} /\ lease'[u] = a
        /\ \A v \in DOMAIN lease : lease'[v] = lease[v]
    BY <2>1, <2>2
  <2>6. \A v, w \in DOMAIN lease' : v # w => lease'[v] # lease'[w]
    BY <2>1, <2>5 DEF TableInv
  <2>7. \A i \in 1 .. Len(recent') : recent'[i] \in DOMAIN lease'
    BY <2>3, <2>4, <2>5 DEF TableInv
  <2>8. \A i, j \in 1 .. Len(recent') : i # j => recent'[i] # recent'[j]
    BY <2>2, <2>3, <2>4 DEF TableInv
  <2>9. \A v \in DOMAIN lease' : \E i \in 1 .. Len(recent') : recent'[i] = v
    <3>1. 1 .. Len(recent') = (1 .. Len(recent)) \cup {Len(recent) + 1} BY <2>3, <2>4
    <3> QED BY <3>1, <2>4, <2>5 DEF TableInv
  <2>10. TableInv' BY <2>6, <2>7, <2>8, <2>9 DEF TableInv
  <2> QED BY <2>1, <2>4, <2>5, <2>10 DEF TypeOK
<1>3. CASE Leases!Evict(u)
  <2> DEFINE old == Head(recent)
  <2>1. /\ u \notin DOMAIN lease
        /\ \A a \in Slots : \E v \in DOMAIN lease : lease[v] = a
        /\ lease' = [v \in (DOMAIN lease \ {old}) \cup {u} |->
                       IF v = u THEN lease[old] ELSE lease[v]]
        /\ recent' = Append(Tail(recent), u)
    BY <1>3 DEF Leases!Evict
  <2>2. recent \in Seq(Uids) /\ Len(recent) \in Nat /\ Len(recent) > 0
    <3>1. PICK v \in DOMAIN lease : TRUE BY <2>1, SlotsAssumption
    <3>2. PICK i \in 1 .. Len(recent) : recent[i] = v BY DEF TableInv
    <3> QED BY <3>2 DEF TypeOK
  <2>3. old = recent[1] /\ old \in DOMAIN lease BY <2>2 DEF TableInv
  <2>4. /\ recent' \in Seq(Uids) /\ Len(recent') = Len(recent)
        /\ \A i \in 1 .. Len(recent) - 1 : recent'[i] = recent[i + 1]
        /\ recent'[Len(recent)] = u
    <3>1. /\ Tail(recent) \in Seq(Uids) /\ Len(Tail(recent)) = Len(recent) - 1
          /\ \A i \in 1 .. Len(recent) - 1 : Tail(recent)[i] = recent[i + 1]
      BY <2>2
    <3> QED BY <2>1, <2>2, <3>1
  <2>5. /\ DOMAIN lease' = (DOMAIN lease \ {old}) \cup {u} /\ lease'[u] = lease[old]
        /\ \A v \in DOMAIN lease \ {old} : lease'[v] = lease[v]
    BY <2>1
  <2>6. \A v, w \in DOMAIN lease' : v # w => lease'[v] # lease'[w]
    BY <2>3, <2>5 DEF TableInv
  <2>7. ASSUME NEW i \in 1 .. Len(recent') PROVE recent'[i] \in DOMAIN lease'
    <3>1. CASE i = Len(recent) BY <3>1, <2>4, <2>5
    <3>2. CASE i # Len(recent)
      <4>1. i \in 1 .. Len(recent) - 1 /\ i + 1 \in 1 .. Len(recent) /\ i + 1 # 1
        BY <3>2, <2>2, <2>4
      <4>2. recent'[i] = recent[i + 1] /\ recent[i + 1] \in DOMAIN lease
            /\ recent[i + 1] # recent[1]
        BY <4>1, <2>2, <2>4 DEF TableInv
      <4> QED BY <4>2, <2>3, <2>5
    <3> QED BY <3>1, <3>2
  <2>8. ASSUME NEW i \in 1 .. Len(recent'), NEW j \in 1 .. Len(recent'), i # j
        PROVE  recent'[i] # recent'[j]
    <3>1. \A k \in 1 .. Len(recent) - 1 :
             /\ k + 1 \in 1 .. Len(recent)
             /\ recent'[k] = recent[k + 1] /\ recent'[k] # u
      BY <2>1, <2>2, <2>4 DEF TableInv
    <3>2. CASE i = Len(recent) BY <3>1, <3>2, <2>2, <2>4, <2>8
    <3>3. CASE j = Len(recent) BY <3>1, <3>3, <2>2, <2>4, <2>8
    <3>4. CASE i # Len(recent) /\ j # Len(recent)
      <4>1. /\ i \in 1 .. Len(recent) - 1 /\ j \in 1 .. Len(recent) - 1
            /\ i + 1 # j + 1
        BY <3>4, <2>2, <2>4, <2>8
      <4> QED BY <3>1, <4>1 DEF TableInv
    <3> QED BY <3>2, <3>3, <3>4
  <2>9. ASSUME NEW v \in DOMAIN lease' PROVE \E i \in 1 .. Len(recent') : recent'[i] = v
    <3>1. CASE v = u BY <3>1, <2>2, <2>4
    <3>2. CASE v # u
      <4>1. v \in DOMAIN lease /\ v # old BY <3>2, <2>5
      <4>2. PICK j \in 1 .. Len(recent) : recent[j] = v BY <4>1 DEF TableInv
      <4>3. j - 1 \in 1 .. Len(recent) - 1 /\ (j - 1) + 1 = j
        BY <4>1, <4>2, <2>2, <2>3
      <4>4. recent'[j - 1] = v BY <4>2, <4>3, <2>4
      <4> QED BY <4>3, <4>4, <2>2, <2>4
    <3> QED BY <3>1, <3>2
  <2>10. TableInv' BY <2>6, <2>7, <2>8, <2>9 DEF TableInv
  <2>11. DOMAIN lease' \subseteq Uids /\ \A v \in DOMAIN lease' : lease'[v] \in Slots
    BY <2>3, <2>5 DEF TypeOK
  <2>12. \A v \in DOMAIN lease \cap DOMAIN lease' : lease'[v] = lease[v]
    BY <2>1, <2>5
  <2> QED BY <2>4, <2>5, <2>10, <2>11, <2>12
<1> QED BY <1>1, <1>2, <1>3 DEF Served

LEMMA ServeAddressTypes ==
    ASSUME TypeOK, TableInv, HandlersInv, ServeAddress
    PROVE  TypeOK' /\ HandlersInv'
<1> DEFINE uid == fifo[Receiver].uid
<1>1. uid \in Uids
  <2>1. fifo[Receiver] \in Packets BY NodeFacts DEF TypeOK
  <2> QED BY <2>1, PacketKinds DEF ServeAddress, Handled
<1> HIDE DEF uid
<1>2. Served(uid) /\ reply' = DhcpResponse(uid, lease'[uid]) BY DEF ServeAddress, uid
<1>3. /\ recent' \in Seq(Uids) /\ DOMAIN lease' \subseteq Uids
      /\ \A v \in DOMAIN lease' : lease'[v] \in Slots
      /\ lease'[uid] \in Slots
  BY <1>1, <1>2, ServedEffect
<1>4. fifo' \in [Nodes -> Packets] /\ reply' \in Packets
  BY <1>1, <1>2, <1>3, PacketTypes, UnloadEffect, NodeFacts DEF TypeOK, ServeAddress, Unload
<1>5. lost' \subseteq [uid : Uids, addr : Slots, life : Nat]
  BY DEF ServeAddress, Evicted, TypeOK
<1>6. HandlersInv' BY SameHandlers DEF ServeAddress
<1>7. TypeOK' BY <1>3, <1>4, <1>5 DEF TypeOK, ServeAddress, HasAddress
<1> QED BY <1>6, <1>7

LEMMA ServeAboutTypes ==
    ASSUME TypeOK, HandlersInv, ServeAbout
    PROVE  TypeOK' /\ HandlersInv'
<1>1. fifo[Receiver].src \in Slots
  <2>1. fifo[Receiver] \in Packets BY NodeFacts DEF TypeOK
  <2> QED BY <2>1, PacketKinds DEF ServeAbout, Handled
<1>2. reply' \in Packets
  BY <1>1, NodeFacts DEF ServeAbout, AboutResponse, Packets, TypeOK
<1>3. fifo' \in [Nodes -> Packets]
  BY UnloadEffect, NodeFacts DEF ServeAbout, Unload, TypeOK
<1>4. HandlersInv' BY SameHandlers DEF ServeAbout
<1>5. TypeOK' BY <1>2, <1>3 DEF TypeOK, ServeAbout, HasAddress, table
<1> QED BY <1>4, <1>5

LEMMA TakeOtherTypes ==
    ASSUME TypeOK, HandlersInv, TakeOther
    PROVE  TypeOK' /\ HandlersInv'
<1>1. fifo' \in [Nodes -> Packets]
  BY UnloadEffect, NodeFacts DEF TakeOther, Unload, TypeOK
<1>2. HandlersInv' BY SameHandlers DEF TakeOther
<1> QED BY <1>1, <1>2 DEF TypeOK, TakeOther, HasAddress, table

LEMMA AnswerTypes ==
    ASSUME TypeOK, HandlersInv, Answer({})
    PROVE  TypeOK' /\ HandlersInv'
<1>1. fifo' \in [Nodes -> Packets] /\ reply' \in Packets
  BY SendEffect, NodeFacts DEF Answer, TypeOK
<1>2. HandlersInv' BY SameHandlers DEF Answer
<1> QED BY <1>1, <1>2 DEF TypeOK, Answer, HasAddress, table

LEMMA ReceiverRestartsTypes ==
    ASSUME TypeOK, HandlersInv, ReceiverRestarts
    PROVE  TypeOK' /\ HandlersInv'
<1>1. fifo' \in [Nodes -> Packets] /\ reply' \in Packets
  BY UnloadEffect, NodeFacts DEF ReceiverRestarts, TypeOK
<1>2. faults' \in 0 .. MaxFaults /\ life' \in Nat
  BY MaxFaultsAssumption DEF ReceiverRestarts, Fault, TypeOK
<1>3. handlers' = handlers
  BY NodeFacts DEF ReceiverRestarts, HandlersInv, TypeOK
<1>4. HandlersInv' BY <1>3, SameHandlers DEF ReceiverRestarts
<1>5. recent' \in Seq(Uids) /\ DOMAIN lease' = {}
  BY EmptySeq DEF ReceiverRestarts
<1>6. version' \in [Nodes -> Versions] BY DEF ReceiverRestarts, TypeOK
<1>7. TypeOK' BY <1>1, <1>2, <1>3, <1>5, <1>6 DEF TypeOK, ReceiverRestarts, HasAddress
<1> QED BY <1>4, <1>7

-----------------------------------------------------------------------------
(* Addresses.  Only dhcp_request gives new answers. *)

\* An answer that was on its way, or that somebody took, still is one, or is gone.
FewerAnswers == Given' \subseteq Given

LEMMA FewerAnswersKeep ==
    ASSUME TypeOK, AddressInv, FewerAnswers, UNCHANGED <<recent, lease, life, lost>>,
           \A c \in Clients : checked'[c] <= life
    PROVE  AddressInv'
<1>1. TableInv' BY DEF AddressInv, TableInv
<1>2. \A k \in Given' : k \in Given /\ (Lasting(k)' <=> Lasting(k))
  BY DEF FewerAnswers, Lasting
<1>3. GivenNow' BY <1>2 DEF AddressInv, GivenNow
<1>4. GivenOnce' BY <1>2 DEF AddressInv, GivenOnce
<1>5. PastOnly' BY <1>2 DEF AddressInv, PastOnly
<1> QED BY <1>1, <1>3, <1>4, <1>5 DEF AddressInv

\* Enough for fewer answers: no new one on its way, none taken but out of one.
LEMMA FewerAnswersIf ==
    ASSUME \A k \in Answers : (\E pkt \in Held' : Gives(pkt, k)) => k \in Given,
           \A k \in Answers, c \in Clients : IsLast(k, c)' => k \in Given
    PROVE  FewerAnswers
BY DEF FewerAnswers, Given, Answers

\* No packet comes up but, at most, one that is no such answer.
LEMMA NoNewAnswer ==
    ASSUME TypeOK, UNCHANGED last, NEW pkt, pkt.prot # "dhcp_response",
           Held' \subseteq Held \cup {NoPacket, pkt}
    PROVE  FewerAnswers
<1>1. ASSUME NEW k \in Answers, NEW p \in Held', Gives(p, k) PROVE k \in Given
  <2>1. p \in Held BY <1>1, NodeFacts DEF Gives
  <2> QED BY <1>1, <2>1 DEF Given
<1>2. ASSUME NEW k \in Answers, NEW c \in Clients, IsLast(k, c)' PROVE k \in Given
  <2>1. IsLast(k, c) BY <1>2 DEF IsLast
  <2> QED BY <2>1 DEF Given
<1> QED BY <1>1, <1>2, FewerAnswersIf

LEMMA CheckedStays ==
    ASSUME TypeOK, AddressInv, UNCHANGED checked
    PROVE  \A c \in Clients : checked'[c] <= life
BY DEF AddressInv, PastOnly

\* What a transmitter sends is no answer.
LEMMA TransmitterSends ==
    ASSUME TypeOK, NEW c \in Clients, Ask(c, {}) \/ SendInput(c)
    PROVE  \E pkt \in Packets : /\ pkt.prot \notin {"dhcp_response", "about_response"}
                                /\ Held' \subseteq Held \cup {NoPacket, pkt}
<1>1. UNCHANGED reply BY DEF Ask, AskAddress, AskAbout, SendInput
<1>2. ASSUME NEW pkt \in Packets, pkt.prot \notin {"dhcp_response", "about_response"},
             RadioSend(c, pkt, {})
      PROVE  \E p \in Packets : /\ p.prot \notin {"dhcp_response", "about_response"}
                                /\ Held' \subseteq Held \cup {NoPacket, p}
  <2>1. Held' \subseteq Held \cup {NoPacket, pkt, reply'}
    BY <1>2, SendEffect, NodeFacts DEF TypeOK
  <2> QED BY <1>1, <1>2, <2>1, HeldTypes
<1>3. CASE AskAddress(c, {})
  <2>1. DhcpRequest(c) \in Packets /\ DhcpRequest(c).prot = "dhcp_request"
    BY DEF DhcpRequest, Packets, Uids
  <2> QED BY <1>2, <1>3, <2>1 DEF AskAddress
<1>4. CASE AskAbout(c, {})
  <2>1. address[c] \in Slots BY <1>4 DEF TypeOK, AskAbout, HasAddress
  <2>2. AboutRequest(address[c]) \in Packets /\ AboutRequest(address[c]).prot = "about_request"
    BY <2>1 DEF AboutRequest, Packets
  <2> QED BY <1>2, <1>4, <2>2 DEF AskAbout
<1>5. CASE SendInput(c)
  <2>1. Input \in Packets /\ Input.prot = "input" BY DEF Input, Packets
  <2> QED BY <1>2, <1>5, <2>1 DEF SendInput
<1> QED BY <1>3, <1>4, <1>5 DEF Ask

LEMMA SendAddresses ==
    ASSUME TypeOK, AddressInv, NEW c \in Clients, Ask(c, {}) \/ SendInput(c)
    PROVE  AddressInv'
<1>1. UNCHANGED <<last, recent, lease, life, lost, checked>>
  BY DEF Ask, AskAddress, AskAbout, SendInput, table
<1>2. FewerAnswers BY <1>1, TransmitterSends, NoNewAnswer
<1> QED BY <1>1, <1>2, CheckedStays, FewerAnswersKeep

\* A transmitter polls, gives up waiting or starts again: no packet comes up.
LEMMA TransmitterTakes ==
    ASSUME TypeOK, NEW c \in Clients, Poll(c) \/ Timeout(c) \/ ClientRestarts(c)
    PROVE  Held' \subseteq Held \cup {NoPacket}
<1>1. UNCHANGED reply
  BY DEF Poll, TakeAddress, CompareVersion, Drop, Timeout, ClientRestarts
<1>2. CASE Timeout(c) BY <1>1, <1>2 DEF Timeout, Held, radio
<1>3. CASE Poll(c) \/ ClientRestarts(c)
  <2>1. fifo' = [fifo EXCEPT ![c] = NoPacket]
    BY <1>3 DEF Poll, TakeAddress, CompareVersion, Drop, Unload, ClientRestarts, RadioStart
  <2> QED BY <1>1, <2>1, UnloadEffect, HeldTypes, NodeFacts DEF TypeOK
<1> QED BY <1>2, <1>3

LEMMA TakeAddresses ==
    ASSUME TypeOK, AddressInv, NEW c \in Clients, TakeAddress(c)
    PROVE  AddressInv'
<1>1. UNCHANGED <<recent, lease, life, lost, checked>> BY DEF TakeAddress, table
<1>2. Held' \subseteq Held \cup {NoPacket} BY TransmitterTakes DEF Poll
<1>3. ASSUME NEW k \in Answers, NEW p \in Held', Gives(p, k) PROVE k \in Given
  <2>1. p \in Held BY <1>2, <1>3, NodeFacts DEF Gives
  <2> QED BY <1>3, <2>1 DEF Given
<1>4. ASSUME NEW k \in Answers, NEW d \in Clients, IsLast(k, d)' PROVE k \in Given
  <2>1. CASE last'[d] = last[d]
    <3>1. IsLast(k, d) BY <2>1, <1>4 DEF IsLast
    <3> QED BY <3>1 DEF Given
  <2>2. CASE last'[d] # last[d]
    <3>1. /\ d = c /\ fifo[c].uid = c /\ fifo[c].prot = "dhcp_response"
          /\ last'[c] = [addr |-> fifo[c].addr, life |-> fifo[c].life]
      BY <2>2 DEF TakeAddress, IsOwn, Handled, TypeOK
    <3>2. Gives(fifo[c], k) BY <1>4, <3>1 DEF Gives, IsLast
    <3>3. fifo[c] \in Held BY NodeFacts DEF Held
    <3> QED BY <3>2, <3>3 DEF Given
  <2> QED BY <2>1, <2>2
<1>5. FewerAnswers BY <1>3, <1>4, FewerAnswersIf
<1> QED BY <1>1, <1>5, CheckedStays, FewerAnswersKeep

LEMMA CompareVersionAddresses ==
    ASSUME TypeOK, AddressInv, VersionInv, NEW c \in Clients, CompareVersion(c)
    PROVE  AddressInv'
<1>1. UNCHANGED <<last, recent, lease, life, lost>> BY DEF CompareVersion, table
<1>2. Held' \subseteq Held \cup {NoPacket} BY TransmitterTakes DEF Poll
<1>3. FewerAnswers BY <1>1, <1>2, NodeFacts, NoNewAnswer, NoPacket.prot # "dhcp_response"
<1>4. fifo[c].life <= life
  <2>1. fifo[c] \in Held BY NodeFacts DEF Held
  <2> QED BY <2>1 DEF CompareVersion, Handled, VersionInv
<1>5. ASSUME NEW d \in Clients PROVE checked'[d] <= life
  BY <1>4 DEF CompareVersion, TypeOK, AddressInv, PastOnly
<1> QED BY <1>1, <1>3, <1>5, FewerAnswersKeep

LEMMA QuietAddresses ==
    ASSUME TypeOK, AddressInv, NEW c \in Clients, Drop(c) \/ Timeout(c) \/ ClientRestarts(c)
    PROVE  AddressInv'
<1>1. UNCHANGED <<last, recent, lease, life, lost, checked>>
  BY DEF Drop, Timeout, ClientRestarts, table
<1>2. Held' \subseteq Held \cup {NoPacket} BY TransmitterTakes DEF Poll
<1>3. FewerAnswers BY <1>1, <1>2, NodeFacts, NoNewAnswer, NoPacket.prot # "dhcp_response"
<1> QED BY <1>1, <1>3, CheckedStays, FewerAnswersKeep

\* The receiver's steps but those at its table.
LEMMA ReceiverTakes ==
    ASSUME TypeOK, ServeAbout \/ TakeOther \/ Answer({})
    PROVE  Held' \subseteq Held \cup {NoPacket, reply'}
           /\ (reply' \in {reply, NoPacket} \/ ServeAbout)
<1>1. CASE ServeAbout \/ TakeOther
  <2>1. fifo' = [fifo EXCEPT ![Receiver] = NoPacket]
    BY <1>1 DEF ServeAbout, TakeOther, Unload
  <2> QED BY <1>1, <2>1, UnloadEffect, NodeFacts DEF TypeOK, TakeOther
<1>2. CASE Answer({})
  BY <1>2, SendEffect, HeldTypes, NodeFacts DEF TypeOK, Answer
<1> QED BY <1>1, <1>2

LEMMA ReceiverAddresses ==
    ASSUME TypeOK, AddressInv, ServeAbout \/ TakeOther \/ Answer({})
    PROVE  AddressInv'
<1>1. UNCHANGED <<last, recent, lease, life, lost, checked>>
  BY DEF ServeAbout, TakeOther, Answer, table
<1>2. CASE ServeAbout
  <2> DEFINE pkt == AboutResponse(fifo[Receiver].src)
  <2>1. pkt.prot # "dhcp_response" /\ reply' = pkt BY <1>2 DEF AboutResponse, ServeAbout
  <2>2. Held' \subseteq Held \cup {NoPacket, pkt} BY <2>1, ReceiverTakes
  <2> HIDE DEF pkt
  <2>3. FewerAnswers BY <1>1, <2>1, <2>2, NoNewAnswer
  <2> QED BY <1>1, <2>3, CheckedStays, FewerAnswersKeep
<1>3. CASE ~ ServeAbout
  <2>1. Held' \subseteq Held \cup {NoPacket} BY <1>3, ReceiverTakes, HeldTypes
  <2>2. FewerAnswers BY <1>1, <2>1, NodeFacts, NoNewAnswer, NoPacket.prot # "dhcp_response"
  <2> QED BY <1>1, <2>2, CheckedStays, FewerAnswersKeep
<1> QED BY <1>2, <1>3

-----------------------------------------------------------------------------
(* The answers of the receiver, and its restart. *)

LEMMA ServeAddressAddresses ==
    ASSUME TypeOK, AddressInv, ServeAddress, TypeOK'
    PROVE  AddressInv'
<1> USE DEF AddressInv
<1> DEFINE u == fifo[Receiver].uid
           new == [uid |-> u, addr |-> lease'[u], life |-> life]
<1>1. u \in Uids
  <2>1. fifo[Receiver] \in Packets BY NodeFacts DEF TypeOK
  <2> QED BY <2>1, PacketKinds DEF ServeAddress, Handled
<1>2. /\ Served(u) /\ lost' = lost \cup Evicted /\ reply' = DhcpResponse(u, lease'[u])
      /\ UNCHANGED <<life, last, checked>>
  BY DEF ServeAddress
<1>3. Held' \subseteq Held \cup {NoPacket, DhcpResponse(u, lease'[u])}
  BY <1>2, UnloadEffect, NodeFacts DEF TypeOK, ServeAddress, Unload
<1> HIDE DEF u
<1>4. /\ TableInv' /\ u \in DOMAIN lease' /\ lease'[u] \in Slots
      /\ \A v \in DOMAIN lease \cap DOMAIN lease' : lease'[v] = lease[v]
      /\ \A v \in DOMAIN lease' : lease'[v] \in Slots
  BY <1>1, <1>2, ServedEffect
<1>5. new \in Answers BY <1>1, <1>4 DEF Answers, TypeOK
<1>6. ASSUME NEW k \in Given' PROVE k \in Answers /\ (k \in Given \/ k = new)
  <2>1. k \in Answers BY <1>6 DEF Given, Answers
  <2>2. CASE \E c \in Clients : IsLast(k, c)' BY <1>2, <2>1, <2>2 DEF IsLast, Given
  <2>3. CASE \E pkt \in Held' : Gives(pkt, k)
    <3>1. PICK pkt \in Held' : Gives(pkt, k) BY <2>3
    <3>2. CASE pkt \in Held BY <2>1, <3>1, <3>2 DEF Given
    <3>3. CASE pkt = NoPacket BY <3>1, <3>3, NodeFacts DEF Gives
    <3>4. CASE pkt = DhcpResponse(u, lease'[u])
      <4>1. k.uid = u /\ k.addr = lease'[u] /\ k.life = life
        BY <3>1, <3>4 DEF Gives, DhcpResponse
      <4> QED BY <2>1, <4>1 DEF Answers
    <3> QED BY <3>1, <3>2, <3>3, <3>4, <1>3
  <2> QED BY <1>6, <2>1, <2>2, <2>3 DEF Given
<1>7. ASSUME NEW k \in Answers, Lasting(k)' PROVE Lasting(k)
  BY <1>2, <1>7 DEF Lasting
<1>8. GivenNow'
  <2>1. SUFFICES ASSUME NEW k \in Given', k.life = life, Lasting(k)'
                 PROVE  k.uid \in DOMAIN lease' /\ lease'[k.uid] = k.addr
    BY <1>2 DEF GivenNow
  <2>2. CASE k = new BY <2>2, <1>4
  <2>3. CASE k \in Given
    <3>1. k.uid \in DOMAIN lease /\ lease[k.uid] = k.addr
      BY <2>1, <2>3, <1>6, <1>7 DEF GivenNow
    <3>2. k.uid \in DOMAIN lease'
      <4>1. SUFFICES ASSUME k.uid \notin DOMAIN lease' PROVE FALSE OBVIOUS
      <4>2. [uid |-> k.uid, addr |-> lease[k.uid], life |-> life] \in Evicted
        BY <3>1, <4>1 DEF Evicted
      <4>3. k = [uid |-> k.uid, addr |-> lease[k.uid], life |-> life]
        BY <2>1, <2>3, <3>1, <1>6 DEF Answers
      <4> QED BY <1>2, <2>1, <4>2, <4>3 DEF Lasting
    <3> QED BY <3>1, <3>2, <1>4
  <2> QED BY <1>6, <2>2, <2>3
<1>9. GivenOnce'
  <2>1. SUFFICES ASSUME NEW k \in Given', NEW l \in Given', k.life = l.life,
                        Lasting(k)', Lasting(l)'
                 PROVE  k.uid = l.uid <=> k.addr = l.addr
    BY DEF GivenOnce
  <2>2. CASE k.life = life
    <3>1. /\ k.uid \in DOMAIN lease' /\ lease'[k.uid] = k.addr
          /\ l.uid \in DOMAIN lease' /\ lease'[l.uid] = l.addr
      BY <1>2, <2>1, <2>2, <1>8 DEF GivenNow
    <3> QED BY <3>1, <1>4 DEF TableInv
  <2>3. CASE k.life # life
    <3>1. k \in Given /\ l \in Given BY <2>1, <2>3, <1>6
    <3> QED BY <2>1, <3>1, <1>6, <1>7 DEF GivenOnce
  <2> QED BY <2>2, <2>3
<1>10. PastOnly'
  <2>1. \A k \in Given' : k.life <= life BY <1>6 DEF PastOnly, TypeOK
  <2>2. \A k \in lost' : k.life <= life BY <1>2 DEF PastOnly, Evicted, TypeOK
  <2> QED BY <1>2, <2>1, <2>2 DEF PastOnly
<1> QED BY <1>4, <1>8, <1>9, <1>10

\* After a restart no answer is of this life.
LEMMA ReceiverRestartsAddresses ==
    ASSUME TypeOK, AddressInv, ReceiverRestarts
    PROVE  AddressInv'
<1>1. /\ life' = life + 1 /\ life \in Nat /\ Len(recent') = 0 /\ DOMAIN lease' = {}
      /\ UNCHANGED <<last, lost, checked>>
  BY EmptySeq DEF ReceiverRestarts, TypeOK
<1>2. Held' \subseteq Held \cup {NoPacket}
  BY UnloadEffect, NodeFacts DEF ReceiverRestarts, TypeOK
<1>3. FewerAnswers
  BY <1>1, <1>2, NodeFacts, NoNewAnswer, NoPacket.prot # "dhcp_response"
<1>4. \A k \in Given' : k \in Given /\ k.life \in Nat /\ (Lasting(k)' <=> Lasting(k))
  BY <1>1, <1>3 DEF FewerAnswers, Lasting, Given, Answers
<1>5. TableInv' BY <1>1 DEF TableInv
<1>6. GivenOnce' BY <1>4 DEF AddressInv, GivenOnce
<1>7. \A k \in Given' : k.life < life' BY <1>1, <1>4 DEF AddressInv, PastOnly
<1>8. GivenNow' BY <1>4, <1>7, <1>1 DEF GivenNow
<1>9. PastOnly'
  <2>1. \A k \in lost' : k.life <= life' BY <1>1 DEF AddressInv, PastOnly, TypeOK
  <2>2. \A c \in Clients : checked'[c] <= life'
    BY <1>1 DEF AddressInv, PastOnly, TypeOK
  <2>3. \A k \in Given' : k.life <= life' BY <1>1, <1>4, <1>7
  <2> QED BY <2>1, <2>2, <2>3 DEF PastOnly
<1> QED BY <1>5, <1>6, <1>8, <1>9 DEF AddressInv

-----------------------------------------------------------------------------
(* Versions *)

\* No new answer, and the receiver stays as it is.
LEMMA VersionsStay ==
    ASSUME VersionInv, NEW pkt, UNCHANGED life, version'[Receiver] = version[Receiver],
           pkt.prot = "about_response" =>
             pkt.life \in Nat /\ pkt.life <= life /\ pkt.version = version[Receiver],
           Held' \subseteq Held \cup {NoPacket, pkt}
    PROVE  VersionInv'
BY NodeFacts DEF VersionInv

LEMMA VersionStep ==
    ASSUME IInv, Next
    PROVE  VersionInv'
<1> USE DEF IInv
<1>1. ASSUME NEW c \in Clients, Ask(c, {}) \/ SendInput(c) PROVE VersionInv'
  <2>1. UNCHANGED <<life, version>> BY <1>1 DEF Ask, AskAddress, AskAbout, SendInput
  <2> QED BY <1>1, <2>1, TransmitterSends, VersionsStay
<1>2. ASSUME NEW c \in Clients, Poll(c) \/ Timeout(c) \/ ClientRestarts(c)
      PROVE  VersionInv'
  <2>1. Held' \subseteq Held \cup {NoPacket} BY <1>2, TransmitterTakes
  <2>2. UNCHANGED life /\ version'[Receiver] = version[Receiver]
    BY <1>2, NodeFacts
    DEF Poll, TakeAddress, CompareVersion, Drop, Timeout, ClientRestarts, TypeOK
  <2> QED BY <2>1, <2>2, NodeFacts, VersionsStay, NoPacket.prot # "about_response"
<1>3. ASSUME ServeAddress PROVE VersionInv'
  <2> DEFINE uid == fifo[Receiver].uid
             pkt == DhcpResponse(uid, lease'[uid])
  <2>1. Held' \subseteq Held \cup {NoPacket, pkt}
    BY <1>3, UnloadEffect, NodeFacts DEF TypeOK, ServeAddress, Unload
  <2>2. pkt.prot # "about_response" BY DEF DhcpResponse
  <2>3. UNCHANGED <<life, version>> BY <1>3 DEF ServeAddress
  <2> HIDE DEF pkt
  <2> QED BY <2>1, <2>2, <2>3, VersionsStay
<1>4. ASSUME ServeAbout \/ TakeOther \/ Answer({}) PROVE VersionInv'
  <2>1. UNCHANGED <<life, version>> BY <1>4 DEF ServeAbout, TakeOther, Answer
  <2>2. CASE ServeAbout
    <3> DEFINE pkt == AboutResponse(fifo[Receiver].src)
    <3>1. Held' \subseteq Held \cup {NoPacket, pkt}
      <4>1. reply' = pkt BY <2>2 DEF ServeAbout
      <4> QED BY <2>2, <4>1, ReceiverTakes
    <3>2. pkt.life = life /\ pkt.version = version[Receiver] /\ life \in Nat
      BY DEF AboutResponse, TypeOK
    <3> HIDE DEF pkt
    <3> QED BY <2>1, <3>1, <3>2, VersionsStay
  <2>3. CASE ~ ServeAbout
    <3>1. Held' \subseteq Held \cup {NoPacket} BY <1>4, <2>3, ReceiverTakes, HeldTypes
    <3> QED BY <2>1, <3>1, NodeFacts, VersionsStay, NoPacket.prot # "about_response"
  <2> QED BY <2>2, <2>3
<1>5. ASSUME ReceiverRestarts PROVE VersionInv'
  <2>1. Held' \subseteq Held \cup {NoPacket}
    BY <1>5, UnloadEffect, NodeFacts DEF ReceiverRestarts, TypeOK
  <2>2. life' = life + 1 /\ life \in Nat BY <1>5 DEF ReceiverRestarts, TypeOK
  <2>3. ASSUME NEW pkt \in Held', pkt.prot = "about_response"
        PROVE  pkt.life \in Nat /\ pkt.life < life'
    <3>1. pkt \in Held /\ pkt \in Packets BY <2>1, <2>3, NodeFacts, HeldTypes
    <3>2. pkt.life \in Nat BY <2>3, <3>1, PacketKinds
    <3> QED BY <2>2, <2>3, <3>1, <3>2 DEF VersionInv
  <2> QED BY <2>2, <2>3 DEF VersionInv
<1> QED BY <1>1, <1>2, <1>3, <1>4, <1>5 DEF Next, Serve

LEMMA FirmwareStep ==
    ASSUME IInv, Next
    PROVE  FirmwareChecked'
<1> USE DEF IInv
<1>1. SUFFICES ASSUME NEW d \in Clients, checked'[d] = life'
               PROVE  /\ phase'[d] = "running" => version'[d] = version'[Receiver]
                      /\ phase'[d] = "bootloader" => version'[d] # version'[Receiver]
  BY DEF FirmwareChecked
\* A step that does not end the start-up of d.
<1>2. CASE /\ UNCHANGED <<version, life>> /\ checked'[d] = checked[d]
           /\ phase'[d] \in {"running", "bootloader"} => phase'[d] = phase[d]
  BY <1>1, <1>2 DEF FirmwareChecked
<1>3. ASSUME NEW c \in Clients, CompareVersion(c) PROVE
         /\ phase'[d] = "running" => version'[d] = version'[Receiver]
         /\ phase'[d] = "bootloader" => version'[d] # version'[Receiver]
  <2>1. CASE d = c
    <3>1. /\ fifo[c].prot = "about_response" /\ fifo[c].life = checked'[c]
          /\ phase'[c] = Verdict(c) /\ UNCHANGED <<version, life>>
      BY <1>3 DEF CompareVersion, Handled, TypeOK
    <3>2. fifo[c].version = version[Receiver]
      BY <1>1, <2>1, <3>1, NodeFacts DEF VersionInv, Held
    <3> QED BY <2>1, <3>1, <3>2 DEF Verdict
  <2>2. CASE d # c
    <3>1. UNCHANGED <<version, life>> /\ checked'[d] = checked[d] /\ phase'[d] = phase[d]
      BY <1>3, <2>2 DEF CompareVersion, TypeOK
    <3> QED BY <1>2, <3>1
  <2> QED BY <2>1, <2>2
<1>4. ASSUME NEW c \in Clients,
             Ask(c, {}) \/ TakeAddress(c) \/ Drop(c) \/ Timeout(c) \/ SendInput(c)
      PROVE  /\ UNCHANGED <<version, life>> /\ checked'[d] = checked[d]
             /\ phase'[d] \in {"running", "bootloader"} => phase'[d] = phase[d]
  BY <1>4 DEF Ask, AskAddress, AskAbout, TakeAddress, Drop, Timeout, SendInput, TypeOK
<1>5. ASSUME NEW c \in Clients, ClientRestarts(c) PROVE
         /\ phase'[d] = "running" => version'[d] = version'[Receiver]
         /\ phase'[d] = "bootloader" => version'[d] # version'[Receiver]
  <2>1. CASE d = c
    <3>1. phase'[d] = "dhcp" BY <1>5, <2>1 DEF ClientRestarts, TypeOK
    <3> QED BY <3>1
  <2>2. CASE d # c
    <3>1. /\ version'[d] = version[d] /\ version'[Receiver] = version[Receiver]
          /\ UNCHANGED <<checked, life>> /\ phase'[d] = phase[d]
      BY <1>5, <2>2, NodeFacts DEF ClientRestarts, TypeOK
    <3> QED BY <1>1, <3>1 DEF FirmwareChecked
  <2> QED BY <2>1, <2>2
<1>6. ASSUME Serve \/ Answer({})
      PROVE  UNCHANGED <<version, life, checked, phase>>
  BY <1>6 DEF Serve, ServeAddress, ServeAbout, TakeOther, Answer
<1>7. ~ ReceiverRestarts
  <2>1. checked[d] <= life /\ life \in Nat BY DEF AddressInv, PastOnly, TypeOK
  <2> QED BY <1>1, <2>1 DEF ReceiverRestarts
<1> QED BY <1>2, <1>3, <1>4, <1>5, <1>6, <1>7 DEF Next, Poll

-----------------------------------------------------------------------------
(* The invariant *)

LEMMA InitAddresses == Init => AddressInv /\ VersionInv /\ FirmwareChecked
<1> SUFFICES ASSUME Init PROVE AddressInv /\ VersionInv /\ FirmwareChecked OBVIOUS
<1>1. Given = {} /\ Held = {NoPacket}
  <2>1. Held = {NoPacket} BY NodeFacts DEF Init, Held
  <2>2. ASSUME NEW k \in Answers PROVE \A pkt \in Held : ~ Gives(pkt, k)
    BY <2>1, NodeFacts DEF Gives
  <2>3. ASSUME NEW k \in Answers PROVE \A c \in Clients : ~ IsLast(k, c)
    BY NodeFacts DEF Init, IsLast, NoAnswer, Answers
  <2> QED BY <2>1, <2>2, <2>3 DEF Given
<1>2. Len(recent) = 0 /\ DOMAIN lease = {} BY EmptySeq DEF Init
<1>3. TableInv BY <1>2 DEF TableInv
<1>4. GivenNow /\ GivenOnce BY <1>1 DEF GivenNow, GivenOnce
<1>5. PastOnly BY <1>1 DEF PastOnly, Init
<1>6. VersionInv BY <1>1, NodeFacts DEF VersionInv
<1>7. FirmwareChecked BY DEF FirmwareChecked, Init
<1> QED BY <1>3, <1>4, <1>5, <1>6, <1>7 DEF AddressInv

LEMMA NextTypes == ASSUME IInv, Next PROVE TypeOK' /\ HandlersInv'
<1> USE DEF IInv, AddressInv
<1>1. ASSUME NEW c \in Clients, Ask(c, {}) \/ SendInput(c) PROVE TypeOK' /\ HandlersInv'
  BY <1>1, AskAddressTypes, AskAboutTypes, SendInputTypes DEF Ask
<1>2. ASSUME NEW c \in Clients, Poll(c) PROVE TypeOK' /\ HandlersInv'
  BY <1>2, TakeAddressTypes, CompareVersionTypes, DropTypes DEF Poll
<1>3. ASSUME NEW c \in Clients, Timeout(c) \/ ClientRestarts(c)
      PROVE  TypeOK' /\ HandlersInv'
  BY <1>3, TimeoutTypes, ClientRestartsTypes
<1>4. ASSUME Serve \/ Answer({}) PROVE TypeOK' /\ HandlersInv'
  BY <1>4, ServeAddressTypes, ServeAboutTypes, TakeOtherTypes, AnswerTypes DEF Serve
<1>5. CASE ReceiverRestarts BY <1>5, ReceiverRestartsTypes
<1> QED BY <1>1, <1>2, <1>3, <1>4, <1>5 DEF Next

LEMMA NextAddresses == ASSUME IInv, Next PROVE AddressInv'
<1> USE DEF IInv
<1>1. ASSUME NEW c \in Clients, Ask(c, {}) \/ SendInput(c) PROVE AddressInv'
  BY <1>1, SendAddresses
<1>2. ASSUME NEW c \in Clients, Poll(c) PROVE AddressInv'
  BY <1>2, TakeAddresses, CompareVersionAddresses, QuietAddresses DEF Poll
<1>3. ASSUME NEW c \in Clients, Timeout(c) \/ ClientRestarts(c) PROVE AddressInv'
  BY <1>3, QuietAddresses
<1>4. ASSUME Serve \/ Answer({}) PROVE AddressInv'
  BY <1>4, NextTypes, ServeAddressAddresses, ReceiverAddresses DEF Serve
<1>5. CASE ReceiverRestarts BY <1>5, ReceiverRestartsAddresses
<1> QED BY <1>1, <1>2, <1>3, <1>4, <1>5 DEF Next

LEMMA NextIInv == IInv /\ [Next]_vars => IInv'
<1> SUFFICES ASSUME IInv, [Next]_vars PROVE IInv' OBVIOUS
<1>1. CASE Next
  BY <1>1, NextTypes, NextAddresses, VersionStep, FirmwareStep DEF IInv
<1>2. CASE UNCHANGED vars
  BY <1>2 DEF vars, table, radio, IInv, TypeOK, HasAddress, HandlersInv, ClientHandlers,
     AddressInv, TableInv, GivenNow, GivenOnce, PastOnly, Given, Held, IsLast, Lasting,
     VersionInv, FirmwareChecked
<1> QED BY <1>1, <1>2

\* The inductive invariant: the answers on their way, however old and by whomever
\* repeated, and those addresses were taken from agree with each other and, if they are of this life, with the table.
THEOREM Invariance == Spec => []IInv
<1>1. Init => IInv BY InitTypes, InitAddresses DEF IInv
<1> QED BY <1>1, NextIInv, PTL DEF Spec

\* Every variable has its type, whatever is lost, late or restarted; in particular
\* a client that waits for an address listens to the one of radioStart.
THEOREM StartNetTypes == Spec => []TypeOK
<1>1. IInv => TypeOK BY DEF IInv
<1> QED BY <1>1, Invariance, PTL

\* radioSetHandler never runs past its table if it has room for the five servers of
\* the receiver: the transmitters register two, however often they start again.
THEOREM HandlersHaveRoom ==
    ASSUME MAX_PACKET_HANDLERS \in Nat, MAX_PACKET_HANDLERS >= 5
    PROVE  Spec => []HandlersFit
<1>1. IInv => HandlersFit
  <2> SUFFICES ASSUME IInv, NEW n \in Nodes PROVE Len(handlers[n]) <= MAX_PACKET_HANDLERS
    BY DEF HandlersFit
  <2>1. CASE n = Receiver
    <3>1. Len(ReceiverHandlers) <= 5 /\ Len(ReceiverHandlers) \in Nat BY ReceiverHandlersFit
    <3> QED BY <2>1, <3>1 DEF IInv, HandlersInv
  <2>2. CASE n \in Clients
    <3>1. handlers[n] \in {<< >>, <<"dhcp_response">>, <<"dhcp_response", "about_response">>}
      BY <2>2 DEF IInv, HandlersInv, ClientHandlers
    <3>2. CASE handlers[n] = << >> BY <3>2, EmptySeq
    <3>3. CASE handlers[n] = <<"dhcp_response">> BY <3>3
    <3>4. CASE handlers[n] = <<"dhcp_response", "about_response">> BY <3>4
    <3> QED BY <3>1, <3>2, <3>3, <3>4
  <2> QED BY <2>1, <2>2, NodesAssumption
<1> QED BY <1>1, Invariance, PTL

\* dhcp_response on two transmitters, with answers lost, late or repeated by others: two that
\* took theirs from one life of the receiver have different addresses, unless the
\* receiver, with its table full, gave one of them away.
THEOREM AddressesAreUnique == Spec => []UniqueAddresses
<1>1. IInv => UniqueAddresses
  <2> SUFFICES ASSUME IInv, NEW c \in Clients, NEW d \in Clients, c # d,
                      HasAddress(c), HasAddress(d), last[c].life = last[d].life,
                      Kept(c), Kept(d)
               PROVE  address[c] # address[d]
    BY DEF UniqueAddresses
  <2> DEFINE k(e) == [uid |-> e, addr |-> last[e].addr, life |-> last[e].life]
  <2>1. ASSUME NEW e \in {c, d} PROVE k(e) \in Given /\ Lasting(k(e))
    <3>1. address[e] = last[e].addr /\ address[e] \in Slots /\ last[e].life \in Nat
      BY DEF IInv, TypeOK
    <3>2. k(e) \in Answers BY <3>1 DEF Answers, Uids
    <3>3. IsLast(k(e), e) BY DEF IsLast
    <3> QED BY <3>2, <3>3 DEF Given, Lasting, Kept
  <2>2. address[c] = last[c].addr /\ address[d] = last[d].addr BY DEF IInv, TypeOK
  <2> QED BY <2>1, <2>2 DEF IInv, AddressInv, GivenOnce
<1> QED BY <1>1, Invariance, PTL

\* dhcp_response after a restart of the transmitter, whichever answer reaches it: the
\* address is the one it had, unless the receiver gave that or the new one away.
THEOREM AddressesAreKept == Spec => AddressKept
<1>1. IInv /\ IInv' /\ [Next]_vars =>
        [\A c \in Clients :
           HasAddress(c)' /\ last[c].addr # StartAddress /\ last'[c].life = last[c].life
           /\ Kept(c) /\ Kept(c)' => address'[c] = last[c].addr]_vars
  <2> SUFFICES ASSUME IInv, IInv', Next, NEW c \in Clients, HasAddress(c)',
                      last[c].addr # StartAddress, last'[c].life = last[c].life,
                      Kept(c), Kept(c)'
               PROVE  address'[c] = last[c].addr
    OBVIOUS
  <2>1. address'[c] = last'[c].addr BY DEF IInv, TypeOK
  <2>2. CASE last'[c] = last[c] BY <2>1, <2>2
  <2>3. CASE last'[c] # last[c]
    <3>1. TakeAddress(c) /\ fifo[c].uid = c /\ fifo[c].prot = "dhcp_response"
      /\ last'[c] = [addr |-> fifo[c].addr, life |-> fifo[c].life] /\ UNCHANGED lost
      BY <2>3 DEF Next, Ask, AskAddress, AskAbout, Poll, TakeAddress, CompareVersion, Drop,
         Timeout, SendInput, ClientRestarts, Serve, ServeAddress, ServeAbout, TakeOther,
         Answer, ReceiverRestarts, IsOwn, Handled, IInv, TypeOK
    <3> DEFINE old == [uid |-> c, addr |-> last[c].addr, life |-> last[c].life]
               new == [uid |-> c, addr |-> fifo[c].addr, life |-> fifo[c].life]
    <3>2. old \in Given /\ Lasting(old)
      <4>1. old \in Answers BY DEF IInv, TypeOK, Answers, Uids
      <4>2. IsLast(old, c) BY DEF IsLast
      <4> QED BY <4>1, <4>2, <3>1 DEF Given, Lasting, Kept
    <3>3. new \in Given /\ Lasting(new)
      <4>1. fifo[c] \in Packets BY NodeFacts DEF IInv, TypeOK
      <4>2. new \in Answers BY <3>1, <4>1, PacketKinds DEF Answers, Uids
      <4>3. fifo[c] \in Held /\ Gives(fifo[c], new) BY <3>1, NodeFacts DEF Held, Gives
      <4> QED BY <4>2, <4>3, <3>1, NodeFacts DEF Given, Lasting, Kept
    <3>4. old.addr = new.addr
      BY <3>1, <3>2, <3>3 DEF IInv, AddressInv, GivenOnce
    <3> QED BY <2>1, <3>1, <3>4
  <2> QED BY <2>2, <2>3
<1> QED BY <1>1, Invariance, PTL DEF Spec, AddressKept

\* The verdict of palawanTxVerifyFirmware is that of the receiver's present life.
THEOREM FirmwareIsChecked == Spec => []FirmwareChecked
<1>1. IInv => FirmwareChecked BY DEF IInv
<1> QED BY <1>1, Invariance, PTL
=============================================================================
