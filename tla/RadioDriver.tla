---------------------------- MODULE RadioDriver ----------------------------
(***************************************************************************)
(* The radio driver of one node (src/src/radio.c, radio_ll.c) register by  *)
(* register, from the reset of the processor on, and the chip behind it,   *)
(* which is external.  The chip keeps its state over a reset of the        *)
(* processor; its buffer of RADIO_FIFO_DEPTH bytes holds what it receives  *)
(* and what it is to send.  A transfer on the SPI bus is one step.         *)
(***************************************************************************)
EXTENDS Integers, Sequences, SequencesExt

CONSTANTS Heard,     \* the packets the other nodes send: [dst, src, prot, payload]
          ToSend,    \* the packets the program sends: [dst, prot, payload]
          Addresses, \* the addresses the program may be given
          Cuts,      \* after how many bytes a reception may be interrupted
          NoPacket, Garbled

RADIO_FIFO_DEPTH == 66
Broadcast == 255
StartAddress == 1

ASSUME AddressesAreBytes == Addresses \subseteq 0 .. 254
ASSUME PayloadsFit ==
    \A pkt \in Heard \cup ToSend : Len(pkt.payload) + 4 <= RADIO_FIFO_DEPTH

Byte == 0 .. 255
ASSUME PacketTypes ==
    /\ Heard \subseteq [dst : Byte, src : Byte, prot : Byte, payload : Seq(Byte)]
    /\ ToSend \subseteq [dst : Byte, prot : Byte, payload : Seq(Byte)]
    /\ NoPacket \notin Heard \cup ToSend
ASSUME CutsAreCounts == Cuts \subseteq Nat \ {0}

VARIABLES pc,        \* where the driver is; "idle": the program is running
          reg,       \* the index into the table being written
          address,   \* radio->address
          sending,   \* the packet radioSend was called with
          given,     \* the last packet given to the handlers
          mode,      \* the chip: "standby", "rx" or "tx"
          regs,      \* register -> whose value it holds
          node, bcast, \* the two registers of the address filter
          fifo,      \* the bytes in the chip's buffer
          incoming,  \* the packet whose first bytes are in it
          crc_ok,    \* IrqFlags2_CrcOk
          sent,      \* IrqFlags2_PacketSent
          onair      \* the bytes last sent

driver == <<pc, reg, address, sending, given>>
chip == <<mode, regs, node, bcast, fifo, incoming, crc_ok, sent, onair>>
vars == <<driver, chip>>

\* The registers of default_registers and of a row of MODEM_CONFIG_TABLE, in order.
default_registers ==
    <<"OpMode", "DataModul", "AesKey1", "AesKey2", "AesKey3", "AesKey4", "AesKey5",
      "AesKey6", "AesKey7", "AesKey8", "AesKey9", "AesKey10", "AesKey11", "AesKey12",
      "AesKey13", "AesKey14", "AesKey15", "AesKey16", "FrfMsb", "FrfMid", "FrfLsb",
      "PaLevel", "PaRamp", "Ocp", "Lna", "RssiThresh", "RxTimeout1", "RxTimeout2",
      "PreambleMsb", "PreambleLsb", "SyncConfig", "SyncValue1", "SyncValue2",
      "PacketConfig1", "PacketConfig2", "PayloadLength", "DioMapping1", "DioMapping2",
      "TestDagc", "Temp1">>
modem_config == <<"DataModul", "BitrateMsb", "BitrateLsb", "FdevMsb", "FdevLsb",
                  "RxBw", "AfcBw", "PacketConfig1">>
ModemConfigs == 27     \* the rows of MODEM_CONFIG_TABLE
GFSK_Rb250Fd250 == 18  \* the row radioStart asks for
Registers == ToSet(default_registers) \cup ToSet(modem_config) \cup {"TestLna"}

\* Whose value the driver means a register to hold while it listens.
Wanted(r) == IF r \in ToSet(modem_config) THEN "modem" ELSE "default"
----------------------------------------------------------------------------
(***************************************************************************)
(* The chip.                                                               *)
(***************************************************************************)
\* struct _RadioPacket: the length counts the bytes that follow it.
Frame(pkt) == <<Len(pkt.payload) + 3, pkt.dst, pkt.src, pkt.prot>> \o pkt.payload

First(s, n) == SubSeq(s, 1, IF n < Len(s) THEN n ELSE Len(s))

\* A reset: every register has its default, but the AES key.
ChipReset == /\ mode' = "standby" /\ fifo' = <<>> /\ incoming' = NoPacket
             /\ crc_ok' = FALSE /\ sent' = FALSE
             /\ regs' = [r \in Registers |-> "reset"] /\ node' = 0 /\ bcast' = 0
             /\ UNCHANGED onair

\* A reception begins when the buffer is empty ...
HearBegin == /\ mode = "rx" /\ fifo = <<>>
             /\ \E pkt \in Heard, cut \in Cuts :
                    incoming' = pkt /\ fifo' = First(Frame(pkt), cut)
             /\ UNCHANGED <<driver, mode, regs, node, bcast, crc_ok, sent, onair>>

\* ... and ends with a packet in it ...
Filters == regs["PacketConfig1"] = "modem" \* CONFIG_WHITE
HearEnd == /\ mode = "rx" /\ incoming # NoPacket
           /\ Filters => incoming.dst \in {node, bcast}
           /\ fifo' = Frame(incoming) /\ incoming' = NoPacket /\ crc_ok' = TRUE
           /\ UNCHANGED <<driver, mode, regs, node, bcast, sent, onair>>

\* ... or with nothing: the address or the CRC is wrong.
HearNothing == /\ mode = "rx" /\ incoming # NoPacket
               /\ fifo' = <<>> /\ incoming' = NoPacket
               /\ UNCHANGED <<driver, mode, regs, node, bcast, crc_ok, sent, onair>>

\* Sending, it takes as many bytes as the first one says.
PacketSent ==
    /\ mode = "tx" /\ fifo # <<>> /\ ~sent
    /\ onair' = First(fifo, fifo[1] + 1)
    /\ fifo' = SubSeq(fifo, fifo[1] + 2, Len(fifo))
    /\ sent' = TRUE /\ crc_ok' = FALSE /\ incoming' = NoPacket
    /\ UNCHANGED <<driver, mode, regs, node, bcast>>

\* A write to OpMode.  Leaving reception may empty the buffer or not; leaving
\* transmission does.
SetMode(new) ==
    /\ mode' = new
    /\ sent' = (sent /\ mode = new)
    /\ \/ /\ mode # "tx" \/ new = "tx"
          /\ UNCHANGED <<fifo, incoming, crc_ok>>
       \/ /\ \/ mode = "tx" /\ new # "tx"
             \/ mode = "rx" /\ new = "standby"
          /\ fifo' = <<>> /\ incoming' = NoPacket /\ crc_ok' = FALSE
----------------------------------------------------------------------------
(***************************************************************************)
(* The driver.                                                             *)
(***************************************************************************)
Goto(from, to) == pc = from /\ pc' = to

\* The boot loader, or the life before, may have left the chip receiving, with
\* other settings and with a packet in it.
Init == /\ pc = "early" /\ reg = 1 /\ address = 0
        /\ sending = NoPacket /\ given = NoPacket
        /\ mode \in {"standby", "rx"}
        /\ regs \in {[r \in Registers |-> v] : v \in {"reset", "other"}}
        /\ node \in Addresses /\ bcast \in {0, Broadcast}
        /\ fifo \in {<<>>} \cup {Frame(pkt) : pkt \in Heard}
        /\ crc_ok = (fifo # <<>>) /\ sent = FALSE
        /\ incoming = NoPacket /\ onair = <<>>

radioPowerCycle == ChipReset /\ reg' = 1 /\ UNCHANGED <<address, sending, given>>

\* __early_init, before main ...
EarlyInit == Goto("early", "init") /\ radioPowerCycle

\* ... and once more.
radioInit == Goto("init", "defaults") /\ radioPowerCycle

\* The loops over the two tables, one radio_set at a time.
radio_set(r, value) == regs' = [regs EXCEPT ![r] = value]
WriteTable(from, table, value, to) ==
    /\ pc = from
    /\ radio_set(table[reg], value)
    /\ IF reg = Len(table) THEN pc' = to /\ reg' = 1 ELSE pc' = from /\ reg' = reg + 1
    /\ UNCHANGED <<address, sending, given, node, bcast, onair>>

WriteDefaults == /\ WriteTable("defaults", default_registers, "default", "config")
                 /\ IF default_registers[reg] = "OpMode" THEN SetMode("standby")
                    ELSE UNCHANGED <<mode, fifo, incoming, crc_ok, sent>>

\* Mutant: the test of config_num the wrong way round.
radio_set_config_reversed ==
    IF GFSK_Rb250Fd250 < ModemConfigs
    THEN Goto("config", "bcast") /\ UNCHANGED <<reg, address, sending, given, chip>>
    ELSE /\ WriteTable("config", modem_config, "modem", "bcast")
         /\ UNCHANGED <<mode, fifo, incoming, crc_ok, sent>>

radio_set_config ==
    IF GFSK_Rb250Fd250 > ModemConfigs
    THEN Goto("config", "bcast") /\ UNCHANGED <<reg, address, sending, given, chip>>
    ELSE /\ WriteTable("config", modem_config, "modem", "bcast")
         /\ UNCHANGED <<mode, fifo, incoming, crc_ok, sent>>

SetBroadcast == /\ Goto("bcast", "node")
                /\ bcast' = Broadcast /\ address' = StartAddress
                /\ UNCHANGED <<reg, sending, given, mode, regs, node, fifo, incoming,
                               crc_ok, sent, onair>>

\* radio_set_node_address, from radioStart and from radioSetAddress.
SetNode == /\ Goto("node", "drain") \/ Goto("set_node", "idle")
           /\ node' = address
           /\ UNCHANGED <<reg, address, sending, given, mode, regs, bcast, fifo,
                          incoming, crc_ok, sent, onair>>

\* "Drain the Fifo": a byte a step, until IrqFlags2 says that it is empty.
Drain == /\ IF fifo = <<>> THEN Goto("drain", "lna") ELSE Goto("drain", "drain")
         /\ fifo' = IF fifo = <<>> THEN <<>> ELSE Tail(fifo)
         /\ crc_ok' = (crc_ok /\ fifo' # <<>>)
         /\ UNCHANGED <<reg, address, sending, given, mode, regs, node, bcast, incoming,
                        sent, onair>>

SetLna == /\ Goto("lna", "rx") /\ radio_set("TestLna", "default")
          /\ UNCHANGED <<reg, address, sending, given, mode, node, bcast, fifo,
                         incoming, crc_ok, sent, onair>>

\* Mutant: the chip is left in standby.
BackToStandby == /\ Goto("rx", "idle")
                 /\ SetMode("standby") /\ sending' = NoPacket
                 /\ UNCHANGED <<reg, address, given, regs, node, bcast, onair>>

\* The end of radioStart and of radioSend.
BackToRx == /\ Goto("rx", "idle")
            /\ SetMode("rx") /\ sending' = NoPacket
            /\ UNCHANGED <<reg, address, given, regs, node, bcast, onair>>

\* A transfer to and from the chip's buffer, byte by byte: what does not fit is
\* lost, and an empty buffer gives nothing.
spiSend(bytes) == fifo' = First(fifo \o bytes, RADIO_FIFO_DEPTH)
spiReceive(count) == fifo' = SubSeq(fifo, count + 1, Len(fifo))

radioSetAddress(addr) == /\ Goto("idle", "set_node") /\ address' = addr
                         /\ UNCHANGED <<reg, sending, given, chip>>

radioPoll == /\ Goto("idle", "unload") /\ crc_ok
             /\ UNCHANGED <<reg, address, sending, given, chip>>

\* Mutant: the length is not compensated for.
UnloadShort ==
    /\ Goto("unload", "idle")
    /\ LET size == fifo[1] - 4
       IN /\ given' = [dst |-> fifo[2], src |-> fifo[3], prot |-> fifo[4],
                       payload |-> SubSeq(fifo, 5, 4 + size)]
          /\ spiReceive(4 + size + 1)
    /\ crc_ok' = (crc_ok /\ fifo' # <<>>)
    /\ UNCHANGED <<reg, address, sending, mode, regs, node, bcast, incoming, sent, onair>>

\* The header, as many bytes as its length says, and one more for the CRC.
radioUnloadPacket ==
    /\ Goto("unload", "idle")
    /\ LET length == (fifo[1] + 1) % 256
           size == length - 4
       IN /\ given' = [dst |-> fifo[2], src |-> fifo[3], prot |-> fifo[4],
                       payload |-> SubSeq(fifo, 5, 4 + size)]
          /\ spiReceive(4 + size + 1)
    /\ crc_ok' = (crc_ok /\ fifo' # <<>>)
    /\ UNCHANGED <<reg, address, sending, mode, regs, node, bcast, incoming, sent, onair>>

\* radioSend: out of reception, ...
SendStandby(pkt) == /\ Goto("idle", "load") /\ sending' = pkt
                    /\ SetMode("standby")
                    /\ UNCHANGED <<reg, address, given, regs, node, bcast, onair>>

\* ... the packet into the buffer, behind what is there, ...
Load == /\ Goto("load", "transmit")
        /\ LET bytes == <<(Len(sending.payload) + 3) % 256, sending.dst, address,
                          sending.prot>> \o sending.payload
           IN spiSend(bytes)
        /\ UNCHANGED <<reg, address, sending, given, mode, regs, node, bcast, incoming,
                       crc_ok, sent, onair>>

\* ... transmission, ...
Transmit == /\ Goto("transmit", "wait") /\ SetMode("tx")
            /\ UNCHANGED <<reg, address, sending, given, regs, node, bcast, onair>>

\* ... until the chip says that the packet is sent.
WaitSent == /\ Goto("wait", "rx") /\ sent
            /\ UNCHANGED <<reg, address, sending, given, chip>>

\* about_response goes back to the boot loader, and the processor starts again.
Reboot == /\ Goto("idle", "early") /\ address' = 0
          /\ UNCHANGED <<reg, sending, given, chip>>

Program == \/ radioPoll \/ Reboot
           \/ \E addr \in Addresses : radioSetAddress(addr)
           \/ \E pkt \in ToSend : SendStandby(pkt)
Step == \/ EarlyInit \/ radioInit \/ WriteDefaults \/ radio_set_config \/ SetBroadcast
        \/ SetNode \/ Drain \/ SetLna \/ BackToRx \/ radioUnloadPacket
        \/ Load \/ Transmit \/ WaitSent
Air == HearBegin \/ HearEnd \/ HearNothing \/ PacketSent

Next == Program \/ Step \/ Air

\* The processor runs, and the chip sends what it is to send.
Spec == Init /\ [][Next]_vars /\ WF_vars(Step) /\ WF_vars(PacketSent)
----------------------------------------------------------------------------
(***************************************************************************)
(* Properties.                                                             *)
(***************************************************************************)
\* Whatever state a restart found the chip in, once the driver has reset it the
\* chip receives only with every register of the tables at the value the driver
\* means it to have, with the filter on and with both addresses of the filter
\* set (radioStart; the filter comes from radio_set_config alone).
ListensConfigured ==
    mode = "rx" /\ pc \notin {"early", "init"} =>
        /\ \A r \in Registers : regs[r] = Wanted(r)
        /\ bcast = Broadcast
        /\ pc # "set_node" => node = address

\* The driver implements the port of RadioPort: a packet is handed out once and
\* unchanged, and what radioSend sends is what it was given, but for a packet
\* that came in since the last radioPoll.
started == pc \notin {"early", "init", "defaults", "config", "bcast", "node", "drain", "lna"}
           /\ (pc = "rx" => sending # NoPacket)
Packets == Heard \cup {[dst |-> pkt.dst, src |-> addr, prot |-> pkt.prot,
                        payload |-> pkt.payload] : pkt \in ToSend, addr \in Addresses \cup {StartAddress}}
Decode(bytes) == IF bytes = <<>> THEN NoPacket
                 ELSE IF \E pkt \in Packets : Frame(pkt) = bytes
                 THEN CHOOSE pkt \in Packets : Frame(pkt) = bytes
                 ELSE Garbled
Port == INSTANCE RadioPort WITH
    NoAddress <- -1,
    address <- IF started THEN node ELSE -1,
    busy <- started /\ incoming # NoPacket,
    buffer <- IF started /\ crc_ok THEN Decode(First(fifo, fifo[1] + 1)) ELSE NoPacket,
    onair <- Decode(onair)
ImplementsPort == Port!Spec

\* However the program sends, sets its address or restarts, and whatever comes
\* in meanwhile, the driver ends up receiving again: it does not wait for ever
\* for the chip (radioSend has no timeout).
ListensAgain == pc # "idle" ~> pc = "idle" /\ mode = "rx"
=============================================================================
