------------------------- MODULE RadioDriverProofs -------------------------
(***************************************************************************)
(* For any packets and addresses: the radio chip receives only when the    *)
(* driver has configured it, and the driver implements RadioPort.  And for *)
(* any contents: what the driver does in one step is what the bytes on the *)
(* bus come to, and memory is read out complete.                           *)
(***************************************************************************)
EXTENDS RadioDriver, SequenceTheorems, WellFoundedInduction, TLAPS

\* How far radioStart is: the places of the driver up to a step of it.
Resetting  == {"early", "init"}
Defaulting == Resetting \cup {"defaults"}
Setting    == Defaulting \cup {"config"}
Naming     == Setting \cup {"bcast"}
Starting   == Naming \cup {"node", "drain", "lna"}
Running    == {"rx", "idle", "set_node", "unload", "load", "transmit", "wait"}

Values == {"reset", "other", "default", "modem"}

TypeInv == /\ pc \in Starting \cup Running
           /\ reg \in Nat \ {0}
           /\ regs \in [Registers -> Values]

\* The first registers of a table hold the value meant for them.
WrittenTo(table, value) == \A i \in 1 .. Len(table) : i < reg => regs[table[i]] = value

TablesInv ==
    /\ pc \notin Defaulting \cup Setting => \A r \in ToSet(modem_config) : regs[r] = "modem"
    /\ pc \notin Defaulting =>
           \A r \in ToSet(default_registers) \ ToSet(modem_config) : regs[r] = "default"
    /\ pc = "defaults" => reg <= Len(default_registers) /\ WrittenTo(default_registers, "default")
    /\ pc = "config" => reg <= Len(modem_config) /\ WrittenTo(modem_config, "modem")
    /\ pc \in Running => regs["TestLna"] = "default"

FilterInv == /\ pc \notin Naming => bcast = Broadcast
             /\ pc \in (Running \cup {"drain", "lna"}) \ {"set_node"} => node = address

\* The chip receives only between radioSends, or before its reset.
ModeInv == mode = "rx" => pc \in Resetting \cup {"idle", "set_node", "unload"}

IInv == TypeInv /\ TablesInv /\ FilterInv /\ ModeInv

USE DEF Resetting, Defaulting, Setting, Naming, Starting, Running, Values

-----------------------------------------------------------------------------
(* The two tables. *)

LEMMA Tables ==
    /\ Len(default_registers) = 40 /\ DOMAIN default_registers = 1 .. 40
    /\ Len(modem_config) = 8 /\ DOMAIN modem_config = 1 .. 8
    /\ "TestLna" \notin ToSet(modem_config)
<1>1. Len(default_registers) = 40 /\ DOMAIN default_registers = 1 .. 40
  BY SMT DEF default_registers
<1>2. Len(modem_config) = 8 /\ DOMAIN modem_config = 1 .. 8
  BY SMT DEF modem_config
<1>3. "TestLna" \notin ToSet(modem_config)
  BY <1>2, SMT DEF modem_config, ToSet
<1> QED BY <1>1, <1>2, <1>3

\* A table's registers are the chip's, and each is at one of its places.
Holds(table) ==
    /\ \A i \in 1 .. Len(table) : table[i] \in ToSet(table) /\ table[i] \in Registers
    /\ \A r \in ToSet(table) : \E i \in 1 .. Len(table) : r = table[i]

LEMMA TableRegisters == Holds(default_registers) /\ Holds(modem_config)
<1>1. ToSet(default_registers) \subseteq Registers /\ ToSet(modem_config) \subseteq Registers
  BY DEF Registers
<1>2. Holds(default_registers)
  BY <1>1, Tables DEF ToSet, Holds
<1>3. Holds(modem_config)
  BY <1>1, Tables DEF ToSet, Holds
<1> QED BY <1>2, <1>3

LEMMA RegisterKinds ==
    /\ "TestLna" \in Registers
    /\ \A r \in Registers : \/ r \in ToSet(modem_config)
                            \/ r \in ToSet(default_registers) \ ToSet(modem_config)
                            \/ r = "TestLna"
BY DEF Registers

-----------------------------------------------------------------------------
LEMMA InitInv == Init => IInv
BY DEF Init, IInv, TypeInv, TablesInv, FilterInv, ModeInv

LEMMA StepInv == IInv /\ [Next]_vars => IInv'
<1> SUFFICES ASSUME IInv, [Next]_vars PROVE IInv'
  OBVIOUS
<1> USE DEF IInv
<1> DEFINE Same == UNCHANGED <<reg, regs, address, node, bcast>>
<1>q. ASSUME Same, UNCHANGED pc, UNCHANGED mode PROVE IInv'
  BY <1>q DEF TypeInv, TablesInv, FilterInv, ModeInv, WrittenTo
<1>r. ASSUME pc = "early" \/ pc = "init", pc' = "init" \/ pc' = "defaults", radioPowerCycle
      PROVE  IInv'
  BY <1>r, Tables DEF radioPowerCycle, ChipReset, TypeInv, TablesInv, FilterInv, ModeInv, WrittenTo
<1>1. CASE EarlyInit BY <1>1, <1>r DEF EarlyInit, Goto
<1>2. CASE radioInit BY <1>2, <1>r DEF radioInit, Goto
<1>3. CASE WriteDefaults
  <2>1. /\ pc = "defaults" /\ regs' = [regs EXCEPT ![default_registers[reg]] = "default"]
        /\ UNCHANGED <<address, node, bcast>>
        /\ \/ reg = Len(default_registers) /\ pc' = "config" /\ reg' = 1
           \/ reg # Len(default_registers) /\ pc' = "defaults" /\ reg' = reg + 1
    BY <1>3 DEF WriteDefaults, WriteTable, radio_set
  <2>2. mode' = "standby" \/ mode' = mode
    BY <1>3 DEF WriteDefaults, SetMode
  <2>3. reg \in 1 .. Len(default_registers) /\ default_registers[reg] \in Registers
    <3>1. reg <= Len(default_registers) /\ reg \in Nat \ {0}
      BY <2>1 DEF TypeInv, TablesInv
    <3> QED BY <3>1, Tables, TableRegisters DEF Holds
  <2>4. TypeInv'
    BY <2>1, <2>3 DEF TypeInv
  <2>5. \A i \in 1 .. Len(default_registers) : i <= reg => regs'[default_registers[i]] = "default"
    <3>1. \A i \in 1 .. Len(default_registers) : i < reg => regs[default_registers[i]] = "default"
      BY <2>1 DEF TablesInv, WrittenTo
    <3>2. \A i \in 1 .. Len(default_registers) : default_registers[i] \in Registers
      BY TableRegisters DEF Holds
    <3> QED BY <2>1, <2>3, <3>1, <3>2, Tables DEF TypeInv
  <2>6. CASE pc' = "defaults"
    <3>1. reg' <= Len(default_registers) /\ WrittenTo(default_registers, "default")'
      BY <2>1, <2>3, <2>5, <2>6, Tables DEF WrittenTo
    <3> QED BY <3>1, <2>1, <2>2, <2>4, <2>6 DEF TablesInv, FilterInv, ModeInv
  <2>7. CASE pc' = "config"
    <3>1. \A r \in ToSet(default_registers) : regs'[r] = "default"
      BY <2>1, <2>5, <2>7, Tables, TableRegisters DEF Holds
    <3>2. reg' <= Len(modem_config) /\ WrittenTo(modem_config, "modem")'
      BY <2>1, <2>7, Tables DEF WrittenTo
    <3> QED BY <3>1, <3>2, <2>1, <2>2, <2>4, <2>7 DEF TablesInv, FilterInv, ModeInv
  <2> QED BY <2>1, <2>6, <2>7
<1>4. CASE radio_set_config
  <2>1. /\ pc = "config" /\ regs' = [regs EXCEPT ![modem_config[reg]] = "modem"]
        /\ UNCHANGED <<address, node, bcast, mode>>
        /\ \/ reg = Len(modem_config) /\ pc' = "bcast" /\ reg' = 1
           \/ reg # Len(modem_config) /\ pc' = "config" /\ reg' = reg + 1
    BY <1>4 DEF radio_set_config, WriteTable, radio_set, GFSK_Rb250Fd250, ModemConfigs
  <2>2. reg \in 1 .. Len(modem_config) /\ modem_config[reg] \in ToSet(modem_config)
        /\ modem_config[reg] \in Registers
    <3>1. reg <= Len(modem_config) /\ reg \in Nat \ {0}
      BY <2>1 DEF TypeInv, TablesInv
    <3> QED BY <3>1, Tables, TableRegisters DEF Holds
  <2>3. TypeInv'
    BY <2>1, <2>2 DEF TypeInv
  <2>4. \A i \in 1 .. Len(modem_config) : i <= reg => regs'[modem_config[i]] = "modem"
    <3>1. \A i \in 1 .. Len(modem_config) : i < reg => regs[modem_config[i]] = "modem"
      BY <2>1 DEF TablesInv, WrittenTo
    <3>2. \A i \in 1 .. Len(modem_config) : modem_config[i] \in Registers
      BY TableRegisters DEF Holds
    <3> QED BY <2>1, <2>2, <3>1, <3>2, Tables DEF TypeInv
  <2>5. \A r \in ToSet(default_registers) \ ToSet(modem_config) : regs'[r] = "default"
    BY <2>1, <2>2 DEF TypeInv, TablesInv, Registers
  <2>6. CASE pc' = "config"
    <3>1. reg' <= Len(modem_config) /\ WrittenTo(modem_config, "modem")'
      BY <2>1, <2>2, <2>4, <2>6, Tables DEF WrittenTo
    <3> QED BY <3>1, <2>1, <2>3, <2>5, <2>6 DEF TablesInv, FilterInv, ModeInv
  <2>7. CASE pc' = "bcast"
    <3>1. \A r \in ToSet(modem_config) : regs'[r] = "modem"
      BY <2>1, <2>4, <2>7, Tables, TableRegisters DEF Holds
    <3> QED BY <3>1, <2>1, <2>3, <2>5, <2>7 DEF TablesInv, FilterInv, ModeInv
  <2> QED BY <2>1, <2>6, <2>7
<1>5. CASE SetBroadcast
  BY <1>5 DEF SetBroadcast, Goto, TypeInv, TablesInv, FilterInv, ModeInv
<1>6. CASE SetNode
  BY <1>6 DEF SetNode, Goto, TypeInv, TablesInv, FilterInv, ModeInv
<1>7. CASE Drain
  BY <1>7 DEF Drain, Goto, TypeInv, TablesInv, FilterInv, ModeInv
<1>8. CASE SetLna
  <2>1. regs' = [regs EXCEPT !["TestLna"] = "default"] /\ pc = "lna" /\ pc' = "rx"
        /\ UNCHANGED <<reg, mode, address, node, bcast>>
    BY <1>8 DEF SetLna, Goto, radio_set
  <2>2. TypeInv' /\ regs'["TestLna"] = "default"
    BY <2>1, RegisterKinds DEF TypeInv
  <2>3. \A r \in Registers \ {"TestLna"} : regs'[r] = regs[r]
    BY <2>1 DEF TypeInv
  <2>4. TablesInv'
    BY <2>1, <2>2, <2>3, Tables DEF TablesInv, Registers
  <2> QED BY <2>1, <2>2, <2>4 DEF FilterInv, ModeInv
<1>9. CASE BackToRx
  BY <1>9 DEF BackToRx, SetMode, Goto, TypeInv, TablesInv, FilterInv, ModeInv
<1>10. CASE radioUnloadPacket
  BY <1>10 DEF radioUnloadPacket, Goto, TypeInv, TablesInv, FilterInv, ModeInv
<1>11. CASE Load
  BY <1>11 DEF Load, Goto, TypeInv, TablesInv, FilterInv, ModeInv
<1>12. CASE Transmit
  BY <1>12 DEF Transmit, SetMode, Goto, TypeInv, TablesInv, FilterInv, ModeInv
<1>13. CASE WaitSent
  BY <1>13 DEF WaitSent, chip, Goto, TypeInv, TablesInv, FilterInv, ModeInv
<1>14. CASE radioPoll
  BY <1>14 DEF radioPoll, chip, Goto, TypeInv, TablesInv, FilterInv, ModeInv
<1>15. CASE Reboot
  BY <1>15 DEF Reboot, chip, Goto, TypeInv, TablesInv, FilterInv, ModeInv
<1>16. CASE \E addr \in Addresses : radioSetAddress(addr)
  BY <1>16 DEF radioSetAddress, chip, Goto, TypeInv, TablesInv, FilterInv, ModeInv
<1>17. CASE \E pkt \in ToSend : SendStandby(pkt)
  BY <1>17 DEF SendStandby, SetMode, Goto, TypeInv, TablesInv, FilterInv, ModeInv
<1>18. CASE Air
  <2>1. Same /\ UNCHANGED pc /\ UNCHANGED mode
    BY <1>18 DEF Air, HearBegin, HearEnd, HearNothing, PacketSent, driver
  <2> QED BY <2>1, <1>q
<1>19. CASE UNCHANGED vars
  <2>1. Same /\ UNCHANGED pc /\ UNCHANGED mode
    BY <1>19 DEF vars, driver, chip
  <2> QED BY <2>1, <1>q
<1> QED
  BY <1>1, <1>2, <1>3, <1>4, <1>5, <1>6, <1>7, <1>8, <1>9, <1>10, <1>11, <1>12, <1>13,
     <1>14, <1>15, <1>16, <1>17, <1>18, <1>19 DEF Next, Program, Step

\* The inductive invariant of the driver's configuration of the chip.
THEOREM Invariance == Spec => []IInv
BY InitInv, StepInv, PTL DEF Spec

\* Whatever state the chip was found in, it receives only with every register,
\* the filter and its addresses as the driver means them (radioStart).
THEOREM ConfiguredBeforeListening == Spec => []ListensConfigured
<1>1. IInv => ListensConfigured
  <2> SUFFICES ASSUME IInv, mode = "rx", pc \notin {"early", "init"}
               PROVE  /\ \A r \in Registers : regs[r] = Wanted(r)
                      /\ bcast = Broadcast
                      /\ pc # "set_node" => node = address
    BY DEF ListensConfigured
  <2>1. pc \in {"idle", "set_node", "unload"}
    BY DEF IInv, ModeInv
  <2>2. bcast = Broadcast /\ (pc # "set_node" => node = address)
    BY <2>1 DEF IInv, FilterInv
  <2>3. ASSUME NEW r \in Registers PROVE regs[r] = Wanted(r)
    <3>1. /\ \A s \in ToSet(modem_config) : regs[s] = "modem"
          /\ \A s \in ToSet(default_registers) \ ToSet(modem_config) : regs[s] = "default"
          /\ regs["TestLna"] = "default"
      BY <2>1 DEF IInv, TablesInv
    <3> QED BY <3>1, Tables, RegisterKinds DEF Wanted
  <2> QED BY <2>2, <2>3
<1> QED BY <1>1, Invariance, PTL
-----------------------------------------------------------------------------
(* The driver implements the port.  The chip's buffer holds one packet that *)
(* came in, whole or not, with what is to be sent behind it, or only the    *)
(* latter.                                                                  *)

Preparing == {"defaults", "config", "bcast", "node", "drain", "lna"}
Listening == {"idle", "set_node", "unload"}
StartsUp  == pc = "rx" /\ sending = NoPacket
Sent      == pc = "rx" /\ sending # NoPacket

Outgoing == [dst |-> sending.dst, src |-> address, prot |-> sending.prot,
             payload |-> sending.payload]

\* What the chip sends of a buffer, whose first byte says how much.
Strings == Seq(Byte)
HasLength(bytes) == bytes \in Strings /\ bytes # <<>>
TakenFrom(bytes) == First(bytes, bytes[1] + 1)
FirstIs(pkt) == HasLength(fifo) /\ TakenFrom(fifo) = Frame(pkt)

PlaceInv ==
    /\ pc = "early" => mode # "tx"
    /\ pc \in Listening => mode = "rx"
    /\ pc \in {"load", "transmit"} => mode = "standby" /\ ~sent
    /\ pc = "wait" \/ Sent => mode = "tx"
    /\ Sent => sent
    /\ pc \in {"load", "transmit", "wait"} \/ Sent => sending \in ToSend
    /\ pc \in Starting \cup Listening => sending = NoPacket
    /\ pc \in {"node", "drain", "lna"} \/ StartsUp => address = StartAddress
    /\ pc \in Running => {address, node} \subseteq Addresses \cup {StartAddress}
    /\ pc = "set_node" => address \in Addresses
    /\ pc = "unload" => crc_ok

BufferInv ==
    /\ pc \in Preparing \cup {"init"} \/ StartsUp =>
           mode = "standby" /\ fifo = <<>> /\ incoming = NoPacket /\ ~crc_ok
    /\ pc \in Listening \cup {"load"} /\ crc_ok => \E pkt \in Heard : fifo = Frame(pkt)
    /\ pc \in {"transmit", "wait"} /\ crc_ok => \E pkt \in Heard : FirstIs(pkt)
    /\ pc \in Running /\ crc_ok => incoming = NoPacket
    /\ pc \in Running /\ incoming # NoPacket => incoming \in Heard /\ HasLength(fifo)
    /\ pc \in Listening \cup {"load"} /\ ~crc_ok /\ incoming = NoPacket => fifo = <<>>
    /\ pc = "transmit" \/ (pc = "wait" /\ ~sent) =>
           crc_ok \/ incoming # NoPacket \/ FirstIs(Outgoing)
    /\ sent /\ (pc = "wait" \/ Sent) => ~crc_ok /\ incoming = NoPacket

PortInv == PlaceInv /\ BufferInv

-----------------------------------------------------------------------------
(* A packet and its bytes. *)

Sendable == {pkt \in [dst : Byte, src : Byte, prot : Byte, payload : Seq(Byte)] :
                 Len(pkt.payload) + 4 <= RADIO_FIFO_DEPTH}

LEMMA StringFacts ==
    ASSUME NEW s \in Strings
    PROVE  /\ Len(s) \in Nat /\ (s = <<>> <=> Len(s) = 0)
           /\ \A i \in 1 .. Len(s) : s[i] \in Byte
<1>1. Len(s) \in Nat /\ \A i \in 1 .. Len(s) : s[i] \in Byte
  BY LenProperties, ElementOfSeq DEF Strings
<1>2. s = <<>> <=> Len(s) = 0
  BY EmptySeq DEF Strings
<1> QED BY <1>1, <1>2

\* The four bytes in front of the payload and the payload.
FrameOf(s, pkt) ==
    /\ s \in Strings /\ Len(s) = Len(pkt.payload) + 4
    /\ s[1] = Len(pkt.payload) + 3 /\ s[2] = pkt.dst /\ s[3] = pkt.src /\ s[4] = pkt.prot
    /\ \A i \in 1 .. Len(pkt.payload) : s[i + 4] = pkt.payload[i]

LEMMA FourBytes ==
    ASSUME NEW a \in Byte, NEW b \in Byte, NEW c \in Byte, NEW d \in Byte
    PROVE  /\ <<a, b, c, d>> \in Seq(Byte) /\ Len(<<a, b, c, d>>) = 4
           /\ <<a, b, c, d>>[1] = a /\ <<a, b, c, d>>[2] = b
           /\ <<a, b, c, d>>[3] = c /\ <<a, b, c, d>>[4] = d
OBVIOUS

LEMMA FramedBytes ==
    ASSUME NEW a \in Byte, NEW b \in Byte, NEW c \in Byte, NEW d \in Byte, NEW t \in Strings
    PROVE  LET s == <<a, b, c, d>> \o t
           IN  /\ s \in Strings /\ Len(s) = Len(t) + 4
               /\ s[1] = a /\ s[2] = b /\ s[3] = c /\ s[4] = d
               /\ \A i \in 1 .. Len(t) : s[i + 4] = t[i]
<1> DEFINE h == <<a, b, c, d>>
           s == h \o t
<1>1. /\ h \in Seq(Byte) /\ Len(h) = 4
      /\ h[1] = a /\ h[2] = b /\ h[3] = c /\ h[4] = d
  BY FourBytes
<1> HIDE DEF h
<1>2. Len(t) \in Nat /\ t \in Seq(Byte)
  BY LenProperties DEF Strings
<1>3. /\ s \in Seq(Byte) /\ Len(s) = Len(h) + Len(t)
      /\ \A i \in 1 .. Len(h) + Len(t) : s[i] = IF i <= Len(h) THEN h[i] ELSE t[i - Len(h)]
  BY <1>1, <1>2, ConcatProperties
<1> HIDE DEF s
<1>4. s \in Strings /\ Len(s) = Len(t) + 4
  BY <1>1, <1>2, <1>3 DEF Strings
<1>5. s[1] = a /\ s[2] = b /\ s[3] = c /\ s[4] = d
  <2>1. \A i \in 1 .. 4 : i \in 1 .. Len(h) + Len(t) /\ i <= Len(h)
    BY <1>1, <1>2
  <2> QED BY <1>1, <1>3, <2>1
<1>6. \A i \in 1 .. Len(t) : s[i + 4] = t[i]
  BY <1>1, <1>2, <1>3
<1> QED BY <1>4, <1>5, <1>6 DEF s, h

LEMMA FrameIs ==
    ASSUME NEW pkt \in Sendable
    PROVE  /\ FrameOf(Frame(pkt), pkt)
           /\ Len(pkt.payload) \in 0 .. RADIO_FIFO_DEPTH - 4 /\ pkt.payload \in Strings
<1>1. /\ pkt.dst \in Byte /\ pkt.src \in Byte /\ pkt.prot \in Byte /\ pkt.payload \in Strings
      /\ Len(pkt.payload) + 4 <= RADIO_FIFO_DEPTH
  BY DEF Sendable, Strings
<1>2. Len(pkt.payload) \in 0 .. RADIO_FIFO_DEPTH - 4 /\ Len(pkt.payload) + 3 \in Byte
  <2>1. Len(pkt.payload) \in Nat
    BY <1>1, StringFacts, Zenon
  <2>2. \A n \in Nat : n + 4 <= RADIO_FIFO_DEPTH => n \in 0 .. RADIO_FIFO_DEPTH - 4 /\ n + 3 \in Byte
    BY DEF RADIO_FIFO_DEPTH, Byte
  <2> QED BY <1>1, <2>1, <2>2, Zenon
<1> DEFINE s == <<Len(pkt.payload) + 3, pkt.dst, pkt.src, pkt.prot>> \o pkt.payload
<1>3. /\ s \in Strings /\ Len(s) = Len(pkt.payload) + 4
      /\ s[1] = Len(pkt.payload) + 3 /\ s[2] = pkt.dst /\ s[3] = pkt.src /\ s[4] = pkt.prot
      /\ \A i \in 1 .. Len(pkt.payload) : s[i + 4] = pkt.payload[i]
  BY <1>1, <1>2, FramedBytes
<1>4. Frame(pkt) = s
  BY DEF Frame
<1> HIDE DEF s
<1> QED BY <1>1, <1>2, <1>3, <1>4 DEF FrameOf

\* A frame is one packet's.
LEMMA FrameInjective ==
    ASSUME NEW p \in Sendable, NEW q \in Sendable, Frame(p) = Frame(q) PROVE p = q
<1>1. FrameOf(Frame(p), p) /\ FrameOf(Frame(p), q)
  BY FrameIs
<1>2. /\ p.payload \in Seq(Byte) /\ q.payload \in Seq(Byte)
      /\ Len(p.payload) \in Nat /\ Len(q.payload) \in Nat
  BY FrameIs DEF Strings, RADIO_FIFO_DEPTH
<1>3. Len(p.payload) = Len(q.payload) /\ p.dst = q.dst /\ p.src = q.src /\ p.prot = q.prot
  BY <1>1, <1>2 DEF FrameOf
<1>4. \A i \in 1 .. Len(p.payload) : p.payload[i] = q.payload[i]
  BY <1>1, <1>2, <1>3 DEF FrameOf
<1>5. p.payload = q.payload
  BY <1>2, <1>3, <1>4, SeqEqual
<1> QED BY <1>3, <1>5 DEF Sendable

LEMMA FirstOf ==
    ASSUME NEW s \in Strings, NEW n \in Nat
    PROVE  /\ First(s, n) \in Strings /\ Len(First(s, n)) = IF n < Len(s) THEN n ELSE Len(s)
           /\ \A i \in 1 .. Len(First(s, n)) : First(s, n)[i] = s[i]
<1> DEFINE m == IF n < Len(s) THEN n ELSE Len(s)
<1>1. Len(s) \in Nat /\ \A i \in 1 .. Len(s) : s[i] \in Byte
  BY StringFacts
<1>2. m \in Nat /\ m <= Len(s)
  BY <1>1
<1> HIDE DEF m
<1>3. 1 \in Int /\ m \in Int /\ \A i \in 1 .. m : s[i] \in Byte
  BY <1>1, <1>2
<1>4. /\ SubSeq(s, 1, m) \in Seq(Byte)
      /\ Len(SubSeq(s, 1, m)) = IF 1 <= m THEN m - 1 + 1 ELSE 0
      /\ \A i \in 1 .. m - 1 + 1 : SubSeq(s, 1, m)[i] = s[1 + i - 1]
  BY <1>3, SubSeqProperties
<1>5. Len(SubSeq(s, 1, m)) = m /\ \A i \in 1 .. m : SubSeq(s, 1, m)[i] = s[i]
  BY <1>2, <1>4
<1>6. First(s, n) = SubSeq(s, 1, m)
  BY DEF First, m
<1> QED BY <1>4, <1>5, <1>6 DEF m, Strings

\* The bytes of a packet at the start of a buffer are what the chip sends of it.
LEMMA StartsWith ==
    ASSUME NEW pkt \in Sendable, NEW s \in Strings, Len(s) >= Len(pkt.payload) + 4,
           \A i \in 1 .. Len(pkt.payload) + 4 : s[i] = Frame(pkt)[i]
    PROVE  HasLength(s) /\ TakenFrom(s) = Frame(pkt)
<1>1. /\ FrameOf(Frame(pkt), pkt) /\ Len(pkt.payload) \in Nat /\ Len(s) \in Nat
  BY FrameIs, StringFacts DEF RADIO_FIFO_DEPTH
<1>2. s[1] + 1 = Len(pkt.payload) + 4 /\ s # <<>>
  <2>1. Frame(pkt)[1] = Len(pkt.payload) + 3
    BY <1>1 DEF FrameOf
  <2>2. 1 \in 1 .. Len(pkt.payload) + 4 /\ Len(s) # 0
    BY <1>1
  <2>3. s[1] = Len(pkt.payload) + 3
    BY <2>1, <2>2
  <2>4. s # <<>>
    BY <2>2, StringFacts
  <2> QED BY <1>1, <2>3, <2>4
<1>3. /\ TakenFrom(s) \in Strings /\ Len(TakenFrom(s)) = Len(pkt.payload) + 4
      /\ \A i \in 1 .. Len(TakenFrom(s)) : TakenFrom(s)[i] = s[i]
  BY <1>1, <1>2, FirstOf DEF TakenFrom
<1>4. Frame(pkt) \in Strings /\ Len(Frame(pkt)) = Len(pkt.payload) + 4
  BY <1>1 DEF FrameOf
<1>5. TakenFrom(s) = Frame(pkt)
  BY <1>1, <1>3, <1>4, SeqEqual DEF Strings
<1> QED BY <1>2, <1>5 DEF HasLength

LEMMA WholePacket ==
    ASSUME NEW pkt \in Sendable PROVE HasLength(Frame(pkt)) /\ TakenFrom(Frame(pkt)) = Frame(pkt)
<1>1. FrameOf(Frame(pkt), pkt) /\ Len(pkt.payload) \in Nat
  BY FrameIs DEF RADIO_FIFO_DEPTH
<1> QED BY <1>1, StartsWith DEF FrameOf

\* What spiSend puts behind a packet does not change it, and what it puts behind
\* part of one leaves the first byte.
LEMMA SentBehind ==
    ASSUME NEW s \in Strings, NEW t \in Strings, s # <<>>
    PROVE  LET f == First(s \o t, RADIO_FIFO_DEPTH)
           IN  /\ HasLength(f)
               /\ Len(s) <= RADIO_FIFO_DEPTH => Len(f) >= Len(s)
                                                /\ \A i \in 1 .. Len(s) : f[i] = s[i]
<1> DEFINE f == First(s \o t, RADIO_FIFO_DEPTH)
<1>1. Len(s) \in Nat \ {0} /\ Len(t) \in Nat
  BY StringFacts
<1>2. /\ s \o t \in Strings /\ Len(s \o t) = Len(s) + Len(t)
      /\ \A i \in 1 .. Len(s) + Len(t) : (s \o t)[i] = IF i <= Len(s) THEN s[i] ELSE t[i - Len(s)]
  BY ConcatProperties DEF Strings
<1> DEFINE n == RADIO_FIFO_DEPTH
<1>3. n \in Nat /\ n > 0
  BY DEF RADIO_FIFO_DEPTH
<1> HIDE DEF n
<1>4. /\ First(s \o t, n) \in Strings
      /\ Len(First(s \o t, n)) = IF n < Len(s \o t) THEN n ELSE Len(s \o t)
      /\ \A i \in 1 .. Len(First(s \o t, n)) : First(s \o t, n)[i] = (s \o t)[i]
  BY <1>2, <1>3, FirstOf
<1> DEFINE g == First(s \o t, n)
<1> HIDE DEF g
<1>5. g \in Strings /\ Len(g) = (IF n < Len(s) + Len(t) THEN n ELSE Len(s) + Len(t))
      /\ \A i \in 1 .. Len(g) : g[i] = (s \o t)[i]
  BY <1>2, <1>4 DEF g
<1>6. HasLength(g)
  BY <1>1, <1>3, <1>5, StringFacts DEF HasLength
<1>7. Len(s) <= n => Len(g) >= Len(s) /\ \A i \in 1 .. Len(s) : g[i] = s[i]
  BY <1>1, <1>2, <1>3, <1>5
<1> QED BY <1>6, <1>7 DEF g, n

LEMMA PacketBehind ==
    ASSUME NEW pkt \in Sendable, NEW t \in Strings
    PROVE  LET f == First(Frame(pkt) \o t, RADIO_FIFO_DEPTH)
           IN  HasLength(f) /\ TakenFrom(f) = Frame(pkt)
<1> DEFINE f == First(Frame(pkt) \o t, RADIO_FIFO_DEPTH)
<1>1. /\ Frame(pkt) \in Strings /\ Frame(pkt) # <<>> /\ Len(Frame(pkt)) = Len(pkt.payload) + 4
      /\ Len(Frame(pkt)) <= RADIO_FIFO_DEPTH
  <2>1. FrameOf(Frame(pkt), pkt) /\ Len(pkt.payload) \in 0 .. RADIO_FIFO_DEPTH - 4
    BY FrameIs
  <2>2. Frame(pkt) # <<>>
    BY WholePacket DEF HasLength
  <2>3. Frame(pkt) \in Strings /\ Len(Frame(pkt)) = Len(pkt.payload) + 4
    BY <2>1 DEF FrameOf
  <2>4. \A n \in 0 .. RADIO_FIFO_DEPTH - 4 : n + 4 <= RADIO_FIFO_DEPTH
    BY DEF RADIO_FIFO_DEPTH
  <2> QED BY <2>1, <2>2, <2>3, <2>4, Zenon
<1>2. /\ HasLength(f) /\ Len(f) >= Len(Frame(pkt))
      /\ \A i \in 1 .. Len(Frame(pkt)) : f[i] = Frame(pkt)[i]
  BY <1>1, SentBehind
<1> HIDE DEF f
<1>3. TakenFrom(f) = Frame(pkt)
  BY <1>1, <1>2, StartsWith DEF HasLength
<1> QED BY <1>2, <1>3 DEF f

LEMMA PacketAlone ==
    ASSUME NEW pkt \in Sendable
    PROVE  LET f == First(<<>> \o Frame(pkt), RADIO_FIFO_DEPTH)
           IN  HasLength(f) /\ TakenFrom(f) = Frame(pkt)
<1> DEFINE f == First(Frame(pkt) \o <<>>, RADIO_FIFO_DEPTH)
<1>1. <<>> \in Strings /\ Frame(pkt) \in Strings
  BY EmptySeq, FrameIs DEF Strings, FrameOf
<1>2. <<>> \o Frame(pkt) = Frame(pkt) /\ Frame(pkt) \o <<>> = Frame(pkt)
  BY <1>1, ConcatEmptySeq DEF Strings
<1>3. HasLength(f) /\ TakenFrom(f) = Frame(pkt)
  BY <1>1, PacketBehind
<1> QED BY <1>2, <1>3

\* Part of a packet.
LEMMA PartOfPacket ==
    ASSUME NEW pkt \in Sendable, NEW cut \in Nat \ {0}
    PROVE  HasLength(First(Frame(pkt), cut))
<1>1. Frame(pkt) \in Strings /\ Frame(pkt) # <<>>
  BY WholePacket DEF HasLength
<1>2. Len(Frame(pkt)) \in Nat \ {0}
  BY <1>1, StringFacts
<1> DEFINE f == First(Frame(pkt), cut)
<1>3. f \in Strings /\ Len(f) = IF cut < Len(Frame(pkt)) THEN cut ELSE Len(Frame(pkt))
  BY <1>1, FirstOf
<1> HIDE DEF f
<1>4. f \in Strings /\ f # <<>>
  BY <1>2, <1>3, StringFacts
<1> QED BY <1>4 DEF HasLength, f

\* The payload is what stands behind the header, and nothing stands behind it.
LEMMA PayloadOf ==
    ASSUME NEW pkt \in Sendable
    PROVE  LET s == Frame(pkt)
               size == ((s[1] + 1) % 256) - 4
           IN  /\ s[2] = pkt.dst /\ s[3] = pkt.src /\ s[4] = pkt.prot
               /\ SubSeq(s, 5, 4 + size) = pkt.payload
               /\ SubSeq(s, (4 + size + 1) + 1, Len(s)) = <<>>
<1> DEFINE s == Frame(pkt)
           n == Len(pkt.payload)
<1>1. FrameOf(s, pkt) /\ n \in 0 .. 62 /\ pkt.payload \in Strings
  BY FrameIs DEF RADIO_FIFO_DEPTH
<1>2. s \in Strings /\ Len(s) = n + 4 /\ s[1] = n + 3 /\ \A i \in 1 .. n : s[i + 4] = pkt.payload[i]
  BY <1>1 DEF FrameOf
<1>3. \A i \in 1 .. n : pkt.payload[i] \in Byte
  BY <1>1, StringFacts
<1> HIDE DEF s, n
<1>4. ((s[1] + 1) % 256) - 4 = n
  BY <1>1, <1>2
<1>5. 5 \in Int /\ 4 + n \in Int /\ \A i \in 5 .. 4 + n : s[i] \in Byte
  <2>1. \A i \in 5 .. 4 + n : \E j \in 1 .. n : i = j + 4
    <3> SUFFICES ASSUME NEW i \in 5 .. 4 + n PROVE \E j \in 1 .. n : i = j + 4
      OBVIOUS
    <3>1. i - 4 \in 1 .. n /\ i = (i - 4) + 4
      BY <1>1
    <3> QED BY <3>1
  <2>2. \A j \in 1 .. n : s[j + 4] \in Byte
    BY <1>2, <1>3
  <2>3. \A i \in 5 .. 4 + n : s[i] \in Byte
    BY <2>1, <2>2
  <2> QED BY <1>1, <2>3
<1>6. /\ SubSeq(s, 5, 4 + n) \in Seq(Byte)
      /\ Len(SubSeq(s, 5, 4 + n)) = IF 5 <= 4 + n THEN (4 + n) - 5 + 1 ELSE 0
      /\ \A i \in 1 .. (4 + n) - 5 + 1 : SubSeq(s, 5, 4 + n)[i] = s[5 + i - 1]
  BY <1>5, SubSeqProperties
<1>7. Len(SubSeq(s, 5, 4 + n)) = n /\ \A i \in 1 .. n : SubSeq(s, 5, 4 + n)[i] = s[i + 4]
  BY <1>1, <1>6
<1>8. SubSeq(s, 5, 4 + n) = pkt.payload
  <2>1. pkt.payload \in Seq(Byte) /\ Len(pkt.payload) = n
    BY <1>1 DEF Strings, n
  <2> QED BY <1>2, <1>6, <1>7, <2>1, SeqEqual
<1>9. SubSeq(s, (4 + n + 1) + 1, Len(s)) = <<>>
  BY <1>1, <1>2, SubSeqEmpty
<1> QED BY <1>1, <1>4, <1>8, <1>9 DEF s, FrameOf

LEMMA PacketsSendable ==
    /\ Heard \subseteq Packets /\ Packets \subseteq Sendable
    /\ NoPacket \notin Heard \cup ToSend
    /\ \A pkt \in ToSend, addr \in Addresses \cup {StartAddress} :
           [dst |-> pkt.dst, src |-> addr, prot |-> pkt.prot, payload |-> pkt.payload] \in Packets
<1>1. Heard \subseteq Sendable
  BY PacketTypes, PayloadsFit DEF Sendable
<1>2. ASSUME NEW pkt \in ToSend, NEW addr \in Addresses \cup {StartAddress}
      PROVE  [dst |-> pkt.dst, src |-> addr, prot |-> pkt.prot, payload |-> pkt.payload] \in Sendable
  <2>1. addr \in Byte
    BY AddressesAreBytes DEF StartAddress, Byte
  <2>2. /\ pkt.dst \in Byte /\ pkt.prot \in Byte /\ pkt.payload \in Seq(Byte)
        /\ Len(pkt.payload) + 4 <= RADIO_FIFO_DEPTH
    BY PacketTypes, PayloadsFit
  <2> DEFINE q == [dst |-> pkt.dst, src |-> addr, prot |-> pkt.prot, payload |-> pkt.payload]
  <2>3. q \in [dst : Byte, src : Byte, prot : Byte, payload : Seq(Byte)]
    BY <2>1, <2>2
  <2>4. q.payload = pkt.payload
    OBVIOUS
  <2> HIDE DEF q
  <2>5. q \in Sendable
    BY <2>2, <2>3, <2>4, Zenon DEF Sendable
  <2> QED BY <2>5 DEF q
<1> DEFINE Out == {[dst |-> pkt.dst, src |-> addr, prot |-> pkt.prot, payload |-> pkt.payload] :
                       pkt \in ToSend, addr \in Addresses \cup {StartAddress}}
<1>3. Packets = Heard \cup Out
  BY DEF Packets
<1>4. Out \subseteq Sendable
  BY <1>2
<1>5. \A pkt \in ToSend, addr \in Addresses \cup {StartAddress} :
          [dst |-> pkt.dst, src |-> addr, prot |-> pkt.prot, payload |-> pkt.payload] \in Out
  OBVIOUS
<1> HIDE DEF Out
<1> QED BY <1>1, <1>3, <1>4, <1>5, PacketTypes

LEMMA Decoding ==
    /\ \A pkt \in Packets : Decode(Frame(pkt)) = pkt
    /\ Decode(<<>>) = NoPacket
    /\ \A bytes : bytes # <<>> => Decode(bytes) \in Packets \cup {Garbled}
<1>1. ASSUME NEW pkt \in Packets PROVE Decode(Frame(pkt)) = pkt
  <2>1. Frame(pkt) # <<>>
    BY PacketsSendable, WholePacket DEF HasLength
  <2>2. \A q \in Packets : Frame(q) = Frame(pkt) => q = pkt
    BY PacketsSendable, FrameInjective
  <2> QED BY <2>1, <2>2 DEF Decode
<1>2. Decode(<<>>) = NoPacket
  BY DEF Decode
<1>3. ASSUME NEW bytes, bytes # <<>> PROVE Decode(bytes) \in Packets \cup {Garbled}
  BY <1>3 DEF Decode
<1> QED BY <1>1, <1>2, <1>3

\* A buffer that ends up with a packet in front, or part of one.
LEMMA HeardFirst ==
    /\ \A pkt \in Heard : /\ Frame(pkt) # <<>> /\ HasLength(Frame(pkt))
                          /\ TakenFrom(Frame(pkt)) = Frame(pkt)
    /\ \A pkt \in Heard, cut \in Cuts : HasLength(First(Frame(pkt), cut))
BY PacketsSendable, WholePacket, PartOfPacket, CutsAreCounts DEF HasLength

-----------------------------------------------------------------------------
USE DEF Preparing, Listening

LEMMA PortInit == Init => PortInv
<1> SUFFICES ASSUME Init PROVE PortInv
  OBVIOUS
<1>1. pc = "early" /\ sending = NoPacket /\ mode # "tx"
  BY DEF Init
<1> QED BY <1>1 DEF PortInv, PlaceInv, BufferInv, StartsUp, Sent

LEMMA PlaceStep == TypeInv /\ FilterInv /\ PlaceInv /\ [Next]_vars => PlaceInv'
<1> SUFFICES ASSUME TypeInv, FilterInv, PlaceInv, [Next]_vars PROVE PlaceInv'
  OBVIOUS
<1> USE DEF PlaceInv, StartsUp, Sent, Goto
<1>0. NoPacket \notin ToSend
  BY PacketTypes
<1>1. CASE EarlyInit
  BY <1>1 DEF EarlyInit, radioPowerCycle, ChipReset
<1>2. CASE radioInit
  BY <1>2 DEF radioInit, radioPowerCycle, ChipReset
<1>3. CASE WriteDefaults
  BY <1>3 DEF WriteDefaults, WriteTable, SetMode
<1>4. CASE radio_set_config
  BY <1>4 DEF radio_set_config, WriteTable, chip
<1>5. CASE SetBroadcast
  BY <1>5 DEF SetBroadcast
<1>6. CASE SetNode
  BY <1>6 DEF SetNode
<1>7. CASE Drain
  BY <1>7 DEF Drain
<1>8. CASE SetLna
  BY <1>8 DEF SetLna, FilterInv
<1>9. CASE BackToRx
  BY <1>9 DEF BackToRx, SetMode
<1>10. CASE radioUnloadPacket
  BY <1>10 DEF radioUnloadPacket
<1>11. CASE Load
  BY <1>11 DEF Load
<1>12. CASE Transmit
  BY <1>12 DEF Transmit, SetMode
<1>13. CASE WaitSent
  BY <1>0, <1>13 DEF WaitSent, chip
<1>14. CASE radioPoll
  BY <1>14 DEF radioPoll, chip
<1>15. CASE Reboot
  BY <1>15 DEF Reboot, chip
<1>16. CASE \E addr \in Addresses : radioSetAddress(addr)
  BY <1>16 DEF radioSetAddress, chip
<1>17. CASE \E pkt \in ToSend : SendStandby(pkt)
  BY <1>0, <1>17 DEF SendStandby, SetMode
<1>18. CASE HearBegin
  BY <1>18 DEF HearBegin, driver
<1>19. CASE HearEnd
  BY <1>19 DEF HearEnd, driver
<1>20. CASE HearNothing
  BY <1>20 DEF HearNothing, driver
<1>21. CASE PacketSent
  BY <1>21 DEF PacketSent, driver
<1>22. CASE UNCHANGED vars
  BY <1>22 DEF vars, driver, chip
<1> QED
  BY <1>1, <1>2, <1>3, <1>4, <1>5, <1>6, <1>7, <1>8, <1>9, <1>10, <1>11, <1>12, <1>13, <1>14,
     <1>15, <1>16, <1>17, <1>18, <1>19, <1>20, <1>21, <1>22 DEF Next, Program, Step, Air

\* The packet that radioSend puts behind what the chip holds.
LEMMA Loaded ==
    ASSUME TypeInv, PlaceInv, BufferInv, Load
    PROVE  /\ crc_ok => \E pkt \in Heard : fifo = Frame(pkt) /\ FirstIs(pkt)'
           /\ incoming # NoPacket => HasLength(fifo')
           /\ crc_ok \/ incoming # NoPacket \/ FirstIs(Outgoing)'
<1>1. /\ pc = "load" /\ sending \in ToSend /\ address \in Addresses \cup {StartAddress}
      /\ UNCHANGED <<sending, address, crc_ok, incoming>>
  BY DEF Load, Goto, PlaceInv
<1>2. Outgoing \in Packets /\ Outgoing' = Outgoing
  BY <1>1, PacketsSendable DEF Outgoing
<1>3. Outgoing \in Sendable
  BY <1>2, PacketsSendable
<1>4. fifo' = First(fifo \o Frame(Outgoing), RADIO_FIFO_DEPTH)
  <2>1. Len(sending.payload) + 3 = (Len(sending.payload) + 3) % 256
    <3>1. Len(Outgoing.payload) \in 0 .. RADIO_FIFO_DEPTH - 4
      BY <1>3, FrameIs
    <3>2. Len(sending.payload) \in 0 .. RADIO_FIFO_DEPTH - 4
      BY <3>1 DEF Outgoing
    <3>3. \A n \in 0 .. RADIO_FIFO_DEPTH - 4 : n + 3 = (n + 3) % 256
      BY DEF RADIO_FIFO_DEPTH
    <3> QED BY <3>2, <3>3
  <2>2. Frame(Outgoing) = <<Len(sending.payload) + 3, sending.dst, address, sending.prot>>
                          \o sending.payload
    BY DEF Frame, Outgoing
  <2>3. fifo' = First(fifo \o (<<(Len(sending.payload) + 3) % 256, sending.dst, address,
                                 sending.prot>> \o sending.payload), RADIO_FIFO_DEPTH)
    BY DEF Load, spiSend
  <2> QED BY <2>1, <2>2, <2>3
<1>5. Frame(Outgoing) \in Strings
  BY <1>3, WholePacket DEF HasLength
<1>6. ASSUME crc_ok PROVE \E pkt \in Heard : fifo = Frame(pkt) /\ FirstIs(pkt)'
  <2>1. PICK pkt \in Heard : fifo = Frame(pkt)
    BY <1>1, <1>6 DEF BufferInv
  <2>2. pkt \in Sendable
    BY PacketsSendable
  <2>3. HasLength(fifo') /\ TakenFrom(fifo') = Frame(pkt)
    BY <1>4, <1>5, <2>1, <2>2, PacketBehind
  <2> QED BY <2>1, <2>3 DEF FirstIs
<1>7. ASSUME incoming # NoPacket PROVE HasLength(fifo')
  <2>1. fifo \in Strings /\ fifo # <<>>
    BY <1>1, <1>7 DEF BufferInv, HasLength
  <2> QED BY <1>4, <1>5, <2>1, SentBehind
<1>8. ASSUME ~crc_ok, incoming = NoPacket PROVE FirstIs(Outgoing)'
  <2>1. fifo = <<>>
    BY <1>1, <1>8 DEF BufferInv
  <2>2. HasLength(fifo') /\ TakenFrom(fifo') = Frame(Outgoing)
    BY <1>3, <1>4, <2>1, PacketAlone
  <2> QED BY <1>2, <2>2 DEF FirstIs
<1> QED BY <1>6, <1>7, <1>8

LEMMA UnloadedAll ==
    ASSUME TypeInv, PlaceInv, BufferInv, radioUnloadPacket
    PROVE  \E pkt \in Heard : fifo = Frame(pkt) /\ given' = pkt /\ fifo' = <<>> /\ crc_ok' = FALSE
<1>1. pc = "unload" /\ crc_ok
  BY DEF radioUnloadPacket, Goto, PlaceInv
<1>2. PICK pkt \in Heard : fifo = Frame(pkt)
  BY <1>1 DEF BufferInv
<1> DEFINE size == ((fifo[1] + 1) % 256) - 4
<1>3. /\ given' = [dst |-> fifo[2], src |-> fifo[3], prot |-> fifo[4],
                   payload |-> SubSeq(fifo, 5, 4 + size)]
      /\ fifo' = SubSeq(fifo, (4 + size + 1) + 1, Len(fifo))
      /\ crc_ok' = (crc_ok /\ fifo' # <<>>)
  BY DEF radioUnloadPacket, spiReceive
<1>4. pkt \in Sendable
  BY PacketsSendable
<1>5. /\ fifo[2] = pkt.dst /\ fifo[3] = pkt.src /\ fifo[4] = pkt.prot
      /\ SubSeq(fifo, 5, 4 + size) = pkt.payload
      /\ SubSeq(fifo, (4 + size + 1) + 1, Len(fifo)) = <<>>
  BY <1>2, <1>4, PayloadOf
<1> HIDE DEF size
<1>6. given' = pkt
  BY <1>3, <1>4, <1>5 DEF Sendable
<1>7. fifo' = <<>> /\ crc_ok' = FALSE
  BY <1>3, <1>5
<1> QED BY <1>2, <1>6, <1>7

LEMMA BufferStep == TypeInv /\ PlaceInv /\ PlaceInv' /\ BufferInv /\ [Next]_vars => BufferInv'
<1> SUFFICES ASSUME TypeInv, PlaceInv, PlaceInv', BufferInv, [Next]_vars PROVE BufferInv'
  OBVIOUS
<1>0. NoPacket \notin ToSend /\ NoPacket \notin Heard
  BY PacketTypes
<1>q. ASSUME pc' \in {"early"} PROVE BufferInv'
  BY <1>q DEF BufferInv, StartsUp, Sent
<1>1. CASE EarlyInit
  BY <1>1 DEF EarlyInit, radioPowerCycle, ChipReset, Goto, BufferInv, StartsUp, Sent
<1>2. CASE radioInit
  BY <1>2 DEF radioInit, radioPowerCycle, ChipReset, Goto, BufferInv, StartsUp, Sent
<1>3. CASE WriteDefaults
  BY <1>3 DEF WriteDefaults, WriteTable, SetMode, BufferInv, StartsUp, Sent
<1>4. CASE radio_set_config
  BY <1>4 DEF radio_set_config, WriteTable, Goto, chip, BufferInv, StartsUp, Sent
<1>5. CASE SetBroadcast
  BY <1>5 DEF SetBroadcast, Goto, BufferInv, StartsUp, Sent
<1>6. CASE SetNode
  <2>1. CASE pc = "node" /\ pc' = "drain"
    BY <1>6, <2>1 DEF SetNode, BufferInv, StartsUp, Sent
  <2>2. CASE pc = "set_node" /\ pc' = "idle"
    BY <1>6, <2>2 DEF SetNode, BufferInv, StartsUp, Sent
  <2> QED BY <1>6, <2>1, <2>2 DEF SetNode, Goto
<1>7. CASE Drain
  BY <1>7 DEF Drain, Goto, BufferInv, StartsUp, Sent
<1>8. CASE SetLna
  BY <1>8 DEF SetLna, Goto, BufferInv, PlaceInv, StartsUp, Sent
<1>9. CASE BackToRx
  BY <1>9 DEF BackToRx, Goto, SetMode, BufferInv, PlaceInv, StartsUp, Sent
<1>10. CASE radioUnloadPacket
  <2>1. /\ pc = "unload" /\ pc' = "idle" /\ fifo' = <<>> /\ crc_ok' = FALSE
        /\ UNCHANGED <<sending, mode, incoming>>
    BY <1>10, UnloadedAll DEF radioUnloadPacket, Goto
  <2>2. incoming = NoPacket
    BY <2>1 DEF BufferInv, PlaceInv
  <2> QED BY <2>1, <2>2 DEF BufferInv, StartsUp, Sent
<1>11. CASE Load
  <2>1. /\ pc = "load" /\ pc' = "transmit" /\ UNCHANGED <<sending, mode, incoming, crc_ok, sent>>
    BY <1>11 DEF Load, Goto
  <2>2. /\ crc_ok' => \E pkt \in Heard : FirstIs(pkt)'
        /\ incoming' # NoPacket => HasLength(fifo')
        /\ crc_ok' \/ incoming' # NoPacket \/ FirstIs(Outgoing)'
    BY <1>11, <2>1, Loaded
  <2> QED BY <2>1, <2>2 DEF BufferInv, StartsUp, Sent
<1>12. CASE Transmit
  <2>1. /\ pc = "transmit" /\ pc' = "wait"
        /\ UNCHANGED <<fifo, incoming, crc_ok, sending, address>> /\ mode = "standby" /\ ~sent'
    BY <1>12 DEF Transmit, Goto, SetMode, PlaceInv
  <2>2. \A pkt : FirstIs(pkt)' <=> FirstIs(pkt)
    BY <2>1 DEF FirstIs
  <2>3. FirstIs(Outgoing)' <=> FirstIs(Outgoing)
    BY <2>1 DEF FirstIs, Outgoing
  <2> QED BY <2>1, <2>2, <2>3 DEF BufferInv, StartsUp, Sent
<1>13. CASE WaitSent
  BY <1>0, <1>13 DEF WaitSent, chip, Goto, BufferInv, PlaceInv, StartsUp, Sent
<1>14. CASE radioPoll
  BY <1>14 DEF radioPoll, chip, Goto, BufferInv, StartsUp, Sent
<1>15. CASE Reboot
  BY <1>15, <1>q DEF Reboot, Goto
<1>16. CASE \E addr \in Addresses : radioSetAddress(addr)
  BY <1>16 DEF radioSetAddress, chip, Goto, BufferInv, StartsUp, Sent
<1>17. CASE \E pkt \in ToSend : SendStandby(pkt)
  <2>1. /\ pc = "idle" /\ pc' = "load" /\ mode' = "standby"
        /\ \/ UNCHANGED <<fifo, incoming, crc_ok>>
           \/ fifo' = <<>> /\ incoming' = NoPacket /\ crc_ok' = FALSE
    BY <1>17 DEF SendStandby, SetMode, Goto
  <2> QED BY <2>1 DEF BufferInv, StartsUp, Sent
<1>18. CASE HearBegin
  <2>1. /\ UNCHANGED <<pc, sending, mode, crc_ok, sent>> /\ mode = "rx" /\ fifo = <<>>
        /\ \E pkt \in Heard, cut \in Cuts : incoming' = pkt /\ fifo' = First(Frame(pkt), cut)
    BY <1>18 DEF HearBegin, driver
  <2>2. incoming' \in Heard /\ HasLength(fifo')
    BY <2>1, HeardFirst
  <2>3. pc \in Listening \cup {"early"}
    BY <2>1 DEF TypeInv, PlaceInv, BufferInv, StartsUp, Sent
  <2>4. pc \in Listening => ~crc_ok
    BY <2>1, HeardFirst DEF BufferInv
  <2> QED BY <1>0, <1>q, <2>1, <2>2, <2>3, <2>4 DEF BufferInv, PlaceInv, StartsUp, Sent
<1>19. CASE HearEnd
  <2>1. /\ UNCHANGED <<pc, sending, mode, sent>> /\ mode = "rx" /\ incoming # NoPacket
        /\ fifo' = Frame(incoming) /\ incoming' = NoPacket /\ crc_ok' = TRUE
    BY <1>19 DEF HearEnd, driver
  <2>2. pc \in Listening \cup {"early"}
    BY <2>1 DEF TypeInv, PlaceInv, BufferInv, StartsUp, Sent
  <2>3. pc \in Listening => incoming \in Heard
    BY <2>1 DEF BufferInv
  <2> QED BY <1>q, <2>1, <2>2, <2>3 DEF BufferInv, PlaceInv, StartsUp, Sent
<1>20. CASE HearNothing
  <2>1. /\ UNCHANGED <<pc, sending, mode, crc_ok, sent>> /\ mode = "rx" /\ incoming # NoPacket
        /\ fifo' = <<>> /\ incoming' = NoPacket
    BY <1>20 DEF HearNothing, driver
  <2>2. pc \in Listening \cup {"early"}
    BY <2>1 DEF TypeInv, PlaceInv, BufferInv, StartsUp, Sent
  <2>3. pc \in Listening => ~crc_ok
    BY <2>1 DEF BufferInv
  <2> QED BY <1>q, <2>1, <2>2, <2>3 DEF BufferInv, PlaceInv, StartsUp, Sent
<1>21. CASE PacketSent
  <2>1. /\ UNCHANGED <<pc, sending, mode>> /\ mode = "tx" /\ ~sent
        /\ sent' = TRUE /\ crc_ok' = FALSE /\ incoming' = NoPacket
    BY <1>21 DEF PacketSent, driver
  <2>2. pc \in {"wait", "early"} \/ Sent
    BY <2>1 DEF TypeInv, PlaceInv, BufferInv, StartsUp, Sent
  <2> QED BY <1>q, <2>1, <2>2 DEF BufferInv, PlaceInv, StartsUp, Sent
<1>22. CASE UNCHANGED vars
  BY <1>22 DEF vars, driver, chip, BufferInv, StartsUp, Sent, FirstIs, Outgoing
<1> QED
  BY <1>1, <1>2, <1>3, <1>4, <1>5, <1>6, <1>7, <1>8, <1>9, <1>10, <1>11, <1>12, <1>13, <1>14,
     <1>15, <1>16, <1>17, <1>18, <1>19, <1>20, <1>21, <1>22 DEF Next, Program, Step, Air

-----------------------------------------------------------------------------
(* The steps of the port. *)

PortAddress == IF started THEN node ELSE -1
PortBusy    == started /\ incoming # NoPacket
PortBuffer  == IF started /\ crc_ok THEN Decode(TakenFrom(fifo)) ELSE NoPacket
PortAir     == Decode(onair)

PortIs == <<PortAddress, PortBusy, PortBuffer, given, PortAir>>

LEMMA StartedIs ==
    ASSUME TypeInv
    PROVE  /\ started \in BOOLEAN
           /\ started <=> pc \in Running /\ ~StartsUp
BY DEF TypeInv, started, StartsUp

\* With the radio started its address is one the program has been given.
LEMMA AddressIs ==
    ASSUME TypeInv, FilterInv, PlaceInv, started
    PROVE  /\ PortAddress = node
           /\ pc # "set_node" => node = address
           /\ {node, address} \subseteq Addresses \cup {StartAddress} /\ node # -1
<1>1. pc \in Running
  BY StartedIs
<1>2. pc # "set_node" => node = address
  BY <1>1 DEF FilterInv
<1>3. {node, address} \subseteq Addresses \cup {StartAddress}
  BY <1>1 DEF PlaceInv
<1>4. node # -1
  BY <1>3, AddressesAreBytes DEF StartAddress
<1> QED BY <1>1, <1>2, <1>3, <1>4 DEF PortAddress

\* The packet in the buffer.
LEMMA BufferIs ==
    ASSUME TypeInv, PlaceInv, BufferInv
    PROVE  /\ started /\ crc_ok => /\ PortBuffer \in Heard /\ ~PortBusy
                                   /\ TakenFrom(fifo) = Frame(PortBuffer)
           /\ ~(started /\ crc_ok) => PortBuffer = NoPacket
<1>1. ASSUME started, crc_ok PROVE \E pkt \in Heard : TakenFrom(fifo) = Frame(pkt)
  <2>1. pc \in Running /\ ~StartsUp
    BY <1>1, StartedIs
  <2>2. CASE pc \in Listening \cup {"load"}
    BY <1>1, <2>2, HeardFirst DEF BufferInv
  <2>3. CASE pc \in {"transmit", "wait"}
    BY <1>1, <2>3 DEF BufferInv, FirstIs
  <2>4. CASE Sent
    BY <1>1, <2>4 DEF BufferInv, PlaceInv, Sent
  <2> QED BY <2>1, <2>2, <2>3, <2>4 DEF StartsUp, Sent
<1>2. ASSUME started, crc_ok
      PROVE  PortBuffer \in Heard /\ ~PortBusy /\ TakenFrom(fifo) = Frame(PortBuffer)
  <2>1. PICK pkt \in Heard : TakenFrom(fifo) = Frame(pkt)
    BY <1>1, <1>2
  <2>2. PortBuffer = pkt
    BY <1>2, <2>1, Decoding, PacketsSendable DEF PortBuffer
  <2>3. ~PortBusy
    BY <1>2, StartedIs DEF PortBusy, BufferInv
  <2> QED BY <2>1, <2>2, <2>3
<1> QED BY <1>2 DEF PortBuffer

USE DEF PortIs

\* The port in the names of this module.
LEMMA PortSteps ==
    /\ UNCHANGED PortIs => UNCHANGED Port!port
    /\ Port!Start <=> /\ PortAddress = -1 /\ PortAddress' = StartAddress
                      /\ UNCHANGED <<PortBusy, PortBuffer, given, PortAir>>
    /\ Port!Restart <=> /\ PortAddress' = -1 /\ PortBusy' = FALSE /\ PortBuffer' = NoPacket
                        /\ UNCHANGED <<given, PortAir>>
    /\ Port!Begin <=> /\ PortAddress # -1 /\ ~PortBusy /\ PortBuffer = NoPacket
                      /\ PortBusy' = TRUE
                      /\ UNCHANGED <<PortAddress, PortBuffer, given, PortAir>>
    /\ \A pkt : Port!Hear(pkt) <=>
           /\ PortBusy /\ pkt.dst \in {PortAddress, Broadcast}
           /\ PortBusy' = FALSE /\ PortBuffer' = pkt
           /\ UNCHANGED <<PortAddress, given, PortAir>>
    /\ Port!Lose <=> /\ PortBusy' = FALSE /\ PortBuffer' = NoPacket
                     /\ UNCHANGED <<PortAddress, given, PortAir>>
    /\ Port!HandOut <=> /\ PortBuffer # NoPacket /\ given' = PortBuffer /\ PortBuffer' = NoPacket
                        /\ UNCHANGED <<PortAddress, PortBusy, PortAir>>
    /\ Port!SetAddress <=> /\ PortAddress # -1 /\ PortAddress' \in Addresses
                           /\ UNCHANGED <<PortBusy, PortBuffer, given, PortAir>>
    /\ \A pkt : Port!Send(pkt) <=>
           /\ PortAddress # -1 /\ pkt.src = PortAddress
           /\ PortAir' \in IF PortBusy THEN Packets \cup {Garbled}
                           ELSE IF PortBuffer = NoPacket THEN {pkt} ELSE {PortBuffer}
           /\ PortBusy' = FALSE /\ PortBuffer' = NoPacket
           /\ UNCHANGED <<PortAddress, given>>
<1> USE DEF PortAddress, PortBusy, PortBuffer, PortAir, TakenFrom
<1>1. UNCHANGED PortIs => UNCHANGED Port!port
  BY Zenon DEF Port!port
<1>2. Port!Start <=> /\ PortAddress = -1 /\ PortAddress' = StartAddress
                     /\ UNCHANGED <<PortBusy, PortBuffer, given, PortAir>>
  BY Zenon DEF Port!Start, Port!up
<1>3. Port!Restart <=> /\ PortAddress' = -1 /\ PortBusy' = FALSE /\ PortBuffer' = NoPacket
                       /\ UNCHANGED <<given, PortAir>>
  BY Zenon DEF Port!Restart
<1>4. Port!Begin <=> /\ PortAddress # -1 /\ ~PortBusy /\ PortBuffer = NoPacket
                     /\ PortBusy' = TRUE
                     /\ UNCHANGED <<PortAddress, PortBuffer, given, PortAir>>
  BY Zenon DEF Port!Begin, Port!up
<1>5. ASSUME NEW pkt
      PROVE  Port!Hear(pkt) <=> /\ PortBusy /\ pkt.dst \in {PortAddress, Broadcast}
                                /\ PortBusy' = FALSE /\ PortBuffer' = pkt
                                /\ UNCHANGED <<PortAddress, given, PortAir>>
  BY Zenon DEF Port!Hear
<1>6. Port!Lose <=> /\ PortBusy' = FALSE /\ PortBuffer' = NoPacket
                    /\ UNCHANGED <<PortAddress, given, PortAir>>
  BY Zenon DEF Port!Lose
<1>7. Port!HandOut <=> /\ PortBuffer # NoPacket /\ given' = PortBuffer /\ PortBuffer' = NoPacket
                       /\ UNCHANGED <<PortAddress, PortBusy, PortAir>>
  BY Zenon DEF Port!HandOut
<1>8. Port!SetAddress <=> /\ PortAddress # -1 /\ PortAddress' \in Addresses
                          /\ UNCHANGED <<PortBusy, PortBuffer, given, PortAir>>
  BY Zenon DEF Port!SetAddress, Port!up
<1>9. ASSUME NEW pkt
      PROVE  Port!Send(pkt) <=>
                 /\ PortAddress # -1 /\ pkt.src = PortAddress
                 /\ PortAir' \in IF PortBusy THEN Packets \cup {Garbled}
                                 ELSE IF PortBuffer = NoPacket THEN {pkt} ELSE {PortBuffer}
                 /\ PortBusy' = FALSE /\ PortBuffer' = NoPacket
                 /\ UNCHANGED <<PortAddress, given>>
  BY Zenon DEF Port!Send, Port!up
<1> HIDE DEF PortAddress, PortBusy, PortBuffer, PortAir, TakenFrom
<1> QED BY <1>1, <1>2, <1>3, <1>4, <1>5, <1>6, <1>7, <1>8, <1>9, Zenon

PortStep == Port!Next \/ UNCHANGED Port!port

\* What leaves the chip and the address alone leaves the port alone.
LEMMA PortStays ==
    ASSUME TypeInv, TypeInv', started' <=> started, UNCHANGED <<given, onair, crc_ok, incoming>>,
           started => UNCHANGED node, started /\ crc_ok => UNCHANGED PortBuffer
    PROVE  PortStep
<1>1. started \in BOOLEAN /\ started' \in BOOLEAN
  BY DEF TypeInv, started
<1>2. UNCHANGED <<PortAddress, PortAir, given>>
  BY <1>1 DEF PortAddress, PortAir
<1>3. UNCHANGED <<PortBusy, PortBuffer>>
  BY <1>1 DEF PortBusy, PortBuffer
<1> QED BY <1>2, <1>3, PortSteps DEF PortStep

LEMMA SameBuffer ==
    ASSUME started' <=> started, UNCHANGED <<crc_ok, fifo>> PROVE UNCHANGED PortBuffer
BY DEF PortBuffer, TakenFrom

\* Before the radio is started the port shows nothing of the chip.
LEMMA NotStarted ==
    ASSUME TypeInv, TypeInv', ~started, ~started', UNCHANGED <<given, onair>>
    PROVE  PortStep
<1>1. UNCHANGED <<PortAddress, PortBusy, PortBuffer, given, PortAir>>
  BY DEF PortAddress, PortBusy, PortBuffer, PortAir
<1> QED BY <1>1, PortSteps DEF PortStep


LEMMA StartingUp ==
    ASSUME IInv, IInv', PortInv, PortInv',
           EarlyInit \/ radioInit \/ WriteDefaults \/ radio_set_config \/ SetBroadcast
           \/ (SetNode /\ pc = "node") \/ Drain \/ SetLna
    PROVE  PortStep
<1>1. pc \in Starting /\ pc' \in Starting \cup {"rx"} /\ UNCHANGED <<given, onair, sending>>
  BY DEF EarlyInit, radioInit, radioPowerCycle, ChipReset, WriteDefaults, radio_set_config,
     WriteTable, SetBroadcast, SetNode, Drain, SetLna, Goto, chip
<1>2. ~started /\ ~started'
  <2>1. sending = NoPacket
    BY <1>1 DEF PortInv, PlaceInv
  <2> QED BY <1>1, <2>1 DEF started
<1> QED BY <1>1, <1>2, NotStarted DEF IInv

LEMMA Started ==
    ASSUME IInv, IInv', PortInv, PortInv', BackToRx
    PROVE  PortStep
<1>1. /\ pc = "rx" /\ pc' = "idle" /\ UNCHANGED <<address, given, node, onair>>
      /\ \/ mode # "tx" /\ UNCHANGED <<fifo, incoming, crc_ok>>
         \/ mode = "tx" /\ incoming' = NoPacket /\ crc_ok' = FALSE
    BY DEF BackToRx, SetMode, Goto
<1>2. started'
  BY <1>1 DEF started
<1>3. CASE StartsUp
  <2>1. incoming = NoPacket /\ ~crc_ok /\ node = StartAddress
    BY <1>1, <1>3 DEF IInv, FilterInv, PortInv, PlaceInv, BufferInv
  <2>2. incoming' = NoPacket /\ ~crc_ok' /\ node' = StartAddress /\ ~started
    BY <1>1, <1>3, <2>1 DEF started, StartsUp
  <2>3. /\ PortAddress = -1 /\ PortAddress' = StartAddress
        /\ UNCHANGED <<PortBusy, PortBuffer, given, PortAir>>
    BY <1>1, <1>2, <2>1, <2>2 DEF PortAddress, PortBusy, PortBuffer, PortAir
  <2> QED BY <2>3, PortSteps DEF PortStep, Port!Next
<1>4. CASE Sent
  <2>1. started /\ mode = "tx" /\ ~crc_ok /\ incoming = NoPacket
    BY <1>1, <1>4 DEF started, Sent, PortInv, PlaceInv, BufferInv
  <2>2. UNCHANGED <<incoming, PortBusy>> /\ ~crc_ok'
    BY <1>1, <1>2, <2>1 DEF PortBusy
  <2>3. UNCHANGED <<PortAddress, PortBuffer, PortAir>>
    BY <1>1, <1>2, <2>1, <2>2 DEF PortAddress, PortBuffer, PortAir
  <2> QED BY <1>1, <2>2, <2>3, PortSteps DEF PortStep
<1> QED BY <1>1, <1>3, <1>4 DEF StartsUp, Sent

LEMMA Stuttering ==
    ASSUME IInv, IInv', PortInv, PortInv',
           radioPoll \/ (\E addr \in Addresses : radioSetAddress(addr)) \/ Transmit \/ WaitSent
    PROVE  PortStep
<1>1. /\ pc \in {"idle", "transmit", "wait"} /\ pc' \in {"unload", "set_node", "wait", "rx"}
      /\ UNCHANGED <<given, onair, node, fifo, incoming, crc_ok>>
      /\ pc' = "rx" => sending' \in ToSend
  BY DEF radioPoll, radioSetAddress, Transmit, WaitSent, SetMode, Goto, chip, PortInv, PlaceInv
<1>2. started /\ started'
  BY <1>1, PacketTypes DEF started
<1>3. UNCHANGED PortBuffer
  BY <1>1, <1>2, SameBuffer
<1> QED BY <1>1, <1>2, <1>3, PortStays DEF IInv

LEMMA NewAddress ==
    ASSUME IInv, IInv', PortInv, PortInv', SetNode, pc = "set_node"
    PROVE  PortStep
<1>1. /\ pc' = "idle" /\ node' = address /\ address \in Addresses
      /\ UNCHANGED <<given, onair, fifo, incoming, crc_ok>>
  BY DEF SetNode, Goto, PortInv, PlaceInv
<1>2. started /\ started'
  BY <1>1 DEF started
<1>3. UNCHANGED PortBuffer
  BY <1>1, <1>2, SameBuffer
<1>4. PortAddress # -1
  BY <1>2, AddressIs DEF IInv, PortInv
<1>5. PortAddress' \in Addresses /\ UNCHANGED <<PortBusy, given, PortAir>>
  BY <1>1, <1>2 DEF PortAddress, PortBusy, PortAir
<1> QED BY <1>3, <1>4, <1>5, PortSteps DEF PortStep, Port!Next

LEMMA HandsOut ==
    ASSUME IInv, IInv', PortInv, PortInv', radioUnloadPacket
    PROVE  PortStep
<1>1. PICK pkt \in Heard : fifo = Frame(pkt) /\ given' = pkt /\ fifo' = <<>> /\ crc_ok' = FALSE
  BY UnloadedAll DEF IInv, PortInv
<1>2. /\ pc = "unload" /\ pc' = "idle" /\ crc_ok /\ UNCHANGED <<node, incoming, onair>>
  BY DEF radioUnloadPacket, Goto, PortInv, PlaceInv
<1>3. started /\ started'
  BY <1>2 DEF started
<1>4. PortBuffer = pkt /\ PortBuffer' = NoPacket /\ pkt # NoPacket
  <2>1. Decode(Frame(pkt)) = pkt /\ pkt # NoPacket
    BY Decoding, PacketsSendable
  <2>2. TakenFrom(fifo) = Frame(pkt)
    BY <1>1, HeardFirst
  <2> QED BY <1>1, <1>2, <1>3, <2>1, <2>2 DEF PortBuffer
<1>5. UNCHANGED <<PortAddress, PortBusy, PortAir>>
  BY <1>2, <1>3 DEF PortAddress, PortBusy, PortAir
<1> QED BY <1>1, <1>4, <1>5, PortSteps DEF PortStep, Port!Next

LEMMA LeavesReception ==
    ASSUME IInv, IInv', PortInv, PortInv', NEW pkt \in ToSend, SendStandby(pkt)
    PROVE  PortStep
<1>1. /\ pc = "idle" /\ pc' = "load" /\ UNCHANGED <<given, onair, node>>
      /\ \/ UNCHANGED <<fifo, incoming, crc_ok>>
         \/ fifo' = <<>> /\ incoming' = NoPacket /\ crc_ok' = FALSE
  BY DEF SendStandby, SetMode, Goto
<1>2. started /\ started'
  BY <1>1 DEF started
<1>3. CASE UNCHANGED <<fifo, incoming, crc_ok>>
  <2>1. UNCHANGED PortBuffer
    BY <1>2, <1>3, SameBuffer
  <2> QED BY <1>1, <1>2, <1>3, <2>1, PortStays DEF IInv
<1>4. CASE incoming' = NoPacket /\ crc_ok' = FALSE
  <2>1. /\ PortBusy' = FALSE /\ PortBuffer' = NoPacket
        /\ UNCHANGED <<PortAddress, given, PortAir>>
    BY <1>1, <1>2, <1>4 DEF PortAddress, PortBusy, PortBuffer, PortAir
  <2> QED BY <2>1, PortSteps DEF PortStep, Port!Next
<1> QED BY <1>1, <1>3, <1>4

LEMMA Loads ==
    ASSUME IInv, IInv', PortInv, PortInv', Load
    PROVE  PortStep
<1>1. /\ pc = "load" /\ pc' = "transmit" /\ UNCHANGED <<given, onair, node, incoming, crc_ok>>
  BY DEF Load, Goto
<1>2. started /\ started'
  BY <1>1 DEF started
<1>3. ASSUME crc_ok PROVE UNCHANGED PortBuffer
  <2>1. PICK pkt \in Heard : fifo = Frame(pkt) /\ FirstIs(pkt)'
    BY <1>3, Loaded DEF IInv, PortInv
  <2>2. TakenFrom(fifo) = Frame(pkt) /\ TakenFrom(fifo') = Frame(pkt)
    BY <2>1, HeardFirst DEF FirstIs
  <2>3. UNCHANGED TakenFrom(fifo)
    BY <2>2 DEF TakenFrom
  <2> QED BY <1>1, <1>2, <2>3 DEF PortBuffer
<1> QED BY <1>1, <1>2, <1>3, PortStays DEF IInv

LEMMA Reboots ==
    ASSUME IInv, IInv', Reboot
    PROVE  PortStep
<1>1. pc' = "early" /\ UNCHANGED <<given, onair>>
  BY DEF Reboot, Goto, chip
<1>2. ~started'
  BY <1>1 DEF started
<1>3. /\ PortAddress' = -1 /\ PortBusy' = FALSE /\ PortBuffer' = NoPacket
      /\ UNCHANGED <<given, PortAir>>
  BY <1>1, <1>2 DEF PortAddress, PortBusy, PortBuffer, PortAir
<1> QED BY <1>3, PortSteps DEF PortStep, Port!Next

LEMMA BeginsToHear ==
    ASSUME IInv, IInv', PortInv, PortInv', HearBegin
    PROVE  PortStep
<1>1. /\ mode = "rx" /\ fifo = <<>> /\ UNCHANGED <<pc, sending, given, node, crc_ok, onair>>
      /\ incoming' \in Heard
  BY DEF HearBegin, driver
<1>2. started' <=> started
  BY <1>1 DEF started
<1>3. CASE ~started
  BY <1>1, <1>2, <1>3, NotStarted DEF IInv
<1>4. CASE started
  <2>1. pc \in Listening
    BY <1>1, <1>4, StartedIs DEF IInv, TypeInv, ModeInv
  <2>2. ~crc_ok /\ incoming = NoPacket
    BY <1>1, <2>1, HeardFirst DEF PortInv, BufferInv, HasLength
  <2>3. incoming' # NoPacket
    BY <1>1, PacketTypes
  <2>4. /\ ~PortBusy /\ PortBuffer = NoPacket /\ PortBusy' = TRUE
        /\ UNCHANGED <<PortAddress, PortBuffer, given, PortAir>>
    BY <1>1, <1>2, <1>4, <2>2, <2>3 DEF PortAddress, PortBusy, PortBuffer, PortAir
  <2>5. PortAddress # -1
    BY <1>4, AddressIs DEF IInv, PortInv
  <2> QED BY <2>4, <2>5, PortSteps DEF PortStep, Port!Next
<1> QED BY <1>3, <1>4

\* The filter is on, so what is heard is for the node or for everybody.
LEMMA Hears ==
    ASSUME IInv, IInv', PortInv, PortInv', HearEnd
    PROVE  PortStep
<1>1. /\ mode = "rx" /\ incoming # NoPacket /\ UNCHANGED <<pc, sending, given, node, onair>>
      /\ fifo' = Frame(incoming) /\ incoming' = NoPacket /\ crc_ok' = TRUE
      /\ Filters => incoming.dst \in {node, bcast}
  BY DEF HearEnd, driver
<1>2. started' <=> started
  BY <1>1 DEF started
<1>3. CASE ~started
  BY <1>1, <1>2, <1>3, NotStarted DEF IInv
<1>4. CASE started
  <2>1. pc \in Listening
    BY <1>1, <1>4, StartedIs DEF IInv, TypeInv, ModeInv
  <2>2. incoming \in Heard
    BY <1>1, <2>1 DEF PortInv, BufferInv
  <2>3. incoming.dst \in {PortAddress, Broadcast}
    <3>1. "PacketConfig1" \in ToSet(modem_config)
      BY Tables, SMT DEF modem_config, ToSet
    <3>2. Filters /\ bcast = Broadcast
      BY <2>1, <3>1 DEF IInv, TablesInv, FilterInv, Filters
    <3> QED BY <1>1, <1>4, <3>2 DEF PortAddress
  <2>4. PortBuffer' = incoming
    <3>1. Decode(Frame(incoming)) = incoming /\ TakenFrom(Frame(incoming)) = Frame(incoming)
      BY <2>2, Decoding, PacketsSendable, HeardFirst
    <3>2. TakenFrom(fifo)' = Frame(incoming)
      BY <1>1, <3>1 DEF TakenFrom
    <3> QED BY <1>1, <1>2, <1>4, <3>1, <3>2 DEF PortBuffer
  <2>5. PortBusy /\ PortBusy' = FALSE /\ UNCHANGED <<PortAddress, given, PortAir>>
    BY <1>1, <1>2, <1>4 DEF PortAddress, PortBusy, PortAir
  <2>6. Port!Hear(incoming) /\ incoming \in Packets
    BY <2>2, <2>3, <2>4, <2>5, PortSteps, PacketsSendable
  <2> QED BY <2>6 DEF PortStep, Port!Next
<1> QED BY <1>3, <1>4

LEMMA HearsNothing ==
    ASSUME IInv, IInv', PortInv, PortInv', HearNothing
    PROVE  PortStep
<1>1. /\ mode = "rx" /\ incoming # NoPacket /\ incoming' = NoPacket
      /\ UNCHANGED <<pc, sending, given, node, crc_ok, onair>>
  BY DEF HearNothing, driver
<1>2. started' <=> started
  BY <1>1 DEF started
<1>3. CASE ~started
  BY <1>1, <1>2, <1>3, NotStarted DEF IInv
<1>4. CASE started
  <2>1. pc \in Listening
    BY <1>1, <1>4, StartedIs DEF IInv, TypeInv, ModeInv
  <2>2. ~crc_ok
    BY <1>1, <2>1 DEF PortInv, BufferInv
  <2>3. /\ PortBusy' = FALSE /\ PortBuffer' = NoPacket
        /\ UNCHANGED <<PortAddress, given, PortAir>>
    BY <1>1, <1>2, <1>4, <2>2 DEF PortAddress, PortBusy, PortBuffer, PortAir
  <2> QED BY <2>3, PortSteps DEF PortStep, Port!Next
<1> QED BY <1>3, <1>4

\* The chip sends the packet in front: the program's, or the one that came in
\* before it; of a packet that was coming in, whatever its first byte says.
LEMMA Sends ==
    ASSUME IInv, IInv', PortInv, PortInv', PacketSent
    PROVE  PortStep
<1>1. /\ mode = "tx" /\ ~sent /\ onair' = TakenFrom(fifo) /\ crc_ok' = FALSE
      /\ incoming' = NoPacket /\ UNCHANGED <<pc, sending, given, node>>
  BY DEF PacketSent, driver, TakenFrom
<1>2. pc = "wait"
  <2>1. pc \notin Listening \cup {"load", "transmit", "early"} /\ ~Sent
    BY <1>1 DEF PortInv, PlaceInv
  <2>2. pc \notin Preparing \cup {"init"} /\ ~StartsUp
    BY <1>1 DEF PortInv, BufferInv
  <2> QED BY <2>1, <2>2 DEF IInv, TypeInv, StartsUp, Sent
<1>3. started /\ started' /\ node = address /\ PortAddress = node /\ PortAddress # -1
      /\ address \in Addresses \cup {StartAddress}
  <2>1. started /\ started'
    BY <1>1, <1>2 DEF started
  <2> QED BY <1>2, <2>1, AddressIs DEF IInv, PortInv
<1>4. Outgoing \in Packets /\ Outgoing.src = PortAddress
  <2>1. sending \in ToSend
    BY <1>2 DEF PortInv, PlaceInv
  <2> QED BY <1>3, <2>1, PacketsSendable DEF Outgoing
<1>5. /\ PortBusy' = FALSE /\ PortBuffer' = NoPacket /\ UNCHANGED <<PortAddress, given>>
  BY <1>1, <1>3 DEF PortAddress, PortBusy, PortBuffer
<1>6. PortAir' = Decode(TakenFrom(fifo))
  BY <1>1 DEF PortAir
<1>7. CASE PortBusy
  <2>1. HasLength(fifo)
    BY <1>2, <1>7 DEF PortBusy, PortInv, BufferInv
  <2>2. fifo \in Strings /\ Len(fifo) \in Nat \ {0} /\ fifo[1] + 1 \in Nat \ {0}
    <3>1. fifo \in Strings /\ fifo # <<>>
      BY <2>1 DEF HasLength
    <3>2. Len(fifo) \in Nat \ {0} /\ \A i \in 1 .. Len(fifo) : fifo[i] \in Byte
      BY <3>1, StringFacts
    <3>3. fifo[1] \in Byte
      <4>1. \A n \in Nat \ {0} : 1 \in 1 .. n
        OBVIOUS
      <4> QED BY <3>2, <4>1, Zenon
    <3>4. \A b \in Byte : b + 1 \in Nat \ {0}
      BY DEF Byte
    <3> QED BY <3>1, <3>2, <3>3, <3>4, Zenon
  <2>3. TakenFrom(fifo) \in Strings /\ Len(TakenFrom(fifo)) # 0
    BY <2>2, FirstOf DEF TakenFrom
  <2>4. TakenFrom(fifo) # <<>>
    BY <2>3, StringFacts
  <2>5. PortAir' \in Packets \cup {Garbled}
    BY <1>6, <2>4, Decoding
  <2>6. Port!Send(Outgoing)
    BY <1>3, <1>4, <1>5, <1>7, <2>5, PortSteps
  <2> QED BY <1>4, <2>6 DEF PortStep, Port!Next
<1>8. CASE ~PortBusy /\ PortBuffer # NoPacket
  <2>1. TakenFrom(fifo) = Frame(PortBuffer) /\ PortBuffer \in Packets
    BY <1>8, BufferIs, PacketsSendable DEF IInv, PortInv
  <2>2. PortAir' = PortBuffer
    BY <1>6, <2>1, Decoding
  <2>3. Port!Send(Outgoing)
    BY <1>3, <1>4, <1>5, <1>8, <2>2, PortSteps
  <2> QED BY <1>4, <2>3 DEF PortStep, Port!Next
<1>9. CASE ~PortBusy /\ PortBuffer = NoPacket
  <2>1. ~crc_ok
    BY <1>3, <1>9, BufferIs, PacketTypes DEF IInv, PortInv
  <2>2. incoming = NoPacket
    BY <1>3, <1>9 DEF PortBusy
  <2>3. TakenFrom(fifo) = Frame(Outgoing)
    BY <1>1, <1>2, <2>1, <2>2 DEF PortInv, BufferInv, FirstIs
  <2>4. PortAir' = Outgoing
    BY <1>4, <1>6, <2>3, Decoding
  <2>5. Port!Send(Outgoing)
    BY <1>3, <1>4, <1>5, <1>9, <2>4, PortSteps
  <2> QED BY <1>4, <2>5 DEF PortStep, Port!Next
<1> QED BY <1>7, <1>8, <1>9

LEMMA PortKept ==
    IInv /\ IInv' /\ PortInv /\ PortInv' /\ [Next]_vars => [Port!Next]_(Port!port)
<1> SUFFICES ASSUME IInv, IInv', PortInv, PortInv', [Next]_vars PROVE PortStep
  BY DEF PortStep
<1>1. CASE Program
  BY <1>1, Stuttering, Reboots, LeavesReception DEF Program
<1>2. CASE SetNode
  <2>1. pc \in {"node", "set_node"}
    BY <1>2 DEF SetNode, Goto
  <2> QED BY <1>2, <2>1, StartingUp, NewAddress
<1>3. CASE Step /\ ~SetNode
  BY <1>3, StartingUp, Started, Stuttering, HandsOut, Loads DEF Step
<1>4. CASE Air
  BY <1>4, BeginsToHear, Hears, HearsNothing, Sends DEF Air
<1>5. CASE UNCHANGED vars
  <2>1. UNCHANGED <<pc, sending, given, node, onair, crc_ok, incoming, fifo>>
    BY <1>5 DEF vars, driver, chip
  <2>2. started' <=> started
    BY <2>1 DEF started
  <2>3. UNCHANGED PortBuffer
    BY <2>1, <2>2, SameBuffer
  <2> QED BY <2>1, <2>2, <2>3, PortStays DEF IInv
<1> QED BY <1>1, <1>2, <1>3, <1>4, <1>5 DEF Next

LEMMA PortStarts == Init => Port!Init
<1> SUFFICES ASSUME Init PROVE Port!Init
  OBVIOUS
<1>1. ~started /\ given = NoPacket /\ onair = <<>>
  BY DEF Init, started
<1>2. PortAddress = -1 /\ PortBusy = FALSE /\ PortBuffer = NoPacket /\ PortAir = NoPacket
  BY <1>1, Decoding DEF PortAddress, PortBusy, PortBuffer, PortAir
<1>3. Port!Init <=> /\ PortAddress = -1 /\ PortBusy = FALSE /\ PortBuffer = NoPacket
                    /\ given = NoPacket /\ PortAir = NoPacket
  BY Zenon DEF Port!Init, PortAddress, PortBusy, PortBuffer, PortAir, TakenFrom
<1> QED BY <1>1, <1>2, <1>3

\* The driver implements the port: a packet is handed out once and unchanged, and
\* what radioSend sends is what it was given, but for a packet that came in since
\* the last radioPoll (radioUnloadPacket, radioSend and the chip's one buffer).
THEOREM PortRefinement == Spec => ImplementsPort
<1>1. IInv => TypeInv /\ FilterInv
  BY DEF IInv
<1>2. Spec => []PlaceInv
  BY <1>1, Invariance, PortInit, PlaceStep, PTL DEF Spec, PortInv
<1>3. Spec => []BufferInv
  BY <1>1, <1>2, Invariance, PortInit, BufferStep, PTL DEF Spec, PortInv
<1>4. PlaceInv /\ BufferInv => PortInv
  BY DEF PortInv
<1> QED BY <1>2, <1>3, <1>4, Invariance, PortKept, PortStarts, PTL DEF Spec, ImplementsPort, Port!Spec
-----------------------------------------------------------------------------
(* Induction, from the least element of a set of numbers: the set stands    *)
(* for the property.                                                        *)

LEMMA LeastElement ==
    ASSUME NEW T, T \subseteq Nat, T # {}, NEW R, IsWellFoundedOn(R, Nat),
           \A m, n \in Nat : <<n, m>> \in R <=> n < m
    PROVE  \E m \in T : \A n \in T : m <= n
<1>1. PICK m \in T : \A n \in T : <<n, m>> \notin R
  BY WFMin
<1>2. ASSUME NEW n \in T PROVE m <= n
  <2>1. m \in Nat /\ n \in Nat /\ ~(n < m)
    BY <1>1
  <2> QED BY <2>1
<1> QED BY <1>2

LEMMA LeastNumber ==
    ASSUME NEW T, T \subseteq Nat, T # {}
    PROVE  \E m \in T : \A n \in T : m <= n
<1>1. IsWellFoundedOn(OpToRel(<, Nat), Nat)
  BY NatLessThanWellFounded, Zenon
<1>2. \A m, n \in Nat : <<n, m>> \in OpToRel(<, Nat) <=> n < m
  BY DEF OpToRel
<1> QED BY <1>1, <1>2, LeastElement, Zenon

LEMMA Induction ==
    ASSUME NEW S, 0 \in S, \A n \in Nat : n \in S => n + 1 \in S
    PROVE  \A n \in Nat : n \in S
<1> DEFINE T == Nat \ S
<1> SUFFICES ASSUME T # {} PROVE FALSE
  OBVIOUS
<1>1. PICK m \in T : \A n \in T : m <= n
  BY LeastNumber
<1>2. m # 0 /\ m - 1 \in Nat /\ m - 1 \notin T
  BY <1>1
<1>3. (m - 1) + 1 \in S
  BY <1>2
<1> QED BY <1>3

-----------------------------------------------------------------------------
(* The bytes on the bus.  RadioDriver reads and writes registers and the    *)
(* FIFO in one step; here is what Spi makes of that, byte by byte.          *)

Bus == INSTANCE Spi

Buses == [selected : BOOLEAN, addressed : BOOLEAN, address : Nat, write : BOOLEAN,
          regs : [1 .. 127 -> Byte], fifo : Seq(Byte), status_read : BOOLEAN, D : Byte]

\* The bus, in the midst of an exchange: is the chip selected, has it been told
\* an address, which one and what for, and what do registers and FIFO hold.
At(b, selected, told, r, f) ==
    b \in Buses /\ b.selected = selected /\ b.addressed = told /\ b.regs = r /\ b.fifo = f
Told(b, to, write, r, f) ==
    At(b, TRUE, TRUE, r, f) /\ b.address = to /\ b.write = write

LEMMA Selecting ==
    ASSUME NEW b, NEW s, NEW t, NEW r, NEW f, At(b, s, t, r, f)
    PROVE  /\ At(Bus!radio_select(b), TRUE, FALSE, r, f)
           /\ At(Bus!radio_unselect(b), FALSE, FALSE, r, f)
BY DEF Bus!radio_select, Bus!radio_unselect, At, Buses

\* Every byte is written behind a read of the status, so none is ignored.
LEMMA Ready ==
    ASSUME NEW b \in Buses, NEW byte
    PROVE  Bus!spiTransceive(b, byte)
               = [Bus!Clocked([b EXCEPT !.status_read = TRUE], byte) EXCEPT !.status_read = FALSE]
BY DEF Bus!spiTransceive, Bus!WriteD, Bus!spiReadStatus, Buses

LEMMA Rested ==
    ASSUME NEW d \in Buses, NEW b, b = [d EXCEPT !.status_read = FALSE]
    PROVE  /\ b \in Buses /\ b.selected = d.selected /\ b.addressed = d.addressed
           /\ b.address = d.address /\ b.write = d.write /\ b.regs = d.regs
           /\ b.fifo = d.fifo /\ b.D = d.D
BY DEF Buses

\* The first byte behind a selection is an address, the others are data.
Tells(byte, to, write) == to = byte % 128 /\ write = (byte >= 128)

LEMMA AddressByte ==
    ASSUME NEW b, NEW r, NEW f, At(b, TRUE, FALSE, r, f), NEW byte \in 0 .. 255,
           NEW to \in Nat, NEW write \in BOOLEAN, Tells(byte, to, write)
    PROVE  Told(Bus!spiTransceive(b, byte), to, write, r, f)
<1> DEFINE c == [b EXCEPT !.status_read = TRUE]
           d == [c EXCEPT !.addressed = TRUE, !.address = byte % 128, !.write = byte >= 128]
           e == [c EXCEPT !.addressed = TRUE, !.address = to, !.write = write]
<1>1. c \in Buses /\ c.selected = TRUE /\ c.addressed = FALSE /\ c.regs = r /\ c.fifo = f
  BY DEF At, Buses
<1> HIDE DEF c
<1>2. Bus!Clocked(c, byte) = d
  BY <1>1 DEF Bus!Clocked
<1>3. d = e
  BY Zenon DEF Tells
<1>4. Bus!spiTransceive(b, byte) = [e EXCEPT !.status_read = FALSE]
  <2> HIDE DEF d, e
  <2> QED BY <1>2, <1>3, Ready DEF At, c
<1>5. /\ e \in Buses /\ e.selected = c.selected /\ e.addressed = TRUE /\ e.regs = c.regs
      /\ e.fifo = c.fifo /\ e.address = to /\ e.write = write
  BY <1>1 DEF Buses
<1> HIDE DEF e
<1> QED BY <1>1, <1>4, <1>5, Rested DEF Told, At

LEMMA WriteRegister ==
    ASSUME NEW b, NEW to \in 1 .. 127, NEW r, NEW f, Told(b, to, TRUE, r, f), NEW byte \in Byte
    PROVE  At(Bus!spiTransceive(b, byte), TRUE, TRUE, [r EXCEPT ![to] = byte], f)
<1> DEFINE c == [b EXCEPT !.status_read = TRUE]
           d == [c EXCEPT !.regs[c.address] = byte, !.address = c.address + 1]
<1>1. c \in Buses /\ c.selected = TRUE /\ c.addressed = TRUE /\ c.regs = r /\ c.fifo = f
      /\ c.address = to /\ c.write = TRUE
  BY DEF Told, At, Buses
<1> HIDE DEF c
<1>2. Bus!Clocked(c, byte) = d
  <2>1. c.address # 0 /\ (c.write <=> TRUE) /\ (c.selected <=> TRUE) /\ (c.addressed <=> TRUE)
    BY <1>1
  <2> QED BY <2>1, Zenon DEF Bus!Clocked, Bus!RADIO_Fifo
<1>3. Bus!spiTransceive(b, byte) = [d EXCEPT !.status_read = FALSE]
  <2> HIDE DEF d
  <2> QED BY <1>2, Ready DEF Told, At, c
<1>4. d \in Buses /\ d.selected = TRUE /\ d.addressed = TRUE /\ d.regs = [r EXCEPT ![to] = byte]
      /\ d.fifo = f
  <2>1. d.regs = [c.regs EXCEPT ![c.address] = byte]
    BY <1>1 DEF Buses
  <2>2. [r EXCEPT ![to] = byte] \in [1 .. 127 -> Byte]
    BY <1>1 DEF Buses
  <2>3. d.regs = [r EXCEPT ![to] = byte]
    BY <1>1, <2>1
  <2>4. d \in Buses
    <3> DEFINE e == [c EXCEPT !.regs = [r EXCEPT ![to] = byte], !.address = to + 1]
    <3>1. d = e
      BY <1>1
    <3>2. e \in Buses
      <4> to + 1 \in Nat
        OBVIOUS
      <4> QED BY <1>1, <2>2 DEF Buses
    <3> QED BY <3>1, <3>2
  <2>5. d.selected = TRUE /\ d.addressed = TRUE /\ d.fifo = f
    BY <1>1 DEF Buses
  <2> QED BY <2>3, <2>4, <2>5
<1> HIDE DEF d
<1> QED BY <1>4, <1>3, Rested DEF At

LEMMA ReadRegister ==
    ASSUME NEW b, NEW to \in 1 .. 127, NEW r, NEW f, Told(b, to, FALSE, r, f)
    PROVE  /\ At(Bus!spiTransceive(b, 255), TRUE, TRUE, r, f)
           /\ Bus!spiTransceive(b, 255).D = r[to]
<1> DEFINE c == [b EXCEPT !.status_read = TRUE]
           d == [c EXCEPT !.D = c.regs[c.address], !.address = c.address + 1]
<1>1. c \in Buses /\ c.selected = TRUE /\ c.addressed = TRUE /\ c.regs = r /\ c.fifo = f
      /\ c.address = to /\ c.write = FALSE /\ r[to] \in Byte
  BY DEF Told, At, Buses
<1> HIDE DEF c
<1>2. Bus!Clocked(c, 255) = d
  <2>1. c.address # 0 /\ (c.write <=> FALSE) /\ (c.selected <=> TRUE) /\ (c.addressed <=> TRUE)
    BY <1>1
  <2> QED BY <2>1, Zenon DEF Bus!Clocked, Bus!RADIO_Fifo
<1>3. Bus!spiTransceive(b, 255) = [d EXCEPT !.status_read = FALSE]
  <2> HIDE DEF d
  <2> QED BY <1>2, Ready DEF Told, At, c
<1>4. d \in Buses /\ d.selected = TRUE /\ d.addressed = TRUE
      /\ d.regs = r /\ d.fifo = f /\ d.D = r[to]
  <2> DEFINE e == [c EXCEPT !.D = r[to], !.address = to + 1]
  <2>1. d = e
    BY <1>1
  <2>2. e \in Buses
    <3> to + 1 \in Nat
      OBVIOUS
    <3> QED BY <1>1 DEF Buses
  <2>3. e.selected = TRUE /\ e.addressed = TRUE /\ e.regs = r /\ e.fifo = f /\ e.D = r[to]
    BY <1>1 DEF Buses
  <2> QED BY <2>1, <2>2, <2>3
<1> HIDE DEF d
<1> QED BY <1>4, <1>3, Rested DEF At

LEMMA WriteFifo ==
    ASSUME NEW b, NEW r, NEW f, Told(b, 0, TRUE, r, f), NEW byte \in Byte
    PROVE  Told(Bus!spiTransceive(b, byte), 0, TRUE, r, Append(f, byte))
<1> DEFINE c == [b EXCEPT !.status_read = TRUE]
           d == [c EXCEPT !.fifo = Append(c.fifo, byte)]
<1>1. c \in Buses /\ c.selected = TRUE /\ c.addressed = TRUE /\ c.regs = r /\ c.fifo = f
      /\ c.address = 0 /\ c.write = TRUE
  BY DEF Told, At, Buses
<1>2. Append(f, byte) \in Seq(Byte)
  <2>1. f \in Seq(Byte)
    BY DEF Told, At, Buses
  <2> QED BY <2>1
<1> HIDE DEF c
<1>3. Bus!Clocked(c, byte) = d
  BY <1>1 DEF Bus!Clocked, Bus!RADIO_Fifo
<1>4. Bus!spiTransceive(b, byte) = [d EXCEPT !.status_read = FALSE]
  <2> HIDE DEF d
  <2> QED BY <1>3, Ready DEF Told, At, c
<1>5. d \in Buses /\ d.selected = TRUE /\ d.addressed = TRUE
      /\ d.regs = r /\ d.fifo = Append(f, byte) /\ d.address = 0 /\ d.write = TRUE
  BY <1>1, <1>2 DEF Buses
<1> HIDE DEF d
<1> QED BY <1>5, <1>4 DEF Told, At, Buses

LEMMA ReadFifo ==
    ASSUME NEW b, NEW r, NEW f, Told(b, 0, FALSE, r, f)
    PROVE  \/ f = << >> /\ Told(Bus!spiTransceive(b, 255), 0, FALSE, r, f)
           \/ /\ f # << >> /\ Told(Bus!spiTransceive(b, 255), 0, FALSE, r, Tail(f))
              /\ Bus!spiTransceive(b, 255).D = f[1]
<1> DEFINE c == [b EXCEPT !.status_read = TRUE]
           d == IF c.fifo = << >> THEN c ELSE [c EXCEPT !.D = Head(c.fifo), !.fifo = Tail(c.fifo)]
<1>1. c \in Buses /\ c.selected = TRUE /\ c.addressed = TRUE /\ c.regs = r /\ c.fifo = f
      /\ c.address = 0 /\ c.write = FALSE
  BY DEF Told, At, Buses
<1>2. f # << >> => f[1] \in Byte /\ Head(f) = f[1] /\ Tail(f) \in Seq(Byte)
  <2>1. f \in Seq(Byte)
    BY DEF Told, At, Buses
  <2> QED BY <2>1
<1> HIDE DEF c
<1>3. Bus!Clocked(c, 255) = d
  BY <1>1 DEF Bus!Clocked, Bus!RADIO_Fifo
<1>4. Bus!spiTransceive(b, 255) = [d EXCEPT !.status_read = FALSE]
  <2> HIDE DEF d
  <2> QED BY <1>3, Ready DEF Told, At, c
<1>5. CASE f = << >>
  <2>1. /\ d \in Buses /\ d.selected = TRUE /\ d.addressed = TRUE /\ d.regs = r
        /\ d.address = 0 /\ d.write = FALSE /\ d.fifo = f
    BY <1>1, <1>5 DEF Buses
  <2> HIDE DEF d
  <2>2. Told(Bus!spiTransceive(b, 255), 0, FALSE, r, f)
    BY <2>1, <1>4, Rested DEF Told, At
  <2> QED BY <1>5, <2>2
<1>6. CASE f # << >>
  <2>1. /\ d \in Buses /\ d.selected = TRUE /\ d.addressed = TRUE /\ d.regs = r
        /\ d.address = 0 /\ d.write = FALSE /\ d.fifo = Tail(f) /\ d.D = f[1]
    BY <1>1, <1>2, <1>6 DEF Buses
  <2> HIDE DEF d
  <2>2. Told(Bus!spiTransceive(b, 255), 0, FALSE, r, Tail(f))
    BY <2>1, <1>4, Rested DEF Told, At
  <2>3. Bus!spiTransceive(b, 255).D = f[1]
    BY <2>1, <1>4, Rested
  <2> QED BY <1>6, <2>2, <2>3
<1> QED BY <1>5, <1>6

LEMMA TakeFifo ==
    ASSUME NEW b, NEW r, NEW f, Told(b, 0, FALSE, r, f), f # << >>
    PROVE  /\ Told(Bus!spiTransceive(b, 255), 0, FALSE, r, Tail(f))
           /\ Bus!spiTransceive(b, 255).D = f[1]
BY ReadFifo, Zenon

\* spiSend and spiReceive go through states of the bus.
Sending(g, bus, bytes, n) ==
    g = [i \in 0 .. n |-> IF i = 0 THEN bus ELSE Bus!spiTransceive(g[i - 1], bytes[i])]
Start(bus) == [bus |-> bus, bytes |-> << >>]
After(s) == LET next == Bus!spiTransceive(s.bus, 255)
            IN  [bus |-> next, bytes |-> Append(s.bytes, next.D)]
Receiving(g, bus, n) == g = [i \in 0 .. n |-> IF i = 0 THEN Start(bus) ELSE After(g[i - 1])]

LEMMA SendStates ==
    ASSUME NEW bus, NEW bytes, Len(bytes) \in Nat
    PROVE  \E g : /\ g[0] = bus
                  /\ \A i \in 1 .. Len(bytes) : g[i] = Bus!spiTransceive(g[i - 1], bytes[i])
                  /\ Bus!spiSend(bus, bytes) = g[Len(bytes)]
<1> DEFINE S == {n \in Nat : \E g : Sending(g, bus, bytes, n)}
<1>1. 0 \in S
  <2> DEFINE g == [i \in 0 .. 0 |-> bus]
  <2>1. Sending(g, bus, bytes, 0)
    BY DEF Sending
  <2> QED BY <2>1
<1>2. ASSUME NEW n \in Nat, n \in S PROVE n + 1 \in S
  <2>1. PICK g : Sending(g, bus, bytes, n)
    BY <1>2
  <2> DEFINE h == [i \in 0 .. n + 1 |->
                       IF i <= n THEN g[i] ELSE Bus!spiTransceive(g[n], bytes[n + 1])]
             k == [i \in 0 .. n + 1 |->
                       IF i = 0 THEN bus ELSE Bus!spiTransceive(h[i - 1], bytes[i])]
  <2>2. ASSUME NEW i \in 0 .. n + 1
        PROVE  h[i] = IF i = 0 THEN bus ELSE Bus!spiTransceive(h[i - 1], bytes[i])
    <3>1. CASE i = 0
      <4>1. g[0] = bus
        BY <2>1 DEF Sending
      <4> QED BY <3>1, <4>1
    <3>2. CASE i \in 1 .. n
      <4>1. g[i] = Bus!spiTransceive(g[i - 1], bytes[i])
        BY <2>1, <3>2 DEF Sending
      <4>2. h[i - 1] = g[i - 1] /\ h[i] = g[i]
        BY <3>2
      <4> QED BY <3>2, <4>1, <4>2
    <3>3. CASE i = n + 1
      <4>1. h[i] = Bus!spiTransceive(g[n], bytes[n + 1]) /\ h[i - 1] = g[n]
        BY <3>3
      <4> QED BY <3>3, <4>1
    <3> QED BY <3>1, <3>2, <3>3
  <2>3. h = k
    BY <2>2
  <2>4. Sending(h, bus, bytes, n + 1)
    <3> HIDE DEF h
    <3> QED BY <2>3 DEF Sending
  <2> QED BY <2>4
<1>3. Len(bytes) \in S
  <2> HIDE DEF S
  <2> QED BY <1>1, <1>2, Induction
<1> DEFINE f == CHOOSE h : Sending(h, bus, bytes, Len(bytes))
<1>4. Sending(f, bus, bytes, Len(bytes))
  BY <1>3, Zenon
<1>5. Bus!spiSend(bus, bytes) = f[Len(bytes)]
  BY Zenon DEF Bus!spiSend, Sending
<1> HIDE DEF f
<1>6. f[0] = bus /\ \A i \in 1 .. Len(bytes) : f[i] = Bus!spiTransceive(f[i - 1], bytes[i])
  BY <1>4 DEF Sending
<1> QED BY <1>5, <1>6

LEMMA ReceiveStates ==
    ASSUME NEW bus, NEW count \in Nat
    PROVE  \E g : /\ g[0] = Start(bus)
                  /\ \A i \in 1 .. count : g[i] = After(g[i - 1])
                  /\ Bus!spiReceive(bus, count) = g[count]
<1> DEFINE S == {n \in Nat : \E g : Receiving(g, bus, n)}
<1>1. 0 \in S
  <2> DEFINE g == [i \in 0 .. 0 |-> Start(bus)]
  <2>1. Receiving(g, bus, 0)
    BY DEF Receiving
  <2> QED BY <2>1
<1>2. ASSUME NEW n \in Nat, n \in S PROVE n + 1 \in S
  <2>1. PICK g : Receiving(g, bus, n)
    BY <1>2
  <2> DEFINE h == [i \in 0 .. n + 1 |-> IF i <= n THEN g[i] ELSE After(g[n])]
             k == [i \in 0 .. n + 1 |-> IF i = 0 THEN Start(bus) ELSE After(h[i - 1])]
  <2>2. ASSUME NEW i \in 0 .. n + 1 PROVE h[i] = IF i = 0 THEN Start(bus) ELSE After(h[i - 1])
    <3>1. CASE i = 0
      <4>1. g[0] = Start(bus)
        BY <2>1 DEF Receiving
      <4> QED BY <3>1, <4>1
    <3>2. CASE i \in 1 .. n
      <4>1. g[i] = After(g[i - 1])
        BY <2>1, <3>2 DEF Receiving
      <4>2. h[i - 1] = g[i - 1] /\ h[i] = g[i]
        BY <3>2
      <4> QED BY <3>2, <4>1, <4>2
    <3>3. CASE i = n + 1
      <4>1. h[i] = After(g[n]) /\ h[i - 1] = g[n]
        BY <3>3
      <4> QED BY <3>3, <4>1
    <3> QED BY <3>1, <3>2, <3>3
  <2>3. h = k
    BY <2>2
  <2>4. Receiving(h, bus, n + 1)
    <3> HIDE DEF h
    <3> QED BY <2>3 DEF Receiving
  <2> QED BY <2>4
<1>3. count \in S
  <2> HIDE DEF S
  <2> QED BY <1>1, <1>2, Induction
<1> DEFINE f == CHOOSE h : Receiving(h, bus, count)
<1>4. Receiving(f, bus, count)
  BY <1>3, Zenon
<1>5. Bus!spiReceive(bus, count) = f[count]
  BY Zenon DEF Bus!spiReceive, Receiving, Start, After
<1> HIDE DEF f
<1>6. f[0] = Start(bus) /\ \A i \in 1 .. count : f[i] = After(f[i - 1])
  BY <1>4 DEF Receiving
<1> QED BY <1>5, <1>6

LEMMA Unfolded ==
    ASSUME NEW s
    PROVE  /\ After(s).bus = Bus!spiTransceive(s.bus, 255)
           /\ Start(s).bus = s /\ Start(s).bytes = << >>
BY DEF After, Start

LEMMA Followed ==
    ASSUME NEW s, NEW t, t = After(s)
    PROVE  /\ t.bus = Bus!spiTransceive(s.bus, 255)
           /\ t.bytes = Append(s.bytes, Bus!spiTransceive(s.bus, 255).D)
BY DEF After

LEMMA Addressing ==
    ASSUME NEW b, NEW s, NEW t, NEW r, NEW f, At(b, s, t, r, f), NEW to \in 0 .. 127
    PROVE  /\ Told(Bus!spiSend(Bus!radio_select(b), <<to>>), to, FALSE, r, f)
           /\ Told(Bus!spiSend(Bus!radio_select(b), <<to + 128>>), to, TRUE, r, f)
<1>1. At(Bus!radio_select(b), TRUE, FALSE, r, f)
  BY Selecting
<1>2. ASSUME NEW byte
      PROVE  Bus!spiSend(Bus!radio_select(b), <<byte>>)
                 = Bus!spiTransceive(Bus!radio_select(b), byte)
  <2>1. Len(<<byte>>) = 1 /\ <<byte>>[1] = byte
    OBVIOUS
  <2>2. PICK g : /\ g[0] = Bus!radio_select(b)
                 /\ \A i \in 1 .. 1 : g[i] = Bus!spiTransceive(g[i - 1], <<byte>>[i])
                 /\ Bus!spiSend(Bus!radio_select(b), <<byte>>) = g[1]
    BY <2>1, SendStates
  <2>3. g[1] = Bus!spiTransceive(g[0], <<byte>>[1])
    <3>1. 1 \in 1 .. 1 /\ 1 - 1 = 0
      OBVIOUS
    <3> QED BY <2>2, <3>1
  <2> QED BY <2>1, <2>2, <2>3
<1>3. /\ to \in 0 .. 255 /\ to \in Nat /\ to = to % 128 /\ FALSE = (to >= 128)
      /\ to + 128 \in 0 .. 255 /\ to = (to + 128) % 128 /\ TRUE = (to + 128 >= 128)
      /\ TRUE \in BOOLEAN /\ FALSE \in BOOLEAN
  OBVIOUS
<1>4. Told(Bus!spiTransceive(Bus!radio_select(b), to), to, FALSE, r, f)
  BY <1>1, <1>3, AddressByte, Zenon DEF Tells
<1>5. Told(Bus!spiTransceive(Bus!radio_select(b), to + 128), to, TRUE, r, f)
  BY <1>1, <1>3, AddressByte, Zenon DEF Tells
<1> QED BY <1>2, <1>4, <1>5, Zenon

\* A string, cut in two.
LEMMA Pieces ==
    ASSUME NEW f \in Seq(Byte), NEW i \in 0 .. Len(f)
    PROVE  /\ SubSeq(f, 1, 0) = << >> /\ SubSeq(f, 1, Len(f)) = f
           /\ SubSeq(f, 1, i) \in Seq(Byte) /\ SubSeq(f, i + 1, Len(f)) \in Seq(Byte)
           /\ i < Len(f) =>
                  LET rest == SubSeq(f, i + 1, Len(f))
                  IN  /\ rest # << >> /\ rest[1] = f[i + 1] /\ f[i + 1] \in Byte
                      /\ Tail(rest) = SubSeq(f, (i + 1) + 1, Len(f))
                      /\ Append(SubSeq(f, 1, i), f[i + 1]) = SubSeq(f, 1, i + 1)
<1>1. SubSeq(f, 1, 0) = << >> /\ SubSeq(f, 1, Len(f)) = f
  BY SubSeqEmpty, SubSeqFull
<1>2. SubSeq(f, 1, i) \in Seq(Byte) /\ SubSeq(f, i + 1, Len(f)) \in Seq(Byte)
  <2>1. \A k \in 1 .. Len(f) : f[k] \in Byte
    OBVIOUS
  <2>2. SubSeq(f, 1, i) \in Seq(Byte)
    BY <2>1, SubSeqProperties
  <2>3. SubSeq(f, i + 1, Len(f)) \in Seq(Byte)
    BY <2>1, SubSeqProperties
  <2> QED BY <2>2, <2>3
<1>3. ASSUME i < Len(f), NEW rest, rest = SubSeq(f, i + 1, Len(f))
      PROVE  /\ rest # << >> /\ rest[1] = f[i + 1] /\ f[i + 1] \in Byte
             /\ Tail(rest) = SubSeq(f, (i + 1) + 1, Len(f))
             /\ Append(SubSeq(f, 1, i), f[i + 1]) = SubSeq(f, 1, i + 1)
  <2>1. i + 1 \in 1 .. Len(f) /\ Len(f) \in i + 1 .. Len(f) /\ f[i + 1] \in Byte
        /\ 1 \in 1 .. Len(f) /\ i + 1 \in 1 .. Len(f)
    BY <1>3
  <2>2. Head(rest) = f[i + 1] /\ Tail(rest) = SubSeq(f, (i + 1) + 1, Len(f))
    BY <2>1, <1>3, HeadTailOfSubSeq
  <2>3. rest # << >>
    <3>1. /\ i + 1 \in Int /\ Len(f) \in Int /\ i + 1 <= Len(f) /\ Len(f) - (i + 1) + 1 > 0
          /\ \A k \in i + 1 .. Len(f) : f[k] \in Byte
      BY <1>3
    <3>2. Len(rest) = Len(f) - (i + 1) + 1
      BY <3>1, <1>3, SubSeqProperties
    <3> QED BY <3>1, <3>2
  <2>4. rest[1] = f[i + 1]
    BY <2>2, <2>3, <1>3, <1>2
  <2>5. SubSeq(f, 1, i + 1) = SubSeq(f, 1, (i + 1) - 1) \o << f[i + 1] >>
    BY <2>1, SubSeqRecursiveSecond
  <2>6. Append(SubSeq(f, 1, i), f[i + 1]) = SubSeq(f, 1, i) \o << f[i + 1] >>
    BY <2>1, <1>2, AppendIsConcat
  <2>7. (i + 1) - 1 = i
    OBVIOUS
  <2> QED BY <2>1, <2>2, <2>3, <2>4, <2>5, <2>6, <2>7
<1> QED BY <1>1, <1>2, <1>3

\* Bytes come out of the FIFO in order, ...
LEMMA Reading ==
    ASSUME NEW b, NEW r, NEW f \in Seq(Byte), Told(b, 0, FALSE, r, f), NEW n \in 0 .. Len(f)
    PROVE  LET answer == Bus!spiReceive(b, n)
           IN  /\ Told(answer.bus, 0, FALSE, r, SubSeq(f, n + 1, Len(f)))
               /\ answer.bytes = SubSeq(f, 1, n)
<1>1. n \in Nat
  OBVIOUS
<1>2. PICK g : /\ g[0] = Start(b)
               /\ \A i \in 1 .. n : g[i] = After(g[i - 1])
               /\ Bus!spiReceive(b, n) = g[n]
  BY <1>1, ReceiveStates
<1> DEFINE Good(i) == /\ Told(g[i].bus, 0, FALSE, r, SubSeq(f, i + 1, Len(f)))
                      /\ g[i].bytes = SubSeq(f, 1, i)
           S == {i \in Nat : i <= n => Good(i)}
<1>3. Good(0)
  <2>1. SubSeq(f, 0 + 1, Len(f)) = f /\ SubSeq(f, 1, 0) = << >>
    <3>1. 0 \in 0 .. Len(f) /\ 0 + 1 = 1
      OBVIOUS
    <3> QED BY <3>1, Pieces
  <2>2. g[0].bus = b /\ g[0].bytes = << >>
    BY <1>2, Unfolded
  <2> QED BY <2>1, <2>2
<1>4. ASSUME NEW i \in Nat, i + 1 <= n, Good(i) PROVE Good(i + 1)
  <2> DEFINE rest == SubSeq(f, i + 1, Len(f))
             next == Bus!spiTransceive(g[i].bus, 255)
  <2>1. i + 1 \in 1 .. n /\ (i + 1) - 1 = i /\ i \in 0 .. Len(f) /\ i < Len(f)
    BY <1>4
  <2>2. /\ rest # << >> /\ rest[1] = f[i + 1]
        /\ Tail(rest) = SubSeq(f, (i + 1) + 1, Len(f))
        /\ Append(SubSeq(f, 1, i), f[i + 1]) = SubSeq(f, 1, i + 1)
    BY <2>1, Pieces
  <2>3. g[i + 1].bus = next /\ g[i + 1].bytes = Append(g[i].bytes, next.D)
    <3>1. g[i + 1] = After(g[i])
      <4> HIDE DEF Good
      <4> QED BY <1>2, <2>1
    <3> HIDE DEF Good
    <3> QED BY <3>1, Followed
  <2>4. Told(next, 0, FALSE, r, Tail(rest)) /\ next.D = rest[1]
    <3>1. Told(g[i].bus, 0, FALSE, r, rest)
      BY <1>4
    <3>2. rest # << >>
      BY <2>2
    <3> HIDE DEF rest, Good
    <3> QED BY <3>1, <3>2, TakeFifo, Zenon
  <2>5. g[i].bytes = SubSeq(f, 1, i)
    BY <1>4
  <2> HIDE DEF next, rest
  <2> QED BY <2>2, <2>3, <2>4, <2>5
<1>5. n \in S
  <2> HIDE DEF Good
  <2>1. 0 \in S /\ \A i \in Nat : i \in S => i + 1 \in S
    BY <1>3, <1>4
  <2> HIDE DEF S
  <2> QED BY <2>1, <1>1, Induction
<1>6. Good(n)
  <2> HIDE DEF Good
  <2> QED BY <1>5, <1>1
<1> QED BY <1>2, <1>6

\* ... none when it is empty, ...
LEMMA ReadingEmpty ==
    ASSUME NEW b, NEW r, Told(b, 0, FALSE, r, << >>)
    PROVE  Told(Bus!spiReceive(b, 1).bus, 0, FALSE, r, << >>)
<1>1. PICK g : /\ g[0] = Start(b)
               /\ \A i \in 1 .. 1 : g[i] = After(g[i - 1])
               /\ Bus!spiReceive(b, 1) = g[1]
  BY ReceiveStates
<1>2. g[1] = After(Start(b))
  <2>1. 1 \in 1 .. 1 /\ 1 - 1 = 0
    OBVIOUS
  <2> QED BY <1>1, <2>1
<1>3. g[1].bus = Bus!spiTransceive(b, 255)
  <2>1. g[1].bus = Bus!spiTransceive(Start(b).bus, 255)
    BY <1>2, Followed
  <2> QED BY <2>1, Unfolded
<1>4. Told(Bus!spiTransceive(b, 255), 0, FALSE, r, << >>)
  BY ReadFifo
<1> QED BY <1>1, <1>3, <1>4, Zenon

\* ... and go in behind what is there.
LEMMA Writing ==
    ASSUME NEW b, NEW r, NEW f \in Seq(Byte), Told(b, 0, TRUE, r, f), NEW bytes \in Seq(Byte)
    PROVE  Told(Bus!spiSend(b, bytes), 0, TRUE, r, f \o bytes)
<1>1. Len(bytes) \in Nat
  OBVIOUS
<1>2. PICK g : /\ g[0] = b
               /\ \A i \in 1 .. Len(bytes) : g[i] = Bus!spiTransceive(g[i - 1], bytes[i])
               /\ Bus!spiSend(b, bytes) = g[Len(bytes)]
  BY <1>1, SendStates
<1> DEFINE Good(i) == Told(g[i], 0, TRUE, r, f \o SubSeq(bytes, 1, i))
           S == {i \in Nat : i <= Len(bytes) => Good(i)}
<1>3. Good(0)
  <2>1. f \o SubSeq(bytes, 1, 0) = f
    <3>1. 0 \in 0 .. Len(bytes)
      OBVIOUS
    <3> QED BY <3>1, Pieces, ConcatEmptySeq
  <2> QED BY <1>2, <2>1
<1>4. ASSUME NEW i \in Nat, i + 1 <= Len(bytes), Good(i) PROVE Good(i + 1)
  <2> DEFINE a == SubSeq(bytes, 1, i)
             byte == bytes[i + 1]
  <2>1. i + 1 \in 1 .. Len(bytes) /\ (i + 1) - 1 = i /\ i \in 0 .. Len(bytes) /\ i < Len(bytes)
    BY <1>4
  <2>2. g[i + 1] = Bus!spiTransceive(g[i], byte)
    <3> HIDE DEF Good
    <3> QED BY <1>2, <2>1
  <2>3. a \in Seq(Byte) /\ byte \in Byte /\ Append(a, byte) = SubSeq(bytes, 1, i + 1)
    BY <2>1, Pieces
  <2>4. Told(g[i], 0, TRUE, r, f \o a)
    BY <1>4
  <2> HIDE DEF a, byte
  <2>5. Append(f \o a, byte) = f \o Append(a, byte)
    <3>1. f \o a \in Seq(Byte) /\ <<byte>> \in Seq(Byte)
      BY <2>3, ConcatProperties
    <3>2. Append(f \o a, byte) = (f \o a) \o <<byte>> /\ Append(a, byte) = a \o <<byte>>
      BY <2>3, <3>1, AppendIsConcat
    <3>3. (f \o a) \o <<byte>> = f \o (a \o <<byte>>)
      BY <2>3, <3>1, ConcatAssociative
    <3> QED BY <3>2, <3>3
  <2>6. Told(g[i + 1], 0, TRUE, r, Append(f \o a, byte))
    BY <2>2, <2>3, <2>4, WriteFifo, Zenon
  <2> QED BY <2>3, <2>5, <2>6
<1>5. Len(bytes) \in S
  <2> HIDE DEF Good
  <2>1. 0 \in S /\ \A i \in Nat : i \in S => i + 1 \in S
    BY <1>3, <1>4
  <2> HIDE DEF S
  <2> QED BY <2>1, <1>1, Induction
<1>6. Good(Len(bytes))
  <2> HIDE DEF Good
  <2> QED BY <1>5, <1>1
<1>7. SubSeq(bytes, 1, Len(bytes)) = bytes
  BY SubSeqFull
<1> QED BY <1>2, <1>6, <1>7

LEMMA AtIdle ==
    ASSUME NEW r \in [1 .. 127 -> Byte], NEW f \in Seq(Byte)
    PROVE  At(Bus!Idle(r, f), FALSE, FALSE, r, f)
<1>1. 0 \in Byte
  BY DEF Byte
<1> QED BY <1>1 DEF Bus!Idle, At, Buses

LEMMA SetRegister ==
    ASSUME NEW b, NEW s, NEW t, NEW r, NEW f, At(b, s, t, r, f),
           NEW addr \in 1 .. 127, NEW val \in Byte
    PROVE  At(Bus!radio_set(b, addr, val), FALSE, FALSE, [r EXCEPT ![addr] = val], f)
<1> DEFINE c == Bus!radio_select(b)
           two == <<addr + 128, val>>
<1>1. PICK g : /\ g[0] = c
               /\ \A i \in 1 .. 2 : g[i] = Bus!spiTransceive(g[i - 1], two[i])
               /\ Bus!spiSend(c, two) = g[2]
  <2>1. Len(two) \in Nat
    OBVIOUS
  <2>2. Len(two) = 2
    OBVIOUS
  <2> HIDE DEF c, two
  <2>3. \E g : /\ g[0] = c
               /\ \A i \in 1 .. Len(two) : g[i] = Bus!spiTransceive(g[i - 1], two[i])
               /\ Bus!spiSend(c, two) = g[Len(two)]
    BY <2>1, SendStates
  <2> QED BY <2>2, <2>3
<1>2. two[1] = addr + 128 /\ two[2] = val
  OBVIOUS
<1> HIDE DEF two, c
<1>3. g[1] = Bus!spiTransceive(c, addr + 128) /\ g[2] = Bus!spiTransceive(g[1], val)
  <2>1. 1 \in 1 .. 2 /\ 2 \in 1 .. 2 /\ 1 - 1 = 0 /\ 2 - 1 = 1
    OBVIOUS
  <2>2. g[1] = Bus!spiTransceive(g[0], two[1])
    BY <1>1, <2>1
  <2>3. g[2] = Bus!spiTransceive(g[1], two[2])
    BY <1>1, <2>1
  <2> QED BY <1>1, <1>2, <2>2, <2>3
<1>4. Told(g[1], addr, TRUE, r, f)
  <2>1. addr + 128 \in 0 .. 255 /\ addr \in Nat /\ addr = (addr + 128) % 128
        /\ TRUE = (addr + 128 >= 128) /\ TRUE \in BOOLEAN
    OBVIOUS
  <2>2. At(c, TRUE, FALSE, r, f)
    BY Selecting DEF c
  <2> QED BY <1>3, <2>1, <2>2, AddressByte, Zenon DEF Tells
<1>5. At(g[2], TRUE, TRUE, [r EXCEPT ![addr] = val], f)
  BY <1>3, <1>4, WriteRegister, Zenon
<1>6. Bus!radio_set(b, addr, val) = Bus!radio_unselect(g[2])
  BY <1>1 DEF Bus!radio_set, c, two
<1> QED BY <1>5, <1>6, Selecting, Zenon

LEMMA GetRegister ==
    ASSUME NEW b, NEW s, NEW t, NEW r, NEW f, At(b, s, t, r, f), NEW addr \in 1 .. 127
    PROVE  LET answer == Bus!radio_get(b, addr)
           IN  answer.val = r[addr] /\ At(answer.bus, FALSE, FALSE, r, f)
<1> DEFINE c == Bus!spiSend(Bus!radio_select(b), <<addr>>)
           next == Bus!spiTransceive(c, 255)
<1>1. Told(c, addr, FALSE, r, f)
  <2>1. addr \in 0 .. 127
    OBVIOUS
  <2> QED BY <2>1, Addressing
<1> HIDE DEF c
<1>2. At(next, TRUE, TRUE, r, f) /\ next.D = r[addr]
  BY <1>1, ReadRegister
<1> HIDE DEF next
<1>3. PICK g : /\ g[0] = Start(c)
               /\ \A i \in 1 .. 1 : g[i] = After(g[i - 1])
               /\ Bus!spiReceive(c, 1) = g[1]
  BY ReceiveStates
<1>4. g[1] = After(Start(c))
  <2>1. 1 \in 1 .. 1 /\ 1 - 1 = 0
    OBVIOUS
  <2> QED BY <1>3, <2>1
<1>5. g[1].bus = next /\ g[1].bytes = Append(<<>>, next.D)
  <2>1. /\ g[1].bus = Bus!spiTransceive(Start(c).bus, 255)
        /\ g[1].bytes = Append(Start(c).bytes, Bus!spiTransceive(Start(c).bus, 255).D)
    BY <1>4, Followed
  <2>2. Start(c).bus = c /\ Start(c).bytes = << >>
    BY Unfolded
  <2> QED BY <2>1, <2>2, Zenon DEF next
<1>6. g[1].bytes[1] = r[addr]
  <2>1. \A x : Append(<<>>, x)[1] = x
    OBVIOUS
  <2> QED BY <1>2, <1>5, <2>1
<1>7. Bus!radio_get(b, addr) = [bus |-> Bus!radio_unselect(g[1].bus), val |-> g[1].bytes[1]]
  BY <1>3 DEF Bus!radio_get, c
<1>8. At(Bus!radio_unselect(g[1].bus), FALSE, FALSE, r, f)
  BY <1>2, <1>5, Selecting, Zenon
<1> DEFINE answer == Bus!radio_get(b, addr)
<1>9. answer.bus = Bus!radio_unselect(g[1].bus) /\ answer.val = g[1].bytes[1]
  BY <1>7
<1> HIDE DEF answer
<1> QED BY <1>6, <1>8, <1>9, Zenon DEF answer

\* A register that was set is read back, and nothing else has changed: for any
\* contents of the chip, register and value, radio_get (radio.c:398-406) finds what
\* radio_set (radio.c:389-396) wrote, no other register and no byte of the FIFO is
\* touched by either, and the chip is left unselected.
THEOREM RegistersReadBack ==
    ASSUME NEW r \in [1 .. 127 -> Byte], NEW f \in Seq(Byte),
           NEW addr \in 1 .. 127, NEW val \in Byte
    PROVE  LET set == Bus!radio_set(Bus!Idle(r, f), addr, val)
               get == Bus!radio_get(set, addr)
           IN  /\ get.val = val
               /\ \A bus \in {set, get.bus} :
                      bus.regs = [r EXCEPT ![addr] = val] /\ bus.fifo = f /\ ~bus.selected
<1> DEFINE set == Bus!radio_set(Bus!Idle(r, f), addr, val)
           get == Bus!radio_get(set, addr)
           r2  == [r EXCEPT ![addr] = val]
<1>1. At(set, FALSE, FALSE, r2, f)
  BY AtIdle, SetRegister
<1> HIDE DEF set
<1>2. r2[addr] = val
  OBVIOUS
<1> HIDE DEF r2
<1>3. get.val = r2[addr] /\ At(get.bus, FALSE, FALSE, r2, f)
  BY <1>1, GetRegister, Zenon
<1> HIDE DEF get
<1>4. ASSUME NEW bus \in {set, get.bus} PROVE bus.regs = r2 /\ bus.fifo = f /\ ~bus.selected
  BY <1>1, <1>3 DEF At
<1> QED BY <1>2, <1>3, <1>4, Zenon DEF set, get, r2

\* What tells a frame in the FIFO: its first byte counts the others.
Framed(s) == Len(s) \in 4 .. 255 /\ s[1] = Len(s) - 1

LEMMA Loading ==
    ASSUME NEW r \in [1 .. 127 -> Byte], NEW s \in Seq(Byte)
    PROVE  At(Bus!LoadFifo(Bus!Idle(r, << >>), s), FALSE, FALSE, r, s)
<1> DEFINE idle == Bus!Idle(r, << >>)
           c == Bus!spiSend(Bus!radio_select(idle), <<0 + 128>>)
<1>1. At(idle, FALSE, FALSE, r, << >>)
  BY AtIdle, EmptySeq
<1> HIDE DEF idle
<1>2. Told(c, 0, TRUE, r, << >>)
  <2>1. 0 \in 0 .. 127
    OBVIOUS
  <2> QED BY <1>1, <2>1, Addressing
<1> HIDE DEF c
<1>3. Told(Bus!spiSend(c, s), 0, TRUE, r, << >> \o s)
  BY <1>2, Writing, EmptySeq
<1>4. << >> \o s = s
  BY ConcatEmptySeq
<1>5. At(Bus!spiSend(c, s), TRUE, TRUE, r, s)
  BY <1>3, <1>4 DEF Told
<1>6. Bus!LoadFifo(idle, s) = Bus!radio_unselect(Bus!spiSend(c, s))
  BY Zenon DEF Bus!LoadFifo, Bus!RADIO_Fifo, c
<1> QED BY <1>5, <1>6, Selecting, Zenon DEF idle

LEMMA FrameCounts ==
    ASSUME NEW n \in 4 .. 255
    PROVE  /\ n - 4 \in 0 .. n - 4 /\ n - 4 \in Nat /\ 4 \in 0 .. n
           /\ (((n - 1) + 1) % 256) - 4 = n - 4
           /\ (IF 5 <= n THEN n - 5 + 1 ELSE 0) = n - 4 /\ n \in Int /\ 5 \in Int
           /\ \A i \in 1 .. 4 : i \in 1 .. n
           /\ 1 \in 1 .. n + 1 /\ 4 \in 1 - 1 .. n /\ n \in 4 .. n /\ 4 + 1 = 5
OBVIOUS

LEMMA PayloadCounts ==
    ASSUME NEW n \in 0 .. RADIO_FIFO_DEPTH - 4
    PROVE  n + 4 \in 4 .. 255 /\ n + 3 = (n + 4) - 1
BY DEF RADIO_FIFO_DEPTH

LEMMA FramePieces ==
    ASSUME NEW s \in Seq(Byte), Framed(s)
    PROVE  LET rest == SubSeq(s, 5, Len(s))
           IN  /\ rest \in Seq(Byte) /\ Len(rest) \in 0 .. Len(rest)
               /\ 4 \in 0 .. Len(s) /\ 4 + 1 = 5
               /\ SubSeq(rest, Len(rest) + 1, Len(rest)) = << >>
               /\ SubSeq(rest, 1, Len(rest)) = rest
               /\ SubSeq(s, 1, 4)[1] = Len(s) - 1 /\ SubSeq(s, 1, 4) \o rest = s
               /\ (((Len(s) - 1) + 1) % 256) - 4 = Len(rest)
<1> DEFINE rest == SubSeq(s, 5, Len(s))
<1>1. Len(s) \in 4 .. 255 /\ s[1] = Len(s) - 1
  BY DEF Framed
<1>2. rest \in Seq(Byte) /\ Len(rest) = Len(s) - 4
  <2>1. \A i \in 5 .. Len(s) : s[i] \in Byte
    OBVIOUS
  <2>2. 5 \in Int /\ Len(s) \in Int /\ (IF 5 <= Len(s) THEN Len(s) - 5 + 1 ELSE 0) = Len(s) - 4
    BY <1>1, FrameCounts, Zenon
  <2> QED BY <2>1, <2>2, SubSeqProperties
<1>3. SubSeq(s, 1, 4)[1] = Len(s) - 1
  <2>1. \A i \in 1 .. 4 : s[i] \in Byte
    <3>1. \A i \in 1 .. 4 : i \in 1 .. Len(s)
      BY <1>1, FrameCounts, Zenon
    <3>2. \A i \in 1 .. Len(s) : s[i] \in Byte
      OBVIOUS
    <3> QED BY <3>1, <3>2, Zenon
  <2>2. 4 \in Int /\ 1 \in Int /\ 1 \in 1 .. 4 - 1 + 1 /\ 1 + 1 - 1 = 1
    OBVIOUS
  <2>3. \A i \in 1 .. 4 - 1 + 1 : SubSeq(s, 1, 4)[i] = s[1 + i - 1]
    BY <2>1, <2>2, SubSeqProperties
  <2> QED BY <1>1, <2>2, <2>3
<1>4. SubSeq(s, 1, 4) \o rest = s
  <2>1. 1 \in 1 .. Len(s) + 1 /\ 4 \in 1 - 1 .. Len(s) /\ Len(s) \in 4 .. Len(s) /\ 4 + 1 = 5
    BY <1>1, FrameCounts, Zenon
  <2>2. SubSeq(s, 1, 4) \o SubSeq(s, 4 + 1, Len(s)) = SubSeq(s, 1, Len(s))
    BY <2>1, ConcatAdjacentSubSeq, Zenon
  <2>3. SubSeq(s, 1, Len(s)) = s
    BY SubSeqFull
  <2> QED BY <2>1, <2>2, <2>3, Zenon
<1> HIDE DEF rest
<1>5. SubSeq(rest, Len(rest) + 1, Len(rest)) = << >> /\ SubSeq(rest, 1, Len(rest)) = rest
  <2>1. Len(rest) \in Int /\ Len(rest) + 1 \in Int /\ Len(rest) < Len(rest) + 1
    BY <1>2
  <2> QED BY <2>1, <1>2, SubSeqEmpty, SubSeqFull
<1>6. /\ Len(s) - 4 \in 0 .. Len(s) - 4 /\ 4 \in 0 .. Len(s) /\ 4 + 1 = 5
      /\ (((Len(s) - 1) + 1) % 256) - 4 = Len(s) - 4
  BY <1>1, FrameCounts, Zenon
<1> QED BY <1>2, <1>3, <1>4, <1>5, <1>6, Zenon DEF rest

LEMMA Unloading ==
    ASSUME NEW r \in [1 .. 127 -> Byte], NEW s \in Seq(Byte), Framed(s)
    PROVE  LET unloaded == Bus!UnloadFifo(Bus!Idle(r, s))
           IN  unloaded.frame = s /\ At(unloaded.bus, FALSE, FALSE, r, << >>)
<1> DEFINE idle == Bus!Idle(r, s)
           c == Bus!spiSend(Bus!radio_select(idle), <<0>>)
           header == Bus!spiReceive(c, 4)
           rest == SubSeq(s, 5, Len(s))
           count == ((header.bytes[1] + 1) % 256) - 4
           payload == Bus!spiReceive(header.bus, count)
           crc == Bus!spiReceive(payload.bus, 1)
<1>1. /\ rest \in Seq(Byte) /\ Len(rest) \in 0 .. Len(rest) /\ 4 \in 0 .. Len(s) /\ 4 + 1 = 5
      /\ SubSeq(rest, Len(rest) + 1, Len(rest)) = << >> /\ SubSeq(rest, 1, Len(rest)) = rest
      /\ SubSeq(s, 1, 4)[1] = Len(s) - 1 /\ SubSeq(s, 1, 4) \o rest = s
      /\ (((Len(s) - 1) + 1) % 256) - 4 = Len(rest)
  BY FramePieces
<1>2. At(idle, FALSE, FALSE, r, s)
  BY AtIdle
<1> HIDE DEF idle
<1>3. Told(c, 0, FALSE, r, s)
  <2>1. 0 \in 0 .. 127
    OBVIOUS
  <2> QED BY <1>2, <2>1, Addressing
<1> HIDE DEF c
<1>4. Told(header.bus, 0, FALSE, r, rest) /\ header.bytes = SubSeq(s, 1, 4)
  <2>1. 4 \in 0 .. Len(s) /\ 4 + 1 = 5
    BY <1>1
  <2>2. Told(header.bus, 0, FALSE, r, SubSeq(s, 4 + 1, Len(s))) /\ header.bytes = SubSeq(s, 1, 4)
    BY <1>3, <2>1, Reading
  <2> QED BY <2>1, <2>2, Zenon
<1> HIDE DEF header
<1>5. count = Len(rest)
  <2>1. header.bytes[1] = Len(s) - 1
    BY <1>1, <1>4, Zenon
  <2> HIDE DEF rest
  <2> QED BY <1>1, <2>1, Zenon
<1> HIDE DEF rest, count
<1>6. Told(payload.bus, 0, FALSE, r, << >>) /\ payload.bytes = rest
  <2>1. rest \in Seq(Byte) /\ Len(rest) \in 0 .. Len(rest) /\ Told(header.bus, 0, FALSE, r, rest)
    BY <1>1, <1>4
  <2>2. /\ Told(payload.bus, 0, FALSE, r, SubSeq(rest, Len(rest) + 1, Len(rest)))
        /\ payload.bytes = SubSeq(rest, 1, Len(rest))
    BY <1>5, <2>1, Reading, Zenon
  <2> QED BY <1>1, <2>2, Zenon
<1> HIDE DEF payload
<1>7. At(crc.bus, TRUE, TRUE, r, << >>)
  BY <1>6, ReadingEmpty DEF Told
<1> HIDE DEF crc
<1> DEFINE unloaded == Bus!UnloadFifo(idle)
<1>8. unloaded = [bus |-> Bus!radio_unselect(crc.bus), frame |-> header.bytes \o payload.bytes]
  BY Zenon DEF Bus!UnloadFifo, Bus!RADIO_Fifo, crc, payload, count, header, c
<1> HIDE DEF unloaded
<1>9. unloaded.bus = Bus!radio_unselect(crc.bus) /\ unloaded.frame = header.bytes \o payload.bytes
  BY <1>8
<1>10. unloaded.frame = s
  BY <1>1, <1>4, <1>6, <1>9, Zenon
<1>11. At(unloaded.bus, FALSE, FALSE, r, << >>)
  BY <1>7, <1>9, Selecting, Zenon
<1> QED BY <1>10, <1>11, Zenon DEF unloaded, idle

\* Frames cross the bus: for every packet that fits, what radioSend loads into an
\* empty FIFO (radio.c:621-627) is, in the chip that receives it, what
\* radioUnloadPacket gets out (radio.c:420-439): every byte, once, in order; the
\* byte read for the checksum takes nothing, the FIFO is empty behind it, and no
\* register of either chip is touched.
THEOREM FramesCrossTheBus ==
    ASSUME NEW r \in [1 .. 127 -> Byte], NEW q \in [1 .. 127 -> Byte], NEW pkt \in Sendable
    PROVE  LET loaded   == Bus!LoadFifo(Bus!Idle(r, << >>), Frame(pkt))
               unloaded == Bus!UnloadFifo(Bus!Idle(q, loaded.fifo))
           IN  /\ loaded.regs = r /\ unloaded.bus.regs = q
               /\ unloaded.frame = Frame(pkt) /\ unloaded.bus.fifo = << >>
               /\ ~loaded.selected /\ ~unloaded.bus.selected
<1> DEFINE s == Frame(pkt)
           loaded   == Bus!LoadFifo(Bus!Idle(r, << >>), s)
           unloaded == Bus!UnloadFifo(Bus!Idle(q, loaded.fifo))
<1>1. s \in Seq(Byte) /\ Framed(s)
  <2>1. FrameOf(s, pkt) /\ Len(pkt.payload) \in 0 .. RADIO_FIFO_DEPTH - 4
    BY FrameIs
  <2> HIDE DEF s
  <2>2. s \in Seq(Byte) /\ Len(s) = Len(pkt.payload) + 4 /\ s[1] = Len(pkt.payload) + 3
    BY <2>1 DEF FrameOf, Strings
  <2>3. Len(s) \in 4 .. 255 /\ Len(pkt.payload) + 3 = Len(s) - 1
    <3> DEFINE n == Len(pkt.payload)
    <3>1. n + 4 \in 4 .. 255 /\ n + 3 = (n + 4) - 1
      BY <2>1, PayloadCounts
    <3>2. Len(s) = n + 4
      BY <2>2
    <3> HIDE DEF n
    <3>3. Len(s) \in 4 .. 255 /\ n + 3 = Len(s) - 1
      BY <3>1, <3>2
    <3> QED BY <3>3 DEF n
  <2> QED BY <2>2, <2>3, Zenon DEF Framed
<1> HIDE DEF s
<1>2. At(loaded, FALSE, FALSE, r, s)
  BY <1>1, Loading
<1> HIDE DEF loaded
<1>3. loaded.fifo = s /\ loaded.regs = r /\ ~loaded.selected
  BY <1>2 DEF At
<1>4. unloaded.frame = s /\ At(unloaded.bus, FALSE, FALSE, q, << >>)
  BY <1>1, <1>3, Unloading, Zenon
<1> HIDE DEF unloaded
<1>5. unloaded.bus.regs = q /\ unloaded.bus.fifo = << >> /\ ~unloaded.bus.selected
  BY <1>4 DEF At
<1> QED BY <1>3, <1>4, <1>5, Zenon DEF unloaded, loaded, s

-----------------------------------------------------------------------------
(* The firmware server, the largest sender.                                 *)

Server == INSTANCE FirmwareServer

\* A reader asks for all that is left, done bytes from where it began.
Request(offset, length, done) ==
    [type |-> "murmur_request", offset |-> offset + done, length |-> length - done]
ReadFrom(g, offset, length, memory, done) ==
    IF done = length \/ Server!firmware_request(Request(offset, length, done), memory)
                            = Server!NoResponse
    THEN << >>
    ELSE SubSeq(Server!firmware_request(Request(offset, length, done), memory).payload, 1,
                Server!firmware_request(Request(offset, length, done), memory).payload_size)
         \o g[done + Server!firmware_request(Request(offset, length, done), memory).payload_size]
Reads(g, offset, length, memory) ==
    g = [done \in 0 .. length |-> ReadFrom(g, offset, length, memory, done)]

LEMMA ReadsOut ==
    ASSUME NEW offset, NEW length, NEW memory
    PROVE  Server!ReadOut(offset, length, memory) = (CHOOSE g : Reads(g, offset, length, memory))[0]
BY Zenon DEF Server!ReadOut, Reads, ReadFrom, Request

\* What memory holds from an offset on, if it holds bytes there.
Readable(memory, offset, length) == \A i \in 1 .. length : memory[offset + i - 1] \in Byte
Piece(memory, offset, length) == [i \in 1 .. length |-> memory[offset + i - 1]]
Padded(memory, offset, n) == [i \in 1 .. 32 |-> IF i <= n THEN memory[offset + i - 1] ELSE 0]
Chunk(left) == IF left > 32 THEN 32 ELSE left

LEMMA Answered ==
    ASSUME NEW offset \in Nat, NEW length \in Nat, NEW done \in 0 .. length, NEW memory
    PROVE  LET answer == Server!firmware_request(Request(offset, length, done), memory)
           IN  /\ (offset + done) % 4 # 0 => answer = Server!NoResponse
               /\ (offset + done) % 4 = 0 =>
                      /\ answer # Server!NoResponse
                      /\ answer.payload_size = Chunk(length - done)
                      /\ answer.payload = Padded(memory, offset + done, Chunk(length - done))
<1> DEFINE req == Request(offset, length, done)
           n == Chunk(length - done)
           payload == [i \in 1 .. 32 |-> IF i <= n THEN memory[offset + done + i - 1] ELSE 0]
           response == [type |-> "murmur_response", offset |-> offset + done,
                        payload_size |-> n, payload |-> payload]
<1>1. req.type = "murmur_request" /\ req.offset = offset + done /\ req.length = length - done
  BY DEF Request
<1> HIDE DEF req
<1>2. (offset + done) % 4 # 0 => Server!firmware_request(req, memory) = Server!NoResponse
  BY <1>1 DEF Server!firmware_request
<1>3. (offset + done) % 4 = 0 => Server!firmware_request(req, memory) = response
  BY <1>1, Zenon DEF Server!firmware_request, Server!PayloadSize, Chunk
<1> HIDE DEF payload, n
<1>4. response # Server!NoResponse /\ response.payload_size = n /\ response.payload = payload
  <2>1. response.type # Server!NoResponse.type
    BY DEF Server!NoResponse
  <2>2. response.payload_size = n /\ response.payload = payload
    OBVIOUS
  <2> QED BY <2>1, <2>2
<1> HIDE DEF response
<1> QED BY <1>2, <1>3, <1>4, Zenon DEF req, n, payload, Padded

LEMMA ChunkCounts ==
    ASSUME NEW left \in Nat, left # 0
    PROVE  /\ Chunk(left) \in 1 .. 32 /\ Chunk(left) <= left
           /\ (Chunk(left) = left \/ Chunk(left) = 32)
BY DEF Chunk

LEMMA PieceIs ==
    ASSUME NEW offset \in Nat, NEW k \in Nat, NEW memory, Readable(memory, offset, k)
    PROVE  /\ Piece(memory, offset, k) \in Seq(Byte) /\ Len(Piece(memory, offset, k)) = k
           /\ \A i \in 1 .. k : Piece(memory, offset, k)[i] = memory[offset + i - 1]
BY DEF Piece, Readable

LEMMA Joined ==
    ASSUME NEW offset \in Nat, NEW left \in Nat, left # 0, NEW memory,
           Readable(memory, offset, left)
    PROVE  SubSeq(Padded(memory, offset, Chunk(left)), 1, Chunk(left))
               \o Piece(memory, offset + Chunk(left), left - Chunk(left))
               = Piece(memory, offset, left)
<1> DEFINE n == Chunk(left)
           payload == Padded(memory, offset, n)
           a == SubSeq(payload, 1, n)
           b == Piece(memory, offset + n, left - n)
           c == Piece(memory, offset, left)
<1>1. n \in 1 .. 32 /\ n <= left
  BY ChunkCounts
<1> HIDE DEF n
<1>2. \A i \in 1 .. n : payload[i] = memory[offset + i - 1] /\ payload[i] \in Byte
  <2>1. \A i \in 1 .. n : memory[offset + i - 1] \in Byte
    BY <1>1 DEF Readable
  <2> QED BY <1>1, <2>1 DEF n, Padded
<1> HIDE DEF payload
<1>3. a \in Seq(Byte) /\ Len(a) = n /\ \A i \in 1 .. n : a[i] = memory[offset + i - 1]
  <2>1. /\ a \in Seq(Byte) /\ Len(a) = (IF 1 <= n THEN n - 1 + 1 ELSE 0)
        /\ \A i \in 1 .. n - 1 + 1 : a[i] = payload[1 + i - 1]
    BY <1>1, <1>2, SubSeqProperties
  <2>2. n - 1 + 1 = n /\ 1 <= n /\ \A i \in 1 .. n : 1 + i - 1 = i
    BY <1>1
  <2> HIDE DEF a
  <2> QED BY <1>2, <2>1, <2>2
<1>4. b \in Seq(Byte) /\ Len(b) = left - n
      /\ \A i \in 1 .. left - n : b[i] = memory[offset + n + i - 1]
  <2>1. \A i \in 1 .. left - n : memory[offset + n + i - 1] \in Byte
    <3>1. ASSUME NEW i \in 1 .. left - n
          PROVE  n + i \in 1 .. left /\ offset + n + i - 1 = offset + (n + i) - 1
      BY <1>1
    <3> QED BY <3>1 DEF Readable
  <2>2. left - n \in Nat /\ offset + n \in Nat
    BY <1>1
  <2> DEFINE o == offset + n
             k == left - n
  <2>3. o \in Nat /\ k \in Nat
    BY <2>2
  <2>4. Readable(memory, o, k)
    BY <2>1 DEF Readable
  <2> HIDE DEF o, k, b
  <2>5. b = Piece(memory, o, k)
    BY DEF b, o, k
  <2>6. /\ Piece(memory, o, k) \in Seq(Byte) /\ Len(Piece(memory, o, k)) = k
        /\ \A i \in 1 .. k : Piece(memory, o, k)[i] = memory[o + i - 1]
    BY <2>3, <2>4, PieceIs
  <2> QED BY <2>5, <2>6, Zenon DEF o, k
<1>5. c \in Seq(Byte) /\ Len(c) = left /\ \A i \in 1 .. left : c[i] = memory[offset + i - 1]
  BY PieceIs
<1> HIDE DEF a, b, c
<1>6. /\ a \o b \in Seq(Byte) /\ Len(a \o b) = Len(a) + Len(b)
      /\ \A i \in 1 .. Len(a) + Len(b) : (a \o b)[i] = IF i <= Len(a) THEN a[i] ELSE b[i - Len(a)]
  BY <1>3, <1>4, ConcatProperties
<1>7. Len(a) + Len(b) = left
  BY <1>1, <1>3, <1>4
<1>8. \A i \in 1 .. left : (a \o b)[i] = c[i]
  <2> SUFFICES ASSUME NEW i \in 1 .. left PROVE (a \o b)[i] = c[i]
    OBVIOUS
  <2>1. CASE i <= n
    <3>1. i \in 1 .. n
      BY <1>1, <2>1
    <3>2. (a \o b)[i] = a[i]
      BY <1>3, <1>6, <1>7, <2>1, <1>1
    <3>3. a[i] = memory[offset + i - 1]
      BY <1>3, <3>1, Zenon
    <3>4. c[i] = memory[offset + i - 1]
      BY <1>5, Zenon
    <3> QED BY <3>2, <3>3, <3>4, Zenon
  <2>2. CASE i > n
    <3>1. i - n \in 1 .. left - n /\ offset + n + (i - n) - 1 = offset + i - 1
      BY <1>1, <2>2
    <3>2. (a \o b)[i] = b[i - n]
      BY <1>3, <1>6, <1>7, <2>2, <1>1
    <3>3. b[i - n] = memory[offset + n + (i - n) - 1]
      BY <1>4, <3>1, Zenon
    <3>4. c[i] = memory[offset + i - 1]
      BY <1>5, Zenon
    <3> QED BY <3>1, <3>2, <3>3, <3>4, Zenon
  <2>3. i <= n \/ i > n
    BY <1>1
  <2> QED BY <2>1, <2>2, <2>3, Zenon
<1>9. a \o b = c
  BY <1>5, <1>6, <1>7, <1>8, SeqEqual
<1> QED BY <1>9, Zenon DEF a, b, c, n, payload

\* Memory is read out complete and in order: a reader that starts at an aligned
\* offset, asks for all it still wants and goes on where the answer ends gets what
\* memory holds, whatever the length: firmware_request (firmware-server.c:23-56)
\* cuts an answer to 32 bytes, a multiple of the 4 an offset must be, so no answer
\* leads to an offset that gets none.
THEOREM MemoryReadsOut ==
    ASSUME NEW offset \in Nat, offset % 4 = 0, NEW length \in Nat, NEW memory,
           Readable(memory, offset, length)
    PROVE  Server!ReadOut(offset, length, memory) = [i \in 1 .. length |-> memory[offset + i - 1]]
<1> DEFINE aligned(done) == (offset + done) % 4 = 0
           Read(done) == IF aligned(done) THEN Piece(memory, offset + done, length - done)
                         ELSE << >>
           g == [done \in 0 .. length |-> Read(done)]
<1>1. ASSUME NEW h, NEW done \in 0 .. length
      PROVE  LET read == ReadFrom(h, offset, length, memory, done)
             IN  /\ done = length \/ ~aligned(done) => read = << >>
                 /\ done # length /\ aligned(done) =>
                        read = SubSeq(Padded(memory, offset + done, Chunk(length - done)), 1,
                                      Chunk(length - done))
                               \o h[done + Chunk(length - done)]
  <2> DEFINE answer == Server!firmware_request(Request(offset, length, done), memory)
             read   == ReadFrom(h, offset, length, memory, done)
  <2>1. /\ ~aligned(done) => answer = Server!NoResponse
        /\ aligned(done) =>
               /\ answer # Server!NoResponse
               /\ answer.payload_size = Chunk(length - done)
               /\ answer.payload = Padded(memory, offset + done, Chunk(length - done))
    BY Answered, Zenon
  <2>2. read = IF done = length \/ answer = Server!NoResponse THEN << >>
               ELSE SubSeq(answer.payload, 1, answer.payload_size) \o h[done + answer.payload_size]
    BY Zenon DEF ReadFrom
  <2> HIDE DEF answer, aligned, read
  <2>3. CASE done = length \/ ~aligned(done)
    BY <2>1, <2>2, <2>3, Zenon DEF read
  <2>4. CASE done # length /\ aligned(done)
    <3>1. read = SubSeq(answer.payload, 1, answer.payload_size) \o h[done + answer.payload_size]
      BY <2>1, <2>2, <2>4, Zenon
    <3>2. /\ answer.payload_size = Chunk(length - done)
          /\ answer.payload = Padded(memory, offset + done, Chunk(length - done))
      BY <2>1, <2>4, Zenon
    <3> QED BY <2>4, <3>1, <3>2 DEF read
  <2> QED BY <2>3, <2>4, Zenon
<1>2. ASSUME NEW done \in 0 .. length, done # length, aligned(done)
      PROVE  /\ done + Chunk(length - done) \in done + 1 .. length
             /\ g[done] = SubSeq(Padded(memory, offset + done, Chunk(length - done)), 1,
                                 Chunk(length - done))
                          \o g[done + Chunk(length - done)]
  <2> DEFINE left == length - done
             n    == Chunk(left)
             next == done + n
  <2>1. left \in Nat /\ left # 0 /\ offset + done \in Nat
    BY <1>2
  <2>2. n \in 1 .. 32 /\ n <= left /\ (n = left \/ n = 32)
    BY <2>1, ChunkCounts
  <2> HIDE DEF n
  <2>3. next \in done + 1 .. length /\ next \in 0 .. length
    BY <2>2
  <2>4. SubSeq(Padded(memory, offset + done, n), 1, n) \o Piece(memory, offset + done + n, left - n)
            = Piece(memory, offset + done, left)
    <3>1. Readable(memory, offset + done, left)
      <4>1. ASSUME NEW i \in 1 .. left
            PROVE  done + i \in 1 .. length /\ offset + (done + i) - 1 = offset + done + i - 1
        BY <2>1
      <4> QED BY <4>1 DEF Readable
    <3> QED BY <2>1, <3>1, Joined DEF n
  <2>5. g[next] = Piece(memory, offset + done + n, left - n)
    <3>1. offset + next = offset + done + n /\ length - next = left - n
      BY <2>2
    <3>2. g[next] = Read(next)
      BY <2>3
    <3>3. CASE aligned(next)
      BY <3>1, <3>2, <3>3
    <3>4. CASE ~aligned(next)
      <4>1. n = left
        <5>1. n # 32
          BY <1>2, <3>1, <3>4
        <5> QED BY <2>2, <5>1
      <4>2. left - n = 0
        BY <2>1, <4>1
      <4>3. Piece(memory, offset + done + n, left - n) = << >>
        BY <4>2 DEF Piece
      <4>4. g[next] = << >>
        BY <3>2, <3>4
      <4> QED BY <4>3, <4>4
    <3> QED BY <3>3, <3>4
  <2>6. g[done] = Piece(memory, offset + done, left)
    BY <1>2
  <2> HIDE DEF g
  <2> QED BY <2>3, <2>4, <2>5, <2>6, Zenon DEF n
<1> DEFINE next(done) == done + Chunk(length - done)
           First32(done) == SubSeq(Padded(memory, offset + done, Chunk(length - done)), 1,
                                  Chunk(length - done))
<1>3. \A done \in 0 .. length : done = length \/ ~aligned(done) => g[done] = << >>
  <2> SUFFICES ASSUME NEW done \in 0 .. length, done = length \/ ~aligned(done)
               PROVE  g[done] = << >>
    OBVIOUS
  <2>1. CASE done = length
    <3>1. Piece(memory, offset + done, length - done) = << >>
      BY <2>1 DEF Piece
    <3> QED BY <3>1
  <2>2. CASE ~aligned(done)
    BY <2>2
  <2> QED BY <2>1, <2>2
<1>4. g = [done \in 0 .. length |-> g[done]]
  OBVIOUS
<1> HIDE DEF g
<1>5. Reads(g, offset, length, memory)
  <2>1. ASSUME NEW done \in 0 .. length PROVE g[done] = ReadFrom(g, offset, length, memory, done)
    <3>1. CASE done = length \/ ~aligned(done)
      BY <1>1, <1>3, <3>1, Zenon
    <3>2. CASE done # length /\ aligned(done)
      BY <1>1, <1>2, <3>2, Zenon
    <3> QED BY <3>1, <3>2
  <2>2. [done \in 0 .. length |-> g[done]]
            = [done \in 0 .. length |-> ReadFrom(g, offset, length, memory, done)]
    BY <2>1
  <2> QED BY <1>4, <2>2, Zenon DEF Reads
<1>6. ASSUME NEW h, Reads(h, offset, length, memory) PROVE h[0] = g[0]
  <2>1. \A done \in 0 .. length : h[done] = ReadFrom(h, offset, length, memory, done)
    BY <1>6 DEF Reads
  <2> DEFINE S == {k \in Nat : \A done \in 0 .. length : length - done <= k => h[done] = g[done]}
  <2>2. 0 \in S
    <3>1. ASSUME NEW done \in 0 .. length, length - done <= 0 PROVE h[done] = g[done]
      <4>1. done = length
        BY <3>1
      <4>2. h[done] = << >> /\ g[done] = << >>
        BY <1>1, <1>3, <2>1, <4>1, Zenon
      <4> QED BY <4>2
    <3> QED BY <3>1
  <2>3. ASSUME NEW k \in Nat, k \in S PROVE k + 1 \in S
    <3>1. ASSUME NEW done \in 0 .. length, length - done <= k + 1 PROVE h[done] = g[done]
      <4>1. CASE done = length \/ ~aligned(done)
        <5>1. h[done] = << >> /\ g[done] = << >>
          BY <1>1, <1>3, <2>1, <4>1, Zenon
        <5> QED BY <5>1
      <4>2. CASE done # length /\ aligned(done)
        <5>1. /\ next(done) \in done + 1 .. length
              /\ g[done] = First32(done) \o g[next(done)]
          BY <1>2, <4>2
        <5>2. h[done] = First32(done) \o h[next(done)]
          BY <1>1, <2>1, <4>2, Zenon
        <5>3. next(done) \in 0 .. length /\ length - next(done) <= k
          <6> HIDE DEF next
          <6> QED BY <3>1, <5>1
        <5>4. h[next(done)] = g[next(done)]
          <6> HIDE DEF next
          <6> QED BY <2>3, <5>3
        <5> QED BY <5>1, <5>2, <5>4, Zenon
      <4> QED BY <4>1, <4>2
    <3> QED BY <3>1
  <2>4. length \in S
    <3> HIDE DEF S
    <3> QED BY <2>2, <2>3, Induction
  <2>5. 0 \in 0 .. length /\ length - 0 <= length
    OBVIOUS
  <2> QED BY <2>4, <2>5
<1>7. Server!ReadOut(offset, length, memory) = g[0]
  <2> DEFINE f == CHOOSE h : Reads(h, offset, length, memory)
  <2>1. Reads(f, offset, length, memory)
    BY <1>5, Zenon
  <2>2. Server!ReadOut(offset, length, memory) = f[0]
    BY ReadsOut, Zenon
  <2> HIDE DEF f
  <2> QED BY <1>6, <2>1, <2>2, Zenon
<1>8. g[0] = [i \in 1 .. length |-> memory[offset + i - 1]]
  <2>1. 0 \in 0 .. length /\ (offset + 0) % 4 = 0 /\ offset + 0 = offset /\ length - 0 = length
    OBVIOUS
  <2> QED BY <2>1 DEF g, Piece
<1> QED BY <1>7, <1>8
=============================================================================
