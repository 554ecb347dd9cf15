--------------------------------- MODULE Spi ---------------------------------
(***************************************************************************)
(* The bus between the processor and the radio, byte by byte (src/src/     *)
(* spi.c, and the lowest layer of src/src/radio.c): what RadioDriver has   *)
(* as one step.  The registers of the SPI port and the chip at the other   *)
(* end are external.                                                       *)
(***************************************************************************)
EXTENDS Integers, Sequences

\* The registers of TransceiverReg.h that the driver uses, the FIFO (0) aside.
RegisterAddress ==
    [OpMode |-> \h01, DataModul |-> \h02, BitrateMsb |-> \h03, BitrateLsb |-> \h04,
     FdevMsb |-> \h05, FdevLsb |-> \h06, FrfMsb |-> \h07, FrfMid |-> \h08, FrfLsb |-> \h09,
     PaLevel |-> \h11, PaRamp |-> \h12, Ocp |-> \h13, Lna |-> \h18, RxBw |-> \h19,
     AfcBw |-> \h1A, DioMapping1 |-> \h25, DioMapping2 |-> \h26, IrqFlags2 |-> \h28,
     RssiThresh |-> \h29, RxTimeout1 |-> \h2A, RxTimeout2 |-> \h2B, PreambleMsb |-> \h2C,
     PreambleLsb |-> \h2D, SyncConfig |-> \h2E, SyncValue1 |-> \h2F, SyncValue2 |-> \h30,
     PacketConfig1 |-> \h37, PayloadLength |-> \h38, NodeAddress |-> \h39,
     BroadcastAddress |-> \h3A, FifoThresh |-> \h3C, PacketConfig2 |-> \h3D,
     AesKey1 |-> \h3E, AesKey2 |-> \h3F, AesKey3 |-> \h40, AesKey4 |-> \h41,
     AesKey5 |-> \h42, AesKey6 |-> \h43, AesKey7 |-> \h44, AesKey8 |-> \h45,
     AesKey9 |-> \h46, AesKey10 |-> \h47, AesKey11 |-> \h48, AesKey12 |-> \h49,
     AesKey13 |-> \h4A, AesKey14 |-> \h4B, AesKey15 |-> \h4C, AesKey16 |-> \h4D,
     Temp1 |-> \h4E, TestLna |-> \h58, TestDagc |-> \h6F]
RADIO_Fifo == 0
----------------------------------------------------------------------------
(***************************************************************************)
(* The chip: the first byte after it is selected is an address, with the   *)
(* top bit for a write; the next register follows by itself, but the FIFO  *)
(* stays.                                                                  *)
(***************************************************************************)
\* The bus at rest, with these contents of the registers and of the FIFO.
Idle(regs, fifo) == [selected |-> FALSE, addressed |-> FALSE, address |-> 0, write |-> FALSE,
                     regs |-> regs, fifo |-> fifo, status_read |-> FALSE, D |-> 0]

\* A byte is clocked out to the chip while one comes in from it.
Clocked(bus, byte) ==
    LET next == IF bus.address = RADIO_Fifo THEN RADIO_Fifo ELSE bus.address + 1
    IN CASE ~bus.selected -> [bus EXCEPT !.D = 255]
         [] bus.selected /\ ~bus.addressed ->
                [bus EXCEPT !.addressed = TRUE, !.address = byte % 128, !.write = byte >= 128]
         [] bus.addressed /\ bus.write /\ bus.address = RADIO_Fifo ->
                [bus EXCEPT !.fifo = Append(@, byte)]
         [] bus.addressed /\ bus.write /\ bus.address # RADIO_Fifo ->
                [bus EXCEPT !.regs[bus.address] = byte, !.address = next]
         [] bus.addressed /\ ~bus.write /\ bus.address = RADIO_Fifo ->
                IF bus.fifo = << >> THEN bus
                ELSE [bus EXCEPT !.D = Head(bus.fifo), !.fifo = Tail(@)]
         [] bus.addressed /\ ~bus.write /\ bus.address # RADIO_Fifo ->
                [bus EXCEPT !.D = bus.regs[bus.address], !.address = next]

\* The SPI port ignores a byte that is written before its status has been read.
WriteD(bus, byte) ==
    IF bus.status_read THEN [Clocked(bus, byte) EXCEPT !.status_read = FALSE] ELSE bus
----------------------------------------------------------------------------
(***************************************************************************)
(* The driver.                                                             *)
(***************************************************************************)
radio_select(bus)   == [bus EXCEPT !.selected = TRUE, !.addressed = FALSE]
radio_unselect(bus) == [bus EXCEPT !.selected = FALSE, !.addressed = FALSE]
spiReadStatus(bus)  == [bus EXCEPT !.status_read = TRUE]

\* The answer is in D.
spiTransceive(bus, byte) == WriteD(spiReadStatus(bus), byte)

spiSend(bus, bytes) ==
    LET after[i \in 0 .. Len(bytes)] ==
            IF i = 0 THEN bus ELSE spiTransceive(after[i - 1], bytes[i])
    IN after[Len(bytes)]

\* The bus and the bytes received.
spiReceive(bus, count) ==
    LET after[i \in 0 .. count] ==
            IF i = 0 THEN [bus |-> bus, bytes |-> << >>]
            ELSE LET before == after[i - 1]
                     next   == spiTransceive(before.bus, 255)
                 IN [bus |-> next, bytes |-> Append(before.bytes, next.D)]
    IN after[count]

radio_set(bus, addr, val) == radio_unselect(spiSend(radio_select(bus), <<addr + 128, val>>))

radio_get(bus, addr) ==
    LET answer == spiReceive(spiSend(radio_select(bus), <<addr>>), 1)
    IN [bus |-> radio_unselect(answer.bus), val |-> answer.bytes[1]]

\* radioSend's part: the header and the payload into the FIFO.
LoadFifo(bus, frame) ==
    radio_unselect(spiSend(spiSend(radio_select(bus), <<RADIO_Fifo + 128>>), frame))

\* radioUnloadPacket's: the header, what its length says is left, and a byte for the CRC.
UnloadFifo(bus) ==
    LET header  == spiReceive(spiSend(radio_select(bus), <<RADIO_Fifo>>), 4)
        payload == spiReceive(header.bus, ((header.bytes[1] + 1) % 256) - 4)
        crc     == spiReceive(payload.bus, 1)
    IN [bus |-> radio_unselect(crc.bus), frame |-> header.bytes \o payload.bytes]
=============================================================================
