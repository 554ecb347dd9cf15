------------------------------ MODULE LineCode ------------------------------
(***************************************************************************)
(* usbPhyWriteI at one end of the line and usbPhyReadI at the other, in    *)
(* step: in each bit time of 32 cycles the writer drives a symbol and the  *)
(* reader samples it in its middle.  The reader is entered by an edge, an  *)
(* interrupt's latency later.                                              *)
(***************************************************************************)
EXTENDS LineWriter, LineReader

CONSTANT Starts \* header symbols at which the reader may be entered

VARIABLES start, \* the header symbol it was entered at, 0 elsewhere
          cut    \* the sender stopped before the end

vars == <<writerVars, readerVars, start, cut>>

Init == WriterInit /\ ReaderInit /\ start = 0 /\ cut = FALSE

\* The line after the packet: at rest, J.
LineIdle == wpc = "idle" /\ UNCHANGED writerVars

\* The sender of a packet is gone, and the line falls back to rest.
Stop == /\ wpc \notin {"idle", "se0", "se0_again", "rest"} /\ wpc' = "idle"
        /\ line' = "J" /\ cut' = TRUE
        /\ UNCHANGED <<packet, whead, wbytes, wleft, wstuff, wlastsym>>

Driven == \/ (WriterStep \/ LineIdle) /\ UNCHANGED cut
          \/ Stop

Enter == /\ \/ wpc = "header" /\ whead' \in Starts /\ start' = whead'
            \/ line' = "SE0" /\ start' = 0
         /\ ReadStart(line')

Sampled == \/ Enter
           \/ /\ ReadFlip(line') \/ ReadSync(line') \/ ReadBit(line') \/ Unstuff(line')
              /\ UNCHANGED start
           \/ /\ rpc \in {"off", "done"}
              /\ UNCHANGED <<readerVars, start>>

BitTime == Driven /\ Sampled

Spec == Init /\ [][BitTime]_vars /\ WF_vars(BitTime)

-----------------------------------------------------------------------------
(* Properties *)

TypeOK == /\ packet \in Packets
          /\ wpc \in {"header", "bit", "stuff", "eof_stuff", "se0", "se0_again",
                      "rest", "idle"}
          /\ whead \in 0 .. 8 /\ wbytes \in Nat /\ wleft \in 0 .. 8
          /\ wstuff \in [1 .. 6 -> {0, 1}] /\ wlastsym \in {0, 1}
          /\ line \in {"J", "K", "SE0"}
          /\ rpc \in {"off", "flip", "sync", "bits", "unstuff", "done"}
          /\ rlastval \in {0, 1} /\ rtry \in 0 .. SyncTries
          /\ runstuff \in [1 .. 6 -> {0, 1}] /\ rcounter \in Nat
          /\ rsample \in Seq({0, 1}) /\ out \in Seq({0, 1}) /\ ret \in -4 .. MaxBytes
          /\ start \in 0 .. 8 /\ cut \in BOOLEAN

\* "it probably took at least 32 clock cycles to get here, meaning we've
\* already lost the first KJ" (grainuum-phy-ll.S:113)
InTime == start \in 2 .. 6

\* A packet of at most 11 bytes is read back bit for bit and with its length,
\* whatever it holds: runs of ones over byte boundaries and at the end, and
\* entered anywhere from the second to the sixth symbol of the header.  Of a
\* longer one at most its first 11 bytes are returned.
ReadsWhatWasSent ==
    rpc = "done" /\ InTime /\ ~cut =>
        IF Len(packet) <= 8 * MaxBytes
        THEN ret = Len(packet) \div 8 /\ out = packet
        ELSE \/ ret = Overflow
             \/ ret = MaxBytes /\ SubSeq(out, 1, 8 * MaxBytes)
                                    = SubSeq(packet, 1, 8 * MaxBytes)

\* Although no store is bounded, a packet of at most 11 bytes never makes the
\* reader store more than 11 (grainuum-phy-ll.S:339), also when it is entered
\* too early or too late, at any symbol of the header or in the end of packet, or
\* the sender stops and the line rests for good: byte 11 of the slot holds the
\* length, and the next slot follows.  Entries inside the data are left out.
StoresInSlot == Len(packet) <= 8 * MaxBytes => Len(out) <= 8 * MaxBytes

\* The writer's lines are USB's: with the ones it counts, and before the first
\* zero the sync pattern's one and every bit so far.
BitsWritten == 8 * wbytes - wleft
OnesWritten ==
    IF \A i \in 1 .. BitsWritten : packet[i] = 1
    THEN BitsWritten + 1
    ELSE CHOOSE n \in 0 .. 6 : /\ \A i \in 1 .. n : wstuff[i] = 0
                               /\ n < 6 => wstuff[n + 1] = 1

Usb == INSTANCE UsbLine
         WITH phase <- CASE wpc = "header" -> "sync"
                         [] wpc \in {"bit", "stuff", "eof_stuff", "se0"} -> "data"
                         [] wpc = "se0_again" -> "se0"
                         [] wpc = "rest" -> "rest"
                         [] wpc = "idle" -> "idle",
              sent <- IF whead < 8 THEN whead ELSE BitsWritten,
              ones <- OnesWritten
ImplementsUsbLine == Usb!Spec

\* The reader, which runs with interrupts disabled, comes to its end whatever
\* happens to the packet.
ReaderEnds == (rpc \notin {"off", "done"}) ~> (rpc = "done")
=============================================================================
