----------------------------- MODULE LineWriter -----------------------------
(***************************************************************************)
(* usbPhyWriteI (src/grainuum/grainuum-phy-ll.S): puts a packet on the     *)
(* line.  The code sends inverted bits: a 1 is a change of the symbol, and *)
(* six zeros in the low bits of wstuff call for a stuffed change.  Every   *)
(* action is one bit time of 32 cycles.  K is D+ low and D- high, J the    *)
(* reverse, as in the code's header and end of packet.                     *)
(***************************************************************************)
EXTENDS Integers, Sequences

CONSTANT Packets \* what there is to send: sequences of bits, whole bytes

ASSUME PacketsAssumption ==
    \A p \in Packets : p \in Seq({0, 1}) /\ Len(p) > 0 /\ Len(p) % 8 = 0

VARIABLES packet,   \* the buffer
          wpc,      \* where the writer is
          whead,    \* header symbols sent
          wbytes,   \* bytes loaded into wpkt
          wleft,    \* bits of wpkt left
          wstuff,   \* the last six inverted bits, the newest first
          wlastsym, \* low bit of the last symbol: 0 = J, 1 = K
          line      \* the symbol on the line

writerVars == <<packet, wpc, whead, wbytes, wleft, wstuff, wlastsym, line>>

\* The symbols sent before the packet.
Header == <<"K", "J", "K", "J", "K", "J", "K", "K">>

Symbol(sym) == IF sym = 1 THEN "K" ELSE "J"
Shift(bits, b) == [i \in 1 .. 6 |-> IF i = 1 THEN b ELSE bits[i - 1]]
RunOfSix(bits, b) == \A i \in 1 .. 6 : bits[i] = b

\* The first byte is loaded before the header; the header's KK counts as a run
\* of two (0b111100).
WriterInit == /\ packet \in Packets
              /\ wpc = "header" /\ whead = 0
              /\ wbytes = 1 /\ wleft = 8
              /\ wstuff = <<0, 0, 1, 1, 1, 1>> /\ wlastsym = 1
              /\ line = "J"

WriteHeader == /\ wpc = "header"
               /\ line' = Header[whead + 1] /\ whead' = whead + 1
               /\ wpc' = IF whead + 1 = Len(Header) THEN "bit" ELSE "header"
               /\ UNCHANGED <<packet, wbytes, wleft, wstuff, wlastsym>>

\* The bit of wpkt that is shifted out next, inverted.
InvertedBit == 1 - packet[8 * wbytes - wleft + 1]

\* What follows a bit: the rest of the byte, the next byte, or the end.
LastByte == wbytes = Len(packet) \div 8

\* Mutant: the end of the packet is not looked at for a stuffed bit.
NextBitNoEofStuff(stuff) ==
    \/ /\ wleft > 1
       /\ wleft' = wleft - 1 /\ wbytes' = wbytes
       /\ wpc' = IF RunOfSix(stuff, 0) THEN "stuff" ELSE "bit"
    \/ /\ wleft = 1 /\ ~LastByte
       /\ wleft' = 8 /\ wbytes' = wbytes + 1
       /\ wpc' = IF RunOfSix(stuff, 0) THEN "stuff" ELSE "bit"
    \/ /\ wleft = 1 /\ LastByte
       /\ wleft' = 0 /\ wbytes' = wbytes
       /\ wpc' = "se0"

\* The number of bits left decides; a run of six zeros is looked for on every way.
NextBit(stuff) ==
    \/ /\ wleft > 1
       /\ wleft' = wleft - 1 /\ wbytes' = wbytes
       /\ wpc' = IF RunOfSix(stuff, 0) THEN "stuff" ELSE "bit"
    \/ /\ wleft = 1 /\ ~LastByte
       /\ wleft' = 8 /\ wbytes' = wbytes + 1
       /\ wpc' = IF RunOfSix(stuff, 0) THEN "stuff" ELSE "bit"
    \/ /\ wleft = 1 /\ LastByte
       /\ wleft' = 0 /\ wbytes' = wbytes
       /\ wpc' = IF RunOfSix(stuff, 0) THEN "eof_stuff" ELSE "se0"

WriteBit == /\ wpc = "bit"
            /\ wstuff' = Shift(wstuff, InvertedBit)
            /\ wlastsym' = (wlastsym + InvertedBit) % 2
            /\ line' = Symbol(wlastsym')
            /\ NextBit(wstuff')
            /\ UNCHANGED <<packet, whead>>

\* wstuff = 0b111111; the symbol is inverted.
InvertSymbol == /\ wstuff' = <<1, 1, 1, 1, 1, 1>>
                /\ wlastsym' = (wlastsym + 1) % 2
                /\ line' = Symbol(wlastsym')
                /\ UNCHANGED <<packet, whead, wbytes, wleft>>

WriteStuffBit == wpc = "stuff" /\ wpc' = "bit" /\ InvertSymbol

WriteEofStuffBit == wpc = "eof_stuff" /\ wpc' = "se0" /\ InvertSymbol

WriteSe0 == /\ \/ wpc = "se0" /\ wpc' = "se0_again"
               \/ wpc = "se0_again" /\ wpc' = "rest"
            /\ line' = "SE0"
            /\ UNCHANGED <<packet, whead, wbytes, wleft, wstuff, wlastsym>>

\* The lines are driven to J and given back.
WriteRest == /\ wpc = "rest" /\ wpc' = "idle" /\ line' = "J"
             /\ UNCHANGED <<packet, whead, wbytes, wleft, wstuff, wlastsym>>

WriterStep == \/ WriteHeader \/ WriteBit \/ WriteStuffBit \/ WriteEofStuffBit
              \/ WriteSe0 \/ WriteRest
=============================================================================
