--------------------------- MODULE LineCodeProofs ---------------------------
(***************************************************************************)
(* For any packets: LineCode's types, that a reader that is entered in     *)
(* time reads what is sent, that the line is USB's, and that no reader     *)
(* leaves its slot.                                                        *)
(***************************************************************************)
EXTENDS LineCode, SequenceTheorems, TLAPS

WriterPlaces == {"header", "bit", "stuff", "eof_stuff", "se0", "se0_again", "rest", "idle"}
Sending == {"bit", "stuff", "eof_stuff", "se0"}

WholeBytes(p) == p \in Seq({0, 1}) /\ Len(p) > 0 /\ Len(p) % 8 = 0

\* The bits of the packet that are out are counted by wbytes and wleft.
WriterInv ==
    /\ WholeBytes(packet)
    /\ wbytes \in Nat /\ 1 <= wbytes /\ 8 * wbytes <= Len(packet)
    /\ wpc = "header" => /\ whead < 8 /\ wbytes = 1 /\ wleft = 8 /\ wlastsym = 1
                         /\ wstuff = <<0, 0, 1, 1, 1, 1>>
    /\ wpc \in {"bit", "stuff"} => wleft > 0
    /\ wpc \in {"eof_stuff", "se0"} => wleft = 0 /\ 8 * wbytes = Len(packet)

\* Nothing is read before the end of the sync pattern.
Fresh == /\ rcounter = 0 /\ out = << >> /\ rsample = << >>
         /\ runstuff = <<1, 1, 0, 0, 0, 0>>

\* Both sides' logs agree back to the last zero the reader has seen.
Agree == \E k \in 1 .. 6 : /\ \A i \in 1 .. k : runstuff[i] = 1 - wstuff[i]
                           /\ k = 6 \/ runstuff[k] = 0

\* What is read of the packet is in out and, of the byte being read, in rsample.
ReadSoFar ==
    /\ Len(out) % 8 = 0 /\ Len(rsample) < 8 /\ Len(out) + Len(rsample) = rcounter
    /\ out \o rsample = SubSeq(packet, 1, rcounter)

\* While bits are read both sides are at the same bit, the same level and the
\* same length of run.
Reading == /\ wpc \in Sending /\ (rpc = "unstuff" <=> wpc \in {"stuff", "eof_stuff"})
           /\ rlastval = 1 - wlastsym
           /\ rcounter = 8 * wbytes - wleft
           /\ Agree /\ ReadSoFar

Result == IF Len(packet) <= 8 * MaxBytes
          THEN ret = Len(packet) \div 8 /\ out = packet
          ELSE \/ ret = Overflow
               \/ ret = MaxBytes /\ SubSeq(out, 1, 8 * MaxBytes) = SubSeq(packet, 1, 8 * MaxBytes)

LockStep ==
    /\ rpc \in {"flip", "sync"} =>
           /\ wpc = "header" /\ whead \in start .. 7 /\ Fresh
           /\ rlastval = DMinus(Header[whead])
    /\ rpc = "flip" => whead = start
    /\ rpc = "sync" => rtry = whead - start /\ rtry > 0
    /\ rpc \in {"bits", "unstuff"} => Reading
    /\ rpc = "done" => Result

WriterTypes ==
    /\ packet \in Packets /\ wpc \in WriterPlaces
    /\ whead \in 0 .. 8 /\ wbytes \in Nat /\ wleft \in 0 .. 8
    /\ wstuff \in [1 .. 6 -> {0, 1}] /\ wlastsym \in {0, 1}
    /\ line \in {"J", "K", "SE0"} /\ cut \in BOOLEAN

ReaderTypes ==
    /\ rpc \in {"off", "flip", "sync", "bits", "unstuff", "done"}
    /\ rlastval \in {0, 1} /\ rtry \in 0 .. SyncTries
    /\ runstuff \in [1 .. 6 -> {0, 1}] /\ rcounter \in Nat
    /\ rsample \in Seq({0, 1}) /\ out \in Seq({0, 1}) /\ ret \in -4 .. MaxBytes
    /\ start \in 0 .. 8

IInv == /\ WriterTypes /\ ReaderTypes /\ WriterInv
        /\ rpc = "off" => Fresh /\ start = 0
        /\ InTime /\ ~cut => LockStep

-----------------------------------------------------------------------------
LEMMA HeaderFacts ==
    /\ Len(Header) = 8 /\ Header[8] = Header[7] /\ DMinus(Header[7]) = 1
    /\ \A i \in 1 .. 8 : Header[i] \in {"J", "K"}
    /\ \A i \in 1 .. 6 : DMinus(Header[i + 1]) # DMinus(Header[i])
BY SMT DEF Header, DMinus

LEMMA Levels ==
    /\ \A s \in {"J", "K", "SE0"} : DPlus(s) \in {0, 1} /\ DMinus(s) \in {0, 1}
    /\ \A s \in {"J", "K"} : ~IsSe0(s)
    /\ IsSe0("SE0") /\ DPlus("SE0") = 0
    /\ \A sym \in {0, 1} : Symbol(sym) \in {"J", "K"} /\ DPlus(Symbol(sym)) = 1 - sym
BY DEF DPlus, DMinus, IsSe0, Symbol

LEMMA Logs ==
    /\ <<0, 0, 1, 1, 1, 1>> \in [1 .. 6 -> {0, 1}]
    /\ <<1, 1, 0, 0, 0, 0>> \in [1 .. 6 -> {0, 1}]
    /\ <<0, 1, 0, 0, 0, 0>> \in [1 .. 6 -> {0, 1}]
    /\ <<1, 1, 1, 1, 1, 1>> \in [1 .. 6 -> {0, 1}]
BY SMT

\* A shift keeps the type of a log.
LEMMA ShiftType ==
    ASSUME NEW bits \in [1 .. 6 -> {0, 1}], NEW b \in {0, 1}
    PROVE  Shift(bits, b) \in [1 .. 6 -> {0, 1}] /\ PushBit(bits, b) \in [1 .. 6 -> {0, 1}]
BY DEF Shift, PushBit

\* One more bit on both sides: the logs still agree ...
LEMMA AgreeShift ==
    ASSUME NEW r \in [1 .. 6 -> {0, 1}], NEW w \in [1 .. 6 -> {0, 1}], NEW b \in {0, 1},
           \E k \in 1 .. 6 : (\A i \in 1 .. k : r[i] = 1 - w[i]) /\ (k = 6 \/ r[k] = 0)
    PROVE  \E k \in 1 .. 6 : /\ \A i \in 1 .. k : PushBit(r, b)[i] = 1 - Shift(w, 1 - b)[i]
                             /\ k = 6 \/ PushBit(r, b)[k] = 0
<1>1. PICK k \in 1 .. 6 : (\A i \in 1 .. k : r[i] = 1 - w[i]) /\ (k = 6 \/ r[k] = 0)
  OBVIOUS
<1>2. /\ PushBit(r, b)[1] = b /\ Shift(w, 1 - b)[1] = 1 - b
      /\ \A i \in 2 .. 6 : PushBit(r, b)[i] = r[i - 1] /\ Shift(w, 1 - b)[i] = w[i - 1]
  BY DEF PushBit, Shift
<1>3. CASE k = 6
  <2>1. \A i \in 1 .. 6 : PushBit(r, b)[i] = 1 - Shift(w, 1 - b)[i]
    BY <1>1, <1>2, <1>3
  <2> QED BY <2>1
<1>4. CASE k # 6
  <2>1. k + 1 \in 1 .. 6 /\ PushBit(r, b)[k + 1] = 0
    BY <1>1, <1>2, <1>4
  <2>2. \A i \in 1 .. k + 1 : PushBit(r, b)[i] = 1 - Shift(w, 1 - b)[i]
    BY <1>1, <1>2, <1>4
  <2> QED BY <2>1, <2>2
<1> QED BY <1>3, <1>4

\* ... and both see a run of six, or neither.
LEMMA AgreeRun ==
    ASSUME NEW r \in [1 .. 6 -> {0, 1}], NEW w \in [1 .. 6 -> {0, 1}],
           \E k \in 1 .. 6 : (\A i \in 1 .. k : r[i] = 1 - w[i]) /\ (k = 6 \/ r[k] = 0)
    PROVE  SixOnes(r) <=> RunOfSix(w, 0)
BY DEF SixOnes, RunOfSix
-----------------------------------------------------------------------------
LEMMA InitInv == Init => IInv
<1> SUFFICES ASSUME Init PROVE IInv
  OBVIOUS
<1> USE DEF Init, WriterInit, ReaderInit
<1>1. WholeBytes(packet) /\ Len(packet) \in Nat
  BY PacketsAssumption DEF WholeBytes
<1>2. WriterTypes
  <2>1. wstuff \in [1 .. 6 -> {0, 1}]
    BY Logs
  <2>2. cut \in BOOLEAN /\ wpc \in WriterPlaces
    BY DEF WriterPlaces
  <2> QED BY <2>1, <2>2 DEF WriterTypes
<1>3. WriterInv
  BY <1>1 DEF WriterInv, WholeBytes
<1>4. ReaderTypes
  BY Logs DEF ReaderTypes, SyncTries, MaxBytes
<1>5. Fresh /\ start = 0 /\ ~InTime
  BY DEF Fresh, InTime
<1> HIDE DEF Init, WriterInit, ReaderInit
<1> QED BY <1>2, <1>3, <1>4, <1>5 DEF IInv

\* Whole bytes are left, or none.
LEMMA Bytes ==
    ASSUME NEW n \in Nat, n % 8 = 0, NEW b \in Nat, 8 * b <= n
    PROVE  IF b = n \div 8 THEN 8 * b = n ELSE 8 * (b + 1) <= n
BY SMT

\* The bit that goes out next is one of the packet.
LEMMA BitSent ==
    ASSUME WriterTypes, WriterInv, wpc = "bit"
    PROVE  /\ 8 * wbytes - wleft + 1 \in 1 .. Len(packet)
           /\ InvertedBit \in {0, 1} /\ packet[8 * wbytes - wleft + 1] = 1 - InvertedBit
<1>1. 8 * wbytes - wleft + 1 \in 1 .. Len(packet)
  BY DEF WriterTypes, WriterInv, WholeBytes
<1>2. packet[8 * wbytes - wleft + 1] \in {0, 1}
  BY <1>1 DEF WriterInv, WholeBytes
<1> QED BY <1>1, <1>2 DEF InvertedBit

LEMMA DrivenInv ==
    ASSUME WriterTypes, WriterInv, Driven
    PROVE  WriterTypes' /\ WriterInv'
<1> USE DEF WriterTypes, WriterPlaces, WriterInv
<1>1. CASE WriteHeader /\ UNCHANGED cut
  BY <1>1, HeaderFacts DEF WriteHeader
<1>2. CASE WriteBit /\ UNCHANGED cut
  <2>1. wpc = "bit" /\ InvertedBit \in {0, 1}
    BY <1>2, BitSent DEF WriteBit
  <2>2. wstuff' \in [1 .. 6 -> {0, 1}]
    BY <1>2, <2>1, ShiftType DEF WriteBit
  <2>3. wlastsym' \in {0, 1} /\ line' \in {"J", "K"}
    BY <1>2, <2>1, Levels DEF WriteBit, Symbol
  <2>4. Len(packet) \in Nat /\ Len(packet) % 8 = 0
    BY DEF WholeBytes
  <2>5. IF LastByte THEN 8 * wbytes = Len(packet) ELSE 8 * (wbytes + 1) <= Len(packet)
    BY <2>4, Bytes DEF LastByte
  <2>6. /\ wleft' \in 0 .. 8 /\ wbytes' \in Nat /\ 1 <= wbytes' /\ 8 * wbytes' <= Len(packet)
        /\ wpc' \in {"bit", "stuff", "eof_stuff", "se0"}
        /\ wpc' \in {"bit", "stuff"} => wleft' > 0
        /\ wpc' \in {"eof_stuff", "se0"} => wleft' = 0 /\ 8 * wbytes' = Len(packet)
    BY <1>2, <2>1, <2>4, <2>5, SMTT(30) DEF WriteBit, NextBit
  <2> QED BY <1>2, <2>2, <2>3, <2>6 DEF WriteBit
<1>3. CASE (WriteStuffBit \/ WriteEofStuffBit) /\ UNCHANGED cut
  <2>1. wlastsym' \in {0, 1} /\ line' \in {"J", "K"}
    BY <1>3, Levels DEF WriteStuffBit, WriteEofStuffBit, InvertSymbol, Symbol
  <2> QED BY <1>3, <2>1, Logs DEF WriteStuffBit, WriteEofStuffBit, InvertSymbol
<1>4. CASE (WriteSe0 \/ WriteRest) /\ UNCHANGED cut
  BY <1>4 DEF WriteSe0, WriteRest
<1>5. CASE LineIdle /\ UNCHANGED cut
  BY <1>5 DEF LineIdle, writerVars
<1>6. CASE Stop
  BY <1>6 DEF Stop
<1> QED BY <1>1, <1>2, <1>3, <1>4, <1>5, <1>6 DEF Driven, WriterStep

LEMMA ExitType ==
    ASSUME NEW bits \in Nat
    PROVE  (IF bits \div 8 > MaxBytes THEN Overflow ELSE bits \div 8) \in -4 .. MaxBytes
BY SMT DEF MaxBytes, Overflow

LEMMA ErrorTypes == {AlreadySe0, SyncTimeout, Overflow, Timeout} \subseteq -4 .. MaxBytes
BY SMT DEF MaxBytes, AlreadySe0, SyncTimeout, Overflow, Timeout

LEMMA SampledTypes ==
    ASSUME ReaderTypes, line' \in {"J", "K", "SE0"}, whead' \in 0 .. 8, Sampled
    PROVE  ReaderTypes'
<1> USE DEF ReaderTypes
<1>1. CASE Enter
  <2>1. start' \in 0 .. 8
    BY <1>1 DEF Enter
  <2>2. DMinus(line') \in {0, 1}
    BY Levels
  <2>3. /\ rpc' \in {"flip", "done"} /\ rlastval' \in {0, 1}
        /\ ret' = ret \/ ret' = AlreadySe0
        /\ UNCHANGED <<rtry, runstuff, rcounter, rsample, out>>
    BY <1>1, <2>2 DEF Enter, ReadStart, Return
  <2>4. ret' \in -4 .. MaxBytes
    BY <2>3, ErrorTypes
  <2> QED BY <2>1, <2>3, <2>4
<1>2. CASE ReadFlip(line') /\ UNCHANGED start
  <2>1. DMinus(line') \in {0, 1}
    BY Levels
  <2>2. /\ rpc' \in {"sync", "done"} /\ rlastval' \in {0, 1} /\ rtry' \in 0 .. SyncTries
        /\ ret' = ret \/ ret' = Timeout
    BY <1>2, <2>1 DEF ReadFlip, Return, SyncTries
  <2>3. UNCHANGED <<runstuff, rcounter, rsample, out, start>>
    BY <1>2 DEF ReadFlip
  <2>4. ret' \in -4 .. MaxBytes
    BY <2>2, ErrorTypes
  <2> QED BY <2>2, <2>3, <2>4
<1>3. CASE ReadSync(line') /\ UNCHANGED start
  <2>1. DMinus(line') \in {0, 1}
    BY Levels
  <2>2. /\ rpc' \in {"bits", "sync", "done"} /\ rlastval' \in {0, 1}
        /\ ret' = ret \/ ret' = SyncTimeout
        /\ rtry' \in 0 .. SyncTries
    BY <1>3, <2>1 DEF ReadSync, Return, SyncTries
  <2>3. UNCHANGED <<runstuff, rcounter, rsample, out, start>>
    BY <1>3 DEF ReadSync
  <2>4. ret' \in -4 .. MaxBytes
    BY <2>2, ErrorTypes
  <2> QED BY <2>2, <2>3, <2>4
<1>4. CASE ReadBit(line') /\ UNCHANGED start
  <2> DEFINE bit == IF DPlus(line') = rlastval THEN 1 ELSE 0
  <2>1. bit \in {0, 1} /\ PushBit(runstuff, bit) \in [1 .. 6 -> {0, 1}]
    BY ShiftType
  <2>2. Append(rsample, bit) \in Seq({0, 1}) /\ out \o Append(rsample, bit) \in Seq({0, 1})
    BY <2>1
  <2>3. rcounter' = rcounter + 1 /\ rlastval' = DPlus(line') /\ runstuff' = PushBit(runstuff, bit)
        /\ UNCHANGED <<start, rtry>>
    BY <1>4 DEF ReadBit
  <2>4. rsample' \in Seq({0, 1}) /\ out' \in Seq({0, 1})
    <3>1. \/ out' = out \o Append(rsample, bit) /\ rsample' = << >>
          \/ rsample' = Append(rsample, bit) /\ UNCHANGED out
      BY <1>4 DEF ReadBit, AdvanceByte
    <3>2. << >> \in Seq({0, 1})
      OBVIOUS
    <3>3. CASE out' = out \o Append(rsample, bit) /\ rsample' = << >>
      BY <2>2, <3>2, <3>3, Zenon
    <3>4. CASE rsample' = Append(rsample, bit) /\ UNCHANGED out
      BY <2>2, <3>4, Zenon
    <3> QED BY <3>1, <3>3, <3>4
  <2>5. rpc' \in {"bits", "unstuff", "done"} /\ ret' \in -4 .. MaxBytes
    BY <1>4, <2>3, ExitType DEF ReadBit, CheckUnstuff, Exit, Return
  <2> HIDE DEF bit
  <2> QED BY <2>1, <2>3, <2>4, <2>5, Levels
<1>5. CASE Unstuff(line') /\ UNCHANGED start
  BY <1>5, Logs, ExitType DEF Unstuff, Exit, Return
<1>6. CASE UNCHANGED <<readerVars, start>>
  BY <1>6 DEF readerVars
<1> QED BY <1>1, <1>2, <1>3, <1>4, <1>5, <1>6 DEF Sampled

-----------------------------------------------------------------------------
LEMMA NothingRead ==
    ASSUME NEW p
    PROVE  << >> \o << >> = SubSeq(p, 1, 0)
<1>1. << >> \in Seq({0, 1})
  OBVIOUS
<1>2. << >> \o << >> = << >>
  BY <1>1, ConcatEmptySeq
<1>3. SubSeq(p, 1, 0) = << >>
  BY SubSeqEmpty
<1> QED BY <1>2, <1>3

LEMMA BitsOfByte ==
    ASSUME NEW a \in Nat, a % 8 = 0, NEW r \in Nat, r < 8
    PROVE  (a + r) % 8 = r /\ (a + 8) % 8 = 0
BY SMT

BitStrings == Seq({0, 1})

LEMMA Sequences ==
    ASSUME ReaderTypes, WholeBytes(packet)
    PROVE  /\ packet \in BitStrings /\ out \in BitStrings /\ rsample \in BitStrings
           /\ rcounter \in Nat /\ Len(packet) \in Nat /\ Len(out) \in Nat /\ Len(rsample) \in Nat
<1>1. packet \in Seq({0, 1}) /\ out \in Seq({0, 1}) /\ rsample \in Seq({0, 1}) /\ rcounter \in Nat
  BY Zenon DEF ReaderTypes, WholeBytes
<1> QED BY <1>1, LenProperties DEF BitStrings

LEMMA Associative ==
    ASSUME NEW s \in Seq({0, 1}), NEW t \in Seq({0, 1}), NEW u \in Seq({0, 1})
    PROVE  s \o (t \o u) = (s \o t) \o u
BY SMT

\* One more bit of the packet.
LEMMA OneMore ==
    ASSUME NEW p \in BitStrings, NEW n \in Nat, n < Len(p),
           NEW o \in BitStrings, NEW r \in BitStrings,
           o \o r = SubSeq(p, 1, n)
    PROVE  /\ p[n + 1] \in {0, 1}
           /\ Append(r, p[n + 1]) \in BitStrings /\ Len(Append(r, p[n + 1])) = Len(r) + 1
           /\ o \o Append(r, p[n + 1]) = SubSeq(p, 1, n + 1)
<1> USE DEF BitStrings
<1>1. Len(p) \in Nat /\ n + 1 \in 1 .. Len(p) /\ 1 \in 1 .. Len(p)
  BY LenProperties
<1>2. p[n + 1] \in {0, 1}
  BY <1>1, LenProperties
<1>3. /\ Append(r, p[n + 1]) \in Seq({0, 1}) /\ Len(Append(r, p[n + 1])) = Len(r) + 1
      /\ Append(r, p[n + 1]) = r \o << p[n + 1] >>
  BY <1>2, AppendProperties, AppendIsConcat
<1>4. << p[n + 1] >> \in Seq({0, 1})
  BY <1>2
<1>5. o \o (r \o << p[n + 1] >>) = (o \o r) \o << p[n + 1] >>
  BY <1>4, Associative
<1>6. SubSeq(p, 1, n + 1) = SubSeq(p, 1, n) \o << p[n + 1] >>
  <2>1. SubSeq(p, 1, n + 1) = SubSeq(p, 1, (n + 1) - 1) \o << p[n + 1] >>
    BY <1>1, SubSeqRecursiveSecond, Zenon
  <2>2. (n + 1) - 1 = n
    OBVIOUS
  <2> QED BY <2>1, <2>2
<1>7. o \o Append(r, p[n + 1]) = SubSeq(p, 1, n + 1)
  BY <1>3, <1>5, <1>6, Zenon
<1> QED BY <1>2, <1>3, <1>7, Zenon

LEMMA WholeBytesRead ==
    ASSUME NEW n \in Nat, n % 8 = 0
    PROVE  /\ (n + 1) % 8 # 0 /\ (n + 1) \div 8 = n \div 8
           /\ n <= 8 * MaxBytes <=> ~(n \div 8 > MaxBytes)
BY SMT DEF MaxBytes

LEMMA RoomInByte ==
    ASSUME NEW a \in Nat, a % 8 = 0, NEW r \in Nat, r < 8
    PROVE  (a + r + 1) % 8 # 0 => r + 1 < 8
<1>1. ASSUME r = 7 PROVE (a + r + 1) % 8 = 0
  <2>1. a + r + 1 = a + 8
    BY <1>1
  <2> QED BY <2>1, BitsOfByte
<1> QED BY <1>1

\* The bit goes to rsample, or with it to out.
LEMMA BitStored ==
    ASSUME NEW p \in BitStrings, NEW n \in Nat, n < Len(p),
           NEW o \in BitStrings, NEW r \in BitStrings, Len(o) % 8 = 0, Len(r) < 8,
           Len(o) + Len(r) = n, o \o r = SubSeq(p, 1, n)
    PROVE  LET byte == Append(r, p[n + 1])
           IN  /\ Len(o \o byte) = n + 1 /\ (o \o byte) \o << >> = SubSeq(p, 1, n + 1)
               /\ Len(o) + Len(byte) = n + 1 /\ o \o byte = SubSeq(p, 1, n + 1)
               /\ (n + 1) % 8 # 0 => Len(byte) < 8
<1> DEFINE byte == Append(r, p[n + 1])
<1>1. byte \in BitStrings /\ Len(byte) = Len(r) + 1 /\ o \o byte = SubSeq(p, 1, n + 1)
  <2>1. byte \in BitStrings
    BY OneMore, SMTT(30)
  <2>2. Len(byte) = Len(r) + 1
    BY OneMore, SMTT(30)
  <2>3. o \o byte = SubSeq(p, 1, n + 1)
    BY OneMore, SMTT(30)
  <2> QED BY <2>1, <2>2, <2>3, Zenon
<1> HIDE DEF byte
<1>2. Len(o) \in Nat /\ Len(r) \in Nat
  BY LenProperties DEF BitStrings
<1>3. o \o byte \in BitStrings /\ Len(o \o byte) = Len(o) + Len(byte)
  BY <1>1, ConcatProperties DEF BitStrings
<1>4. (o \o byte) \o << >> = o \o byte
  BY <1>3, ConcatEmptySeq DEF BitStrings
<1>5. Len(o) + Len(byte) = n + 1
  BY <1>1, <1>2
<1>6. (n + 1) % 8 # 0 => Len(byte) < 8
  BY <1>1, <1>2, RoomInByte
<1> QED BY <1>1, <1>3, <1>4, <1>5, <1>6 DEF byte

LEMMA ReadSoFarStep ==
    ASSUME ReaderTypes, WholeBytes(packet), ReadSoFar, rcounter < Len(packet),
           packet' = packet, rcounter' = rcounter + 1,
           NEW byte, byte = Append(rsample, packet[rcounter + 1]),
           \/ rcounter' % 8 = 0 /\ out' = out \o byte /\ rsample' = << >>
           \/ rcounter' % 8 # 0 /\ out' = out /\ rsample' = byte
    PROVE  ReadSoFar'
<1>1. /\ packet \in BitStrings /\ out \in BitStrings /\ rsample \in BitStrings
      /\ rcounter \in Nat
  BY Sequences, Zenon
<1>2. /\ Len(out) % 8 = 0 /\ Len(rsample) < 8 /\ Len(out) + Len(rsample) = rcounter
      /\ out \o rsample = SubSeq(packet, 1, rcounter)
  BY DEF ReadSoFar
<1>3. /\ Len(out \o byte) = rcounter' /\ (out \o byte) \o << >> = SubSeq(packet', 1, rcounter')
      /\ Len(out) + Len(byte) = rcounter' /\ out \o byte = SubSeq(packet', 1, rcounter')
      /\ rcounter' % 8 # 0 => Len(byte) < 8
  <2>1. Len(out \o byte) = rcounter'
    BY <1>1, <1>2, BitStored, SMT
  <2>2. (out \o byte) \o << >> = SubSeq(packet', 1, rcounter')
    BY <1>1, <1>2, BitStored, SMT
  <2>3. Len(out) + Len(byte) = rcounter'
    BY <1>1, <1>2, BitStored, SMT
  <2>4. out \o byte = SubSeq(packet', 1, rcounter')
    BY <1>1, <1>2, BitStored, SMT
  <2>5. rcounter' % 8 # 0 => Len(byte) < 8
    BY <1>1, <1>2, BitStored, SMT
  <2> QED BY <2>1, <2>2, <2>3, <2>4, <2>5, Zenon
<1>4. CASE rcounter' % 8 = 0 /\ out' = out \o byte /\ rsample' = << >>
  <2>1. Len(rsample') = 0 /\ Len(out') = rcounter' /\ Len(out') + 0 = rcounter'
    BY <1>1, <1>3, <1>4
  <2> QED BY <2>1, <1>3, <1>4 DEF ReadSoFar
<1>5. CASE rcounter' % 8 # 0 /\ out' = out /\ rsample' = byte
  BY <1>2, <1>3, <1>5 DEF ReadSoFar
<1> QED BY <1>4, <1>5

\* At the end of the packet all of it is in out.
LEMMA ReadAll ==
    ASSUME ReaderTypes, WholeBytes(packet), ReadSoFar, rcounter = Len(packet)
    PROVE  out = packet
<1>1. /\ packet \in BitStrings /\ out \in BitStrings /\ rsample \in BitStrings
      /\ Len(packet) \in Nat /\ Len(out) \in Nat /\ Len(rsample) \in Nat
  BY Sequences, Zenon
<1>2. /\ Len(packet) % 8 = 0 /\ Len(out) % 8 = 0 /\ Len(rsample) < 8
      /\ Len(out) + Len(rsample) = Len(packet) /\ out \o rsample = SubSeq(packet, 1, Len(packet))
  BY Zenon DEF WholeBytes, ReadSoFar
<1>3. Len(rsample) = 0
  BY <1>1, <1>2, BitsOfByte
<1>4. rsample = << >>
  BY <1>1, <1>3, EmptySeq, Zenon DEF BitStrings
<1>5. out \o << >> = out
  BY <1>1, ConcatEmptySeq, Zenon DEF BitStrings
<1>6. out = SubSeq(packet, 1, Len(packet))
  BY <1>2, <1>4, <1>5, Zenon
<1> QED BY <1>1, <1>6, SubSeqFull, Zenon DEF BitStrings

\* With more than 11 bytes read out starts like the packet.
LEMMA ReadEleven ==
    ASSUME ReaderTypes, WholeBytes(packet), ReadSoFar, rcounter <= Len(packet),
           rcounter > 8 * MaxBytes
    PROVE  SubSeq(out, 1, 8 * MaxBytes) = SubSeq(packet, 1, 8 * MaxBytes)
<1> DEFINE n == 8 * MaxBytes
<1>1. /\ packet \in BitStrings /\ out \in BitStrings /\ rsample \in BitStrings
      /\ rcounter \in Nat /\ Len(packet) \in Nat /\ Len(out) \in Nat /\ Len(rsample) \in Nat
  BY Sequences, Zenon
<1>2. n = 88 /\ n <= Len(out) /\ n < rcounter
  <2>1. Len(out) % 8 = 0 /\ Len(rsample) < 8 /\ Len(out) + Len(rsample) = rcounter
    BY Zenon DEF ReadSoFar
  <2> QED BY <1>1, <2>1, SMT DEF MaxBytes
<1> HIDE DEF n
<1>3. SubSeq(out \o rsample, 1, n) = SubSeq(out, 1, n)
  <2>1. 1 \in 1 .. Len(out) /\ n \in 1 .. Len(out)
    BY <1>1, <1>2, SMT
  <2> QED BY <1>1, <2>1, SubSeqOfConcat1, Zenon DEF BitStrings
<1>4. SubSeq(SubSeq(packet, 1, rcounter), 1, n) = SubSeq(packet, 1, n)
  <2>1. /\ 1 \in 1 .. Len(packet) /\ rcounter \in 1 .. Len(packet)
        /\ 1 \in 1 .. rcounter - 1 + 1 /\ n \in 1 .. rcounter - 1 + 1
        /\ 1 + 1 - 1 = 1 /\ 1 + n - 1 = n
    BY <1>1, <1>2
  <2>2. SubSeq(SubSeq(packet, 1, rcounter), 1, n) = SubSeq(packet, 1 + 1 - 1, 1 + n - 1)
    BY <1>1, <2>1, SubSeqOfSubSeq DEF BitStrings
  <2> QED BY <2>1, <2>2
<1>5. SubSeq(out, 1, n) = SubSeq(packet, 1, n)
  BY <1>3, <1>4, Zenon DEF ReadSoFar
<1> QED BY <1>5, Zenon DEF n

-----------------------------------------------------------------------------
(* Both sides in step. *)

LEMMA EnterInTime ==
    ASSUME WriterTypes, ReaderTypes, WriterInv, rpc = "off" => Fresh,
           WriterStep \/ LineIdle, Enter, InTime'
    PROVE  LockStep'
<1>1. wpc = "header" /\ start' = whead' /\ ReadStart(line') /\ start' \in 2 .. 6
  BY DEF Enter, InTime
<1>2. whead' = whead + 1 /\ line' = Header[whead'] /\ wpc' = "header"
  BY <1>1, HeaderFacts DEF WriterStep, LineIdle, WriteHeader, WriteBit, WriteStuffBit,
     WriteEofStuffBit, WriteSe0, WriteRest, WriterTypes
<1>3. line' \in {"J", "K"}
  BY <1>1, <1>2, HeaderFacts
<1>4. /\ rpc = "off" /\ rpc' = "flip" /\ rlastval' = DMinus(line')
      /\ UNCHANGED <<runstuff, rcounter, rsample, out>>
  BY <1>1, <1>3, Levels DEF ReadStart
<1>5. Fresh'
  BY <1>4 DEF Fresh
<1> QED BY <1>1, <1>2, <1>4, <1>5 DEF LockStep

\* The next symbol of the header, when the writer is there.
LEMMA HeaderStep ==
    ASSUME WriterTypes, WriterInv, wpc = "header", WriterStep \/ LineIdle
    PROVE  /\ whead' = whead + 1 /\ line' = Header[whead'] /\ whead' \in 1 .. 8
           /\ wpc' = IF whead' = 8 THEN "bit" ELSE "header"
           /\ wbytes' = 1 /\ wleft' = 8 /\ wlastsym' = 1 /\ wstuff' = <<0, 0, 1, 1, 1, 1>>
BY HeaderFacts DEF WriterStep, LineIdle, WriteHeader, WriteBit, WriteStuffBit,
   WriteEofStuffBit, WriteSe0, WriteRest, WriterTypes, WriterInv

LEMMA FlipInTime ==
    ASSUME WriterTypes, ReaderTypes, WriterInv, LockStep, InTime,
           WriterStep \/ LineIdle, ReadFlip(line'), start' = start
    PROVE  LockStep'
<1>1. /\ rpc = "flip" /\ wpc = "header" /\ whead = start /\ start \in 2 .. 6
      /\ Fresh /\ rlastval = DMinus(Header[whead])
  BY DEF LockStep, ReadFlip, InTime
<1>2. whead' = whead + 1 /\ line' = Header[whead'] /\ wpc' = "header"
  BY <1>1, HeaderStep
<1>3. DMinus(line') # rlastval
  BY <1>1, <1>2, HeaderFacts
<1>4. /\ rpc' = "sync" /\ rlastval' = DMinus(line') /\ rtry' = 1
      /\ UNCHANGED <<runstuff, rcounter, rsample, out>>
  BY <1>3 DEF ReadFlip
<1>5. Fresh'
  BY <1>1, <1>4 DEF Fresh
<1> QED BY <1>1, <1>2, <1>4, <1>5 DEF LockStep

LEMMA SyncInTime ==
    ASSUME WriterTypes, ReaderTypes, WriterInv, LockStep, InTime,
           WriterStep \/ LineIdle, ReadSync(line'), start' = start, packet' = packet
    PROVE  LockStep'
<1>1. /\ rpc = "sync" /\ wpc = "header" /\ start \in 2 .. 6 /\ whead \in start .. 7
      /\ rtry = whead - start /\ rtry > 0 /\ Fresh /\ rlastval = DMinus(Header[whead])
  BY DEF LockStep, ReadSync, InTime
<1>2. /\ whead' = whead + 1 /\ line' = Header[whead']
      /\ wpc' = IF whead' = 8 THEN "bit" ELSE "header"
      /\ wbytes' = 1 /\ wleft' = 8 /\ wlastsym' = 1 /\ wstuff' = <<0, 0, 1, 1, 1, 1>>
  BY <1>1, HeaderStep
<1>3. UNCHANGED <<runstuff, rcounter, rsample, out>> /\ Fresh'
  BY <1>1 DEF ReadSync, Fresh
<1>4. CASE whead < 7
  <2>1. DMinus(line') # rlastval
    BY <1>1, <1>2, <1>4, HeaderFacts
  <2>2. rpc' = "sync" /\ rtry' = rtry + 1 /\ rlastval' = DMinus(line')
    BY <2>1, <1>1, <1>4 DEF ReadSync, SyncTries
  <2> QED BY <2>2, <1>1, <1>2, <1>3, <1>4 DEF LockStep
<1>5. CASE whead = 7
  <2>1. rpc' = "bits" /\ rlastval' = 0
    BY <1>1, <1>2, <1>5, HeaderFacts DEF ReadSync
  <2>2. Agree'
    <3>1. \A i \in 1 .. 6 : runstuff'[i] = 1 - wstuff'[i]
      BY <1>2, <1>3 DEF Fresh
    <3> QED BY <3>1 DEF Agree
  <2>3. ReadSoFar'
    BY <1>3, NothingRead DEF Fresh, ReadSoFar
  <2>4. Reading'
    BY <2>1, <2>2, <2>3, <1>2, <1>3, <1>5 DEF Reading, Sending, Fresh
  <2> QED BY <2>1, <2>4 DEF LockStep
<1> QED BY <1>1, <1>4, <1>5

LEMMA Inverse01 ==
    ASSUME NEW a \in {0, 1}, NEW c \in {0, 1}, a # c
    PROVE  1 - a # 1 - c
OBVIOUS

\* A bit of the packet, or the SE0 after it.
LEMMA BitInTime ==
    ASSUME WriterTypes, ReaderTypes, WriterInv, LockStep,
           WriterStep \/ LineIdle, ReadBit(line'), start' = start, packet' = packet
    PROVE  LockStep'
<1>1. rpc = "bits" /\ Reading /\ wpc \in {"bit", "se0"}
  BY DEF LockStep, ReadBit, Reading, Sending
<1>2. /\ rcounter \in Nat /\ rcounter = 8 * wbytes - wleft /\ rlastval = 1 - wlastsym
      /\ Agree /\ ReadSoFar /\ WholeBytes(packet) /\ wlastsym \in {0, 1}
      /\ runstuff \in [1 .. 6 -> {0, 1}] /\ wstuff \in [1 .. 6 -> {0, 1}]
      /\ wbytes \in Nat /\ wleft \in 0 .. 8
  BY <1>1 DEF Reading, ReaderTypes, WriterTypes, WriterInv
<1>3. CASE wpc = "bit"
  <2> DEFINE b == packet[rcounter + 1]
  <2>1. /\ wstuff' = Shift(wstuff, InvertedBit) /\ wlastsym' = (wlastsym + InvertedBit) % 2
        /\ line' = Symbol(wlastsym') /\ NextBit(wstuff')
    BY <1>3 DEF WriterStep, LineIdle, WriteHeader, WriteBit, WriteStuffBit,
       WriteEofStuffBit, WriteSe0, WriteRest
  <2>2. InvertedBit \in {0, 1} /\ b = 1 - InvertedBit /\ rcounter < Len(packet)
    <3>1. /\ 8 * wbytes - wleft + 1 \in 1 .. Len(packet) /\ InvertedBit \in {0, 1}
          /\ packet[8 * wbytes - wleft + 1] = 1 - InvertedBit
      BY <1>3, BitSent
    <3>2. rcounter + 1 = 8 * wbytes - wleft + 1
      BY <1>2
    <3>3. rcounter + 1 \in 1 .. Len(packet) /\ b = 1 - InvertedBit
      BY <3>1, <3>2
    <3>4. Len(packet) \in Nat
      BY <1>2 DEF WholeBytes
    <3>5. rcounter < Len(packet)
      BY <1>2, <3>3, <3>4
    <3> QED BY <3>1, <3>3, <3>5
  <2>3. b \in {0, 1} /\ InvertedBit = 1 - b
    BY <2>2
  <2> HIDE DEF b
  <2>4. /\ wlastsym' \in {0, 1} /\ (wlastsym' = wlastsym <=> b = 1)
    BY <2>1, <2>2, <2>3, <1>2
  <2>5. DPlus(line') = 1 - wlastsym' /\ ~IsSe0(line')
    BY <2>1, <2>4, Levels
  <2>6. b = IF DPlus(line') = rlastval THEN 1 ELSE 0
    <3>1. CASE b = 1
      BY <3>1, <1>2, <2>4, <2>5
    <3>2. CASE b = 0
      <4>1. wlastsym' \in {0, 1} /\ wlastsym' # wlastsym
        BY <3>2, <2>4
      <4>2. DPlus(line') # rlastval
        <5>1. wlastsym \in {0, 1} /\ rlastval = 1 - wlastsym /\ DPlus(line') = 1 - wlastsym'
          BY <1>2, <2>5, Zenon
        <5>2. 1 - wlastsym' # 1 - wlastsym
          BY <4>1, <5>1, Inverse01
        <5> QED BY <5>1, <5>2, Zenon
      <4> QED BY <3>2, <4>2
    <3> QED BY <3>1, <3>2, <2>3
  <2>7. /\ rlastval' = 1 - wlastsym' /\ runstuff' = PushBit(runstuff, b)
        /\ rcounter' = rcounter + 1
        /\ rpc' = IF SixOnes(runstuff') THEN "unstuff" ELSE "bits"
        /\ \/ rcounter' % 8 = 0 /\ out' = out \o Append(rsample, b) /\ rsample' = << >>
           \/ rcounter' % 8 # 0 /\ out' = out /\ rsample' = Append(rsample, b)
    BY <2>5, <2>6 DEF ReadBit, AdvanceByte, CheckUnstuff
  <2>8. Agree'
    <3>1. wstuff' = Shift(wstuff, 1 - b)
      BY <2>1, <2>3
    <3> QED BY <3>1, <2>3, <2>7, <1>2, AgreeShift, SMTT(30) DEF Agree
  <2>9. SixOnes(runstuff') <=> RunOfSix(wstuff', 0)
    <3>1. runstuff' \in [1 .. 6 -> {0, 1}] /\ wstuff' \in [1 .. 6 -> {0, 1}]
      BY <2>1, <2>2, <2>3, <2>7, <1>2, ShiftType
    <3> QED BY <3>1, <2>8, AgreeRun DEF Agree
  <2>10. /\ rcounter' = 8 * wbytes' - wleft' /\ wpc' \in Sending
         /\ wpc' \in {"stuff", "eof_stuff"} <=> RunOfSix(wstuff', 0)
    <3>1. rcounter' = 8 * wbytes' - wleft'
      BY <2>1, <2>7, <1>2 DEF NextBit
    <3>2. \/ RunOfSix(wstuff', 0) /\ wpc' \in {"stuff", "eof_stuff"}
          \/ ~RunOfSix(wstuff', 0) /\ wpc' \in {"bit", "se0"}
      BY <2>1 DEF NextBit
    <3> QED BY <3>1, <3>2 DEF Sending
  <2>11. ReadSoFar'
    BY <2>2, <2>7, <1>2, ReadSoFarStep DEF b
  <2>12. Reading'
    BY <2>7, <2>8, <2>9, <2>10, <2>11 DEF Reading
  <2> QED BY <2>7, <2>12 DEF LockStep
<1>4. CASE wpc = "se0"
  <2>1. line' = "SE0" /\ IsSe0(line')
    BY <1>4, Levels DEF WriterStep, LineIdle, WriteHeader, WriteBit, WriteStuffBit,
       WriteEofStuffBit, WriteSe0, WriteRest
  <2>2. rcounter = Len(packet) /\ Len(packet) \in Nat /\ Len(packet) % 8 = 0
    <3>1. wleft = 0 /\ 8 * wbytes = Len(packet)
      BY <1>4 DEF WriterInv
    <3>2. Len(packet) \in Nat /\ Len(packet) % 8 = 0
      BY <1>2 DEF WholeBytes
    <3> QED BY <3>1, <3>2, <1>2
  <2>3. (Len(packet) + 1) % 8 # 0 /\ (Len(packet) + 1) \div 8 = Len(packet) \div 8
    BY <2>2, WholeBytesRead
  <2>4. rpc' = "done" /\ out' = out
        /\ ret' = IF (Len(packet) + 1) \div 8 > MaxBytes THEN Overflow
                  ELSE (Len(packet) + 1) \div 8
    BY <2>1, <2>2, <2>3 DEF ReadBit, Exit, Return
  <2>5. out = packet
    BY <1>2, <2>2, ReadAll
  <2>6. Len(packet) <= 8 * MaxBytes <=> ~(Len(packet) \div 8 > MaxBytes)
    BY <2>2, WholeBytesRead
  <2>7. Result'
    BY <2>3, <2>4, <2>5, <2>6 DEF Result
  <2> QED BY <2>4, <2>7 DEF LockStep
<1> QED BY <1>1, <1>3, <1>4

\* A stuffed bit, which the reader does not look at.
LEMMA UnstuffInTime ==
    ASSUME WriterTypes, ReaderTypes, WriterInv, LockStep,
           WriterStep \/ LineIdle, Unstuff(line'), start' = start, packet' = packet
    PROVE  LockStep'
<1>1. rpc = "unstuff" /\ Reading /\ wpc \in {"stuff", "eof_stuff"}
  BY DEF LockStep, Unstuff, Reading
<1>2. /\ rcounter \in Nat /\ rcounter = 8 * wbytes - wleft /\ rlastval = 1 - wlastsym
      /\ ReadSoFar /\ WholeBytes(packet) /\ wlastsym \in {0, 1}
  BY <1>1 DEF Reading, ReaderTypes, WriterTypes, WriterInv
<1>3. rcounter <= Len(packet) /\ Len(packet) \in Nat
  BY <1>2 DEF WriterTypes, WriterInv, WholeBytes
<1>4. /\ wstuff' = <<1, 1, 1, 1, 1, 1>> /\ wlastsym' = (wlastsym + 1) % 2
      /\ wbytes' = wbytes /\ wleft' = wleft /\ wpc' \in {"bit", "se0"}
  BY <1>1 DEF WriterStep, LineIdle, WriteHeader, WriteBit, WriteStuffBit,
     WriteEofStuffBit, WriteSe0, WriteRest, InvertSymbol
<1>5. /\ runstuff' = <<0, 1, 0, 0, 0, 0>> /\ rlastval' = 1 - rlastval
      /\ UNCHANGED <<rcounter, rsample, out>>
  BY DEF Unstuff
<1>6. CASE rcounter > 8 * MaxBytes
  <2>1. rpc' = "done" /\ ret' = IF rcounter \div 8 > MaxBytes THEN Overflow ELSE rcounter \div 8
    BY <1>2, <1>6 DEF Unstuff, Exit, Return, MaxBytes
  <2>2. rcounter \div 8 > MaxBytes \/ rcounter \div 8 = MaxBytes
    BY <1>2, <1>6 DEF MaxBytes
  <2>3. SubSeq(out, 1, 8 * MaxBytes) = SubSeq(packet, 1, 8 * MaxBytes)
    BY <1>2, <1>3, <1>6, ReadEleven
  <2>4. ~(Len(packet) <= 8 * MaxBytes)
    BY <1>2, <1>3, <1>6 DEF MaxBytes
  <2>5. Result'
    BY <2>1, <2>2, <2>3, <2>4, <1>5 DEF Result
  <2> QED BY <2>1, <2>5 DEF LockStep
<1>7. CASE rcounter <= 8 * MaxBytes
  <2>1. rpc' = "bits"
    BY <1>2, <1>7 DEF Unstuff, MaxBytes
  <2>2. Agree'
    <3>1. runstuff'[1] = 0 /\ wstuff'[1] = 1
      BY <1>4, <1>5
    <3> QED BY <3>1 DEF Agree
  <2>3. ReadSoFar'
    BY <1>2, <1>5 DEF ReadSoFar
  <2>4. rlastval' = 1 - wlastsym'
    BY <1>2, <1>4, <1>5
  <2>5. Reading'
    BY <2>1, <2>2, <2>3, <2>4, <1>2, <1>4, <1>5 DEF Reading, Sending
  <2> QED BY <2>1, <2>5 DEF LockStep
<1> QED BY <1>2, <1>6, <1>7 DEF MaxBytes

-----------------------------------------------------------------------------
LEMMA StepInv == IInv /\ [BitTime]_vars => IInv'
<1> SUFFICES ASSUME IInv, [BitTime]_vars PROVE IInv'
  OBVIOUS
<1>1. WriterTypes /\ ReaderTypes /\ WriterInv /\ (rpc = "off" => Fresh /\ start = 0)
      /\ (InTime /\ ~cut => LockStep)
  BY DEF IInv
<1>2. CASE UNCHANGED vars
  <2>1. WriterTypes' /\ WriterInv'
    BY <1>1, <1>2 DEF vars, writerVars, WriterTypes, WriterInv
  <2>2. ReaderTypes' /\ (rpc' = "off" => Fresh' /\ start' = 0)
    BY <1>1, <1>2 DEF vars, readerVars, ReaderTypes, Fresh
  <2>3. (InTime /\ ~cut <=> InTime' /\ ~cut') /\ (Fresh <=> Fresh') /\ (Result <=> Result')
        /\ (Reading <=> Reading')
    BY <1>2 DEF vars, writerVars, readerVars, InTime, Fresh, Result, Reading, Agree, ReadSoFar
  <2>4. LockStep <=> LockStep'
    BY <1>2, <2>3 DEF vars, writerVars, readerVars, LockStep
  <2> QED BY <1>1, <2>1, <2>2, <2>3, <2>4 DEF IInv
<1>3. CASE BitTime
  <2>1. WriterTypes' /\ WriterInv'
    BY <1>1, <1>3, DrivenInv DEF BitTime
  <2>2. ReaderTypes'
    BY <1>1, <1>3, <2>1, SampledTypes DEF BitTime, WriterTypes
  <2>3. packet' = packet
    BY <1>3 DEF BitTime, Driven, WriterStep, LineIdle, Stop, writerVars, WriteHeader, WriteBit,
       WriteStuffBit, WriteEofStuffBit, WriteSe0, WriteRest, InvertSymbol
  <2>4. rpc' = "off" => Fresh' /\ start' = 0
    BY <1>1, <1>3 DEF BitTime, Sampled, Enter, ReadStart, ReadFlip, ReadSync, ReadBit, Unstuff,
       Exit, CheckUnstuff, Return, readerVars, Fresh
  <2>5. ASSUME InTime', ~cut' PROVE LockStep'
    <3>1. WriterStep \/ LineIdle
      BY <1>3, <2>5 DEF BitTime, Driven, Stop
    <3>2. ~cut
      BY <1>3, <2>5 DEF BitTime, Driven, Stop
    <3>3. CASE Enter
      BY <1>1, <2>5, <3>1, <3>3, EnterInTime
    <3>4. CASE ~Enter /\ start' = start
      <4>1. InTime /\ LockStep
        BY <1>1, <2>5, <3>2, <3>4 DEF InTime
      <4>2. CASE ReadFlip(line')
        BY <1>1, <4>1, <4>2, <3>1, <3>4, FlipInTime
      <4>3. CASE ReadSync(line')
        BY <1>1, <4>1, <4>3, <3>1, <3>4, <2>3, SyncInTime
      <4>4. CASE ReadBit(line')
        BY <1>1, <4>1, <4>4, <3>1, <3>4, <2>3, BitInTime
      <4>5. CASE Unstuff(line')
        BY <1>1, <4>1, <4>5, <3>1, <3>4, <2>3, UnstuffInTime
      <4>6. CASE rpc \in {"off", "done"} /\ UNCHANGED <<readerVars, start>>
        BY <4>1, <4>6, <2>3 DEF readerVars, LockStep, Result
      <4> QED BY <1>3, <3>4, <4>2, <4>3, <4>4, <4>5, <4>6 DEF BitTime, Sampled
    <3> QED BY <1>3, <3>3, <3>4 DEF BitTime, Sampled
  <2> QED BY <2>1, <2>2, <2>4, <2>5 DEF IInv
<1> QED BY <1>2, <1>3

\* The writer, the reader and, when it is entered in time, their being in step.
THEOREM Invariance == Spec => []IInv
<1>1. Init => IInv
  BY InitInv
<1>2. IInv /\ [BitTime]_vars => IInv'
  BY StepInv
<1> QED BY <1>1, <1>2, PTL DEF Spec

\* The variables of both sides have their types, for any packets
\* (usbPhyWriteI, usbPhyReadI).
THEOREM LineTypes == Spec => []TypeOK
<1>1. IInv => TypeOK
  BY DEF IInv, WriterTypes, WriterPlaces, ReaderTypes, TypeOK
<1> QED BY <1>1, Invariance, PTL

\* usbPhyReadI returns what usbPhyWriteI sent, for any packets, when it is
\* entered with two to six symbols of the header gone.
THEOREM ReadsBack == Spec => []ReadsWhatWasSent
<1>1. IInv => ReadsWhatWasSent
  BY DEF IInv, LockStep, Result, ReadsWhatWasSent
<1> QED BY <1>1, Invariance, PTL
-----------------------------------------------------------------------------
(* What is on the line is USB's, when no packet starts with four ones: the *)
(* writer counts the header's KK as a run of two, USB as a run of one.     *)

\* No PID in use has four ones at its start (grainuum.h, enum usb_pids).
PidsInUse == \A p \in Packets : \E i \in 1 .. 4 : p[i] = 0

AllOnes == \A i \in 1 .. BitsWritten : packet[i] = 1

IsRun(w, n) == /\ \A i \in 1 .. n : w[i] = 0
               /\ n < 6 => w[n + 1] = 1

Runs(w) == CHOOSE n \in 0 .. 6 : IsRun(w, n)

\* A stuffed bit is due exactly while the log is a run of six; until the packet has
\* a zero the log holds two zeros more than the packet has bits.
StuffInv ==
    /\ wpc \notin {"header", "idle"} => whead = 8
    /\ wpc \in {"bit", "stuff", "eof_stuff"} => line = Symbol(wlastsym)
    /\ wpc \in {"stuff", "eof_stuff"} => RunOfSix(wstuff, 0) /\ ~AllOnes
    /\ wpc \in {"bit", "se0"} => ~RunOfSix(wstuff, 0)
    /\ wpc = "bit" /\ AllOnes =>
          \A i \in 1 .. 6 : wstuff[i] = IF i <= BitsWritten + 2 THEN 0 ELSE 1

LEMMA RunIs ==
    ASSUME NEW w \in [1 .. 6 -> {0, 1}], NEW n \in 0 .. 6, IsRun(w, n)
    PROVE  Runs(w) = n
<1>1. ASSUME NEW m \in 0 .. 6, IsRun(w, m) PROVE m = n
  <2>1. ~(m < n)
    BY <1>1 DEF IsRun
  <2>2. ~(n < m)
    BY <1>1 DEF IsRun
  <2> QED BY <2>1, <2>2
<1>2. IsRun(w, Runs(w)) /\ Runs(w) \in 0 .. 6
  BY DEF Runs
<1> QED BY <1>1, <1>2

LEMMA SomeRun == ASSUME NEW w \in [1 .. 6 -> {0, 1}] PROVE \E n \in 0 .. 6 : IsRun(w, n)
<1>1. CASE \E m \in 1 .. 6 : w[m] = 1
  <2>1. \/ w[1] = 1
        \/ w[1] = 0 /\ w[2] = 1
        \/ w[1] = 0 /\ w[2] = 0 /\ w[3] = 1
        \/ w[1] = 0 /\ w[2] = 0 /\ w[3] = 0 /\ w[4] = 1
        \/ w[1] = 0 /\ w[2] = 0 /\ w[3] = 0 /\ w[4] = 0 /\ w[5] = 1
        \/ w[1] = 0 /\ w[2] = 0 /\ w[3] = 0 /\ w[4] = 0 /\ w[5] = 0 /\ w[6] = 1
    BY <1>1
  <2>2. IsRun(w, 0) \/ IsRun(w, 1) \/ IsRun(w, 2) \/ IsRun(w, 3) \/ IsRun(w, 4) \/ IsRun(w, 5)
    BY <2>1 DEF IsRun
  <2> QED BY <2>2
<1>2. CASE \A m \in 1 .. 6 : w[m] = 0
  BY <1>2 DEF IsRun
<1> QED BY <1>1, <1>2

LEMMA RunType ==
    ASSUME NEW w \in [1 .. 6 -> {0, 1}]
    PROVE  /\ Runs(w) \in 0 .. 6 /\ IsRun(w, Runs(w))
           /\ Runs(w) = 6 <=> RunOfSix(w, 0)
<1>1. Runs(w) \in 0 .. 6 /\ IsRun(w, Runs(w))
  BY SomeRun DEF Runs
<1>2. ASSUME RunOfSix(w, 0) PROVE Runs(w) = 6
  <2>1. IsRun(w, 6)
    BY <1>2 DEF RunOfSix, IsRun
  <2> QED BY <2>1, RunIs
<1> QED BY <1>1, <1>2 DEF RunOfSix, IsRun

\* A one makes the run longer, a zero and a stuffed bit end it.
LEMMA RunShift ==
    ASSUME NEW w \in [1 .. 6 -> {0, 1}]
    PROVE  /\ Runs(w) < 6 => Runs(Shift(w, 0)) = Runs(w) + 1
           /\ Runs(Shift(w, 1)) = 0
<1>1. Shift(w, 0) \in [1 .. 6 -> {0, 1}] /\ Shift(w, 1) \in [1 .. 6 -> {0, 1}]
  BY ShiftType
<1>2. \A b \in {0, 1} : Shift(w, b)[1] = b /\ \A i \in 2 .. 6 : Shift(w, b)[i] = w[i - 1]
  BY DEF Shift
<1>3. Runs(Shift(w, 1)) = 0
  <2>1. IsRun(Shift(w, 1), 0)
    BY <1>2 DEF IsRun
  <2> QED BY <1>1, <2>1, RunIs
<1>4. ASSUME Runs(w) < 6 PROVE Runs(Shift(w, 0)) = Runs(w) + 1
  <2>1. Runs(w) \in 0 .. 5 /\ IsRun(w, Runs(w))
    BY <1>4, RunType
  <2>2. IsRun(Shift(w, 0), Runs(w) + 1)
    BY <1>2, <2>1 DEF IsRun
  <2> QED BY <1>1, <2>1, <2>2, RunIs
<1> QED BY <1>3, <1>4

LEMMA RunStuffed == Runs(<<1, 1, 1, 1, 1, 1>>) = 0 /\ ~RunOfSix(<<1, 1, 1, 1, 1, 1>>, 0)
<1>1. IsRun(<<1, 1, 1, 1, 1, 1>>, 0)
  BY DEF IsRun
<1>2. Runs(<<1, 1, 1, 1, 1, 1>>) = 0
  BY <1>1, Logs, RunIs
<1> QED BY <1>2, Logs, RunType

\* The bits of the packet that are out.
LEMMA Written ==
    ASSUME WriterTypes, WriterInv
    PROVE  /\ BitsWritten \in Nat /\ BitsWritten <= Len(packet) /\ Len(packet) \in Nat
           /\ Len(packet) >= 8
           /\ wpc = "bit" => BitsWritten < Len(packet)
           /\ wpc \in {"eof_stuff", "se0"} => BitsWritten = Len(packet)
           /\ wpc = "header" => BitsWritten = 0
<1>1. Len(packet) \in Nat
  BY DEF WriterInv, WholeBytes
<1> QED BY <1>1 DEF WriterTypes, WriterInv, BitsWritten

\* With the PIDs in use the first zero comes within four bits.
LEMMA FirstZero ==
    ASSUME WriterTypes, WriterInv, PidsInUse, AllOnes PROVE BitsWritten < 4
<1>1. PICK i \in 1 .. 4 : packet[i] = 0
  BY DEF WriterTypes, PidsInUse
<1>2. ~(i \in 1 .. BitsWritten)
  BY <1>1 DEF AllOnes
<1> QED BY <1>2, Written
LEMMA StuffInit == Init => StuffInv
<1> SUFFICES ASSUME Init PROVE StuffInv
  OBVIOUS
<1> QED BY DEF Init, WriterInit, StuffInv

\* What usbPhyWriteI does with a bit, seen as a run of ones of the packet.
LEMMA BitGoesOut ==
    ASSUME WriterTypes, WriterInv, StuffInv, WriteBit
    PROVE  LET b == packet[BitsWritten + 1]
           IN  /\ b \in {0, 1} /\ BitsWritten' = BitsWritten + 1
               /\ wstuff' = Shift(wstuff, 1 - b) /\ wstuff' \in [1 .. 6 -> {0, 1}]
               /\ line' = IF b = 1 THEN line ELSE Usb!Flip(line)
               /\ line' = Symbol(wlastsym')
               /\ IF RunOfSix(wstuff', 0) THEN wpc' \in {"stuff", "eof_stuff"}
                                          ELSE wpc' \in {"bit", "se0"}
<1> DEFINE b == packet[BitsWritten + 1]
<1>1. wpc = "bit" /\ packet' = packet
  BY DEF WriteBit
<1>2. BitsWritten + 1 = 8 * wbytes - wleft + 1
  BY DEF BitsWritten
<1>3. InvertedBit \in {0, 1} /\ b = 1 - InvertedBit
  BY <1>1, <1>2, BitSent
<1>4. b \in {0, 1} /\ InvertedBit = 1 - b
  BY <1>3
<1> HIDE DEF b
<1>5. wstuff' = Shift(wstuff, 1 - b) /\ wstuff' \in [1 .. 6 -> {0, 1}]
  <2>1. wstuff' = Shift(wstuff, 1 - b)
    BY <1>4 DEF WriteBit
  <2>2. 1 - b \in {0, 1} /\ wstuff \in [1 .. 6 -> {0, 1}]
    BY <1>4 DEF WriterTypes
  <2> QED BY <2>1, <2>2, ShiftType
<1>6. BitsWritten' = BitsWritten + 1
  <2>1. wbytes \in Nat /\ wleft \in 0 .. 8
    BY DEF WriterTypes
  <2> QED BY <2>1 DEF WriteBit, NextBit, BitsWritten
<1>7. line' = Symbol(wlastsym') /\ wlastsym' = (wlastsym + (1 - b)) % 2
      /\ line = Symbol(wlastsym) /\ wlastsym \in {0, 1}
  BY <1>1, <1>4 DEF WriteBit, StuffInv, WriterTypes
<1>8. line' = IF b = 1 THEN line ELSE Usb!Flip(line)
  BY <1>4, <1>7 DEF Symbol, Usb!Flip
<1>9. IF RunOfSix(wstuff', 0) THEN wpc' \in {"stuff", "eof_stuff"} ELSE wpc' \in {"bit", "se0"}
  <2>1. NextBit(wstuff')
    BY DEF WriteBit
  <2> QED BY <2>1 DEF NextBit
<1> QED BY <1>4, <1>5, <1>6, <1>7, <1>8, <1>9 DEF b

LEMMA OneMoreOne ==
    ASSUME WriterTypes, WriterInv, packet' = packet, BitsWritten' = BitsWritten + 1
    PROVE  AllOnes' <=> AllOnes /\ packet[BitsWritten + 1] = 1
BY Written DEF AllOnes

\* The writer's log before and after a bit.
LEMMA BitStuffs ==
    ASSUME WriterTypes, WriterInv, PidsInUse, StuffInv, WriteBit, WriterTypes', WriterInv'
    PROVE  StuffInv'
<1> DEFINE b == packet[BitsWritten + 1]
           n == BitsWritten
<1>1. /\ b \in {0, 1} /\ BitsWritten' = n + 1
      /\ wstuff' = Shift(wstuff, 1 - b) /\ wstuff' \in [1 .. 6 -> {0, 1}]
      /\ line' = Symbol(wlastsym')
      /\ IF RunOfSix(wstuff', 0) THEN wpc' \in {"stuff", "eof_stuff"}
                                 ELSE wpc' \in {"bit", "se0"}
  BY BitGoesOut
<1>2. wpc = "bit" /\ packet' = packet /\ whead' = whead /\ whead = 8
  BY DEF WriteBit, StuffInv
<1>3. AllOnes' <=> AllOnes /\ b = 1
  BY <1>1, <1>2, OneMoreOne
<1>4. AllOnes' => n + 1 < 4 /\ n \in Nat
  <2>1. PidsInUse'
    BY DEF PidsInUse
  <2>2. PidsInUse /\ WriterTypes' /\ WriterInv' /\ AllOnes' => BitsWritten' < 4
    <3>1. SUFFICES ASSUME AllOnes' PROVE BitsWritten' < 4
      OBVIOUS
    <3>2. PICK i \in 1 .. 4 : packet'[i] = 0
      BY DEF WriterTypes, PidsInUse
    <3>3. ~(i \in 1 .. BitsWritten')
      BY <3>1, <3>2 DEF AllOnes
    <3> QED BY <1>1, <3>3, Written
  <2> QED BY <1>1, <2>2, Written
<1>5. ASSUME AllOnes'
      PROVE  /\ \A i \in 1 .. 6 : wstuff'[i] = IF i <= n + 3 THEN 0 ELSE 1
             /\ ~RunOfSix(wstuff', 0)
  <2>1. b = 1 /\ n \in Nat /\ n + 1 < 4
        /\ \A i \in 1 .. 6 : wstuff[i] = IF i <= n + 2 THEN 0 ELSE 1
    BY <1>2, <1>3, <1>4, <1>5 DEF StuffInv
  <2>2. wstuff'[1] = 0 /\ \A i \in 2 .. 6 : wstuff'[i] = wstuff[i - 1]
    BY <1>1, <2>1 DEF Shift
  <2>3. \A i \in 1 .. 6 : wstuff'[i] = IF i <= n + 3 THEN 0 ELSE 1
    BY <2>1, <2>2
  <2>4. wstuff'[6] = 1
    BY <2>1, <2>3
  <2> QED BY <2>3, <2>4 DEF RunOfSix
<1>6. AllOnes' => \A i \in 1 .. 6 : wstuff'[i] = IF i <= BitsWritten' + 2 THEN 0 ELSE 1
  <2> SUFFICES ASSUME AllOnes', NEW i \in 1 .. 6
               PROVE  wstuff'[i] = IF i <= BitsWritten' + 2 THEN 0 ELSE 1
    OBVIOUS
  <2>1. wstuff'[i] = IF i <= n + 3 THEN 0 ELSE 1
    BY <1>5
  <2>2. BitsWritten' + 2 = n + 3
    BY <1>1, Written
  <2> QED BY <2>1, <2>2
<1> HIDE DEF b, n
<1> QED BY <1>1, <1>2, <1>5, <1>6 DEF StuffInv

LEMMA StuffStep ==
    ASSUME PidsInUse, WriterTypes, WriterInv, WriterTypes', WriterInv', StuffInv, Driven
    PROVE  StuffInv'
<1>1. CASE WriteHeader
  <2>1. /\ wpc = "header" /\ whead' = whead + 1 /\ line' = Header[whead'] /\ whead < 8
        /\ wpc' = IF whead' = 8 THEN "bit" ELSE "header"
        /\ UNCHANGED <<packet, wbytes, wleft, wlastsym, wstuff>>
        /\ wlastsym = 1 /\ wstuff = <<0, 0, 1, 1, 1, 1>>
    BY <1>1, HeaderFacts DEF WriteHeader, WriterInv
  <2>2. BitsWritten = 0 /\ BitsWritten' = 0
    BY <2>1 DEF WriterInv, BitsWritten
  <2>3. Header[8] = "K" /\ Symbol(1) = "K"
    BY DEF Header, Symbol
  <2>4. ~RunOfSix(wstuff, 0) /\ \A i \in 1 .. 6 : wstuff[i] = IF i <= 2 THEN 0 ELSE 1
    BY <2>1 DEF RunOfSix
  <2>5. ~RunOfSix(wstuff', 0) /\ \A i \in 1 .. 6 : wstuff'[i] = IF i <= BitsWritten' + 2 THEN 0 ELSE 1
    BY <2>1, <2>2, <2>4
  <2> QED BY <2>1, <2>3, <2>5 DEF StuffInv
<1>2. CASE WriteBit
  BY <1>2, BitStuffs
<1>3. CASE WriteStuffBit \/ WriteEofStuffBit
  <2>1. /\ wpc \in {"stuff", "eof_stuff"} /\ wpc' \in {"bit", "se0"}
        /\ wstuff' = <<1, 1, 1, 1, 1, 1>> /\ line' = Symbol(wlastsym')
        /\ UNCHANGED <<packet, whead, wbytes, wleft>>
    BY <1>3 DEF WriteStuffBit, WriteEofStuffBit, InvertSymbol
  <2>2. ~RunOfSix(wstuff', 0)
    BY <2>1, RunStuffed
  <2>3. ~AllOnes' /\ whead = 8
    BY <2>1 DEF StuffInv, AllOnes, BitsWritten
  <2> QED BY <2>1, <2>2, <2>3 DEF StuffInv
<1>4. CASE WriteSe0 \/ WriteRest \/ LineIdle \/ Stop
  BY <1>4 DEF WriteSe0, WriteRest, LineIdle, Stop, writerVars, StuffInv
<1> QED BY <1>1, <1>2, <1>3, <1>4 DEF Driven, WriterStep

\* The ones since the last change of the line: all of the packet so far and the
\* sync pattern's, or what the log says.
LEMMA OnesAre ==
    OnesWritten = IF AllOnes THEN BitsWritten + 1 ELSE Runs(wstuff)
BY DEF OnesWritten, AllOnes, Runs, IsRun

LEMMA OnesStay ==
    ASSUME UNCHANGED <<packet, wbytes, wleft, wstuff>>
    PROVE  OnesWritten' = OnesWritten /\ BitsWritten' = BitsWritten
BY DEF OnesWritten, BitsWritten

UsbSent == IF whead < 8 THEN whead ELSE BitsWritten
UsbPhase == CASE wpc = "header" -> "sync"
              [] wpc \in {"bit", "stuff", "eof_stuff", "se0"} -> "data"
              [] wpc = "se0_again" -> "se0"
              [] wpc = "rest" -> "rest"
              [] wpc = "idle" -> "idle"

LEMMA Phases ==
    /\ wpc = "header" => UsbPhase = "sync"
    /\ wpc \in {"bit", "stuff", "eof_stuff", "se0"} => UsbPhase = "data"
    /\ wpc = "se0_again" => UsbPhase = "se0"
    /\ wpc = "rest" => UsbPhase = "rest"
    /\ wpc = "idle" => UsbPhase = "idle"
BY DEF UsbPhase
LEMMA HeaderIsSync ==
    ASSUME WriterTypes, WriterInv, WriteHeader PROVE Usb!Sync
<1>1. /\ wpc = "header" /\ whead' = whead + 1 /\ line' = Header[whead + 1] /\ whead \in 0 .. 7
      /\ wpc' = IF whead' = 8 THEN "bit" ELSE "header"
      /\ UNCHANGED <<packet, wbytes, wleft, wstuff>>
  BY HeaderFacts DEF WriteHeader, WriterInv, WriterTypes
<1>2. BitsWritten' = 0 /\ UNCHANGED OnesWritten
  BY <1>1, Written, OnesStay
<1>3. UsbPhase = "sync" /\ UsbSent = whead
  BY <1>1 DEF UsbPhase, UsbSent
<1>4. line' = Usb!SyncPattern[UsbSent + 1]
  BY <1>1, <1>3 DEF Usb!SyncPattern, Header
<1>5. IF UsbSent + 1 = 8 THEN UsbPhase' = "data" /\ UsbSent' = 0
                         ELSE UsbPhase' = "sync" /\ UsbSent' = UsbSent + 1
  <2>1. CASE whead = 7
    BY <1>1, <1>2, <1>3, <2>1 DEF UsbPhase, UsbSent
  <2>2. CASE whead # 7
    BY <1>1, <1>3, <2>2 DEF UsbPhase, UsbSent
  <2> QED BY <2>1, <2>2
<1> QED BY <1>1, <1>2, <1>3, <1>4, <1>5 DEF Usb!Sync, UsbPhase, UsbSent

LEMMA OnesBelowSix ==
    ASSUME WriterTypes, WriterInv, PidsInUse, StuffInv
    PROVE  /\ wpc \in {"bit", "se0"} => OnesWritten < 6
           /\ wpc \in {"stuff", "eof_stuff"} => OnesWritten = 6
<1>1. Runs(wstuff) \in 0 .. 6 /\ (Runs(wstuff) = 6 <=> RunOfSix(wstuff, 0))
  BY RunType DEF WriterTypes
<1>2. AllOnes => BitsWritten < 4 /\ BitsWritten \in Nat
  BY FirstZero, Written
<1> QED BY <1>1, <1>2, OnesAre DEF StuffInv

LEMMA BitIsBit ==
    ASSUME WriterTypes, WriterInv, PidsInUse, StuffInv, WriteBit PROVE Usb!Bit
<1> DEFINE b == packet[BitsWritten + 1]
<1>1. /\ b \in {0, 1} /\ BitsWritten' = BitsWritten + 1 /\ wstuff' = Shift(wstuff, 1 - b)
      /\ line' = IF b = 1 THEN line ELSE Usb!Flip(line)
      /\ wpc' \in {"stuff", "eof_stuff", "bit", "se0"}
  BY BitGoesOut
<1>2. wpc = "bit" /\ UNCHANGED <<packet, whead>> /\ whead = 8
  BY DEF WriteBit, StuffInv
<1>3. UsbPhase = "data" /\ UsbPhase' = "data" /\ UsbSent = BitsWritten /\ UsbSent' = BitsWritten + 1
  BY <1>1, <1>2 DEF UsbPhase, UsbSent
<1>4. BitsWritten \in Nat /\ BitsWritten < Len(packet)
  BY <1>2, Written
<1>5. OnesWritten < 6
  BY <1>2, OnesBelowSix
<1>6. OnesWritten' = IF b = 1 THEN OnesWritten + 1 ELSE 0
  <2>1. AllOnes' <=> AllOnes /\ b = 1
    BY <1>1, <1>2, OneMoreOne
  <2>2. OnesWritten' = IF AllOnes' THEN BitsWritten' + 1 ELSE Runs(wstuff')
    BY DEF OnesWritten, AllOnes, Runs, IsRun
  <2>3. /\ Runs(wstuff) < 6 => Runs(Shift(wstuff, 0)) = Runs(wstuff) + 1
        /\ Runs(Shift(wstuff, 1)) = 0
    BY RunShift DEF WriterTypes
  <2>4. CASE b = 0
    BY <1>1, <2>1, <2>2, <2>3, <2>4
  <2>5. CASE b = 1 /\ AllOnes
    BY <1>1, <2>1, <2>2, <2>5, OnesAre
  <2>6. CASE b = 1 /\ ~AllOnes
    <3>1. OnesWritten = Runs(wstuff)
      BY <2>6, OnesAre
    <3> QED BY <1>1, <1>5, <2>1, <2>2, <2>3, <2>6, <3>1
  <2> QED BY <1>1, <2>4, <2>5, <2>6
<1>7. /\ UsbPhase = "data" /\ OnesWritten < Usb!MaxOnes /\ UsbSent < Len(packet)
      /\ IF packet[UsbSent + 1] = 1
         THEN line' = line /\ OnesWritten' = OnesWritten + 1
         ELSE line' = Usb!Flip(line) /\ OnesWritten' = 0
      /\ UsbSent' = UsbSent + 1 /\ packet' = packet /\ UsbPhase' = UsbPhase
  BY <1>1, <1>2, <1>3, <1>4, <1>5, <1>6 DEF Usb!MaxOnes
<1> QED BY <1>7, Zenon DEF Usb!Bit, UsbPhase, UsbSent

LEMMA StuffIsStuff ==
    ASSUME WriterTypes, WriterInv, PidsInUse, StuffInv, WriteStuffBit \/ WriteEofStuffBit
    PROVE  Usb!Stuff
<1>1. /\ wpc \in {"stuff", "eof_stuff"} /\ wpc' \in {"bit", "se0"}
      /\ wstuff' = <<1, 1, 1, 1, 1, 1>> /\ line' = Symbol((wlastsym + 1) % 2)
      /\ UNCHANGED <<packet, whead, wbytes, wleft>>
  BY DEF WriteStuffBit, WriteEofStuffBit, InvertSymbol
<1>2. line = Symbol(wlastsym) /\ wlastsym \in {0, 1} /\ ~AllOnes
  BY <1>1 DEF StuffInv, WriterTypes
<1>3. line' = Usb!Flip(line)
  BY <1>1, <1>2 DEF Symbol, Usb!Flip
<1>4. OnesWritten' = 0
  <2>1. ~AllOnes'
    BY <1>1, <1>2 DEF AllOnes, BitsWritten
  <2>2. OnesWritten' = IF AllOnes' THEN BitsWritten' + 1 ELSE Runs(wstuff')
    BY DEF OnesWritten, AllOnes, Runs, IsRun
  <2> QED BY <1>1, <2>1, <2>2, RunStuffed
<1>5. OnesWritten = 6
  BY <1>1, OnesBelowSix
<1>6. UsbPhase = "data" /\ UsbPhase' = "data" /\ UsbSent' = UsbSent
  BY <1>1 DEF UsbPhase, UsbSent, BitsWritten
<1>7. /\ UsbPhase = "data" /\ OnesWritten = Usb!MaxOnes
      /\ line' = Usb!Flip(line) /\ OnesWritten' = 0
      /\ UNCHANGED <<packet, UsbPhase, UsbSent>>
  BY <1>1, <1>3, <1>4, <1>5, <1>6 DEF Usb!MaxOnes
<1> QED BY <1>7, Zenon DEF Usb!Stuff, UsbPhase, UsbSent

LEMMA EndIsEnd ==
    ASSUME WriterTypes, WriterInv, PidsInUse, StuffInv, WriteSe0 \/ WriteRest
    PROVE  Usb!EndOfPacket
<1>1. UNCHANGED <<packet, whead, wbytes, wleft, wstuff>>
  BY DEF WriteSe0, WriteRest
<1>2. UNCHANGED <<packet, UsbSent, OnesWritten>>
  BY <1>1, OnesStay DEF UsbSent
<1>3. \/ /\ UsbPhase = "data" /\ OnesWritten < Usb!MaxOnes /\ UsbSent = Len(packet)
         /\ UsbPhase' = "se0" /\ line' = "SE0"
      \/ UsbPhase = "se0" /\ UsbPhase' = "rest" /\ line' = "SE0"
      \/ UsbPhase = "rest" /\ UsbPhase' = "idle" /\ line' = "J"
  <2>1. CASE wpc = "se0" /\ wpc' = "se0_again" /\ line' = "SE0"
    <3>1. OnesWritten < Usb!MaxOnes
      BY <2>1, OnesBelowSix DEF Usb!MaxOnes
    <3>2. UsbSent = Len(packet)
      BY <2>1, Written DEF UsbSent, StuffInv
    <3> QED BY <2>1, <3>1, <3>2 DEF UsbPhase
  <2>2. CASE wpc = "se0_again" /\ wpc' = "rest" /\ line' = "SE0"
    BY <2>2 DEF UsbPhase
  <2>3. CASE wpc = "rest" /\ wpc' = "idle" /\ line' = "J"
    BY <2>3 DEF UsbPhase
  <2> QED BY <2>1, <2>2, <2>3 DEF WriteSe0, WriteRest
<1> QED BY <1>2, <1>3, Zenon DEF Usb!EndOfPacket, UsbPhase, UsbSent

LEMMA StopIsStop == ASSUME Stop PROVE Usb!Stop
<1>1. UNCHANGED <<packet, UsbSent, OnesWritten>>
  BY OnesStay DEF Stop, UsbSent
<1>2. UsbPhase' = "idle" /\ line' = "J"
  BY DEF Stop, UsbPhase
<1> QED BY <1>1, <1>2, Zenon DEF Usb!Stop, UsbPhase, UsbSent

\* What usbPhyWriteI puts on the line is a USB packet, bit stuffing included, for
\* any packets that start with a PID in use.
THEOREM LineRefinement == ASSUME PidsInUse PROVE Spec => ImplementsUsbLine
<1>1. Init => Usb!Init
  <2> SUFFICES ASSUME Init PROVE Usb!Init
    OBVIOUS
  <2>1. IInv
    BY InitInv
  <2>2. packet \in Packets /\ line = "J" /\ UsbPhase = "sync" /\ UsbSent = 0
    BY DEF Init, WriterInit, UsbPhase, UsbSent
  <2>3. BitsWritten = 0
    BY <2>1, Written DEF Init, WriterInit, IInv
  <2>4. OnesWritten = 1
    BY <2>3, OnesAre DEF AllOnes
  <2> QED BY <2>2, <2>4, Zenon DEF Usb!Init, UsbPhase, UsbSent
<1>2. IInv /\ IInv' /\ StuffInv /\ [BitTime]_vars => StuffInv'
  <2> SUFFICES ASSUME IInv, IInv', StuffInv, [BitTime]_vars PROVE StuffInv'
    OBVIOUS
  <2>1. CASE UNCHANGED vars
    BY <2>1 DEF vars, writerVars, StuffInv, AllOnes, BitsWritten
  <2>2. CASE BitTime
    BY <2>2, StuffStep DEF BitTime, IInv
  <2> QED BY <2>1, <2>2
<1>3. IInv /\ StuffInv /\ [BitTime]_vars => [Usb!Next]_(Usb!vars)
  <2> SUFFICES ASSUME IInv, StuffInv, [BitTime]_vars
               PROVE  Usb!Next \/ UNCHANGED <<packet, UsbPhase, UsbSent, OnesWritten, line>>
    BY DEF Usb!vars, UsbPhase, UsbSent
  <2>1. WriterTypes /\ WriterInv
    BY DEF IInv
  <2>2. CASE UNCHANGED writerVars
    BY <2>2, OnesStay DEF writerVars, UsbPhase, UsbSent
  <2>3. CASE WriteHeader
    BY <2>1, <2>3, HeaderIsSync DEF Usb!Next
  <2>4. CASE WriteBit
    BY <2>1, <2>4, BitIsBit DEF Usb!Next
  <2>5. CASE WriteStuffBit \/ WriteEofStuffBit
    BY <2>1, <2>5, StuffIsStuff DEF Usb!Next
  <2>6. CASE WriteSe0 \/ WriteRest
    BY <2>1, <2>6, EndIsEnd DEF Usb!Next
  <2>7. CASE Stop
    BY <2>7, StopIsStop DEF Usb!Next
  <2> QED BY <2>2, <2>3, <2>4, <2>5, <2>6, <2>7 DEF BitTime, Driven, WriterStep, LineIdle, vars
<1> QED BY <1>1, <1>2, <1>3, StuffInit, Invariance, PTL DEF Spec, ImplementsUsbLine, Usb!Spec
-----------------------------------------------------------------------------
(* No reader leaves its slot, in step or not.  It may read a stuffed bit as *)
(* a bit of the packet, but not more of them than it has missed bits; and   *)
(* on the resting line it finds a run of six in every seven bits, which is  *)
(* where the code looks at the length.                                      *)

Fits    == Len(packet) <= 8 * MaxBytes
Stuffed == {"stuff", "eof_stuff"}
AtBits  == rpc \in {"bits", "unstuff"}
Right   == rlastval = 1 - wlastsym
Ahead(n) == rcounter + n <= BitsWritten

\* In step, or enough bits behind; at a stuffed bit with the level, or one more.
Behind ==
    /\ Ahead(0)
    /\ rpc = "bits" => \/ Right /\ Agree /\ wpc \notin Stuffed
                       \/ Right /\ Ahead(1)
                       \/ Ahead(1) /\ wpc \notin Stuffed
                       \/ Ahead(2)
    /\ rpc = "unstuff" => Right /\ ((Agree /\ wpc \in Stuffed) \/ Ahead(1))

\* The run of ones that J makes comes to six by the 95th bit.
Resting ==
    /\ rpc = "bits" => \/ rlastval = 0 /\ rcounter <= 88
                       \/ /\ rlastval = 1
                          /\ \E k \in 0 .. 5 : /\ \A i \in 1 .. k : runstuff[i] = 1
                                               /\ rcounter + 6 - k <= 95
    /\ rpc = "unstuff" => rcounter <= 95

Stored == Len(out) % 8 = 0 /\ Len(out) + Len(rsample) = rcounter

SyncPlace ==
    /\ wpc = "header" /\ whead > 0 => line = Header[whead]
    /\ rpc \in {"flip", "sync"} /\ wpc = "header" => whead > 0 /\ rlastval = DMinus(line)
    /\ rpc = "flip" /\ wpc \in Sending => wpc = "bit"
    /\ rpc = "sync" /\ wpc \in Sending => BitsWritten >= 1
    /\ ~AtBits /\ rpc # "done" => Fresh
    /\ AtBits => wpc # "header"
    /\ wpc = "idle" => line = "J"

\* There is room for the byte being read, 11 bytes and seven bits in all.
Slotted ==
    /\ rcounter <= 95
    /\ AtBits /\ wpc \in Sending => Behind
    /\ AtBits /\ wpc \in {"se0_again", "rest"} => rcounter <= 88
    /\ AtBits /\ wpc = "idle" => Resting

SlotInv == Stored /\ SyncPlace /\ (Fits => Slotted)

\* Both sides of a step, apart.
LEMMA BitSteps ==
    ASSUME WriterTypes, WriterInv, WriterTypes', WriteBit
    PROVE  /\ wpc = "bit" /\ wpc' \in Sending /\ packet' = packet
           /\ BitsWritten' = BitsWritten + 1
           /\ \E b \in {0, 1} : /\ wstuff' = Shift(wstuff, 1 - b)
                                /\ wlastsym' = IF b = 1 THEN wlastsym ELSE 1 - wlastsym
           /\ line' = Symbol(wlastsym')
           /\ wpc' \in Stuffed <=> RunOfSix(wstuff', 0)
<1> DEFINE b == 1 - InvertedBit
<1>1. wpc = "bit" /\ packet' = packet /\ line' = Symbol(wlastsym')
      /\ wstuff' = Shift(wstuff, InvertedBit) /\ wlastsym' = (wlastsym + InvertedBit) % 2
  BY DEF WriteBit
<1>2. InvertedBit \in {0, 1} /\ b \in {0, 1} /\ InvertedBit = 1 - b
  BY <1>1, BitSent
<1>3. wlastsym' = IF b = 1 THEN wlastsym ELSE 1 - wlastsym
  BY <1>1, <1>2 DEF WriterTypes
<1>4. BitsWritten' = BitsWritten + 1
  <2>1. wbytes \in Nat /\ wleft \in 0 .. 8
    BY DEF WriterTypes
  <2> QED BY <2>1 DEF WriteBit, NextBit, BitsWritten
<1>5. wpc' \in Sending /\ (wpc' \in Stuffed <=> RunOfSix(wstuff', 0))
  <2>1. NextBit(wstuff')
    BY DEF WriteBit
  <2>2. \/ RunOfSix(wstuff', 0) /\ wpc' \in {"stuff", "eof_stuff"}
        \/ ~RunOfSix(wstuff', 0) /\ wpc' \in {"bit", "se0"}
    BY <2>1 DEF NextBit
  <2> QED BY <2>2 DEF Sending, Stuffed
<1>6. \E d \in {0, 1} : /\ wstuff' = Shift(wstuff, 1 - d)
                        /\ wlastsym' = IF d = 1 THEN wlastsym ELSE 1 - wlastsym
  <2>1. wstuff' = Shift(wstuff, 1 - b)
    BY <1>1, <1>2
  <2> QED BY <1>2, <1>3, <2>1
<1> QED BY <1>1, <1>4, <1>5, <1>6

LEMMA StuffSteps ==
    ASSUME WriterTypes, WriteStuffBit \/ WriteEofStuffBit
    PROVE  /\ wpc \in Stuffed /\ wpc' \in Sending /\ wpc' \notin Stuffed /\ packet' = packet
           /\ BitsWritten' = BitsWritten
           /\ wstuff'[1] = 1 /\ ~RunOfSix(wstuff', 0)
           /\ wlastsym' = 1 - wlastsym /\ line' = Symbol(wlastsym')
<1>1. /\ wpc \in {"stuff", "eof_stuff"} /\ wpc' \in {"bit", "se0"}
      /\ wstuff' = <<1, 1, 1, 1, 1, 1>> /\ wlastsym' = (wlastsym + 1) % 2
      /\ line' = Symbol(wlastsym') /\ UNCHANGED <<packet, wbytes, wleft>>
  BY DEF WriteStuffBit, WriteEofStuffBit, InvertSymbol
<1>2. wlastsym' = 1 - wlastsym
  BY <1>1 DEF WriterTypes
<1>3. wstuff'[1] = 1 /\ ~RunOfSix(wstuff', 0)
  BY <1>1, RunStuffed
<1> QED BY <1>1, <1>2, <1>3 DEF Sending, Stuffed, BitsWritten

LEMMA BitReads ==
    ASSUME ReaderTypes, ReadBit(line'), ~IsSe0(line')
    PROVE  LET bit == IF DPlus(line') = rlastval THEN 1 ELSE 0
           IN  /\ rpc = "bits" /\ rcounter' = rcounter + 1 /\ rlastval' = DPlus(line')
               /\ runstuff' = PushBit(runstuff, bit)
               /\ rpc' = IF SixOnes(runstuff') THEN "unstuff" ELSE "bits"
BY DEF ReadBit, CheckUnstuff

\* Read in step or behind, a bit leaves the reader so.
LEMMA BehindAfter ==
    ASSUME rlastval' = 1 - wlastsym', Ahead(0)', Agree' \/ Ahead(1)',
           runstuff' \in [1 .. 6 -> {0, 1}], wstuff' \in [1 .. 6 -> {0, 1}],
           rpc' = IF SixOnes(runstuff') THEN "unstuff" ELSE "bits",
           wpc' \in Stuffed <=> RunOfSix(wstuff', 0)
    PROVE  Behind' /\ AtBits'
<1>1. Agree' => (SixOnes(runstuff') <=> RunOfSix(wstuff', 0))
  BY AgreeRun DEF Agree
<1>2. Right'
  BY DEF Right
<1>3. AtBits'
  BY DEF AtBits
<1> QED BY <1>1, <1>2, <1>3, Zenon DEF Behind

\* The bit the reader makes of the line, when it has the level right.
LEMMA BitSeen ==
    ASSUME NEW s \in {0, 1}, NEW t \in {0, 1}
    PROVE  1 - t = 1 - s <=> t = s
OBVIOUS

LEMMA BitWhileSending ==
    ASSUME WriterTypes, ReaderTypes, WriterInv, WriterTypes', ReaderTypes', Behind,
           WriteBit \/ WriteStuffBit \/ WriteEofStuffBit, ReadBit(line')
    PROVE  Behind' /\ AtBits'
<1> DEFINE bit == IF DPlus(line') = rlastval THEN 1 ELSE 0
<1>1. line' = Symbol(wlastsym') /\ wlastsym \in {0, 1} /\ wlastsym' \in {0, 1}
      /\ (wpc' \in Stuffed <=> RunOfSix(wstuff', 0))
  BY BitSteps, StuffSteps DEF WriterTypes
<1>2. DPlus(line') = 1 - wlastsym' /\ ~IsSe0(line')
  BY <1>1, Levels
<1>3. /\ rpc = "bits" /\ rcounter' = rcounter + 1 /\ rlastval' = 1 - wlastsym'
      /\ runstuff' = PushBit(runstuff, bit) /\ bit \in {0, 1}
      /\ rpc' = IF SixOnes(runstuff') THEN "unstuff" ELSE "bits"
  BY <1>2, BitReads
<1>4. /\ runstuff \in [1 .. 6 -> {0, 1}] /\ wstuff \in [1 .. 6 -> {0, 1}]
      /\ runstuff' \in [1 .. 6 -> {0, 1}] /\ wstuff' \in [1 .. 6 -> {0, 1}]
      /\ rcounter \in Nat /\ BitsWritten \in Nat
  BY Written DEF WriterTypes, ReaderTypes
<1>5. \/ Right /\ Agree /\ wpc \notin Stuffed
      \/ Right /\ Ahead(1)
      \/ Ahead(1) /\ wpc \notin Stuffed
      \/ Ahead(2)
  BY <1>3 DEF Behind
<1>6. Ahead(0)
  BY DEF Behind
<1>7. Right => (bit = 1 <=> wlastsym' = wlastsym)
  BY <1>1, <1>2, BitSeen DEF Right
<1> HIDE DEF bit
<1>8. CASE WriteBit
  <2>1. wpc = "bit" /\ BitsWritten' = BitsWritten + 1
    BY <1>8, BitSteps
  <2>2. PICK b \in {0, 1} : /\ wstuff' = Shift(wstuff, 1 - b)
                            /\ wlastsym' = IF b = 1 THEN wlastsym ELSE 1 - wlastsym
    BY <1>8, BitSteps
  <2>3. Ahead(0)' /\ (Ahead(1) => Ahead(1)') /\ (Ahead(2) => Ahead(1)')
    BY <1>3, <1>4, <1>6, <2>1 DEF Ahead
  <2>4. Right /\ Agree => Agree'
    <3> SUFFICES ASSUME Right, Agree PROVE Agree'
      OBVIOUS
    <3>1. bit = b
      BY <1>1, <1>3, <1>7, <2>2
    <3>2. runstuff' = PushBit(runstuff, b)
      BY <1>3, <3>1
    <3> QED BY <1>4, <2>2, <3>2, AgreeShift, SMTT(30) DEF Agree
  <2> QED BY <1>1, <1>3, <1>4, <1>5, <2>3, <2>4, BehindAfter
<1>9. CASE WriteStuffBit \/ WriteEofStuffBit
  <2>1. wpc \in Stuffed /\ BitsWritten' = BitsWritten /\ wstuff'[1] = 1 /\ wlastsym' = 1 - wlastsym
    BY <1>9, StuffSteps
  <2>2. Right => Agree'
    <3>1. Right => bit = 0
      BY <1>1, <1>3, <1>7, <2>1
    <3>2. bit = 0 => runstuff'[1] = 0
      BY <1>3 DEF PushBit
    <3>3. runstuff'[1] = 0 => Agree'
      BY <2>1 DEF Agree
    <3> QED BY <3>1, <3>2, <3>3
  <2>3. (Ahead(1) => Ahead(0)') /\ (Ahead(2) => Ahead(1)' /\ Ahead(0)')
    BY <1>3, <1>4, <2>1 DEF Ahead
  <2> QED BY <1>1, <1>3, <1>4, <1>5, <2>1, <2>2, <2>3, BehindAfter
<1> QED BY <1>8, <1>9

LEMMA UnstuffWhileSending ==
    ASSUME WriterTypes, ReaderTypes, WriterInv, WriterTypes', ReaderTypes', Behind,
           rcounter <= 8 * MaxBytes,
           WriteBit \/ WriteStuffBit \/ WriteEofStuffBit, Unstuff(line')
    PROVE  Behind' /\ AtBits'
<1>1. /\ rpc = "unstuff" /\ rcounter' = rcounter /\ rlastval' = 1 - rlastval /\ rpc' = "bits"
      /\ runstuff' = <<0, 1, 0, 0, 0, 0>>
  BY DEF Unstuff, ReaderTypes, MaxBytes
<1>2. AtBits' /\ runstuff'[1] = 0
  BY <1>1 DEF AtBits
<1>3. Right /\ ((Agree /\ wpc \in Stuffed) \/ Ahead(1)) /\ Ahead(0)
  BY <1>1 DEF Behind
<1>4. rcounter \in Nat /\ BitsWritten \in Nat /\ wlastsym \in {0, 1}
  BY Written DEF WriterTypes, ReaderTypes
<1>5. CASE WriteBit
  <2>1. wpc \notin Stuffed /\ BitsWritten' = BitsWritten + 1
    BY <1>5, BitSteps DEF Stuffed
  <2>2. Ahead(2)' /\ Ahead(0)'
    BY <1>1, <1>3, <1>4, <2>1 DEF Ahead
  <2> QED BY <1>1, <1>2, <2>2 DEF Behind
<1>6. CASE WriteStuffBit \/ WriteEofStuffBit
  <2>1. /\ wpc' \notin Stuffed /\ BitsWritten' = BitsWritten /\ wstuff'[1] = 1
        /\ wlastsym' = 1 - wlastsym
    BY <1>6, StuffSteps
  <2>2. Right'
    BY <1>1, <1>3, <1>4, <2>1 DEF Right
  <2>3. Agree'
    BY <1>2, <2>1 DEF Agree
  <2>4. Ahead(0)'
    BY <1>1, <1>3, <2>1 DEF Ahead
  <2> QED BY <1>1, <1>2, <2>1, <2>2, <2>3, <2>4 DEF Behind
<1> QED BY <1>5, <1>6

\* SE0 ends the reading at once or at the end of a byte; the slot has room then.
LEMMA BitOfSe0 ==
    ASSUME ReaderTypes, AtBits, rcounter <= 88, IsSe0(line'),
           ReadBit(line') \/ Unstuff(line')
    PROVE  rcounter' <= 95 /\ (AtBits' => rcounter' <= 88)
<1>1. rcounter \in Nat
  BY DEF ReaderTypes
<1>2. CASE Unstuff(line')
  BY <1>1, <1>2 DEF Unstuff
<1>3. CASE ReadBit(line')
  <2>1. rcounter' = rcounter + 1 /\ (rcounter' % 8 = 0 \/ rpc' = "done")
    BY <1>3 DEF ReadBit, Exit, Return
  <2>2. rpc' = "done" => ~AtBits'
    BY DEF AtBits
  <2>3. rcounter + 1 <= 89 /\ ((rcounter + 1) % 8 = 0 => rcounter + 1 <= 88)
    BY <1>1
  <2> QED BY <2>1, <2>2, <2>3
<1> QED BY <1>2, <1>3

\* The resting line: with room for six bits more when it starts ...
LEMMA BitOfRest ==
    ASSUME ReaderTypes, ReaderTypes', AtBits, rcounter <= 88 \/ Resting, line' = "J",
           ReadBit(line') \/ Unstuff(line')
    PROVE  rcounter' <= 95 /\ Resting'
<1>1. rcounter \in Nat /\ rlastval \in {0, 1} /\ runstuff \in [1 .. 6 -> {0, 1}]
  BY DEF ReaderTypes
<1>2. DPlus(line') = 1 /\ ~IsSe0(line')
  BY DEF DPlus, IsSe0, DMinus
<1>3. CASE Unstuff(line')
  <2>1. /\ rpc = "unstuff" /\ rcounter' = rcounter /\ rlastval' = 1 - rlastval
        /\ rcounter > 88 => rpc' = "done"
        /\ rcounter <= 88 => rpc' = "bits"
    BY <1>1, <1>3 DEF Unstuff, Exit, Return, MaxBytes
  <2>2. rcounter <= 95
    BY <1>1, <2>1 DEF Resting
  <2>3. CASE rcounter > 88
    BY <1>1, <2>1, <2>2, <2>3 DEF Resting
  <2>4. CASE rcounter <= 88
    <3>1. rlastval' = 1 => \E k \in 0 .. 5 : (\A i \in 1 .. k : runstuff'[i] = 1)
                                             /\ rcounter' + 6 - k <= 95
      <4>1. (\A i \in 1 .. 0 : runstuff'[i] = 1) /\ rcounter' + 6 - 0 <= 95 /\ 0 \in 0 .. 5
        BY <1>1, <2>1, <2>4
      <4> QED BY <4>1
    <3>2. rlastval' \in {0, 1}
      BY <1>1, <2>1
    <3> QED BY <2>1, <2>2, <2>4, <3>1, <3>2 DEF Resting
  <2> QED BY <1>1, <2>3, <2>4
<1>4. CASE ReadBit(line')
  <2> DEFINE bit == IF DPlus(line') = rlastval THEN 1 ELSE 0
  <2>1. /\ rpc = "bits" /\ rcounter' = rcounter + 1 /\ rlastval' = 1
        /\ runstuff' = PushBit(runstuff, bit)
        /\ rpc' = IF SixOnes(runstuff') THEN "unstuff" ELSE "bits"
    BY <1>2, <1>4, BitReads
  <2>2. CASE rcounter <= 88
    <3>1. (\A i \in 1 .. 0 : runstuff'[i] = 1) /\ rcounter' + 6 - 0 <= 95 /\ 0 \in 0 .. 5
      BY <1>1, <2>1, <2>2
    <3>2. rcounter' <= 95
      BY <1>1, <2>1, <2>2
    <3> QED BY <2>1, <3>1, <3>2 DEF Resting
  <2>3. CASE rcounter > 88
    <3>1. rlastval = 1 /\ Resting
      BY <1>1, <2>1, <2>3 DEF Resting
    <3>2. PICK k \in 0 .. 5 : (\A i \in 1 .. k : runstuff[i] = 1) /\ rcounter + 6 - k <= 95
      BY <2>1, <3>1 DEF Resting
    <3>3. runstuff' = PushBit(runstuff, 1)
      BY <1>2, <2>1, <3>1
    <3>4. \A i \in 1 .. k + 1 : runstuff'[i] = 1
      BY <3>2, <3>3 DEF PushBit
    <3>5. rcounter' <= 95 /\ rcounter' + 6 - (k + 1) <= 95
      BY <1>1, <2>1, <3>2
    <3>6. CASE k = 5
      <4>1. SixOnes(runstuff')
        BY <3>4, <3>6 DEF SixOnes
      <4> QED BY <2>1, <3>5, <4>1 DEF Resting
    <3>7. CASE k # 5
      <4>1. k + 1 \in 0 .. 5
        BY <3>7
      <4> QED BY <2>1, <3>4, <3>5, <4>1 DEF Resting
    <3> QED BY <3>6, <3>7
  <2> QED BY <1>1, <2>2, <2>3
<1> QED BY <1>3, <1>4

\* ... at the end of the packet, or where its sender stops.
LEMMA BeforeStart ==
    ASSUME ReaderTypes, ~AtBits, rpc # "done" => Fresh, Sampled
    PROVE  /\ rcounter' = rcounter
           /\ AtBits' => rpc = "sync" /\ rpc' = "bits" /\ rlastval' = 0
                         /\ DMinus(line') = rlastval /\ Fresh'
           /\ rpc' \in {"off", "flip", "sync"} => Fresh'
<1>1. ~ReadBit(line') /\ ~Unstuff(line')
  BY DEF AtBits, ReadBit, Unstuff
<1>2. UNCHANGED <<runstuff, rcounter, rsample, out>>
  BY <1>1 DEF Sampled, Enter, ReadStart, ReadFlip, ReadSync, readerVars
<1>3. AtBits' => rpc = "sync" /\ rpc' = "bits" /\ rlastval' = 0 /\ DMinus(line') = rlastval
  BY <1>1 DEF AtBits, Sampled, Enter, ReadStart, ReadFlip, ReadSync, Return, readerVars
<1>4. rpc = "done" => rpc' = "done"
  BY <1>1 DEF Sampled, Enter, ReadStart, ReadFlip, ReadSync, Return, readerVars
<1>5. Fresh => Fresh'
  BY <1>2 DEF Fresh
<1> QED BY <1>2, <1>3, <1>4, <1>5 DEF AtBits

LEMMA AfterStart ==
    ASSUME AtBits, Sampled
    PROVE  ReadBit(line') \/ Unstuff(line')
BY DEF AtBits, Sampled, Enter, ReadStart, ReadFlip, ReadSync

LEMMA BitsOver ==
    ASSUME ReaderTypes, AtBits, Sampled PROVE AtBits' \/ rpc' = "done"
BY AfterStart DEF AtBits, ReadBit, Unstuff, CheckUnstuff, Exit, Return

LEMMA StoredStep ==
    ASSUME ReaderTypes, Stored, Sampled PROVE Stored'
<1>1. /\ out \in Seq({0, 1}) /\ rsample \in Seq({0, 1}) /\ rcounter \in Nat
      /\ Len(out) \in Nat /\ Len(rsample) \in Nat
      /\ Len(out) % 8 = 0 /\ Len(out) + Len(rsample) = rcounter
  BY LenProperties DEF ReaderTypes, Stored
<1>2. CASE UNCHANGED <<out, rsample, rcounter>>
  BY <1>2 DEF Stored
<1>3. CASE ReadBit(line')
  <2> DEFINE bit == IF DPlus(line') = rlastval THEN 1 ELSE 0
  <2>1. bit \in {0, 1}
    OBVIOUS
  <2>2. /\ rcounter' = rcounter + 1
        /\ \/ rcounter' % 8 = 0 /\ out' = out \o Append(rsample, bit) /\ rsample' = << >>
           \/ out' = out /\ rsample' = Append(rsample, bit)
    BY <1>3 DEF ReadBit, AdvanceByte
  <2> HIDE DEF bit
  <2>3. /\ Append(rsample, bit) \in Seq({0, 1}) /\ Len(Append(rsample, bit)) = Len(rsample) + 1
    BY <1>1, <2>1, AppendProperties
  <2>4. Len(out \o Append(rsample, bit)) = Len(out) + Len(Append(rsample, bit))
    BY <1>1, <2>3, ConcatProperties
  <2>5. Len(out) + Len(Append(rsample, bit)) = rcounter'
    BY <1>1, <2>2, <2>3
  <2>6. Len(<< >>) = 0
    OBVIOUS
  <2>7. CASE rcounter' % 8 = 0 /\ out' = out \o Append(rsample, bit) /\ rsample' = << >>
    <3>1. Len(out') = rcounter' /\ Len(out') % 8 = 0
      BY <2>4, <2>5, <2>7, Zenon
    <3>2. Len(rsample') = 0
      BY <2>7, <2>6, Zenon
    <3>3. Len(out') + Len(rsample') = rcounter' + 0
      BY <3>1, <3>2, Zenon
    <3>4. rcounter' + 0 = rcounter'
      <4>1. rcounter \in Nat /\ rcounter' = rcounter + 1
        BY <1>1, <2>2, Zenon
      <4> QED BY <4>1
    <3>5. Len(out') + Len(rsample') = rcounter'
      BY <3>3, <3>4, Zenon
    <3> QED BY <3>1, <3>5, Zenon DEF Stored
  <2>8. CASE out' = out /\ rsample' = Append(rsample, bit)
    BY <1>1, <2>5, <2>8, Zenon DEF Stored
  <2> QED BY <2>2, <2>7, <2>8
<1>4. Sampled => ReadBit(line') \/ UNCHANGED <<out, rsample, rcounter>>
  BY DEF Sampled, Enter, ReadStart, ReadFlip, ReadSync, Unstuff, readerVars
<1> QED BY <1>2, <1>3, <1>4

\* The reader comes to the bits only when the sync pattern has passed.
LEMMA PlaceStep ==
    ASSUME WriterTypes, ReaderTypes, WriterInv, WriterTypes', WriterInv',
           rpc = "off" => Fresh, SyncPlace, BitTime
    PROVE  SyncPlace'
<1>1. ~AtBits /\ rpc # "done" => Fresh
  BY DEF SyncPlace
<1>2. rpc \in {"off", "flip", "sync"} <=> ~AtBits /\ rpc # "done"
  BY DEF ReaderTypes, AtBits
<1>3. Sampled /\ Driven
  BY DEF BitTime
<1>4. ~AtBits' /\ rpc' # "done" => ~AtBits
  BY <1>3, BitsOver
<1>5. ~AtBits' /\ rpc' # "done" => Fresh'
  <2>1. ReaderTypes'
    BY <1>3, SampledTypes DEF WriterTypes
  <2> QED BY <1>1, <1>3, <1>4, <2>1, BeforeStart DEF ReaderTypes, AtBits
<1>6. /\ wpc' = "header" => wpc = "header"
      /\ wpc' \in Sending => wpc \in Sending \cup {"header"}
  BY <1>3 DEF Driven, LineIdle, Stop, writerVars, WriterStep, WriteHeader, WriteBit, NextBit,
     WriteStuffBit, WriteEofStuffBit, WriteSe0, WriteRest, Sending
<1>7. ASSUME wpc = "header", wpc' # "idle"
      PROVE  /\ whead' = whead + 1 /\ line' = Header[whead'] /\ whead \in 0 .. 7
             /\ wpc' = IF whead' = 8 THEN "bit" ELSE "header"
  BY <1>3, <1>7, HeaderStep DEF Driven, Stop, WriterTypes, WriterInv
<1>8. rpc' \in {"flip", "sync"} => rlastval' = DMinus(line')
  BY <1>3 DEF Sampled, Enter, ReadStart, ReadFlip, ReadSync, ReadBit, Unstuff, CheckUnstuff,
     Exit, Return, readerVars
<1>9. /\ rpc' = "flip" => rpc = "off" /\ wpc = "header"
      /\ rpc' = "sync" => rpc \in {"flip", "sync"} /\ DMinus(line') # rlastval
  BY <1>3, Levels DEF Sampled, Enter, ReadStart, ReadFlip, ReadSync, ReadBit, Unstuff,
     CheckUnstuff, Exit, Return, readerVars
<1>10. rpc \in {"flip", "sync"} /\ wpc = "header" => whead > 0 /\ rlastval = DMinus(Header[whead])
  BY DEF SyncPlace
<1>11. wpc' = "header" /\ whead' > 0 => line' = Header[whead']
  BY <1>6, <1>7
<1>12. wpc' = "header" => whead' > 0
  BY <1>6, <1>7
<1>13. rpc' = "flip" /\ wpc' \in Sending => wpc' = "bit"
  BY <1>7, <1>9 DEF Sending
<1>14. ASSUME rpc' = "sync", wpc' \in Sending PROVE BitsWritten' >= 1
  <2>1. rpc \in {"flip", "sync"} /\ DMinus(line') # rlastval
    BY <1>9, <1>14
  <2>2. wpc # "header"
    <3>1. SUFFICES ASSUME wpc = "header" PROVE FALSE
      OBVIOUS
    <3>2. wpc' # "idle" /\ wpc' # "header"
      BY <1>14 DEF Sending
    <3>3. whead = 7 /\ line' = Header[8]
      BY <1>7, <3>1, <3>2
    <3>4. rlastval = DMinus(Header[7])
      BY <1>10, <2>1, <3>1, <3>3
    <3> QED BY <2>1, <3>3, <3>4, HeaderFacts
  <2>3. wpc \in Sending
    BY <1>6, <1>14, <2>2
  <2>4. \/ WriteBit
        \/ WriteStuffBit \/ WriteEofStuffBit
    BY <1>3, <1>14, <2>3 DEF Driven, LineIdle, Stop, WriterStep, WriteHeader, WriteSe0,
       WriteRest, Sending
  <2>5. BitsWritten \in Nat
    BY Written
  <2>6. CASE WriteBit
    BY <2>5, <2>6, BitSteps
  <2>7. CASE WriteStuffBit \/ WriteEofStuffBit
    <3>1. wpc # "bit" /\ BitsWritten' = BitsWritten
      BY <2>7, StuffSteps DEF Stuffed
    <3>2. BitsWritten >= 1
      BY <2>1, <2>3, <3>1 DEF SyncPlace
    <3> QED BY <3>1, <3>2
  <2> QED BY <2>4, <2>6, <2>7
<1>15. ASSUME AtBits', wpc' = "header" PROVE FALSE
  <2>1. wpc = "header" /\ ~AtBits
    BY <1>6, <1>15 DEF SyncPlace
  <2>2. rpc = "sync" /\ DMinus(line') = rlastval
    <3>1. rpc = "done" => rpc' = "done"
      BY <1>3 DEF Sampled, Enter, ReadStart, ReadFlip, ReadSync, ReadBit, Unstuff, readerVars
    <3>2. rpc # "done"
      BY <1>15, <3>1 DEF AtBits
    <3> QED BY <1>1, <1>3, <1>15, <2>1, <3>2, BeforeStart
  <2>3. whead \in 1 .. 6 /\ line' = Header[whead + 1] /\ rlastval = DMinus(Header[whead])
    BY <1>7, <1>10, <1>15, <2>1, <2>2
  <2> QED BY <2>2, <2>3, HeaderFacts
<1>16. wpc' = "idle" => line' = "J"
  BY <1>3 DEF SyncPlace, Driven, LineIdle, Stop, writerVars, WriterStep, WriteHeader, WriteBit,
     NextBit, WriteStuffBit, WriteEofStuffBit, WriteSe0, WriteRest
<1> QED BY <1>5, <1>8, <1>11, <1>12, <1>13, <1>14, <1>15, <1>16 DEF SyncPlace

\* While the packet is sent no more of it is read than there is.
LEMMA BehindFits == WriterTypes /\ WriterInv /\ ReaderTypes /\ Fits /\ Behind => rcounter <= 88
<1> SUFFICES ASSUME WriterTypes, WriterInv, ReaderTypes, Fits, Behind PROVE rcounter <= 88
  OBVIOUS
<1>1. rcounter <= BitsWritten
  BY DEF Behind, Ahead, ReaderTypes
<1> QED BY <1>1, Written DEF Fits, MaxBytes, ReaderTypes

LEMMA BehindFitsNext ==
    (WriterTypes /\ WriterInv /\ ReaderTypes /\ Fits /\ Behind => rcounter <= 88)'
BY BehindFits, PTL

\* The step that ends the sync pattern, from where nothing is read.
LEMMA SlotAtStart ==
    ASSUME WriterTypes, ReaderTypes, WriterInv, WriterTypes', WriterInv', ReaderTypes',
           SyncPlace, SyncPlace', rpc = "off" => Fresh, Slotted, ~AtBits, BitTime
    PROVE  Slotted'
<1>1. rpc # "done" => Fresh
  BY DEF SyncPlace
<1>2. /\ rcounter' = rcounter
      /\ AtBits' => rpc = "sync" /\ rpc' = "bits" /\ rlastval' = 0 /\ Fresh'
  BY <1>1, BeforeStart DEF BitTime
<1>3. rcounter' <= 95
  BY <1>2 DEF Slotted
<1>4. ASSUME AtBits' PROVE rcounter' = 0 /\ Resting'
  BY <1>2, <1>4 DEF Fresh, Resting
<1>5. ASSUME AtBits', wpc' \in Sending PROVE Behind'
  <2>1. rpc = "sync" /\ rpc' = "bits" /\ rlastval' = 0 /\ Fresh' /\ rcounter' = 0
    BY <1>2, <1>4, <1>5
  <2>2. BitsWritten \in Nat
    BY Written
  <2>3. CASE wpc = "header"
    <3>1. wpc' # "idle" /\ wpc' # "header" /\ (WriterStep \/ LineIdle)
      BY <1>5, <2>3 DEF BitTime, Driven, Stop, Sending
    <3>2. /\ wpc' = "bit" /\ wbytes' = 1 /\ wleft' = 8 /\ wlastsym' = 1
          /\ wstuff' = <<0, 0, 1, 1, 1, 1>>
      BY <2>3, <1>5, HeaderStep DEF BitTime, Driven, Stop, Sending
    <3>3. Agree'
      <4>1. \A i \in 1 .. 6 : runstuff'[i] = 1 - wstuff'[i]
        BY <2>1, <3>2 DEF Fresh
      <4> QED BY <4>1 DEF Agree
    <3>4. Right' /\ wpc' \notin Stuffed /\ Ahead(0)'
      BY <2>1, <3>2 DEF Right, Stuffed, Ahead, BitsWritten
    <3> QED BY <2>1, <3>3, <3>4 DEF Behind
  <2>4. CASE wpc # "header"
    <3>1. WriteBit \/ WriteStuffBit \/ WriteEofStuffBit
      BY <1>5, <2>4 DEF BitTime, Driven, LineIdle, writerVars, Stop, WriterStep, WriteHeader,
         WriteSe0, WriteRest, Sending
    <3>2. wpc \in Sending
      BY <3>1 DEF WriteBit, WriteStuffBit, WriteEofStuffBit, Sending
    <3>3. BitsWritten >= 1
      BY <2>1, <3>2 DEF SyncPlace
    <3>4. CASE WriteBit
      <4>1. BitsWritten' = BitsWritten + 1
        BY <3>4, BitSteps
      <4>2. Ahead(0)' /\ Ahead(2)'
        BY <2>1, <2>2, <3>3, <4>1 DEF Ahead
      <4> QED BY <2>1, <4>2 DEF Behind
    <3>5. CASE WriteStuffBit \/ WriteEofStuffBit
      <4>1. BitsWritten' = BitsWritten /\ wpc' \notin Stuffed
        BY <3>5, StuffSteps
      <4>2. Ahead(0)' /\ Ahead(1)'
        BY <2>1, <2>2, <3>3, <4>1 DEF Ahead
      <4> QED BY <2>1, <4>1, <4>2 DEF Behind
    <3> QED BY <3>1, <3>4, <3>5
  <2> QED BY <2>3, <2>4
<1> QED BY <1>3, <1>4, <1>5 DEF Slotted

\* The steps after it.
LEMMA SlotAtBits ==
    ASSUME WriterTypes, ReaderTypes, WriterInv, WriterTypes', WriterInv', ReaderTypes',
           SyncPlace, Fits, Fits', Slotted, AtBits, BitTime
    PROVE  Slotted'
<1>1. (ReadBit(line') \/ Unstuff(line')) /\ wpc # "header"
  BY AfterStart DEF BitTime, SyncPlace
<1>2. wpc \in Sending => Behind /\ rcounter <= 88
  BY BehindFits DEF Slotted
<1>3. CASE WriteBit \/ WriteStuffBit \/ WriteEofStuffBit
  <2>1. wpc \in Sending /\ wpc' \in Sending
    BY <1>3, BitSteps, StuffSteps DEF WriteBit, WriteStuffBit, WriteEofStuffBit, Sending
  <2>2. Behind'
    BY <1>1, <1>2, <1>3, <2>1, BitWhileSending, UnstuffWhileSending DEF MaxBytes
  <2>3. rcounter' <= 88 /\ rcounter' \in Nat
    BY <2>2, BehindFitsNext DEF ReaderTypes
  <2>4. rcounter' <= 95
    BY <2>3
  <2> QED BY <2>1, <2>2, <2>4 DEF Slotted, Sending
<1>4. CASE WriteSe0
  <2>1. wpc \in {"se0", "se0_again"} /\ wpc' \in {"se0_again", "rest"} /\ line' = "SE0"
    BY <1>4 DEF WriteSe0
  <2>2. rcounter <= 88
    BY <1>2, <2>1 DEF Slotted, Sending
  <2>3. rcounter' <= 95 /\ (AtBits' => rcounter' <= 88)
    BY <1>1, <2>1, <2>2, Levels, BitOfSe0
  <2> QED BY <2>1, <2>3 DEF Slotted, Sending
<1>5. CASE WriteRest \/ Stop \/ LineIdle
  <2>1. line' = "J" /\ wpc' = "idle"
    BY <1>5 DEF WriteRest, Stop, LineIdle, writerVars, SyncPlace
  <2>2. \/ wpc \in {"rest", "idle"}
        \/ wpc \in Sending
    BY <1>1, <1>5 DEF WriteRest, Stop, LineIdle, WriterTypes, WriterPlaces, Sending
  <2>3. rcounter <= 88 \/ Resting
    BY <1>2, <2>2 DEF Slotted
  <2>4. rcounter' <= 95 /\ Resting'
    BY <1>1, <2>3, <2>1, BitOfRest
  <2> QED BY <2>4, <2>1 DEF Slotted, Sending
<1> QED BY <1>1, <1>3, <1>4, <1>5 DEF BitTime, Driven, WriterStep, WriteHeader

LEMMA SlotInit == Init => SlotInv
<1> SUFFICES ASSUME Init PROVE SlotInv
  OBVIOUS
<1> USE DEF Init, WriterInit, ReaderInit
<1>1. Stored /\ rcounter = 0
  BY DEF Stored
<1>2. SyncPlace
  BY DEF SyncPlace, AtBits, Sending, Fresh
<1>3. Slotted
  BY DEF Slotted, AtBits
<1> HIDE DEF Init, WriterInit, ReaderInit
<1> QED BY <1>1, <1>2, <1>3 DEF SlotInv

LEMMA SlotStep == IInv /\ IInv' /\ SlotInv /\ [BitTime]_vars => SlotInv'
<1> SUFFICES ASSUME IInv, IInv', SlotInv, [BitTime]_vars PROVE SlotInv'
  OBVIOUS
<1>1. /\ WriterTypes /\ ReaderTypes /\ WriterInv /\ WriterTypes' /\ ReaderTypes' /\ WriterInv'
      /\ rpc = "off" => Fresh
      /\ Stored /\ SyncPlace /\ (Fits => Slotted)
  BY DEF IInv, SlotInv
<1>2. CASE UNCHANGED vars
  <2>1. Stored'
    BY <1>1, <1>2 DEF vars, readerVars, Stored
  <2>2. UNCHANGED <<packet, wpc, whead, wbytes, wleft, wstuff, wlastsym, line, rpc, rlastval,
                    runstuff, rcounter, rsample, out>>
    BY <1>2 DEF vars, writerVars, readerVars
  <2>3. (AtBits' <=> AtBits) /\ (Fresh' <=> Fresh) /\ BitsWritten' = BitsWritten
    BY <2>2 DEF AtBits, Fresh, BitsWritten
  <2>4. SyncPlace'
    BY <1>1, <2>2, <2>3, Zenon DEF SyncPlace
  <2>5. (Fits' <=> Fits) /\ (Agree' <=> Agree) /\ (Right' <=> Right) /\ (Resting' <=> Resting)
    BY <2>2 DEF Fits, Agree, Right, Resting
  <2>6. \A n \in {0, 1, 2} : Ahead(n)' <=> Ahead(n)
    BY <2>2, <2>3 DEF Ahead
  <2>7. Behind' <=> Behind
    BY <2>2, <2>5, <2>6 DEF Behind
  <2>8. Fits' => Slotted'
    BY <1>1, <2>2, <2>3, <2>5, <2>7 DEF Slotted
  <2> QED BY <2>1, <2>4, <2>8 DEF SlotInv
<1>3. CASE BitTime
  <2>1. Stored'
    BY <1>1, <1>3, StoredStep DEF BitTime
  <2>2. SyncPlace'
    BY <1>1, <1>3, PlaceStep
  <2>3. packet' = packet
    BY <1>3 DEF BitTime, Driven, WriterStep, LineIdle, Stop, writerVars, WriteHeader, WriteBit,
       WriteStuffBit, WriteEofStuffBit, WriteSe0, WriteRest, InvertSymbol
  <2>4. Fits' <=> Fits
    BY <2>3 DEF Fits
  <2>5. ASSUME Fits, ~AtBits PROVE Slotted'
    BY <1>1, <1>3, <2>2, <2>5, SlotAtStart
  <2>6. ASSUME Fits, AtBits PROVE Slotted'
    BY <1>1, <1>3, <2>4, <2>6, SlotAtBits
  <2> QED BY <2>1, <2>2, <2>4, <2>5, <2>6 DEF SlotInv
<1> QED BY <1>2, <1>3

\* usbPhyReadI stores no more than the 11 bytes that its slot of the ring has for
\* a packet of at most 11 bytes, whatever it holds, at whichever symbol of the
\* header, or in the end of packet, the reader is entered and wherever the sender
\* stops.
THEOREM KeepsToSlot == Spec => []StoresInSlot
<1>1. IInv /\ SlotInv => StoresInSlot
  <2> SUFFICES ASSUME IInv, SlotInv, Len(packet) <= 8 * MaxBytes PROVE Len(out) <= 8 * MaxBytes
    BY DEF StoresInSlot
  <2>1. rcounter <= 95 /\ Len(out) % 8 = 0 /\ Len(out) + Len(rsample) = rcounter
    BY DEF SlotInv, Stored, Slotted, Fits
  <2>2. Len(out) \in Nat /\ Len(rsample) \in Nat /\ rcounter \in Nat
    BY LenProperties DEF IInv, ReaderTypes
  <2> QED BY <2>1, <2>2 DEF MaxBytes
<1>2. Init => SlotInv
  BY SlotInit
<1>3. IInv /\ IInv' /\ SlotInv /\ [BitTime]_vars => SlotInv'
  BY SlotStep
<1> QED BY <1>1, <1>2, <1>3, Invariance, PTL DEF Spec
=============================================================================
