--------------------------- MODULE InputPathProofs ---------------------------
(***************************************************************************)
(* What the receiver never forgets, for any set of buttons and any         *)
(* traffic: a packet in the radio, and a report the host has not seen.     *)
(***************************************************************************)
EXTENDS InputPath, TLAPS

LEMMA FlagInit == Init => NoPacketForgotten
BY DEF Init, NoPacketForgotten

LEMMA FlagNext == NoPacketForgotten /\ [Next]_vars => NoPacketForgotten'
<1> SUFFICES ASSUME NoPacketForgotten, [Next]_vars PROVE NoPacketForgotten'
  OBVIOUS
<1> USE DEF NoPacketForgotten, rx
<1>1. CASE Button
  BY <1>1 DEF Button
<1>2. CASE TxPoll
  BY <1>2 DEF TxPoll, RadioSend, Arrives, Lost
<1>3. CASE OtherPacket
  BY <1>3 DEF OtherPacket, Arrives
<1>4. CASE TestFlag
  BY <1>4 DEF TestFlag
<1>5. CASE RadioPoll
  BY <1>5 DEF RadioPoll
<1>6. CASE UsbSend
  BY <1>6 DEF UsbSend
<1>7. CASE UNCHANGED vars
  BY <1>7 DEF vars
<1>8. QED
  BY <1>1, <1>2, <1>3, <1>4, <1>5, <1>6, <1>7 DEF Next, RxLoop

\* "if (packetAvailable)" never skips a packet for good: the flag is cleared
\* before the radio is polled, so an interrupt in between only polls once more.
THEOREM PacketsPolled == Spec => []NoPacketForgotten
BY FlagInit, FlagNext, PTL DEF Spec

-----------------------------------------------------------------------------

\* A packet in the radio has a handler or none, so radioPoll knows what to do.
PacketInv == fifo.prot \in {"none", "other", "input"}

IInv == PacketInv /\ ReadyUntilShown

LEMMA NoChange ==
    ASSUME NEW ks, NEW down, ~Changed(ks, down)
    PROVE  NewKeys(ks, down) = ks
BY DEF Changed

LEMMA ReadyInit == Init => IInv
<1> SUFFICES ASSUME Init PROVE IInv
  OBVIOUS
<1>1. PacketInv
  BY DEF Init, PacketInv, NoPacket
<1>2. KeysIn(NoKeys) = {}
  BY DEF KeysIn, NoKeys
<1>3. QED
  BY <1>1, <1>2 DEF Init, IInv, ReadyUntilShown

LEMMA ReadyNext == IInv /\ [Next]_vars => IInv'
<1> SUFFICES ASSUME IInv, [Next]_vars PROVE IInv'
  OBVIOUS
<1> USE DEF IInv
<1>1. PacketInv'
  <2>1. fifo' \in {fifo, NoPacket, Other, Input(pins)}
    BY DEF Next, Button, TxPoll, OtherPacket, RxLoop, TestFlag, RadioPoll, UsbSend,
           RadioSend, Arrives, Lost, vars
  <2>2. QED
    BY <2>1 DEF PacketInv, NoPacket, Other, Input
<1>2. CASE Button \/ TxPoll \/ OtherPacket \/ TestFlag \/ UNCHANGED vars
  <2>1. UNCHANGED <<keys, ready, shown>>
    BY <1>2 DEF Button, TxPoll, OtherPacket, TestFlag, rx, vars
  <2>2. QED
    BY <1>1, <2>1, Zenon DEF ReadyUntilShown, KeysIn
<1>3. CASE RadioPoll
  <2>1. UNCHANGED shown
    BY <1>3 DEF RadioPoll
  <2>2. CASE fifo.prot = "input"
    <3>1. keys' = NewKeys(keys, fifo.state) /\ ready' = (ready \/ Changed(keys, fifo.state))
      BY <1>3, <2>2 DEF RadioPoll
    <3>2. CASE ready \/ Changed(keys, fifo.state)
      BY <1>1, <3>1, <3>2, Zenon DEF ReadyUntilShown
    <3>3. CASE ~ready /\ ~Changed(keys, fifo.state)
      <4>1. keys' = keys
        BY <3>1, <3>3, NoChange, Zenon
      <4>2. QED
        BY <1>1, <2>1, <3>3, <4>1, Zenon DEF ReadyUntilShown, KeysIn
    <3>4. QED
      BY <3>2, <3>3
  <2>3. CASE fifo.prot # "input"
    <3>1. UNCHANGED <<keys, ready>>
      BY <1>3, <2>3 DEF RadioPoll, PacketInv
    <3>2. QED
      BY <1>1, <2>1, <3>1, Zenon DEF ReadyUntilShown, KeysIn
  <2>4. QED
    BY <2>2, <2>3
<1>4. CASE UsbSend
  <2>1. UNCHANGED keys
    BY <1>4 DEF UsbSend
  <2>2. CASE UsbTakes
    BY <1>1, <2>1, <2>2, Zenon DEF UsbTakes, ReadyUntilShown, KeysIn
  <2>3. CASE UNCHANGED <<shown, ready>>
    BY <1>1, <2>1, <2>3, Zenon DEF ReadyUntilShown, KeysIn
  <2>4. QED
    BY <1>4, <2>2, <2>3 DEF UsbSend
<1>5. QED
  BY <1>2, <1>3, <1>4 DEF Next, RxLoop

\* A change of the report that no usbSend took is still announced by ready,
\* however many packets and refusals came in between.
THEOREM ReportsPending == Spec => []ReadyUntilShown
<1>1. IInv => ReadyUntilShown
  BY DEF IInv
<1>2. QED
  BY <1>1, ReadyInit, ReadyNext, PTL DEF Spec

-----------------------------------------------------------------------------

\* What both passes keep: six slots, each with a key of a button or with none ...
KeySlots == [Slots -> KeysOf(Pins) \cup {NoKey}]

\* ... and no key in two of them.
Single(ks) == \A i, j \in Slots : ks[i] = ks[j] /\ ks[i] # NoKey => i = j

Good(ks) == ks \in KeySlots /\ Single(ks)

LEMMA FirstPassGood ==
    ASSUME NEW ks, NEW down, Good(ks)
    PROVE  Good(FirstPass(ks, down))
BY DEF Good, KeySlots, Single, FirstPass

\* The slot AddKey takes, if it takes one, is spare, and the key is new.
LEMMA AddKeyGood ==
    ASSUME NEW ks, NEW pin \in Pins, Good(ks)
    PROVE  Good(AddKey(ks, key_mapping[pin]))
<1> DEFINE key   == key_mapping[pin]
           spare == {i \in Slots : ks[i] = NoKey}
           slot  == CHOOSE i \in spare : \A j \in spare : i <= j
<1>1. CASE key \in {ks[i] : i \in Slots} \/ spare = {}
  <2>1. AddKey(ks, key) = ks
    BY <1>1 DEF AddKey
  <2>2. QED
    BY <2>1
<1>2. CASE ~(key \in {ks[i] : i \in Slots} \/ spare = {})
  <2>1. AddKey(ks, key) = [ks EXCEPT ![slot] = key]
    BY <1>2 DEF AddKey
  <2>2. \E i \in spare : \A j \in spare : i <= j
    BY <1>2 DEF Slots
  <2>3. slot \in Slots /\ ks[slot] = NoKey
    BY <2>2
  <2>4. key # NoKey
    BY <1>2, <2>3
  <2>5. key \in KeysOf(Pins)
    BY <2>4 DEF KeysOf
  <2> HIDE DEF slot, key
  <2>6. [ks EXCEPT ![slot] = key] \in KeySlots
    BY <2>3, <2>5 DEF Good, KeySlots
  <2>7. Single([ks EXCEPT ![slot] = key])
    BY <1>2, <2>3 DEF Good, KeySlots, Single
  <2>8. QED
    BY <2>1, <2>6, <2>7 DEF Good, key
<1>3. QED
  BY <1>1, <1>2

\* One round of the loop of the second pass, and the rounds up to the m-th.
PassStep(ks, down, n) ==
    IF n \in down THEN AddKey(ks, key_mapping[n]) ELSE ks

IsPass(f, m, ks, down) ==
    f = [n \in 0 .. m |-> IF n = 0 THEN ks ELSE PassStep(f[n - 1], down, n - 1)]

LEMMA NoRounds ==
    ASSUME NEW ks, NEW down
    PROVE  \E f : IsPass(f, 0, ks, down)
<1>1. IsPass([n \in 0 .. 0 |-> ks], 0, ks, down)
  BY DEF IsPass
<1>2. QED
  BY <1>1

LEMMA OneMoreRound ==
    ASSUME NEW ks, NEW down, NEW m \in Nat, \E f : IsPass(f, m, ks, down)
    PROVE  \E f : IsPass(f, m + 1, ks, down)
<1>1. PICK f : IsPass(f, m, ks, down)
  OBVIOUS
<1> DEFINE g == [n \in 0 .. m + 1 |->
                   IF n = m + 1 THEN PassStep(f[m], down, m) ELSE f[n]]
<1>2. IsPass(g, m + 1, ks, down)
  <2>1. \A n \in 0 .. m : f[n] = IF n = 0 THEN ks ELSE PassStep(f[n - 1], down, n - 1)
    BY <1>1 DEF IsPass
  <2>2. \A n \in 0 .. m + 1 :
          g[n] = IF n = 0 THEN ks ELSE PassStep(g[n - 1], down, n - 1)
    <3> SUFFICES ASSUME NEW n \in 0 .. m + 1
                 PROVE  g[n] = IF n = 0 THEN ks ELSE PassStep(g[n - 1], down, n - 1)
      OBVIOUS
    <3>1. CASE n = m + 1
      <4>1. n # 0 /\ g[n - 1] = f[m] /\ n - 1 = m
        BY <3>1
      <4>2. QED
        BY <3>1, <4>1
    <3>2. CASE n = 0
      BY <2>1, <3>2
    <3>3. CASE n # 0 /\ n # m + 1
      <4>1. n \in 0 .. m /\ n - 1 \in 0 .. m + 1 /\ n - 1 # m + 1
        BY <3>3
      <4>2. g[n] = f[n] /\ g[n - 1] = f[n - 1]
        BY <3>3, <4>1
      <4>3. QED
        BY <2>1, <3>3, <4>1, <4>2
    <3>4. QED
      BY <3>1, <3>2, <3>3
  <2> HIDE DEF g
  <2>3. g = [n \in 0 .. m + 1 |-> g[n]]
    BY DEF g
  <2>4. QED
    BY <2>2, <2>3, Zenon DEF IsPass
<1>3. QED
  BY <1>2

LEMMA SixteenRounds ==
    ASSUME NEW ks, NEW down
    PROVE  \E f : IsPass(f, 16, ks, down)
<1>0. \E f : IsPass(f, 0, ks, down)
  BY NoRounds
<1>1. \E f : IsPass(f, 1, ks, down)
  BY <1>0, OneMoreRound
<1>2. \E f : IsPass(f, 2, ks, down)
  BY <1>1, OneMoreRound
<1>3. \E f : IsPass(f, 3, ks, down)
  BY <1>2, OneMoreRound
<1>4. \E f : IsPass(f, 4, ks, down)
  BY <1>3, OneMoreRound
<1>5. \E f : IsPass(f, 5, ks, down)
  BY <1>4, OneMoreRound
<1>6. \E f : IsPass(f, 6, ks, down)
  BY <1>5, OneMoreRound
<1>7. \E f : IsPass(f, 7, ks, down)
  BY <1>6, OneMoreRound
<1>8. \E f : IsPass(f, 8, ks, down)
  BY <1>7, OneMoreRound
<1>9. \E f : IsPass(f, 9, ks, down)
  BY <1>8, OneMoreRound
<1>10. \E f : IsPass(f, 10, ks, down)
  BY <1>9, OneMoreRound
<1>11. \E f : IsPass(f, 11, ks, down)
  BY <1>10, OneMoreRound
<1>12. \E f : IsPass(f, 12, ks, down)
  BY <1>11, OneMoreRound
<1>13. \E f : IsPass(f, 13, ks, down)
  BY <1>12, OneMoreRound
<1>14. \E f : IsPass(f, 14, ks, down)
  BY <1>13, OneMoreRound
<1>15. \E f : IsPass(f, 15, ks, down)
  BY <1>14, OneMoreRound
<1>16. \E f : IsPass(f, 16, ks, down)
  BY <1>15, OneMoreRound
<1>17. QED
  BY <1>16

\* The recursive function of SecondPass is defined by these rounds.
LEMMA SecondPassRounds ==
    ASSUME NEW ks, NEW down
    PROVE  \E f : IsPass(f, 16, ks, down) /\ SecondPass(ks, down) = f[16]
<1> DEFINE upTo == CHOOSE f : IsPass(f, 16, ks, down)
<1>1. SecondPass(ks, down) = upTo[16]
  BY DEF SecondPass, IsPass, PassStep
<1>2. IsPass(upTo, 16, ks, down)
  BY SixteenRounds
<1>3. QED
  BY <1>1, <1>2

LEMMA SecondPassGood ==
    ASSUME NEW ks, NEW down \in SUBSET Pins, Good(ks)
    PROVE  Good(SecondPass(ks, down))
<1>1. PICK f : IsPass(f, 16, ks, down) /\ SecondPass(ks, down) = f[16]
  BY SecondPassRounds
<1>2. \A n \in 0 .. 16 :
        f[n] = IF n = 0 THEN ks ELSE PassStep(f[n - 1], down, n - 1)
  BY <1>1 DEF IsPass
<1>3. \A n \in 1 .. 16 : Good(f[n - 1]) => Good(f[n])
  <2> SUFFICES ASSUME NEW n \in 1 .. 16, Good(f[n - 1]) PROVE Good(f[n])
    OBVIOUS
  <2>1. f[n] = PassStep(f[n - 1], down, n - 1)
    BY <1>2
  <2>2. CASE n - 1 \in down
    <3>1. n - 1 \in Pins
      BY <2>2
    <3>2. f[n] = AddKey(f[n - 1], key_mapping[n - 1])
      BY <2>1, <2>2 DEF PassStep
    <3>3. QED
      BY <3>1, <3>2, AddKeyGood, Zenon
  <2>3. CASE n - 1 \notin down
    BY <2>1, <2>3 DEF PassStep
  <2>4. QED
    BY <2>2, <2>3
<1>4. Good(f[0])
  BY <1>2
<1>5. Good(f[1])
  BY <1>3, <1>4
<1>6. Good(f[2])
  BY <1>3, <1>5
<1>7. Good(f[3])
  BY <1>3, <1>6
<1>8. Good(f[4])
  BY <1>3, <1>7
<1>9. Good(f[5])
  BY <1>3, <1>8
<1>10. Good(f[6])
  BY <1>3, <1>9
<1>11. Good(f[7])
  BY <1>3, <1>10
<1>12. Good(f[8])
  BY <1>3, <1>11
<1>13. Good(f[9])
  BY <1>3, <1>12
<1>14. Good(f[10])
  BY <1>3, <1>13
<1>15. Good(f[11])
  BY <1>3, <1>14
<1>16. Good(f[12])
  BY <1>3, <1>15
<1>17. Good(f[13])
  BY <1>3, <1>16
<1>18. Good(f[14])
  BY <1>3, <1>17
<1>19. Good(f[15])
  BY <1>3, <1>18
<1>20. Good(f[16])
  BY <1>3, <1>19
<1>21. QED
  BY <1>1, <1>20

LEMMA NewKeysGood ==
    ASSUME NEW ks, NEW down \in SUBSET Pins, Good(ks)
    PROVE  Good(NewKeys(ks, down))
BY FirstPassGood, SecondPassGood DEF NewKeys

LEMMA CounterMasked ==
    ASSUME NEW n \in Nat, NEW m \in Nat \ {0}
    PROVE  n % m \in 0 .. m - 1
OBVIOUS

KeysInv == TypeOK /\ NoKeyTwice

LEMMA KeysInit == Init => KeysInv
<1> SUFFICES ASSUME Init PROVE KeysInv
  OBVIOUS
<1>1. NoKeys \in KeySlots /\ Single(NoKeys)
  BY DEF NoKeys, KeySlots, Single
<1>2. 0 \in 0 .. Period - 1 /\ 0 \in 0 .. MaxOthers
  BY PeriodAssumption, MaxOthersAssumption
<1>3. QED
  BY <1>1, <1>2 DEF Init, KeysInv, TypeOK, NoKeyTwice, Single, KeySlots

LEMMA KeysNext == KeysInv /\ [Next]_vars => KeysInv'
<1> SUFFICES ASSUME KeysInv, [Next]_vars PROVE KeysInv'
  OBVIOUS
<1>1. TypeOK /\ Good(keys)
  BY DEF KeysInv, TypeOK, NoKeyTwice, Good, KeySlots, Single
<1>2. ASSUME TypeOK', Good(keys') PROVE KeysInv'
  BY <1>2 DEF KeysInv, NoKeyTwice, Good, Single
<1>3. ASSUME UNCHANGED keys PROVE Good(keys')
  BY <1>1, <1>3
<1>4. KeysIn(keys) \in SUBSET KeysOf(Pins)
  BY <1>1 DEF KeysIn, Good, KeySlots
<1> USE DEF tx, rx
<1>5. CASE Button
  <2>1. UNCHANGED keys
    BY <1>5 DEF Button
  <2>2. TypeOK'
    BY <1>1, <1>5 DEF Button, TypeOK
  <2>3. QED
    BY <1>2, <1>3, <2>1, <2>2
<1>6. CASE TxPoll
  <2>1. UNCHANGED keys
    BY <1>6 DEF TxPoll
  <2>2. UnchangedFor \in 0 .. Period - 1
    <3>1. pin_unchanged_for + 1 \in Nat
      BY <1>1, PeriodAssumption DEF TypeOK
    <3>2. (pin_unchanged_for + 1) % Period \in 0 .. Period - 1
      BY <3>1, CounterMasked, PeriodAssumption
    <3>3. QED
      BY <3>2, PeriodAssumption DEF UnchangedFor
  <2>3. Input(pins) \in States
    BY <1>1 DEF TypeOK, States
  <2>4. TypeOK'
    BY <1>1, <1>6, <2>2, <2>3 DEF TxPoll, RadioSend, Arrives, Lost, TypeOK
  <2>5. QED
    BY <1>2, <1>3, <2>1, <2>4
<1>7. CASE OtherPacket
  <2>1. UNCHANGED keys
    BY <1>7 DEF OtherPacket
  <2>2. TypeOK'
    BY <1>1, <1>7, MaxOthersAssumption DEF OtherPacket, Arrives, TypeOK
  <2>3. QED
    BY <1>2, <1>3, <2>1, <2>2
<1>8. CASE TestFlag
  <2>1. UNCHANGED keys
    BY <1>8 DEF TestFlag
  <2>2. TypeOK'
    BY <1>1, <1>8 DEF TestFlag, TypeOK
  <2>3. QED
    BY <1>2, <1>3, <2>1, <2>2
<1>9. CASE RadioPoll
  <2>0. PacketInv
    BY <1>1 DEF TypeOK, States, Input, NoPacket, Other, PacketInv
  <2>1. fifo' = NoPacket /\ pc' = "send" /\ packetAvailable' \in BOOLEAN
        /\ UNCHANGED <<pins, tx, shown, others>>
    <3>1. fifo' = NoPacket /\ pc' = "send" /\ UNCHANGED <<pins, tx, shown, others>>
      BY <1>9 DEF RadioPoll
    <3>2. packetAvailable' = packetAvailable \/ packetAvailable' = TRUE
      BY <1>9, <2>0 DEF RadioPoll, PacketInv
    <3>3. packetAvailable' \in BOOLEAN
      BY <1>1, <3>2, Zenon DEF TypeOK
    <3>4. QED
      BY <3>1, <3>3
  <2>2. Good(keys') /\ ready' \in BOOLEAN
    <3>1. CASE fifo.prot = "input"
      <4>1. fifo.state \in SUBSET Pins
        BY <1>1, <3>1 DEF TypeOK, States, Input, NoPacket, Other
      <4>2. keys' = NewKeys(keys, fifo.state) /\ ready' = (ready \/ Changed(keys, fifo.state))
        BY <1>9, <3>1 DEF RadioPoll
      <4>3. Good(keys')
        BY <1>1, <4>1, <4>2, NewKeysGood, Zenon
      <4>4. ready' \in BOOLEAN
        BY <4>2, Zenon
      <4>5. QED
        BY <4>3, <4>4
    <3>2. CASE fifo.prot # "input"
      <4>1. UNCHANGED <<keys, ready>>
        BY <1>9, <2>0, <3>2 DEF RadioPoll, PacketInv
      <4>2. QED
        BY <1>1, <1>3, <4>1 DEF TypeOK
    <3>3. QED
      BY <3>1, <3>2
  <2>3. TypeOK'
    BY <1>1, <2>1, <2>2 DEF TypeOK, Good, KeySlots
  <2>4. QED
    BY <1>2, <2>2, <2>3
<1>10. CASE UsbSend
  <2>1. UNCHANGED keys
    BY <1>10 DEF UsbSend
  <2>2. TypeOK'
    BY <1>1, <1>4, <1>10 DEF UsbSend, UsbTakes, TypeOK
  <2>3. QED
    BY <1>2, <1>3, <2>1, <2>2
<1>11. CASE UNCHANGED vars
  <2>1. UNCHANGED keys
    BY <1>11 DEF vars
  <2>2. TypeOK'
    BY <1>1, <1>11 DEF vars, TypeOK
  <2>3. QED
    BY <1>2, <1>3, <2>1, <2>2
<1>12. QED
  BY <1>5, <1>6, <1>7, <1>8, <1>9, <1>10, <1>11 DEF Next, RxLoop

\* Only keys of the board's buttons ever get into the report or to the host,
\* and the counter of the transmitter stays below its mask.
THEOREM TypeCorrect == Spec => []TypeOK
<1>1. KeysInv => TypeOK
  BY DEF KeysInv
<1>2. QED
  BY <1>1, KeysInit, KeysNext, PTL DEF Spec

\* input_request gives no key a second slot, in whatever order keys went down,
\* came up and went down again: a spare slot is only taken by a key without one.
THEOREM KeysOnce == Spec => []NoKeyTwice
<1>1. KeysInv => NoKeyTwice
  BY DEF KeysInv
<1>2. QED
  BY <1>1, KeysInit, KeysNext, PTL DEF Spec
=============================================================================
