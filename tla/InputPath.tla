------------------------------ MODULE InputPath ------------------------------
(***************************************************************************)
(* From a pin of the transmitter to the report the receiver hands to USB:  *)
(* the loop of palawanTxMain, the radio, and the part of palawanRxMain     *)
(* that polls the radio and sends the report (src/src/main.c, radio.c,     *)
(* radio_ll.c, input-server.c).                                            *)
(*                                                                         *)
(* The radio chip is external.  It keeps one packet until it is unloaded   *)
(* and raises an interrupt for it; a packet sent meanwhile is lost, and so *)
(* may be any other.                                                       *)
(***************************************************************************)
EXTENDS InputServer

CONSTANTS Pins,       \* pins that have a button
          Period,     \* polls between two packets without a change (16)
          MaxOthers   \* packets of other protocols (bound)

ASSUME PinsAssumption == Pins \subseteq AllPins
ASSUME PeriodAssumption == Period \in Nat \ {0}
ASSUME MaxOthersAssumption == MaxOthers \in Nat

NoPacket == [prot |-> "none"]
Other    == [prot |-> "other"]
Input(down) == [prot |-> "input", state |-> down]

VARIABLES
  pins,                 \* buttons down
  last_pin_state, pin_unchanged_for,  \* of palawanTxMain; counted modulo Period
  fifo,                 \* the packet in the receiver's radio
  packetAvailable,      \* set by its interrupt
  pc,                   \* where the receiver's loop is
  keys, ready,          \* input_server_config
  shown,                \* keys of the last report usbSend took
  others                \* packets of other protocols so far

tx   == <<last_pin_state, pin_unchanged_for>>
rx   == <<pc, keys, ready, shown>>
vars == <<pins, tx, fifo, packetAvailable, rx, others>>

Init == /\ pins = {} /\ last_pin_state = {} /\ pin_unchanged_for = 0
        /\ fifo = NoPacket /\ packetAvailable = FALSE
        /\ pc = "flag" /\ keys = NoKeys /\ ready = FALSE /\ shown = {}
        /\ others = 0

-----------------------------------------------------------------------------
(* The transmitter *)

Button == /\ pins' \in SUBSET Pins
          /\ UNCHANGED <<tx, fifo, packetAvailable, rx, others>>

\* A packet arrives, and VectorB8 of the receiver says so; or it is lost.
Arrives(packet) == fifo = NoPacket /\ fifo' = packet /\ packetAvailable' = TRUE
Lost            == UNCHANGED <<fifo, packetAvailable>>

\* radioSend: once, and without knowing what becomes of it.
RadioSend(packet) == Arrives(packet) \/ Lost

\* Mutants: the counter stops when it is full, and it is not masked.
UnchangedForFull == IF pins # last_pin_state THEN 0
                    ELSE IF pin_unchanged_for + 1 < Period THEN pin_unchanged_for + 1
                    ELSE pin_unchanged_for
UnchangedForNoMask == IF pins # last_pin_state THEN 0 ELSE pin_unchanged_for + 1

UnchangedFor == IF pins # last_pin_state THEN 0 ELSE (pin_unchanged_for + 1) % Period

\* One round of the loop: read the pins, send them if the counter is at 0.
TxPoll ==
    /\ pin_unchanged_for' = UnchangedFor
    /\ IF UnchangedFor = 0
       THEN /\ RadioSend(Input(pins))
            /\ last_pin_state' = pins
       ELSE Lost /\ UNCHANGED last_pin_state
    /\ UNCHANGED <<pins, rx, others>>

\* Somebody else's packet: a request to one of the other servers.
OtherPacket == /\ others < MaxOthers
               /\ Arrives(Other)
               /\ others' = others + 1
               /\ UNCHANGED <<pins, tx, rx>>

-----------------------------------------------------------------------------
(* The receiver's loop *)

\* The flag is cleared before the radio is looked at.
TestFlag == /\ pc = "flag"
            /\ pc' = IF packetAvailable THEN "poll" ELSE "send"
            /\ packetAvailable' = FALSE
            /\ UNCHANGED <<pins, tx, fifo, keys, ready, shown, others>>

\* radioPoll: nothing, or a packet is unloaded and given to its handler.  The
\* answer of another server ends with an interrupt of its own.
RadioPoll ==
    /\ pc = "poll"
    /\ fifo' = NoPacket
    /\ CASE fifo.prot = "none"  -> UNCHANGED <<packetAvailable, keys, ready>>
         [] fifo.prot = "other" -> packetAvailable' \in {packetAvailable, TRUE}
                                   /\ UNCHANGED <<keys, ready>>
         [] fifo.prot = "input" -> /\ keys' = NewKeys(keys, fifo.state)
                                   /\ ready' = (ready \/ Changed(keys, fifo.state))
                                   /\ UNCHANGED packetAvailable
    /\ pc' = "send"
    /\ UNCHANGED <<pins, tx, shown, others>>

\* usbSend takes the report, or answers EAGAIN (RxDongle says when).
UsbTakes == ready /\ shown' = KeysIn(keys) /\ ready' = FALSE

\* Mutant: packetAvailable cleared at the end of the round.
UsbSendClears == /\ pc = "send"
                 /\ UsbTakes \/ UNCHANGED <<shown, ready>>
                 /\ pc' = "flag"
                 /\ packetAvailable' = FALSE
                 /\ UNCHANGED <<pins, tx, fifo, keys, others>>

UsbSend == /\ pc = "send"
           /\ UsbTakes \/ UNCHANGED <<shown, ready>>
           /\ pc' = "flag"
           /\ UNCHANGED <<pins, tx, fifo, packetAvailable, keys, others>>

RxLoop == TestFlag \/ RadioPoll \/ UsbSend

Next == Button \/ TxPoll \/ OtherPacket \/ RxLoop

Spec == Init /\ [][Next]_vars

\* Both loops run, the radio does not lose every packet, and USB does not
\* refuse every report.
Fairness == /\ WF_vars(TxPoll) /\ WF_vars(RxLoop)
            /\ SF_vars(TxPoll /\ Arrives(Input(pins)))
            /\ SF_vars(UsbSend /\ UsbTakes)
FairSpec == Spec /\ Fairness

-----------------------------------------------------------------------------
(* Properties *)

States == {Input(down) : down \in SUBSET Pins}

TypeOK == /\ pins \in SUBSET Pins /\ last_pin_state \in SUBSET Pins
          /\ pin_unchanged_for \in 0 .. Period - 1
          /\ fifo \in States \cup {NoPacket, Other} /\ packetAvailable \in BOOLEAN
          /\ pc \in {"flag", "poll", "send"}
          /\ keys \in [Slots -> KeysOf(Pins) \cup {NoKey}] /\ ready \in BOOLEAN
          /\ shown \in SUBSET KeysOf(Pins) /\ others \in 0 .. MaxOthers

\* No key has two slots of the report, whatever was released and pressed again
\* in between: the two passes of input_request work on what earlier packets left.
NoKeyTwice == \A i, j \in Slots : keys[i] = keys[j] /\ keys[i] # NoKey => i = j

\* The race of the radio interrupt with "if (packetAvailable)": a packet in the
\* radio is polled for, or the flag is up.
NoPacketForgotten == fifo # NoPacket /\ pc # "poll" => packetAvailable

\* A report that differs from the one the host was given is waiting to be sent.
ReadyUntilShown == ~ready => shown = KeysIn(keys)

\* Whatever got lost, when all buttons stay up the host sees none down in the end.
\* Of one button alone this does not hold: while another is down its key may stay
\* in the report (input-server.c:44, ReleasedRemoved).
ReleaseArrives == <>[](pins = {}) => <>[](shown = {})

\* Whatever got lost, a button that stays down is down for the host in the end.
PressArrives == \A pin \in Pins :
    key_mapping[pin] # NoKey /\ <>[](pin \in pins) => <>[](key_mapping[pin] \in shown)

\* "First pass: Remove any buttons that aren't pressed." (input-server.c:40):
\* after an input packet the report has no key whose pin is up.
ReleasedRemoved ==
    [][RadioPoll /\ fifo.prot = "input" => KeysIn(keys') \subseteq KeysOf(fifo.state)]_vars
=============================================================================
