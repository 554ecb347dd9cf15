# Verification of gameon

gameon is the firmware of a wireless keypad: a *transmitter* reads buttons and
sends their state over a radio, a *receiver* on a USB dongle turns it into
keyboard reports. Both run the same image on a Kinetis KW01 (Cortex-M0+) without
an operating system. The dongle has no USB hardware: Grainuum, a software USB
stack, captures packets in a pin interrupt and answers from it, and the main loop
does the rest. Everything difficult in this program comes from that split, from
the host at the other end of the cable, which repeats and abandons what it likes,
and from a radio that loses packets.

This directory has TLA+ modules for the parts that carry state, TLC
configurations that check them on small instances, and TLAPS proofs of the
properties that hold for every value of the constants.

## The system

| Component | State | Operations | Talks to |
|---|---|---|---|
| phy_queue (`grainuum.h` 249-281, `hidusb.c` 315-388) | `head`, `tail`, `phy_queue_head_ptr`, four slots of 12 bytes | `usbStart` sets it up and enables the interrupt; the interrupt writes into the head slot and may keep it; the loop gives a slot back and then processes it | shared memory between interrupt and loop |
| USB interrupt (`grainuum-phy.c`) | `queued_data`, `queued_epnum`, `queued_size` | answer an IN token from the queue or with NAK; keep SETUP, OUT, DATA (acknowledged on the spot) and ACK (frees the queue) | host; phy_queue; the packet buffer the loop fills |
| USB state machine (`grainuum-state.c`) | the transfer (`data_out*`, `packet_queued`), the last token (`tok_*`, `packet_type`), `data_buffer`, `address` | `grainuumProcess` per packet, `grainuum_state_process_tx`, `grainuumSendData` | called by hidusb and usbSend; `grainuumWriteQueue` |
| USB glue (`hidusb.c`) | four EP1 OUT buffers with `ep1_buffer_head`, `_tail` | `usbProcess`, `usbSend`, descriptors | callbacks of the state machine |
| Receiver loop (`main.c` 28-55) | none of its own | `usbProcess`, `radioPoll` if `packetAvailable`, `usbSend` if `ready` | all of the above, input server, radio |
| Input server (`input-server.c`) | keyboard report (six keys), `ready` | `input_request` | radio handler; the receiver loop |
| Address server (`dhcp-server.c`) | ten entries `uid`, `seq`, and `seq` | `dhcp_request` | radio handler; broadcasts the answer |
| Transmitter loop (`main.c` 57-91, `palawan-tx.c`) | `last_pin_state`, `pin_unchanged_for` | address request, firmware check, then poll and send | radio; buttons |
| Address client (`dhcp-client.c`) | `dhcp_requesting`, the radio address | `dhcpRequestAddress` with a timeout, `dhcp_response` | radio |
| Radio driver (`radio.c`, `radio_ll.c`, `spi.c`) | handler table, address, mode, `packetAvailable` | reset, `radioStart`, `radioSend`, `radioPoll`, `radioSetHandler`, `radioSetAddress`, `VectorB8` | SPI, radio chip (one buffer, registers) |
| About, firmware and echo servers | none | answer a request | radio handler |
| Line code (`grainuum-phy-ll.S`) | none between packets | `usbPhyReadI` samples the bus, `usbPhyWriteI` drives it, bit by bit | the pins; called by the interrupt |

What is hard to test in it, and the property each part lives by:

* **Interrupt against loop.** Three things are shared without a lock: the packet
  slots, the packet buffer, the `queued_*` fields. A packet in process must not
  change, a packet on offer must not be a mix of two, and the one packet of a
  transfer must be acknowledged exactly once.
* **Host against device.** Handshakes get lost on either side, a SETUP is
  repeated, a transfer is given up, IN and OUT of two endpoints interleave. Reports
  must reach the host once and in order, control reads must be complete, and no
  sequence may leave `usbSend` blocked.
* **Line code.** Bits are stuffed and dropped in three places that must agree, the
  reader may be entered late or lose its sender, runs with interrupts disabled and
  stores bytes without a bound of its own.
* **Start.** The ring is set up before the interrupt that writes to it; the radio
  chip keeps its registers and its packet over a restart of the processor; the
  receiver forgets its table of addresses while transmitters keep theirs.
* **Counters at their edge.** Byte counts run below zero by design, `wLength` cuts
  a packet, rings have no test for full.
* **Radio.** Packets carry state rather than events and are not acknowledged; what
  is lost must be made good by repetition. Requests time out and are repeated
  while an old answer is on its way, and a node that sends may put an old answer of
  another one on the air again.

`PROJECT.json` lists the hazards one by one, with the line where each bites.

## Modules

| Module | Stands for |
|---|---|
| `PacketFifo` | what the ring promises: packets are taken once, in order, and the one in process does not change |
| `PhyQueue` | phy_queue with its slots and indices; `ImplementsFifo` is the refinement |
| `Grainuum` | state and operations of the interrupt and of the state machine |
| `RxDongle` | the receiver's loop around them, and the USB host (external) |
| `Descriptors` | how long each answer of `get_descriptor` is |
| `ReportPipe` | what the path of a keyboard report promises; `ImplementsPipe` is the refinement |
| `InputServer` | the two passes of `input_request`, as operators on the report's keys |
| `InputPath` | transmitter loop, radio, receiver loop, input server: from a button to the report |
| `LeaseTable` | what the address server promises its clients, without its table |
| `DhcpServer` | the table and `dhcp_request`; `ImplementsLeaseTable` is the refinement |
| `UsbLine` | how low-speed USB puts a packet on the line |
| `LineWriter`, `LineReader` | `usbPhyWriteI` and `usbPhyReadI`, an action per bit time and place in the code |
| `LineCode` | the two joined by the line; `ImplementsUsbLine` is the writer's refinement |
| `Crc16` | the CRC of data packets on whole numbers, and USB's on the bits of the wire |
| `RadioPort` | what the radio driver promises one node |
| `RadioDriver` | the driver register by register and the chip (external); `ImplementsPort` is the refinement |
| `FirmwareServer` | the answer to a request for a piece of memory, as an operator |
| `Spi` | the bus to the radio byte by byte, and the register accesses built from it, as operators |
| `Murmur3` | the hash that versions and pieces of the firmware are compared by, as an operator |
| `Board` | interrupt handlers, pads and clocks of the two boards |
| `Radio` | the driver of every node as the programs see it, over an air that loses packets |
| `StartNet` | address client, firmware check, address and about server over `Radio`, with restarts |
| `MC*` | one TLC instance module per system |
| `*Proofs` | theorems and proofs, one module per system; `RxTransferProofs` goes on where `RxDongleProofs` ends |

Operators named in a comment "Mutant" change the definition that follows them the
way a slip in the code would. No specification uses them; each is there to show
that a property can tell the right code from a wrong one.

**PhyQueue.** An index counts slots where the code counts bytes. The steps of
`usbStart` come first, in its order (`InitQueue`, `Disconnect`, `EnableIrq`,
`Connect`); the bus can be seen only while the lines are inputs. `Capture` is a
packet the interrupt keeps. `CaptureAndForget` is one it answers or cannot decode:
it is in the head slot all the same. `Remove` gives the slot back before
`Processed` ends the work on it, as `process_next_usb_event` does. The code has no
test for full; `MaxPending` states how far behind the loop may be.

**LineCode.** A step is a bit time: the writer drives a symbol, the reader samples
it. Both count 32 cycles per bit, and the reader re-aligns its sample only at the
start, so the clocks of the two ends do not drift in the model. The reader enters
at one of the header symbols in `Starts`, or in the SE0 at the end; `Stop` is a
sender that vanishes, after which the line rests at J for good. In the writer the
bits are inverted, as in the code. Every value in a comment of the form 0b... is
the code's. `Crc16` is checked in the instance of this module: `WithCrc` leaves
the residue USB prescribes.

**RadioDriver.** A step is one transfer on the SPI bus, of one register or of a
packet. A register is the name of whose value it holds: the chip's reset, something
else (the boot loader's), the default table's, or the modem table's; what the
values mean to the chip is not modelled, but for `OpMode`, the filter and its
two addresses. The chip is external: a reset clears every register but the AES key;
leaving reception may or may not empty the buffer; leaving transmission does;
`PacketSent` comes in the end. `Cuts` are the numbers of bytes after which a reception
may be caught by `radioSend`. The chip may hold a packet, and receive, when the processor
starts; that it is found transmitting is left out. What it receives is at least the four
bytes of a header: of a frame that says it is shorter, `radioUnloadPacket` would take a
negative number of bytes (`radio.c` 434), and no node sends one.

**StartNet.** One step per handler call, loop round or request, and one for a handler's
`radioSend`, since the radio may receive between unloading a request and answering it
(hashing the firmware takes long): `reply` is the answer on its way. The receiver's
table is a `LeaseTable`, which `DhcpServer` implements. The air takes no time; a packet is
delayed in the one buffer of its receiver, and lost if it finds that buffer full or by
bad luck. A node that sends while a packet waits in its buffer sends that one and not
its own, or its own if the chip emptied the buffer: the two outcomes of `RadioPort` for
a packet that is whole. So an answer may be on the air again at any time, sent by a
client that asks anew or by a transmitter that runs: it never polls, and repeats what
came in since it last sent (`SendInput`). A client in its boot loader only hears.
`dhcp_response` stays registered during the firmware check, and `TakeAddress` may move
the address then. The time-outs may come at any time, before the first poll too.
A node's `uid` is unique (`get_uid` drops 32 of the 96 bits of the chip's number).
`life` numbers the lives of the receiver and `lost` the leases it gave away: the
properties need them, the code does not.

**Grainuum and RxDongle.** An interrupt is one step: nothing preempts it. The
loop is one step per packet, except where it writes what the interrupt reads:
`TxStart` (PID), `TxFill` (data) and the two stores of `WriteQueue` (endpoint and
size) are steps of their own, with `pc` between them and `after` for the place
`grainuum_state_process_tx` was called from. The stores come in either order,
because the fields are not volatile. The queue is the sequence `PacketFifo` speaks
of, bounded by `MaxBacklog`; `NoEvent` is the round that finds it empty. Answers and
reports are their identity, an offset and a length; `ReplyOk` is the CRC check of
the host: the CRC is where the size says. A NAK and an undecodable answer change
nothing and are no step.

Constants of the host: `Requests`, how many of them (`MaxRequests`), LED reports
(`MaxOuts`), which kinds of `Faults` occur and how many (`MaxFaults`), whether keys
are pressed before the device is configured (`EarlyKeys`). A transaction whose
handshake the host misses is repeated, a repetition has the old toggle and is
dropped by whoever looks at toggles: the host does, the device does not.

**Spi, Murmur3, Board.** Operators without a state machine; the instances check
them as named assumptions, which TLC evaluates before it starts. `Spi` gives the right
to take a register access or a packet transfer as one step of `RadioDriver`, and to name
registers: addresses are distinct (`RegistersApart`), an access touches one register and
leaves the chip unselected (`SetAndGet`), a frame crosses whole (`FramesCross`, up to 16
bytes of payload). `Murmur3` has the published values of the hash (`KnownHashes`), and
keys that differ in one word differ in their hash (`OneWordTells`, for keys of 11
bytes). `Board`: every interrupt that is enabled has the handler that clears it
(`InterruptsHandled`), for one that has not stops the processor in
`_unhandled_exception` or is entered for ever; all 16 pins are inputs (`PinsArePads`); no
pad has two uses (`PadsHaveOneUse`) but PTA12, which is DIO0 of the radio and pin 5
of the transmitter: it has no key, so the radio can cause an input packet but no key
press; clocks stay in range at every write of the set-up (`ClocksInRange`).

**InputPath.** A packet is the set of pins that are down. The radio chip keeps one
packet until it is unloaded. `pin_unchanged_for` is kept modulo `Period`, all the
code looks at (`& 0xf`, and 2^32 is a multiple of 16). Test and clear of
`packetAvailable` are one step: an interrupt between them is the same as one
before the test, for the poll that follows finds its packet. `usbSend` takes a
report or refuses; `RxDongle` says when.

**DhcpServer.** The handler runs to its end in the loop, so it is one step. The
search loop is `Chosen`: the first entry that is the client's or nobody's, else the
first with the smallest number. The uint32_t wrap is beyond `MaxSeq`.

## Runs

| Run | Bounds | Shows |
|---|---|---|
| `phy_queue` | 4 slots as in the code, 3 contents, at most 2 waiting when a capture starts | the start-up leaves the interrupt no moment without a slot; the ring is a FIFO; processing is undisturbed |
| `line_code` | 14 packets of 1, 3, 11 and 12 bytes with runs of ones at every place that matters, entered at symbol 1, 2, 6 or 7 of the header, a stop anywhere, 104 bits | what is written is USB's and is read back; the reader stays in its slot and ends |
| `usb_ep1` | 4 reports, 3 lost ACKs, backlog 2 | reports arrive once, in order; all of them; the toggle is right |
| `usb_control` | 8 requests of every length class, 4 transfers, 2 faults (lost data, lost ACK inside a stage), backlog 3, a host that takes data in a status stage | control transfers end with the right data |
| `usb_mixed` | 3 transfers, 1 report, 2 LED reports, one fault of any kind, early keys | transfers keep their packet, OUT data its buffer |
| `usb_pid` (violation) | 1 report, 1 LED report, no fault | wrong data toggle after traffic on EP1 OUT |
| `usb_null_packet` (violation) | 3 transfers, no fault | an empty packet nobody fetches blocks the endpoint |
| `input_path` | 2 neighbouring buttons, a packet every 3 polls, one foreign packet, any loss | presses arrive in the end, and so does that all buttons are up |
| `input_stuck_key` (violation) | 2 buttons | a released key stays in the report |
| `dhcp_server` | 3 addresses, 5 clients, 7 requests | one address each, the longest silent client is evicted |
| `radio_driver` | 4 packets heard and 2 sent, of the smallest and largest sizes, 2 addresses, interrupted after 1, 3 or 20 bytes | configured before it listens; packets whole; always listens again |
| `start_net` | 2 transmitters with different firmware, 2 addresses, a restart of anyone, any loss, delay and repetition | addresses unique and kept, firmware checked, everyone starts |

Why the bounds are enough. The ring has its real size. Two data toggles, one
packet buffer and one transfer at a time mean that the fourth report meets every
state the first three can leave; three lost ACKs hit the same report repeatedly.
The lengths in `usb_control` are those at which the code's sign tests differ:
nothing, one short packet, cut by `wLength`, several packets, a multiple of 8.
Seven requests fill three entries, renew, and evict twice. Two buttons are enough
for the shift of one to push out the bit of the other; the six slots do not fill
up, so a seventh key is not part of this check. A stuffed bit can fall at the
start of a packet, inside a byte, on a byte boundary, at the end and after it;
packets of 11 and 12 bytes are the two sides of the reader's limit. In
`radio_driver` nothing is bounded but the packets; 62 bytes of payload are
what the chip's 66 bytes take. In `start_net` losses, requests and
repetitions are unbounded; after a restart of the receiver answers of two of its lives
meet, after one of a transmitter old answers meet its new request. Two transmitters
are enough for one to repeat the other's answer. Their two addresses are never
taken away, so that `AddressKept` always has something to say; clients that lose their
lease, and more restarts, are left to the theorems, which have no bound. Unbounded in `input_path`: button
changes, polls and losses.

Deadlock is checked in every run but `dhcp_server`, where only `MaxSeq` ends a
behaviour, and `start_net`, where everyone may be in the boot loader and no
restart be left. In the USB runs the loop itself never stops.

Why the USB runs are three. `usb_ep1` has no OUT traffic and no control
transfer after enumeration, because `usb_pid` shows that these break the toggle.
`usb_control` leaves out the exact-multiple read (`usb_null_packet`), and the
faults that let a transfer start over: such a start finds the old packet still on
offer, for `grainuum_state_clear_tx` does not touch the interrupt's queue.
`usb_mixed` has everything and checks what survives it. A lost handshake of a SETUP
also breaks `OneAckPerPacket` (the repeated SETUP meets a packet on offer), and
when a SETUP token is lost and its data is not, the interrupt acknowledges data the
loop ignores: these are why `usb_control` has only the two kinds of fault.

## Fairness

* `WF(MainLoop)`, `WF(TxPoll)`, `WF(RxLoop)`: both loops are `while (1)`; the
  transmitter is woken by a timer.
* `SF(HostIn)`, `SF(HostOut(0))`, `SF` of a repeated SETUP: a host controller polls
  each endpoint and retries each stage periodically (`bInterval`, `hidusb.c` 137),
  not only when the device is ready; being ready infinitely often is enough.
* `WF(HostData)`, `WF(HostAck)`: a transaction on the wire goes on to its end.
* `SF` of a delivered input packet: the radio does not lose everything for ever.
* `SF` of a report that USB takes: `ReportsGetOut` and `EveryReportDelivered` of
  `usb_ep1` are what this stands on.

* `WF(BitTime)`: time passes. The writer and the line go on, `Stop` included.
* `WF(Step)`, `WF(PacketSent)` in `radio_driver`: the processor runs and a chip that
  transmits says so in the end. `radioSend` waits for this without a time-out, so
  `ListensAgain` depends on it.
* `start_net`: `WF` of each loop, of a handler's answer and of the time-outs. For the
  radio, two assumptions of the form "if infinitely often tried, infinitely often
  done". A client that asks for ever has some requests go out from an empty buffer to
  a receiver that is not busy (`Delivered`); a request that finds its sender's
  buffer full does not count. And if the receiver answers what a client asks for ever,
  some answers are in its buffer when it polls. The code gives each of them time: a
  client polls 200 or 30 times, with a pause of 5000 passes each, between two
  requests, which empties its buffer, and the receiver's interrupt has it poll at
  every packet. It has no bound on how many are lost.

No fairness is assumed for faults, buttons, new requests or foreign packets.

## What is proved

With TLAPS, for every value of the constants that meets the named assumptions
of the modules:

* `PhyQueueProofs`: the interrupt always has the head slot to write to
  (`CapturesInTheRing`), from the order of the start-up alone; while a capture
  starts only with two slots free (`MaxPending < QSize`), none disturbs
  the packet in process (`Reentrant`) and the ring implements `PacketFifo`
  (`FifoRefinement`). The invariant says how far the start-up is for each value of
  `irq` and `unplugged`, and that the slot in process is the one just behind the
  tail, and so never the head. The condition cannot be weakened: with all slots but
  one waiting, that one is the slot of the packet in process; a capture overwrites
  it and leaves a ring that looks empty.
* `RxDongleProofs`: `TypeCorrect`, `TransfersHavePackets`, `OutDataFits`,
  `OutRingHasRoom`, for all requests, faults, bounds. The invariant adds to these what
  holds inside `grainuum_state_process_tx`: at "tx" there is a transfer without a
  packet, from "fill" to "epnum" one with its packet. It also says that counts are 0
  without a transfer, which is why an ACK then never starts a packet, and that the
  EP1 ring has a buffer only between `received_data` and the drain that follows it.
  `HostStep` reduces every host action to its effect on the device: it appends to
  the queue and may clear `queued_size`.
  `LedReportsCounted` is about every run, faults and all. Data in the queue becomes a
  report only behind an OUT token of EP1, but an ACK in between may or may not forget
  the token, as it is or is not the last of a transfer. So `LedInv` counts the data
  in the queue twice: `Sure` is right behind its token and bounds from below,
  `Possible` allows for ACKs in between and bounds from above. What the loop has seen,
  plus the ring, plus this, is what the host delivered, give or take one per fault; the
  fault that took a token stays in hand (`TokenMissed`) until the data behind it comes.
* `RxTransferProofs`: what the host gets. `TInv` relates the queue, the bus, the packet
  on offer, the transfer, the host's stage and what it has read so far; from it
  follow that no packet is sent while it is built (`NoPacketTorn`), that each packet
  is on offer or has one ACK (`AcksCounted`), that control reads are right and
  complete, that the toggle of a report is right (`PidsCorrect`) and that the path
  of a report is `ReportPipe` (`PipeRefinement`). Its parts: what follows what in the
  queue, and that an ACK is behind no SETUP (`QueueInv`); a transfer is about to be
  built, on offer or acknowledged, never two of these (`OfferInv`); what was read,
  with the packet on offer or the rest of the transfer, is the answer so far
  (`ControlInv`); the same of the report and its toggle (`ReportInv`).
  The theorems hold for all requests, lengths, reports, backlogs and losses under
  `Quiet`: no LED reports; what is lost is data or an ACK that does not end a stage;
  no read ends with a full packet; what other requests get for their status stage is one
  short packet, empty or not (the byte of SET_REPORT); where there are reports, the
  device was enumerated by the two requests without data. `usb_control` and `usb_ep1` are
  instances of `Quiet`. Each of its conditions excludes a counterexample TLC finds:
  `usb_pid` with LED reports, `usb_null_packet` with a full last packet (a full packet
  in a status stage is the same); a request
  that comes while a report is on offer starts a transfer beside it, and then there
  are two packets for one ACK, without any fault (the code clears its state but not
  the interrupt's queue); and a lost last ACK, token or SETUP handshake does the
  same.
* `InputPathProofs`: no packet in the radio is forgotten (`PacketsPolled`) and no
  change of the report is (`ReportsPending`), for any buttons and traffic. The
  second needs no more than that a handler which counts no change made none.
  Whatever pins come in, the report stays a report of six slots (`TypeCorrect`)
  and holds no key twice (`KeysOnce`): `SecondPass` is a recursive function over
  16 pins, so the proof unfolds its 16 rounds; each round adds at most a key that no
  slot has.
* `DhcpServerProofs`: one address per client, the response matches the table, the
  evicted client was the longest silent. The invariant: used entries come first
  (so the client's own entry is never behind an empty one), and numbers in use
  are distinct and below `table_seq`. The server implements `LeaseTable`
  (`LeaseRefinement`): the place of an entry in the order of the numbers (`Rank`) is a
  bijection of the used entries onto 1 .. n, so the leases in that order are a
  sequence; a request moves one entry to its end and shifts those behind it by one.
* `StartNetProofs`: for any number of transmitters, addresses, versions and restarts:
  types, room in the handler tables (`HandlersHaveRoom`, which assumes room for the
  five the receiver registers), unique and kept addresses, the firmware check. The
  properties speak of the answer an address was taken from; the invariant speaks of
  every answer given: taken, about to be sent, or in a buffer, of whomever
  (`Given`). A send moves packets that are held somewhere already, so it adds nothing
  to these. Those of this life of the receiver
  whose lease lasts are in the table (`GivenNow`); those of one life agree, one
  address per client and one client per address (`GivenOnce`); nothing is of a life
  to come (`PastOnly`); a version that is held and that this life sent is the receiver's
  (`VersionInv`). When the receiver restarts, `GivenNow` holds of nothing and
  `GivenOnce` keeps what it knew of the lives before.
* `RadioDriverProofs`: for any packets and addresses, in whatever state the chip was
  found, it receives only when it is configured (`ConfiguredBeforeListening`). The
  invariant says which registers of which table are written at each step of
  `radioStart` (`TablesInv`), which addresses the filter has (`FilterInv`), and that
  the chip receives only before its reset or between two `radioSend`s (`ModeInv`).
  The driver implements `RadioPort` (`PortRefinement`), for packets of bytes that fit
  the chip's buffer (`PacketTypes`, `PayloadsFit`) and interruptions at any byte. The
  invariant adds in which mode and with which packet to send each place of the driver
  is (`PlaceInv`), and what is in the chip's buffer (`BufferInv`): from the drain on
  nothing, one whole packet with `crc_ok`, or part of one that is coming in; once
  `radioSend` has loaded it, what it sends comes behind these, and is first only if
  there was nothing. Lemmas on frames: a frame is of one packet, its first byte tells
  where it ends whatever comes behind it, and unloading it gives the packet back.
  Then what TLC checks for some inputs, for all of them: a register that was set is
  read back and nothing else has changed, for any contents of the chip
  (`RegistersReadBack`); a frame loaded by one driver is unloaded by another, every
  byte once and in order (`FramesCrossTheBus`); memory is read out complete through the
  firmware server, for every length (`MemoryReadsOut`). These are inductions over the
  bytes sent, received or left. The library's induction theorems cannot be used here,
  but that a set of numbers has a least element follows from its theorem on
  well-founded orders, and from that `Induction`, with a set for the property; the
  recursive functions of `Spi` and `FirmwareServer` exist and are unfolded by it.
* `LineCodeProofs`: every packet of whole bytes, of any length and with any bits, is
  read back as it was sent when the reader is entered at the second to sixth symbol
  of the header and the sender goes on to the end (`ReadsBack`), and the types
  (`LineTypes`). The invariant keeps the two in step: same bit of the packet, same
  level of the line, and logs of the last six bits that agree back to the last zero
  the reader has seen (`Agree`), so both find a run of six at the same bit although
  they count the header differently; what is read so far is a prefix of the packet
  (`ReadSoFar`). What the writer drives is USB's, stuffing and end of packet included
  (`LineRefinement`), for packets that do not start with four ones (`PidsInUse`: only
  MDATA would, which is for high speed). The condition is needed because the
  writer counts the header's KK as a run of two; `StuffInv` relates its log of six
  bits to USB's run since the last zero. And a reader entered at any symbol
  of the header or in the end of packet, whatever becomes of its sender, stores no
  more than the 11 bytes of its slot when no more are sent (`KeepsToSlot`): the code
  compares the length only after a stuffed bit and on its way out. Entries inside the
  data are not covered. The invariant (`SlotInv`) says that a reader in step is at
  no stuffed bit, and that one out of step may take stuffed bits for data but is
  behind by at least as many bits of the packet (`Behind`), so that it leaves at the
  SE0 with no more than were sent; and that on the resting line the run of six comes
  by the 95th bit, before a twelfth byte is full (`Resting`).

Only model-checked: everything about liveness, which is beyond this prover. The
checks of the CRC and of the hash, which need `Bitwise`, are TLC's too, for bounded
inputs, and so are those of `Board`, which has nothing to vary.

## What the violations say

* IN data takes the toggle of the last token's endpoint, and IN and OUT share one
  bit (`grainuum-state.c` 119).
* A read whose `wLength` ends with a full packet leaves an empty packet behind, and
  `usbSend` fails until the next SETUP (`grainuum-state.c` 171-173).
* The first pass of `input_request` shifts by a key code instead of testing a pin
  (`input-server.c` 40).

Comments the code does not follow, and other things to know of, that need no run:

* The debounce filter of `main.c` 82 sends a change in the round that sees it, since
  the counter it resets to 0 is the value that passes.
* "De-queue any data that may already be queued" (`grainuum-state.c` 204) leaves
  the packet with the interrupt.
* The writer presets "J-state" (`grainuum-phy-ll.S` 543) by setting D- and clearing
  D+, which is the K of its header. It counts the header's KK as a run of two ones
  where USB counts one; as a run is over after the first 0, this tells only for a
  packet that starts with four ones, which no PID in use does.
* The reader tests for SE0 in every bit but the last of a byte, and compares the
  length with 88 bits only on its way out and after a stuffed bit, so a 12-byte
  packet may come back as its first 11; `grainuumCaptureI` never looks at a CRC.
  A packet cut short on a byte boundary can be returned with what the resting line
  looks like behind it.
* The modem rows' comments say "no address filtering" where the filter is on
  (`radio.c` 251), and `radio.h` 22 counts the length field in the length, which the
  driver does not (`radio.c` 599). `radio_set_config` accepts the index one past the
  table (`>` for `>=`); nobody passes it.
* `.bLength = 18` is commented "sizeof(struct usb_device_descriptor)" (`hidusb.c` 78),
  but the structure is aligned to words (`grainuum.h` 191) and its size is 20: a host
  that asks for more than 18 bytes gets two bytes of padding behind the descriptor.
* `get_descriptor` (`hidusb.c` 248) looks at nothing but the high byte of `wValue`, and
  `process_setup` asks it about every request but SET_ADDRESS and SET_CONFIGURATION. For
  HID's SET_REPORT(Output) that byte is 2, the type of the configuration descriptor: the
  status stage, which should be empty, carries its first byte. The host of the
  models takes it, or gives the transfer up (`abort`, in `usb_mixed`).
* `__early_init` "must be performed just after stack setup" (`kl02.c` 116) and writes to
  port B (`radioPowerCycle`) before `kl02_clk_init` turns on its clock: the boot loader
  must have done so.
* `radioSend` with a packet waiting in the chip puts the new one behind it, and the
  chip sends the old one; with one arriving, what is sent is no packet. `RadioPort`
  promises no more than that.

## Not modelled

The rest of the vendor headers (3900 of the repository's 8500 lines), the registers of
the timer that wakes the transmitter, waiting for hardware flags, the contents of
descriptors: no state of the program's own. Cycle counting inside a bit time. USB
reset, suspend and the device address on tokens, which the code ignores.
`grainuumDropData`, `grainuumDataQueued`, and in `radio.c` the dumps, the
temperature, the network name, `radioStop` and the default handler have no callers.
The boot loader is another program: going back to it is a phase of `StartNet`, in which
the chip goes on hearing, and a restart in `RadioDriver`. In `StartNet` the air takes no
time, so no send falls into a reception; the packet that is none, which
`RadioPort` allows for then, is left out there. The 32-bit sequence numbers of the
address server stop at `MaxSeq`, long before they wrap.

## Plan

1. Two keypads at one input server, and `InputServer` with a parameter for the number
   of slots, so that a full report is part of the check; an abstract specification
   of the report (the keys of the pins down) and how far the code implements it.
2. A bus reset of the host in `RxDongle`.
3. `StartNet` on an instance of `RadioPort` per node instead of `Radio`, so that the
   promise of the driver, receptions cut short by a send included, is what the network
   stands on.
4. Proofs: `Quiet` without the condition on a full last packet, once the empty packet
   nobody fetches is part of the invariant.
