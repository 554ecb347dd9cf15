---------------------------- MODULE MCInputPath ----------------------------
(***************************************************************************)
(* TLC instances of InputPath: two buttons, one beside the other.  What    *)
(* lies below is checked too: the pads, interrupts and clocks of a board.  *)
(***************************************************************************)
EXTENDS InputPath, Board, FiniteSets

\* An interrupt that is enabled finds a handler that clears its own flag; any other
\* handler would be entered again for ever, and there is no other way to stop it.
ASSUME InterruptsHandled ==
    \A model \in palawan_model : \A irq \in Enabled(model) :
        HandlerOf(irq) \in DOMAIN Clears /\ Clears[HandlerOf(irq)] = irq

\* Every pin of the transmitter has a pad of its own, which is an input with a pull-up.
ASSUME PinsArePads ==
    /\ DOMAIN palawanTxReadPins = {pin + 1 : pin \in AllPins}
    /\ \A i, j \in DOMAIN palawanTxReadPins :
           palawanTxReadPins[i] = palawanTxReadPins[j] => i = j
    /\ \A i \in DOMAIN palawanTxReadPins : Pads("palawan_tx")[palawanTxReadPins[i]] = PullUp

\* No pad is set up twice, but for DIO0 on the transmitter: it has lost its interrupt,
\* which nobody waits for there, and the radio moves a pin that has no key.
ASSUME PadsHaveOneUse ==
    /\ SetTwice("palawan_rx") = {} /\ SetTwice("palawan_tx") = {DIO0}
    /\ \A i \in DOMAIN palawanTxReadPins :
           palawanTxReadPins[i] = DIO0 => key_mapping[i - 1] = NoKey

\* The receiver's interrupts come from the pads its handlers are for.
ASSUME ReceiverInterrupts ==
    {pad \in DOMAIN Pads("palawan_rx") : Pads("palawan_rx")[pad].irqc # "off"}
        = {DIO0, defaultUsbPhy.dn, defaultUsbPhy.dp}

\* On the way to its final speed the processor is never clocked faster than it may
\* be, nor its bus; then the 32 cycles of a bit are those of low-speed USB, which
\* tolerates 1.5 percent, and only the board with the crystal gets there.
CoreLimit == 48000000
BusLimit  == 24000000
ASSUME ClocksInRange ==
    /\ \A model \in palawan_model : \A i \in DOMAIN kl02_clk_init(model) :
           LET clock == kl02_clk_init(model)[i]
           IN Core(clock) <= CoreLimit /\ ClockOfBus(clock) <= BusLimit
    /\ LET final == kl02_clk_init("palawan_rx")
           bits == Core(final[Len(final)]) \div 32
       IN /\ Core(final[Len(final)]) = KINETIS_SYSCLK_FREQUENCY
          /\ bits \in 1477500 .. 1522500 /\ final[Len(final)].source = "crystal"
=============================================================================
