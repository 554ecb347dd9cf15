------------------------------- MODULE Board -------------------------------
(***************************************************************************)
(* What the two boards share and where they differ: which handler the core *)
(* finds for an interrupt (src/src/vectors.c), what each pad of the chip   *)
(* is set up for and in which order, and how fast the clocks of the        *)
(* receiver run (src/src/kl02.c).                                          *)
(***************************************************************************)
EXTENDS Integers, Sequences, TLC

palawan_model == {"palawan_tx", "palawan_rx"}
----------------------------------------------------------------------------
(***************************************************************************)
(* Interrupts.                                                             *)
(***************************************************************************)
IRQn == [LPTMR0 |-> 28, PINA |-> 30, PINB |-> 31]

\* The handler at each offset of the table: a weak alias of _unhandled_exception,
\* which stops, but for the four that some file defines.
vectors == [offset \in {4 * n : n \in 1 .. 47} |->
    CASE offset = 4    -> "Reset_Handler"
      [] offset = \hB0 -> "VectorB0"
      [] offset = \hB8 -> "VectorB8"
      [] offset = \hBC -> "VectorBC"
      [] OTHER         -> "_unhandled_exception"]

\* The peripheral whose flag a handler clears before it returns.
Clears == [VectorB0 |-> "LPTMR0", VectorB8 |-> "PINA", VectorBC |-> "PINB"]

\* What a board hands to NVIC_EnableIRQ: radioInit on both, palawanTxEnableTimer
\* on the transmitter, usbStart on the receiver.
Enabled(model) == {"PINA", IF model = "palawan_tx" THEN "LPTMR0" ELSE "PINB"}

\* The first 16 exceptions are the core's.
HandlerOf(irq) == vectors[4 * (16 + IRQn[irq])]
----------------------------------------------------------------------------
(***************************************************************************)
(* Pads.  A step of the set-up is a function from the pads it writes to    *)
(* what it makes of them.                                                  *)
(***************************************************************************)
Gpio == [mux |-> 1, irqc |-> "off", pull |-> "off"]
PullUp == [Gpio EXCEPT !.pull = "up"]
Interrupt(edge) == [Gpio EXCEPT !.irqc = edge]
Spi0 == [Gpio EXCEPT !.mux = 3]

DIO0 == <<"A", 12>>     \* the radio's "packet received"

configure_led == <<"B", 1>> :> Gpio
spiInit == <<"A", 5>> :> Gpio @@ [pad \in {<<"A", 6>>, <<"A", 7>>, <<"B", 0>>} |-> Spi0]
early_init_radio == DIO0 :> Interrupt("rising") @@ [pad \in {<<"B", 2>>, <<"B", 11>>} |-> Gpio]

defaultUsbPhy == [dn |-> <<"B", 6>>, dp |-> <<"B", 5>>]
usbStart == [pad \in {<<"B", 5>>, <<"B", 6>>} |-> Interrupt("either")]

palawanTxPinSetup ==
    [pad \in ({"A"} \X (3 .. 4 \cup 9 .. 13)) \cup ({"B"} \X (3 .. 10 \cup {13})) |-> PullUp]

\* The pad of pin i is the element i + 1.
palawanTxReadPins ==
    [i \in 1 .. 7 |-> <<"A", <<3, 4, 9, 10, 11, 12, 13>>[i]>>]
    \o [i \in 1 .. 9 |-> <<"B", <<3, 4, 5, 6, 7, 8, 9, 10, 13>>[i]>>]

\* palawan_main, then the main function of the board.
palawan_main(model) ==
    <<configure_led, spiInit, early_init_radio,
      IF model = "palawan_tx" THEN palawanTxPinSetup ELSE usbStart>>

\* What the pads are in the end: a later step replaces what an earlier one wrote.
Pads(model) == LET step == palawan_main(model)
               IN step[4] @@ step[3] @@ step[2] @@ step[1]

SetTwice(model) ==
    LET step == palawan_main(model)
    IN {pad \in DOMAIN Pads(model) :
            \E i, j \in 1 .. 4 : i # j /\ pad \in DOMAIN step[i] \cap DOMAIN step[j]}
----------------------------------------------------------------------------
(***************************************************************************)
(* Clocks, in Hz.  The FLL multiplies its reference by a factor; the core  *)
(* and then the bus divide what comes out.                                 *)
(***************************************************************************)
KINETIS_SYSCLK_FREQUENCY == 47972352

\* Bits DMX32 and DRST_DRS of C4, those the code uses and those of a reset.
FllFactor(dmx32, drs) == CASE dmx32 = 0 /\ drs = 0 -> 640
                           [] dmx32 = 1 /\ drs = 1 -> 1464

Core(clock) == (clock.ref * FllFactor(clock.dmx32, clock.drs)) \div clock.outdiv1
ClockOfBus(clock) == Core(clock) \div clock.outdiv4

\* After a reset the reference is the internal one, trimmed to the same frequency.
ResetClock == [source |-> "internal", ref |-> 32768, dmx32 |-> 0, drs |-> 0,
               outdiv1 |-> 1, outdiv4 |-> 2]

\* The clocks after each write of the set-up, which only a board with a crystal does.
kl02_clk_init(model) ==
    IF model # "palawan_rx" THEN <<ResetClock>>
    ELSE LET divided == [ResetClock EXCEPT !.outdiv1 = 1, !.outdiv4 = 2]
             external == [divided EXCEPT !.source = "crystal", !.ref = 32768]
         IN <<ResetClock, divided, external, [external EXCEPT !.dmx32 = 1, !.drs = 1]>>
=============================================================================
