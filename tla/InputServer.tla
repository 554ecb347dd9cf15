----------------------------- MODULE InputServer -----------------------------
(***************************************************************************)
(* The handler of input packets of the receiver (src/src/input-server.c):  *)
(* what an input packet does to the six keys of the keyboard report.  The  *)
(* packet is a word with a bit for each pin that is down; here it is the   *)
(* set of these pins.                                                      *)
(***************************************************************************)
EXTENDS Integers

AllPins == 0 .. 15
Slots   == 0 .. 5
NoKey   == 0

\* Pins 5, 6, 10, 11 and 15 have no key.
key_mapping == [pin \in AllPins |->
    CASE pin = 0 -> 36 [] pin = 1  -> 35 [] pin = 2  -> 33 [] pin = 3  -> 38
      [] pin = 4 -> 31 [] pin = 7  -> 32 [] pin = 8  -> 37 [] pin = 9  -> 30
      [] pin = 12 -> 39 [] pin = 13 -> 43 [] pin = 14 -> 34 [] OTHER -> NoKey]

KeysOf(down)   == {key_mapping[pin] : pin \in down} \ {NoKey}
KeysIn(keys)   == {keys[i] : i \in Slots} \ {NoKey}
NoKeys         == [i \in Slots |-> NoKey]

\* *state << pin_num is 0: every bit is pushed out of the word.  pin_num is
\* the key code less 4, not the key's pin.  (A shift by more than 31 gives 0 on
\* the Cortex-M0+, which takes the low byte of the register.)
ShiftedOut(down, key) == \A pin \in down : pin + (key - 4) >= 32

\* Mutant: the keys stay.
FirstPassKeeps(keys, down) == keys

FirstPass(keys, down) ==
    [i \in Slots |-> IF ShiftedOut(down, keys[i]) THEN NoKey ELSE keys[i]]

\* Mutant: it is not looked whether the key has a slot.
AddKeyAgain(keys, key) ==
    LET spare == {i \in Slots : keys[i] = NoKey}
    IN  IF spare = {} THEN keys
        ELSE [keys EXCEPT ![CHOOSE i \in spare : \A j \in spare : i <= j] = key]

\* A key that has no slot gets the first spare one.
AddKey(keys, key) ==
    LET spare == {i \in Slots : keys[i] = NoKey}
    IN  IF key \in {keys[i] : i \in Slots} \/ spare = {} THEN keys
        ELSE [keys EXCEPT ![CHOOSE i \in spare : \A j \in spare : i <= j] = key]

SecondPass(keys, down) ==
    LET upTo[n \in 0 .. 16] ==
            IF n = 0 THEN keys
            ELSE IF n - 1 \in down THEN AddKey(upTo[n - 1], key_mapping[n - 1])
                                   ELSE upTo[n - 1]
    IN  upTo[16]

\* The keys after input_request, and whether it counted a change.  A key that
\* is removed and added again counts.
NewKeys(keys, down) == SecondPass(FirstPass(keys, down), down)

\* Mutant: a key that is gone is not counted.
ChangedIfAdded(keys, down) == NewKeys(keys, down) # FirstPass(keys, down)

Changed(keys, down) == FirstPass(keys, down) # keys
                       \/ NewKeys(keys, down) # FirstPass(keys, down)
=============================================================================
