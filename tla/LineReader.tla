----------------------------- MODULE LineReader -----------------------------
(***************************************************************************)
(* usbPhyReadI (src/grainuum/grainuum-phy-ll.S): finds the end of the sync *)
(* pattern, then takes one sample per bit time until the line shows SE0.   *)
(* s is the symbol on the line during the bit time.  The store of a byte   *)
(* is not bounded; the packet ring has 11 bytes for it.                    *)
(***************************************************************************)
EXTENDS Integers, Sequences

CONSTANT MaxBits \* bits after which the model stops sampling

VARIABLES rpc,      \* where the reader is
          rlastval, \* the last sample: of D- up to the sync, then of D+
          rtry,     \* samples spent on the sync pattern
          runstuff, \* the last six bits, the newest first
          rcounter, \* bits read
          rsample,  \* bits of the byte being read
          out,      \* bytes stored, as bits
          ret       \* the return value

readerVars == <<rpc, rlastval, rtry, runstuff, rcounter, rsample, out, ret>>

DPlus(s)  == IF s = "J" THEN 1 ELSE 0
DMinus(s) == IF s = "K" THEN 1 ELSE 0
IsSe0(s)  == DPlus(s) + DMinus(s) = 0
PushBit(bits, b) == [i \in 1 .. 6 |-> IF i = 1 THEN b ELSE bits[i - 1]]
SixOnes(bits) == \A i \in 1 .. 6 : bits[i] = 1

MaxBytes == 11
SyncTries == 6
AlreadySe0 == -4
SyncTimeout == -3
Overflow == -2
Timeout == -1

ReaderInit == /\ rpc = "off" /\ rlastval = 0 /\ rtry = 0
              /\ runstuff = <<1, 1, 0, 0, 0, 0>> /\ rcounter = 0
              /\ rsample = << >> /\ out = << >> /\ ret = 0

Return(value) == rpc' = "done" /\ ret' = value

\* Entered by an edge: SE0 is a keep-alive, else the level of D- is noted.
ReadStart(s) ==
    /\ rpc = "off"
    /\ \/ IsSe0(s) /\ Return(AlreadySe0) /\ UNCHANGED rlastval
       \/ ~IsSe0(s) /\ rpc' = "flip" /\ rlastval' = DMinus(s) /\ UNCHANGED ret
    /\ UNCHANGED <<rtry, runstuff, rcounter, rsample, out>>

\* Mutant: D- is watched until it changes.
ReadFlipWaits(s) ==
    /\ rpc = "flip"
    /\ IF DMinus(s) = rlastval
       THEN UNCHANGED <<rpc, rlastval, rtry>>
       ELSE rpc' = "sync" /\ rlastval' = DMinus(s) /\ rtry' = 1
    /\ UNCHANGED <<runstuff, rcounter, rsample, out, ret>>

\* D- is watched for a bit time (8 samples, 4 cycles apart); when it changes
\* the first sample for the sync pattern is taken, which differs.
ReadFlip(s) ==
    /\ rpc = "flip"
    /\ \/ DMinus(s) = rlastval /\ Return(Timeout) /\ UNCHANGED <<rlastval, rtry>>
       \/ /\ DMinus(s) # rlastval
          /\ rpc' = "sync" /\ rlastval' = DMinus(s) /\ rtry' = 1
          /\ UNCHANGED ret
    /\ UNCHANGED <<runstuff, rcounter, rsample, out>>

\* A repeated level ends the sync pattern.  rlastval, the bit of D- rotated by
\* the shift of D+ and masked with 1, is 0: what D+ is in K.
ReadSync(s) ==
    /\ rpc = "sync"
    /\ \/ /\ DMinus(s) = rlastval
          /\ rpc' = "bits" /\ rlastval' = 0 /\ UNCHANGED <<rtry, ret>>
       \/ /\ DMinus(s) # rlastval /\ rtry + 1 < SyncTries
          /\ rtry' = rtry + 1 /\ rlastval' = DMinus(s) /\ UNCHANGED <<rpc, ret>>
       \/ /\ DMinus(s) # rlastval /\ rtry + 1 = SyncTries
          /\ Return(SyncTimeout) /\ UNCHANGED <<rtry, rlastval>>
    /\ UNCHANGED <<runstuff, rcounter, rsample, out>>

\* Mutant: any number of bytes is returned.
ExitAnyLength(bits) == Return(bits \div 8)

\* bytes = bits / 8, an error above 11
Exit(bits) == Return(IF bits \div 8 > MaxBytes THEN Overflow ELSE bits \div 8)

CheckUnstuff(run) == /\ rpc' = IF SixOnes(run) THEN "unstuff" ELSE "bits"
                     /\ UNCHANGED ret

AdvanceByte(bit) == out' = out \o Append(rsample, bit) /\ rsample' = << >>

\* A bit is 1 when D+ did not change.  SE0 is looked for except at the end of
\* a byte.
ReadBit(s) ==
    /\ rpc = "bits" /\ rcounter < MaxBits
    /\ LET bit == IF DPlus(s) = rlastval THEN 1 ELSE 0
           run == PushBit(runstuff, bit)
       IN  /\ rlastval' = DPlus(s) /\ runstuff' = run /\ rcounter' = rcounter + 1
           /\ \/ /\ rcounter' % 8 = 0
                 /\ AdvanceByte(bit) /\ CheckUnstuff(run)
              \/ /\ rcounter' % 8 # 0 /\ IsSe0(s)
                 /\ Exit(rcounter') /\ rsample' = Append(rsample, bit) /\ UNCHANGED out
              \/ /\ rcounter' % 8 # 0 /\ ~IsSe0(s)
                 /\ CheckUnstuff(run) /\ rsample' = Append(rsample, bit) /\ UNCHANGED out
    /\ UNCHANGED rtry

\* Mutants: the length is not looked at, and the level before the stuffed bit
\* is compared with the level after it.
UnstuffNoLimit(s) ==
    /\ rpc = "unstuff" /\ rpc' = "bits"
    /\ runstuff' = <<0, 1, 0, 0, 0, 0>> /\ rlastval' = 1 - rlastval
    /\ UNCHANGED <<rtry, rcounter, rsample, out, ret>>
UnstuffKeepsLevel(s) ==
    /\ rpc = "unstuff"
    /\ \/ rcounter > 8 * MaxBytes /\ Exit(rcounter) /\ UNCHANGED runstuff
       \/ rcounter <= 8 * MaxBytes /\ rpc' = "bits"
          /\ runstuff' = <<0, 1, 0, 0, 0, 0>> /\ UNCHANGED ret
    /\ UNCHANGED <<rlastval, rtry, rcounter, rsample, out>>

\* The bit after six ones is not sampled: the level is taken to be inverted and
\* the run starts over (0b10).  Here alone more than 11 bytes end the loop.
Unstuff(s) ==
    /\ rpc = "unstuff"
    /\ runstuff' = <<0, 1, 0, 0, 0, 0>> /\ rlastval' = 1 - rlastval
    /\ \/ rcounter > 8 * MaxBytes /\ Exit(rcounter)
       \/ rcounter <= 8 * MaxBytes /\ rpc' = "bits" /\ UNCHANGED ret
    /\ UNCHANGED <<rtry, rcounter, rsample, out>>

ReaderStep(s) == ReadStart(s) \/ ReadFlip(s) \/ ReadSync(s) \/ ReadBit(s) \/ Unstuff(s)
=============================================================================
