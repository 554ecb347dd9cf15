----------------------------- MODULE ReportPipe -----------------------------
(***************************************************************************)
(* What the path from usbSend to the host promises when reports are all it *)
(* carries: a report is taken only after the last one has arrived, and     *)
(* arrives exactly once, in order.                                         *)
(***************************************************************************)
EXTENDS Sequences

CONSTANT Values      \* the reports

VARIABLES accepted,  \* reports usbSend took
          delivered  \* reports the host took

Init == accepted = << >> /\ delivered = << >>

Accept(v) == /\ accepted = delivered
             /\ accepted' = Append(accepted, v)
             /\ UNCHANGED delivered

Deliver == /\ accepted # delivered
           /\ delivered' = accepted
           /\ UNCHANGED accepted

Next == (\E v \in Values : Accept(v)) \/ Deliver

pipe == <<accepted, delivered>>

Spec == Init /\ [][Next]_pipe

\* A report taken is a report that arrives.
Liveness == WF_pipe(Deliver)
=============================================================================
