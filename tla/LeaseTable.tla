----------------------------- MODULE LeaseTable -----------------------------
(***************************************************************************)
(* What the address server promises its clients: at most Slots leases, no  *)
(* address with two clients, a client that asks again keeps its address,   *)
(* and when all addresses are taken the client that has been silent for    *)
(* the longest time loses its own.  The answer to a client names the       *)
(* address it holds from then on.                                          *)
(***************************************************************************)
EXTENDS Integers, Sequences

CONSTANTS Slots,   \* the addresses there are
          Uids,    \* the clients there are
          NoAnswer \* nobody was answered yet

VARIABLES recent,  \* clients with a lease, the longest silent one first
          lease,   \* client -> address
          answer   \* the last answer given

Init == recent = << >> /\ lease = [u \in {} |-> 0] /\ answer = NoAnswer

Leased == DOMAIN lease

\* A client with a lease asks again.
Renew(u) == /\ u \in Leased
            /\ \E k \in 1 .. Len(recent) :
                 /\ recent[k] = u
                 /\ recent' = [i \in 1 .. Len(recent) |->
                                 IF i < k THEN recent[i]
                                 ELSE IF i < Len(recent) THEN recent[i + 1] ELSE u]
            /\ UNCHANGED lease

\* A new client gets an address nobody has.
Grant(u) == /\ u \notin Leased
            /\ \E a \in Slots :
                 /\ \A v \in Leased : lease[v] # a
                 /\ lease' = [v \in Leased \cup {u} |-> IF v = u THEN a ELSE lease[v]]
            /\ recent' = Append(recent, u)

\* A new client gets the address of the client silent for the longest time.
Evict(u) == /\ u \notin Leased
            /\ \A a \in Slots : \E v \in Leased : lease[v] = a
            /\ LET old == Head(recent)
               IN  lease' = [v \in (Leased \ {old}) \cup {u} |->
                               IF v = u THEN lease[old] ELSE lease[v]]
            /\ recent' = Append(Tail(recent), u)

Next == \E u \in Uids : /\ Renew(u) \/ Grant(u) \/ Evict(u)
                        /\ answer' = [uid |-> u, addr |-> lease'[u]]

Spec == Init /\ [][Next]_<<recent, lease, answer>>
=============================================================================
