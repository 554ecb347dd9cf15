----------------------------- MODULE DhcpServer -----------------------------
(***************************************************************************)
(* The address server of the receiver (src/src/dhcp-server.c): a table of  *)
(* clients, each with the number of its last request, and the handler of   *)
(* radio_prot_dhcp_request.                                                *)
(***************************************************************************)
EXTENDS Integers, Sequences, FiniteSets

CONSTANTS Entries,   \* ARRAY_SIZE(dhcp_table.entries), 10 in the code
          Uids,      \* uids of the clients that ask
          NoUid,     \* the zero uid of an unused entry
          MaxSeq     \* requests before the uint32_t sequence number wraps

ASSUME EntriesAssumption == Entries \in Nat \ {0}
ASSUME NoUidAssumption == NoUid \notin Uids
ASSUME MaxSeqAssumption == MaxSeq \in Nat

VARIABLES uid,       \* dhcp_table.entries[i].uid
          seq,       \* dhcp_table.entries[i].seq
          table_seq, \* dhcp_table.seq
          response   \* the last response sent: [uid, addr]

vars == <<uid, seq, table_seq, response>>

Index == 0 .. Entries - 1
FirstAddress == 2

Init == /\ uid = [i \in Index |-> NoUid]
        /\ seq = [i \in Index |-> 0]
        /\ table_seq = 0
        /\ response = [uid |-> NoUid, addr |-> 0]

\* The loop breaks at the first entry that is the client's or nobody's ...
Free(i, u)      == uid[i] = u \/ uid[i] = NoUid
\* Mutant: only an empty entry is looked for.
FirstFreeEmpty(i, u) == uid[i] = NoUid /\ \A j \in Index : j < i => uid[j] # NoUid

FirstFree(i, u) == Free(i, u) /\ \A j \in Index : j < i => ~Free(j, u)

Older(i) == seq[i] < table_seq

\* Mutant: the smallest number so far is not kept, so the last one wins.
FirstOldestLast(i) ==
    IF \E j \in Index : Older(j)
    THEN Older(i) /\ \A j \in Index : j > i => ~Older(j)
    ELSE i = 0

\* ... and else ends with the first of the smallest numbers below table_seq,
\* or with the entry 0 it started from.
FirstOldest(i) ==
    IF \E j \in Index : Older(j)
    THEN Older(i) /\ \A j \in Index : IF j < i THEN seq[i] < seq[j] ELSE seq[i] <= seq[j]
    ELSE i = 0

Chosen(i, u) == IF \E j \in Index : Free(j, u) THEN FirstFree(i, u) ELSE FirstOldest(i)

\* What the mutants of dhcp_request do with the chosen entry.
RequestWith(u, NewUid(_), NewSeq(_)) ==
    /\ table_seq < MaxSeq
    /\ \E i \in Index :
         /\ Chosen(i, u)
         /\ uid' = [uid EXCEPT ![i] = NewUid(i)]
         /\ seq' = [seq EXCEPT ![i] = NewSeq(i)]
         /\ response' = [uid |-> u, addr |-> i + FirstAddress]
    /\ table_seq' = table_seq + 1

\* Mutant: a client that asks again is not counted as heard.
RequestOldNumber(u) ==
    RequestWith(u, LAMBDA i : u, LAMBDA i : IF uid[i] = u THEN seq[i] ELSE table_seq)

\* dhcp_request
Request(u) ==
    /\ table_seq < MaxSeq
    /\ \E i \in Index :
         /\ Chosen(i, u)
         /\ uid' = [uid EXCEPT ![i] = u]
         /\ seq' = [seq EXCEPT ![i] = table_seq]
         /\ response' = [uid |-> u, addr |-> i + FirstAddress]
    /\ table_seq' = table_seq + 1

Next == \E u \in Uids : Request(u)

Spec == Init /\ [][Next]_vars

-----------------------------------------------------------------------------
(* Properties *)

TypeOK == /\ uid \in [Index -> Uids \cup {NoUid}]
          /\ seq \in [Index -> Nat]
          /\ table_seq \in Nat
          /\ response \in [uid : Uids \cup {NoUid}, addr : Nat]

\* No client holds two addresses, although the handler takes the first entry
\* that is free OR the client's own, whichever it meets first.
OneAddressPerClient ==
    \A i, j \in Index : uid[i] = uid[j] /\ uid[i] # NoUid => i = j

\* The address in a response is the one the table has for that client.
ResponseMatchesTable ==
    response.uid # NoUid =>
        /\ response.addr - FirstAddress \in Index
        /\ uid[response.addr - FirstAddress] = response.uid

\* "This allows us to kick out the oldest value." (dhcp-server.c:12): a client
\* that loses its address was heard before every other client of the table,
\* and nobody loses one while the asking client or nobody has an entry.
OldestKickedOut ==
    [][\A i \in Index :
         uid[i] # NoUid /\ uid'[i] # uid[i] =>
             \A j \in Index \ {i} : /\ uid[j] # NoUid /\ seq[i] < seq[j]
                                    /\ uid'[i] # uid[j]]_vars

Used == {i \in Index : uid[i] # NoUid}

\* The clients from the longest silent to the last heard.
Rank(i) == 1 + Cardinality({j \in Used : seq[j] < seq[i]})
Recent  == [r \in 1 .. Cardinality(Used) |-> uid[CHOOSE i \in Used : Rank(i) = r]]
Lease   == [u \in {uid[i] : i \in Used} |->
              FirstAddress + CHOOSE i \in Used : uid[i] = u]

\* Seen from the clients the table is a LeaseTable.
Leases == INSTANCE LeaseTable
            WITH Slots <- {i + FirstAddress : i \in Index},
                 NoAnswer <- [uid |-> NoUid, addr |-> 0],
                 recent <- Recent, lease <- Lease, answer <- response
ImplementsLeaseTable == Leases!Spec
=============================================================================
