-------------------------- MODULE DhcpServerProofs --------------------------
(***************************************************************************)
(* The address table for every number of entries and clients.              *)
(***************************************************************************)
EXTENDS DhcpServer, FiniteSetTheorems, TLAPS

\* Entries are used from the first one on: the loop stops at the first unused
\* entry, so a client that has an entry is met before any unused one.  Without
\* this the table could hold a client twice.
UsedFirst == \A i, j \in Index : i < j /\ uid[i] = NoUid => uid[j] = NoUid

\* The numbers of used entries are distinct and have all been given out.
SeqInOrder == /\ \A i \in Index : uid[i] # NoUid => seq[i] < table_seq
              /\ \A i, j \in Index : uid[i] # NoUid /\ uid[j] # NoUid /\ i # j
                                        => seq[i] # seq[j]

IInv == TypeOK /\ UsedFirst /\ OneAddressPerClient /\ SeqInOrder

LEMMA InitIInv == Init => IInv
BY EntriesAssumption DEF Init, IInv, TypeOK, UsedFirst, OneAddressPerClient, SeqInOrder, Index

\* What the entry the handler chooses looks like.
LEMMA ChosenEntry ==
    ASSUME IInv, NEW u \in Uids, NEW i \in Index, Chosen(i, u)
    PROVE  /\ \A j \in Index \ {i} : uid[j] # u
           /\ \A j \in Index : j < i => uid[j] # NoUid
           /\ ~Free(i, u) => \A j \in Index \ {i} : uid[j] # NoUid /\ seq[i] < seq[j]
<1> USE DEF Index, Free
<1>1. CASE \E j \in Index : Free(j, u)
  <2>1. Free(i, u) /\ \A j \in Index : j < i => ~Free(j, u)
    BY <1>1 DEF Chosen, FirstFree
  <2>2. ASSUME NEW j \in Index \ {i} PROVE uid[j] # u
    <3>1. CASE j < i
      BY <2>1, <3>1
    <3>2. CASE j > i /\ uid[i] = u
      BY <3>2, NoUidAssumption DEF IInv, OneAddressPerClient
    <3>3. CASE j > i /\ uid[i] = NoUid
      BY <3>3, NoUidAssumption DEF IInv, UsedFirst
    <3>4. QED
      BY <2>1, <3>1, <3>2, <3>3
  <2>3. QED
    BY <2>1, <2>2
<1>2. CASE ~\E j \in Index : Free(j, u)
  <2>1. FirstOldest(i)
    BY <1>2 DEF Chosen
  <2>2. \A j \in Index : uid[j] # u /\ uid[j] # NoUid
    BY <1>2
  <2>3. \E j \in Index : Older(j)
    BY <2>2 DEF IInv, SeqInOrder, Older
  <2>4. ASSUME NEW j \in Index \ {i} PROVE seq[i] < seq[j]
    <3>1. seq[i] \in Nat /\ seq[j] \in Nat /\ seq[i] # seq[j]
      BY <2>2 DEF IInv, TypeOK, SeqInOrder
    <3>2. seq[i] < seq[j] \/ seq[i] <= seq[j]
      BY <2>1, <2>3 DEF FirstOldest
    <3>3. QED
      BY <3>1, <3>2
  <2>5. QED
    BY <2>2, <2>4
<1>3. QED
  BY <1>1, <1>2

LEMMA NextIInv == IInv /\ [Next]_vars => IInv'
<1> SUFFICES ASSUME IInv, [Next]_vars PROVE IInv'
  OBVIOUS
<1> USE DEF IInv
<1>1. CASE UNCHANGED vars
  BY <1>1 DEF vars, TypeOK, UsedFirst, OneAddressPerClient, SeqInOrder
<1>2. ASSUME NEW u \in Uids, Request(u) PROVE IInv'
  <2>1. PICK i \in Index : /\ Chosen(i, u)
                           /\ uid' = [uid EXCEPT ![i] = u]
                           /\ seq' = [seq EXCEPT ![i] = table_seq]
                           /\ response' = [uid |-> u, addr |-> i + FirstAddress]
    BY <1>2 DEF Request
  <2>2. table_seq' = table_seq + 1
    BY <1>2 DEF Request
  <2>3. /\ \A j \in Index \ {i} : uid[j] # u
        /\ \A j \in Index : j < i => uid[j] # NoUid
    BY <2>1, ChosenEntry
  <2>4. /\ \A j \in Index : uid'[j] = IF j = i THEN u ELSE uid[j]
        /\ \A j \in Index : seq'[j] = IF j = i THEN table_seq ELSE seq[j]
    BY <2>1 DEF TypeOK
  <2>5. TypeOK'
    BY <2>1, <2>2 DEF TypeOK, Index, FirstAddress
  <2>6. UsedFirst'
    BY <2>3, <2>4, NoUidAssumption DEF UsedFirst, Index
  <2>7. OneAddressPerClient'
    BY <2>3, <2>4 DEF OneAddressPerClient
  <2>8. SeqInOrder'
    BY <2>2, <2>4 DEF SeqInOrder, TypeOK
  <2>9. QED
    BY <2>5, <2>6, <2>7, <2>8
<1>3. QED
  BY <1>1, <1>2 DEF Next

\* The inductive invariant of the address table.
THEOREM Invariance == Spec => []IInv
BY InitIInv, NextIInv, PTL DEF Spec

\* Whatever is asked, the table of dhcp-server.c:10-21 holds clients and numbers.
THEOREM TypeCorrect == Spec => []TypeOK
<1>1. IInv => TypeOK
  BY DEF IInv
<1>2. QED
  BY <1>1, Invariance, PTL

\* No client of the server ever holds two addresses.
THEOREM OneAddress == Spec => []OneAddressPerClient
<1>1. IInv => OneAddressPerClient
  BY DEF IInv
<1>2. QED
  BY <1>1, Invariance, PTL

\* Every response the server sends is backed by its table.
THEOREM ResponsesMatch == Spec => []ResponseMatchesTable
<1>1. Init => ResponseMatchesTable
  BY DEF Init, ResponseMatchesTable
<1>2. IInv /\ ResponseMatchesTable /\ [Next]_vars => ResponseMatchesTable'
  <2> SUFFICES ASSUME IInv, ResponseMatchesTable, [Next]_vars PROVE ResponseMatchesTable'
    OBVIOUS
  <2>1. CASE UNCHANGED vars
    BY <2>1 DEF vars, ResponseMatchesTable
  <2>2. ASSUME NEW u \in Uids, Request(u) PROVE ResponseMatchesTable'
    BY <2>2, NoUidAssumption DEF Request, ResponseMatchesTable, FirstAddress, Index, IInv, TypeOK
  <2>3. QED
    BY <2>1, <2>2 DEF Next
<1>3. QED
  BY <1>1, <1>2, Invariance, PTL DEF Spec

\* A client loses its address only when the table is full of others, and only
\* if it is the one silent for the longest time.
THEOREM OldestGoes == Spec => OldestKickedOut
<1>1. IInv /\ [Next]_vars =>
        [\A i \in Index :
           uid[i] # NoUid /\ uid'[i] # uid[i] =>
             \A j \in Index \ {i} : /\ uid[j] # NoUid /\ seq[i] < seq[j]
                                    /\ uid'[i] # uid[j]]_vars
  <2> SUFFICES ASSUME IInv, NEW u \in Uids, Request(u),
                      NEW i \in Index, uid[i] # NoUid, uid'[i] # uid[i],
                      NEW j \in Index \ {i}
               PROVE  uid[j] # NoUid /\ seq[i] < seq[j] /\ uid'[i] # uid[j]
    BY DEF Next
  <2>1. PICK k \in Index : Chosen(k, u) /\ uid' = [uid EXCEPT ![k] = u]
    BY DEF Request
  <2>2. k = i /\ uid'[i] = u
    BY <2>1 DEF IInv, TypeOK
  <2>3. ~Free(i, u)
    BY <2>2 DEF Free
  <2>4. QED
    BY <2>1, <2>2, <2>3, ChosenEntry
<1>2. QED
  BY <1>1, Invariance, PTL DEF Spec, OldestKickedOut

-----------------------------------------------------------------------------
(* The table is a LeaseTable: ranks by the number of the last request. *)

Below(S, q, i)  == {j \in S : q[j] < q[i]}
RankIn(S, q, i) == 1 + Cardinality(Below(S, q, i))
Numbered(S, q)  == /\ IsFiniteSet(S)
                   /\ \A i \in S : q[i] \in Nat
                   /\ \A i, j \in S : i # j => q[i] # q[j]

\* Ranks grow with the numbers.
LEMMA RanksGrow ==
    ASSUME NEW S, NEW q, Numbered(S, q)
    PROVE  /\ \A i \in S : RankIn(S, q, i) \in 1 .. Cardinality(S)
           /\ \A i, j \in S : q[i] < q[j] => RankIn(S, q, i) < RankIn(S, q, j)
<1> USE DEF Numbered
<1>1. ASSUME NEW i \in S
      PROVE  /\ IsFiniteSet(Below(S, q, i))
             /\ Cardinality(Below(S, q, i)) \in Nat
             /\ Cardinality(Below(S, q, i)) < Cardinality(S)
  <2>1. Below(S, q, i) \in SUBSET S /\ i \notin Below(S, q, i)
    BY DEF Below
  <2>2. /\ IsFiniteSet(Below(S, q, i))
        /\ Cardinality(Below(S, q, i)) <= Cardinality(S)
        /\ Cardinality(S) # Cardinality(Below(S, q, i))
    BY <2>1, FS_Subset
  <2>3. Cardinality(Below(S, q, i)) \in Nat /\ Cardinality(S) \in Nat
    BY <2>2, FS_CardinalityType
  <2>4. QED
    BY <2>2, <2>3
<1>2. Cardinality(S) \in Nat
  BY FS_CardinalityType
<1>3. ASSUME NEW i \in S PROVE RankIn(S, q, i) \in 1 .. Cardinality(S)
  BY <1>1, <1>2 DEF RankIn
<1>4. ASSUME NEW i \in S, NEW j \in S, q[i] < q[j] PROVE RankIn(S, q, i) < RankIn(S, q, j)
  <2>1. q[i] \in Nat /\ q[j] \in Nat /\ \A k \in S : q[k] \in Nat
    OBVIOUS
  <2>2. /\ Below(S, q, i) \in SUBSET Below(S, q, j)
        /\ i \in Below(S, q, j) /\ i \notin Below(S, q, i)
    BY <1>4, <2>1 DEF Below
  <2>3. /\ IsFiniteSet(Below(S, q, j)) /\ Cardinality(Below(S, q, j)) \in Nat
        /\ Cardinality(Below(S, q, i)) \in Nat
    BY <1>1
  <2>4. /\ Cardinality(Below(S, q, i)) <= Cardinality(Below(S, q, j))
        /\ Cardinality(Below(S, q, i)) # Cardinality(Below(S, q, j))
    BY <2>2, <2>3, FS_Subset
  <2>5. QED
    BY <2>3, <2>4 DEF RankIn
<1>5. QED
  BY <1>3, <1>4

\* Every rank is somebody's, and one client's only.
LEMMA RanksCover ==
    ASSUME NEW S, NEW q, Numbered(S, q)
    PROVE  /\ \A i, j \in S : RankIn(S, q, i) = RankIn(S, q, j) => i = j
           /\ \A r \in 1 .. Cardinality(S) : \E i \in S : RankIn(S, q, i) = r
<1>1. ASSUME NEW i \in S, NEW j \in S, RankIn(S, q, i) = RankIn(S, q, j) PROVE i = j
  <2>1. /\ q[i] < q[j] => RankIn(S, q, i) < RankIn(S, q, j)
        /\ q[j] < q[i] => RankIn(S, q, j) < RankIn(S, q, i)
        /\ RankIn(S, q, i) \in Int
    BY RanksGrow
  <2>2. ~(q[i] < q[j]) /\ ~(q[j] < q[i])
    BY <1>1, <2>1
  <2>3. q[i] = q[j]
    BY <2>2 DEF Numbered
  <2>4. QED
    BY <2>3 DEF Numbered
<1>2. ASSUME NEW r \in 1 .. Cardinality(S) PROVE \E i \in S : RankIn(S, q, i) = r
  <2> DEFINE f == [i \in S |-> RankIn(S, q, i)]
  <2>1. IsFiniteSet(S) /\ Cardinality(S) \in Nat
    BY FS_CardinalityType DEF Numbered
  <2>2. f \in Injection(S, 1 .. Cardinality(S))
    BY <1>1, RanksGrow DEF Injection, IsInjective
  <2>3. IsFiniteSet(1 .. Cardinality(S)) /\ Cardinality(1 .. Cardinality(S)) = Cardinality(S)
    BY <2>1, FS_Interval
  <2>4. f \in Surjection(S, 1 .. Cardinality(S))
    BY <2>2, <2>3, FS_Injection
  <2>5. QED
    BY <2>4 DEF Surjection
<1>3. QED
  BY <1>1, <1>2

HeardLast(S, q, k, p) == /\ p[k] \in Nat /\ \A i \in S : q[i] < p[k]
                         /\ \A i \in S \ {k} : p[i] = q[i]

\* The one who is heard goes to the end, and those behind it move up.
Shifted(S, q, k, p) ==
    /\ RankIn(S \cup {k}, p, k) = Cardinality(S \cup {k})
    /\ \A i \in S \ {k} :
          RankIn(S \cup {k}, p, i) = IF k \in S /\ q[k] < q[i]
                                     THEN RankIn(S, q, i) - 1 ELSE RankIn(S, q, i)

LEMMA RanksShift ==
    ASSUME NEW S, NEW q, NEW k, NEW p, Numbered(S, q), HeardLast(S, q, k, p)
    PROVE  Shifted(S, q, k, p)
<1> USE DEF HeardLast
<1> DEFINE T == S \cup {k}
<1>1. Numbered(T, p)
  BY FS_AddElement DEF Numbered
<1>2. RankIn(T, p, k) = Cardinality(T)
  <2>1. Below(T, p, k) = T \ {k}
    BY DEF Below, Numbered
  <2>2. IsFiniteSet(T) /\ Cardinality(T) \in Nat
    BY <1>1, FS_CardinalityType DEF Numbered
  <2>3. Cardinality(T \ {k}) = Cardinality(T) - 1
    BY <2>2, FS_RemoveElement
  <2>4. Cardinality(Below(T, p, k)) = Cardinality(T) - 1
    BY <2>1, <2>3
  <2>5. RankIn(T, p, k) = 1 + (Cardinality(T) - 1)
    BY <2>4 DEF RankIn
  <2>6. QED
    BY <2>2, <2>5
<1>3. ASSUME NEW i \in S \ {k}
      PROVE  RankIn(T, p, i) = IF k \in S /\ q[k] < q[i]
                               THEN RankIn(S, q, i) - 1 ELSE RankIn(S, q, i)
  <2>1. ~(p[k] < p[i])
    BY DEF Numbered
  <2>2. Below(T, p, i) = Below(S, q, i) \ {k}
    BY <2>1 DEF Below, Numbered
  <2>3. IsFiniteSet(Below(S, q, i)) /\ Cardinality(Below(S, q, i)) \in Nat
    <3>1. Below(S, q, i) \in SUBSET S /\ IsFiniteSet(S)
      BY DEF Below, Numbered
    <3>2. IsFiniteSet(Below(S, q, i))
      BY <3>1, FS_Subset
    <3>3. QED
      BY <3>2, FS_CardinalityType
  <2>4. Cardinality(Below(T, p, i)) = IF k \in Below(S, q, i)
                                      THEN Cardinality(Below(S, q, i)) - 1
                                      ELSE Cardinality(Below(S, q, i))
    BY <2>2, <2>3, FS_RemoveElement
  <2>5. k \in Below(S, q, i) <=> k \in S /\ q[k] < q[i]
    BY DEF Below
  <2>6. QED
    BY <2>3, <2>4, <2>5 DEF RankIn
<1>4. QED
  BY <1>2, <1>3 DEF Shifted

LEMMA SequencesEqual ==
    ASSUME NEW S, NEW s \in Seq(S), NEW t \in Seq(S), Len(s) = Len(t),
           \A i \in 1 .. Len(s) : s[i] = t[i]
    PROVE  s = t
OBVIOUS

\* Recent lists the clients by rank, Lease gives each the address of its entry.
RecentByRank ==
    /\ Numbered(Used, seq) /\ Cardinality(Used) \in Nat
    /\ Recent \in Seq(Uids) /\ Len(Recent) = Cardinality(Used)
    /\ \A i \in Used : /\ RankIn(Used, seq, i) \in 1 .. Cardinality(Used)
                       /\ Recent[RankIn(Used, seq, i)] = uid[i]

LeaseByEntry ==
    /\ Lease = [u \in {uid[i] : i \in Used} |-> Lease[u]]
    /\ \A i \in Used : Lease[uid[i]] = i + FirstAddress

LEMMA UsedNumbered == IInv => Numbered(Used, seq) /\ Cardinality(Used) \in Nat
<1> SUFFICES ASSUME IInv PROVE Numbered(Used, seq) /\ Cardinality(Used) \in Nat
  OBVIOUS
<1>1. IsFiniteSet(Index)
  BY EntriesAssumption, FS_Interval DEF Index
<1>2. Used \in SUBSET Index
  BY DEF Used
<1>3. IsFiniteSet(Used) /\ Cardinality(Used) \in Nat
  BY <1>1, <1>2, FS_Subset, FS_CardinalityType
<1>4. QED
  BY <1>3 DEF Numbered, Used, IInv, TypeOK, SeqInOrder

LEMMA RecentRanks == IInv => RecentByRank
<1> SUFFICES ASSUME IInv PROVE RecentByRank
  OBVIOUS
<1> DEFINE n == Cardinality(Used)
           who(r) == CHOOSE i \in Used : RankIn(Used, seq, i) = r
<1>1. Numbered(Used, seq) /\ n \in Nat
  BY UsedNumbered
<1>2. Recent = [r \in 1 .. n |-> uid[who(r)]]
  BY DEF Recent, Rank, RankIn, Below
<1>3. \A r \in 1 .. n : who(r) \in Used /\ RankIn(Used, seq, who(r)) = r
  BY <1>1, RanksCover
<1>4. \A i \in Used : uid[i] \in Uids
  BY DEF Used, IInv, TypeOK
<1>5. \A i \in Used : RankIn(Used, seq, i) \in 1 .. n
  BY <1>1, RanksGrow
<1>6. ASSUME NEW i \in Used PROVE Recent[RankIn(Used, seq, i)] = uid[i]
  <2>1. who(RankIn(Used, seq, i)) = i
    BY <1>1, <1>3, <1>5, RanksCover
  <2>2. QED
    BY <1>2, <1>5, <2>1
<1> HIDE DEF who
<1>7. Recent \in [1 .. n -> Uids]
  BY <1>2, <1>3, <1>4
<1>8. Recent \in Seq(Uids) /\ Len(Recent) = n
  BY <1>1, <1>7
<1>9. QED
  BY <1>1, <1>5, <1>6, <1>8 DEF RecentByRank

LEMMA LeaseEntries == IInv => LeaseByEntry
<1> SUFFICES ASSUME IInv PROVE LeaseByEntry
  OBVIOUS
<1>1. ASSUME NEW i \in Used PROVE (CHOOSE j \in Used : uid[j] = uid[i]) = i
  BY DEF Used, IInv, OneAddressPerClient
<1>2. ASSUME NEW i \in Used PROVE Lease[uid[i]] = i + FirstAddress
  <2>1. Lease[uid[i]] = FirstAddress + (CHOOSE j \in Used : uid[j] = uid[i])
    BY DEF Lease
  <2>2. i \in Int
    BY DEF Used, Index
  <2>3. QED
    <3>1. Lease[uid[i]] = FirstAddress + i
      BY <1>1, <2>1
    <3>2. QED
      BY <2>2, <3>1 DEF FirstAddress
<1>3. Lease = [u \in {uid[i] : i \in Used} |-> Lease[u]]
  BY DEF Lease
<1>4. QED
  BY <1>2, <1>3 DEF LeaseByEntry

\* What a request does to the ranks: the entry k of the client goes to the end.
Heard(u, k) == /\ Used' = Used \cup {k} /\ uid'[k] = u
               /\ \A i \in Used \ {k} : uid'[i] = uid[i]
               /\ Shifted(Used, seq, k, seq')

LEMMA RequestHeard ==
    ASSUME IInv, NEW u \in Uids, NEW k \in Index,
           uid' = [uid EXCEPT ![k] = u], seq' = [seq EXCEPT ![k] = table_seq]
    PROVE  Heard(u, k)
<1>1. /\ \A i \in Index : uid'[i] = IF i = k THEN u ELSE uid[i]
      /\ \A i \in Index : seq'[i] = IF i = k THEN table_seq ELSE seq[i]
      /\ table_seq \in Nat
  BY DEF IInv, TypeOK
<1>2. Used' = Used \cup {k}
  BY <1>1, NoUidAssumption DEF Used
<1>3. Numbered(Used, seq)
  BY UsedNumbered
<1>4. HeardLast(Used, seq, k, seq')
  BY <1>1 DEF HeardLast, Used, IInv, SeqInOrder
<1>5. Shifted(Used, seq, k, seq')
  BY <1>3, <1>4, RanksShift
<1>6. \A i \in Used \ {k} : uid'[i] = uid[i]
  BY <1>1 DEF Used
<1>7. uid'[k] = u
  BY <1>1
<1>8. QED
  BY <1>2, <1>5, <1>6, <1>7 DEF Heard

\* Facts of the table before and after a request.
LEMMA RequestFacts ==
    ASSUME IInv, IInv', NEW u \in Uids, Request(u)
    PROVE  \E k \in Index : /\ Chosen(k, u) /\ Heard(u, k)
                            /\ uid' = [uid EXCEPT ![k] = u]
                            /\ RecentByRank /\ LeaseByEntry /\ RecentByRank' /\ LeaseByEntry'
                            /\ response' = [uid |-> u, addr |-> Lease'[u]]
                            /\ Lease'[u] = k + FirstAddress
<1>1. PICK k \in Index : /\ Chosen(k, u)
                         /\ uid' = [uid EXCEPT ![k] = u]
                         /\ seq' = [seq EXCEPT ![k] = table_seq]
                         /\ response' = [uid |-> u, addr |-> k + FirstAddress]
  BY DEF Request
<1>2. Heard(u, k)
  BY <1>1, RequestHeard
<1>3. RecentByRank /\ LeaseByEntry
  BY RecentRanks, LeaseEntries
<1>4. IInv' => RecentByRank' /\ LeaseByEntry'
  BY RecentRanks, LeaseEntries, PTL
<1>5. RecentByRank' /\ LeaseByEntry'
  BY <1>4
<1>6. Lease'[u] = k + FirstAddress
  BY <1>2, <1>5 DEF Heard, LeaseByEntry
<1>7. QED
  BY <1>1, <1>2, <1>3, <1>5, <1>6

\* A client with an entry goes to the end of the line.
LEMMA RenewsLease ==
    ASSUME IInv, NEW u \in Uids, NEW k \in Index, uid[k] = u, Heard(u, k),
           uid' = [uid EXCEPT ![k] = u],
           RecentByRank, RecentByRank', LeaseByEntry, LeaseByEntry'
    PROVE  Leases!Renew(u)
<1> DEFINE n == Cardinality(Used)
           rank == RankIn(Used, seq, k)
           moved == [i \in 1 .. Len(Recent) |->
                       IF i < rank THEN Recent[i]
                       ELSE IF i < Len(Recent) THEN Recent[i + 1] ELSE u]
<1>1. k \in Used
  BY NoUidAssumption DEF Used
<1>2. uid' = uid
  BY DEF IInv, TypeOK
<1>3. Used' = Used /\ Cardinality(Used') = n
  BY <1>1 DEF Heard
<1>4. n \in Nat /\ Len(Recent) = n /\ Len(Recent') = n /\ rank \in 1 .. n
      /\ Recent[rank] = u /\ Recent \in Seq(Uids) /\ Recent' \in Seq(Uids)
  BY <1>1, <1>3 DEF RecentByRank
<1>5. ASSUME NEW r \in 1 .. n PROVE Recent'[r] = moved[r]
  <2>1. PICK i \in Used : RankIn(Used', seq', i) = r
    BY <1>3, RanksCover DEF RecentByRank
  <2>2. Recent'[r] = uid[i]
    BY <1>2, <1>3, <2>1 DEF RecentByRank
  <2>3. CASE i = k
    <3>1. r = n
      BY <1>3, <2>1, <2>3 DEF Heard, Shifted
    <3>2. QED
      BY <1>4, <2>2, <2>3, <3>1
  <2>4. CASE i # k
    <3>1. RankIn(Used \cup {k}, seq', i) = r /\ Used \cup {k} = Used
      BY <1>1, <2>1, <1>3
    <3>2. r = IF seq[k] < seq[i] THEN RankIn(Used, seq, i) - 1 ELSE RankIn(Used, seq, i)
      BY <1>1, <2>4, <3>1 DEF Heard, Shifted
    <3>3. RankIn(Used, seq, i) \in 1 .. n /\ Recent[RankIn(Used, seq, i)] = uid[i]
      BY DEF RecentByRank
    <3>4. CASE seq[k] < seq[i]
      <4>1. rank < RankIn(Used, seq, i)
        BY <1>1, <3>4, RanksGrow DEF RecentByRank
      <4>2. ~(r < rank) /\ r < n /\ r + 1 = RankIn(Used, seq, i)
        BY <1>4, <3>2, <3>3, <3>4, <4>1
      <4>3. moved[r] = Recent[r + 1]
        BY <1>4, <4>2
      <4>4. QED
        BY <2>2, <3>3, <4>2, <4>3
    <3>5. CASE ~(seq[k] < seq[i])
      <4>1. seq[i] < seq[k]
        BY <1>1, <2>4, <3>5 DEF RecentByRank, Numbered
      <4>2. RankIn(Used, seq, i) < rank
        BY <1>1, <4>1, RanksGrow DEF RecentByRank
      <4>3. r < rank /\ r = RankIn(Used, seq, i)
        BY <3>2, <3>5, <4>2
      <4>4. moved[r] = Recent[r]
        BY <1>4, <4>3
      <4>5. QED
        BY <2>2, <3>3, <4>3, <4>4
    <3>6. QED
      BY <3>4, <3>5
  <2>5. QED
    BY <2>3, <2>4
<1>6. moved \in Seq(Uids) /\ Len(moved) = n
  <2>1. moved \in [1 .. n -> Uids]
    <3>1. ASSUME NEW i \in 1 .. n PROVE moved[i] \in Uids
      BY <1>4
    <3>2. QED
      BY <1>4, <3>1
  <2>2. QED
    BY <1>4, <2>1
<1>7. Recent' = moved
  BY <1>4, <1>5, <1>6, SequencesEqual
<1>8. Lease' = Lease
  <2>1. {uid'[i] : i \in Used'} = {uid[i] : i \in Used}
    BY <1>2, <1>3
  <2>2. \A v \in {uid[i] : i \in Used} : Lease'[v] = Lease[v]
    BY <1>2, <1>3 DEF LeaseByEntry
  <2>3. QED
    BY <2>1, <2>2 DEF LeaseByEntry
<1>9. u \in DOMAIN Lease
  BY <1>1 DEF LeaseByEntry
<1>10. \E p \in 1 .. Len(Recent) :
          /\ Recent[p] = u
          /\ Recent' = [i \in 1 .. Len(Recent) |->
                          IF i < p THEN Recent[i]
                          ELSE IF i < Len(Recent) THEN Recent[i + 1] ELSE u]
  <2>1. rank \in 1 .. Len(Recent) /\ Recent[rank] = u
    BY <1>4
  <2>2. QED
    BY <1>7, <2>1
<1>11. QED
  BY <1>8, <1>9, <1>10 DEF Leases!Renew, Leases!Leased

LEMMA SamePlus ==
    \A i, j \in Int : i + FirstAddress = j + FirstAddress => i = j
BY DEF FirstAddress

\* A client without an entry gets one, and is last in line.
LEMMA LeasesExtended ==
    ASSUME IInv, NEW u \in Uids, NEW k \in Index, Heard(u, k), uid[k] # u,
           \A j \in Index \ {k} : uid[j] # u,
           LeaseByEntry, LeaseByEntry'
    PROVE  /\ u \notin Leases!Leased
           /\ \A v \in {uid[i] : i \in Used \ {k}} : v # u /\ v \in Leases!Leased /\ Lease'[v] = Lease[v]
           /\ DOMAIN Lease' = {uid[i] : i \in Used \ {k}} \cup {u}
<1>1. /\ DOMAIN Lease = {uid[i] : i \in Used}
      /\ DOMAIN Lease' = {uid'[i] : i \in Used'}
  BY DEF LeaseByEntry
<1>2. Used \subseteq Index
  BY DEF Used
<1>3. ASSUME NEW i \in Used \ {k}
      PROVE  uid[i] # u /\ uid[i] \in DOMAIN Lease /\ Lease'[uid[i]] = Lease[uid[i]]
  <2>1. uid'[i] = uid[i] /\ i \in Used'
    BY DEF Heard
  <2>2. Lease'[uid'[i]] = i + FirstAddress /\ Lease[uid[i]] = i + FirstAddress
    BY <2>1 DEF LeaseByEntry
  <2>3. QED
    BY <1>1, <1>2, <2>1, <2>2
<1>4. u \notin DOMAIN Lease
  BY <1>1, <1>2
<1>5. {uid'[i] : i \in Used'} = {uid[i] : i \in Used \ {k}} \cup {u}
  <2>1. Used' = Used \cup {k} /\ uid'[k] = u /\ \A i \in Used \ {k} : uid'[i] = uid[i]
    BY DEF Heard
  <2>2. QED
    BY <2>1
<1>6. QED
  BY <1>1, <1>3, <1>4, <1>5 DEF Leases!Leased

\* While an entry is nobody's the new client takes the first of these.
LEMMA GrantsLease ==
    ASSUME IInv, NEW u \in Uids, NEW k \in Index, uid[k] = NoUid, Heard(u, k),
           \A j \in Index \ {k} : uid[j] # u, Lease'[u] = k + FirstAddress,
           RecentByRank, RecentByRank', LeaseByEntry, LeaseByEntry'
    PROVE  Leases!Grant(u)
<1> DEFINE n == Cardinality(Used)
<1>1. k \notin Used /\ Used \ {k} = Used
  BY DEF Used
<1>2. IsFiniteSet(Used) /\ n \in Nat /\ Used' = Used \cup {k}
  BY DEF RecentByRank, Numbered, Heard
<1>3. Cardinality(Used') = n + 1
  BY <1>1, <1>2, FS_AddElement
<1>4. /\ Len(Recent) = n /\ Len(Recent') = n + 1
      /\ Recent \in Seq(Uids) /\ Recent' \in Seq(Uids)
  BY <1>3 DEF RecentByRank
<1>5. ASSUME NEW r \in 1 .. n + 1 PROVE Recent'[r] = Append(Recent, u)[r]
  <2>1. PICK i \in Used' : RankIn(Used', seq', i) = r
    BY <1>3, RanksCover DEF RecentByRank
  <2>2. Recent'[r] = uid'[i]
    BY <2>1 DEF RecentByRank
  <2>3. CASE i = k
    <3>1. r = n + 1 /\ uid'[k] = u
      BY <1>3, <2>1, <2>3 DEF Heard, Shifted
    <3>2. QED
      BY <1>4, <2>2, <2>3, <3>1
  <2>4. CASE i # k
    <3>1. i \in Used /\ uid'[i] = uid[i] /\ RankIn(Used', seq', i) = RankIn(Used, seq, i)
      BY <1>1, <2>4 DEF Heard, Shifted
    <3>2. r \in 1 .. n /\ Recent[r] = uid[i]
      BY <2>1, <3>1 DEF RecentByRank
    <3>3. QED
      BY <1>4, <2>2, <3>1, <3>2
  <2>5. QED
    BY <2>3, <2>4
<1>6. Recent' = Append(Recent, u)
  <2>1. Append(Recent, u) \in Seq(Uids) /\ Len(Append(Recent, u)) = n + 1
    BY <1>4
  <2>2. QED
    BY <1>4, <1>5, <2>1, SequencesEqual
<1>7. uid[k] # u
  BY NoUidAssumption
<1>8. /\ u \notin Leases!Leased
      /\ \A v \in Leases!Leased : v # u /\ Lease'[v] = Lease[v]
      /\ DOMAIN Lease' = Leases!Leased \cup {u}
  <2>1. Leases!Leased = {uid[i] : i \in Used \ {k}}
    BY <1>1 DEF LeaseByEntry, Leases!Leased
  <2>2. QED
    BY <1>7, <2>1, LeasesExtended
<1>9. \A v \in Leases!Leased : Lease[v] # k + FirstAddress
  <2>1. ASSUME NEW i \in Used PROVE Lease[uid[i]] # k + FirstAddress
    <3>1. i # k /\ i \in Int /\ k \in Int
      BY <1>1 DEF Used, Index
    <3>2. Lease[uid[i]] = i + FirstAddress
      BY DEF LeaseByEntry
    <3>3. QED
      BY <3>1, <3>2, SamePlus
  <2>2. Leases!Leased = {uid[i] : i \in Used}
    BY DEF LeaseByEntry, Leases!Leased
  <2>3. QED
    BY <2>1, <2>2
<1>10. Lease' = [v \in Leases!Leased \cup {u} |-> IF v = u THEN k + FirstAddress ELSE Lease[v]]
  <2>1. Lease' = [v \in DOMAIN Lease' |-> Lease'[v]]
    BY DEF LeaseByEntry
  <2>2. QED
    BY <1>8, <2>1
<1>11. QED
  BY <1>6, <1>8, <1>9, <1>10 DEF Leases!Grant

\* A full table: the new client takes the place of the first in line.
LEMMA EvictsLease ==
    ASSUME IInv, NEW u \in Uids, NEW k \in Index, Chosen(k, u), ~Free(k, u), Heard(u, k),
           Lease'[u] = k + FirstAddress,
           RecentByRank, RecentByRank', LeaseByEntry, LeaseByEntry'
    PROVE  Leases!Evict(u)
<1> DEFINE n == Cardinality(Used)
<1>1. /\ uid[k] # u /\ uid[k] # NoUid
      /\ \A j \in Index \ {k} : uid[j] # u /\ uid[j] # NoUid /\ seq[k] < seq[j]
  BY ChosenEntry DEF Free
<1>2. k \in Used /\ Used = Index /\ Used' = Used
  BY <1>1 DEF Used, Heard
<1>3. n \in Nat /\ Cardinality(Used') = n /\ Len(Recent) = n /\ Len(Recent') = n
      /\ Recent \in Seq(Uids) /\ Recent' \in Seq(Uids)
  BY <1>2 DEF RecentByRank
<1>4. RankIn(Used, seq, k) = 1
  <2>1. \A j \in Used : ~(seq[j] < seq[k])
    BY <1>1, <1>2 DEF IInv, TypeOK
  <2>2. Below(Used, seq, k) = {}
    BY <2>1 DEF Below
  <2>3. QED
    BY <2>2, FS_EmptySet DEF RankIn
<1>5. n >= 1 /\ Recent[1] = uid[k] /\ Recent # << >> /\ Head(Recent) = uid[k]
  <2>1. 1 \in 1 .. n /\ Recent[1] = uid[k]
    BY <1>2, <1>4 DEF RecentByRank
  <2>2. QED
    BY <1>3, <2>1
<1>6. ASSUME NEW r \in 1 .. n PROVE Recent'[r] = Append(Tail(Recent), u)[r]
  <2>1. PICK i \in Used : RankIn(Used', seq', i) = r
    BY <1>2, <1>3, RanksCover DEF RecentByRank
  <2>2. Recent'[r] = uid'[i]
    BY <1>2, <2>1 DEF RecentByRank
  <2>3. CASE i = k
    <3>1. r = n /\ uid'[k] = u
      BY <1>3, <2>1, <2>3 DEF Heard, Shifted
    <3>2. QED
      BY <1>3, <1>5, <2>2, <2>3, <3>1
  <2>4. CASE i # k
    <3>1. Used \cup {k} = Used /\ seq[k] < seq[i]
      BY <1>1, <1>2, <2>4
    <3>2. uid'[i] = uid[i] /\ RankIn(Used', seq', i) = RankIn(Used, seq, i) - 1
      BY <1>2, <2>4, <3>1 DEF Heard, Shifted
    <3>3. RankIn(Used, seq, i) \in 1 .. n /\ Recent[RankIn(Used, seq, i)] = uid[i]
      BY DEF RecentByRank
    <3>4. r < n /\ Recent[r + 1] = uid[i]
      BY <1>3, <2>1, <3>2, <3>3
    <3>5. QED
      BY <1>3, <1>5, <2>2, <3>2, <3>4
  <2>5. QED
    BY <2>3, <2>4
<1>7. Recent' = Append(Tail(Recent), u)
  <2>1. Append(Tail(Recent), u) \in Seq(Uids) /\ Len(Append(Tail(Recent), u)) = n
    BY <1>3, <1>5
  <2>2. QED
    BY <1>3, <1>6, <2>1, SequencesEqual
<1>8. Leases!Leased = {uid[i] : i \in Used}
  BY DEF LeaseByEntry, Leases!Leased
<1>9. \A a \in {i + FirstAddress : i \in Index} : \E v \in Leases!Leased : Lease[v] = a
  <2>1. \A i \in Index : uid[i] \in Leases!Leased /\ Lease[uid[i]] = i + FirstAddress
    BY <1>2, <1>8 DEF LeaseByEntry
  <2>2. QED
    BY <2>1
<1>10. {uid[i] : i \in Used \ {k}} = Leases!Leased \ {uid[k]}
  BY <1>1, <1>2, <1>8 DEF IInv, OneAddressPerClient
<1>11. Lease[uid[k]] = k + FirstAddress
  BY <1>2 DEF LeaseByEntry
<1>12. /\ u \notin Leases!Leased
       /\ \A v \in Leases!Leased \ {uid[k]} : v # u /\ Lease'[v] = Lease[v]
       /\ DOMAIN Lease' = (Leases!Leased \ {uid[k]}) \cup {u}
  BY <1>1, <1>10, LeasesExtended
<1>13. Lease' = [v \in (Leases!Leased \ {uid[k]}) \cup {u} |->
                   IF v = u THEN Lease[uid[k]] ELSE Lease[v]]
  <2>1. Lease' = [v \in DOMAIN Lease' |-> Lease'[v]]
    BY DEF LeaseByEntry
  <2>2. QED
    BY <1>11, <1>12, <2>1
<1>14. QED
  BY <1>5, <1>7, <1>9, <1>12, <1>13 DEF Leases!Evict

\* A client that asks renews its lease, is granted a free address, or takes that
\* of the client silent for the longest time, and is told the address it got.
THEOREM LeaseRefinement == Spec => ImplementsLeaseTable
<1>1. Init => Leases!Init
  <2> SUFFICES ASSUME Init PROVE Leases!Init
    OBVIOUS
  <2>1. Used = {}
    BY DEF Init, Used
  <2>2. Recent = << >>
    BY <2>1, FS_EmptySet DEF Recent
  <2>3. Lease = [u \in {} |-> 0]
    BY <2>1 DEF Lease
  <2>4. QED
    BY <2>2, <2>3 DEF Leases!Init, Init
<1>2. IInv /\ IInv' /\ [Next]_vars => [Leases!Next]_<<Recent, Lease, response>>
  <2> SUFFICES ASSUME IInv, IInv', [Next]_vars
               PROVE  [Leases!Next]_<<Recent, Lease, response>>
    OBVIOUS
  <2>1. CASE UNCHANGED vars
    BY <2>1 DEF vars, Recent, Lease, Rank, Used
  <2>2. ASSUME NEW u \in Uids, Request(u) PROVE Leases!Next
    <3>1. PICK k \in Index : /\ Chosen(k, u) /\ Heard(u, k)
                             /\ uid' = [uid EXCEPT ![k] = u]
                             /\ RecentByRank /\ LeaseByEntry /\ RecentByRank' /\ LeaseByEntry'
                             /\ response' = [uid |-> u, addr |-> Lease'[u]]
                             /\ Lease'[u] = k + FirstAddress
      BY <2>2, RequestFacts
    <3>2. \A j \in Index \ {k} : uid[j] # u
      BY <3>1, ChosenEntry
    <3>3. CASE uid[k] = u
      BY <3>1, <3>3, RenewsLease DEF Leases!Next
    <3>4. CASE uid[k] = NoUid
      BY <3>1, <3>2, <3>4, GrantsLease DEF Leases!Next
    <3>5. CASE ~Free(k, u)
      BY <3>1, <3>5, EvictsLease DEF Leases!Next
    <3>6. QED
      BY <3>3, <3>4, <3>5 DEF Free
  <2>3. QED
    BY <2>1, <2>2 DEF Next
<1>3. QED
  BY <1>1, <1>2, Invariance, PTL DEF Spec, ImplementsLeaseTable, Leases!Spec
=============================================================================
