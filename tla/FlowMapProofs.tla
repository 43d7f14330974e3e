---------------------------- MODULE FlowMapProofs ---------------------------
(***************************************************************************)
(* Proofs about the order of flows and the flow table: on IPv4 flows the   *)
(* order is one, and a tree ordered by it is the table that it is meant to *)
(* be, however it has grown and shrunk; on IPv6 flows it is none, and two  *)
(* flows can be taken for one.                                             *)
(***************************************************************************)
EXTENDS FlowMap, TLAPS

\* The flows of one family, as fillConnInfo makes them.
Flows(family) == {fillConnInfo(family, s, d) : s \in SockAddrs, d \in SockAddrs}

-----------------------------------------------------------------------------
\* An address of fillConnInfo is an address, and is known by its fields.
LEMMA V4Is ==
  ASSUME NEW a \in SockAddrs
  PROVE  /\ V4(a).family = 2 /\ V4(a).ip = a.ip /\ V4(a).port = a.port
         /\ a.ip \in Nat /\ a.port \in Nat
         /\ \A b \in SockAddrs : V4(a) = V4(b) <=> a.ip = b.ip /\ a.port = b.port
  BY DEF V4, SockAddrs, AF_INET

\* sockaddr_full::operator< orders IPv4 addresses by address and port.
LEMMA V4Less ==
  ASSUME NEW a \in SockAddrs, NEW b \in SockAddrs
  PROVE  /\ Less(V4(a), V4(b)) <=> a.ip < b.ip \/ (a.ip = b.ip /\ a.port < b.port)
         /\ Differ(V4(a), V4(b)) <=> V4(a) # V4(b)
  BY V4Is DEF Less, Differ, AF_INET, AF_INET6

\* conn_info::operator< orders IPv4 flows by source, and then by destination.
LEMMA V4ConnLess ==
  ASSUME NEW c \in Flows(AF_INET), NEW d \in Flows(AF_INET)
  PROVE  /\ ConnLess(c, d) <=> IF c.src # d.src THEN Less(c.src, d.src)
                                                ELSE Less(c.dst, d.dst)
         /\ c = d <=> c.src = d.src /\ c.dst = d.dst
         /\ \E s, t \in SockAddrs : c.src = V4(s) /\ c.dst = V4(t)
<1>1. PICK s \in SockAddrs, t \in SockAddrs : c = [src |-> V4(s), dst |-> V4(t)]
  BY DEF Flows, fillConnInfo
<1>2. PICK u \in SockAddrs, v \in SockAddrs : d = [src |-> V4(u), dst |-> V4(v)]
  BY DEF Flows, fillConnInfo
<1>3. Differ(c.src, d.src) <=> c.src # d.src
  BY <1>1, <1>2, V4Less
<1> QED BY <1>1, <1>2, <1>3 DEF ConnLess

\* On IPv4 flows conn_info::operator< is what std::map asks for: no flow is less
\* than itself, less is transitive, and of two flows one is less.
THEOREM V4Ordered ==
  /\ \A c \in Flows(AF_INET) : ~ConnLess(c, c)
  /\ \A c, d, e \in Flows(AF_INET) : ConnLess(c, d) /\ ConnLess(d, e) => ConnLess(c, e)
  /\ \A c, d \in Flows(AF_INET) : c # d => ConnLess(c, d) \/ ConnLess(d, c)
<1> DEFINE A == {V4(a) : a \in SockAddrs}
<1>1. \A a \in A : ~Less(a, a)
  BY V4Less, V4Is
<1>2. \A a, b, c \in A : Less(a, b) /\ Less(b, c) => Less(a, c)
  BY V4Less, V4Is
<1>3. \A a, b \in A : a # b => Less(a, b) \/ Less(b, a)
  BY V4Less, V4Is
<1>4. \A c \in Flows(AF_INET) : c.src \in A /\ c.dst \in A
  BY V4ConnLess
<1> HIDE DEF A
<1>5. \A c \in Flows(AF_INET) : ~ConnLess(c, c)
  BY <1>1, <1>4, V4ConnLess
<1>6. \A c, d, e \in Flows(AF_INET) : ConnLess(c, d) /\ ConnLess(d, e) => ConnLess(c, e)
  BY <1>1, <1>2, <1>4, V4ConnLess
<1>7. \A c, d \in Flows(AF_INET) : c # d => ConnLess(c, d) \/ ConnLess(d, c)
  BY <1>3, <1>4, V4ConnLess
<1> QED BY <1>5, <1>6, <1>7

\* On IPv6 addresses operator< is no order: of two addresses each can be less.
THEOREM V6NotOrdered ==
  \E a, b \in SockAddrs : Less(V6(a), V6(b)) /\ Less(V6(b), V6(a))
<1> DEFINE a == [family |-> 23, ip |-> 0, words |-> [i \in 1..4 |-> IF i = 1 THEN 1 ELSE 2], port |-> 1]
           b == [family |-> 23, ip |-> 0, words |-> [i \in 1..4 |-> IF i = 1 THEN 2 ELSE 1], port |-> 1]
<1>1. a \in SockAddrs /\ b \in SockAddrs
  BY DEF SockAddrs, Words, AF_INET, AF_INET6
<1>2. V6(a).words[1] < V6(b).words[1] /\ V6(b).words[2] < V6(a).words[2]
  BY DEF V6
<1>3. Less(V6(a), V6(b)) /\ Less(V6(b), V6(a))
  BY <1>2 DEF Less, V6, AF_INET, AF_INET6
<1> QED BY <1>1, <1>3

\* Two IPv6 flows to one destination whose sources differ in the address alone
\* are one flow to the map, whatever the addresses: operator!= does not see it.
THEOREM V6SourceIgnored ==
  ASSUME NEW s \in SockAddrs, NEW t \in SockAddrs, NEW d \in SockAddrs, s.port = t.port
  PROVE  ~ConnLess(fillConnInfo(AF_INET6, s, d), fillConnInfo(AF_INET6, t, d))
<1>1. ~Differ(V6(s), V6(t))
  BY DEF Differ, V6
<1>2. ~Less(V6(d), V6(d))
  BY DEF Less, V6, SockAddrs, Words, AF_INET, AF_INET6
<1> QED BY <1>1, <1>2 DEF ConnLess, fillConnInfo, AF_INET, AF_INET6

-----------------------------------------------------------------------------
\* The order that a std::map needs.
Ordered(S) ==
  /\ \A c \in S : ~ConnLess(c, c)
  /\ \A c, d, e \in S : ConnLess(c, d) /\ ConnLess(d, e) => ConnLess(c, e)
  /\ \A c, d \in S : c # d => ConnLess(c, d) \/ ConnLess(d, c)

Entry == [conn : Flow, id : Nat]

\* The entries are in order, each has an id of its own, and they are the
\* processors that live.
Sorted == \A i, j \in 1..Len(entries) : i < j => ConnLess(Key(i), Key(j))
OwnIds == /\ \A i \in 1..Len(entries) : entries[i].id <= made
          /\ \A i, j \in 1..Len(entries) : i # j => entries[i].id # entries[j].id
Tidy == /\ entries \in Seq(Entry) /\ made \in Nat
        /\ Sorted /\ OwnIds
        /\ \A e : e \in live <=> \E i \in 1..Len(entries) : e = entries[i]

LEMMA EntriesAre ==
  ASSUME entries \in Seq(Entry)
  PROVE  /\ Len(entries) \in Nat
         /\ \A i \in 1..Len(entries) : entries[i] \in Entry /\ Key(i) \in Flow
                                        /\ entries[i].id \in Nat
                                        /\ entries[i] = [conn |-> Key(i), id |-> entries[i].id]
<1>1. Len(entries) \in Nat /\ \A i \in 1..Len(entries) : entries[i] \in Entry
  OBVIOUS
<1>2. \A e \in Entry : e.conn \in Flow /\ e.id \in Nat /\ e = [conn |-> e.conn, id |-> e.id]
  BY DEF Entry
<1> QED BY <1>1, <1>2 DEF Key

\* The entries with one more.
LEMMA InsertedIs ==
  ASSUME entries \in Seq(Entry), NEW e \in Entry, NEW i \in 1..Len(entries) + 1
  PROVE  /\ Inserted(e, i) \in Seq(Entry) /\ Len(Inserted(e, i)) = Len(entries) + 1
         /\ Inserted(e, i)[i] = e
         /\ \A j \in 1..Len(entries) + 1 : j < i => Inserted(e, i)[j] = entries[j]
         /\ \A j \in 1..Len(entries) + 1 : i < j => Inserted(e, i)[j] = entries[j - 1]
<1> DEFINE n == Len(entries)
           s == Inserted(e, i)
<1>1. n \in Nat /\ \A j \in 1..n : entries[j] \in Entry
  BY EntriesAre
<1>2. s = [j \in 1..n + 1 |-> IF j < i THEN entries[j] ELSE IF j = i THEN e ELSE entries[j - 1]]
  BY DEF Inserted
<1> HIDE DEF n, s
<1>3. s \in [1..n + 1 -> Entry]
  BY <1>1, <1>2
<1> DEFINE m == n + 1
<1>4. m \in Nat /\ s \in [1..m -> Entry]
  BY <1>1, <1>3
<1> HIDE DEF m
<1>5. s \in Seq(Entry) /\ Len(s) = m
  BY <1>4
<1>6. /\ s[i] = e
      /\ \A j \in 1..n + 1 : j < i => s[j] = entries[j]
      /\ \A j \in 1..n + 1 : i < j => s[j] = entries[j - 1]
  BY <1>1, <1>2 DEF n
<1> QED BY <1>5, <1>6 DEF n, m, s

\* In a tree in order every walk parts the entries: what is less than c is left
\* of where it ends, and nothing else is.
LEMMA PlaceParts ==
  ASSUME Ordered(Flow), Tidy, NEW c \in Flow, NEW i, Place(c, i)
  PROVE  \A j \in 1..Len(entries) : /\ ConnLess(Key(j), c) <=> j < i
                                    /\ FoundAt(c, i) => i \in 1..Len(entries) /\ Key(i) = c
                                    /\ Key(j) = c => i = j /\ FoundAt(c, i)
                                    /\ ~FoundAt(c, i) /\ i <= j => ConnLess(c, Key(j))
<1> SUFFICES ASSUME NEW j \in 1..Len(entries)
             PROVE  /\ ConnLess(Key(j), c) <=> j < i
                    /\ FoundAt(c, i) => i \in 1..Len(entries) /\ Key(i) = c
                    /\ Key(j) = c => i = j /\ FoundAt(c, i)
                    /\ ~FoundAt(c, i) /\ i <= j => ConnLess(c, Key(j))
  OBVIOUS
<1>1. /\ Len(entries) \in Nat /\ i \in 1..Len(entries) + 1
      /\ \A k \in 1..Len(entries) : Key(k) \in Flow
  BY EntriesAre DEF Tidy, Place
<1>2. ConnLess(Key(j), c) <=> j < i
  <2>1. CASE j < i
    <3>1. i - 1 \in 1..Len(entries) /\ ConnLess(Key(i - 1), c)
      BY <1>1, <2>1 DEF Place
    <3>2. j = i - 1 \/ ConnLess(Key(j), Key(i - 1))
      BY <1>1, <2>1, <3>1 DEF Tidy, Sorted
    <3> QED BY <1>1, <2>1, <3>1, <3>2 DEF Ordered
  <2>2. CASE i <= j
    <3>1. i \in 1..Len(entries) /\ ~ConnLess(Key(i), c)
      BY <1>1, <2>2 DEF Place
    <3>2. j = i \/ ConnLess(Key(i), Key(j))
      BY <1>1, <2>2, <3>1 DEF Tidy, Sorted
    <3> QED BY <1>1, <2>2, <3>1, <3>2 DEF Ordered
  <2> QED BY <1>1, <2>1, <2>2
<1>3. FoundAt(c, i) => i \in 1..Len(entries) /\ Key(i) = c
  BY <1>1 DEF FoundAt, Place, Ordered
<1>4. Key(j) = c => i = j /\ FoundAt(c, i)
  <2> SUFFICES ASSUME Key(j) = c PROVE i = j /\ FoundAt(c, i)
    OBVIOUS
  <2>1. ~ConnLess(c, c) /\ i <= j
    BY <1>1, <1>2 DEF Ordered
  <2>2. i \in 1..Len(entries) /\ ~ConnLess(Key(i), c)
    BY <1>1, <2>1 DEF Place
  <2>3. ~(i < j)
    BY <1>1, <2>2 DEF Tidy, Sorted
  <2> QED BY <1>1, <2>1, <2>3 DEF FoundAt
<1>5. ~FoundAt(c, i) /\ i <= j => ConnLess(c, Key(j))
  BY <1>1, <1>2, <1>4 DEF Ordered
<1> QED BY <1>2, <1>3, <1>4, <1>5

\* Between the two walks for c lies what is filed under c, and nothing else.
LEMMA ErasedIsOne ==
  ASSUME Ordered(Flow), Tidy, NEW k \in 1..Len(entries),
         NEW lo, NEW hi, Place(Key(k), lo), EndPlace(Key(k), hi)
  PROVE  lo = k /\ hi = k + 1
<1> DEFINE c == Key(k)
<1>1. /\ Len(entries) \in Nat /\ hi \in 1..Len(entries) + 1
      /\ \A j \in 1..Len(entries) : Key(j) \in Flow
  BY EntriesAre DEF Tidy, EndPlace
<1>2. lo = k
  BY <1>1, PlaceParts
<1>3. ~(hi <= k)
  <2> SUFFICES ASSUME hi <= k PROVE FALSE
    OBVIOUS
  <2>1. ConnLess(c, Key(hi)) /\ (hi = k \/ ConnLess(Key(hi), c))
    BY <1>1 DEF EndPlace, Tidy, Sorted
  <2> QED BY <1>1, <2>1 DEF Ordered
<1>4. ~(hi > k + 1)
  <2> SUFFICES ASSUME hi > k + 1 PROVE FALSE
    OBVIOUS
  <2>1. hi - 1 \in 1..Len(entries) /\ k < hi - 1 /\ ~ConnLess(c, Key(hi - 1))
    BY <1>1 DEF EndPlace
  <2> QED BY <1>1, <2>1 DEF Tidy, Sorted
<1> QED BY <1>1, <1>2, <1>3, <1>4

-----------------------------------------------------------------------------
\* What a datagram finds is what is filed under its flow, and nothing changes.
LEMMA SendUses ==
  ASSUME Ordered(Flow), Tidy, NEW c \in Flow, NEW i, Place(c, i), SendFrom(c, i), FoundAt(c, i)
  PROVE  /\ i \in 1..Len(entries) /\ Key(i) = c
         /\ used' = {[conn |-> c, id |-> entries[i].id]}
         /\ UNCHANGED <<entries, live, made>>
<1>1. i \in 1..Len(entries)
  BY EntriesAre DEF Tidy, Place, FoundAt
<1> QED BY <1>1, PlaceParts DEF SendFrom

\* A flow that is not found has no entry, and its new one lies between those
\* that are less and those that are greater.
LEMMA SendFiles ==
  ASSUME Ordered(Flow), Tidy, NEW c \in Flow, NEW i, Place(c, i), SendFrom(c, i), ~FoundAt(c, i)
  PROVE  /\ \A j \in 1..Len(entries) : Key(j) # c
         /\ i \in 1..Len(entries) + 1 /\ Len(entries') = Len(entries) + 1
         /\ entries' \in Seq(Entry) /\ made' = made + 1
         /\ entries'[i] = [conn |-> c, id |-> made + 1]
         /\ \A j \in 1..Len(entries) + 1 : j < i => entries'[j] = entries[j]
         /\ \A j \in 1..Len(entries) + 1 : i < j => entries'[j] = entries[j - 1]
         /\ live' = live \union {[conn |-> c, id |-> made + 1]}
         /\ used' = {[conn |-> c, id |-> made + 1]}
<1> DEFINE n == Len(entries)
           e == [conn |-> c, id |-> made + 1]
<1>1. n \in Nat /\ made \in Nat /\ i \in 1..n + 1 /\ \A j \in 1..n : entries[j] \in Entry
  BY EntriesAre DEF Tidy, Place
<1>2. /\ made' = made + 1 /\ entries' = Inserted(e, i)
      /\ live' = live \union {e} /\ used' = {e}
  BY DEF SendFrom
<1>3. e \in Entry
  BY <1>1 DEF Entry
<1> HIDE DEF e
<1>8. /\ Inserted(e, i) \in Seq(Entry) /\ Len(Inserted(e, i)) = n + 1
      /\ Inserted(e, i)[i] = e
      /\ \A j \in 1..n + 1 : j < i => Inserted(e, i)[j] = entries[j]
      /\ \A j \in 1..n + 1 : i < j => Inserted(e, i)[j] = entries[j - 1]
  BY <1>1, <1>3, InsertedIs DEF Tidy
<1>9. \A j \in 1..n : Key(j) # c
  BY PlaceParts DEF n
<1> QED BY <1>1, <1>2, <1>8, <1>9 DEF e, n

\* A timer erases the entry of its own processor.
LEMMA CloseErases ==
  ASSUME Ordered(Flow), Tidy, NEW p \in live, Close(p)
  PROVE  \E k \in 1..Len(entries) :
           /\ p = entries[k] /\ p.conn = Key(k)
           /\ entries' \in Seq(Entry) /\ Len(entries') = Len(entries) - 1
           /\ \A j \in 1..Len(entries) - 1 : j < k => entries'[j] = entries[j]
           /\ \A j \in 1..Len(entries) - 1 : k <= j => entries'[j] = entries[j + 1]
           /\ live' = live \ {p} /\ UNCHANGED <<made, used>>
<1> DEFINE n == Len(entries)
<1>1. n \in Nat /\ \A j \in 1..n : entries[j] \in Entry
  BY EntriesAre DEF Tidy
<1>2. PICK k \in 1..n : p = entries[k]
  BY DEF Tidy
<1>3. p.conn = Key(k)
  BY <1>2 DEF Key
<1>4. PICK lo, hi \in 1..n + 1 : /\ Place(p.conn, lo) /\ EndPlace(p.conn, hi)
                                 /\ entries' = Erased(lo, hi)
                                 /\ live' = live \ {p} /\ UNCHANGED <<made, used>>
  BY DEF Close
<1>5. lo = k /\ hi = k + 1
  BY <1>3, <1>4, ErasedIsOne
<1>6. entries' = [j \in 1..n - 1 |-> IF j < k THEN entries[j] ELSE entries[j + 1]]
  <2>1. n - (hi - lo) = n - 1 /\ hi - lo = 1
    BY <1>1, <1>2, <1>5
  <2> QED BY <1>4, <1>5, <2>1 DEF Erased
<1>7. entries' \in [1..n - 1 -> Entry] /\ n - 1 \in Nat
  BY <1>1, <1>2, <1>6
<1> HIDE DEF n
<1>8. entries' \in Seq(Entry) /\ Len(entries') = n - 1
  <2> DEFINE m == n - 1
  <2>1. entries' \in [1..m -> Entry] /\ m \in Nat
    BY <1>7
  <2> HIDE DEF m
  <2>2. entries' \in Seq(Entry) /\ Len(entries') = m
    BY <2>1
  <2> QED BY <2>2 DEF m
<1>9. /\ \A j \in 1..n - 1 : j < k => entries'[j] = entries[j]
      /\ \A j \in 1..n - 1 : k <= j => entries'[j] = entries[j + 1]
  BY <1>1, <1>2, <1>6
<1> QED BY <1>2, <1>3, <1>4, <1>8, <1>9 DEF n

\* Every step of a tree in order leaves it in order.
LEMMA SendTidy ==
  ASSUME Ordered(Flow), Tidy, NEW c \in Flow, NEW i, Place(c, i), SendFrom(c, i)
  PROVE  Tidy'
<1> DEFINE n == Len(entries)
<1>1. CASE FoundAt(c, i)
  <2>1. UNCHANGED <<entries, live, made>>
    BY <1>1, SendUses
  <2> QED BY <2>1 DEF Tidy, Sorted, OwnIds, Key
<1>2. CASE ~FoundAt(c, i)
  <2> DEFINE e == [conn |-> c, id |-> made + 1]
  <2>1. /\ n \in Nat /\ made \in Nat /\ i \in 1..n + 1 /\ Len(entries') = n + 1
        /\ entries' \in Seq(Entry) /\ made' = made + 1
        /\ live' = live \union {e}
    BY <1>2, SendFiles, EntriesAre DEF Tidy
  <2>2. /\ entries'[i] = e
        /\ \A j \in 1..n + 1 : j < i => j \in 1..n /\ entries'[j] = entries[j]
        /\ \A j \in 1..n + 1 : i < j => j - 1 \in 1..n /\ entries'[j] = entries[j - 1]
    <3>1. \A j \in 1..n + 1 : (j < i => j \in 1..n) /\ (i < j => j - 1 \in 1..n)
      BY <2>1
    <3>2. /\ entries'[i] = e
          /\ \A j \in 1..n + 1 : j < i => entries'[j] = entries[j]
          /\ \A j \in 1..n + 1 : i < j => entries'[j] = entries[j - 1]
      BY <1>2, SendFiles
    <3> QED BY <3>1, <3>2
  <2>3. e.conn = c /\ e.id = made + 1
    OBVIOUS
  <2>4. \A j \in 1..n : /\ j < i => ConnLess(Key(j), c)
                        /\ i <= j => ConnLess(c, Key(j))
                        /\ entries[j].id \in Nat /\ entries[j].id <= made
    BY <1>2, PlaceParts, EntriesAre DEF Tidy, OwnIds
  <2> HIDE DEF n, e
  <2>5. Sorted'
    <3> SUFFICES ASSUME NEW j \in 1..n + 1, NEW k \in 1..n + 1, j < k
                 PROVE  ConnLess(entries'[j].conn, entries'[k].conn)
      BY <2>1 DEF Sorted, Key
    <3>1. \A a, b \in 1..n : a < b => ConnLess(entries[a].conn, entries[b].conn)
      BY DEF Tidy, Sorted, Key, n
    <3>2. CASE j < i /\ k < i
      BY <2>2, <3>1, <3>2
    <3>3. CASE j < i /\ k = i
      BY <2>2, <2>3, <2>4, <3>3 DEF Key
    <3>4. CASE j < i /\ i < k
      <4>1. j < k - 1
        BY <2>1, <3>4
      <4> QED BY <2>2, <3>1, <3>4, <4>1
    <3>5. CASE j = i
      <4>1. i <= k - 1 /\ k - 1 \in 1..n
        BY <2>1, <3>5
      <4> QED BY <2>2, <2>3, <2>4, <3>5, <4>1 DEF Key
    <3>6. CASE i < j
      <4>1. j - 1 < k - 1 /\ i < k
        BY <2>1, <3>6
      <4> QED BY <2>2, <3>1, <3>6, <4>1
    <3> QED BY <2>1, <3>2, <3>3, <3>4, <3>5, <3>6
  <2>6. OwnIds'
    <3>1. ASSUME NEW j \in 1..n + 1 PROVE entries'[j].id <= made'
      <4>1. CASE j = i
        BY <2>1, <2>2, <2>3, <4>1
      <4>2. CASE j # i
        BY <2>1, <2>2, <2>4, <4>2
      <4> QED BY <4>1, <4>2
    <3>2. ASSUME NEW j \in 1..n + 1, NEW k \in 1..n + 1, j < k
          PROVE  entries'[j].id # entries'[k].id
      <4>1. \A a, b \in 1..n : a # b => entries[a].id # entries[b].id
        BY DEF Tidy, OwnIds, n
      <4>2. CASE j = i \/ k = i
        <5>1. \A a \in 1..n : entries[a].id # made + 1
          BY <2>1, <2>4
        <5> QED BY <2>1, <2>2, <2>3, <3>2, <4>2, <5>1
      <4>3. CASE j < i /\ k < i
        BY <2>2, <3>2, <4>1, <4>3
      <4>4. CASE j < i /\ i < k
        <5>1. j # k - 1
          BY <2>1, <4>4
        <5> QED BY <2>2, <4>1, <4>4, <5>1
      <4>5. CASE i < j
        <5>1. j - 1 # k - 1 /\ i < k
          BY <2>1, <3>2, <4>5
        <5> QED BY <2>2, <4>1, <4>5, <5>1
      <4> QED BY <2>1, <3>2, <4>2, <4>3, <4>4, <4>5
    <3>3. \A j, k \in 1..n + 1 : j # k => j < k \/ k < j
      BY <2>1
    <3> QED BY <2>1, <3>1, <3>2, <3>3 DEF OwnIds
  <2>7. ASSUME NEW f PROVE f \in live' <=> \E j \in 1..n + 1 : f = entries'[j]
    <3>1. f \in live <=> \E j \in 1..n : f = entries[j]
      BY DEF Tidy, n
    <3>2. ASSUME NEW j \in 1..n + 1 PROVE entries'[j] = e \/ \E k \in 1..n : entries'[j] = entries[k]
      BY <2>1, <2>2
    <3>3. ASSUME NEW j \in 1..n PROVE \E k \in 1..n + 1 : entries[j] = entries'[k]
      <4>1. CASE j < i
        <5>1. j \in 1..n + 1
          BY <2>1
        <5> QED BY <2>2, <4>1, <5>1
      <4>2. CASE i <= j
        <5>1. j + 1 \in 1..n + 1 /\ i < j + 1 /\ (j + 1) - 1 = j
          BY <2>1, <4>2
        <5>2. entries'[j + 1] = entries[j]
          BY <2>2, <5>1
        <5> QED BY <5>1, <5>2
      <4> QED BY <2>1, <4>1, <4>2
    <3> QED BY <2>1, <2>2, <3>1, <3>2, <3>3
  <2>8. made' \in Nat
    BY <2>1
  <2>9. \A f : f \in live' <=> \E j \in 1..Len(entries') : f = entries'[j]
    BY <2>1, <2>7
  <2> QED BY <2>1, <2>5, <2>6, <2>8, <2>9 DEF Tidy
<1> QED BY <1>1, <1>2

LEMMA CloseTidy ==
  ASSUME Ordered(Flow), Tidy, NEW p \in live, Close(p)
  PROVE  Tidy'
<1> DEFINE n == Len(entries)
<1>1. PICK k \in 1..n :
        /\ p = entries[k]
        /\ entries' \in Seq(Entry) /\ Len(entries') = n - 1
        /\ \A j \in 1..n - 1 : j < k => entries'[j] = entries[j]
        /\ \A j \in 1..n - 1 : k <= j => entries'[j] = entries[j + 1]
        /\ live' = live \ {p} /\ made' = made
  BY CloseErases
<1>2. n \in Nat /\ made \in Nat
  BY EntriesAre DEF Tidy
<1> HIDE DEF n
\* Where the entry at place j was before.
<1> DEFINE Was(j) == IF j < k THEN j ELSE j + 1
<1>3. \A j \in 1..n - 1 : /\ Was(j) \in 1..n /\ entries'[j] = entries[Was(j)] /\ Was(j) # k
                          /\ \A i \in 1..n - 1 : (i < j => Was(i) < Was(j)) /\ (i # j => Was(i) # Was(j))
  BY <1>1, <1>2
<1>4. \A j \in 1..n : j # k => \E i \in 1..n - 1 : j = Was(i)
  <2> SUFFICES ASSUME NEW j \in 1..n, j # k PROVE \E i \in 1..n - 1 : j = Was(i)
    OBVIOUS
  <2>1. CASE j < k
    BY <1>2, <2>1
  <2>2. CASE k < j
    <3>1. j - 1 \in 1..n - 1 /\ ~(j - 1 < k) /\ (j - 1) + 1 = j
      BY <1>2, <2>2
    <3> QED BY <3>1
  <2> QED BY <1>2, <2>1, <2>2
<1> HIDE DEF Was
<1>5. Sorted'
  <2>1. \A a, b \in 1..n : a < b => ConnLess(entries[a].conn, entries[b].conn)
    BY DEF Tidy, Sorted, Key, n
  <2> QED BY <1>1, <1>3, <2>1 DEF Sorted, Key
<1>6. OwnIds'
  <2>1. /\ \A a \in 1..n : entries[a].id <= made
        /\ \A a, b \in 1..n : a # b => entries[a].id # entries[b].id
    BY DEF Tidy, OwnIds, n
  <2>2. ASSUME NEW j \in 1..n - 1 PROVE entries'[j].id <= made'
    BY <1>1, <1>3, <2>1
  <2>3. ASSUME NEW i \in 1..n - 1, NEW j \in 1..n - 1, i # j
        PROVE  entries'[i].id # entries'[j].id
    BY <1>3, <2>1, <2>3
  <2> QED BY <1>1, <2>2, <2>3 DEF OwnIds
<1>7. ASSUME NEW f PROVE f \in live' <=> \E j \in 1..n - 1 : f = entries'[j]
  <2>1. f \in live <=> \E j \in 1..n : f = entries[j]
    BY DEF Tidy, n
  <2>2. \A a, b \in 1..n : a # b => entries[a] # entries[b]
    BY DEF Tidy, OwnIds, n
  <2> QED BY <1>1, <1>3, <1>4, <2>1, <2>2
<1> QED BY <1>1, <1>2, <1>5, <1>6, <1>7 DEF Tidy

-----------------------------------------------------------------------------
\* The steps of a tree whose order is one leave it tidy.
LEMMA TreeTidy == Ordered(Flow) => (TreeSpec => []Tidy)
<1> SUFFICES ASSUME Ordered(Flow) PROVE TreeSpec => []Tidy
  OBVIOUS
<1>1. TreeInit => Tidy
  BY DEF TreeInit, Tidy, Sorted, OwnIds
<1>2. Tidy /\ [TreeNext]_tree => Tidy'
  <2> SUFFICES ASSUME Tidy, [TreeNext]_tree PROVE Tidy'
    OBVIOUS
  <2>1. ASSUME NEW c \in Flow, onUdpSend(c) PROVE Tidy'
    BY <2>1, SendTidy DEF onUdpSend
  <2>2. ASSUME NEW p \in live, Close(p) PROVE Tidy'
    BY <2>2, CloseTidy
  <2>3. CASE UNCHANGED tree
    BY <2>3 DEF tree, Tidy, Sorted, OwnIds, Key
  <2> QED BY <2>1, <2>2, <2>3 DEF TreeNext
<1> QED BY <1>1, <1>2, PTL DEF TreeSpec

\* A tidy tree files under a flow what lives for it, and that is one processor
\* at most, with an id that is no other's.
LEMMA FiledLives ==
  ASSUME Ordered(Flow), Tidy
  PROVE  /\ \A c \in Flow : \A x : x \in FiledUnder(c) <=> [conn |-> c, id |-> x] \in live
         /\ live \subseteq Entry /\ \A e \in live : e.id <= made
         /\ \A e, f \in live : e.conn = f.conn \/ e.id = f.id => e = f
<1>1. \A i \in 1..Len(entries) : /\ entries[i] \in Entry
                                  /\ entries[i] = [conn |-> Key(i), id |-> entries[i].id]
  BY EntriesAre DEF Tidy
<1>2. ASSUME NEW c \in Flow, NEW x
      PROVE  x \in FiledUnder(c) <=> [conn |-> c, id |-> x] \in live
  <2>1. x \in FiledUnder(c) <=> \E i \in 1..Len(entries) : Key(i) = c /\ entries[i].id = x
    BY DEF FiledUnder
  <2>2. \A i \in 1..Len(entries) :
          Key(i) = c /\ entries[i].id = x <=> entries[i] = [conn |-> c, id |-> x]
    BY <1>1 DEF Key
  <2> QED BY <2>1, <2>2 DEF Tidy
<1>3. live \subseteq Entry /\ \A e \in live : e.id <= made
  BY <1>1 DEF Tidy, OwnIds
<1>4. ASSUME NEW i \in 1..Len(entries), NEW j \in 1..Len(entries),
             Key(i) = Key(j) \/ entries[i].id = entries[j].id
      PROVE  i = j
  <2>1. Key(i) \in Flow /\ Key(j) \in Flow /\ Len(entries) \in Nat
    BY EntriesAre DEF Tidy
  <2> QED BY <1>4, <2>1 DEF Tidy, Sorted, OwnIds, Ordered
<1>5. ASSUME NEW e \in live, NEW f \in live, e.conn = f.conn \/ e.id = f.id PROVE e = f
  <2>1. PICK i \in 1..Len(entries), j \in 1..Len(entries) : e = entries[i] /\ f = entries[j]
    BY DEF Tidy
  <2> QED BY <1>4, <1>5, <2>1 DEF Key
<1> QED BY <1>2, <1>3, <1>5

\* The same after a step.
LEMMA LiveAfter ==
  ASSUME Tidy'
  PROVE  \A c \in Flow : \A x : x \in FiledUnder(c)' <=> [conn |-> c, id |-> x] \in live'
<1> SUFFICES ASSUME NEW c \in Flow, NEW x
             PROVE  x \in FiledUnder(c)' <=> [conn |-> c, id |-> x] \in live'
  OBVIOUS
<1>1. \A i \in 1..Len(entries') : entries'[i] \in Entry
  <2>1. entries' \in Seq(Entry)
    BY DEF Tidy
  <2> QED BY <2>1
<1>2. \A e \in Entry : e.conn = c /\ e.id = x <=> e = [conn |-> c, id |-> x]
  BY DEF Entry
<1>3. x \in FiledUnder(c)' <=> \E i \in 1..Len(entries') : entries'[i].conn = c /\ entries'[i].id = x
  BY DEF FiledUnder, Key
<1> QED BY <1>1, <1>2, <1>3 DEF Tidy

\* A datagram is FlowTable's Send.
LEMMA SendIsSend ==
  ASSUME Ordered(Flow), Tidy, Tidy', NEW c \in Flow, onUdpSend(c)
  PROVE  Table!Send(c)
<1> DEFINE Filed == [d \in Flow |-> FiledUnder(d)]
           NextFiled == [d \in Flow |-> FiledUnder(d)']
<1>1. PICK i \in 1..Len(entries) + 1 : Place(c, i) /\ SendFrom(c, i)
  BY DEF onUdpSend
<1>2. CASE FoundAt(c, i)
  <2> DEFINE x == entries[i].id
  <2>1. /\ i \in 1..Len(entries) /\ Key(i) = c
        /\ used' = {[conn |-> c, id |-> x]}
        /\ UNCHANGED <<entries, live, made>>
    BY <1>1, <1>2, SendUses
  <2>2. x \in Nat /\ [conn |-> c, id |-> x] \in live
    BY <2>1, EntriesAre DEF Tidy
  <2> HIDE DEF x
  <2>3. x \in FiledUnder(c)
    BY <2>2, FiledLives
  <2>4. \A y \in FiledUnder(c) : y = x
    <3> SUFFICES ASSUME NEW y \in FiledUnder(c) PROVE y = x
      OBVIOUS
    <3>1. [conn |-> c, id |-> y] = [conn |-> c, id |-> x]
      BY <2>2, FiledLives
    <3> QED BY <3>1
  <2>5. FiledUnder(c) = {x}
    BY <2>3, <2>4
  <2>6. \A d \in Flow : FiledUnder(d)' = FiledUnder(d)
    BY <2>1 DEF FiledUnder, Key
  <2>7. NextFiled = [Filed EXCEPT ![c] = {x}]
    BY <2>5, <2>6
  <2> QED BY <2>1, <2>2, <2>5, <2>7 DEF Table!Send
<1>3. CASE ~FoundAt(c, i)
  <2> DEFINE x == made + 1
  <2>1. /\ \A j \in 1..Len(entries) : Key(j) # c
        /\ live' = live \union {[conn |-> c, id |-> x]}
        /\ used' = {[conn |-> c, id |-> x]}
    BY <1>1, <1>3, SendFiles
  <2>2. x \in Nat /\ \A e \in live : e.id # x
    <3>1. made \in Nat /\ \A e \in live : e.id \in Nat /\ e.id <= made
      BY FiledLives DEF Tidy, Entry
    <3> QED BY <3>1
  <2> HIDE DEF x
  <2>3. FiledUnder(c) = {}
    BY <2>1 DEF FiledUnder
  <2>4. \A d \in Flow : x \notin FiledUnder(d)
    <3> SUFFICES ASSUME NEW d \in Flow, x \in FiledUnder(d) PROVE FALSE
      OBVIOUS
    <3>1. [conn |-> d, id |-> x] \in live
      BY FiledLives
    <3> QED BY <2>2, <3>1
  <2>5. \A d \in Flow : \A y : y \in FiledUnder(d)' <=>
           y \in FiledUnder(d) \/ (d = c /\ y = x)
    <3> SUFFICES ASSUME NEW d \in Flow, NEW y
                 PROVE  y \in FiledUnder(d)' <=> y \in FiledUnder(d) \/ (d = c /\ y = x)
      OBVIOUS
    <3>1. y \in FiledUnder(d)' <=> [conn |-> d, id |-> y] \in live'
      BY LiveAfter
    <3>2. y \in FiledUnder(d) <=> [conn |-> d, id |-> y] \in live
      BY FiledLives
    <3>3. [conn |-> d, id |-> y] = [conn |-> c, id |-> x] <=> d = c /\ y = x
      OBVIOUS
    <3> QED BY <2>1, <3>1, <3>2, <3>3
  <2>6. NextFiled = [Filed EXCEPT ![c] = {x}]
    <3>1. \A d \in Flow : FiledUnder(d)' = IF d = c THEN {x} ELSE FiledUnder(d)
      BY <2>3, <2>5
    <3> QED BY <3>1
  <2> QED BY <2>1, <2>2, <2>3, <2>4, <2>6 DEF Table!Send
<1> QED BY <1>2, <1>3

\* The end of a processor is FlowTable's Close of its flow.
LEMMA CloseIsClose ==
  ASSUME Ordered(Flow), Tidy, Tidy', NEW p \in live, Close(p)
  PROVE  p.conn \in Flow /\ Table!Close(p.conn)
<1> DEFINE c == p.conn
           Filed == [d \in Flow |-> FiledUnder(d)]
           NextFiled == [d \in Flow |-> FiledUnder(d)']
<1>1. c \in Flow /\ p = [conn |-> c, id |-> p.id]
  BY FiledLives DEF Entry
<1>2. live' = live \ {p} /\ used' = used
  BY CloseErases
<1>3. p.id \in FiledUnder(c)
  BY <1>1, FiledLives
<1>4. \A d \in Flow : \A y : y \in FiledUnder(d)' <=> y \in FiledUnder(d) /\ d # c
  <2> SUFFICES ASSUME NEW d \in Flow, NEW y
               PROVE  y \in FiledUnder(d)' <=> y \in FiledUnder(d) /\ d # c
    OBVIOUS
  <2> DEFINE e == [conn |-> d, id |-> y]
  <2>1. y \in FiledUnder(d)' <=> e \in live'
    BY LiveAfter
  <2>2. y \in FiledUnder(d) <=> e \in live
    BY FiledLives
  <2>3. e.conn = d
    OBVIOUS
  <2>4. e \in live => (e = p <=> d = c)
    BY <2>3, FiledLives
  <2> HIDE DEF e
  <2> QED BY <1>2, <2>1, <2>2, <2>4
<1>5. \A d \in Flow : FiledUnder(d)' = IF d = c THEN {} ELSE FiledUnder(d)
  BY <1>4
<1>6. NextFiled = [Filed EXCEPT ![c] = {}]
  BY <1>5
<1> QED BY <1>1, <1>2, <1>3, <1>6 DEF Table!Close

\* With IPv4 flows alone the search tree is the table that it is meant to be:
\* however many flows come and go, and however the tree is balanced, all
\* datagrams of a flow leave through its one processor, and no timer erases a
\* flow that is not its own.
THEOREM V4TreeIsTable == Flow \subseteq Flows(AF_INET) => (TreeSpec => TreeIsTable)
<1> SUFFICES ASSUME Flow \subseteq Flows(AF_INET) PROVE TreeSpec => TreeIsTable
  OBVIOUS
<1>1. Ordered(Flow)
  BY V4Ordered DEF Ordered
<1>2. TreeSpec => []Tidy
  BY <1>1, TreeTidy
<1>3. TreeInit => Table!Init
  BY DEF TreeInit, Table!Init, FiledUnder
<1>4. Tidy /\ Tidy' /\ [TreeNext]_tree => [Table!Next]_(Table!vars)
  <2> SUFFICES ASSUME Tidy, Tidy', [TreeNext]_tree PROVE [Table!Next]_(Table!vars)
    OBVIOUS
  <2>1. ASSUME NEW c \in Flow, onUdpSend(c) PROVE Table!Next
    BY <1>1, <2>1, SendIsSend DEF Table!Next
  <2>2. ASSUME NEW p \in live, Close(p) PROVE Table!Next
    BY <1>1, <2>2, CloseIsClose DEF Table!Next
  <2>3. CASE UNCHANGED tree
    BY <2>3 DEF tree, Table!vars, FiledUnder, Key
  <2> QED BY <2>1, <2>2, <2>3 DEF TreeNext
<1> QED BY <1>2, <1>3, <1>4, PTL DEF TreeSpec, TreeIsTable, Table!Spec

-----------------------------------------------------------------------------
\* What FlowMap knows of the shape of its tree.
Shape == /\ entries \in Seq(Entry) /\ made \in Nat /\ Len(entries) \in 0..3
         /\ root \in 0..Len(entries) /\ (Len(entries) > 0 => root > 0)
         /\ (Len(entries) = 3 => root = 2)

\* Its walk ends at a place between two entries that it has passed, be the order
\* one or not.
LEMMA WalkIsPlace ==
  ASSUME Shape, NEW c \in Flow
  PROVE  Place(c, LowerBound(c))
<1>1. CASE Len(entries) = 0
  <2>1. entries = <<>>
    BY <1>1 DEF Shape
  <2> QED BY <1>1, <2>1 DEF LowerBound, Place
<1>2. CASE Len(entries) # 0
  <2>1. entries # <<>> /\ root \in 1..Len(entries)
    BY <1>2 DEF Shape
  <2>2. CASE Len(entries) = 1
    BY <2>1, <2>2 DEF LowerBound, Place
  <2>3. CASE Len(entries) = 2
    BY <2>1, <2>3 DEF LowerBound, Place
  <2>4. CASE Len(entries) = 3
    BY <2>1, <2>4 DEF LowerBound, Place, Shape
  <2> QED BY <1>2, <2>2, <2>3, <2>4 DEF Shape
<1> QED BY <1>1, <1>2

LEMMA ShapeStays ==
  ASSUME Shape, NEW c \in Flow, Datagram(c)
  PROVE  Shape' /\ onUdpSend(c)
<1> DEFINE b == LowerBound(c)
<1>1. Place(c, b) /\ SendFrom(c, b) /\ b \in 1..Len(entries) + 1
  BY WalkIsPlace DEF Datagram, Place
<1>2. CASE FoundAt(c, b)
  <2>1. UNCHANGED <<entries, made, root>>
    BY <1>1, <1>2 DEF Datagram, SendFrom, Found
  <2> QED BY <1>1, <2>1 DEF Shape, onUdpSend
<1>3. CASE ~FoundAt(c, b)
  <2> DEFINE e == [conn |-> c, id |-> made + 1]
  <2>1. /\ e \in Entry /\ made' = made + 1 /\ made' \in Nat
        /\ entries' = Inserted(e, b) /\ Len(entries) \in 0..2
    <3>1. e \in Entry /\ made \in Nat
      BY DEF Shape, Entry
    <3>2. made' = made + 1 /\ entries' = Inserted(e, b)
      BY <1>1, <1>3 DEF SendFrom
    <3>3. Len(entries) < 3 /\ Len(entries) \in 0..3
      BY <1>3 DEF Datagram, Found, Shape, MaxFlows
    <3> QED BY <3>1, <3>2, <3>3
  <2> HIDE DEF e
  <2>2. entries' \in Seq(Entry) /\ Len(entries') = Len(entries) + 1
    BY <1>1, <2>1, InsertedIs DEF Shape
  <2>3. root' \in 1..Len(entries) + 1 /\ (Len(entries) = 2 => root' = 2)
    <3>1. root' = IF Len(entries) = 2 \/ (Len(entries) = 1 /\ b = 1) THEN 2 ELSE 1
      BY <1>3 DEF Datagram, Found
    <3>2. Len(entries) \in 0..2
      BY <2>1
    <3> HIDE DEF b
    <3> QED BY <3>1, <3>2
  <2>4. Shape'
    <3>1. made' \in Nat /\ Len(entries) \in 0..2
      BY <2>1
    <3>2. Len(entries') = Len(entries) + 1 /\ entries' \in Seq(Entry)
      BY <2>2
    <3>3. CASE Len(entries) = 0
      BY <2>3, <3>1, <3>2, <3>3 DEF Shape
    <3>4. CASE Len(entries) = 1
      BY <2>3, <3>1, <3>2, <3>4 DEF Shape
    <3>5. CASE Len(entries) = 2
      BY <2>3, <3>1, <3>2, <3>5 DEF Shape
    <3> QED BY <3>1, <3>3, <3>4, <3>5
  <2> QED BY <1>1, <2>4 DEF onUdpSend
<1> QED BY <1>2, <1>3

LEMMA ShapeAlways == Spec => []Shape
<1>1. Init => Shape
  BY DEF Init, TreeInit, Shape
<1>2. Shape /\ [Next]_vars => Shape'
  BY ShapeStays DEF Next, vars, tree, Shape
<1> QED BY <1>1, <1>2, PTL DEF Spec

\* The exact tree of FlowMap is one of the trees of FlowTree, whatever the flows:
\* what is proved of every tree holds for it too.
THEOREM MapIsTree == Spec => TreeSpec
<1>1. Init => TreeInit
  BY DEF Init
<1>2. Shape /\ [Next]_vars => [TreeNext]_tree
  BY ShapeStays DEF Next, vars, TreeNext
<1> QED BY <1>1, <1>2, ShapeAlways, PTL DEF Spec, TreeSpec

\* With IPv4 flows alone, every flow that has a processor is found, whatever the
\* flows and the order in which they come.
THEOREM V4IsFound == Flow \subseteq Flows(AF_INET) => (Spec => []FiledIsFound)
<1> SUFFICES ASSUME Flow \subseteq Flows(AF_INET) PROVE Spec => []FiledIsFound
  OBVIOUS
<1>1. Ordered(Flow)
  BY V4Ordered DEF Ordered
<1>2. Shape /\ Tidy => FiledIsFound
  <2> SUFFICES ASSUME Shape, Tidy, NEW i \in 1..Len(entries)
               PROVE  Found(Key(i)) /\ getUdpProcessor(Key(i)) = entries[i]
    BY DEF FiledIsFound
  <2>1. Key(i) \in Flow
    BY EntriesAre DEF Tidy
  <2>2. Place(Key(i), LowerBound(Key(i)))
    BY <2>1, WalkIsPlace
  <2>3. LowerBound(Key(i)) = i /\ FoundAt(Key(i), LowerBound(Key(i)))
    BY <1>1, <2>1, <2>2, PlaceParts
  <2> QED BY <2>3 DEF Found, getUdpProcessor
<1>3. Spec => []Tidy
  BY <1>1, MapIsTree, TreeTidy
<1> QED BY <1>2, <1>3, ShapeAlways, PTL

=============================================================================
