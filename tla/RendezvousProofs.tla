-------------------------- MODULE RendezvousProofs --------------------------
(***************************************************************************)
(* Proofs about Rendezvous, for any numbers of starts of either program,   *)
(* of ports and of steps.                                                  *)
(*                                                                         *)
(* The argument: a proxy's ports are settled and held before its Write;    *)
(* what is in the mapping, and what was read from it, is what one such     *)
(* proxy held; and while a proxy that has written has the mapping open,    *)
(* nothing makes the mapping blank again.                                  *)
(***************************************************************************)
EXTENDS Rendezvous, TLAPS

-----------------------------------------------------------------------------
\* A filter that still waits has slept less than a step too long.
Waits == \A f \in Filter :
           filter[f] \in {"off", "reading", "copying", "sleeping"} => sleeps[f] \in 0..Steps

\* A proxy past a scan holds the port that the scan was for.
Held == \A p \in Proxy :
          /\ proxy[p] = "forward" \/ Up(p) =>
               mine[p].event \in Port /\ evOwner[mine[p].event] = p
          /\ Up(p) => mine[p].forward \in Port /\ p \in fwOwners[mine[p].forward]

\* p has ports that do not change any more.
Settled(p) == proxy[p] \notin {"off", "event", "forward"}

\* r is blank or holds the two ports of one proxy.
Whole(r) == \A p \in Proxy :
              r.by = p => /\ r.event = mine[p].event /\ r.forward = mine[p].forward
                          /\ Settled(p)

AllWhole == Whole(info) /\ \A f \in Filter : Whole(found[f])

\* A mapping that a finished Write went to is not blank.
Kept == \A p \in Proxy : Published(p) => info.by \in Proxy

IInv == TypeOK /\ Waits /\ Held /\ AllWhole /\ Kept

\* What the opening and the end of a process leave of the mapping has its type.
LEMMA MappingTyped ==
  ASSUME TypeOK, NEW q \in Proxy \cup Filter, Open(q) \/ Release(q)
  PROVE  /\ sized' \in BOOLEAN /\ info' \in Info /\ handles' \subseteq Proxy \cup Filter
         /\ views' \subseteq handles'
         /\ info' = info \/ info' = Blank
<1>1. Blank \in Info
  BY StartAssumption DEF Blank, Info
<1>2. CASE Open(q)
  BY <1>2 DEF Open, TypeOK
<1>3. CASE Release(q)
  BY <1>1, <1>3 DEF Release, TypeOK
<1> QED BY <1>2, <1>3

\* The initial state satisfies the invariant.
LEMMA Initially == Init => IInv
<1> SUFFICES ASSUME Init PROVE IInv
  OBVIOUS
<1>1. TypeOK /\ Waits
  <2>1. Blank \in Info /\ MaxPort \in 0..MaxPort /\ 0 \in 0..Steps /\ 0 \in 0..Steps+1
    BY StartAssumption DEF Blank, Info
  <2>2. [event |-> 0, forward |-> 0] \in [event : 0..MaxPort, forward : 0..MaxPort]
    BY StartAssumption
  <2>3. evOwner \in [Port -> Proxy \cup {Nobody, Other}]
    BY DEF Init
  <2> QED BY <2>1, <2>2, <2>3 DEF Init, TypeOK, Waits, ProxyPhases, FilterPhases
<1>2. Held /\ AllWhole /\ Kept
  BY StartAssumption DEF Init, Held, AllWhole, Kept, Whole, Blank, Up, Published
<1> QED BY <1>1, <1>2 DEF IInv

\* Taking a port changes one proxy's own record of it and nothing else there.
Taken(p) ==
  /\ try[p] \in Port /\ try[p] - 1 \in 0..MaxPort
  /\ mine' \in [Proxy -> [event : 0..MaxPort, forward : 0..MaxPort]]
  /\ \A q \in Proxy : q # p => mine'[q] = mine[q]
  /\ fwOwners' \in [Port -> SUBSET Proxy]
  /\ \A t \in Port : fwOwners[t] \subseteq fwOwners'[t]
LEMMA Takes ==
  ASSUME TypeOK, NEW p \in Proxy, TryEvent(p) \/ TryForward(p)
  PROVE  Taken(p)
<1>1. try[p] \in Port /\ try[p] - 1 \in 0..MaxPort
  BY StartAssumption DEF TryEvent, TryForward, TypeOK, Port
<1>2. try[p] \in 0..MaxPort
  BY <1>1, StartAssumption DEF Port
<1>3. [mine[p] EXCEPT !.event = try[p]] \in [event : 0..MaxPort, forward : 0..MaxPort]
  BY <1>2 DEF TypeOK
<1>4. [mine[p] EXCEPT !.forward = try[p]] \in [event : 0..MaxPort, forward : 0..MaxPort]
  BY <1>2 DEF TypeOK
<1>5. /\ mine' \in [Proxy -> [event : 0..MaxPort, forward : 0..MaxPort]]
      /\ \A q \in Proxy : q # p => mine'[q] = mine[q]
  BY <1>3, <1>4 DEF TryEvent, TryForward, TypeOK
<1>6. /\ fwOwners' \in [Port -> SUBSET Proxy]
      /\ \A t \in Port : fwOwners[t] \subseteq fwOwners'[t]
  <2>1. CASE fwOwners' = fwOwners
    BY <2>1 DEF TypeOK
  <2>2. CASE fwOwners' = [fwOwners EXCEPT ![try[p]] = @ \cup {p}]
    BY <1>1, <2>2 DEF TypeOK
  <2> QED BY <2>1, <2>2 DEF TryEvent, TryForward
<1> QED BY <1>1, <1>5, <1>6 DEF Taken

-----------------------------------------------------------------------------
(* One lemma per kind of step.                                             *)

\* The steps of a proxy preserve the types.
LEMMA ProxyTyped ==
  ASSUME IInv, NEW p \in Proxy, ProxyStarts(p) \/ ProxyRuns(p) \/ ProxyDies(p)
  PROVE  TypeOK' /\ Waits'
<1> USE DEF IInv
<1>1. Waits'
  BY DEF Waits, ProxyStarts, ProxyRuns, ProxyDies, TryEvent, TryForward, StartFails,
         WriteSize, WriteInfo, filterVars
<1>2. CASE ProxyStarts(p)
  BY <1>1, <1>2, MappingTyped DEF ProxyStarts, TypeOK, ProxyPhases, filterVars
<1>3. CASE TryEvent(p)
  <2>1. Taken(p)
    BY <1>3, Takes
  <2>2. evOwner' \in [Port -> Proxy \cup {Nobody, Other}]
    BY <1>3 DEF TryEvent, TypeOK
  <2>3. try' \in [Proxy -> 0..MaxPort]
    BY <1>3, <2>1, StartAssumption DEF Taken, TryEvent, TypeOK
  <2>4. mine' \in [Proxy -> [event : 0..MaxPort, forward : 0..MaxPort]]
    BY <2>1 DEF Taken
  <2> QED BY <1>1, <1>3, <2>2, <2>3, <2>4 DEF TryEvent, TypeOK, ProxyPhases, filterVars
<1>4. CASE TryForward(p)
  <2>1. Taken(p)
    BY <1>4, Takes
  <2>2. try' \in [Proxy -> 0..MaxPort]
    BY <1>4, <2>1, StartAssumption DEF Taken, TryForward, TypeOK
  <2>3. /\ mine' \in [Proxy -> [event : 0..MaxPort, forward : 0..MaxPort]]
        /\ fwOwners' \in [Port -> SUBSET Proxy]
    BY <2>1 DEF Taken
  <2> QED BY <1>1, <1>4, <2>2, <2>3 DEF TryForward, TypeOK, ProxyPhases, filterVars
<1>5. CASE StartFails(p)
  BY <1>1, <1>5 DEF StartFails, TypeOK, ProxyPhases, filterVars
<1>6. CASE WriteSize(p)
  BY <1>1, <1>6 DEF WriteSize, TypeOK, ProxyPhases, filterVars
<1>7. CASE WriteInfo(p)
  <2>1. [event |-> mine[p].event, forward |-> mine[p].forward, by |-> p] \in Info
    BY DEF TypeOK, Info
  <2> QED BY <1>1, <1>7, <2>1 DEF WriteInfo, TypeOK, ProxyPhases, filterVars
<1>8. CASE ProxyDies(p)
  <2>1. MaxPort \in 0..MaxPort
    BY StartAssumption
  <2> QED BY <1>1, <1>8, <2>1, MappingTyped DEF ProxyDies, TypeOK, ProxyPhases, filterVars
<1> QED BY <1>1, <1>2, <1>3, <1>4, <1>5, <1>6, <1>7, <1>8 DEF ProxyRuns

\* The steps of a filter preserve the types and end the wait in time.
LEMMA FilterTyped ==
  ASSUME IInv, NEW f \in Filter, FilterStarts(f) \/ FilterRuns(f) \/ FilterDies(f)
  PROVE  TypeOK' /\ Waits'
<1> USE DEF IInv
<1>1. CASE FilterStarts(f)
  BY <1>1, MappingTyped DEF FilterStarts, TypeOK, Waits, FilterPhases, proxyVars
<1>2. CASE ReadSize(f) \/ ReadInfo(f)
  BY <1>2 DEF ReadSize, ReadInfo, TypeOK, Waits, FilterPhases, proxyVars
<1>3. CASE AfterSleep(f)
  <2>1. /\ sleeps[f] + 1 \in 0..Steps+1
        /\ sleeps[f] < Steps => sleeps[f] + 1 \in 0..Steps
    BY <1>3, StartAssumption DEF AfterSleep, Waits
  <2> QED BY <1>3, <2>1 DEF AfterSleep, TypeOK, Waits, FilterPhases, proxyVars
<1>4. CASE FilterDies(f)
  <2>1. Blank \in Info /\ 0 \in 0..Steps+1
    BY StartAssumption DEF Blank, Info
  <2> QED BY <1>4, <2>1, MappingTyped DEF FilterDies, TypeOK, Waits, FilterPhases, proxyVars
<1> QED BY <1>1, <1>2, <1>3, <1>4 DEF FilterRuns

\* Ports stay held until their proxy ends: no scan, no other program and no
\* other proxy's end takes them away.
LEMMA HeldStep == ASSUME IInv, TypeOK', [Next]_vars PROVE Held'
<1> USE DEF IInv
<1>1. CASE \E p \in Proxy : ProxyRuns(p)
  <2> PICK p \in Proxy : ProxyRuns(p)
    BY <1>1
  <2>1. CASE TryEvent(p)
    <3> SUFFICES ASSUME NEW q \in Proxy, proxy'[q] = "forward" \/ Up(q)'
                 PROVE  /\ mine'[q].event \in Port /\ evOwner'[mine'[q].event] = q
                        /\ Up(q)' => /\ mine'[q].forward \in Port
                                     /\ q \in fwOwners'[mine'[q].forward]
      BY DEF Held
    <3>0. Taken(p)
      BY <2>1, Takes
    <3>1. CASE q = p
      <4>1. evOwner[try[p]] = Nobody /\ proxy' # proxy
        BY <2>1, <3>1 DEF TryEvent, TypeOK, Up
      <4>2. proxy'[p] = "forward" /\ ~Up(p)' /\ mine'[p].event = try[p]
        BY <2>1, <4>1 DEF TryEvent, TypeOK, Up
      <4>3. evOwner'[try[p]] = p
        BY <2>1, <3>0, <4>1 DEF TryEvent, TypeOK, Taken
      <4> QED BY <3>1, <4>2, <4>3, <3>0 DEF Taken
    <3>2. CASE q # p
      <4>1. mine'[q] = mine[q] /\ proxy'[q] = proxy[q] /\ fwOwners' = fwOwners
        BY <2>1, <3>2, <3>0 DEF TryEvent, TypeOK, Taken
      <4>2. \A e \in Port : evOwner[e] # Nobody => evOwner'[e] = evOwner[e]
        BY <2>1 DEF TryEvent, TypeOK
      <4> QED BY <4>1, <4>2, StartAssumption DEF Held, Up
    <3> QED BY <3>1, <3>2
  <2>2. CASE TryForward(p)
    <3> SUFFICES ASSUME NEW q \in Proxy, proxy'[q] = "forward" \/ Up(q)'
                 PROVE  /\ mine'[q].event \in Port /\ evOwner'[mine'[q].event] = q
                        /\ Up(q)' => /\ mine'[q].forward \in Port
                                     /\ q \in fwOwners'[mine'[q].forward]
      BY DEF Held
    <3>0. Taken(p)
      BY <2>2, Takes
    <3>1. CASE q = p
      <4>1. /\ mine'[p].event = mine[p].event /\ evOwner' = evOwner
            /\ Up(p)' => mine'[p].forward = try[p] /\ p \in fwOwners'[try[p]]
        BY <2>2, <3>1, <3>0 DEF TryForward, TypeOK, Taken, Up
      <4> QED BY <2>2, <3>1, <4>1, <3>0 DEF Held, TryForward, Taken
    <3>2. CASE q # p
      <4>1. mine'[q] = mine[q] /\ proxy'[q] = proxy[q] /\ evOwner' = evOwner
        BY <2>2, <3>2, <3>0 DEF TryForward, TypeOK, Taken
      <4> QED BY <4>1, <3>0 DEF Held, Up, Taken
    <3> QED BY <3>1, <3>2
  <2>3. CASE StartFails(p) \/ WriteSize(p) \/ WriteInfo(p)
    BY <2>3 DEF StartFails, WriteSize, WriteInfo, Held, Up, TypeOK
  <2> QED BY <2>1, <2>2, <2>3 DEF ProxyRuns
<1>2. CASE \E p \in Proxy : ProxyStarts(p)
  BY <1>2 DEF ProxyStarts, Held, Up, TypeOK
<1>3. CASE \E p \in Proxy : ProxyDies(p)
  <2> PICK p \in Proxy : ProxyDies(p)
    BY <1>3
  <2> SUFFICES ASSUME NEW q \in Proxy, proxy'[q] = "forward" \/ Up(q)'
               PROVE  /\ mine'[q].event \in Port /\ evOwner'[mine'[q].event] = q
                      /\ Up(q)' => /\ mine'[q].forward \in Port
                                   /\ q \in fwOwners'[mine'[q].forward]
    BY DEF Held
  <2>1. q # p /\ proxy'[q] = proxy[q] /\ mine' = mine
    BY DEF ProxyDies, TypeOK, Up
  <2> QED BY <2>1 DEF ProxyDies, Held, Up
<1>4. CASE \E e \in Port : OtherBinds(e) \/ OtherCloses(e)
  BY <1>4, StartAssumption DEF OtherBinds, OtherCloses, Held, Up, TypeOK
<1>5. CASE \E f \in Filter : FilterStarts(f) \/ FilterRuns(f) \/ FilterDies(f)
  BY <1>5 DEF FilterStarts, FilterRuns, FilterDies, ReadSize, ReadInfo, AfterSleep,
              proxyVars, Held, Up
<1>6. CASE UNCHANGED vars
  BY <1>6 DEF vars, Held, Up
<1> QED BY <1>1, <1>2, <1>3, <1>4, <1>5, <1>6 DEF Next

\* A proxy's ports do not change once they are settled, and stay settled.
LEMMA SettledStays ==
  ASSUME IInv, [Next]_vars, NEW p \in Proxy, Settled(p)
  PROVE  Settled(p)' /\ mine'[p] = mine[p]
<1> USE DEF IInv, Settled
<1>1. CASE \E q \in Proxy : ProxyStarts(q) \/ ProxyDies(q)
  BY <1>1 DEF ProxyStarts, ProxyDies, TypeOK
<1>2. CASE \E q \in Proxy : ProxyRuns(q)
  BY <1>2 DEF ProxyRuns, TryEvent, TryForward, StartFails, WriteSize, WriteInfo, TypeOK
<1>3. CASE \/ \E e \in Port : OtherBinds(e) \/ OtherCloses(e)
           \/ \E f \in Filter : FilterStarts(f) \/ FilterRuns(f) \/ FilterDies(f)
           \/ UNCHANGED vars
  BY <1>3 DEF OtherBinds, OtherCloses, FilterStarts, FilterRuns, FilterDies, ReadSize,
              ReadInfo, AfterSleep, proxyVars, vars
<1> QED BY <1>1, <1>2, <1>3 DEF Next

\* The mapping holds what it held, or is blank, or holds the ports of a proxy
\* that has just written them; a filter has read what the mapping holds.
LEMMA WholeStep == ASSUME IInv, [Next]_vars PROVE AllWhole'
<1> USE DEF IInv
<1>1. ASSUME NEW r, Whole(r) PROVE Whole(r)'
  BY <1>1, SettledStays DEF Whole
<1>2. \A p \in Proxy : Blank.by # p
  BY StartAssumption DEF Blank
<1>3. CASE \E p \in Proxy : WriteInfo(p)
  <2> PICK p \in Proxy : WriteInfo(p)
    BY <1>3
  <2>1. Settled(p)' /\ mine' = mine /\ found' = found
    BY DEF WriteInfo, Settled, TypeOK, filterVars
  <2>2. info' = info \/ info' = [event |-> mine[p].event, forward |-> mine[p].forward, by |-> p]
    BY DEF WriteInfo
  <2> DEFINE r == [event |-> mine[p].event, forward |-> mine[p].forward, by |-> p]
  <2>3. Whole(info)'
    <3>1. CASE info' = info
      BY <1>1, <3>1 DEF AllWhole, Whole
    <3>2. CASE info' = r
      <4>1. info'.by = p /\ info'.event = mine'[p].event /\ info'.forward = mine'[p].forward
        BY <2>1, <3>2
      <4> QED BY <2>1, <4>1 DEF Whole
    <3> QED BY <2>2, <3>1, <3>2
  <2> QED BY <1>1, <2>1, <2>3 DEF AllWhole, Whole
<1>4. CASE /\ info' = info \/ info' = Blank
           /\ \A f \in Filter : found'[f] = found[f] \/ found'[f] = info \/ found'[f] = Blank
  BY <1>1, <1>2, <1>4 DEF AllWhole, Whole
<1>5. CASE /\ Next
           /\ ~\E p \in Proxy : WriteInfo(p)
  <2>1. info' = info \/ info' = Blank
    BY <1>5, MappingTyped DEF Next, ProxyStarts, ProxyRuns, ProxyDies, TryEvent, TryForward,
       StartFails, WriteSize, OtherBinds, OtherCloses, FilterStarts, FilterRuns, FilterDies,
       ReadSize, ReadInfo, AfterSleep
  <2>2. \A f \in Filter : found'[f] = found[f] \/ found'[f] = info \/ found'[f] = Blank
    BY <1>5 DEF Next, ProxyStarts, ProxyRuns, ProxyDies, TryEvent, TryForward,
       StartFails, WriteSize, OtherBinds, OtherCloses, FilterStarts, FilterRuns, FilterDies,
       ReadSize, ReadInfo, AfterSleep, filterVars, TypeOK
  <2> QED BY <2>1, <2>2, <1>4
<1>6. CASE UNCHANGED vars
  BY <1>6, <1>4 DEF vars
<1> QED BY <1>3, <1>5, <1>6

\* Whoever ends, a mapping that a live proxy has written to and has open stays.
LEMMA KeptStep == ASSUME IInv, TypeOK', [Next]_vars PROVE Kept'
<1> USE DEF IInv
<1> SUFFICES ASSUME NEW p \in Proxy, Published(p)' PROVE info'.by \in Proxy
  BY DEF Kept
<1>1. CASE \E q \in Proxy : ProxyStarts(q)
  BY <1>1, StartAssumption DEF ProxyStarts, Open, Kept, Published, TypeOK
<1>2. CASE \E q \in Proxy : TryEvent(q) \/ TryForward(q) \/ StartFails(q) \/ WriteSize(q)
  BY <1>2 DEF TryEvent, TryForward, StartFails, WriteSize, Kept, Published, TypeOK
<1>3. CASE \E q \in Proxy : WriteInfo(q)
  <2> PICK q \in Proxy : WriteInfo(q)
    BY <1>3
  <2>1. CASE q = p
    BY <2>1 DEF WriteInfo, Published
  <2>2. CASE q # p
    BY <2>2 DEF WriteInfo, Published, Kept, TypeOK
  <2> QED BY <2>1, <2>2
<1>4. ASSUME NEW q \in Proxy \cup Filter, Release(q), Published(p), q # p
      PROVE  info'.by \in Proxy
  <2>1. p \in handles
    BY <1>4 DEF Published, TypeOK
  <2> QED BY <1>4, <2>1 DEF Release, Kept
<1>5. CASE \E q \in Proxy : ProxyDies(q)
  BY <1>4, <1>5 DEF ProxyDies, Published, TypeOK, Release
<1>6. CASE \E f \in Filter : FilterStarts(f)
  BY <1>6, StartAssumption DEF FilterStarts, Open, proxyVars, Kept, Published
<1>7. CASE \E f \in Filter : FilterRuns(f)
  BY <1>7 DEF FilterRuns, ReadSize, ReadInfo, AfterSleep, proxyVars, Kept, Published
<1>8. CASE \E f \in Filter : FilterDies(f)
  BY <1>4, <1>8, StartAssumption DEF FilterDies, proxyVars, Published, Release
<1>9. CASE (\E e \in Port : OtherBinds(e) \/ OtherCloses(e)) \/ UNCHANGED vars
  BY <1>9 DEF OtherBinds, OtherCloses, vars, Kept, Published
<1> QED BY <1>1, <1>2, <1>3, <1>5, <1>6, <1>7, <1>8, <1>9 DEF Next, ProxyRuns

-----------------------------------------------------------------------------
\* Every step preserves the invariant.
LEMMA InductiveStep == IInv /\ [Next]_vars => IInv'
<1> SUFFICES ASSUME IInv, [Next]_vars PROVE IInv'
  OBVIOUS
<1>1. TypeOK' /\ Waits'
  <2>1. CASE \E e \in Port : OtherBinds(e) \/ OtherCloses(e)
    BY <2>1 DEF OtherBinds, OtherCloses, IInv, TypeOK, Waits, filterVars
  <2>2. CASE UNCHANGED vars
    BY <2>2 DEF vars, IInv, TypeOK, Waits
  <2> QED BY <2>1, <2>2, ProxyTyped, FilterTyped DEF Next
<1> QED BY <1>1, HeldStep, WholeStep, KeptStep DEF IInv

\* The invariant holds in every reachable state.
LEMMA Always == Spec => []IInv
  BY Initially, InductiveStep, PTL DEF Spec

\* Rendezvous is type correct; in particular WaitRead sleeps at most one step
\* more than its timeout is long.
THEOREM RendezvousTypeCorrect == Spec => []TypeOK
  BY Always, PTL DEF IInv

\* However many proxies write at once and whoever dies, the two ports that a
\* filter has read belong to one proxy, which listens on them while it lives.
THEOREM PortsAreServed == Spec => []FoundIsServed
<1>1. IInv => FoundIsServed
  BY DEF IInv, AllWhole, Whole, Held, FoundIsServed, Up
<1> QED BY <1>1, Always, PTL

\* A filter never reads unwritten ports from a mapping that a live proxy has
\* finished writing to.
THEOREM BlankIsRare == Spec => BlankOnlyAtFirst
<1>1. IInv /\ [Next]_vars =>
        [\A f \in Filter : \A p \in Proxy :
           ReadInfo(f) /\ Published(p) => found'[f].by \in Proxy]_vars
  <2> SUFFICES ASSUME IInv, NEW f \in Filter, NEW p \in Proxy, ReadInfo(f), Published(p)
               PROVE  found'[f].by \in Proxy
    OBVIOUS
  <2> QED BY DEF IInv, TypeOK, Kept, ReadInfo
<1> QED BY <1>1, Always, PTL DEF Spec, BlankOnlyAtFirst

-----------------------------------------------------------------------------
\* A Write that has begun leaves the size word right.
SizedByWrite == \A p \in Proxy : proxy[p] \in {"writing", "serving"} /\ p \in views => sized

\* Nothing takes the size word away again while the writer has the mapping open.
LEMMA SizedStep == ASSUME IInv, SizedByWrite, [Next]_vars PROVE SizedByWrite'
<1> USE DEF IInv
<1> SUFFICES ASSUME NEW p \in Proxy, proxy'[p] \in {"writing", "serving"}, p \in views'
             PROVE  sized'
  BY DEF SizedByWrite
<1>1. ASSUME NEW q \in Proxy \cup Filter, Release(q), p # q,
             proxy[p] \in {"writing", "serving"}
      PROVE  sized'
  <2>1. p \in views /\ p \in handles
    BY <1>1 DEF Release, TypeOK
  <2> QED BY <1>1, <2>1 DEF Release, SizedByWrite
<1>2. CASE \E q \in Proxy : ProxyStarts(q)
  BY <1>2, StartAssumption DEF ProxyStarts, Open, SizedByWrite, TypeOK
<1>3. CASE \E q \in Proxy : TryEvent(q) \/ TryForward(q) \/ StartFails(q) \/ WriteInfo(q)
  BY <1>3 DEF TryEvent, TryForward, StartFails, WriteInfo, SizedByWrite, TypeOK
<1>4. CASE \E q \in Proxy : WriteSize(q)
  <2> PICK q \in Proxy : WriteSize(q)
    BY <1>4
  <2>1. CASE q = p
    BY <2>1 DEF WriteSize
  <2>2. CASE q # p
    BY <2>2 DEF WriteSize, SizedByWrite, TypeOK
  <2> QED BY <2>1, <2>2
<1>5. CASE \E q \in Proxy : ProxyDies(q)
  BY <1>1, <1>5 DEF ProxyDies, TypeOK
<1>6. CASE \E f \in Filter : FilterStarts(f)
  BY <1>6, StartAssumption DEF FilterStarts, Open, proxyVars, SizedByWrite
<1>7. CASE \E f \in Filter : FilterRuns(f)
  BY <1>7 DEF FilterRuns, ReadSize, ReadInfo, AfterSleep, proxyVars, SizedByWrite
<1>8. CASE \E f \in Filter : FilterDies(f)
  BY <1>1, <1>8, StartAssumption DEF FilterDies, proxyVars
<1>9. CASE (\E e \in Port : OtherBinds(e) \/ OtherCloses(e)) \/ UNCHANGED vars
  BY <1>9 DEF OtherBinds, OtherCloses, vars, SizedByWrite
<1> QED BY <1>2, <1>3, <1>4, <1>5, <1>6, <1>7, <1>8, <1>9 DEF Next, ProxyRuns

\* A filter that looks is not sent to sleep when a proxy has finished its Write.
THEOREM WrittenIsFound == Spec => NeverTurnedAway
<1>1. Init => SizedByWrite
  BY DEF Init, SizedByWrite
<1>2. IInv /\ SizedByWrite /\ [Next]_vars => SizedByWrite'
  BY SizedStep
<1>3. IInv /\ SizedByWrite /\ [Next]_vars =>
        [\A f \in Filter : \A p \in Proxy :
           filter[f] = "reading" /\ f \in views /\ Published(p) => filter'[f] # "sleeping"]_vars
  <2> SUFFICES ASSUME IInv, SizedByWrite, Next, NEW f \in Filter, NEW p \in Proxy,
                      filter[f] = "reading", f \in views, Published(p)
               PROVE  filter'[f] # "sleeping"
    OBVIOUS
  <2>1. sized
    BY DEF SizedByWrite, Published
  <2>2. CASE \E q \in Proxy : ProxyStarts(q) \/ ProxyRuns(q) \/ ProxyDies(q)
    BY <2>2 DEF ProxyStarts, ProxyRuns, ProxyDies, TryEvent, TryForward, StartFails,
       WriteSize, WriteInfo, filterVars
  <2>3. CASE \E e \in Port : OtherBinds(e) \/ OtherCloses(e)
    BY <2>3 DEF OtherBinds, OtherCloses, filterVars
  <2>4. CASE \E g \in Filter : FilterStarts(g) \/ FilterRuns(g) \/ FilterDies(g)
    BY <2>1, <2>4 DEF FilterStarts, FilterRuns, FilterDies, ReadSize, ReadInfo, AfterSleep,
       IInv, TypeOK
  <2> QED BY <2>2, <2>3, <2>4 DEF Next
<1> QED BY <1>1, <1>2, <1>3, Always, PTL DEF Spec, NeverTurnedAway

\* Every step of a proxy's main leaves it fewer steps to serve or to fail.
LEMMA ProxyShrinks ==
  ASSUME IInv, NEW p \in Proxy, ProxyRuns(p)
  PROVE  /\ StepsOfProxy(p)' \in 0..StepsOfProxy(p) - 1
         /\ \A q \in Proxy : q # p => UNCHANGED <<proxy[q], try[q]>>
<1>1. /\ MaxPort \in Nat /\ try[p] \in 0..MaxPort /\ proxy \in [Proxy -> ProxyPhases]
      /\ try \in [Proxy -> 0..MaxPort]
  BY StartAssumption DEF IInv, TypeOK
<1>2. CASE TryEvent(p) \/ TryForward(p)
  <2>1. try[p] \in Nat /\ try[p] # 0
    BY <1>1, <1>2 DEF TryEvent, TryForward
  <2>2. /\ proxy[p] = "event" =>
             \/ proxy'[p] = "forward" /\ try'[p] = MaxPort
             \/ proxy'[p] = "event" /\ try'[p] = try[p] - 1
        /\ proxy[p] = "forward" =>
             \/ proxy'[p] = "listening"
             \/ proxy'[p] = "forward" /\ try'[p] = try[p] - 1
        /\ proxy[p] = "event" \/ proxy[p] = "forward"
        /\ \A q \in Proxy : q # p => UNCHANGED <<proxy[q], try[q]>>
    BY <1>1, <1>2 DEF TryEvent, TryForward
  <2>3. StepsOfProxy(p) = IF proxy[p] = "event" THEN try[p] + MaxPort + 4 ELSE try[p] + 3
    BY <2>2 DEF StepsOfProxy
  <2>4. CASE proxy'[p] = "listening"
    <3>1. StepsOfProxy(p)' = 2
      BY <2>4 DEF StepsOfProxy
    <3> QED BY <1>1, <2>1, <2>2, <2>3, <3>1
  <2>5. CASE proxy'[p] = "forward"
    <3>1. StepsOfProxy(p)' = try'[p] + 3
      BY <2>5 DEF StepsOfProxy
    <3> QED BY <1>1, <2>1, <2>2, <2>3, <2>5, <3>1
  <2>6. CASE proxy'[p] = "event"
    <3>1. StepsOfProxy(p)' = try'[p] + MaxPort + 4
      BY <2>6 DEF StepsOfProxy
    <3> QED BY <1>1, <2>1, <2>2, <2>3, <2>6, <3>1
  <2> QED BY <2>2, <2>4, <2>5, <2>6
<1>3. CASE StartFails(p)
  <2>1. proxy'[p] = "failed" /\ \A q \in Proxy : q # p => UNCHANGED <<proxy[q], try[q]>>
    BY <1>1, <1>3 DEF StartFails
  <2>2. StepsOfProxy(p)' = 0 /\ StepsOfProxy(p) >= 1
    <3>1. StepsOfProxy(p)' = 0
      BY <2>1 DEF StepsOfProxy
    <3> QED BY <1>1, <1>3, <3>1 DEF StepsOfProxy, StartFails
  <2>3. StepsOfProxy(p) \in Nat
    BY <1>1, <1>3 DEF StepsOfProxy, StartFails
  <2> HIDE DEF StepsOfProxy
  <2> QED BY <2>1, <2>2, <2>3
<1>4. CASE WriteSize(p) \/ WriteInfo(p)
  <2>1. /\ \/ proxy[p] = "listening" /\ proxy'[p] = "writing"
           \/ proxy[p] = "writing" /\ proxy'[p] = "serving"
        /\ \A q \in Proxy : q # p => UNCHANGED <<proxy[q], try[q]>>
    BY <1>1, <1>4 DEF WriteSize, WriteInfo
  <2>2. StepsOfProxy(p) = (IF proxy[p] = "listening" THEN 2 ELSE 1)
        /\ StepsOfProxy(p)' = IF proxy'[p] = "writing" THEN 1 ELSE 0
    BY <2>1 DEF StepsOfProxy
  <2> HIDE DEF StepsOfProxy
  <2> QED BY <2>1, <2>2
<1> QED BY <1>2, <1>3, <1>4 DEF ProxyRuns

\* Every step of a filter's main leaves it fewer steps to find or to give up.
LEMMA FilterShrinks ==
  ASSUME IInv, NEW f \in Filter, FilterRuns(f)
  PROVE  /\ StepsOfFilter(f)' \in 0..StepsOfFilter(f) - 1
         /\ \A g \in Filter : g # f => UNCHANGED <<filter[g], sleeps[g]>>
<1>1. /\ Steps \in Nat /\ filter \in [Filter -> FilterPhases] /\ sleeps \in [Filter -> 0..Steps+1]
      /\ filter[f] \in {"reading", "sleeping"} => sleeps[f] \in 0..Steps
  BY StartAssumption DEF IInv, TypeOK, Waits
<1>2. CASE ReadSize(f)
  <2>1. /\ filter[f] = "reading" /\ filter'[f] \in {"copying", "sleeping"} /\ sleeps' = sleeps
        /\ \A g \in Filter : g # f => UNCHANGED <<filter[g], sleeps[g]>>
    BY <1>1, <1>2 DEF ReadSize
  <2>2. /\ StepsOfFilter(f) = 2 * (Steps - sleeps[f]) + 3
        /\ StepsOfFilter(f)' = IF filter'[f] = "copying" THEN 1
                                                         ELSE 2 * (Steps - sleeps[f]) + 2
    BY <2>1 DEF StepsOfFilter
  <2> QED BY <1>1, <2>1, <2>2
<1>3. CASE ReadInfo(f)
  <2>1. /\ filter[f] = "copying" /\ filter'[f] = "found"
        /\ \A g \in Filter : g # f => UNCHANGED <<filter[g], sleeps[g]>>
    BY <1>1, <1>3 DEF ReadInfo
  <2>2. StepsOfFilter(f) = 1 /\ StepsOfFilter(f)' = 0
    BY <2>1 DEF StepsOfFilter
  <2> QED BY <2>1, <2>2
<1>4. CASE AfterSleep(f)
  <2>1. /\ filter[f] = "sleeping" /\ sleeps'[f] = sleeps[f] + 1
        /\ filter'[f] = "gaveup" \/ (sleeps[f] < Steps /\ filter'[f] = "reading")
        /\ \A g \in Filter : g # f => UNCHANGED <<filter[g], sleeps[g]>>
    BY <1>1, <1>4 DEF AfterSleep
  <2>2. StepsOfFilter(f) = 2 * (Steps - sleeps[f]) + 2
    BY <2>1 DEF StepsOfFilter
  <2>3. CASE filter'[f] = "gaveup"
    <3>1. StepsOfFilter(f)' = 0
      BY <2>3 DEF StepsOfFilter
    <3> QED BY <1>1, <2>1, <2>2, <3>1
  <2>4. CASE sleeps[f] < Steps /\ filter'[f] = "reading"
    <3>1. StepsOfFilter(f)' = 2 * (Steps - (sleeps[f] + 1)) + 3
      BY <2>1, <2>4 DEF StepsOfFilter
    <3> QED BY <1>1, <2>1, <2>2, <2>4, <3>1
  <2> QED BY <2>1, <2>3, <2>4
<1> QED BY <1>2, <1>3, <1>4 DEF FilterRuns

\* A main that has started gets nearer to its end with every step of its own,
\* and no other process sets it back.
THEOREM StartupComesToEnd == Spec => StartupShrinks
<1> DEFINE ProxyNears(p) == \/ UNCHANGED <<proxy[p], try[p]>>
                            \/ proxy'[p] = "dead"
                            \/ StepsOfProxy(p)' \in 0..StepsOfProxy(p) - 1
           FilterNears(f) == \/ UNCHANGED <<filter[f], sleeps[f]>>
                             \/ filter'[f] = "dead"
                             \/ StepsOfFilter(f)' \in 0..StepsOfFilter(f) - 1
<1>1. ASSUME IInv, Next
      PROVE  /\ \A p \in Proxy : proxy[p] # "off" => ProxyNears(p)
             /\ \A f \in Filter : filter[f] # "off" => FilterNears(f)
  <2>1. CASE \E p \in Proxy : ProxyRuns(p)
    <3> PICK p \in Proxy : ProxyRuns(p)
      BY <2>1
    <3>1. UNCHANGED <<filter, sleeps>>
      BY DEF ProxyRuns, TryEvent, TryForward, StartFails, WriteSize, WriteInfo, filterVars
    <3>2. \A q \in Proxy : ProxyNears(q)
      BY <1>1, ProxyShrinks
    <3> QED BY <3>1, <3>2
  <2>2. CASE \E f \in Filter : FilterRuns(f)
    <3> PICK f \in Filter : FilterRuns(f)
      BY <2>2
    <3>1. UNCHANGED <<proxy, try>>
      BY DEF FilterRuns, ReadSize, ReadInfo, AfterSleep, proxyVars
    <3>2. \A g \in Filter : FilterNears(g)
      BY <1>1, FilterShrinks
    <3> QED BY <3>1, <3>2
  <2>3. CASE \E p \in Proxy : ProxyStarts(p) \/ ProxyDies(p)
    <3> PICK p \in Proxy : ProxyStarts(p) \/ ProxyDies(p)
      BY <2>3
    <3>1. UNCHANGED <<filter, sleeps>>
      BY DEF ProxyStarts, ProxyDies, filterVars
    <3>2. ASSUME NEW q \in Proxy, proxy[q] # "off" PROVE ProxyNears(q)
      BY <1>1, <3>2 DEF ProxyStarts, ProxyDies, IInv, TypeOK
    <3> QED BY <3>1, <3>2
  <2>4. CASE \E f \in Filter : FilterStarts(f) \/ FilterDies(f)
    <3> PICK f \in Filter : FilterStarts(f) \/ FilterDies(f)
      BY <2>4
    <3>1. UNCHANGED <<proxy, try>>
      BY DEF FilterStarts, FilterDies, proxyVars
    <3>2. ASSUME NEW g \in Filter, filter[g] # "off" PROVE FilterNears(g)
      BY <1>1, <3>2 DEF FilterStarts, FilterDies, IInv, TypeOK
    <3> QED BY <3>1, <3>2
  <2>5. CASE \E e \in Port : OtherBinds(e) \/ OtherCloses(e)
    BY <2>5 DEF OtherBinds, OtherCloses, filterVars
  <2> QED BY <1>1, <2>1, <2>2, <2>3, <2>4, <2>5 DEF Next
<1>2. IInv /\ [Next]_vars =>
        [/\ \A p \in Proxy : proxy[p] # "off" => ProxyNears(p)
         /\ \A f \in Filter : filter[f] # "off" => FilterNears(f)]_vars
  BY <1>1
<1> QED BY <1>2, Always, PTL DEF Spec, StartupShrinks
=============================================================================
