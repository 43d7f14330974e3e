--------------------------- MODULE UdpRelayProofs ---------------------------
(***************************************************************************)
(* Proofs about UdpRelay, for any sockets, addresses, numbers of datagrams *)
(* and flows, and any period and limit of the idle timer.                  *)
(*                                                                         *)
(* The argument has three layers: the flow table, the processors and their *)
(* timers (Flows); where requests and answers come from (Belongs); and, if *)
(* the system copies what is sent, what is transmitted on a flow (Right).  *)
(***************************************************************************)
EXTENDS UdpRelay, TLAPS

-----------------------------------------------------------------------------
(* First layer.                                                            *)

\* The filter knows only sockets that have an address.
InfoHasAddr == \A s \in info : addr[s] \in Addr

\* What is idle now and what the timer still needs stay below the bound
\* together: a check that does not close the flow leaves idle below the limit.
Timed == \A p \in Proc : Live(p) => proc[p].idle + proc[p].timer < IdleTicks + CheckTicks

Flows == TypeOK /\ InfoHasAddr /\ FlowOwnsEntry /\ Timed

\* A processor number is not the one that stands for none.
LEMMA ProcIsSome == NoProc \notin Proc
  BY BoundAssumption DEF Proc, NoProc

\* A live processor is a record, and its parts have the types of its fields.
LEMMA LiveIs ==
  ASSUME TypeOK, NEW p \in Proc, Live(p)
  PROVE  /\ proc[p] \in Processor
         /\ proc[p].flow \in Flow /\ proc[p].nfid \in Sock
         /\ proc[p].idle \in Nat /\ proc[p].timer \in Nat
         /\ proc[p].hears \in BOOLEAN
<1>1. proc[p] \in Processor
  BY DEF TypeOK, Live
<1> QED BY <1>1, BoundAssumption DEF Processor

\* The flow of a request is a flow.
LEMMA FlowOfIs == \A r \in Request : FlowOf(r) \in Flow
  BY DEF FlowOf, Flow, Request

\* The initial state satisfies the first layer.
LEMMA FlowsInit == Init => Flows
<1> SUFFICES ASSUME Init PROVE Flows
  OBVIOUS
<1>1. TypeOK
  BY BoundAssumption DEF Init, TypeOK, NoProc
<1>2. InfoHasAddr /\ FlowOwnsEntry /\ Timed
  BY DEF Init, InfoHasAddr, FlowOwnsEntry, Timed, Live
<1> QED BY <1>1, <1>2 DEF Flows

\* The steps of applications and filter, and those that only move messages or
\* transmit, leave the flows alone.
LEMMA FlowsQuiet ==
  ASSUME Flows,
         \/ Filter
         \/ \E p \in Proc, r \in Request : SendCompletes(p, r)
         \/ \E p \in Proc : OnRecvRemote(p)
         \/ \E r \in reqs : LoseRequest(r)
         \/ \E r \in resps : LoseAnswer(r)
         \/ ProxyRestart
  PROVE  Flows'
<1> USE DEF Flows, vars, app, messages, proxy
<1>1. /\ table' = table /\ proc' = proc
  BY DEF Filter, UdpCreated, AppSends, UdpClosed, UdpSend, OnUdpRecvReplay, SendCompletes,
         OnRecvRemote, LoseRequest, LoseAnswer, ProxyRestart
<1>2. FlowOwnsEntry' /\ Timed'
  BY <1>1 DEF FlowOwnsEntry, Timed, Live
<1>3. TypeOK' /\ InfoHasAddr'
  <2>1. CASE \E s \in Sock, a \in Addr : UdpCreated(s, a)
    BY <2>1 DEF UdpCreated, TypeOK, InfoHasAddr
  <2>2. CASE \E s \in Sock, d \in Dst : AppSends(s, d)
    BY <2>2, BoundAssumption DEF AppSends, TypeOK, InfoHasAddr
  <2>3. CASE \E s \in Sock : UdpClosed(s)
    BY <2>3 DEF UdpClosed, TypeOK, InfoHasAddr
  <2>4. CASE \E q \in queued, active \in BOOLEAN : UdpSend(q, active)
    <3> PICK q \in queued, active \in BOOLEAN : UdpSend(q, active)
      BY <2>4
    <3> DEFINE r == [nfid |-> q.nfid, src |-> addr[q.nfid], dst |-> q.dst]
               posted == active /\ q.dst \notin Dns /\ q.nfid \in info
    <3>1. posted => r \in Request
      BY DEF TypeOK, InfoHasAddr, Request
    <3>2. /\ asked' = IF posted THEN asked \union {r} ELSE asked
          /\ reqs' = IF posted /\ up THEN reqs \union {r} ELSE reqs
          /\ queued' = queued \ {q}
      BY DEF UdpSend
    <3>3. UNCHANGED <<sock, addr, sends, info, resps, table, proc, pending, up, reached>>
      BY DEF UdpSend
    <3> HIDE DEF r, posted
    <3> QED BY <3>1, <3>2, <3>3 DEF TypeOK, InfoHasAddr
  <2>5. CASE \E r \in resps : OnUdpRecvReplay(r)
    BY <2>5 DEF OnUdpRecvReplay, TypeOK, InfoHasAddr
  <2>6. CASE \E p \in Proc, r \in Request : SendCompletes(p, r)
    <3> PICK p \in Proc, r \in Request : SendCompletes(p, r)
      BY <2>6
    <3>1. proc[p].flow \in Flow
      BY LiveIs DEF SendCompletes
    <3> QED BY <3>1 DEF SendCompletes, TypeOK, InfoHasAddr
  <2>7. CASE \E p \in Proc : OnRecvRemote(p)
    <3> PICK p \in Proc : OnRecvRemote(p)
      BY <2>7
    <3>1. [nfid |-> proc[p].nfid, src |-> proc[p].flow.src, dst |-> proc[p].flow.dst] \in Request
      BY LiveIs DEF OnRecvRemote, Request, Flow
    <3> QED BY <3>1 DEF OnRecvRemote, TypeOK, InfoHasAddr
  <2>8. CASE \E r \in reqs : LoseRequest(r)
    BY <2>8 DEF LoseRequest, TypeOK, InfoHasAddr
  <2>9. CASE \E r \in resps : LoseAnswer(r)
    BY <2>9 DEF LoseAnswer, TypeOK, InfoHasAddr
  <2>10. CASE ProxyRestart
    BY <2>10 DEF ProxyRestart, TypeOK, InfoHasAddr
  <2> QED BY <2>1, <2>2, <2>3, <2>4, <2>5, <2>6, <2>7, <2>8, <2>9, <2>10 DEF Filter
<1> QED BY <1>2, <1>3

\* A request of a known flow is handled by the processor of that flow.
LEMMA FlowsKnown ==
  ASSUME Flows, NEW r \in reqs, OnUdpSend(r), table[FlowOf(r)] # NoProc
  PROVE  Flows'
<1> DEFINE p == table[FlowOf(r)]
<1> USE DEF Flows
<1>1. /\ r \in Request /\ FlowOf(r) \in Flow
  BY FlowOfIs DEF TypeOK
<1>2. p \in Proc /\ Live(p)
  BY <1>1 DEF TypeOK, FlowOwnsEntry
<1>3. /\ proc' = [proc EXCEPT ![p].idle = 0] /\ table' = table
      /\ reqs' = reqs \ {r}
      /\ pending' = [Overwritten(r) EXCEPT ![p] = @ \union {r}]
      /\ UNCHANGED <<app, info, asked, resps, up, reached>>
  BY DEF OnUdpSend, Handled
<1>4. proc[p] \in Processor
  BY <1>2, LiveIs
<1>5. proc'[p] \in Processor /\ proc'[p] = [proc[p] EXCEPT !.idle = 0]
  BY <1>2, <1>3, <1>4, BoundAssumption DEF TypeOK, Processor
<1>6. /\ proc'[p].flow = proc[p].flow /\ proc'[p].idle = 0
      /\ proc'[p].timer = proc[p].timer
      /\ proc' \in [Proc -> Processor \union {NoProcessor}]
      /\ \A q \in Proc : q # p => proc'[q] = proc[q]
  BY <1>2, <1>3, <1>4, <1>5 DEF TypeOK, Processor
<1>7. proc'[p] # NoProcessor
  BY <1>5, SentinelAssumption
<1>8. FlowOwnsEntry'
  BY <1>2, <1>3, <1>6, <1>7 DEF FlowOwnsEntry, Live, TypeOK
<1>9. Timed'
  <2> SUFFICES ASSUME NEW q \in Proc, Live(q)'
               PROVE  proc'[q].idle + proc'[q].timer < IdleTicks + CheckTicks
    BY DEF Timed
  <2>1. CASE q = p
    BY <2>1, <1>2, <1>4, <1>6, LiveIs, BoundAssumption DEF Timed
  <2>2. CASE q # p
    BY <2>2, <1>6 DEF Timed, Live
  <2> QED BY <2>1, <2>2
<1>10. Overwritten(r) \in [Proc -> SUBSET Request]
  BY <1>1 DEF Overwritten, TypeOK
<1>11. pending' \in [Proc -> SUBSET Request]
  BY <1>1, <1>2, <1>3, <1>10
<1>12. TypeOK' /\ InfoHasAddr'
  BY <1>3, <1>6, <1>11 DEF TypeOK, InfoHasAddr, app
<1> QED BY <1>8, <1>9, <1>12

\* A request of an unknown flow gets a processor that was free, and its flow an
\* entry that was empty.
LEMMA FlowsNew ==
  ASSUME Flows, NEW r \in reqs, OnUdpSend(r), table[FlowOf(r)] = NoProc
  PROVE  Flows'
<1> DEFINE p == CHOOSE q \in FreeProcs : TRUE
           f == FlowOf(r)
<1> USE DEF Flows
<1>1. /\ r \in Request /\ f \in Flow /\ r.nfid \in Sock
  BY FlowOfIs DEF TypeOK, Request
<1>2. /\ FreeProcs # {}
      /\ proc' = [proc EXCEPT ![p] = Fresh(f, r)] /\ table' = [table EXCEPT ![f] = p]
      /\ reqs' = reqs \ {r}
      /\ pending' = [Overwritten(r) EXCEPT ![p] = @ \union {r}]
      /\ UNCHANGED <<app, info, asked, resps, up, reached>>
  BY DEF OnUdpSend, Handled
<1>3. p \in Proc /\ ~Live(p)
  BY <1>2 DEF FreeProcs
<1> HIDE DEF p, f
<1>4. Fresh(f, r) \in Processor
  BY <1>1, BoundAssumption DEF Fresh, Processor
<1>5. /\ proc'[p] = Fresh(f, r) /\ proc'[p] # NoProcessor
      /\ proc' \in [Proc -> Processor \union {NoProcessor}]
      /\ \A q \in Proc : q # p => proc'[q] = proc[q]
  BY <1>2, <1>3, <1>4, SentinelAssumption DEF TypeOK
<1>6. /\ proc'[p].flow = f /\ proc'[p].idle = 0 /\ proc'[p].timer = CheckTicks
  BY <1>5 DEF Fresh
<1>7. FlowOwnsEntry'
  <2>1. ASSUME NEW g \in Flow, table'[g] # NoProc
        PROVE  Live(table[g])' /\ proc'[table'[g]].flow = g
    BY <2>1, <1>1, <1>2, <1>3, <1>5, <1>6 DEF FlowOwnsEntry, TypeOK, Live
  <2>2. ASSUME NEW q \in Proc, Live(q)'
        PROVE  table'[proc'[q].flow] = q
    <3>1. CASE q = p
      BY <3>1, <1>1, <1>2, <1>6 DEF TypeOK
    <3>2. CASE q # p
      <4>1. Live(q) /\ proc'[q] = proc[q]
        BY <3>2, <2>2, <1>5 DEF Live
      <4>2. proc[q].flow \in Flow /\ table[proc[q].flow] = q
        BY <4>1, LiveIs DEF FlowOwnsEntry
      <4>3. proc[q].flow # f
        BY <4>2, ProcIsSome DEF f
      <4> QED BY <4>1, <4>2, <4>3, <1>2 DEF TypeOK
    <3> QED BY <3>1, <3>2
  <2> QED BY <2>1, <2>2 DEF FlowOwnsEntry
<1>8. Timed'
  BY <1>3, <1>5, <1>6, BoundAssumption DEF Timed, Live
<1>9. Overwritten(r) \in [Proc -> SUBSET Request]
  BY <1>1 DEF Overwritten, TypeOK
<1>10. pending' \in [Proc -> SUBSET Request]
  BY <1>1, <1>2, <1>3, <1>9
<1>11. table' \in [Flow -> Proc \union {NoProc}]
  BY <1>1, <1>2, <1>3 DEF TypeOK
<1>12. TypeOK' /\ InfoHasAddr'
  BY <1>2, <1>5, <1>10, <1>11 DEF TypeOK, InfoHasAddr, app
<1> QED BY <1>7, <1>8, <1>12

\* A failing receive changes nothing the first layer speaks of.
LEMMA FlowsRecvFails ==
  ASSUME Flows, NEW p \in Proc, RecvFails(p)
  PROVE  Flows'
<1> USE DEF Flows
<1>1. /\ proc' = [proc EXCEPT ![p].hears = FALSE] /\ Live(p)
      /\ UNCHANGED <<app, info, messages, table, pending, up, reached>>
  BY DEF RecvFails
<1>2. proc[p] \in Processor
  BY <1>1, LiveIs
<1>3. /\ proc'[p] = [proc[p] EXCEPT !.hears = FALSE] /\ proc'[p] \in Processor
  BY <1>1, <1>2 DEF TypeOK, Processor
<1>4. /\ proc'[p].flow = proc[p].flow /\ proc'[p].idle = proc[p].idle
      /\ proc'[p].timer = proc[p].timer /\ proc'[p] # NoProcessor
      /\ proc' \in [Proc -> Processor \union {NoProcessor}]
      /\ \A q \in Proc : q # p => proc'[q] = proc[q]
  BY <1>1, <1>2, <1>3, SentinelAssumption DEF TypeOK, Processor
<1>5. FlowOwnsEntry' /\ Timed'
  BY <1>1, <1>4 DEF FlowOwnsEntry, Timed, Live, TypeOK
<1>6. TypeOK' /\ InfoHasAddr'
  BY <1>1, <1>4 DEF TypeOK, InfoHasAddr, app, messages
<1> QED BY <1>5, <1>6

\* A timer closes its flow, processor and entry together, or starts again when
\* the idle time is still below the limit.
LEMMA FlowsTimer ==
  ASSUME Flows, NEW p \in Proc, TimerFires(p)
  PROVE  Flows'
<1> USE DEF Flows
<1>1. /\ Live(p) /\ proc[p].timer = 0
      /\ UNCHANGED <<app, info, messages, up, reached>>
  BY DEF TimerFires, Fires
<1>2. /\ proc[p] \in Processor /\ proc[p].flow \in Flow /\ proc[p].idle \in Nat
  BY <1>1, LiveIs
<1>3. CASE proc[p].idle >= IdleTicks
  <2>1. /\ proc' = [proc EXCEPT ![p] = NoProcessor]
        /\ pending' = [pending EXCEPT ![p] = {}]
        /\ table' = [table EXCEPT ![proc[p].flow] = NoProc]
    BY <1>3 DEF TimerFires, Fires
  <2>2. /\ proc' \in [Proc -> Processor \union {NoProcessor}]
        /\ table' \in [Flow -> Proc \union {NoProc}]
        /\ pending' \in [Proc -> SUBSET Request]
        /\ proc'[p] = NoProcessor
        /\ \A q \in Proc : q # p => proc'[q] = proc[q]
    BY <2>1 DEF TypeOK
  <2>3. FlowOwnsEntry'
    <3>1. ASSUME NEW g \in Flow, table'[g] # NoProc
          PROVE  Live(table[g])' /\ proc'[table'[g]].flow = g
      <4>1. g # proc[p].flow /\ table'[g] = table[g]
        BY <3>1, <2>1, <1>2 DEF TypeOK
      <4>2. table[g] \in Proc /\ Live(table[g]) /\ proc[table[g]].flow = g
        BY <4>1, <3>1 DEF TypeOK, FlowOwnsEntry
      <4>3. table[g] # p
        BY <4>1, <4>2
      <4> QED BY <4>1, <4>2, <4>3, <2>2 DEF Live
    <3>2. ASSUME NEW q \in Proc, Live(q)'
          PROVE  table'[proc'[q].flow] = q
      <4>1. q # p /\ proc'[q] = proc[q] /\ Live(q)
        BY <3>2, <2>2 DEF Live
      <4>2. proc[q].flow \in Flow /\ table[proc[q].flow] = q /\ table[proc[p].flow] = p
        BY <4>1, <1>1, LiveIs DEF FlowOwnsEntry
      <4> QED BY <4>1, <4>2, <2>1 DEF TypeOK
    <3> QED BY <3>1, <3>2 DEF FlowOwnsEntry
  <2>4. Timed'
    BY <2>2 DEF Timed, Live
  <2> QED BY <1>1, <2>2, <2>3, <2>4 DEF TypeOK, InfoHasAddr, app, messages
<1>4. CASE ~(proc[p].idle >= IdleTicks)
  <2>1. /\ proc' = [proc EXCEPT ![p].timer = CheckTicks]
        /\ UNCHANGED <<pending, table>>
    BY <1>4 DEF TimerFires, Fires
  <2>2. /\ proc'[p] = [proc[p] EXCEPT !.timer = CheckTicks] /\ proc'[p] \in Processor
    BY <2>1, <1>2, BoundAssumption DEF TypeOK, Processor
  <2>3. /\ proc'[p].flow = proc[p].flow /\ proc'[p].idle = proc[p].idle
        /\ proc'[p].timer = CheckTicks /\ proc'[p] # NoProcessor
        /\ proc' \in [Proc -> Processor \union {NoProcessor}]
        /\ \A q \in Proc : q # p => proc'[q] = proc[q]
    BY <2>1, <2>2, <1>2, SentinelAssumption DEF TypeOK, Processor
  <2>4. FlowOwnsEntry'
    BY <1>1, <2>1, <2>3 DEF FlowOwnsEntry, Live, TypeOK
  <2>5. Timed'
    <3> SUFFICES ASSUME NEW q \in Proc, Live(q)'
                 PROVE  proc'[q].idle + proc'[q].timer < IdleTicks + CheckTicks
      BY DEF Timed
    <3>1. CASE q = p
      BY <3>1, <2>3, <1>2, <1>4, BoundAssumption
    <3>2. CASE q # p
      BY <3>2, <2>3 DEF Timed, Live
    <3> QED BY <3>1, <3>2
  <2> QED BY <1>1, <2>1, <2>3, <2>4, <2>5 DEF TypeOK, InfoHasAddr, app, messages
<1> QED BY <1>3, <1>4

\* Time moves what is idle and what the timer needs against each other.
LEMMA FlowsTick == Flows /\ Tick => Flows'
<1> SUFFICES ASSUME Flows, Tick PROVE Flows'
  OBVIOUS
<1> USE DEF Flows
<1>1. /\ \A p \in Proc : Live(p) => proc[p].timer > 0
      /\ proc' = [p \in Proc |-> IF Live(p)
                              THEN [proc[p] EXCEPT !.idle = @ + 1, !.timer = @ - 1]
                              ELSE NoProcessor]
      /\ UNCHANGED <<app, info, messages, table, pending, up, reached>>
  BY DEF Tick
<1>2. ASSUME NEW p \in Proc, Live(p)
      PROVE  /\ proc'[p] \in Processor /\ Live(p)'
             /\ proc'[p].flow = proc[p].flow
             /\ proc'[p].idle + proc'[p].timer = proc[p].idle + proc[p].timer
  <2>1. /\ proc[p] \in Processor /\ proc[p].idle \in Nat /\ proc[p].timer \in Nat
        /\ proc[p].timer > 0 /\ proc[p].idle + proc[p].timer < IdleTicks + CheckTicks
    BY <1>1, <1>2, LiveIs DEF Timed
  <2>2. proc'[p] = [proc[p] EXCEPT !.idle = @ + 1, !.timer = @ - 1]
    BY <1>1, <1>2
  <2>3. /\ proc'[p].flow = proc[p].flow /\ proc'[p].nfid = proc[p].nfid
        /\ proc'[p].hears = proc[p].hears
        /\ proc'[p].idle = proc[p].idle + 1 /\ proc'[p].timer = proc[p].timer - 1
    BY <2>1, <2>2 DEF Processor
  <2>4. proc[p].idle + 1 \in 0..IdleTicks + CheckTicks /\ proc[p].timer - 1 \in 0..CheckTicks
    BY <2>1, BoundAssumption DEF Processor
  <2>5. proc'[p] \in Processor
    BY <2>1, <2>2, <2>4 DEF Processor
  <2>6. Live(p)'
    BY <2>5, SentinelAssumption DEF Live
  <2> QED BY <2>1, <2>3, <2>5, <2>6
<1>3. ASSUME NEW p \in Proc, ~Live(p)
      PROVE  proc'[p] = NoProcessor /\ ~Live(p)'
  BY <1>1, <1>3 DEF Live
<1>4. proc' \in [Proc -> Processor \union {NoProcessor}]
  BY <1>1, <1>2, <1>3
<1>5. FlowOwnsEntry'
  <2>1. ASSUME NEW g \in Flow, table'[g] # NoProc
        PROVE  Live(table[g])' /\ proc'[table'[g]].flow = g
    <3>1. table' = table
      BY <1>1
    <3>2. table[g] \in Proc /\ Live(table[g]) /\ proc[table[g]].flow = g
      BY <3>1, <2>1 DEF TypeOK, FlowOwnsEntry
    <3>3. \A q \in Proc : Live(q) => proc'[q] # NoProcessor /\ proc'[q].flow = proc[q].flow
      BY <1>2 DEF Live
    <3> QED BY <3>1, <3>2, <3>3 DEF Live
  <2>2. ASSUME NEW q \in Proc, Live(q)'
        PROVE  table'[proc'[q].flow] = q
    BY <2>2, <1>1, <1>2, <1>3 DEF FlowOwnsEntry
  <2> QED BY <2>1, <2>2 DEF FlowOwnsEntry
<1>6. Timed'
  BY <1>2, <1>3 DEF Timed
<1> QED BY <1>1, <1>4, <1>5, <1>6 DEF TypeOK, InfoHasAddr, app, messages

\* A proxy that dies leaves no flow.
LEMMA FlowsDies == Flows /\ Dies => Flows'
<1> SUFFICES ASSUME Flows, Dies PROVE Flows'
  OBVIOUS
<1> USE DEF Flows, Dies, Empty
<1>1. TypeOK' /\ InfoHasAddr'
  BY DEF TypeOK, InfoHasAddr, app
<1>2. FlowOwnsEntry' /\ Timed'
  BY DEF FlowOwnsEntry, Timed, Live
<1> QED BY <1>1, <1>2

\* The first layer is inductive.
LEMMA FlowsStep == Flows /\ [Next]_vars => Flows'
<1> SUFFICES ASSUME Flows, [Next]_vars PROVE Flows'
  OBVIOUS
<1>1. CASE \E r \in reqs : OnUdpSend(r)
  BY <1>1, FlowsKnown, FlowsNew
<1>2. CASE \E p \in Proc : RecvFails(p)
  BY <1>2, FlowsRecvFails
<1>3. CASE \E p \in Proc : TimerFires(p)
  BY <1>3, FlowsTimer
<1>4. CASE Tick
  BY <1>4, FlowsTick
<1>5. CASE ProxyCrash \/ \E r \in reqs : ConnectThrows(r)
  BY <1>5, FlowsDies DEF ProxyCrash, ConnectThrows
<1>6. CASE UNCHANGED vars
  BY <1>6 DEF Flows, TypeOK, InfoHasAddr, FlowOwnsEntry, Timed, Live, vars, app, messages,
             proxy
<1> QED BY <1>1, <1>2, <1>3, <1>4, <1>5, <1>6, FlowsQuiet DEF Next, Proxy, Fault

\* Every reachable state satisfies the first layer.
THEOREM FlowsAlways == Spec => []Flows
  BY FlowsInit, FlowsStep, PTL DEF Spec

\* UdpRelay is type correct, with any number of flows and datagrams.
THEOREM UdpTypeCorrect == Spec => []TypeOK
<1>1. Flows => TypeOK
  BY DEF Flows
<1> QED BY <1>1, FlowsAlways, PTL

\* The flow table and the processors always belong to each other, so that no
\* timer takes away the entry of another flow's processor.
THEOREM EntriesOwned == Spec => []FlowOwnsEntry
<1>1. Flows => FlowOwnsEntry
  BY DEF Flows
<1> QED BY <1>1, FlowsAlways, PTL

\* No flow is idle for the limit and a period of the timer together.
THEOREM IdleIsBounded == Spec => []IdleBounded
<1>1. Flows => IdleBounded
  <2> SUFFICES ASSUME Flows, NEW p \in Proc, Live(p)
               PROVE  proc[p].idle < IdleTicks + CheckTicks
    BY DEF IdleBounded
  <2> QED BY LiveIs, BoundAssumption DEF Flows, Timed
<1> QED BY <1>1, FlowsAlways, PTL

-----------------------------------------------------------------------------
(* Second layer.                                                           *)

\* What the answers of processor p claim to answer.
AnswerOf(p) == [nfid |-> proc[p].nfid, src |-> proc[p].flow.src, dst |-> proc[p].flow.dst]

\* Requests, answers and flows stem from datagrams the filter posted.
Belongs ==
  /\ reqs \subseteq asked /\ resps \subseteq asked
  /\ \A p \in Proc : Live(p) => AnswerOf(p) \in asked

\* No step forgets what was posted.
LEMMA AskedGrows == [Next]_vars => asked \subseteq asked'
  BY DEF Next, Filter, Proxy, Fault, vars, app, messages, proxy, UdpCreated, AppSends,
         UdpClosed, UdpSend, OnUdpRecvReplay, OnUdpSend, Handled, ConnectThrows,
         SendCompletes, OnRecvRemote, RecvFails, TimerFires, Fires, Tick, LoseRequest,
         LoseAnswer, ProxyCrash, ProxyRestart, Dies

\* A processor that lives after a step lived before it, with the same flow and
\* socket id, or was made by a request.
LEMMA ProcessorsStay ==
  ASSUME Flows, [Next]_vars, NEW p \in Proc, Live(p)'
  PROVE  \/ Live(p) /\ proc'[p].flow = proc[p].flow /\ proc'[p].nfid = proc[p].nfid
         \/ \E r \in reqs : OnUdpSend(r) /\ ~Live(p) /\ proc'[p] = Fresh(FlowOf(r), r)
<1> DEFINE Stays == Live(p) /\ proc'[p].flow = proc[p].flow /\ proc'[p].nfid = proc[p].nfid
           Made(r) == OnUdpSend(r) /\ ~Live(p) /\ proc'[p] = Fresh(FlowOf(r), r)
<1>1. Live(p) => proc[p] \in Processor
  BY LiveIs DEF Flows
<1>2. proc \in [Proc -> Processor \union {NoProcessor}]
  BY DEF Flows, TypeOK
<1>3. CASE proc' = proc
  BY <1>3 DEF Live
<1>4. ASSUME NEW r \in reqs, OnUdpSend(r)
      PROVE  Stays \/ Made(r)
  <2> DEFINE q == IF table[FlowOf(r)] # NoProc THEN table[FlowOf(r)]
                  ELSE CHOOSE i \in FreeProcs : TRUE
  <2>1. CASE table[FlowOf(r)] # NoProc
    <3>1. proc' = [proc EXCEPT ![q].idle = 0]
      BY <1>4, <2>1 DEF OnUdpSend, Handled
    <3>2. Live(p)
      <4>1. FlowOf(r) \in Flow
        BY FlowOfIs, <1>4 DEF Flows, TypeOK
      <4>2. q \in Proc /\ Live(q)
        BY <2>1, <4>1 DEF Flows, FlowOwnsEntry, TypeOK
      <4>3. p # q => proc'[p] = proc[p]
        BY <3>1, <1>2
      <4> QED BY <4>2, <4>3 DEF Live
    <3>3. CASE p = q
      <4>1. proc'[p] = [proc[p] EXCEPT !.idle = 0]
        BY <3>1, <3>3, <1>2
      <4> QED BY <4>1, <3>2, <1>1 DEF Processor
    <3>4. CASE p # q
      <4>1. proc'[p] = proc[p]
        BY <3>1, <3>4, <1>2
      <4> QED BY <4>1, <3>2
    <3> QED BY <3>3, <3>4
  <2>2. CASE ~(table[FlowOf(r)] # NoProc)
    <3>1. FreeProcs # {} /\ proc' = [proc EXCEPT ![q] = Fresh(FlowOf(r), r)]
      BY <1>4, <2>2 DEF OnUdpSend, Handled
    <3>2. q \in Proc /\ ~Live(q)
      BY <3>1, <2>2 DEF FreeProcs
    <3> HIDE DEF q
    <3>3. CASE p = q
      BY <3>1, <3>2, <3>3, <1>2, <1>4
    <3>4. CASE p # q
      <4>1. proc'[p] = proc[p]
        BY <3>1, <3>4, <1>2
      <4> QED BY <4>1 DEF Live
    <3> QED BY <3>3, <3>4
  <2> QED BY <2>1, <2>2
<1>5. ASSUME NEW q \in Proc, RecvFails(q)
      PROVE  Stays
  <2>1. Live(q) /\ proc' = [proc EXCEPT ![q].hears = FALSE]
    BY <1>5 DEF RecvFails
  <2>2. CASE p = q
    <3>1. proc'[p] = [proc[p] EXCEPT !.hears = FALSE]
      BY <2>1, <2>2, <1>2
    <3> QED BY <3>1, <2>1, <2>2, <1>1 DEF Processor
  <2>3. CASE p # q
    <3>1. proc'[p] = proc[p]
      BY <2>1, <2>3, <1>2
    <3> QED BY <3>1 DEF Live
  <2> QED BY <2>2, <2>3
<1>6. ASSUME NEW q \in Proc, TimerFires(q)
      PROVE  Stays
  <2>1. /\ Live(q)
        /\ \/ proc' = [proc EXCEPT ![q] = NoProcessor]
           \/ proc' = [proc EXCEPT ![q].timer = CheckTicks]
    BY <1>6 DEF TimerFires, Fires
  <2>2. CASE p = q
    <3>1. proc'[p] = [proc[p] EXCEPT !.timer = CheckTicks]
      BY <2>1, <2>2, <1>2 DEF Live
    <3> QED BY <3>1, <2>1, <2>2, <1>1 DEF Processor
  <2>3. CASE p # q
    <3>1. proc'[p] = proc[p]
      BY <2>1, <2>3, <1>2
    <3> QED BY <3>1 DEF Live
  <2> QED BY <2>2, <2>3
<1>7. CASE Tick
  <2>1. proc'[p] = IF Live(p) THEN [proc[p] EXCEPT !.idle = @ + 1, !.timer = @ - 1]
                   ELSE NoProcessor
    BY <1>7 DEF Tick
  <2>2. Live(p)
    BY <2>1 DEF Live
  <2> QED BY <2>1, <2>2, <1>1 DEF Processor
<1>8. CASE Dies
  BY <1>8 DEF Dies, Empty, Live
<1> HIDE DEF Stays
<1>9. \/ proc' = proc \/ Tick \/ Dies
      \/ \E r \in reqs : OnUdpSend(r)
      \/ \E q \in Proc : RecvFails(q)
      \/ \E q \in Proc : TimerFires(q)
  BY DEF Next, Filter, Proxy, Fault, vars, app, messages, proxy, UdpCreated, AppSends,
         UdpClosed, UdpSend, OnUdpRecvReplay, ConnectThrows, SendCompletes, OnRecvRemote,
         LoseRequest, LoseAnswer, ProxyCrash, ProxyRestart
<1>10. Stays \/ \E r \in reqs : Made(r)
  BY <1>3, <1>4, <1>5, <1>6, <1>7, <1>8, <1>9 DEF Stays
<1> QED BY <1>10 DEF Stays

\* The second layer is inductive, given the first.
LEMMA BelongsStep == Flows /\ Belongs /\ [Next]_vars => Belongs'
<1> SUFFICES ASSUME Flows, Belongs, [Next]_vars PROVE Belongs'
  OBVIOUS
<1>1. asked \subseteq asked'
  BY AskedGrows
<1>2. reqs' \subseteq asked'
  <2>1. CASE \E q \in queued, active \in BOOLEAN : UdpSend(q, active)
    BY <2>1, <1>1 DEF UdpSend, Belongs
  <2>2. CASE reqs' \subseteq reqs
    BY <2>2, <1>1 DEF Belongs
  <2> QED
    BY <2>1, <2>2 DEF Next, Filter, Proxy, Fault, vars, app, messages, proxy, UdpCreated,
         AppSends, UdpClosed, OnUdpRecvReplay, OnUdpSend, Handled, ConnectThrows,
         SendCompletes, OnRecvRemote, RecvFails, TimerFires, Fires, Tick, LoseRequest,
         LoseAnswer, ProxyCrash, ProxyRestart, Dies
<1>3. resps' \subseteq asked'
  <2>1. CASE \E p \in Proc : OnRecvRemote(p)
    BY <2>1, <1>1 DEF OnRecvRemote, Belongs, AnswerOf
  <2>2. CASE resps' \subseteq resps
    BY <2>2, <1>1 DEF Belongs
  <2> QED
    BY <2>1, <2>2 DEF Next, Filter, Proxy, Fault, vars, app, messages, proxy, UdpCreated,
         AppSends, UdpClosed, UdpSend, OnUdpRecvReplay, OnUdpSend, Handled, ConnectThrows,
         SendCompletes, RecvFails, TimerFires, Fires, Tick, LoseRequest, LoseAnswer,
         ProxyCrash, ProxyRestart, Dies
<1>4. ASSUME NEW p \in Proc, Live(p)'
      PROVE  AnswerOf(p)' \in asked'
  <2>1. CASE Live(p) /\ proc'[p].flow = proc[p].flow /\ proc'[p].nfid = proc[p].nfid
    BY <2>1, <1>1 DEF Belongs, AnswerOf
  <2>2. CASE \E r \in reqs : OnUdpSend(r) /\ ~Live(p) /\ proc'[p] = Fresh(FlowOf(r), r)
    <3> PICK r \in reqs : proc'[p] = Fresh(FlowOf(r), r)
      BY <2>2
    <3>1. r \in Request /\ r \in asked
      BY DEF Flows, TypeOK, Belongs
    <3>2. AnswerOf(p)' = [nfid |-> r.nfid, src |-> r.src, dst |-> r.dst]
      BY DEF AnswerOf, Fresh, FlowOf
    <3>3. AnswerOf(p)' = r
      BY <3>1, <3>2 DEF Request
    <3> QED BY <3>1, <3>3, <1>1
  <2> QED BY <2>1, <2>2, <1>4, ProcessorsStay
<1> QED BY <1>2, <1>3, <1>4 DEF Belongs

\* Every reachable state satisfies the second layer.
THEOREM BelongsAlways == Spec => []Belongs
<1>1. Init => Belongs
  BY DEF Init, Belongs, Live
<1> QED BY <1>1, BelongsStep, FlowsAlways, PTL DEF Spec

\* Every answer on its way to the filter answers a datagram the filter posted,
\* from the socket, the address and the server of that datagram, whatever has
\* been lost, and however often the proxy and the address changed hands.
THEOREM AnswersBelong == Spec => []AnswerBelongs
<1>1. Belongs => AnswerBelongs
  BY DEF Belongs, AnswerBelongs
<1> QED BY <1>1, BelongsAlways, PTL

-----------------------------------------------------------------------------
(* Third layer.                                                            *)

\* m was posted by the filter and is to be sent on flow f.
Fits(m, f) == m \in asked /\ m.src = f.src /\ m.dst = f.dst

\* Every outstanding send is one of a live processor and fits its flow, and so
\* does what was transmitted.
Right == /\ \A p \in Proc : \A m \in pending[p] : Live(p) /\ Fits(m, proc[p].flow)
         /\ \A t \in reached : Fits(t.msg, t.flow)

\* With sends that are copied, the third layer is inductive, given the others.
LEMMA RightStep ==
  SendsCopied /\ Flows /\ Flows' /\ Belongs /\ Right /\ [Next]_vars => Right'
<1> SUFFICES ASSUME SendsCopied, Flows, Flows', Belongs, Right, [Next]_vars PROVE Right'
  OBVIOUS
<1>1. ASSUME NEW r \in reqs, OnUdpSend(r), NEW p \in Proc, NEW m \in pending'[p]
      PROVE  m \in pending[p] \/ (m = r /\ Live(p)' /\ proc'[p].flow = FlowOf(r))
  <2> DEFINE q == IF table[FlowOf(r)] # NoProc THEN table[FlowOf(r)]
                  ELSE CHOOSE i \in FreeProcs : TRUE
  <2>1. pending' = [pending EXCEPT ![q] = @ \union {r}]
    <3>1. pending' = [Overwritten(r) EXCEPT ![q] = @ \union {r}]
      BY <1>1 DEF OnUdpSend, Handled
    <3>2. Overwritten(r) = pending
      BY DEF Overwritten, Flows, TypeOK
    <3> QED BY <3>1, <3>2
  <2>2. p # q => m \in pending[p]
    BY <2>1, <1>1 DEF Flows, TypeOK
  <2>3. p = q => m \in pending[p] \union {r}
    BY <2>1, <1>1 DEF Flows, TypeOK
  <2>4. p = q => Live(p)' /\ proc'[p].flow = FlowOf(r)
    <3>1. FlowOf(r) \in Flow
      BY FlowOfIs, <1>1 DEF Flows, TypeOK
    <3>2. table'[FlowOf(r)] = q
      BY <1>1, <3>1 DEF OnUdpSend, Handled, Flows, TypeOK
    <3>3. table[FlowOf(r)] = NoProc => q \in FreeProcs
      BY <1>1 DEF OnUdpSend, Handled
    <3>4. q # NoProc
      BY <3>3, ProcIsSome DEF FreeProcs
    <3> QED BY <3>1, <3>2, <3>4 DEF Flows, FlowOwnsEntry
  <2> HIDE DEF q
  <2> QED BY <2>2, <2>3, <2>4
<1>2. ASSUME NEW p \in Proc, NEW m \in pending'[p]
      PROVE  \/ m \in pending[p]
             \/ m \in reqs /\ Live(p)' /\ proc'[p].flow = FlowOf(m)
  <2>1. CASE \E r \in reqs : OnUdpSend(r)
    BY <2>1, <1>1, <1>2
  <2>2. CASE pending' = pending
    BY <2>2, <1>2
  <2>3. CASE \E q \in Proc : pending' = [pending EXCEPT ![q] = {}]
    BY <2>3, <1>2 DEF Flows, TypeOK
  <2>4. CASE \E q \in Proc, r \in Request : SendCompletes(q, r)
    BY <2>4, <1>2 DEF SendCompletes, Flows, TypeOK
  <2>5. CASE Dies
    BY <2>5, <1>2 DEF Dies, Empty
  <2> QED
    BY <2>1, <2>2, <2>3, <2>4, <2>5 DEF Next, Filter, Proxy, Fault, vars, app, messages,
         proxy, UdpCreated, AppSends, UdpClosed, UdpSend, OnUdpRecvReplay, ConnectThrows,
         OnRecvRemote, RecvFails, TimerFires, Fires, Tick, LoseRequest, LoseAnswer,
         ProxyCrash, ProxyRestart
<1>3. ASSUME NEW p \in Proc, NEW m \in pending'[p], m \in pending[p]
      PROVE  Live(p)' /\ proc'[p].flow = proc[p].flow
  <2> DEFINE f == proc[p].flow
  <2>1. Live(p) /\ f \in Flow /\ table[f] = p
    BY <1>3, LiveIs DEF Right, Flows, FlowOwnsEntry
  <2>2. table'[f] = p
    <3>1. CASE table' = table
      BY <3>1, <2>1
    <3>2. CASE \E r \in reqs : OnUdpSend(r)
      BY <3>2, <2>1, ProcIsSome DEF OnUdpSend, Handled, Flows, TypeOK
    <3>3. ASSUME NEW q \in Proc, TimerFires(q)
          PROVE  table'[f] = p
      <4>1. CASE q = p
        BY <4>1, <3>3, <1>3, <2>1 DEF TimerFires, Fires, Flows, TypeOK
      <4>2. CASE q # p
        <5>1. Live(q) /\ proc[q].flow # f
          BY <4>2, <3>3, <2>1 DEF TimerFires, Fires, Flows, FlowOwnsEntry
        <5> QED BY <5>1, <3>3, <2>1 DEF TimerFires, Fires, Flows, TypeOK
      <4> QED BY <4>1, <4>2
    <3>4. ~Dies
      BY <1>3 DEF Dies, Empty
    <3> QED
      BY <3>1, <3>2, <3>3, <3>4 DEF Next, Filter, Proxy, Fault, vars, app, messages, proxy,
           UdpCreated, AppSends, UdpClosed, UdpSend, OnUdpRecvReplay, ConnectThrows,
           SendCompletes, OnRecvRemote, RecvFails, Tick, LoseRequest, LoseAnswer,
           ProxyCrash, ProxyRestart
  <2>3. f \in Flow /\ p # NoProc
    BY <2>1, ProcIsSome
  <2> HIDE DEF f
  <2>4. Live(p)' /\ proc'[p].flow = f
    BY <2>2, <2>3 DEF Flows, FlowOwnsEntry
  <2> QED BY <2>4 DEF f
<1>4. ASSUME NEW p \in Proc, NEW m \in pending'[p]
      PROVE  Live(p)' /\ Fits(m, proc[p].flow)'
  <2>1. CASE m \in pending[p]
    <3>1. Fits(m, proc[p].flow) /\ Live(p)' /\ proc'[p].flow = proc[p].flow
      BY <2>1, <1>3, <1>4 DEF Right
    <3> QED BY <3>1, AskedGrows DEF Fits
  <2>2. CASE m \in reqs /\ Live(p)' /\ proc'[p].flow = FlowOf(m)
    <3>1. m \in asked'
      BY <2>2, AskedGrows DEF Belongs
    <3> QED BY <2>2, <3>1 DEF Fits, FlowOf
  <2> QED BY <1>2, <1>4, <2>1, <2>2
<1>5. ASSUME NEW t \in reached'
      PROVE  Fits(t.msg, t.flow)'
  <2>1. t \in reached => Fits(t.msg, t.flow)
    BY DEF Right
  <2>2. CASE reached' = reached
    BY <2>1, <2>2, AskedGrows DEF Fits
  <2>3. ASSUME NEW p \in Proc, NEW r \in Request, SendCompletes(p, r)
        PROVE  Fits(t.msg, t.flow)
    <3>1. t \in reached \/ (r \in pending[p] /\ t = [flow |-> proc[p].flow, msg |-> r])
      BY <2>3 DEF SendCompletes
    <3>2. r \in pending[p] => Fits(r, proc[p].flow)
      BY DEF Right
    <3> QED BY <2>1, <3>1, <3>2
  <2>4. CASE \E p \in Proc, r \in Request : SendCompletes(p, r)
    BY <2>3, <2>4, AskedGrows DEF Fits
  <2> QED
    BY <2>2, <2>4 DEF Next, Filter, Proxy, Fault, vars, app, messages, proxy, UdpCreated,
         AppSends, UdpClosed, UdpSend, OnUdpRecvReplay, OnUdpSend, Handled, ConnectThrows,
         OnRecvRemote, RecvFails, TimerFires, Fires, Tick, LoseRequest, LoseAnswer,
         ProxyCrash, ProxyRestart, Dies
<1> QED BY <1>4, <1>5 DEF Right

\* If the system copies a datagram when its send is started, what is transmitted
\* on a flow was sent by an application from that flow's source to its
\* destination: a processor that times out while it sends, and the number of one
\* that is used again, mix no flows up.
THEOREM SendsFit == SendsCopied => (Spec => []DeliveredAsSent)
<1> SUFFICES ASSUME SendsCopied PROVE Spec => []DeliveredAsSent
  OBVIOUS
<1>1. Init => Right
  BY DEF Init, Right
<1>2. Flows /\ Flows' /\ Belongs /\ Right /\ [Next]_vars => Right'
  BY RightStep
<1>3. Right => DeliveredAsSent
  BY DEF Right, Fits, DeliveredAsSent
<1> QED BY <1>1, <1>2, <1>3, FlowsAlways, BelongsAlways, PTL DEF Spec

-----------------------------------------------------------------------------
(* The service.                                                            *)

\* The processor of an open flow is live and is that flow's.
LEMMA OpenIs ==
  ASSUME Flows, NEW f \in Flow, table[f] # NoProc
  PROVE  /\ table[f] \in Proc /\ Live(table[f]) /\ proc[table[f]].flow = f
         /\ proc[table[f]] \in Processor /\ proc[table[f]].nfid \in Sock
         /\ proc[table[f]].idle \in Nat
  BY LiveIs DEF Flows, TypeOK, FlowOwnsEntry

\* A step that keeps every flow's socket and idle time keeps both maps.
LEMMA SameToAll ==
  ASSUME \A f \in Flow : OwnerOf(f)' = OwnerOf(f) /\ IdleOf(f)' = IdleOf(f)
  PROVE  /\ [f \in Flow |-> OwnerOf(f)]' = [f \in Flow |-> OwnerOf(f)]
         /\ [f \in Flow |-> IdleOf(f)]' = [f \in Flow |-> IdleOf(f)]
  OBVIOUS

\* A handled request is a use of its flow.
LEMMA RequestUses ==
  ASSUME Flows, Flows', Belongs, NEW r \in reqs, OnUdpSend(r)
  PROVE  Service!Use(FlowOf(r))
<1> DEFINE f == FlowOf(r)
           p == IF table[f] # NoProc THEN table[f] ELSE CHOOSE q \in FreeProcs : TRUE
<1>1. r \in Request /\ r \in asked /\ f \in Flow /\ up
  BY FlowOfIs DEF Flows, TypeOK, Belongs, OnUdpSend, Handled
<1>2. UNCHANGED <<asked, reached, resps, up>>
  BY DEF OnUdpSend, Handled, app
<1>3. /\ f.src = r.src /\ f.dst = r.dst
  BY DEF FlowOf
<1>4. /\ table[f] # NoProc => /\ proc' = [proc EXCEPT ![p].idle = 0] /\ table' = table
      /\ table[f] = NoProc => /\ FreeProcs # {} /\ proc' = [proc EXCEPT ![p] = Fresh(f, r)]
                              /\ table' = [table EXCEPT ![f] = p]
  BY DEF OnUdpSend, Handled
<1>5. p \in Proc /\ p # NoProc
  <2>1. table[f] # NoProc => p \in Proc
    BY <1>1, OpenIs
  <2>2. table[f] = NoProc => p \in Proc
    BY <1>4 DEF FreeProcs
  <2> QED BY <2>1, <2>2, ProcIsSome
<1> DEFINE known == table[f] # NoProc
<1>6. known => p = table[f] /\ proc[p] \in Processor
  BY <1>1, OpenIs
<1>7. ~known => ~Live(p)
  BY <1>4 DEF FreeProcs
<1> HIDE DEF p, f
<1>8. proc \in [Proc -> Processor \union {NoProcessor}] /\ table \in [Flow -> Proc \union {NoProc}]
  BY DEF Flows, TypeOK
<1>9. /\ OwnerOf(f)' = IF OwnerOf(f) = {} THEN {r.nfid} ELSE OwnerOf(f)
      /\ IdleOf(f)' = 0
  <2>1. CASE known
    <3>1. table'[f] = p /\ proc'[p] = [proc[p] EXCEPT !.idle = 0]
      BY <2>1, <1>4, <1>5, <1>6, <1>8
    <3>2. proc'[p].nfid = proc[p].nfid /\ proc'[p].idle = 0
      BY <3>1, <2>1, <1>6 DEF Processor
    <3> QED BY <3>1, <3>2, <2>1, <1>5, <1>6 DEF OwnerOf, IdleOf
  <2>2. CASE ~known
    <3>1. table'[f] = p /\ proc'[p] = Fresh(f, r)
      BY <2>2, <1>1, <1>4, <1>5, <1>8
    <3> QED BY <3>1, <2>2, <1>5 DEF OwnerOf, IdleOf, Fresh
  <2> QED BY <2>1, <2>2
<1>10. ASSUME NEW g \in Flow, g # f
       PROVE  OwnerOf(g)' = OwnerOf(g) /\ IdleOf(g)' = IdleOf(g)
  <2>1. table'[g] = table[g]
    BY <1>4, <1>8, <1>10
  <2>2. table[g] # NoProc => table[g] # p /\ table[g] \in Proc
    <3> SUFFICES ASSUME table[g] # NoProc PROVE table[g] # p /\ table[g] \in Proc
      OBVIOUS
    <3>1. table[g] \in Proc /\ Live(table[g]) /\ proc[table[g]].flow = g
      BY OpenIs
    <3>2. known => proc[p].flow = f
      BY <1>1, <1>6, OpenIs
    <3> QED BY <3>1, <3>2, <1>7, <1>10
  <2>3. table[g] # NoProc => proc'[table[g]] = proc[table[g]]
    BY <2>2, <1>4, <1>8
  <2> QED BY <2>1, <2>3 DEF OwnerOf, IdleOf
<1>11. [g \in Flow |-> OwnerOf(g)]'
        = [[g \in Flow |-> OwnerOf(g)] EXCEPT ![f] = IF OwnerOf(f) = {} THEN {r.nfid} ELSE @]
  BY <1>1, <1>9, <1>10
<1>12. [g \in Flow |-> IdleOf(g)]' = [[g \in Flow |-> IdleOf(g)] EXCEPT ![f] = 0]
  BY <1>1, <1>9, <1>10
<1> QED BY <1>1, <1>2, <1>3, <1>11, <1>12 DEF Service!Use, Service!SentOn, Service!Closed, f

\* A timer that fires closes its flow, which was idle for long enough, or
\* changes nothing that applications notice.
LEMMA TimerExpires ==
  ASSUME Flows, Flows', NEW p \in Proc, TimerFires(p)
  PROVE  \/ Service!Expire(proc[p].flow)
         \/ UNCHANGED Service!vars
<1> PICK f \in Flow : f = proc[p].flow
  BY LiveIs DEF TimerFires, Fires, Flows
<1>1. /\ Live(p) /\ f \in Flow /\ table[f] = p /\ p # NoProc /\ proc[p] \in Processor
      /\ proc \in [Proc -> Processor \union {NoProcessor}]
      /\ table \in [Flow -> Proc \union {NoProc}]
  BY LiveIs, ProcIsSome DEF TimerFires, Fires, Flows, FlowOwnsEntry, TypeOK
<1>2. UNCHANGED <<asked, reached, resps, up>>
  BY DEF TimerFires, Fires, messages
<1>3. ASSUME NEW g \in Flow, g # f
      PROVE  table[g] # NoProc => table[g] \in Proc /\ table[g] # p
  BY <1>1, <1>3, OpenIs
<1>4. CASE proc[p].idle >= IdleTicks
  <2>1. /\ proc' = [proc EXCEPT ![p] = NoProcessor]
        /\ table' = [table EXCEPT ![f] = NoProc]
    BY <1>4 DEF TimerFires, Fires
  <2>2. OwnerOf(f) # {} /\ IdleOf(f) >= IdleTicks
    BY <1>1, <1>4 DEF OwnerOf, IdleOf
  <2>3. OwnerOf(f)' = {} /\ IdleOf(f)' = 0
    BY <2>1, <1>1 DEF OwnerOf, IdleOf
  <2>4. ASSUME NEW g \in Flow, g # f
        PROVE  OwnerOf(g)' = OwnerOf(g) /\ IdleOf(g)' = IdleOf(g)
    <3>1. table'[g] = table[g]
      BY <2>1, <2>4, <1>1
    <3>2. table[g] # NoProc => proc'[table[g]] = proc[table[g]]
      BY <2>1, <2>4, <1>1, <1>3
    <3> QED BY <3>1, <3>2 DEF OwnerOf, IdleOf
  <2>5. /\ [g \in Flow |-> OwnerOf(g)]' = [[g \in Flow |-> OwnerOf(g)] EXCEPT ![f] = {}]
        /\ [g \in Flow |-> IdleOf(g)]' = [[g \in Flow |-> IdleOf(g)] EXCEPT ![f] = 0]
    BY <1>1, <2>3, <2>4
  <2>6. Service!Expire(f)
    BY <1>1, <1>2, <2>2, <2>5 DEF Service!Expire, Service!Closed
  <2> QED BY <2>6
<1>5. CASE ~(proc[p].idle >= IdleTicks)
  <2>1. /\ proc' = [proc EXCEPT ![p].timer = CheckTicks] /\ table' = table
    BY <1>5 DEF TimerFires, Fires
  <2>2. \A q \in Proc : q # p => proc'[q] = proc[q]
    BY <2>1, <1>1
  <2>3. proc'[p].nfid = proc[p].nfid /\ proc'[p].idle = proc[p].idle
    BY <2>1, <1>1 DEF Processor
  <2>4. ASSUME NEW g \in Flow
        PROVE  OwnerOf(g)' = OwnerOf(g) /\ IdleOf(g)' = IdleOf(g)
    <3>1. table[g] \in Proc \union {NoProc}
      BY <1>1
    <3> QED BY <3>1, <2>1, <2>2, <2>3 DEF OwnerOf, IdleOf
  <2> QED BY <2>4, <1>2, SameToAll DEF Service!vars, Service!flows
<1> QED BY <1>4, <1>5

\* Time passes for the flows as it does for the processors.
LEMMA TimePasses ==
  ASSUME Flows, Tick
  PROVE  Service!Tick
<1>1. /\ \A p \in Proc : Live(p) => proc[p].timer > 0
      /\ proc' = [p \in Proc |-> IF Live(p)
                              THEN [proc[p] EXCEPT !.idle = @ + 1, !.timer = @ - 1]
                              ELSE NoProcessor]
      /\ UNCHANGED <<asked, reached, resps, table, up>>
  BY DEF Tick, messages
<1>2. ASSUME NEW f \in Flow, table[f] # NoProc
      PROVE  /\ OwnerOf(f)' = OwnerOf(f) /\ IdleOf(f)' = IdleOf(f) + 1
             /\ IdleOf(f) + 1 < IdleTicks + CheckTicks
  <2> DEFINE p == table[f]
  <2>1. p \in Proc /\ Live(p) /\ proc[p] \in Processor
    BY <1>2, OpenIs
  <2>2. proc'[p] = [proc[p] EXCEPT !.idle = @ + 1, !.timer = @ - 1]
    BY <1>1, <2>1
  <2>3. proc'[p].nfid = proc[p].nfid /\ proc'[p].idle = proc[p].idle + 1
    BY <2>1, <2>2 DEF Processor
  <2>4. proc[p].idle + 1 < IdleTicks + CheckTicks
    <3>1. proc[p].idle + proc[p].timer < IdleTicks + CheckTicks /\ proc[p].timer > 0
      BY <1>1, <2>1 DEF Flows, Timed
    <3> QED BY <3>1, <2>1, LiveIs, BoundAssumption DEF Flows
  <2> QED BY <2>3, <2>4, <1>1, <1>2 DEF OwnerOf, IdleOf
<1>3. ASSUME NEW f \in Flow, table[f] = NoProc
      PROVE  /\ OwnerOf(f)' = {} /\ IdleOf(f)' = 0 /\ OwnerOf(f) = {}
  BY <1>1, <1>3 DEF OwnerOf, IdleOf
<1>4. \A f \in Flow : OwnerOf(f) = {} <=> table[f] = NoProc
  BY DEF OwnerOf
<1> QED BY <1>1, <1>2, <1>3, <1>4 DEF Service!Tick, Service!Closed

\* What is transmitted is carried on an open flow, on which it was sent.
LEMMA SendCarries ==
  ASSUME Flows, Right, NEW p \in Proc, NEW r \in Request, SendCompletes(p, r)
  PROVE  Service!Carry(proc[p].flow)
<1>1. /\ Live(p) /\ Fits(r, proc[p].flow)
      /\ reached' = reached \union {[flow |-> proc[p].flow, msg |-> r]}
      /\ UNCHANGED <<asked, resps, table, proc, up>>
  BY DEF SendCompletes, Right, messages
<1>2. proc[p].flow \in Flow /\ OwnerOf(proc[p].flow) # {}
  BY <1>1, LiveIs, ProcIsSome DEF Flows, FlowOwnsEntry, OwnerOf
<1>3. \A f \in Flow : OwnerOf(f)' = OwnerOf(f) /\ IdleOf(f)' = IdleOf(f)
  BY <1>1 DEF OwnerOf, IdleOf
<1> QED BY <1>1, <1>2, <1>3, SameToAll
        DEF Service!Carry, Service!Closed, Service!SentOn, Service!flows, Fits

\* An answer goes to the socket that opened the flow.
LEMMA ServerAnswers ==
  ASSUME Flows, NEW p \in Proc, OnRecvRemote(p)
  PROVE  Service!Answer(proc[p].flow)
<1>1. /\ Live(p)
      /\ resps' = resps \union {[nfid |-> proc[p].nfid, src |-> proc[p].flow.src,
                                                     dst |-> proc[p].flow.dst]}
      /\ UNCHANGED <<asked, reached, table, proc, up>>
  BY DEF OnRecvRemote, proxy
<1>2. proc[p].flow \in Flow /\ OwnerOf(proc[p].flow) = {proc[p].nfid}
  BY <1>1, LiveIs, ProcIsSome DEF Flows, FlowOwnsEntry, OwnerOf
<1>3. \A f \in Flow : OwnerOf(f)' = OwnerOf(f) /\ IdleOf(f)' = IdleOf(f)
  BY <1>1 DEF OwnerOf, IdleOf
<1> QED BY <1>1, <1>2, <1>3, SameToAll DEF Service!Answer, Service!flows

\* Every step is one of the service, or a stutter.
LEMMA ServiceStep ==
  Flows /\ Flows' /\ Belongs /\ Right /\ [Next]_vars => [Service!Next]_(Service!vars)
<1> SUFFICES ASSUME Flows, Flows', Belongs, Right, [Next]_vars
             PROVE  Service!Next \/ UNCHANGED Service!vars
  OBVIOUS
<1>1. CASE \E r \in reqs : OnUdpSend(r)
  <2> PICK r \in reqs : OnUdpSend(r)
    BY <1>1
  <2>1. FlowOf(r) \in Flow
    BY FlowOfIs DEF Flows, TypeOK
  <2> QED BY <2>1, RequestUses DEF Service!Next
<1>2. CASE \E p \in Proc, r \in Request : SendCompletes(p, r)
  <2> PICK p \in Proc, r \in Request : SendCompletes(p, r)
    BY <1>2
  <2>1. proc[p].flow \in Flow
    BY LiveIs DEF SendCompletes, Flows
  <2> QED BY <2>1, SendCarries DEF Service!Next
<1>3. CASE \E p \in Proc : OnRecvRemote(p)
  <2> PICK p \in Proc : OnRecvRemote(p)
    BY <1>3
  <2>1. proc[p].flow \in Flow
    BY LiveIs DEF OnRecvRemote, Flows
  <2> QED BY <2>1, ServerAnswers DEF Service!Next
<1>4. CASE \E p \in Proc : TimerFires(p)
  <2> PICK p \in Proc : TimerFires(p)
    BY <1>4
  <2>1. proc[p].flow \in Flow
    BY LiveIs DEF TimerFires, Fires, Flows
  <2> QED BY <2>1, TimerExpires DEF Service!Next
<1>5. CASE Tick
  BY <1>5, TimePasses DEF Service!Next
<1>6. CASE Dies
  <2>1. \A f \in Flow : OwnerOf(f)' = {} /\ IdleOf(f)' = 0
    BY <1>6 DEF Dies, Empty, OwnerOf, IdleOf
  <2>2. up' = FALSE /\ UNCHANGED <<asked, reached, resps>>
    BY <1>6 DEF Dies
  <2>3. Service!Fail
    BY <2>1, <2>2 DEF Service!Fail
  <2> QED BY <2>3 DEF Service!Next
<1>7. CASE \E p \in Proc : RecvFails(p)
  <2> PICK p \in Proc : RecvFails(p)
    BY <1>7
  <2>1. /\ proc' = [proc EXCEPT ![p].hears = FALSE] /\ Live(p)
        /\ UNCHANGED <<asked, reached, resps, table, up>>
    BY DEF RecvFails, messages
  <2>2. /\ proc[p] \in Processor /\ proc \in [Proc -> Processor \union {NoProcessor}]
        /\ table \in [Flow -> Proc \union {NoProc}]
    BY <2>1, LiveIs DEF Flows, TypeOK
  <2>3. proc'[p].nfid = proc[p].nfid /\ proc'[p].idle = proc[p].idle
    BY <2>1, <2>2 DEF Processor
  <2>4. \A q \in Proc : q # p => proc'[q] = proc[q]
    BY <2>1, <2>2
  <2>5. ASSUME NEW f \in Flow
        PROVE  OwnerOf(f)' = OwnerOf(f) /\ IdleOf(f)' = IdleOf(f)
    <3>1. table[f] \in Proc \union {NoProc}
      BY <2>2
    <3> QED BY <3>1, <2>1, <2>3, <2>4 DEF OwnerOf, IdleOf
  <2> QED BY <2>1, <2>5, SameToAll DEF Service!vars, Service!flows
<1> DEFINE Quiet ==
          /\ UNCHANGED <<table, proc, reached>>
          /\ \/ asked \subseteq asked' /\ UNCHANGED <<resps, up>>
             \/ resps' \subseteq resps /\ UNCHANGED <<asked, up>>
             \/ up' = TRUE /\ UNCHANGED <<asked, resps>>
<1>8. CASE Quiet
  <2>1. \A f \in Flow : OwnerOf(f)' = OwnerOf(f) /\ IdleOf(f)' = IdleOf(f)
    BY <1>8 DEF OwnerOf, IdleOf
  <2> QED BY <2>1, <1>8, SameToAll
          DEF Service!Next, Service!Ask, Service!Drop, Service!Return, Service!flows
<1> QED
  <2>1. Filter \/ Fault \/ UNCHANGED vars => Quiet \/ Dies
    BY DEF Filter, Fault, vars, app, messages, proxy, UdpCreated, AppSends, UdpClosed,
           UdpSend, OnUdpRecvReplay, LoseRequest, LoseAnswer, ProxyCrash, ProxyRestart
  <2>2. (\E r \in reqs : ConnectThrows(r)) => Dies
    BY DEF ConnectThrows
  <2> QED BY <1>1, <1>2, <1>3, <1>4, <1>5, <1>6, <1>7, <1>8, <2>1, <2>2 DEF Next, Proxy

\* If the system copies a datagram when its send is started, the two processes,
\* losses and crashes included, keep the service of FlowService.
THEOREM RelayServes == SendsCopied => (Spec => KeepsService)
<1> SUFFICES ASSUME SendsCopied PROVE Spec => KeepsService
  OBVIOUS
<1>1. Init => Service!Init
  <2> SUFFICES ASSUME Init PROVE Service!Init
    OBVIOUS
  <2>1. \A f \in Flow : OwnerOf(f) = {} /\ IdleOf(f) = 0
    BY DEF Init, OwnerOf, IdleOf
  <2> QED BY <2>1 DEF Init, Service!Init
<1>2. Init => Right
  BY DEF Init, Right
<1>3. Flows /\ Flows' /\ Belongs /\ Right /\ [Next]_vars => Right'
  BY RightStep
<1>4. Flows /\ Flows' /\ Belongs /\ Right /\ [Next]_vars => [Service!Next]_(Service!vars)
  BY ServiceStep
<1> QED BY <1>1, <1>2, <1>3, <1>4, FlowsAlways, BelongsAlways, PTL
        DEF Spec, KeepsService, Service!Spec
=============================================================================
