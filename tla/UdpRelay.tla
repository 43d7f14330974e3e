------------------------------ MODULE UdpRelay ------------------------------
(***************************************************************************)
(* How the UDP datagrams of an application travel through the filter and   *)
(* the proxy, and the answers back.                                        *)
(*                                                                         *)
(*   filter   NetFilter::udpSend posts every datagram as a request, which  *)
(*            carries the id of the application's socket in the driver     *)
(*   proxy    ServerUdp::onUdpSend finds the flow of the request's source  *)
(*            and destination or makes one: a SessionUdp with a socket of  *)
(*            its own, connected to the destination, and a timer           *)
(*   proxy    SessionUdp sends the datagram on; what it receives goes back *)
(*            to the filter under the socket id of the FIRST request       *)
(*   filter   NetFilter::onUdpRecvReplay posts it to that socket           *)
(*   proxy    the timer looks every 10 s whether the flow was idle (not    *)
(*            sent on) for 20 s, and then closes it                        *)
(*                                                                         *)
(* Requests and answers can be lost; the proxy can die and come back, and  *)
(* does die when a destination cannot be connected to, since nobody        *)
(* catches the exception.  A datagram is represented by its request.       *)
(***************************************************************************)
EXTENDS Naturals

CONSTANTS Sock,          \* sockets of applications: the endpoint ids of the driver
          Addr,          \* local addresses they are bound to
          Dst,           \* remote addresses
          Dns,           \* those with port 53
          Unroutable,    \* those a socket cannot be connected to
          NoAddr,        \* stands for no address
          NoProcessor,   \* stands for a processor that does not exist
          MaxSends,      \* bound: datagrams sent by the applications
          MaxFlows,      \* bound: flows at a time
          CheckTicks,    \* the period of the idle timer, in ticks
          IdleTicks,     \* the idle time after which a flow is closed
          SendsCopied    \* TRUE: the system copies a datagram when its send is started,
                         \* FALSE: it reads the buffer when it transmits

Flow == [src : Addr, dst : Dst]
Request == [nfid : Sock, src : Addr, dst : Dst]
Proc == 1..MaxFlows
NoProc == 0

\* A processor (SessionUdp with its timer): flow is its _conn, nfid the socket id
\* in its _ud, idle the ticks since it was sent on, timer the ticks until the
\* timer fires; hears says that a receive is outstanding.
Processor == [flow : Flow, nfid : Sock, idle : 0..IdleTicks+CheckTicks,
              timer : 0..CheckTicks, hears : BOOLEAN]

ASSUME AddressAssumption == Dns \subseteq Dst /\ Unroutable \subseteq Dst
ASSUME SentinelAssumption == NoAddr \notin Addr /\ NoProcessor \notin Processor
ASSUME BoundAssumption == /\ MaxSends \in Nat /\ MaxFlows \in Nat
                          /\ CheckTicks \in Nat \ {0} /\ IdleTicks \in Nat \ {0}
ASSUME CopyAssumption == SendsCopied \in BOOLEAN

VARIABLES
  sock,     \* sock[s]: what the application has done with socket s
  addr,     \* addr[s]: the local address of s
  sends,    \* datagrams sent so far
  queued,   \* sends the driver has not indicated yet: [nfid, dst]
  info,     \* _udpinfo: the sockets the filter knows
  asked,    \* every request posted so far
  reqs,     \* requests in flight or queued at the proxy
  resps,    \* answers in flight, each in the form of the request it answers
  table,    \* _udp_mgr: flow -> processor, NoProc where there is none
  proc,     \* proc[p]: the processors with an armed timer, see Processor
  pending,  \* pending[p]: what the sends p has outstanding would transmit now
  reached,  \* what was transmitted, and on which flow
  up        \* the proxy process is running

app == <<sock, addr, sends, queued>>
messages == <<asked, reqs, resps>>
proxy == <<table, proc, pending, up>>
vars == <<app, info, messages, proxy, reached>>

Empty == /\ table' = [f \in Flow |-> NoProc]
         /\ proc' = [p \in Proc |-> NoProcessor]
         /\ pending' = [p \in Proc |-> {}]

Init ==
  /\ sock = [s \in Sock |-> "new"] /\ addr = [s \in Sock |-> NoAddr]
  /\ sends = 0 /\ queued = {} /\ info = {}
  /\ asked = {} /\ reqs = {} /\ resps = {} /\ reached = {}
  /\ table = [f \in Flow |-> NoProc]
  /\ proc = [p \in Proc |-> NoProcessor]
  /\ pending = [p \in Proc |-> {}]
  /\ up = TRUE

-----------------------------------------------------------------------------
(* The applications and the driver.                                        *)

\* The application opens a socket on an address no other one is open on.
UdpCreated(s, a) ==
  /\ sock[s] = "new" /\ \A t \in Sock : sock[t] = "open" => addr[t] # a
  /\ sock' = [sock EXCEPT ![s] = "open"] /\ addr' = [addr EXCEPT ![s] = a]
  /\ info' = info \union {s}
  /\ UNCHANGED <<sends, queued, messages, proxy, reached>>

\* The application sends; the driver's threads indicate the datagram later.
AppSends(s, d) ==
  /\ sock[s] = "open" /\ sends < MaxSends
  /\ sends' = sends + 1
  /\ queued' = queued \union {[nfid |-> s, dst |-> d]}
  /\ UNCHANGED <<sock, addr, info, messages, proxy, reached>>

UdpClosed(s) ==
  /\ sock[s] = "open"
  /\ sock' = [sock EXCEPT ![s] = "closed"]
  /\ info' = info \ {s}
  /\ UNCHANGED <<addr, sends, queued, messages, proxy, reached>>

\* The driver indicates a datagram.  One to a name server, or any while the
\* heartbeat says that the proxy is dead, is let through unchanged; one of a
\* socket the filter does not know any more is dropped; the others are posted,
\* and received by nobody if the proxy is not there.
UdpSend(q, active) ==
  LET r == [nfid |-> q.nfid, src |-> addr[q.nfid], dst |-> q.dst]
      posted == active /\ q.dst \notin Dns /\ q.nfid \in info
  IN /\ q \in queued /\ queued' = queued \ {q}
     /\ asked' = IF posted THEN asked \union {r} ELSE asked
     /\ reqs' = IF posted /\ up THEN reqs \union {r} ELSE reqs
     /\ UNCHANGED <<sock, addr, sends, info, resps, proxy, reached>>

\* An answer is posted to the socket it names; the driver ignores one that is
\* closed.
OnUdpRecvReplay(r) ==
  /\ r \in resps /\ resps' = resps \ {r}
  /\ UNCHANGED <<app, info, asked, reqs, proxy, reached>>

-----------------------------------------------------------------------------
(* The proxy process.                                                      *)

Live(p) == proc[p] # NoProcessor

FreeProcs == {p \in Proc : ~Live(p)}

\* Planted bugs: the source, or the destination, is not copied.
FlowOfDestination(r) == [src |-> CHOOSE a \in Addr : TRUE, dst |-> r.dst]
FlowOfSource(r) == [src |-> r.src, dst |-> CHOOSE d \in Dst : TRUE]

\* fillConnInfo.
FlowOf(r) == [src |-> r.src, dst |-> r.dst]

\* A processor just made for flow f by the request r.
Fresh(f, r) == [flow |-> f, nfid |-> r.nfid, idle |-> 0, timer |-> CheckTicks, hears |-> TRUE]

\* Outstanding sends point into the one event buffer, which holds r now.
Overwritten(r) == [p \in Proc |-> IF SendsCopied \/ pending[p] = {} THEN pending[p] ELSE {r}]

\* A request is handled by the processor found for it, or by a new one.
Handled(r, found) ==
  LET f == FlowOf(r)
      p == IF found # NoProc THEN found ELSE CHOOSE q \in FreeProcs : TRUE
  IN /\ up /\ r \in reqs /\ reqs' = reqs \ {r}
     /\ IF found # NoProc
        THEN /\ proc' = [proc EXCEPT ![p].idle = 0]
             /\ UNCHANGED table
        ELSE /\ r.dst \notin Unroutable /\ FreeProcs # {}
             /\ proc' = [proc EXCEPT ![p] = Fresh(f, r)]
             /\ table' = [table EXCEPT ![f] = p]
     /\ pending' = [Overwritten(r) EXCEPT ![p] = @ \union {r}]
     /\ UNCHANGED <<app, info, asked, resps, up, reached>>

\* Planted bug: the flow is not looked for.
OnUdpSendCreates(r) == Handled(r, NoProc)

OnUdpSend(r) == Handled(r, table[FlowOf(r)])

\* The system transmits what an outstanding send of p stands for.
SendCompletes(p, r) ==
  /\ Live(p) /\ r \in pending[p]
  /\ reached' = reached \union {[flow |-> proc[p].flow, msg |-> r]}
  /\ pending' = [pending EXCEPT ![p] = @ \ {r}]
  /\ UNCHANGED <<app, info, messages, table, proc, up>>

\* The server answers: the answer is sent to the filter, and the next receive
\* is started.
OnRecvRemote(p) ==
  /\ Live(p) /\ proc[p].hears
  /\ resps' = resps \union {[nfid |-> proc[p].nfid, src |-> proc[p].flow.src,
                                                   dst |-> proc[p].flow.dst]}
  /\ UNCHANGED <<app, info, asked, reqs, proxy, reached>>

\* A receive fails, for example because the server's host says that nobody has
\* the port open: it is only logged, and no other receive is started.
RecvFails(p) ==
  /\ Live(p) /\ proc[p].hears
  /\ proc' = [proc EXCEPT ![p].hears = FALSE]
  /\ UNCHANGED <<app, info, messages, table, pending, up, reached>>

\* The timer of p fires.  A flow that was idle for limit ticks is closed and
\* forgotten; otherwise the timer is started again.
Fires(p, limit) ==
  /\ Live(p) /\ proc[p].timer = 0
  /\ IF proc[p].idle >= limit
     THEN /\ proc' = [proc EXCEPT ![p] = NoProcessor]
          /\ pending' = [pending EXCEPT ![p] = {}]
          /\ table' = [table EXCEPT ![proc[p].flow] = NoProc]
     ELSE /\ proc' = [proc EXCEPT ![p].timer = CheckTicks]
          /\ UNCHANGED <<pending, table>>
  /\ UNCHANGED <<app, info, messages, up, reached>>

\* Planted bugs: > for >=; the check itself counts as activity; flows are closed
\* after twice the period more, or a tick too early.
TimerFiresEarly(p) == Fires(p, IdleTicks - 1)

TimerFiresLate(p) == Fires(p, IdleTicks + 1)

TimerFiresRefreshes(p) ==
  /\ Live(p) /\ proc[p].timer = 0
  /\ proc' = [proc EXCEPT ![p].timer = CheckTicks, ![p].idle = 0]
  /\ UNCHANGED <<app, info, messages, table, pending, up, reached>>

TimerFiresMuchLater(p) == Fires(p, IdleTicks + 2 * CheckTicks)

TimerFires(p) == Fires(p, IdleTicks)

-----------------------------------------------------------------------------
(* Time and faults.                                                        *)

\* Time passes, but not past a timer that is due.
Tick ==
  /\ \A p \in Proc : Live(p) => proc[p].timer > 0
  /\ proc' = [p \in Proc |-> IF Live(p) 
                              THEN [proc[p] EXCEPT !.idle = @ + 1, !.timer = @ - 1]
                              ELSE NoProcessor]
  /\ UNCHANGED <<app, info, messages, table, pending, up, reached>>

LoseRequest(r) ==
  /\ r \in reqs /\ reqs' = reqs \ {r}
  /\ UNCHANGED <<app, info, asked, resps, proxy, reached>>

LoseAnswer(r) ==
  /\ r \in resps /\ resps' = resps \ {r}
  /\ UNCHANGED <<app, info, asked, reqs, proxy, reached>>

Dies == /\ up' = FALSE /\ reqs' = {} /\ Empty
        /\ UNCHANGED <<app, info, asked, resps, reached>>

ProxyCrash == up /\ Dies

\* A new flow to a destination that cannot be connected to: the exception ends
\* the proxy.
ConnectThrows(r) ==
  /\ up /\ r \in reqs /\ r.dst \in Unroutable /\ table[FlowOf(r)] = NoProc
  /\ Dies

ProxyRestart ==
  /\ ~up /\ up' = TRUE
  /\ UNCHANGED <<app, info, messages, table, proc, pending, reached>>

Filter == \/ \E s \in Sock, a \in Addr : UdpCreated(s, a)
          \/ \E s \in Sock, d \in Dst : AppSends(s, d)
          \/ \E s \in Sock : UdpClosed(s)
          \/ \E q \in queued, active \in BOOLEAN : UdpSend(q, active)
          \/ \E r \in resps : OnUdpRecvReplay(r)

Proxy == \/ \E r \in reqs : OnUdpSend(r)
         \/ \E r \in reqs : ConnectThrows(r)
         \/ \E p \in Proc, r \in Request : SendCompletes(p, r)
         \/ \E p \in Proc : OnRecvRemote(p)
         \/ \E p \in Proc : RecvFails(p)
         \/ \E p \in Proc : TimerFires(p)

Fault == \/ \E r \in reqs : LoseRequest(r)
         \/ \E r \in resps : LoseAnswer(r)
         \/ ProxyCrash
         \/ ProxyRestart

Next == Filter \/ Proxy \/ Tick \/ Fault

\* Time passes and timers that are due fire.
Fairness == WF_vars(Tick) /\ \A p \in Proc : WF_vars(TimerFires(p))

Spec == Init /\ [][Next]_vars
FairSpec == Spec /\ Fairness
-----------------------------------------------------------------------------
(* Properties.                                                             *)

\* Every variable keeps its type, and no idle time exceeds the longest one the
\* timer can miss.
TypeOK ==
  /\ sock \in [Sock -> {"new", "open", "closed"}] /\ addr \in [Sock -> Addr \union {NoAddr}]
  /\ sends \in 0..MaxSends /\ queued \subseteq [nfid : Sock, dst : Dst] /\ info \subseteq Sock
  /\ asked \subseteq Request /\ reqs \subseteq Request /\ resps \subseteq Request
  /\ table \in [Flow -> Proc \union {NoProc}]
  /\ proc \in [Proc -> Processor \union {NoProcessor}]
  /\ pending \in [Proc -> SUBSET Request]
  /\ reached \subseteq [flow : Flow, msg : Request]
  /\ up \in BOOLEAN

\* The flow table and the processors belong to each other: every entry leads to
\* a processor of that very flow, and every processor is the entry of its flow.
\* A second one would take the first one's entry away when it times out.
FlowOwnsEntry ==
  /\ \A f \in Flow : table[f] # NoProc => Live(table[f]) /\ proc[table[f]].flow = f
  /\ \A p \in Proc : Live(p) => table[proc[p].flow] = p

\* What is transmitted on a flow is a datagram an application sent from the
\* flow's source to the flow's destination.
DeliveredAsSent == \A m \in reached :
  m.msg \in asked /\ m.msg.src = m.flow.src /\ m.msg.dst = m.flow.dst

\* An answer is posted to a socket that sent to that server from that address,
\* however many sockets have used the address since.
AnswerBelongs == resps \subseteq asked

\* A flow lives less than IdleTicks + CheckTicks after it was last sent on,
\* wherever between two checks that was.
IdleBounded == \A p \in Proc : Live(p) => proc[p].idle < IdleTicks + CheckTicks

\* Flows do not leak: when the applications have fallen silent all of them are
\* closed and forgotten, and stay so.
IdleFlowsGo == <>[](\A f \in Flow : table[f] = NoProc)

\* A flow as its applications know it: whom it answers to, and for how long
\* it was not used.
OwnerOf(f) == IF table[f] = NoProc THEN {} ELSE {proc[table[f]].nfid}
IdleOf(f) == IF table[f] = NoProc THEN 0 ELSE proc[table[f]].idle

Service == INSTANCE FlowService WITH
    answers <- resps,
    owner <- [f \in Flow |-> OwnerOf(f)],
    idle <- [f \in Flow |-> IdleOf(f)]

\* The two processes keep the service of FlowService: as long as a flow is open
\* its answers go to the socket that opened it, whoever else sends on it; it is
\* not closed early, although the timer looks at fixed times only, nor late; and
\* nothing is carried on it, or answered from it, once it is closed.
KeepsService == Service!Spec
=============================================================================
