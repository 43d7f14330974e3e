# MultiFilter: a TLA+ model

MultiFilter diverts the network traffic of chosen programs to a local proxy.
Two processes share the work: the *filter* (`TestNetfilter`), which sits on a
driver that intercepts connects and datagrams, and the *proxy* (`TestProxy`),
which talks to the servers.  They exchange UDP datagrams ("events") over
loopback; intercepted TCP connections reach the proxy's listener over loopback
too.  This directory models both processes, checks the models with TLC and
proves the main results with TLAPS.  `PROJECT.json` says which lines of the
source each definition stands for.

## 1. Inventory

| Component | State | Operations | Interaction |
|---|---|---|---|
| NetFilter, TCP part (`NetFilter.cpp:38-74, 216-262`) | none of its own: the driver holds the pended connects, and everything about one travels in its event (`evt_tcpnew_req_nf`) | `tcpConnectRequest`, `onTcpConnectReplay` | called by the driver's threads; posts through ClientEvent; completes the connect in the driver |
| NetFilter, UDP part (`NetFilter.cpp:116-204, 263-354`) | `_udpinfo`, under a shared lock | `udpCreated`, `udpSend`, `udpClosed`, `onUdpRecvReplay` | the same |
| ClientEvent (`ClientEvent.cpp`) | `evt_counter`, `_heart_request`, `_heart_error_times` | `post`, the heartbeat timer, the receive loop, `is_server_active_unsafe` | the timer and the receive loop run on one io thread, `post` and the activity test also on the driver's threads |
| ServerEvent (`ServerEvent.cpp`) | the event socket, `_buf_req`, `_sender_ep` | the receive loop, dispatch, heartbeat reply, `Replay` | hands every event to ServerTcp and ServerUdp, sends their answers |
| ServerTcp (`ServerTcp.cpp`) | `_sessions_socket`, `_sessions_conninfo`, by local port | `OnEventRequest`, the remote connect, `onAccept` | makes a SessionTcp when a connection finds its entry |
| SessionTcp (`SessionTcp.cpp`) | two buffers with position and size, two sockets | read and write handlers of two directions | kept alive only by its own outstanding handlers |
| ServerUdp, SessionUdp | `_udp_mgr` by (source, destination); per flow a socket, a timer, `_ud`, the time last active | `onUdpSend`, receive, idle timer | answers go through ServerEvent |
| SharedMemory, the two `main`s, `Start`/`Stop` | the ports in a named mapping | port scan, `Write`, `WaitRead` | how the filter finds the proxy, once |
| Utils, `sockaddr_full`, event structs | none | clock, address order, framing | used by all |
| OpenNetfilter, ProxyLogic, `third_party` | none | driver rules; a stub; vendored code | not modelled |

All handlers of the proxy run on one `io_context`, in `main`'s thread, one at a
time; a handler is one step of the models.  What is concurrent is the two
processes, the datagrams between them, the driver's threads in the filter, the
operating system and the peers.

What is hard here, and what correctness means for each component:

* **TCP handover.** A connect is held until its answer comes; the remote
  connect, the answer, the redirected connection and the application's own
  close race each other; two datagrams can be lost and the proxy can die.
  Correct means: every held connect keeps exactly one thing that will release
  it; what is accepted is joined to the remote socket opened for it; what is
  let through has no remote socket; the maps hold nothing without a reason.
* **Heartbeat.** Replies are late, lost, and numbered from a wrapping counter.
  Correct means: only a reply to the latest heartbeat counts; a dead proxy is
  noticed within the limit; a returned one is trusted again.
* **TCP session.** Partial writes, half-closed peers, resets.  Correct means:
  each direction is a byte pipe; nothing is lost at the end of a stream; a
  session whose peers have ended goes.
* **UDP flows.** Sockets come and go on the same address, an idle timer closes
  flows, sends may be pending, requests arrive meanwhile.  Correct means: the
  table and the processors match; datagrams and answers stay with their flow;
  idle flows go, in bounded time.
* **Startup.** Several starts of either process, ports taken by others, memory
  that comes and goes with the processes that have it open, written in two
  steps without a lock.  Correct means: the ports that a filter reads are one
  proxy's, and that proxy listens on them; neither `main` hangs.
* **Several filters.** One receive buffer and one sender endpoint for all of
  them.  Correct means: a reply goes to the filter that asked (it does only for
  heartbeats), and a filter that dies does not silence the proxy for the others.
* **Address order.** Correct means: a strict order, or the flow table loses flows.
* **Framing, clock.** Correct means: the lengths in an event are the lengths of
  its parts; the fallback clock is exact.

`PROJECT.json` lists the hazards one by one, each at its line.

## 2. Modules

| Module | What it is |
|---|---|
| `Interception` | abstract: what an application whose connect is intercepted is promised |
| `TcpHandover` | the TCP handover through both processes; implements `Interception` |
| `TcpHandoverProofs` | theorems about it |
| `Heartbeat` | the heartbeat and the activity test |
| `BytePipe` | abstract: two byte pipes |
| `SessionTcp` | one TCP session; implements `BytePipe` |
| `FlowService` | abstract: the service of an address translator |
| `UdpRelay` | the UDP path through both processes; implements `FlowService` |
| `Rendezvous` | how a filter finds a proxy: port scans, shared memory, both `main`s |
| `EventSender` | several filters on one proxy: whom the proxy replies to |
| `SockAddr` | the comparisons of addresses |
| `FlowTable` | abstract: what the proxy needs of its flow table |
| `FlowTree` | the flow table as a search tree of any shape; implements `FlowTable` on IPv4 |
| `FlowMap` | the same with the exact shape of a tree of up to three keys |
| `EventFrame`, `TimeSource` | 16-bit lengths of events; the fallback clock |
| `HeartbeatProofs`, `SessionTcpProofs`, `UdpRelayProofs`, `RendezvousProofs`, `EventSenderProofs`, `FlowMapProofs` | theorems about the module of that name |
| `ValueProofs` | theorems about `EventFrame` and `TimeSource` |
| `MCTcpHandover`, `MCUdpRelay`, `MCFlowMap` | model values for TLC |

In the modules of the passing runs *planted bugs* are variants of some operators,
each the way a plausible mistake would leave the code.  They are not part of
the specification.  Putting one in the place of its original breaks the
property that `PROJECT.json` names beside it: that is how each property is
known to depend on the code.

### TcpHandover and Interception

`phase[c]` is what the application and the driver see of connect `c`; `reqs` and
`replies` are the datagrams under way, `connecting` the remote connects, `backlog`
the redirected connections not yet accepted, `socketAt` and `infoAt` the two maps.
The order of the proxy's handlers is the code's: `OnEventRequest` starts the
remote connect; `ConnectDone` files socket and request under the port *and* sends
the reply in one handler; `OnAccept` looks both up, erases both and makes the
session, or drops the connection in the branch marked impossible.  The comment on
the maps (`ServerTcp.h:38-40`) gives another picture: it says that they exist because
an accept may, with small probability, come before its event.  The model has no
such order because the code has none, see section 3.
`TcpConnectRequest` takes the verdict of the activity test as an arbitrary
Boolean: whatever `Heartbeat` says, the handover must cope.  `StepsLeft` counts what a
connect can still go through; `HandoverShrinks` says that this only gets less, so
that a handover ends if its handlers run.

Not in the model: the contents of events, the address family in the redirection
(both families redirect to the same two listeners), `Start` and `Stop`, and a
filter process that ends (the driver then drops what it held).

`Interception` knows only an outcome and a partner for each connect.  The mapping
reads `pended` and `redirected` both as *held*, and `pended` with its token in
`lost` as *stranded*: a connect that nothing will ever release.

### Heartbeat

One step of `HeartTimer` is the timer's handler: a new `evt_id`, the post, the
miss.  The age of a message counts the heartbeats since its request, so that
"a reply to the latest heartbeat" can be said without looking at ids.  `calm` is
a promise about the environment from some moment on, used only by `Recovers` and
by `TrustLasts`, which is its second half without liveness: trust, once
regained, lasts.

### SessionTcp and BytePipe

`up` is application to server, `down` the other way.  `reads` and `writes` are the
outstanding operations, a write as the range of the buffer it was given, so that
a write started on the wrong buffer, or twice, is visible.  Byte number i is the
number i, which makes "in order, each once" an equation.

The model follows the code into the bug of `SessionTcp.cpp:136` (both directions
continue a partial write with `doWriteRemote`).  `ShortWrites` says in which
directions a send may take less than it was given; the passing run allows it
towards the server only, where the code is right, and the run
`session_short_write` towards the application.

`Work` counts what a session has left to do.  `WorkShrinks` says that a session
which its peers leave alone comes to rest, and `RestIsSent` that it does not rest
while it holds bytes for an open socket: together the reason for `SessionEnds`.

### UdpRelay and FlowService

Applications open sockets on addresses, send, and close; the driver indicates
sends later, possibly after the close.  A processor is a `SessionUdp` with its
timer; `table` is `_udp_mgr`.  Time moves in ticks of 5 s, never past a timer that
is due: the check period of 10 s is 2 ticks, the limit of 20 s is 4.  A new flow
to a destination that cannot be connected to ends the proxy (`ConnectThrows`):
`SessionUdp.cpp:125` throws and nothing between it and `main` catches.
`RecvFails` is the receive that is not started again after an error.
`SendsCopied` says whether the system has the bytes of a datagram when the send
is started.  It normally has; the run `udp_shared_buffer` shows what the code
does when it has not.

`FlowService` has no filter, proxy, table, processors or events: a flow is open or
closed, answers to the socket that opened it, carries only what was sent on it,
and expires some time after its last use.  The mapping finds a flow open exactly
if `table` has a processor for it, and takes owner and idle time from that
processor.  So the property includes that nothing but the processor in the table
sends or receives for a flow, which no part of the code states.

`FlowOf` uses the addresses as identities, and `table` is a function.  For IPv4 that
is proved to be what the code's search tree amounts to (`FlowTree`).  The C++
comparison of IPv6 addresses is not a strict order, so for IPv6 it is what the
code intends, not what it does; `FlowMap` is about that difference.

### Rendezvous

A member of `Proxy` or `Filter` is one start of that program, so a restart is
another member.  The mapping is `sized` (the size word), `info` (the two ports) and
`handles` (who keeps it alive); `views` are those who can use it, which after a
failed `MapViewOfFile` are fewer.  `Write` is two steps, `WriteSize` and `WriteInfo`,
and so is `Read`, because nothing keeps the other process out in between; the two
ports are one aligned 32-bit word, copied at once.  `info.by` says who wrote the
ports and exists for the properties alone.  A bind of the forward port may fail or
succeed whoever has it: asio sets `SO_REUSEADDR` there.  `ServerEvent`'s UDP socket
has no such option, and a taken port throws.  A process that failed to open the
mapping opens one under `_name`, which is never set; that memory is its own, so
the model leaves the process without any.

### EventSender

`event` and `sender` are `_buf_req` and `_sender_ep`, which the system may write only
while the one receive is under way (`rx` = "armed").  `open` is what the proxy owes
an answer to later: connects under way, and UDP flows.  Every answer is sent to
`sender` as it is at that time.  `heard` records which filters were heard since
the asker itself was, which is exactly what decides whether its answer goes
astray.  A reply to a dead filter makes the proxy's next receive fail (`bounced`),
as a port-unreachable does on Windows.

### SockAddr, FlowTree and FlowMap

`Less`, `Differ` and `ConnLess` are the three comparison operators, on addresses with
natural numbers for the integers that the code compares.  `FlowTree` is `_udp_mgr`
with `onUdpSend`, which searches and fills it, and the timers that erase from it.
A tree is known by its entries from left to right.  A walk down any search tree
with these entries ends between two neighbours and has passed both of them, so
`Place` and `EndPlace` allow every end that some tree's walk has; neither the shape
of the tree nor its rebalancing needs to be modelled, nor recursion.  For keys
that are in order there is one such place only.  `FlowTable` is what that should
come to: one processor per flow.

For keys without an order this is too liberal: an error would be one of some
tree, not of `std::map`.  `FlowMap` therefore has the exact tree, which for up to
three keys and no erasure is its entries and the place of its root, so that
`lower_bound`'s walk is two comparisons.  `MapIsTree` shows that it is a `FlowTree`.
Only `FlowMap` has a run; what is said of `FlowTree` is proved.

### EventFrame and TimeSource

The four 16-bit lengths of the two events that carry datagrams, with the memory
allocated for each; and `TimeGetTime64`.  They are functions over numbers up to
2^32, with no states to check: what they do is proved.

## 3. Runs

| Run | Instance | Result |
|---|---|---|
| `handover` | 3 connects (one IPv6), 2 ports, 1 death of the proxy | passes |
| `handover_ports` | the same, ports shared between families and reused at once, no death | `AcceptFindsRemote` is violated |
| `session` | buffer of 2 bytes, 4 bytes each way, partial writes towards the server | passes |
| `session_short_write` | partial writes towards the application | `RestIsSent` is violated |
| `session_close` | 1 byte each way | `ClosePropagates` is violated |
| `heartbeat` | limit 3, 7 ids, 1 other request per heartbeat, messages up to 2 heartbeats late | passes |
| `udp` | 2 sockets, 2 addresses, 4 destinations (one DNS, one unroutable), 2 datagrams, 2 flows | passes |
| `udp_shared_buffer` | the same, sends not copied | `DeliveredAsSent` is violated |
| `rendezvous` | 2 starts of the proxy, 1 filter, 2 ports of each kind, 1 step of waiting | passes |
| `filters` | 2 filters, 3 kinds of request with 1 id each, 3 requests under way | passes |
| `filters_replies` | the same | `ReplyReachesAsker` is violated |
| `flows_ipv6` | 8 IPv6 flows of one socket, at most 3 in the table | `FiledIsFound` is violated |

*What the passing runs check.*

| Run | Properties, besides `TypeOK` |
|---|---|
| `handover` | the safety of pairing and accounting (`SplicedToOwnRemote`, `AcceptFindsRemote`, `HeldHasOneToken`, `DirectHasNoRemote`, `WaitingIsAccounted`); `HandoverShrinks`; `KeepsPromise`, the refinement of `Interception` with its liveness |
| `session` | `OneOperation`, `BufferHoldsRest`, `RestIsSent`, `DrainedBeforeClose`; `WorkShrinks`; `SessionEnds`; `KeepsPipe`, the refinement of `BytePipe` with its liveness |
| `heartbeat` | `OnlyLatestCounts`, `DeadIsNoticed`, `TrustLasts`; `Recovers` |
| `udp` | `FlowOwnsEntry`, `DeliveredAsSent`, `AnswerBelongs`, `IdleBounded`; `KeepsService`, the refinement of `FlowService`; `IdleFlowsGo` |
| `rendezvous` | `FoundIsServed`, `BlankOnlyAtFirst`, `NeverTurnedAway`, `StartupShrinks`; `Finds`, `StartupEnds` |
| `filters` | `HeartReachesAsker`, `AstrayOnlyIfOverheard`, `NothingDropped`; `EveryRequestServed` |

Each liveness property has a companion among the action properties that says the
same of single steps: that nothing goes back, is dropped or goes on for ever.
These hold without fairness, and are proved for every size (section 4).

*Bounds.*  Handover: a port conflict needs two connects; the third gives one that
is unaffected, or takes over a port whose entry a first one left.  A death wipes
the proxy's state completely, so a second one adds nothing to the interleavings
around the first.  Session: a buffer of two bytes is the smallest with partial
writes, four bytes fill it twice; `SizeMod` stands for 2^64, so that a size below
zero would wrap and not stop the run.  Heartbeat: ids wrap several times; a
message is never older than `MaxAge` heartbeats, and `IdMod` exceeds the number
of ids used in that time, as 65536 does by far.  The miss counter stops one above
the limit; the code's goes on, and would need 2^32 misses to come back.  UDP: two
datagrams suffice for two flows, for a flow used twice, and for a flow taken over
by a second socket on the same address; `MaxFlows` limits nothing, since two
datagrams make at most two flows.  Rendezvous: the second start
of the proxy is a rival while the first lives and a restart when it is dead; two
ports let a scan skip one and run out; one step is a wait with a second try.
Several filters: a second filter is what the one `sender` cannot tell apart, and
two open requests with one more in the queue give every order of asking, being
overheard and answering; a filter that posts one request of a kind again posts it
when the first is no longer queued.  What is bounded here is unbounded in the
theorems.

*Deadlock.*  The handover and the session end when every connect, or both peers,
have ended, and `filters` stops when all filters have died: these runs do not
check deadlock.  The heartbeat, the UDP
path and the flow table never stop, and neither does `rendezvous`, where other
programs go on taking ports.

*Fairness.*  Handover: the handlers of both processes that are ready, the end of
a remote connect, and each entry of the backlog; an `io_context` runs every
completion, and a TCP connect ends one way or the other.  Session: the
completions of each direction; this includes that a peer which has not reset its
connection goes on receiving.  Heartbeat: the timer and both receive loops, which
start themselves again after every message, good or bad.  UDP: time passes and
due timers fire.  Rendezvous: a process that was started gets to run (weak fairness of
its own steps); no bind has to succeed and nobody has to write.  Several filters:
the proxy's thread runs its handler, connects end, and the receive completes if
datagrams are queued again and again (`SF_vars(Arrive)`): errors of earlier sends
may come in between, but a socket hands over what it has queued in the order in
which it came, so no datagram waits behind errors for ever.  No application has to act, no peer has to close, nothing has to
be lost, nobody has to die or to come back.

*Assumption on ports.*  `PortsExclusive` = TRUE says that a local port number is
not given to another connect, in either family, before its last handover is
finished.  The code relies on it (the maps are keyed by the port number alone)
and nothing enforces it; `handover_ports` drops it.  The same assumption stands
as a hypothesis in the theorems that need it.

*What the violations show.*  An IPv4 and an IPv6 connect with one port number are
joined to each other's remote sockets, and the second runs into the assertion of
`ServerTcp.cpp:141`.  On that branch the source contradicts itself:
`ServerTcp.h:38-40` says that the maps are there because an accept is, with small
probability, received before its event, `ServerTcp.cpp:141-142` that this is
impossible.  Neither is what the code does.  An accept cannot overtake its event,
since the connect is redirected by a reply that is sent after both entries are
filed: `HeldHasOneToken` includes that nothing in the backlog has its event or its
remote connect still to come, and `OneToken` proves it without any assumption on
ports or deaths.  But the branch is reached, when the entry was taken by a connect
with the same port number, or went with a proxy that died; so `AcceptFindsRemote`
passes in `handover` only because that run has exclusive ports, and speaks only of
a proxy that has not died.  If the order of the header did occur, the code would
drop the connection: the map that would keep it is commented out
(`ServerTcp.h:44`).  A partial write to the application is never continued.
When one peer of a session ends, the other side stays open until its own peer
ends, although `SessionTcp.h:4` says it is closed (`README.md:5` of the repository
admits that closing is unfinished).  A pending UDP send transmits a later event's
bytes.  With two filters, the answer to one's connect is sent to the other, and
the connect is held for ever, although `README.md:1` of the repository names
several hijack modules on one proxy as the purpose of the design.  A third IPv6
flow can make the flow table lose one that is filed, because `operator<` joins the
words of an address by `||`; a lost flow gets a second socket and source port.

## 4. Proofs

`TcpHandoverProofs` proves, for all finite or infinite sets of connects and
ports, from the assumptions in `TcpHandover` only:

1. `StagesAlways`: the inductive invariant `Stages` = `TypeOK`, `HeldHasOneToken`,
   `WaitingIsAccounted` and `StageOK`.  None is inductive alone: that a reply finds
   its connect's entry unclaimed follows only from where the connect is, which
   is what `StageOK` says for each phase.  `TypeCorrect`, `OneToken`,
   `WaitingAccounted` and `DirectUnconnected` follow.  No assumption on ports.
2. `PairedAlways`, assuming `PortsExclusive`: the second layer `Paired`, that
   unfinished handovers have different ports (`PortsApart`), that a waiting entry
   belongs to the connect a port was given to, `SplicedToOwnRemote` and
   `AcceptFindsRemote`.  `SplicedRight` and `AcceptFinds` follow.
3. `HandoverImplements`, assuming `PortsExclusive`: every behaviour is one of
   `Interception`'s safety part.  Each step moves each connect in one of a few
   ways (`EveryStepMoves`); each of these is a change of outcome that
   `Interception` allows or none.
4. `HandoverEnds`, with no assumption on ports: `StepsLeft` weighs a request more than
   the remote connect it starts, that more than the reply and the accept that
   follow, so every handler that touches a connect's handover lowers it, and
   every other step leaves it as it is.  Crashes and losses only lower it.

`UdpRelayProofs` does the same for the UDP path, for any sockets, addresses,
numbers of datagrams and flows, and any period and limit of the timer:

1. `FlowsAlways`: `Flows` = `TypeOK`, `InfoHasAddr`, `FlowOwnsEntry` and `Timed`.
   That a flow is idle for less than the limit and a period together is not
   inductive: time passes in it.  `Timed` is: what is idle and what the timer still
   needs together stay below that bound, since time moves one to the other, and a
   check that starts the timer again has found the flow below the limit.
   `TypeOK` needs `Timed`, because it bounds the idle time.  `UdpTypeCorrect`,
   `EntriesOwned` and `IdleIsBounded` follow.
2. `BelongsAlways`: `Belongs` extends `AnswerBelongs` from the answers to what they
   are made from, the requests and the flows with the socket id they keep.
   `AnswersBelong` follows.
3. `SendsFit`, assuming `SendsCopied`: `Right` extends `DeliveredAsSent` to the sends
   that are outstanding.  Its step needs the table: as long as a flow has an
   entry, the processor with an outstanding send for it is still the one the send
   was started on.
4. `RelayServes`, assuming `SendsCopied`: every behaviour is one of `FlowService`.  A
   handler changes one flow at most, which `Flows`,
   `Belongs` and `Right` together identify: the first gives the processor that a
   flow has, the second whose socket it answers to, the third what is carried.
   The lower bound on the life of a flow comes from the timer's own check, the
   upper one from `Timed`.

`SessionTcpProofs` is about any buffer size, any width of sizes that exceeds it, and
any number of bytes, assuming that sends to the application are whole (`UpOnly`:
after a partial one the code goes wrong, as `session_short_write` shows).  `Flow`
says of one direction that it has one operation at most, that a write covers
exactly what the buffer holds, and that `out` is the first `taken - size` bytes; a
handler changes one direction only, so one lemma per handler suffices.
`RelayTypeCorrect`, `OneAtATime` and `BufferIsRest` follow.  `ClosedWhenDrained` needs
`Drained`: if one side alone is closed, its peer reset the connection, or ended it
and nothing of it is left.  `RelayIsPipe` is the refinement: a write that completes
is `Deliver`, a failing handler is `Closing`, and a completed read is a stutter.  `RestAlwaysSent` shows that
`RestIsSent`, which `session_short_write` refutes, needs no more than whole sends.
`SessionComesToRest`: `Work` gives a byte not yet read two steps and one in the
buffer one, so that a read, a write and a failure each lower it.

`HeartbeatProofs` counts evt_ids.  `InTime` says how many ids ago a message of each
age was posted, at least and at most, and that the latest heartbeat was posted
exactly `posted + 1` ids ago.  Since a message is lost before the counter comes
round (`BoundAssumption`), only messages of age 0 carry the latest id.
`OnlyLatestForgives` follows, and with `Silence` (the replies of a dead proxy are as
old as its silence) `DeadNoticed`.  `TrustIsKept` needs that a miss is allowed
(`MaxMisses > 0`): the count is 1 between a heartbeat and its answer.  That the answer
under way is to the latest heartbeat is again a matter of ids.

`RendezvousProofs`: a proxy's ports are held before its `Write` and settled from then
on (`Held`, `SettledStays`), the mapping and what was read from it are blank or one
proxy's (`Whole`), and a mapping that a live proxy has written to and has open is
not blank (`Kept`).  `PortsAreServed` and `BlankIsRare` follow.  `WrittenIsFound` adds that
a size is only there because a proxy wrote it (`SizedByWrite`); then a filter that
looks at a finished mapping reads it.  `StartupComesToEnd` follows each `main` along
its scan and its wait, with the number of steps that it has left.

`EventSenderProofs`: while a request is being handled `sender` is its filter; for an
open request `sender` is its filter or is in `heard`.  `HeartRepliesRight` and
`AstrayOverheard` follow.  `SingleFilter` shows that one filter alone always gets its
replies, the case that the other modules have.  `NoRequestDropped` follows each
request through queue, buffer and `open`: what one filter asks for is never lost
by what another one does or by its death.

`FlowMapProofs`: the comparison of IPv4 flows is a strict total order (`V4Ordered`).
With such an order the tree is `Tidy`: its entries are in order, their ids differ,
and they are the processors that live.  Then a walk parts the entries into those
that are less and those that are not (`PlaceParts`), so that a search finds what is
filed, and a timer erases one entry, its own (`ErasedIsOne`).  `V4TreeIsTable`
concludes that the tree is a `FlowTable`, for any number of flows that come and
go.  `MapIsTree` holds for all flows; with it `V4IsFound` says of IPv4 what
`flows_ipv6` refutes for IPv6.  `V6NotOrdered` and `V6SourceIgnored` show what is wrong
with `operator<` and `operator!=` there.

`ValueProofs`: the exact lengths at which an event is cut (`RequestIsWhole`,
`WholeIsSent`) and memory for an answer is too small (`AnswerFits`); until
`timeGetTime` wraps the fallback clock is exact (`ExactBeforeWrap`), and from then on
it is a block of 4096 ms off at the end of each block (`BlockOffAfterWrap`).

The assumptions are those named in the modules (`ConnAssumption`,
`SentinelAssumption`, `BoundAssumption` and so on: disjoint sentinels, natural
bounds, at least one tick of period and limit), and `PortsExclusive`, `SendsCopied`,
`UpOnly`, `MaxMisses > 0` and a set of IPv4 flows where a theorem names them.

*Only model-checked:* liveness under fairness (`KeepsPromise`'s and `KeepsPipe`'s
fairness parts, `Recovers`, `SessionEnds`, `IdleFlowsGo`, `Finds`, `StartupEnds`,
`EveryRequestServed`), which is out of the proof system's reach: it needs ENABLED
and, to get from "each step brings it nearer" to "it ends", an induction.  What
is proved is the part that the code decides, that each step brings it nearer or
keeps it; what is left to TLC is that such a step can be taken, on the small
instances.

## 5. Not modelled

* *Startup and serving together.*  `Rendezvous` ends where the other modules begin:
  these have processes that know each other's ports, and a proxy that returns
  there returns on the same ports.  If it returns on others, the filter, which
  reads the ports once, sees a proxy that stays dead.
* *The verdict of the heartbeat in the handover.*  `TcpHandover` takes an arbitrary
  one; its properties hold for every behaviour of `Heartbeat` therefore, and a
  composition of the two would be a special case.
* *Several filters in the handover and the UDP path.*  `EventSender` says when a
  reply reaches another filter; what that filter does with an event it did not
  ask for depends on the driver, which knows no connect of that id.
* *Two proxies that listen on one forward port* (`SO_REUSEADDR`): which of them gets
  a connection is the system's choice.  `Rendezvous` has the state, nothing after it.
* *The flow table under IPv6 with erasures or more than three keys*: three keys break
  it, and with no order `std::map` promises nothing.
* *Completions already queued when a socket is closed* (`SessionTcp`, `UdpRelay`): an
  operation of the models is outstanding until its handler runs, so closing a
  socket makes it fail.  In the code a receive that has completed well just before
  the close still runs its handler with its data; a UDP answer of that kind would
  be sent on after its flow was closed.
* *The memory of events between handlers and the system*: `ServerEvent` fills one
  `_heart_resp` again for every heartbeat (`ServerEvent.cpp:61-71`), also while an
  earlier reply is still being sent; the model sends each reply as it was made.
* *Concurrent use of one socket object* (`ClientEvent.cpp:27`): whether the library
  stands it is not a matter of this code's states.
* *Uncaught exceptions* other than the one of `SessionUdp::doConnectRemote`: they
  end a process, which `ProxyCrash` lets happen at any time.
* *`GetNowTime`'s usual path* is one division of the performance counter, and the
  other helpers of `Utils` format or print.
* *`ServerUdp::Start` and `Stop`, `SetForwardPort`, `ClientEvent::stop`* change fields that
  nothing reads, or run only when the process ends.
* *Driver rules* (`OpenNetfilter`): a fixed list of calls whose meaning lies in a
  driver that is not in the repository.  `ProxyLogic` is a stub nobody calls.
  `third_party` is vendored.

## 6. What is left

The parts that carry states are modelled, and every safety and action property
that a run checks is stated by a theorem.  Two extensions are worth their cost if
the code changes: `V4TreeIsTable` for IPv6 too, once its addresses have an order
(the proof asks for nothing else); and `Rendezvous` composed with `Heartbeat`, once
the filter reads the ports again when its proxy is dead.
