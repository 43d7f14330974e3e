---------------------------- MODULE TcpHandover -----------------------------
(***************************************************************************)
(* How one intercepted TCP connect travels from the filter process to the  *)
(* proxy process and back, and is finally accepted by the proxy.           *)
(*                                                                         *)
(*   filter   NetFilter::tcpConnectRequest   holds the connect and posts   *)
(*            a request datagram (ClientEvent::post)                       *)
(*   proxy    ServerEvent -> ServerTcp::OnEventRequest starts a connect to *)
(*            the original destination; when it completes, the socket and  *)
(*            the request wait under the application's local PORT, and a   *)
(*            reply datagram says whether to redirect                      *)
(*   filter   NetFilter::onTcpConnectReplay completes the held connect,    *)
(*            redirected to the proxy's listener or unchanged              *)
(*   proxy    ServerTcp::onAccept pairs the connection it accepted with    *)
(*            what waits under the peer's port, and makes a session        *)
(*                                                                         *)
(* Both datagrams can be lost, nothing retries or times out, the proxy can *)
(* die and come back, and the application can close at any moment.  What   *)
(* the two ends of a session then do is the business of SessionTcp.        *)
(***************************************************************************)
EXTENDS Naturals

CONSTANTS Conn,            \* TCP connects the driver intercepts, each made once
          Port,            \* local ports the operating system hands out
          V6,              \* the connects made over IPv6
          NoConn, NoPort,  \* stand for no connect and no port
          PortsExclusive,  \* TRUE: a port is not handed out again, in either
                           \* family, before its last handover is finished
          MaxCrashes       \* bound on the deaths of the proxy

ASSUME ConnAssumption == V6 \subseteq Conn /\ NoConn \notin Conn
ASSUME PortAssumption == NoPort \notin Port
ASSUME BoundAssumption == PortsExclusive \in BOOLEAN /\ MaxCrashes \in Nat

VARIABLES
  phase,      \* phase[c]: what the application and the driver see of c
  port,       \* port[c]: the application's local port
  reqs,       \* connects whose evt_tcpnew_req is in flight or queued at the proxy
  connecting, \* connects whose remote socket is in async_connect
  socketAt,   \* _sessions_socket: port -> the connect whose remote socket waits
  infoAt,     \* _sessions_conninfo: port -> the connect whose request waits
  replies,    \* evt_tcpnew_resp datagrams in flight: [id, redirect]
  backlog,    \* redirected connections the proxy has not accepted yet
  remoteOf,   \* remoteOf[c]: whose remote socket the session of c was given
  infoOf,     \* infoOf[c]: whose request the session of c was given
  up,         \* the proxy process is running
  crashes,    \* how often it has died
  lost,       \* connects whose request or reply is gone for good
  orphans     \* connections accepted with nothing waiting for them

proxyState == <<connecting, socketAt, infoAt>>
sessions == <<remoteOf, infoOf, orphans>>
faults == <<up, crashes, lost>>
vars == <<phase, port, reqs, proxyState, replies, backlog, sessions, faults>>

Phase == {"new", "pended", "direct", "redirected", "spliced", "gone"}
Reply == [id : Conn, redirect : BOOLEAN]

Init ==
  /\ phase = [c \in Conn |-> "new"]
  /\ port = [c \in Conn |-> NoPort]
  /\ reqs = {} /\ connecting = {} /\ replies = {} /\ backlog = {}
  /\ socketAt = [p \in Port |-> NoConn]
  /\ infoAt = [p \in Port |-> NoConn]
  /\ remoteOf = [c \in Conn |-> NoConn]
  /\ infoOf = [c \in Conn |-> NoConn]
  /\ up = TRUE /\ crashes = 0 /\ lost = {} /\ orphans = {}

-----------------------------------------------------------------------------
(* Helpers.                                                                *)

\* c still occupies its port: the application has not closed it.
Live(c) == phase[c] \notin {"new", "gone"}

\* Some step of the handover of c is still to come.
Unfinished(c) == \/ c \in reqs \union connecting \union backlog
                 \/ \E r \in replies : r.id = c

SameFamily(c, d) == (c \in V6) <=> (d \in V6)

\* The operating system gives no port of a live connection to another one of
\* the same family; a port of the other family, or of a closed connection, is
\* free, unless PortsExclusive rules it out.
PortFree(c, p) == \A d \in Conn \ {c} : port[d] = p =>
    /\ ~(Live(d) /\ SameFamily(c, d))
    /\ PortsExclusive => ~Live(d) /\ ~Unfinished(d)

\* Planted bugs, for the mutants of PROJECT.json: an entry that is there already
\* is kept (insert for operator[]), never erased, or erased with its slot.
FiledIfAbsent(map, p, c) == [map EXCEPT ![p] = IF @ = NoConn THEN c ELSE @]
ErasedNever(map, p) == map
ErasedWithSlot(map, p) == [q \in DOMAIN map \ {p} |-> map[q]]

\* The map with c filed under port p: operator[] of std::map overwrites.
Filed(map, p, c) == [map EXCEPT ![p] = c]

Erased(map, p) == [map EXCEPT ![p] = NoConn]

Closing(cs) == [c \in Conn |-> IF c \in cs THEN "gone" ELSE phase[c]]

-----------------------------------------------------------------------------
(* The filter process and the driver.                                      *)

\* The driver holds the connect c, made from port p.  If the heartbeat says the
\* proxy is there, a request is posted, which nobody receives when it is not;
\* otherwise the connect is completed unchanged at once.
TcpConnectRequest(c, p, active) ==
  /\ phase[c] = "new" /\ PortFree(c, p)
  /\ port' = [port EXCEPT ![c] = p]
  /\ phase' = [phase EXCEPT ![c] = IF active THEN "pended" ELSE "direct"]
  /\ reqs' = IF active /\ up THEN reqs \union {c} ELSE reqs
  /\ lost' = IF active /\ ~up THEN lost \union {c} ELSE lost
  /\ UNCHANGED <<proxyState, replies, backlog, sessions, up, crashes>>

\* A reply completes the connect: towards the proxy's listener (refused when
\* nobody listens), or unchanged.  The driver ignores an endpoint it no longer
\* holds.
OnTcpConnectReplay(r) ==
  LET c == r.id
      target == IF ~r.redirect THEN "direct" ELSE IF up THEN "redirected" ELSE "gone"
  IN /\ r \in replies
     /\ replies' = replies \ {r}
     /\ IF phase[c] = "pended"
        THEN /\ phase' = [phase EXCEPT ![c] = target]
             /\ backlog' = IF target = "redirected" THEN backlog \union {c} ELSE backlog
        ELSE UNCHANGED <<phase, backlog>>
     /\ UNCHANGED <<port, reqs, proxyState, sessions, faults>>

\* The application closes c, whatever stage it has reached.  A connection that
\* is in the listener's backlog stays there.
AppCloses(c) ==
  /\ Live(c)
  /\ phase' = Closing({c})
  /\ UNCHANGED <<port, reqs, proxyState, replies, backlog, sessions, faults>>

-----------------------------------------------------------------------------
(* The proxy process: handlers of one io_context, run one at a time.       *)

\* The request of c is taken from the socket and a remote connect begins.
ConnectBegins(c, answer) ==
  /\ up /\ c \in reqs
  /\ reqs' = reqs \ {c}
  /\ connecting' = connecting \union {c}
  /\ replies' = replies \union answer
  /\ UNCHANGED <<phase, port, socketAt, infoAt, backlog, sessions, faults>>

\* The remote connect of c ends: c is filed under its port or not, and answered.
ConnectEnds(c, filed, answer) ==
  /\ up /\ c \in connecting
  /\ connecting' = connecting \ {c}
  /\ socketAt' = IF filed THEN Filed(socketAt, port[c], c) ELSE socketAt
  /\ infoAt' = IF filed THEN Filed(infoAt, port[c], c) ELSE infoAt
  /\ replies' = replies \union answer
  /\ UNCHANGED <<phase, port, reqs, backlog, sessions, faults>>

Answer(c, ok) == {[id |-> c, redirect |-> ok]}

\* Planted bugs: the redirection is sent before the remote end is reached, a
\* failed connect is not answered, a failed connect is filed like a good one.
OnEventRequestAnswersFirst(c) == ConnectBegins(c, Answer(c, TRUE))
ConnectDoneSilentFailure(c, ok) == ConnectEnds(c, ok, IF ok THEN Answer(c, ok) ELSE {})
ConnectDoneFilesAlways(c, ok) == ConnectEnds(c, TRUE, Answer(c, ok))

\* ServerTcp starts connecting to the original destination of c.
OnEventRequest(c) == ConnectBegins(c, {})

\* The remote connect of c completes.  Only a success files the socket and the
\* request under the port of c; either way a reply is sent, and it asks for
\* the redirection only if the remote end was reached.
ConnectDone(c, ok) == ConnectEnds(c, ok, Answer(c, ok))

\* The listener accepts c, whose peer port is the application's.  What waits
\* under that port becomes its session; if nothing does, the accepted socket
\* is dropped, which closes the connection.
OnAccept(c) ==
  LET p == port[c]
      found == socketAt[p] # NoConn /\ infoAt[p] # NoConn
  IN /\ up /\ c \in backlog
     /\ backlog' = backlog \ {c}
     /\ IF found
        THEN /\ remoteOf' = [remoteOf EXCEPT ![c] = socketAt[p]]
             /\ infoOf' = [infoOf EXCEPT ![c] = infoAt[p]]
             /\ socketAt' = Erased(socketAt, p) /\ infoAt' = Erased(infoAt, p)
             /\ phase' = IF Live(c) THEN [phase EXCEPT ![c] = "spliced"] ELSE phase
             /\ UNCHANGED orphans
        ELSE /\ orphans' = orphans \union {c}
             /\ phase' = Closing({c})
             /\ UNCHANGED <<socketAt, infoAt, remoteOf, infoOf>>
     /\ UNCHANGED <<port, reqs, connecting, replies, faults>>

\* The accept completes with an error, because the application has closed the
\* connection meanwhile: it is only logged.
AcceptError(c) ==
  /\ up /\ c \in backlog /\ ~Live(c)
  /\ backlog' = backlog \ {c}
  /\ UNCHANGED <<phase, port, reqs, proxyState, replies, sessions, faults>>

-----------------------------------------------------------------------------
(* Faults.                                                                 *)

\* A datagram is dropped on the way; neither process sends it again.
LoseRequest(c) ==
  /\ c \in reqs
  /\ reqs' = reqs \ {c} /\ lost' = lost \union {c}
  /\ UNCHANGED <<phase, port, proxyState, replies, backlog, sessions, up, crashes>>

LoseReply(r) ==
  /\ r \in replies
  /\ replies' = replies \ {r} /\ lost' = lost \union {r.id}
  /\ UNCHANGED <<phase, port, reqs, proxyState, backlog, sessions, up, crashes>>

\* The proxy dies with everything it held: requests queued at its socket,
\* sockets being connected or waiting, its backlog and its sessions.  Replies
\* it has already sent are in the filter's socket.
ProxyCrash ==
  /\ up /\ crashes < MaxCrashes
  /\ up' = FALSE /\ crashes' = crashes + 1
  /\ lost' = lost \union reqs \union connecting
  /\ reqs' = {} /\ connecting' = {} /\ backlog' = {}
  /\ socketAt' = [p \in Port |-> NoConn] /\ infoAt' = [p \in Port |-> NoConn]
  /\ phase' = Closing({c \in Conn : phase[c] \in {"redirected", "spliced"}})
  /\ UNCHANGED <<port, replies, sessions>>

\* It is started again and listens on the same ports.
ProxyRestart ==
  /\ ~up
  /\ up' = TRUE
  /\ UNCHANGED <<phase, port, reqs, proxyState, replies, backlog, sessions, crashes, lost>>

-----------------------------------------------------------------------------
Filter == \/ \E c \in Conn, p \in Port, active \in BOOLEAN : TcpConnectRequest(c, p, active)
          \/ \E r \in replies : OnTcpConnectReplay(r)
          \/ \E c \in Conn : AppCloses(c)

Proxy == \/ \E c \in Conn : OnEventRequest(c)
         \/ \E c \in Conn, ok \in BOOLEAN : ConnectDone(c, ok)
         \/ \E c \in Conn : OnAccept(c)
         \/ \E c \in Conn : AcceptError(c)

Fault == \/ \E c \in Conn : LoseRequest(c)
         \/ \E r \in replies : LoseReply(r)
         \/ ProxyCrash
         \/ ProxyRestart

Next == Filter \/ Proxy \/ Fault

\* Both processes run their ready handlers, a connect to a remote end succeeds
\* or fails in the end, and the listener's backlog is served in order.  Nothing
\* obliges an application to act, a datagram to be lost, or the proxy to die.
Fairness ==
  /\ \A r \in Reply : WF_vars(OnTcpConnectReplay(r))
  /\ \A c \in Conn : /\ WF_vars(OnEventRequest(c))
                     /\ WF_vars(\E ok \in BOOLEAN : ConnectDone(c, ok))
                     /\ WF_vars(OnAccept(c) \/ AcceptError(c))

Spec == Init /\ [][Next]_vars
FairSpec == Spec /\ Fairness
-----------------------------------------------------------------------------
(* Properties.                                                             *)

\* Every variable keeps its type, and a connect has a port from the moment it is
\* intercepted.
TypeOK ==
  /\ phase \in [Conn -> Phase]
  /\ port \in [Conn -> Port \union {NoPort}]
  /\ \A c \in Conn : phase[c] = "new" <=> port[c] = NoPort
  /\ reqs \subseteq Conn /\ connecting \subseteq Conn /\ backlog \subseteq Conn
  /\ socketAt \in [Port -> Conn \union {NoConn}]
  /\ infoAt \in [Port -> Conn \union {NoConn}]
  /\ replies \subseteq Reply
  /\ remoteOf \in [Conn -> Conn \union {NoConn}]
  /\ infoOf \in [Conn -> Conn \union {NoConn}]
  /\ up \in BOOLEAN /\ crashes \in 0..MaxCrashes
  /\ lost \subseteq Conn /\ orphans \subseteq Conn

\* Every session onAccept makes carries the remote socket and the request of
\* the very connection that was accepted, although the two are matched by a
\* port number alone: a stale or foreign entry under the port would send an
\* application's data to somebody else's server.
SplicedToOwnRemote == \A c \in Conn :
    /\ remoteOf[c] \in {c, NoConn}
    /\ infoOf[c] \in {c, NoConn}

\* onAccept's branch marked impossible (ServerTcp.cpp:141) is not reached as
\* long as the proxy has not died and no port is shared: whatever is redirected
\* has its entry.  The comment on the two maps disagrees with that branch: it
\* says that an accept can come before its event (ServerTcp.h:37-40).  In this
\* code it cannot, since a connect is redirected only by the reply, which
\* ConnectDone sends when both entries are filed; what does lead there is an
\* entry that was taken, by a shared port, or lost, with a dead proxy.
AcceptFindsRemote == crashes = 0 => orphans = {}

\* A held connect has exactly one thing left that can release it, a request, a
\* connect in progress or a reply, or else that thing was lost: no handler
\* consumes it without passing it on, and none passes it on twice.  In
\* particular nothing waits to be accepted while its event or its remote connect
\* is still to be handled: the order of which ServerTcp.h:39 warns.
HeldHasOneToken ==
  /\ \A c \in Conn : phase[c] = "pended" =>
        c \in reqs \union connecting \union lost \/ \E r \in replies : r.id = c
  /\ reqs \intersect connecting = {}
  /\ (reqs \union connecting) \intersect (backlog \union lost) = {}
  /\ \A r \in replies : r.id \notin reqs \union connecting \union backlog \union lost
  /\ \A r, s \in replies : r.id = s.id => r = s

\* A connect the filter lets through unchanged has neither a remote socket
\* waiting in the proxy nor a session: its data does not take both ways.
DirectHasNoRemote == \A c \in Conn : phase[c] = "direct" =>
    /\ remoteOf[c] = NoConn
    /\ \A p \in Port : socketAt[p] # c /\ infoAt[p] # c

\* What waits under a port belongs to one connect, the one that has the port,
\* and stays only while its reply or its connection is still to arrive, or
\* because the application gave up or the reply was lost: the only ways in
\* which the two maps can leak.
WaitingIsAccounted == \A p \in Port :
    LET c == socketAt[p]
    IN /\ infoAt[p] = c
       /\ c # NoConn =>
            /\ port[c] = p
            /\ \/ [id |-> c, redirect |-> TRUE] \in replies
               \/ c \in backlog
               \/ phase[c] = "gone" \/ c \in lost

\* How many steps the handover of c has left at most: a request in flight has
\* four, a connect in progress three, a reply two, and the accept is the last.
Count(n, there) == IF there THEN n ELSE 0
StepsLeft(c) == Count(4, c \in reqs) + Count(3, c \in connecting)
                  + Count(2, [id |-> c, redirect |-> TRUE] \in replies)
                  + Count(2, [id |-> c, redirect |-> FALSE] \in replies)
                  + Count(1, c \in backlog)

Stage(c) == <<c \in reqs, c \in connecting, {r \in replies : r.id = c}, c \in backlog>>

\* A handover that has begun only comes nearer to its end, whatever happens to
\* it or to others: no handler starts it again, answers twice or goes back, and
\* a proxy that dies and returns does not take it up again.
HandoverShrinks ==
  [][\A c \in Conn : phase[c] # "new" =>
       UNCHANGED Stage(c) \/ StepsLeft(c)' < StepsLeft(c)]_vars

\* The handover as the application sees it.
Outcome(c) == CASE phase[c] = "new" -> "idle"
                [] phase[c] = "pended" -> IF c \in lost THEN "stranded" ELSE "held"
                [] phase[c] = "redirected" -> "held"
                [] phase[c] = "gone" -> "closed"
                [] OTHER -> phase[c]

Promise == INSTANCE Interception WITH
    outcome <- [c \in Conn |-> Outcome(c)],
    partner <- [c \in Conn |-> IF phase[c] = "spliced" THEN remoteOf[c] ELSE NoConn]

\* The handover keeps the promise of Interception: a connect leaves the hold
\* once, to its own destination or its own remote socket, and is held for ever
\* only if a datagram or the proxy was lost.
KeepsPromise == Promise!Spec
=============================================================================
