------------------------- MODULE TcpHandoverProofs --------------------------
(***************************************************************************)
(* Proofs about TcpHandover, for any connects, ports and number of crashes.*)
(*                                                                         *)
(* The argument has two layers.  Stages says, connect by connect, where    *)
(* the one token of a handover may be and what the application sees then;  *)
(* it needs nothing of the operating system.  Paired adds what matching by *)
(* port needs: two unfinished handovers never share a port, which is what  *)
(* PortsExclusive provides and Windows does not.                           *)
(***************************************************************************)
EXTENDS TcpHandover, TLAPS

-----------------------------------------------------------------------------
(* First layer.                                                            *)

\* What the application sees of a connect, given where its token is.
StageOK ==
  /\ \A c \in reqs \union connecting \union lost : phase[c] \in {"pended", "gone"}
  /\ \A r \in replies : phase[r.id] \in {"pended", "gone"}
  /\ \A c \in backlog : phase[c] \in {"redirected", "gone"}
  /\ \A c \in Conn : remoteOf[c] # NoConn => phase[c] \in {"spliced", "gone"}
  /\ \A c \in Conn : phase[c] = "spliced" => remoteOf[c] # NoConn

Stages == TypeOK /\ HeldHasOneToken /\ StageOK /\ WaitingIsAccounted

\* The initial state satisfies the first layer.
LEMMA StagesInit == Init => Stages
  BY ConnAssumption, PortAssumption, BoundAssumption
  DEF Init, Stages, TypeOK, HeldHasOneToken, StageOK, WaitingIsAccounted, Phase, Reply

\* TcpConnectRequest keeps the first layer: a new connect has no token yet.
LEMMA StagesRequest ==
  ASSUME Stages, NEW c \in Conn, NEW p \in Port, NEW active \in BOOLEAN,
         TcpConnectRequest(c, p, active)
  PROVE  Stages'
<1> USE PortAssumption, ConnAssumption, BoundAssumption
        DEF Stages, TcpConnectRequest, proxyState, sessions
<1>1. TypeOK'
  BY DEF TypeOK, Phase, Reply
<1>2. HeldHasOneToken'
  BY DEF TypeOK, HeldHasOneToken, StageOK
<1>3. StageOK'
  BY DEF TypeOK, StageOK, Reply
<1>4. WaitingIsAccounted'
  BY DEF TypeOK, WaitingIsAccounted
<1> QED BY <1>1, <1>2, <1>3, <1>4

\* OnTcpConnectReplay keeps the first layer: the reply is the connect's one token.
LEMMA StagesReplay ==
  ASSUME Stages, NEW r \in replies, OnTcpConnectReplay(r)
  PROVE  Stages'
<1> USE PortAssumption, ConnAssumption, BoundAssumption
        DEF Stages, OnTcpConnectReplay, proxyState, sessions, faults
<1>1. TypeOK'
  BY DEF TypeOK, Phase, Reply
<1>2. HeldHasOneToken'
  BY DEF TypeOK, HeldHasOneToken, StageOK, Reply
<1>3. StageOK'
  BY DEF TypeOK, StageOK, HeldHasOneToken, Reply
<1>4. WaitingIsAccounted'
  BY DEF TypeOK, WaitingIsAccounted, StageOK, Reply
<1> QED BY <1>1, <1>2, <1>3, <1>4

\* OnEventRequest keeps the first layer: the token moves from reqs to connecting.
LEMMA StagesEventRequest ==
  ASSUME Stages, NEW c \in Conn, OnEventRequest(c)
  PROVE  Stages'
  BY DEF Stages, OnEventRequest, ConnectBegins, TypeOK, HeldHasOneToken, StageOK,
         WaitingIsAccounted, sessions, faults

\* What ConnectDone does, its Boolean argument taken apart.
LEMMA ConnectDoneStep ==
  ASSUME TypeOK, NEW c \in Conn, NEW ok \in BOOLEAN, ConnectDone(c, ok)
  PROVE  /\ c \in connecting /\ connecting' = connecting \ {c}
         /\ UNCHANGED <<phase, port, reqs, backlog, sessions, faults>>
         /\ \E r \in Reply : /\ r.id = c
                             /\ r = [id |-> c, redirect |-> TRUE] <=> ok
                             /\ replies' = replies \union {r}
         /\ \/ /\ ok
               /\ socketAt' = [socketAt EXCEPT ![port[c]] = c]
               /\ infoAt' = [infoAt EXCEPT ![port[c]] = c]
            \/ ~ok /\ UNCHANGED <<socketAt, infoAt>>
<1> USE DEF ConnectDone, ConnectEnds, Answer, Filed
<1>1. CASE ok
  <2>1. [id |-> c, redirect |-> TRUE] \in Reply
    BY DEF Reply
  <2>2. replies' = replies \union {[id |-> c, redirect |-> TRUE]}
    BY <1>1
  <2> QED BY <1>1, <2>1, <2>2
<1>2. CASE ~ok
  <2>1. [id |-> c, redirect |-> FALSE] \in Reply
    BY DEF Reply
  <2>2. replies' = replies \union {[id |-> c, redirect |-> FALSE]}
    BY <1>2
  <2>3. [id |-> c, redirect |-> FALSE] # [id |-> c, redirect |-> TRUE]
    OBVIOUS
  <2> QED BY <1>2, <2>1, <2>2, <2>3
<1> QED BY <1>1, <1>2

\* ConnectDone keeps the first layer: a success is filed when it is announced.
LEMMA StagesConnectDone ==
  ASSUME Stages, NEW c \in Conn, NEW ok \in BOOLEAN, ConnectDone(c, ok)
  PROVE  Stages'
<1> USE PortAssumption, ConnAssumption, BoundAssumption DEF Stages, sessions, faults
<1>0. PICK r \in Reply : /\ r.id = c
                         /\ r = [id |-> c, redirect |-> TRUE] <=> ok
                         /\ replies' = replies \union {r}
  BY ConnectDoneStep
<1>1. TypeOK'
  BY <1>0, ConnectDoneStep DEF TypeOK
<1>2. HeldHasOneToken'
  BY <1>0, ConnectDoneStep DEF TypeOK, HeldHasOneToken
<1>3. StageOK'
  BY <1>0, ConnectDoneStep DEF TypeOK, StageOK
<1>4. WaitingIsAccounted'
  BY <1>0, ConnectDoneStep DEF TypeOK, WaitingIsAccounted, StageOK
<1> QED BY <1>1, <1>2, <1>3, <1>4

\* The two maps always hold the same connects.
LEMMA MapsAgree == WaitingIsAccounted => \A p \in Port : infoAt[p] = socketAt[p]
  BY DEF WaitingIsAccounted

\* Closing some connects changes what is seen of them and of no other.
LEMMA ClosingIs ==
  ASSUME TypeOK, NEW cs
  PROVE  /\ Closing(cs) \in [Conn -> Phase]
         /\ \A d \in Conn : /\ d \in cs => Closing(cs)[d] = "gone"
                            /\ d \notin cs => Closing(cs)[d] = phase[d]
  BY DEF Closing, TypeOK, Phase

\* OnAccept keeps the first layer: what waited under the port is erased.
LEMMA StagesAccept ==
  ASSUME Stages, NEW c \in Conn, OnAccept(c)
  PROVE  Stages'
<1> USE PortAssumption, ConnAssumption, BoundAssumption
        DEF Stages, OnAccept, Erased, Live, sessions, faults
<1>0. /\ phase[c] \in {"redirected", "gone"}
      /\ c \notin reqs \union connecting
      /\ \A r \in replies : r.id # c
      /\ phase' \in [Conn -> Phase]
      /\ \A d \in Conn : d # c => phase'[d] = phase[d]
      /\ \/ phase'[c] = "spliced" /\ phase[c] # "gone"
         \/ phase'[c] = "gone"
  <2>1. /\ phase[c] \in {"redirected", "gone"}
        /\ c \notin reqs \union connecting
        /\ \A r \in replies : r.id # c
    BY DEF StageOK, HeldHasOneToken
  <2> QED BY <2>1, ClosingIs DEF TypeOK, Phase
<1>1. TypeOK'
  <2>1. /\ phase' \in [Conn -> Phase]
        /\ \A d \in Conn : phase'[d] = "new" <=> phase[d] = "new"
    BY <1>0 DEF TypeOK, Phase
  <2>2. port[c] \in Port
    BY <1>0 DEF TypeOK
  <2> QED BY <2>1, <2>2 DEF TypeOK
<1>2. HeldHasOneToken'
  BY <1>0 DEF TypeOK, HeldHasOneToken
<1>3. StageOK'
  <2>1. \A d \in Conn : remoteOf'[d] # remoteOf[d] => d = c /\ phase'[c] \in {"spliced", "gone"}
    BY <1>0 DEF TypeOK
  <2>2. phase'[c] = "spliced" => remoteOf'[c] # NoConn
    BY <1>0, ClosingIs DEF TypeOK
  <2> HIDE DEF OnAccept
  <2>3. UNCHANGED <<reqs, connecting, lost, replies>> /\ backlog' \subseteq backlog \ {c}
    BY DEF OnAccept
  <2>4. \A d \in Conn \ {c} : remoteOf'[d] = remoteOf[d]
    BY <2>1
  <2> QED BY <2>1, <2>2, <2>3, <2>4, <1>0 DEF TypeOK, StageOK, Reply
<1>4. WaitingIsAccounted'
  <2>1. port[c] \in Port
    BY <1>0 DEF TypeOK
  <2>2. \A p \in Port : infoAt[p] = socketAt[p]
    BY MapsAgree
  <2>3. \A p \in Port : /\ infoAt'[p] = socketAt'[p]
                        /\ socketAt'[p] # NoConn =>
                             p # port[c] /\ socketAt'[p] = socketAt[p]
    BY <2>1, <2>2 DEF TypeOK
  <2>4. /\ UNCHANGED <<port, replies, lost>> /\ backlog' = backlog \ {c}
        /\ \A d \in Conn \ {c} : phase'[d] = phase[d]
    BY <1>0
  <2> HIDE DEF OnAccept
  <2> QED BY <2>3, <2>4 DEF TypeOK, WaitingIsAccounted
<1> QED BY <1>1, <1>2, <1>3, <1>4

\* AppCloses and AcceptError keep the first layer: a closed connect stays closed.
LEMMA StagesClose ==
  ASSUME Stages, NEW c \in Conn, AppCloses(c) \/ AcceptError(c)
  PROVE  Stages'
<1> USE DEF Stages, AppCloses, AcceptError, Live, proxyState, sessions, faults
<1>1. /\ phase' \in [Conn -> Phase]
      /\ \A d \in Conn : \/ phase'[d] = phase[d]
                         \/ phase'[d] = "gone" /\ phase[d] # "new"
  <2>1. CASE AppCloses(c)
    <3>1. phase' = Closing({c}) /\ phase[c] # "new"
      BY <2>1
    <3> QED BY <3>1, ClosingIs
  <2>2. CASE AcceptError(c)
    BY <2>2 DEF TypeOK
  <2> QED BY <2>1, <2>2
<1>2. TypeOK'
  BY <1>1 DEF TypeOK
<1>3. HeldHasOneToken'
  BY <1>1 DEF TypeOK, HeldHasOneToken
<1>4. StageOK'
  BY <1>1 DEF TypeOK, StageOK, Reply
<1>5. WaitingIsAccounted'
  BY <1>1, ConnAssumption DEF TypeOK, WaitingIsAccounted, StageOK
<1> QED BY <1>2, <1>3, <1>4, <1>5

\* The faults keep the first layer: what they consume is recorded as lost.
LEMMA StagesFault ==
  ASSUME Stages, Fault
  PROVE  Stages'
<1> USE PortAssumption, ConnAssumption, BoundAssumption DEF Stages
<1>1. ASSUME NEW c \in Conn, LoseRequest(c) PROVE Stages'
  BY <1>1 DEF LoseRequest, TypeOK, HeldHasOneToken, StageOK, WaitingIsAccounted,
              proxyState, sessions
<1>2. ASSUME NEW r \in replies, LoseReply(r) PROVE Stages'
  BY <1>2 DEF LoseReply, TypeOK, HeldHasOneToken, StageOK, WaitingIsAccounted,
              proxyState, sessions, Reply
<1>3. CASE ProxyCrash
  <2> USE <1>3 DEF ProxyCrash, sessions
  <2>0. /\ phase' \in [Conn -> Phase]
        /\ \A d \in Conn :
             /\ phase[d] \in {"redirected", "spliced"} => phase'[d] = "gone"
             /\ phase[d] \notin {"redirected", "spliced"} => phase'[d] = phase[d]
    BY ClosingIs DEF TypeOK
  <2>1. TypeOK'
    <3>1. crashes' \in 0..MaxCrashes
      BY DEF TypeOK
    <3>2. up' \in BOOLEAN
      OBVIOUS
    <3>3. \A c \in Conn : phase'[c] = "new" <=> phase[c] = "new"
      BY <2>0 DEF TypeOK
    <3> QED BY <3>1, <3>2, <3>3, <2>0 DEF TypeOK
  <2>2. HeldHasOneToken'
    BY <2>0 DEF TypeOK, HeldHasOneToken, StageOK, Reply
  <2>3. StageOK'
    BY <2>0 DEF TypeOK, StageOK, Reply
  <2>4. WaitingIsAccounted'
    BY DEF WaitingIsAccounted
  <2> QED BY <2>1, <2>2, <2>3, <2>4
<1>4. CASE ProxyRestart
  BY <1>4 DEF ProxyRestart, TypeOK, HeldHasOneToken, StageOK, WaitingIsAccounted,
              proxyState, sessions
<1> QED BY <1>1, <1>2, <1>3, <1>4 DEF Fault

\* A stuttering step keeps the first layer.
LEMMA StagesStutter == Stages /\ UNCHANGED vars => Stages'
  BY DEF Stages, TypeOK, HeldHasOneToken, StageOK, WaitingIsAccounted,
         vars, proxyState, sessions, faults

\* Every reachable state satisfies the first layer.
THEOREM StagesAlways == Spec => []Stages
<1>1. Stages /\ [Next]_vars => Stages'
  <2> SUFFICES ASSUME Stages, [Next]_vars PROVE Stages'
    OBVIOUS
  <2>1. CASE Filter
    BY <2>1, StagesRequest, StagesReplay, StagesClose DEF Filter
  <2>2. CASE Proxy
    BY <2>2, StagesEventRequest, StagesConnectDone, StagesAccept, StagesClose DEF Proxy
  <2>3. CASE Fault
    BY <2>3, StagesFault
  <2>4. CASE UNCHANGED vars
    BY <2>4, StagesStutter
  <2> QED BY <2>1, <2>2, <2>3, <2>4 DEF Next
<1> QED BY <1>1, StagesInit, PTL DEF Spec

\* TcpHandover is type correct.
THEOREM TypeCorrect == Spec => []TypeOK
<1>1. Stages => TypeOK
  BY DEF Stages
<1> QED BY <1>1, StagesAlways, PTL

\* A held connect has exactly one token left, or its token was lost: whatever
\* the interleaving, no handler of either process drops or doubles it.
THEOREM OneToken == Spec => []HeldHasOneToken
<1>1. Stages => HeldHasOneToken
  BY DEF Stages
<1> QED BY <1>1, StagesAlways, PTL

\* The waiting maps of ServerTcp can leak in no other way than by an application
\* that gives up or by a reply that is lost.
THEOREM WaitingAccounted == Spec => []WaitingIsAccounted
<1>1. Stages => WaitingIsAccounted
  BY DEF Stages
<1> QED BY <1>1, StagesAlways, PTL

\* A connect let through unchanged has no remote socket and no session.
THEOREM DirectUnconnected == Spec => []DirectHasNoRemote
<1>1. Stages => DirectHasNoRemote
  <2> SUFFICES ASSUME Stages, NEW c \in Conn, phase[c] = "direct"
               PROVE  /\ remoteOf[c] = NoConn
                      /\ \A p \in Port : socketAt[p] # c /\ infoAt[p] # c
    BY DEF DirectHasNoRemote
  <2>1. [id |-> c, redirect |-> TRUE] \notin replies
    <3>1. [id |-> c, redirect |-> TRUE].id = c
      OBVIOUS
    <3> QED BY <3>1 DEF Stages, StageOK
  <2>2. remoteOf[c] = NoConn /\ c \notin backlog \union lost
    BY DEF Stages, StageOK
  <2>3. \A p \in Port : socketAt[p] # c /\ infoAt[p] # c
    BY <2>1, <2>2, ConnAssumption DEF Stages, WaitingIsAccounted
  <2> QED BY <2>2, <2>3
<1> QED BY <1>1, StagesAlways, PTL

-----------------------------------------------------------------------------
(* Second layer.                                                           *)

\* c has been, or is about to be, redirected to the proxy's listener.
Redirecting(c) == c \in backlog \/ [id |-> c, redirect |-> TRUE] \in replies

\* Two unfinished handovers do not share a port.
PortsApart == \A c, d \in Conn :
    c # d /\ Unfinished(c) /\ Unfinished(d) => port[c] # port[d]

\* Nobody else's socket waits under the port of a redirected connect, and its
\* own does as long as the proxy has not died.
EntryOwn == \A c \in Conn : Redirecting(c) =>
    /\ socketAt[port[c]] \in {c, NoConn}
    /\ crashes = 0 => socketAt[port[c]] = c

Paired == PortsApart /\ EntryOwn /\ SplicedToOwnRemote /\ AcceptFindsRemote

\* The initial state satisfies the second layer.
LEMMA PairedInit == Init => Paired
  BY DEF Init, Paired, PortsApart, EntryOwn, Unfinished, Redirecting, SplicedToOwnRemote,
         AcceptFindsRemote

\* A new connect is given a port no unfinished handover has.
LEMMA PairedRequest ==
  ASSUME PortsExclusive, Stages, Paired,
         NEW c \in Conn, NEW p \in Port, NEW active \in BOOLEAN,
         TcpConnectRequest(c, p, active)
  PROVE  Paired'
<1> USE DEF Paired, TcpConnectRequest, proxyState, sessions
<1>1. /\ ~Unfinished(c) /\ ~Redirecting(c)
      /\ \A d \in Conn \ {c} : port[d] = p => ~Unfinished(d)
      /\ \A d \in Conn \ {c} : port'[d] = port[d]
      /\ port'[c] = p
  BY DEF Stages, StageOK, TypeOK, Unfinished, Redirecting, PortFree, Reply
<1>2. \A d \in Conn \ {c} : Unfinished(d)' => Unfinished(d)
  BY DEF Unfinished
<1>3. \A d \in Conn : Redirecting(d)' <=> Redirecting(d)
  BY DEF Redirecting
<1>4. PortsApart'
  BY <1>1, <1>2 DEF PortsApart
<1>5. EntryOwn'
  BY <1>1, <1>3 DEF EntryOwn
<1> QED BY <1>4, <1>5 DEF SplicedToOwnRemote, AcceptFindsRemote

\* The steps that neither hand out a port nor touch the maps or the sessions,
\* and that start no redirection, keep the second layer.
LEMMA PairedQuiet ==
  ASSUME Paired, UNCHANGED <<port, socketAt, infoAt, sessions, crashes>>,
         \A c \in Conn : /\ Unfinished(c)' => Unfinished(c)
                         /\ Redirecting(c)' => Redirecting(c)
  PROVE  Paired'
  BY DEF Paired, PortsApart, EntryOwn, SplicedToOwnRemote, AcceptFindsRemote, sessions

\* A connect that succeeds is filed under a port nobody else is waiting for.
LEMMA PairedConnectDone ==
  ASSUME Stages, Paired, NEW c \in Conn, NEW ok \in BOOLEAN, ConnectDone(c, ok)
  PROVE  Paired'
<1> USE DEF Paired, sessions, faults
<1>0. PICK r \in Reply : /\ r.id = c
                         /\ r = [id |-> c, redirect |-> TRUE] <=> ok
                         /\ replies' = replies \union {r}
  BY ConnectDoneStep DEF Stages
<1>1. /\ Unfinished(c)
      /\ \A d \in Conn : Unfinished(d)' => Unfinished(d)
  BY <1>0, ConnectDoneStep DEF Unfinished, Stages
<1>2. \A d \in Conn : [id |-> d, redirect |-> TRUE].id = d
  OBVIOUS
<1>3. \A d \in Conn \ {c} : /\ Redirecting(d)' <=> Redirecting(d)
                            /\ Redirecting(d) => Unfinished(d)
  BY <1>0, <1>2, ConnectDoneStep DEF Redirecting, Unfinished, Stages
<1>4. Redirecting(c)' => ok
  BY <1>0, <1>2, ConnectDoneStep DEF Redirecting, Stages, HeldHasOneToken
<1>5. port[c] \in Port
  BY ConnectDoneStep DEF Stages, StageOK, TypeOK
<1>6. PortsApart'
  BY <1>1, ConnectDoneStep DEF PortsApart, Stages
<1>7. EntryOwn'
  <2> SUFFICES ASSUME NEW d \in Conn, Redirecting(d)'
               PROVE  /\ socketAt'[port[d]] \in {d, NoConn}
                      /\ crashes = 0 => socketAt'[port[d]] = d
    BY ConnectDoneStep DEF EntryOwn, Stages
  <2>1. CASE d = c
    BY <2>1, <1>4, <1>5, ConnectDoneStep DEF Stages, TypeOK
  <2>2. CASE d # c
    <3>1. port[d] # port[c]
      BY <2>2, <1>1, <1>3 DEF PortsApart
    <3>2. port[d] \in Port
      BY <2>2, <1>2, <1>3 DEF Redirecting, Stages, StageOK, TypeOK
    <3>3. socketAt'[port[d]] = socketAt[port[d]]
      BY <3>1, <3>2, ConnectDoneStep DEF Stages, TypeOK
    <3> QED BY <3>3, <2>2, <1>3, ConnectDoneStep DEF EntryOwn, Stages
  <2> QED BY <2>1, <2>2
<1>8. SplicedToOwnRemote' /\ AcceptFindsRemote'
  BY ConnectDoneStep DEF SplicedToOwnRemote, AcceptFindsRemote, Stages
<1> QED BY <1>6, <1>7, <1>8

\* An accepted connection finds its own entry, and takes nobody else's away.
LEMMA PairedAccept ==
  ASSUME Stages, Paired, NEW c \in Conn, OnAccept(c)
  PROVE  Paired'
<1> USE DEF Paired, OnAccept, Erased, sessions, faults
<1>1. /\ Unfinished(c) /\ Redirecting(c)
      /\ \A d \in Conn : Unfinished(d)' => Unfinished(d)
  BY DEF Unfinished, Redirecting
<1>2. \A d \in Conn : Redirecting(d)' => Redirecting(d) /\ Unfinished(d) /\ d # c
  BY DEF Redirecting, Unfinished, Stages, HeldHasOneToken
<1>3. port[c] \in Port
  BY DEF Stages, StageOK, TypeOK
<1>4. /\ socketAt[port[c]] \in {c, NoConn}
      /\ infoAt[port[c]] = socketAt[port[c]]
      /\ crashes = 0 => socketAt[port[c]] = c
  BY <1>1, <1>3 DEF EntryOwn, Stages, WaitingIsAccounted
<1>5. PortsApart'
  BY <1>1 DEF PortsApart
<1>6. EntryOwn'
  <2> SUFFICES ASSUME NEW d \in Conn, Redirecting(d)'
               PROVE  /\ socketAt'[port[d]] \in {d, NoConn}
                      /\ crashes = 0 => socketAt'[port[d]] = d
    BY DEF EntryOwn
  <2>1. port[d] # port[c]
    BY <1>1, <1>2 DEF PortsApart
  <2>2. port[d] \in Port
    BY <1>2 DEF Redirecting, Stages, StageOK, TypeOK, HeldHasOneToken
  <2>3. socketAt'[port[d]] = socketAt[port[d]]
    BY <2>1, <2>2 DEF Stages, TypeOK
  <2> QED BY <2>1, <2>3, <1>2 DEF EntryOwn
<1>7. SplicedToOwnRemote'
  BY <1>4 DEF SplicedToOwnRemote, Stages, TypeOK
<1>8. AcceptFindsRemote'
  BY <1>4, ConnAssumption DEF AcceptFindsRemote
<1> QED BY <1>5, <1>6, <1>7, <1>8

\* The proxy's death empties the maps: later redirections find nothing, but
\* nothing of somebody else's either.
LEMMA PairedCrash ==
  ASSUME Stages, Paired, ProxyCrash
  PROVE  Paired'
<1> USE DEF Paired, ProxyCrash, sessions
<1>1. \A c \in Conn : /\ Unfinished(c)' => Unfinished(c)
                      /\ Redirecting(c)' => port[c] \in Port
  BY DEF Unfinished, Redirecting, Stages, StageOK, TypeOK
<1>2. crashes' # 0
  BY BoundAssumption DEF Stages, TypeOK
<1>3. PortsApart'
  BY <1>1 DEF PortsApart
<1>4. EntryOwn'
  BY <1>1, <1>2 DEF EntryOwn
<1> QED BY <1>2, <1>3, <1>4 DEF SplicedToOwnRemote, AcceptFindsRemote

\* With exclusive ports every reachable state satisfies the second layer.
THEOREM PairedAlways ==
  ASSUME PortsExclusive
  PROVE  Spec => []Paired
<1>1. Stages /\ Paired /\ [Next]_vars => Paired'
  <2> SUFFICES ASSUME Stages, Paired, [Next]_vars PROVE Paired'
    OBVIOUS
  <2>1. CASE Filter
    <3>1. ASSUME NEW r \in replies, OnTcpConnectReplay(r) PROVE Paired'
      <4>1. \A c \in Conn : /\ Unfinished(c)' => Unfinished(c)
                            /\ Redirecting(c)' => Redirecting(c)
        <5>1. r = [id |-> r.id, redirect |-> TRUE] \/ ~r.redirect
          BY DEF Stages, TypeOK, Reply
        <5>2. /\ backlog' = backlog \/ (backlog' = backlog \union {r.id} /\ r.redirect)
              /\ UNCHANGED <<reqs, connecting>>
              /\ r \in replies /\ replies' = replies \ {r}
          BY <3>1 DEF OnTcpConnectReplay, proxyState
        <5> QED BY <5>1, <5>2 DEF Unfinished, Redirecting
      <4> QED BY <3>1, <4>1, PairedQuiet DEF OnTcpConnectReplay, proxyState, faults
    <3>2. ASSUME NEW c \in Conn, AppCloses(c) PROVE Paired'
      <4>1. \A d \in Conn : /\ Unfinished(d)' => Unfinished(d)
                            /\ Redirecting(d)' => Redirecting(d)
        BY <3>2 DEF AppCloses, Unfinished, Redirecting, proxyState
      <4> QED BY <3>2, <4>1, PairedQuiet DEF AppCloses, proxyState, faults
    <3> QED BY <2>1, <3>1, <3>2, PairedRequest DEF Filter
  <2>2. CASE Proxy
    <3>1. ASSUME NEW c \in Conn, OnEventRequest(c) PROVE Paired'
      <4>1. \A d \in Conn : /\ Unfinished(d)' => Unfinished(d)
                            /\ Redirecting(d)' => Redirecting(d)
        BY <3>1 DEF OnEventRequest, ConnectBegins, Unfinished, Redirecting
      <4> QED BY <3>1, <4>1, PairedQuiet DEF OnEventRequest, ConnectBegins, faults
    <3>2. ASSUME NEW c \in Conn, AcceptError(c) PROVE Paired'
      <4>1. \A d \in Conn : /\ Unfinished(d)' => Unfinished(d)
                            /\ Redirecting(d)' => Redirecting(d)
        BY <3>2 DEF AcceptError, Unfinished, Redirecting, proxyState
      <4> QED BY <3>2, <4>1, PairedQuiet DEF AcceptError, proxyState, faults
    <3> QED BY <2>2, <3>1, <3>2, PairedConnectDone, PairedAccept DEF Proxy
  <2>3. CASE Fault
    <3>1. ASSUME NEW c \in Conn, LoseRequest(c) PROVE Paired'
      <4>1. \A d \in Conn : /\ Unfinished(d)' => Unfinished(d)
                            /\ Redirecting(d)' => Redirecting(d)
        BY <3>1 DEF LoseRequest, Unfinished, Redirecting, proxyState
      <4> QED BY <3>1, <4>1, PairedQuiet DEF LoseRequest, proxyState
    <3>2. ASSUME NEW r \in replies, LoseReply(r) PROVE Paired'
      <4>1. \A d \in Conn : /\ Unfinished(d)' => Unfinished(d)
                            /\ Redirecting(d)' => Redirecting(d)
        BY <3>2 DEF LoseReply, Unfinished, Redirecting, proxyState
      <4> QED BY <3>2, <4>1, PairedQuiet DEF LoseReply, proxyState
    <3>3. CASE ProxyRestart
      <4>1. \A d \in Conn : /\ Unfinished(d)' => Unfinished(d)
                            /\ Redirecting(d)' => Redirecting(d)
        BY <3>3 DEF ProxyRestart, Unfinished, Redirecting, proxyState
      <4> QED BY <3>3, <4>1, PairedQuiet DEF ProxyRestart, proxyState
    <3> QED BY <2>3, <3>1, <3>2, <3>3, PairedCrash DEF Fault
  <2>4. CASE UNCHANGED vars
    <3>1. \A d \in Conn : /\ Unfinished(d)' => Unfinished(d)
                          /\ Redirecting(d)' => Redirecting(d)
      BY <2>4 DEF vars, proxyState, Unfinished, Redirecting
    <3> QED BY <2>4, <3>1, PairedQuiet DEF vars, proxyState, faults
  <2> QED BY <2>1, <2>2, <2>3, <2>4 DEF Next
<1> QED BY <1>1, StagesAlways, PairedInit, PTL DEF Spec

\* Matching by port number pairs every accepted connection with its own remote
\* socket and its own request, if the operating system never hands out a port
\* whose handover is unfinished.
THEOREM SplicedRight ==
  ASSUME PortsExclusive
  PROVE  Spec => []SplicedToOwnRemote
<1>1. Paired => SplicedToOwnRemote
  BY DEF Paired
<1> QED BY <1>1, PairedAlways, PTL

\* Under the same assumption the branch marked impossible is not reached while
\* the proxy lives.
THEOREM AcceptFinds ==
  ASSUME PortsExclusive
  PROVE  Spec => []AcceptFindsRemote
<1>1. Paired => AcceptFindsRemote
  BY DEF Paired
<1> QED BY <1>1, PairedAlways, PTL

-----------------------------------------------------------------------------
(* Refinement.                                                             *)

\* The ways in which one step can move one connect.
Moves(c) ==
  \/ /\ phase'[c] = phase[c]
     /\ phase[c] = "pended" => (c \in lost' <=> c \in lost)
  \/ phase[c] = "new" /\ phase'[c] \in {"pended", "direct"}
  \/ phase[c] = "pended" /\ phase'[c] = "pended" /\ c \notin lost
  \/ phase[c] = "pended" /\ phase'[c] \in {"direct", "redirected"} /\ c \notin lost
  \/ phase[c] = "redirected" /\ phase'[c] = "spliced"
  \/ phase[c] \in {"pended", "direct", "redirected", "spliced"} /\ phase'[c] = "gone"

\* Every step moves every connect in one of these ways.
LEMMA EveryStepMoves ==
  ASSUME Stages, [Next]_vars, NEW c \in Conn
  PROVE  Moves(c)
<1> USE DEF Stages, Moves
<1>1. ASSUME NEW d \in Conn, NEW p \in Port, NEW active \in BOOLEAN,
             TcpConnectRequest(d, p, active)
      PROVE  Moves(c)
  BY <1>1 DEF TcpConnectRequest, TypeOK
<1>2. ASSUME NEW r \in replies, OnTcpConnectReplay(r) PROVE Moves(c)
  BY <1>2 DEF OnTcpConnectReplay, TypeOK, HeldHasOneToken, faults, Reply
<1>3. ASSUME NEW d \in Conn, AppCloses(d) PROVE Moves(c)
  <2>1. phase' = Closing({d}) /\ phase[d] \in {"pended", "direct", "redirected", "spliced"}
    BY <1>3 DEF AppCloses, Live, TypeOK, Phase
  <2> QED BY <2>1, <1>3, ClosingIs DEF AppCloses, faults
<1>4. ASSUME NEW d \in Conn, OnEventRequest(d) \/ AcceptError(d) PROVE Moves(c)
  BY <1>4 DEF OnEventRequest, ConnectBegins, AcceptError, faults
<1>5. ASSUME NEW d \in Conn, NEW ok \in BOOLEAN, ConnectDone(d, ok) PROVE Moves(c)
  BY <1>5, ConnectDoneStep DEF faults
<1>6. ASSUME NEW d \in Conn, OnAccept(d) PROVE Moves(c)
  <2>1. phase[d] \in {"redirected", "gone"} /\ UNCHANGED lost
    BY <1>6 DEF OnAccept, StageOK, faults
  <2>2. \/ phase' = phase
        \/ phase' = [phase EXCEPT ![d] = "spliced"] /\ phase[d] # "gone"
        \/ phase' = Closing({d})
    BY <1>6 DEF OnAccept, Live
  <2> QED BY <2>1, <2>2, ClosingIs DEF TypeOK
<1>7. ASSUME NEW d \in Conn, LoseRequest(d) PROVE Moves(c)
  BY <1>7 DEF LoseRequest, HeldHasOneToken, TypeOK
<1>8. ASSUME NEW r \in replies, LoseReply(r) PROVE Moves(c)
  BY <1>8 DEF LoseReply, HeldHasOneToken, TypeOK
<1>9. CASE ProxyCrash
  <2>1. phase' = Closing({d \in Conn : phase[d] \in {"redirected", "spliced"}})
    BY <1>9 DEF ProxyCrash
  <2>2. lost' = lost \union reqs \union connecting
    BY <1>9 DEF ProxyCrash
  <2> QED BY <2>1, <2>2, ClosingIs DEF HeldHasOneToken
<1>10. CASE ProxyRestart \/ UNCHANGED vars
  BY <1>10 DEF ProxyRestart, vars, faults
<1> QED BY <1>1, <1>2, <1>3, <1>4, <1>5, <1>6, <1>7, <1>8, <1>9, <1>10
        DEF Next, Filter, Proxy, Fault

\* A connect that moves so keeps its outcome, or changes it as promised.
LEMMA MovesFollow ==
  ASSUME TypeOK, TypeOK', NEW c \in Conn, Moves(c)
  PROVE  /\ Outcome(c) \in Promise!Outcome /\ Outcome(c)' \in Promise!Outcome
         /\ Outcome(c)' # Outcome(c) => Outcome(c)' \in Promise!Follows[Outcome(c)]
  BY DEF TypeOK, Phase, Moves, Outcome, Promise!Outcome, Promise!Follows

\* A spliced connect has its own partner, any other has none.
PartnerOwn ==
  [c \in Conn |-> IF phase[c] = "spliced" THEN remoteOf[c] ELSE NoConn]
    = Promise!OwnPartner([c \in Conn |-> Outcome(c)])

\* Both layers together give every connect the partner promised to it.
LEMMA PartnerIsOwn == Stages /\ Paired => PartnerOwn
<1> SUFFICES ASSUME Stages, Paired PROVE PartnerOwn
  OBVIOUS
<1>1. \A c \in Conn : Outcome(c) = "spliced" <=> phase[c] = "spliced"
  BY DEF Outcome, Stages, TypeOK, Phase
<1>2. \A c \in Conn : phase[c] = "spliced" => remoteOf[c] = c
  BY DEF Stages, StageOK, Paired, SplicedToOwnRemote
<1> QED BY <1>1, <1>2 DEF PartnerOwn, Promise!OwnPartner

\* With exclusive ports the handover, two processes, datagrams, losses and
\* crashes included, implements the safety part of the promise: a connect
\* leaves the hold once, to its own destination or to its own remote socket.
THEOREM HandoverImplements ==
  ASSUME PortsExclusive
  PROVE  Spec => Promise!SafeSpec
<1>1. Init => Promise!Init
  <2> SUFFICES ASSUME Init PROVE Promise!Init
    OBVIOUS
  <2>1. [c \in Conn |-> Outcome(c)] = [c \in Conn |-> "idle"]
    BY DEF Init, Outcome
  <2>2. Stages /\ Paired
    BY StagesInit, PairedInit
  <2> QED BY <2>1, <2>2, PartnerIsOwn DEF PartnerOwn, Promise!Init
<1>2. Stages /\ Paired /\ Stages' /\ Paired' /\ [Next]_vars => [Promise!Next]_(Promise!vars)
  <2> SUFFICES ASSUME Stages, Paired, Stages', Paired', [Next]_vars PROVE Promise!Next
    OBVIOUS
  <2>1. \A c \in Conn :
          /\ Outcome(c)' \in Promise!Outcome
          /\ Outcome(c)' # Outcome(c) => Outcome(c)' \in Promise!Follows[Outcome(c)]
    BY EveryStepMoves, MovesFollow DEF Stages
  <2>2. PartnerOwn'
    BY PartnerIsOwn, PTL
  <2> QED BY <2>1, <2>2 DEF PartnerOwn, Promise!Next
<1> QED BY <1>1, <1>2, StagesAlways, PairedAlways, PTL DEF Spec, Promise!SafeSpec

-----------------------------------------------------------------------------
(* The handover comes to its end.                                          *)

Redirects(c) == [id |-> c, redirect |-> TRUE]
Declines(c) == [id |-> c, redirect |-> FALSE]

\* c is in every set that it was in before.
Stays(c) ==
  /\ c \in reqs' <=> c \in reqs
  /\ c \in connecting' <=> c \in connecting
  /\ Redirects(c) \in replies' <=> Redirects(c) \in replies
  /\ Declines(c) \in replies' <=> Declines(c) \in replies
  /\ c \in backlog' <=> c \in backlog

\* c is in no set that it was not in before.
Leaves(c) ==
  /\ c \in reqs' => c \in reqs
  /\ c \in connecting' => c \in connecting
  /\ Redirects(c) \in replies' => Redirects(c) \in replies
  /\ Declines(c) \in replies' => Declines(c) \in replies
  /\ c \in backlog' => c \in backlog

\* The replies of c are those two.
LEMMA RepliesOf ==
  ASSUME TypeOK, NEW r \in replies
  PROVE  r.id \in Conn /\ (r = Redirects(r.id) \/ r = Declines(r.id))
  BY DEF TypeOK, Reply, Redirects, Declines

\* A connect that stays where it is has as many steps left.
LEMMA StaysUnchanged ==
  ASSUME TypeOK, TypeOK', NEW c \in Conn, Stays(c)
  PROVE  UNCHANGED Stage(c)
<1>1. ASSUME NEW r, r \in replies, r.id = c PROVE r \in replies'
  BY <1>1, RepliesOf DEF Stays
<1>2. ASSUME NEW r, r \in replies', r.id = c PROVE r \in replies
  <2>1. r = Redirects(c) \/ r = Declines(c)
    BY <1>2 DEF TypeOK, Reply, Redirects, Declines
  <2> QED BY <1>2, <2>1 DEF Stays
<1>3. {r \in replies' : r.id = c} = {r \in replies : r.id = c}
  BY <1>1, <1>2
<1> QED BY <1>3 DEF Stays, Stage

\* A connect that leaves a set and enters none has fewer steps left.
LEMMA LeavesShrinks ==
  ASSUME NEW c \in Conn, Leaves(c), ~Stays(c)
  PROVE  StepsLeft(c)' < StepsLeft(c)
  BY SMT DEF Leaves, Stays, StepsLeft, Count, Redirects, Declines

\* A step of the handover of c that takes it from one set to the next leaves it
\* fewer steps.
LEMMA MovesOn ==
  ASSUME NEW c \in Conn,
         \/ /\ c \in reqs /\ c \notin reqs' /\ UNCHANGED <<replies, backlog>>
         \/ /\ c \in connecting /\ c \notin connecting' /\ UNCHANGED <<reqs, backlog>>
            /\ \/ Redirects(c) \in replies' <=> Redirects(c) \in replies
               \/ Declines(c) \in replies' <=> Declines(c) \in replies
         \/ /\ UNCHANGED <<reqs, connecting>>
            /\ \/ /\ Redirects(c) \in replies /\ Redirects(c) \notin replies'
                  /\ Declines(c) \in replies' <=> Declines(c) \in replies
               \/ /\ Declines(c) \in replies /\ Declines(c) \notin replies'
                  /\ Redirects(c) \in replies' <=> Redirects(c) \in replies
  PROVE  StepsLeft(c)' < StepsLeft(c)
  BY SMT DEF StepsLeft, Count, Redirects, Declines

\* Whatever happens to it or to others, a handover that has begun only comes
\* nearer to its end.
THEOREM HandoverEnds == Spec => HandoverShrinks
<1>1. ASSUME TypeOK, TypeOK', Next, NEW c \in Conn, phase[c] # "new"
      PROVE  UNCHANGED Stage(c) \/ StepsLeft(c)' < StepsLeft(c)
  <2>1. ASSUME NEW d \in Conn, NEW p \in Port, NEW active \in BOOLEAN,
               TcpConnectRequest(d, p, active)
        PROVE  Stays(c)
    BY <1>1, <2>1 DEF TcpConnectRequest, proxyState, Stays
  <2>2. ASSUME NEW r \in replies, OnTcpConnectReplay(r)
        PROVE  Stays(c) \/ StepsLeft(c)' < StepsLeft(c)
    <3>1. /\ r.id \in Conn /\ (r = Redirects(r.id) \/ r = Declines(r.id))
          /\ Redirects(r.id) # Declines(r.id)
      BY <1>1, RepliesOf DEF Redirects, Declines
    <3>2. /\ replies' = replies \ {r} /\ UNCHANGED <<reqs, connecting>>
          /\ \A d \in Conn : d # r.id => (d \in backlog' <=> d \in backlog)
      BY <2>2 DEF OnTcpConnectReplay, proxyState
    <3>3. CASE c = r.id
      <4>1. StepsLeft(c)' < StepsLeft(c)
        BY <3>1, <3>2, <3>3, MovesOn
      <4> QED BY <4>1
    <3>4. CASE c # r.id
      <4>1. Redirects(c).id = c /\ Declines(c).id = c
        BY DEF Redirects, Declines
      <4>2. Redirects(c) # r /\ Declines(c) # r
        BY <3>4, <4>1
      <4> QED BY <3>2, <3>4, <4>2 DEF Stays
    <3> QED BY <3>3, <3>4
  <2>3. ASSUME NEW d \in Conn, AppCloses(d) PROVE Stays(c)
    BY <2>3 DEF AppCloses, proxyState, Stays
  <2>4. ASSUME NEW d \in Conn, OnEventRequest(d)
        PROVE  Stays(c) \/ StepsLeft(c)' < StepsLeft(c)
    <3>1. /\ d \in reqs /\ reqs' = reqs \ {d} /\ connecting' = connecting \union {d}
          /\ replies' = replies /\ backlog' = backlog
      BY <2>4 DEF OnEventRequest, ConnectBegins
    <3>2. c = d => StepsLeft(c)' < StepsLeft(c)
      BY <3>1, MovesOn
    <3>3. c # d => Stays(c)
      BY <3>1 DEF Stays
    <3> QED BY <3>2, <3>3
  <2>5. ASSUME NEW d \in Conn, NEW ok \in BOOLEAN, ConnectDone(d, ok)
        PROVE  Stays(c) \/ StepsLeft(c)' < StepsLeft(c)
    <3>1. /\ d \in connecting /\ connecting' = connecting \ {d} /\ reqs' = reqs
          /\ replies' = replies \union {[id |-> d, redirect |-> ok]} /\ backlog' = backlog
      BY <2>5 DEF ConnectDone, ConnectEnds, Answer
    <3>2. ASSUME NEW e \in Conn
          PROVE  /\ Redirects(e) = [id |-> d, redirect |-> ok] <=> e = d /\ ok = TRUE
                 /\ Declines(e) = [id |-> d, redirect |-> ok] <=> e = d /\ ok = FALSE
      BY DEF Redirects, Declines
    <3>3. CASE c = d
      <4>1. \/ Redirects(c) \in replies' <=> Redirects(c) \in replies
            \/ Declines(c) \in replies' <=> Declines(c) \in replies
        BY <3>1, <3>2
      <4> QED BY <3>1, <3>3, <4>1, MovesOn
    <3>4. CASE c # d
      BY <3>1, <3>2, <3>4 DEF Stays
    <3> QED BY <3>3, <3>4
  <2>6. ASSUME NEW d \in Conn, OnAccept(d) \/ AcceptError(d) \/ LoseRequest(d)
        PROVE  Leaves(c)
    BY <2>6 DEF OnAccept, AcceptError, LoseRequest, proxyState, Leaves
  <2>7. ASSUME NEW r \in replies, LoseReply(r) PROVE Leaves(c)
    BY <2>7 DEF LoseReply, proxyState, Leaves
  <2>8. ASSUME ProxyCrash PROVE Leaves(c)
    <3>1. reqs' = {} /\ connecting' = {} /\ backlog' = {} /\ replies' = replies
      BY <2>8 DEF ProxyCrash
    <3> QED BY <3>1 DEF Leaves
  <2>9. ASSUME ProxyRestart PROVE Stays(c)
    <3>1. UNCHANGED <<reqs, connecting, replies, backlog>>
      BY <2>9 DEF ProxyRestart, proxyState
    <3> QED BY <3>1 DEF Stays
  <2>10. Leaves(c) => Stays(c) \/ StepsLeft(c)' < StepsLeft(c)
    BY LeavesShrinks
  <2>11. Stays(c) \/ StepsLeft(c)' < StepsLeft(c)
    <3>1. CASE Filter
      BY <3>1, <2>1, <2>2, <2>3 DEF Filter
    <3>2. CASE Proxy
      BY <3>2, <2>4, <2>5, <2>6, <2>10 DEF Proxy
    <3>3. CASE Fault
      BY <3>3, <2>6, <2>7, <2>8, <2>9, <2>10 DEF Fault
    <3> QED BY <1>1, <3>1, <3>2, <3>3 DEF Next
  <2> QED BY <1>1, <2>11, StaysUnchanged
<1>2. TypeOK /\ TypeOK' /\ [Next]_vars =>
        [\A c \in Conn : phase[c] # "new" =>
           UNCHANGED Stage(c) \/ StepsLeft(c)' < StepsLeft(c)]_vars
  BY <1>1
<1> QED BY <1>2, TypeCorrect, PTL DEF Spec, HandoverShrinks
=============================================================================
