----------------------------- MODULE EventSender ----------------------------
(***************************************************************************)
(* Several filter processes with one proxy: whom the proxy's ServerEvent   *)
(* replies to.                                                             *)
(*                                                                         *)
(* ServerEvent has one receive under way at a time, one buffer _buf_req    *)
(* and one endpoint _sender_ep, which the system overwrites when the next  *)
(* datagram comes in.  Replay sends every reply, also the one that is made *)
(* long after its request, to _sender_ep as it is then: heart replies are  *)
(* made before the next receive starts, but replies to tcp requests wait   *)
(* for a connect, and udp answers for the server.                          *)
(*                                                                         *)
(* A filter may die.  A reply to it then comes back as an error of the     *)
(* proxy's next receive, as it does on Windows.                            *)
(***************************************************************************)
EXTENDS Naturals, Sequences, FiniteSets

CONSTANTS Filter,   \* the filter processes, named by their event sockets
          Id,       \* what tells one filter's requests of a kind apart
          None,
          MaxUnderway  \* bound: requests under way at once

VARIABLES
  inbox,   \* requests that the socket has queued for the proxy
  rx,      \* the receive: "armed", or completed: "full" or "error"
  event,   \* _buf_req: the request received last
  sender,  \* _sender_ep
  open,    \* connects under way, and udp flows
  reply,   \* the last reply, and whom it should have gone to
  dead,    \* the filters that have died
  bounced  \* a reply has found its filter dead

vars == <<inbox, rx, event, sender, open, reply, dead, bounced>>

Kind == {"heart", "tcp", "udp"}
Request == [from : Filter, kind : Kind, id : Id]

\* What the proxy owes an answer to: who asked and, for the properties alone,
\* which filters were heard since the asker itself was last heard.
Open == [from : Filter, kind : {"tcp", "udp"}, id : Id, heard : SUBSET Filter]
Reply == [to : Filter, from : Filter, kind : Kind, id : Id, heard : SUBSET Filter]

ASSUME NoneAssumption == None \notin Filter \cup Request \cup Reply

\* start of main: the first receive is under way.
Init == /\ inbox = <<>> /\ rx = "armed" /\ event = None /\ sender = None
        /\ open = {} /\ reply = None
        /\ dead = {} /\ bounced = FALSE

Queued(r) == \E i \in 1..Len(inbox) : inbox[i] = r
For(o, r) == o.from = r.from /\ o.kind = r.kind /\ o.id = r.id
Answering(r) == \E o \in open : For(o, r)

-----------------------------------------------------------------------------
\* Planted bugs: a second receive is started before the first is handled; the
\* first sender is kept; an error is taken for a datagram, or ends the receiving.
ArriveTwice ==
  /\ inbox # <<>>
  /\ sender' = Head(inbox).from /\ inbox' = Tail(inbox)
  /\ event' = (IF rx = "armed" THEN Head(inbox) ELSE event) /\ rx' = "full"
  /\ open' = {[o EXCEPT !.heard = @ \cup {Head(inbox).from}] : o \in open}
  /\ UNCHANGED <<reply, dead, bounced>>
SenderKept(r) == IF sender = None THEN r.from ELSE sender
RecvFailsUnchecked ==
  /\ rx = "armed" /\ bounced /\ rx' = "full" /\ bounced' = FALSE
  /\ UNCHANGED <<inbox, event, sender, open, reply, dead>>
HandleErrorEnds == rx = "error" /\ UNCHANGED vars

\* A datagram fills _sender_ep.
SenderOf(r) == r.from

\* A request of r's filter is under way: as a new connect, or as the flow that
\* is there already or is made now.
Opened(r) ==
  {o \in open : ~For(o, r)}
    \cup {[from |-> r.from, kind |-> r.kind, id |-> r.id, heard |-> {}]}

\* Replay, on behalf of r: to the sender of the last datagram.
Replay(r, heard) ==
  /\ reply' = [to |-> sender, from |-> r.from, kind |-> r.kind, id |-> r.id, heard |-> heard]
  /\ bounced' = (bounced \/ sender \in dead)

-----------------------------------------------------------------------------
\* A filter posts a request; ids of requests under way differ.
Post(r) ==
  /\ r.from \notin dead /\ Len(inbox) + Cardinality(open) < MaxUnderway
  /\ ~Queued(r) /\ event # r
  /\ r.kind = "tcp" => ~Answering(r)
  /\ inbox' = Append(inbox, r)
  /\ UNCHANGED <<rx, event, sender, open, reply, dead, bounced>>

FilterDies(f) ==
  /\ f \notin dead /\ dead' = dead \cup {f}
  /\ UNCHANGED <<inbox, rx, event, sender, open, reply, bounced>>

\* The receive completes: system and proxy share buffer and endpoint only while
\* it is under way.  That a filter is heard ends what others were heard since.
Arrive ==
  /\ rx = "armed" /\ inbox # <<>>
  /\ rx' = "full" /\ event' = Head(inbox) /\ inbox' = Tail(inbox)
  /\ sender' = SenderOf(Head(inbox))
  /\ LET f == Head(inbox).from
     IN  open' = {[o EXCEPT !.heard = IF o.from = f THEN {} ELSE @ \cup {f}] : o \in open}
  /\ UNCHANGED <<reply, dead, bounced>>

\* The receive completes with an error and changes neither of them.
RecvFails ==
  /\ rx = "armed" /\ bounced /\ rx' = "error" /\ bounced' = FALSE
  /\ UNCHANGED <<inbox, event, sender, open, reply, dead>>

\* doRecv's handler, which starts the next receive whatever came.
HandleError ==
  /\ rx = "error" /\ rx' = "armed"
  /\ UNCHANGED <<inbox, event, sender, open, reply, dead, bounced>>

HandleHeart ==
  /\ rx = "full" /\ event.kind = "heart" /\ rx' = "armed" /\ event' = None
  /\ Replay(event, {})
  /\ UNCHANGED <<inbox, sender, open, dead>>

\* ServerTcp and ServerUdp copy the request; ServerUdp has one processor a flow.
HandleRequest ==
  /\ rx = "full" /\ event.kind # "heart" /\ rx' = "armed" /\ event' = None
  /\ open' = Opened(event)
  /\ UNCHANGED <<inbox, sender, reply, dead, bounced>>

\* The connect has ended, well or not, and is replied to.
ConnectEnds(o) ==
  /\ o.kind = "tcp" /\ Replay(o, o.heard) /\ open' = open \ {o}
  /\ UNCHANGED <<inbox, rx, event, sender, dead>>

\* The server of a flow has sent an answer.
ServerAnswers(o) ==
  /\ o.kind = "udp" /\ Replay(o, o.heard)
  /\ UNCHANGED <<inbox, rx, event, sender, open, dead>>

\* The flow was idle for too long.
FlowEnds(o) ==
  /\ o.kind = "udp" /\ open' = open \ {o}
  /\ UNCHANGED <<inbox, rx, event, sender, reply, dead, bounced>>

-----------------------------------------------------------------------------
Receive == HandleError \/ HandleHeart \/ HandleRequest
Later(o) == ConnectEnds(o) \/ ServerAnswers(o) \/ FlowEnds(o)

Next == \/ \E r \in Request : Post(r)
        \/ \E f \in Filter : FilterDies(f)
        \/ Arrive \/ RecvFails \/ Receive
        \/ \E o \in open : Later(o)

Spec == Init /\ [][Next]_vars

\* The end of r's connect, for fairness: a connect ends, if only by its timeout.
EndsFor(r) == \E o \in open : For(o, r) /\ ConnectEnds(o)

\* The proxy's one thread runs every handler.  Errors and datagrams reach it in
\* the order in which they came, so no datagram waits behind errors for ever.
FairSpec == /\ Spec
            /\ WF_vars(Receive) /\ SF_vars(Arrive) /\ WF_vars(RecvFails)
            /\ \A r \in Request : WF_vars(EndsFor(r))

-----------------------------------------------------------------------------
TypeOK ==
  /\ inbox \in Seq(Request) /\ rx \in {"armed", "full", "error"}
  /\ event \in Request \cup {None} /\ rx = "full" <=> event # None
  /\ sender \in Filter \cup {None} /\ open \subseteq Open
  /\ reply \in Reply \cup {None}
  /\ dead \subseteq Filter /\ bounced \in BOOLEAN

\* A heart reply goes to the filter that asked, whatever the others send at the
\* time: its address cannot change before doRecv's handler has replied.  So a
\* filter's judgement of the proxy never rests on another filter's heartbeat.
HeartReachesAsker ==
  reply # None => (reply.kind = "heart" => reply.to = reply.from)

\* Any reply goes to the filter that asked, or to one that was heard after that
\* filter was last heard: as long as one filter alone talks, as between two
\* bursts of traffic, it gets its replies.
AstrayOnlyIfOverheard ==
  reply # None => (reply.to # reply.from => reply.to \in reply.heard)

\* What has reached the socket and is neither served nor given up: it waits
\* there, is in the buffer, or its connect is under way.
Owed(r) == Queued(r) \/ event = r \/ (r.kind = "tcp" /\ Answering(r))

Served(r) == IF r.kind = "udp" THEN Answering(r) ELSE reply # None /\ For(reply, r)

\* Whoever dies and whatever errors its death sends back to the proxy, every
\* request that reaches the socket is served: a heartbeat and a connect are
\* replied to, and a datagram has a flow.
EveryRequestServed ==
  \A r \in Request : Queued(r) ~> Served(r)

\* No step of anybody drops a request that has reached the socket: errors of
\* the receive, other filters' requests in the one buffer, and the deaths of
\* filters leave it owed until a step serves it.
NothingDropped == [][\A r \in Request : Owed(r) => Owed(r)' \/ Served(r)']_vars

\* Several filters may point to one proxy (README.md:1), so a reply goes to the
\* filter that asked.
ReplyReachesAsker == reply # None => reply.to = reply.from
=============================================================================
