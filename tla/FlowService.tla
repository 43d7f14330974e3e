---------------------------- MODULE FlowService -----------------------------
(***************************************************************************)
(* What the UDP path promises applications and servers, with nothing of    *)
(* how the two processes keep it: the service of an address translator.    *)
(*                                                                         *)
(* A flow, from one local address to one server, is open or not.  The      *)
(* datagram that opens it decides which socket its answers go to, and that *)
(* does not change while it is open.  Only datagrams that applications     *)
(* sent on it are carried on it, and only an open flow carries any.  It    *)
(* stays open for IdleTicks after its last use, and not for IdleTicks +    *)
(* CheckTicks, unless the service itself fails, which closes all flows at  *)
(* once.  Datagrams and answers may be lost.                               *)
(***************************************************************************)
EXTENDS Naturals

CONSTANTS Flow,       \* the flows: records with the fields src and dst
          IdleTicks,  \* how long a flow stays open at least
          CheckTicks  \* how much longer it may stay open

VARIABLES asked,    \* what applications have sent: [nfid, src, dst]
          reached,  \* what was carried, and on which flow
          answers,  \* answers on their way back, as the datagrams they answer
          owner,    \* owner[f]: the socket that f answers to, {} if f is closed
          idle,     \* idle[f]: the time since f was last used
          up        \* the service is there

flows == <<owner, idle, up>>
vars == <<asked, reached, answers, flows>>

Closed(f) == owner[f] = {}

\* m is a datagram that was sent on f.
SentOn(m, f) == m \in asked /\ m.src = f.src /\ m.dst = f.dst

Init == /\ asked = {} /\ reached = {} /\ answers = {}
        /\ owner = [f \in Flow |-> {}] /\ idle = [f \in Flow |-> 0]
        /\ up = TRUE

\* Applications send.
Ask == asked \subseteq asked' /\ UNCHANGED <<reached, answers, flows>>

\* A datagram sent on f arrives, and opens f if it is closed.
Use(f) == \E m \in asked :
  /\ up /\ SentOn(m, f)
  /\ owner' = [owner EXCEPT ![f] = IF Closed(f) THEN {m.nfid} ELSE @]
  /\ idle' = [idle EXCEPT ![f] = 0]
  /\ UNCHANGED <<asked, reached, answers, up>>

Carry(f) == \E m \in asked :
  /\ ~Closed(f) /\ SentOn(m, f)
  /\ reached' = reached \union {[flow |-> f, msg |-> m]}
  /\ UNCHANGED <<asked, answers, flows>>

\* The server of f answers, to the socket that opened f.
Answer(f) == \E s \in owner[f] :
  /\ answers' = answers \union {[nfid |-> s, src |-> f.src, dst |-> f.dst]}
  /\ UNCHANGED <<asked, reached, flows>>

\* Answers arrive, or are lost.
Drop == answers' \subseteq answers /\ UNCHANGED <<asked, reached, flows>>

\* Time passes, but no flow is kept open for too long.
Tick ==
  /\ \A f \in Flow : ~Closed(f) => idle[f] + 1 < IdleTicks + CheckTicks
  /\ idle' = [f \in Flow |-> IF Closed(f) THEN 0 ELSE idle[f] + 1]
  /\ UNCHANGED <<asked, reached, answers, owner, up>>

Expire(f) ==
  /\ ~Closed(f) /\ idle[f] >= IdleTicks
  /\ owner' = [owner EXCEPT ![f] = {}] /\ idle' = [idle EXCEPT ![f] = 0]
  /\ UNCHANGED <<asked, reached, answers, up>>

\* The service fails, or is there again.
Fail == /\ up' = FALSE
        /\ owner' = [f \in Flow |-> {}] /\ idle' = [f \in Flow |-> 0]
        /\ UNCHANGED <<asked, reached, answers>>

Return == up' = TRUE /\ UNCHANGED <<asked, reached, answers, owner, idle>>

Next == \/ Ask \/ Drop \/ Tick \/ Fail \/ Return
        \/ \E f \in Flow : Use(f) \/ Carry(f) \/ Answer(f) \/ Expire(f)

Spec == Init /\ [][Next]_vars
=============================================================================
