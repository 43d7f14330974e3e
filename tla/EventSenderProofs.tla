-------------------------- MODULE EventSenderProofs -------------------------
(***************************************************************************)
(* Proofs about EventSender, for any filters, ids and bound.               *)
(*                                                                         *)
(* The argument: _sender_ep and _buf_req belong together until the handler *)
(* has run, because no receive is under way then; and when _sender_ep is   *)
(* not an asker's, the datagram that changed it came after the asker's.    *)
(***************************************************************************)
EXTENDS EventSender, SequenceTheorems, TLAPS

-----------------------------------------------------------------------------
\* The buffer and the endpoint hold one datagram until it is handled.
Together == rx = "full" => sender = event.from

\* _sender_ep is the asker's, or that of a filter heard since.
Overheard ==
  \A o \in open : sender \in Filter /\ (sender # o.from => sender \in o.heard)

IInv == TypeOK /\ Together /\ Overheard /\ HeartReachesAsker /\ AstrayOnlyIfOverheard

\* The initial state satisfies the invariant.
LEMMA Initially == Init => IInv
<1> SUFFICES ASSUME Init PROVE IInv
  OBVIOUS
<1>1. inbox \in Seq(Request)
  BY DEF Init
<1> QED
  BY <1>1 DEF Init, IInv, TypeOK, Together, Overheard, HeartReachesAsker,
              AstrayOnlyIfOverheard

\* The first queued request, and the rest of the queue, have their types.
LEMMA HeadTyped ==
  ASSUME inbox \in Seq(Request), inbox # <<>>
  PROVE  Head(inbox) \in Request /\ Tail(inbox) \in Seq(Request)
  BY HeadTailProperties

\* What a reply says of itself.
LEMMA ReplyIs ==
  ASSUME TypeOK, sender \in Filter, NEW r, r.from \in Filter, r.kind \in Kind, r.id \in Id,
         NEW heard \in SUBSET Filter, Replay(r, heard)
  PROVE  /\ reply' \in Reply /\ bounced' \in BOOLEAN
         /\ reply'.to = sender /\ reply'.from = r.from
         /\ reply'.kind = r.kind /\ reply'.heard = heard
  BY DEF Replay, Reply, TypeOK

-----------------------------------------------------------------------------
\* A completed receive preserves the invariant: every open request but the
\* sender's own has one more filter heard since.
LEMMA ArriveStep == ASSUME IInv, Arrive PROVE IInv'
<1> USE DEF IInv
<1> DEFINE r == Head(inbox)
           heardNow(o) == IF o.from = r.from THEN {} ELSE o.heard \cup {r.from}
<1>1. r \in Request /\ Tail(inbox) \in Seq(Request) /\ r.from \in Filter /\ r # None
  BY HeadTyped, NoneAssumption DEF Arrive, TypeOK, Request
<1>2. open' = {[o EXCEPT !.heard = heardNow(o)] : o \in open}
  BY DEF Arrive
<1>3. \A o \in open : heardNow(o) \in SUBSET Filter
  BY <1>1 DEF TypeOK, Open
<1>4. rx' = "full" /\ event' = r /\ sender' = r.from /\ inbox' = Tail(inbox)
  BY DEF Arrive, SenderOf
<1>5. UNCHANGED <<reply, dead, bounced>>
  BY DEF Arrive
<1> HIDE DEF heardNow
<1>6. open' \subseteq Open
  BY <1>2, <1>3 DEF TypeOK, Open
<1>7. ASSUME NEW o \in open, r.from # o.from PROVE r.from \in heardNow(o)
  BY <1>7 DEF heardNow
<1> HIDE DEF r
<1>8. TypeOK'
  BY <1>1, <1>4, <1>5, <1>6 DEF TypeOK
<1>9. Overheard'
  <2> SUFFICES ASSUME NEW q \in open'
               PROVE  sender' \in Filter /\ (sender' # q.from => sender' \in q.heard)
    BY DEF Overheard
  <2>1. PICK o \in open : q = [o EXCEPT !.heard = heardNow(o)]
    BY <1>2
  <2>2. q.from = o.from /\ q.heard = heardNow(o)
    BY <2>1 DEF TypeOK, Open
  <2> QED BY <1>1, <1>4, <1>7, <2>2
<1>10. Together' /\ HeartReachesAsker' /\ AstrayOnlyIfOverheard'
  BY <1>4, <1>5 DEF Together, HeartReachesAsker, AstrayOnlyIfOverheard
<1> QED BY <1>8, <1>9, <1>10

\* The handlers preserve the invariant: a heart request is replied to while
\* _sender_ep is still its own, and so is a new entry of open made.
LEMMA ReceiveStep == ASSUME IInv, Receive PROVE IInv'
<1> USE DEF IInv
<1>1. CASE HandleError
  <2>1. event = None
    BY <1>1 DEF HandleError, TypeOK
  <2> QED BY <1>1, <2>1 DEF HandleError, TypeOK, Together, Overheard, HeartReachesAsker,
                            AstrayOnlyIfOverheard
<1>2. CASE HandleHeart
  <2>1. /\ event \in Request /\ event.from \in Filter /\ event.kind \in Kind /\ event.id \in Id
        /\ sender = event.from
    BY <1>2 DEF HandleHeart, TypeOK, Together, Request
  <2>2. /\ reply' \in Reply /\ bounced' \in BOOLEAN
        /\ reply'.to = sender /\ reply'.from = event.from
    BY <1>2, <2>1, ReplyIs DEF HandleHeart
  <2>3. TypeOK'
    BY <1>2, <2>2 DEF HandleHeart, TypeOK
  <2> QED BY <1>2, <2>1, <2>2, <2>3 DEF HandleHeart, Together, Overheard, HeartReachesAsker,
                                       AstrayOnlyIfOverheard
<1>3. CASE HandleRequest
  <2> DEFINE new == [from |-> event.from, kind |-> event.kind, id |-> event.id, heard |-> {}]
  <2>1. event \in Request /\ event.kind \in {"tcp", "udp"} /\ sender = event.from
    BY <1>3 DEF HandleRequest, TypeOK, Together, Request, Kind
  <2>2. new \in Open /\ new.from = sender /\ sender \in Filter
    BY <2>1 DEF Open, Request
  <2>3. open' \subseteq open \cup {new}
    BY <1>3 DEF HandleRequest, Opened
  <2> HIDE DEF new
  <2>4. UNCHANGED <<inbox, sender, reply, dead, bounced>> /\ rx' = "armed" /\ event' = None
    BY <1>3 DEF HandleRequest
  <2>5. TypeOK'
    BY <2>2, <2>3, <2>4 DEF TypeOK
  <2>6. Overheard'
    BY <2>2, <2>3, <2>4 DEF Overheard
  <2> QED BY <2>4, <2>5, <2>6 DEF Together, HeartReachesAsker, AstrayOnlyIfOverheard
<1> QED BY <1>1, <1>2, <1>3 DEF Receive

\* What is done later, on behalf of an open request, preserves the invariant.
LEMMA LaterStep == ASSUME IInv, NEW o \in open, Later(o) PROVE IInv'
<1> USE DEF IInv
<1>1. /\ sender \in Filter /\ (sender # o.from => sender \in o.heard)
      /\ o.from \in Filter /\ o.kind \in {"tcp", "udp"} /\ o.id \in Id
      /\ o.heard \in SUBSET Filter
  BY DEF Overheard, TypeOK, Open
<1>2. open' \subseteq open /\ UNCHANGED <<inbox, rx, event, sender, dead>>
  BY DEF Later, ConnectEnds, ServerAnswers, FlowEnds
<1>3. Together' /\ Overheard'
  BY <1>2 DEF Together, Overheard
<1>4. CASE FlowEnds(o)
  BY <1>2, <1>3, <1>4 DEF FlowEnds, TypeOK, HeartReachesAsker, AstrayOnlyIfOverheard
<1>5. CASE ConnectEnds(o) \/ ServerAnswers(o)
  <2>1. Replay(o, o.heard)
    BY <1>5 DEF ConnectEnds, ServerAnswers
  <2>2. o.kind \in Kind
    BY <1>1 DEF Kind
  <2>3. /\ reply' \in Reply /\ bounced' \in BOOLEAN
        /\ reply'.to = sender /\ reply'.from = o.from
        /\ reply'.kind = o.kind /\ reply'.heard = o.heard
    BY <1>1, <2>1, <2>2, ReplyIs
  <2>4. TypeOK'
    BY <1>2, <2>3 DEF TypeOK
  <2>5. HeartReachesAsker' /\ AstrayOnlyIfOverheard'
    BY <1>1, <2>3 DEF HeartReachesAsker, AstrayOnlyIfOverheard
  <2> QED BY <1>3, <2>4, <2>5
<1> QED BY <1>4, <1>5 DEF Later

-----------------------------------------------------------------------------
\* Every step preserves the invariant.
LEMMA InductiveStep == IInv /\ [Next]_vars => IInv'
<1> SUFFICES ASSUME IInv, [Next]_vars PROVE IInv'
  OBVIOUS
<1> USE DEF IInv
<1>1. CASE \E r \in Request : Post(r)
  <2>1. inbox' \in Seq(Request)
    BY <1>1, AppendProperties DEF Post, TypeOK
  <2> QED BY <1>1, <2>1 DEF Post, TypeOK, Together, Overheard, HeartReachesAsker,
                            AstrayOnlyIfOverheard
<1>2. CASE \E f \in Filter : FilterDies(f)
  BY <1>2 DEF FilterDies, TypeOK, Together, Overheard, HeartReachesAsker,
              AstrayOnlyIfOverheard
<1>3. CASE RecvFails
  <2>1. event = None
    BY <1>3 DEF RecvFails, TypeOK
  <2> QED BY <1>3, <2>1 DEF RecvFails, TypeOK, Together, Overheard, HeartReachesAsker,
                            AstrayOnlyIfOverheard
<1>4. CASE UNCHANGED vars
  BY <1>4 DEF vars, TypeOK, Together, Overheard, HeartReachesAsker, AstrayOnlyIfOverheard
<1> QED BY <1>1, <1>2, <1>3, <1>4, ArriveStep, ReceiveStep, LaterStep DEF Next

\* The invariant holds in every reachable state.
LEMMA Always == Spec => []IInv
  BY Initially, InductiveStep, PTL DEF Spec

\* EventSender is type correct; in particular a request is in _buf_req exactly
\* from the end of its receive to the end of its handler.
THEOREM EventSenderTypeCorrect == Spec => []TypeOK
  BY Always, PTL DEF IInv

\* However many filters there are, a heart reply goes to the one that asked.
THEOREM HeartRepliesRight == Spec => []HeartReachesAsker
  BY Always, PTL DEF IInv

\* A reply that does not go to the filter that asked goes to one that was heard
\* since; with one filter there is none, and every reply is right.
THEOREM AstrayOverheard == Spec => []AstrayOnlyIfOverheard
  BY Always, PTL DEF IInv

\* One filter alone gets all its replies.
THEOREM SingleFilter ==
  ASSUME NEW f, Filter = {f}
  PROVE  Spec => []ReplyReachesAsker
<1>1. IInv => ReplyReachesAsker
  <2> SUFFICES ASSUME IInv, reply # None PROVE reply.to = reply.from
    BY DEF ReplyReachesAsker
  <2>1. reply.to = f /\ reply.from = f
    BY DEF IInv, TypeOK, Reply
  <2> QED BY <2>1
<1> QED BY <1>1, Always, PTL

-----------------------------------------------------------------------------
\* A completed receive moves the first request from the queue to the buffer,
\* which is empty, and leaves the others where they are.
LEMMA ArriveKeeps ==
  ASSUME IInv, Arrive, NEW r \in Request, Owed(r)
  PROVE  Owed(r)'
<1>1. /\ event = None /\ r # None /\ inbox \in Seq(Request) /\ inbox # <<>>
      /\ event' = Head(inbox) /\ inbox' = Tail(inbox)
  BY NoneAssumption DEF Arrive, IInv, TypeOK
<1>2. CASE Queued(r)
  <2>1. PICK i \in 1..Len(inbox) : inbox[i] = r
    BY <1>2 DEF Queued
  <2>2. CASE i = 1
    BY <1>1, <2>1, <2>2 DEF Owed
  <2>3. CASE i # 1
    <3>1. /\ Len(Tail(inbox)) = Len(inbox) - 1 /\ i - 1 \in 1..Len(inbox) - 1
          /\ Tail(inbox)[i - 1] = inbox[(i - 1) + 1] /\ (i - 1) + 1 = i
      BY <1>1, <2>1, <2>3
    <3> QED BY <1>1, <2>1, <3>1 DEF Queued, Owed
  <2> QED BY <2>2, <2>3
<1>3. CASE Answering(r) /\ r.kind = "tcp"
  <2>1. PICK o \in open : For(o, r)
    BY <1>3 DEF Answering
  <2> DEFINE h == IF o.from = Head(inbox).from THEN {} ELSE o.heard \cup {Head(inbox).from}
             q == [o EXCEPT !.heard = h]
  <2>2. q \in open'
    BY DEF Arrive
  <2>3. q.from = o.from /\ q.kind = o.kind /\ q.id = o.id
    BY DEF IInv, TypeOK, Open
  <2> HIDE DEF q
  <2>4. For(q, r)
    BY <2>1, <2>3 DEF For
  <2> QED BY <1>3, <2>2, <2>4 DEF Answering, Owed, For
<1> QED BY <1>1, <1>2, <1>3 DEF Owed

\* The handler of a request makes what it owes of it known at once: a reply, a
\* flow, or a connect.
LEMMA RequestKept ==
  ASSUME IInv, HandleRequest, NEW r \in Request, Owed(r)
  PROVE  Owed(r)' \/ Served(r)'
<1> DEFINE new == [from |-> event.from, kind |-> event.kind, id |-> event.id, heard |-> {}]
<1>1. /\ open' = {o \in open : ~For(o, event)} \cup {new} /\ inbox' = inbox
      /\ event \in Request /\ event.kind # "heart"
  BY DEF HandleRequest, Opened, IInv, TypeOK
<1>2. new \in open' /\ new.from = event.from /\ new.kind = event.kind /\ new.id = event.id
  BY <1>1
<1> HIDE DEF new
<1>3. CASE Queued(r)
  BY <1>1, <1>3 DEF Queued, Owed
<1>4. CASE event = r
  <2>1. Answering(r)'
    BY <1>2, <1>4 DEF Answering, For
  <2>2. r.kind = "tcp" \/ r.kind = "udp"
    BY <1>1, <1>4 DEF Request, Kind
  <2> QED BY <2>1, <2>2 DEF Owed, Served
<1>5. CASE r.kind = "tcp" /\ Answering(r)
  <2>1. PICK o \in open : For(o, r)
    BY <1>5 DEF Answering
  <2>2. CASE For(o, event)
    BY <1>2, <1>5, <2>1, <2>2 DEF Answering, For, Owed
  <2>3. CASE ~For(o, event)
    BY <1>1, <1>5, <2>1, <2>3 DEF Answering, For, Owed
  <2> QED BY <2>2, <2>3
<1> QED BY <1>3, <1>4, <1>5 DEF Owed

\* What is done later answers the request it is done for, and no other.
LEMMA LaterKeeps ==
  ASSUME IInv, NEW o \in open, Later(o), NEW r \in Request, Owed(r)
  PROVE  Owed(r)' \/ Served(r)'
<1>1. /\ inbox' = inbox /\ event' = event /\ o.kind \in {"tcp", "udp"}
      /\ open' = open \/ open' = open \ {o}
  BY DEF Later, ConnectEnds, ServerAnswers, FlowEnds, IInv, TypeOK, Open
<1>2. CASE Queued(r) \/ event = r
  BY <1>1, <1>2 DEF Queued, Owed
<1>3. CASE r.kind = "tcp" /\ Answering(r)
  <2>1. PICK q \in open : For(q, r)
    BY <1>3 DEF Answering
  <2>2. CASE q \in open'
    BY <1>3, <2>1, <2>2 DEF Answering, For, Owed
  <2>3. CASE q \notin open'
    <3>1. q = o /\ o.kind = "tcp"
      BY <1>1, <1>3, <2>1, <2>3 DEF For
    <3>2. reply' = [to |-> sender, from |-> o.from, kind |-> o.kind, id |-> o.id,
                    heard |-> o.heard]
      BY <3>1 DEF Later, ConnectEnds, ServerAnswers, FlowEnds, Replay
    <3>3. reply' # None
      <4>1. reply' \in Reply \cup {None} /\ sender \in Filter /\ o.heard \in SUBSET Filter
            /\ o.from \in Filter /\ o.id \in Id
        BY LaterStep DEF IInv, TypeOK, Overheard, Open
      <4>2. reply' \in Reply
        BY <1>1, <3>2, <4>1 DEF Reply, Kind
      <4> QED BY <4>2, NoneAssumption
    <3> QED BY <1>3, <2>1, <3>1, <3>2, <3>3 DEF Served, For
  <2> QED BY <2>2, <2>3
<1> QED BY <1>2, <1>3 DEF Owed

\* Whatever happens, a request that has reached the proxy's socket stays owed
\* until it is served.
THEOREM NoRequestDropped == Spec => NothingDropped
<1>1. IInv /\ IInv' /\ [Next]_vars =>
        [\A r \in Request : Owed(r) => Owed(r)' \/ Served(r)']_vars
  <2> SUFFICES ASSUME IInv, IInv', Next, NEW r \in Request, Owed(r)
               PROVE  Owed(r)' \/ Served(r)'
    OBVIOUS
  <2>1. ASSUME NEW q \in Request, Post(q) PROVE Owed(r)'
    <3>1. inbox' = Append(inbox, q) /\ UNCHANGED <<event, open>> /\ inbox \in Seq(Request)
      BY <2>1 DEF Post, IInv, TypeOK
    <3>2. \A i \in 1..Len(inbox) : i \in 1..Len(inbox') /\ inbox'[i] = inbox[i]
      BY <3>1
    <3> QED BY <3>1, <3>2 DEF Owed, Queued, Answering, For
  <2>2. CASE (\E f \in Filter : FilterDies(f)) \/ RecvFails \/ HandleError
    BY <2>2 DEF FilterDies, RecvFails, HandleError, Owed, Queued, Answering, For
  <2>3. CASE HandleHeart
    <3>1. /\ UNCHANGED <<inbox, open>> /\ Replay(event, {})
          /\ event \in Request /\ event.kind = "heart"
      BY <2>3 DEF HandleHeart, IInv, TypeOK
    <3>2. CASE event = r
      <4>1. reply' # None /\ reply'.from = r.from /\ reply'.kind = r.kind /\ reply'.id = r.id
        <5>1. sender \in Filter /\ r.from \in Filter /\ r.kind \in Kind /\ r.id \in Id
          BY <2>3, <3>1, <3>2 DEF HandleHeart, IInv, TypeOK, Together, Request
        <5>2. reply' = [to |-> sender, from |-> r.from, kind |-> r.kind, id |-> r.id,
                        heard |-> {}]
          BY <3>1, <3>2 DEF Replay
        <5>3. reply' \in Reply
          BY <5>1, <5>2 DEF Reply
        <5> QED BY <5>2, <5>3, NoneAssumption
      <4> QED BY <3>1, <3>2, <4>1 DEF Served, For
    <3>3. CASE event # r
      BY <3>1, <3>3 DEF Owed, Queued, Answering, For
    <3> QED BY <3>2, <3>3
  <2> QED BY <2>1, <2>2, <2>3, ArriveKeeps, RequestKept, LaterKeeps DEF Next, Receive
<1> QED BY <1>1, Always, PTL DEF Spec, NothingDropped
=============================================================================
