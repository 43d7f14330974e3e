----------------------------- MODULE Heartbeat ------------------------------
(***************************************************************************)
(* The heartbeat by which the filter process decides whether the proxy is  *)
(* alive, and with it whether connects are forwarded at all.               *)
(*                                                                         *)
(* Every HEART_INTERVAL_MS ClientEvent posts a heart request and counts a  *)
(* miss; a reply that carries the evt_id of the latest heart request sets  *)
(* the count back to 0; more than HEART_ERROR_TIMES_MAX misses mean that   *)
(* the proxy is taken for dead.  evt_ids come from one 16-bit counter that *)
(* the driver's callbacks use for their own requests at the same time.     *)
(*                                                                         *)
(* Heart requests and replies may be lost, and may arrive after later      *)
(* heartbeats; the proxy may die and return.  The age of a message is the  *)
(* number of heartbeats posted since its request was posted.               *)
(***************************************************************************)
EXTENDS Naturals

CONSTANTS MaxMisses,  \* HEART_ERROR_TIMES_MAX
          IdMod,      \* number of evt_ids (2^16 in the code)
          MaxPosts,   \* bound: other requests posted between two heartbeats
          MaxAge      \* bound: a message older than this is never delivered

ASSUME BoundAssumption ==
  /\ MaxMisses \in Nat /\ IdMod \in Nat /\ MaxPosts \in Nat /\ MaxAge \in Nat
  \* no message survives until its evt_id comes round again
  /\ IdMod > (MaxAge + 1) * (MaxPosts + 1)

VARIABLES
  counter,  \* evt_counter: the next evt_id
  posted,   \* other requests posted since the last heartbeat
  reqId,    \* evt_id of _heart_request, IdMod before the first heartbeat
  misses,   \* _heart_error_times, counted up to MaxMisses + 1
  reqs,     \* heart requests in flight
  replies,  \* heart replies in flight
  up,       \* the proxy process is running
  silent,   \* heartbeats posted since the proxy died, up to MaxMisses + 1
  calm      \* from now on nothing is lost, late or dies

vars == <<counter, posted, reqId, misses, reqs, replies, up, silent, calm>>

Message == [id : 0..IdMod-1, age : 0..MaxAge]

Init == /\ counter = 0 /\ posted = 0 /\ reqId = IdMod /\ misses = 0
        /\ reqs = {} /\ replies = {}
        /\ up = TRUE /\ silent = 0 /\ calm = FALSE

-----------------------------------------------------------------------------
\* Planted bugs: the limit off by one, the counter read as if it had no width.
ActiveOneLater == misses <= MaxMisses + 1
SuccWithoutWidth(id) == id + 1

\* is_server_active_unsafe, read without a lock by the driver's thread.
Active == misses <= MaxMisses

Succ(id) == (id + 1) % IdMod

\* One more, but not beyond the first value that makes a difference.
Counted(n) == IF n > MaxMisses THEN n ELSE n + 1

\* The messages still under way when a heartbeat is posted; the oldest are lost.
Aged(messages) == {[m EXCEPT !.age = @ + 1] : m \in {x \in messages : x.age < MaxAge}}

-----------------------------------------------------------------------------
(* The filter process.                                                     *)

\* The timer fires: the request goes out with a new evt_id, then the miss is
\* counted.  Nobody receives it when the proxy is down.  id: the evt_id remembered.
Beats(id) ==
  /\ calm => reqs = {} /\ replies = {}
  /\ reqId' = id /\ counter' = Succ(counter) /\ posted' = 0
  /\ misses' = Counted(misses)
  /\ reqs' = Aged(reqs) \union (IF up THEN {[id |-> counter, age |-> 0]} ELSE {})
  /\ replies' = Aged(replies)
  /\ silent' = IF up THEN 0 ELSE Counted(silent)
  /\ UNCHANGED <<up, calm>>

\* Planted bug: what is remembered is the counter after it has moved on.
HeartTimerRemembersNext == Beats(Succ(counter))

HeartTimer == Beats(counter)

\* A driver callback posts a request of its own.
Post ==
  /\ posted < MaxPosts
  /\ posted' = posted + 1 /\ counter' = Succ(counter)
  /\ UNCHANGED <<reqId, misses, reqs, replies, up, silent, calm>>

\* The filter receives a heart reply and has n misses then.
Received(m, n) ==
  /\ m \in replies
  /\ replies' = replies \ {m}
  /\ misses' = n
  /\ UNCHANGED <<counter, posted, reqId, reqs, up, silent, calm>>

\* Planted bugs: any heart reply will do; a reply takes back one miss only (the
\* line that is commented out in do_event_recv).
RecvAnyHeart(m) == Received(m, 0)
RecvHeartTakesOne(m) ==
  Received(m, IF m.id = reqId /\ misses > 0 THEN misses - 1 ELSE misses)

RecvHeart(m) == Received(m, IF m.id = reqId THEN 0 ELSE misses)

-----------------------------------------------------------------------------
(* The proxy process, and what may go wrong.                               *)

\* ServerEvent answers with the evt_id of the request.
ReplayHeart(m) ==
  /\ up /\ m \in reqs
  /\ reqs' = reqs \ {m} /\ replies' = replies \union {m}
  /\ UNCHANGED <<counter, posted, reqId, misses, up, silent, calm>>

Lose(m) ==
  /\ ~calm /\ m \in reqs \union replies
  /\ reqs' = reqs \ {m} /\ replies' = replies \ {m}
  /\ UNCHANGED <<counter, posted, reqId, misses, up, silent, calm>>

ProxyCrash ==
  /\ ~calm /\ up
  /\ up' = FALSE /\ reqs' = {} /\ silent' = 0
  /\ UNCHANGED <<counter, posted, reqId, misses, replies, calm>>

ProxyRestart ==
  /\ ~up /\ up' = TRUE /\ silent' = 0
  /\ UNCHANGED <<counter, posted, reqId, misses, reqs, replies, calm>>

Calm ==
  /\ ~calm /\ up /\ calm' = TRUE
  /\ UNCHANGED <<counter, posted, reqId, misses, reqs, replies, up, silent>>

Next == \/ HeartTimer
        \/ Post
        \/ \E m \in replies : RecvHeart(m)
        \/ \E m \in reqs : ReplayHeart(m)
        \/ \E m \in reqs \union replies : Lose(m)
        \/ ProxyCrash
        \/ ProxyRestart
        \/ Calm

\* The timer is armed again after every heartbeat, and both receive loops after
\* every datagram.
Fairness == /\ WF_vars(HeartTimer)
            /\ WF_vars(\E m \in replies : RecvHeart(m))
            /\ WF_vars(\E m \in reqs : ReplayHeart(m))

Spec == Init /\ [][Next]_vars
FairSpec == Spec /\ Fairness
-----------------------------------------------------------------------------
(* Properties.                                                             *)

\* Every variable keeps its type: evt_ids stay within 16 bits and the count
\* within its bound.
TypeOK ==
  /\ counter \in 0..IdMod-1 /\ posted \in 0..MaxPosts /\ reqId \in 0..IdMod
  /\ misses \in 0..MaxMisses+1 /\ silent \in 0..MaxMisses+1
  /\ reqs \subseteq Message /\ replies \subseteq Message
  /\ up \in BOOLEAN /\ calm \in BOOLEAN

\* The misses are forgiven only by a reply to the latest heartbeat: one that
\* arrives late says nothing about the proxy now, although evt_ids wrap and are
\* shared with the driver's requests.
OnlyLatestCounts ==
  [][misses' < misses => \E m \in replies \ replies' : m.age = 0]_vars

\* A proxy that is dead for more than HEART_ERROR_TIMES_MAX heartbeats is taken
\* for dead ("more than that: the proxy is treated as closed, forwarding
\* stops", shareddefines.h:7), whatever replies were still under way.
DeadIsNoticed == ~up /\ silent > MaxMisses => ~Active

\* The misses are forgiven, or the one that counts has its answer under way.
Assured ==
  /\ calm /\ up
  /\ \/ misses = 0
     \/ misses = 1 /\ \E m \in reqs \union replies : m.id = reqId

\* A proxy that is trusted again stays trusted, as long as nothing is lost or
\* late: no heartbeat, no request of the driver's that takes an evt_id, and no
\* late reply to an earlier heartbeat, comes between a heartbeat and its reply.
TrustLasts == [][Assured => Assured' /\ Active']_vars

\* Once nothing is lost, late or dying any more, the proxy is trusted again and
\* for good, however long it was taken for dead.
Recovers == calm ~> []Active
=============================================================================
