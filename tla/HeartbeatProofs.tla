-------------------------- MODULE HeartbeatProofs ---------------------------
(***************************************************************************)
(* Proofs about Heartbeat, for any number of misses, of evt_ids, of posts  *)
(* between two heartbeats and any age at which messages are lost, as long  *)
(* as no message lives until its evt_id comes round again.                 *)
(*                                                                         *)
(* The argument counts evt_ids.  A message of age n was posted n + 1 ids   *)
(* before the counter at least, and only so many more as were taken by     *)
(* other requests; the latest heartbeat is exactly posted + 1 ids before   *)
(* it.  Since the counter does not come round in that time, only messages  *)
(* of age 0 have the evt_id of the latest heartbeat.                       *)
(***************************************************************************)
EXTENDS Heartbeat, TLAPS

\* How many evt_ids ago id was taken, when the counter is at c.
Ago(id, c) == IF id < c THEN c - id ELSE c + IdMod - id

\* The most evt_ids that n heartbeats and the posts between them take.
Span(n) == n * (MaxPosts + 1)

\* A message is as old as its evt_id says.
Timed(m) ==
  /\ m.age + posted + 1 <= Ago(m.id, counter)
  /\ Ago(m.id, counter) <= Span(m.age) + posted + 1

InTime ==
  /\ \A m \in reqs \union replies : Timed(m)
  /\ reqId # IdMod => Ago(reqId, counter) = posted + 1

\* The replies of a dead proxy are as old as its silence at least, and its
\* silence is counted in the misses.
Silence == ~up =>
  /\ reqs = {} /\ silent <= misses
  /\ \A m \in replies : silent <= m.age

IInv == TypeOK /\ InTime /\ Silence

-----------------------------------------------------------------------------
(* Facts about evt_ids.                                                    *)

\* The bounds are natural numbers, and no span of a message reaches IdMod.
LEMMA Spans ==
  /\ IdMod \in Nat /\ IdMod > MaxPosts + 1 /\ MaxPosts \in Nat /\ MaxAge \in Nat
  /\ MaxMisses \in Nat
  /\ \A n \in 0..MaxAge : /\ Span(n) \in Nat /\ Span(n) + MaxPosts + 1 < IdMod
                          /\ Span(n + 1) = Span(n) + MaxPosts + 1
  /\ Span(0) = 0
<1>1. /\ IdMod \in Nat /\ MaxPosts \in Nat /\ MaxAge \in Nat /\ MaxMisses \in Nat
      /\ IdMod > (MaxAge + 1) * (MaxPosts + 1)
  BY BoundAssumption
<1> DEFINE p == MaxPosts + 1
<1>2. p \in Nat /\ p > 0
  BY <1>1
<1>3. \A n \in Nat : n * p \in Nat /\ (n + 1) * p = n * p + p
  <2> HIDE DEF p
  <2> QED BY <1>2
<1>4. \A n \in 0..MaxAge : n * p <= MaxAge * p
  <2> HIDE DEF p
  <2> TAKE n \in 0..MaxAge
  <2>1. n \in Nat /\ MaxAge \in Nat /\ MaxAge - n \in Nat /\ MaxAge = n + (MaxAge - n)
    BY <1>1
  <2>2. (MaxAge - n) * p \in Nat
    BY <1>3, <2>1
  <2>3. MaxAge * p = n * p + (MaxAge - n) * p
    BY <1>2, <2>1
  <2>4. n * p \in Nat
    BY <1>3, <2>1
  <2> QED BY <2>2, <2>3, <2>4
<1>5. (MaxAge + 1) * p = MaxAge * p + p /\ MaxAge * p \in Nat
  BY <1>1, <1>3
<1>6. \A n \in 0..MaxAge : n * p \in Nat /\ n * p + p < IdMod
  <2> HIDE DEF p
  <2> TAKE n \in 0..MaxAge
  <2>1. n * p \in Nat /\ n * p <= MaxAge * p
    BY <1>1, <1>3, <1>4
  <2>2. MaxAge * p + p < IdMod
    BY <1>1, <1>5 DEF p
  <2> QED BY <1>1, <1>2, <1>5, <2>1, <2>2
<1>7. p < IdMod
  <2>1. 0 * p + p < IdMod /\ 0 * p = 0
    BY <1>1, <1>2, <1>6
  <2> QED BY <1>2, <2>1
<1> QED BY <1>1, <1>2, <1>3, <1>6, <1>7 DEF Span

\* When the counter moves on, an evt_id that it has not come round to is one
\* further ago, and the one just taken is one ago.
LEMMA MovesOn ==
  ASSUME NEW c \in 0..IdMod-1
  PROVE  /\ Succ(c) \in 0..IdMod-1 /\ Ago(c, Succ(c)) = 1
         /\ \A id \in 0..IdMod-1 : /\ Ago(id, c) \in 1..IdMod
                                   /\ Ago(id, c) < IdMod => Ago(id, Succ(c)) = Ago(id, c) + 1
<1>1. IdMod \in Nat /\ IdMod > 0 /\ c \in Nat /\ c < IdMod
  BY Spans
<1>2. Succ(c) = IF c = IdMod - 1 THEN 0 ELSE c + 1
  <2>1. CASE c = IdMod - 1
    <3>1. c + 1 = IdMod
      BY <1>1, <2>1
    <3>2. IdMod % IdMod = 0
      BY <1>1
    <3> QED BY <2>1, <3>1, <3>2 DEF Succ
  <2>2. CASE c # IdMod - 1
    <3>1. c + 1 \in Nat /\ c + 1 < IdMod
      BY <1>1, <2>2
    <3>2. (c + 1) % IdMod = c + 1
      BY <1>1, <3>1
    <3> QED BY <2>2, <3>2 DEF Succ
  <2> QED BY <2>1, <2>2
<1> HIDE DEF Succ
<1> QED BY <1>1, <1>2 DEF Ago

\* The messages that are still under way when a heartbeat is posted.
LEMMA AgedOnes ==
  ASSUME NEW M \in SUBSET Message
  PROVE  \A m \in Aged(M) : \E x \in M : /\ x.age < MaxAge /\ m \in Message
                                         /\ m.id = x.id /\ m.age = x.age + 1
<1> SUFFICES ASSUME NEW m \in Aged(M)
             PROVE  \E x \in M : /\ x.age < MaxAge /\ m \in Message
                                 /\ m.id = x.id /\ m.age = x.age + 1
  OBVIOUS
<1>1. PICK x \in M : x.age < MaxAge /\ m = [x EXCEPT !.age = @ + 1]
  BY DEF Aged
<1>2. x.id \in 0..IdMod-1 /\ x.age \in 0..MaxAge /\ x = [id |-> x.id, age |-> x.age]
  BY DEF Message
<1>3. m = [id |-> x.id, age |-> x.age + 1]
  BY <1>1, <1>2
<1>4. x.age + 1 \in 0..MaxAge
  BY <1>1, <1>2, Spans
<1> QED BY <1>1, <1>2, <1>3, <1>4 DEF Message

\* Of all the messages only those of age 0 carry the latest evt_id.
LEMMA LatestIsYoung ==
  ASSUME TypeOK, InTime, NEW m \in reqs \union replies, m.id = reqId
  PROVE  m.age = 0
<1>1. m.id \in 0..IdMod-1 /\ m.age \in 0..MaxAge /\ posted \in 0..MaxPosts
      /\ counter \in 0..IdMod-1
  BY DEF TypeOK, Message
<1>2. reqId # IdMod
  BY <1>1, Spans
<1>3. Ago(m.id, counter) = posted + 1 /\ m.age + posted + 1 <= Ago(m.id, counter)
  BY <1>2 DEF InTime, Timed
<1>4. Ago(m.id, counter) \in 1..IdMod
  BY <1>1, MovesOn
<1> QED BY <1>1, <1>3, <1>4, Spans

-----------------------------------------------------------------------------
(* The invariant.                                                          *)

\* The invariant holds initially.
LEMMA Initially == Init => IInv
<1> SUFFICES ASSUME Init PROVE IInv
  OBVIOUS
<1>1. 0 \in 0..IdMod-1 /\ 0 \in 0..MaxPosts /\ IdMod \in 0..IdMod /\ 0 \in 0..MaxMisses+1
  BY Spans
<1>2. TypeOK
  BY <1>1 DEF Init, TypeOK
<1>3. InTime /\ Silence
  BY DEF Init, InTime, Silence
<1> QED BY <1>2, <1>3 DEF IInv

\* A request that takes an evt_id.
LEMMA Taken ==
  ASSUME TypeOK, NEW m \in Message, Timed(m)
  PROVE  /\ Ago(m.id, Succ(counter)) = Ago(m.id, counter) + 1
         /\ Ago(m.id, counter) \in Nat
         /\ m.age \in 0..MaxAge /\ m.id \in 0..IdMod-1
<1>1. m.id \in 0..IdMod-1 /\ m.age \in 0..MaxAge /\ posted \in 0..MaxPosts
      /\ counter \in 0..IdMod-1
  BY DEF TypeOK, Message
<1>2. Ago(m.id, counter) \in 1..IdMod /\ Ago(m.id, counter) <= Span(m.age) + posted + 1
  BY <1>1, MovesOn DEF Timed
<1>3. Span(m.age) \in Nat /\ Span(m.age) + MaxPosts + 1 < IdMod
  BY <1>1, Spans
<1>4. Ago(m.id, counter) < IdMod
  BY <1>1, <1>2, <1>3, Spans
<1> QED BY <1>1, <1>2, <1>4, MovesOn, Spans

\* A heartbeat ages what is under way by one, and takes the next evt_id.
LEMMA TimerStep == IInv /\ HeartTimer => IInv' /\ misses <= misses'
<1> SUFFICES ASSUME IInv, HeartTimer PROVE IInv' /\ misses <= misses'
  OBVIOUS
<1> USE DEF IInv
<1>1. /\ counter \in 0..IdMod-1 /\ posted \in 0..MaxPosts
      /\ reqs \in SUBSET Message /\ replies \in SUBSET Message
      /\ misses \in 0..MaxMisses+1 /\ silent \in 0..MaxMisses+1
  BY DEF TypeOK
<1> DEFINE new == [id |-> counter, age |-> 0]
<1>2. /\ reqId' = counter /\ counter' = Succ(counter) /\ posted' = 0
      /\ reqs' = Aged(reqs) \union (IF up THEN {new} ELSE {}) /\ replies' = Aged(replies)
      /\ misses' = Counted(misses) /\ silent' = IF up THEN 0 ELSE Counted(silent)
      /\ up' = up /\ calm' = calm
  BY DEF HeartTimer, Beats
<1>3. /\ Counted(misses) \in 0..MaxMisses+1 /\ Counted(silent) \in 0..MaxMisses+1
      /\ misses <= Counted(misses) /\ Counted(silent) <= silent + 1
      /\ silent <= misses => Counted(silent) <= Counted(misses)
  BY <1>1, Spans DEF Counted
<1>4. new \in Message /\ new.id = counter /\ new.age = 0
  BY <1>1, Spans DEF Message
<1> HIDE DEF new
<1>5. TypeOK'
  <2>1. reqs' \subseteq Message /\ replies' \subseteq Message
    BY <1>1, <1>2, <1>4, AgedOnes
  <2>2. counter' \in 0..IdMod-1 /\ reqId' \in 0..IdMod /\ posted' \in 0..MaxPosts
    <3>1. Succ(counter) \in 0..IdMod-1
      BY <1>1, MovesOn
    <3> QED BY <1>1, <1>2, <3>1, Spans
  <2>3. misses' \in 0..MaxMisses+1 /\ silent' \in 0..MaxMisses+1
    BY <1>2, <1>3, Spans
  <2> QED BY <1>2, <2>1, <2>2, <2>3 DEF TypeOK
<1>6. ASSUME NEW m \in reqs' \union replies' PROVE Timed(m)'
  <2>1. CASE m = new
    <3>1. Ago(m.id, counter') = 1
      BY <1>1, <1>2, <1>4, <2>1, MovesOn
    <3> QED BY <1>2, <1>4, <2>1, <3>1, Spans DEF Timed
  <2>2. CASE m # new
    <3>1. m \in Aged(reqs) \/ m \in Aged(replies)
      BY <1>2, <2>2
    <3>2. PICK x \in reqs \union replies : x.age < MaxAge /\ m.id = x.id /\ m.age = x.age + 1
      BY <1>1, <3>1, AgedOnes
    <3>3. Timed(x) /\ x \in Message
      BY <1>1 DEF InTime
    <3>4. Ago(x.id, Succ(counter)) = Ago(x.id, counter) + 1 /\ Ago(x.id, counter) \in Nat
          /\ x.age \in 0..MaxAge
      BY <3>3, Taken
    <3>5. Span(x.age) \in Nat /\ Span(x.age + 1) = Span(x.age) + MaxPosts + 1
      BY <3>4, Spans
    <3>6. x.age + posted + 1 <= Ago(x.id, counter) /\ Ago(x.id, counter) <= Span(x.age) + posted + 1
      BY <3>3 DEF Timed
    <3>7. /\ (x.age + 1) + 0 + 1 <= Ago(x.id, counter) + 1
          /\ Ago(x.id, counter) + 1 <= Span(x.age + 1) + 0 + 1
      BY <1>1, <3>4, <3>5, <3>6, Spans
    <3> QED BY <1>2, <3>2, <3>4, <3>7 DEF Timed
  <2> QED BY <2>1, <2>2
<1>7. InTime'
  <2>1. Ago(reqId', counter') = posted' + 1
    BY <1>1, <1>2, MovesOn
  <2> QED BY <1>6, <2>1 DEF InTime
<1>8. Silence'
  <2> SUFFICES ASSUME ~up' PROVE /\ reqs' = {} /\ silent' <= misses'
                                 /\ \A m \in replies' : silent' <= m.age
    BY DEF Silence
  <2>1. ~up /\ reqs = {} /\ silent <= misses /\ \A m \in replies : silent <= m.age
    BY <1>2 DEF Silence
  <2>2. reqs' = {}
    BY <1>2, <2>1 DEF Aged
  <2>3. silent' <= misses'
    BY <1>2, <1>3, <2>1
  <2>4. ASSUME NEW m \in replies' PROVE silent' <= m.age
    <3>1. PICK x \in replies : m.age = x.age + 1
      BY <1>1, <1>2, AgedOnes
    <3>2. silent <= x.age /\ x.age \in 0..MaxAge
      BY <1>1, <2>1 DEF Message
    <3>3. silent' = Counted(silent)
      BY <1>2, <2>1
    <3>4. Counted(silent) <= silent + 1 /\ Counted(silent) \in 0..MaxMisses+1
      BY <1>3
    <3> QED BY <1>1, <3>1, <3>2, <3>3, <3>4, Spans
  <2> QED BY <2>2, <2>3, <2>4
<1> QED BY <1>2, <1>3, <1>5, <1>7, <1>8

\* A driver callback takes an evt_id.
LEMMA PostStep == IInv /\ Post => IInv'
<1> SUFFICES ASSUME IInv, Post PROVE IInv'
  OBVIOUS
<1> USE DEF IInv
<1>1. /\ counter \in 0..IdMod-1 /\ posted \in 0..MaxPosts /\ reqId \in 0..IdMod
      /\ reqs \in SUBSET Message /\ replies \in SUBSET Message
  BY DEF TypeOK
<1>2. /\ posted < MaxPosts /\ posted' = posted + 1 /\ counter' = Succ(counter)
      /\ reqId' = reqId /\ misses' = misses /\ reqs' = reqs /\ replies' = replies
      /\ up' = up /\ silent' = silent /\ calm' = calm
  BY DEF Post
<1>3. TypeOK'
  <2>1. Succ(counter) \in 0..IdMod-1 /\ posted + 1 \in 0..MaxPosts
    BY <1>1, <1>2, MovesOn, Spans
  <2> QED BY <1>2, <2>1 DEF TypeOK
<1>4. ASSUME NEW m \in reqs \union replies PROVE Timed(m)'
  <2>1. Timed(m) /\ m \in Message
    BY <1>1 DEF InTime
  <2>2. Ago(m.id, Succ(counter)) = Ago(m.id, counter) + 1 /\ Ago(m.id, counter) \in Nat
        /\ m.age \in 0..MaxAge
    BY <2>1, Taken
  <2>3. Span(m.age) \in Nat
    BY <2>2, Spans
  <2>4. /\ m.age + (posted + 1) + 1 <= Ago(m.id, counter) + 1
        /\ Ago(m.id, counter) + 1 <= Span(m.age) + (posted + 1) + 1
    BY <1>1, <2>1, <2>2, <2>3, Spans DEF Timed
  <2> QED BY <1>2, <2>2, <2>4 DEF Timed
<1>5. reqId # IdMod => Ago(reqId, Succ(counter)) = (posted + 1) + 1
  <2> SUFFICES ASSUME reqId # IdMod PROVE Ago(reqId, Succ(counter)) = (posted + 1) + 1
    OBVIOUS
  <2>1. reqId \in 0..IdMod-1 /\ Ago(reqId, counter) = posted + 1
    BY <1>1, Spans DEF InTime
  <2>2. Ago(reqId, counter) < IdMod
    BY <1>1, <1>2, <2>1, Spans
  <2> QED BY <1>1, <2>1, <2>2, MovesOn
<1>6. InTime'
  BY <1>2, <1>4, <1>5 DEF InTime
<1>7. Silence'
  BY <1>2 DEF Silence
<1> QED BY <1>3, <1>6, <1>7

\* A reply forgives the misses only if it is of age 0.
LEMMA RecvStep ==
  ASSUME IInv, NEW m \in replies, RecvHeart(m)
  PROVE  IInv' /\ (misses' # misses => m.age = 0 /\ m \notin replies')
<1> USE DEF IInv
<1>1. /\ replies' = replies \ {m} /\ misses' = IF m.id = reqId THEN 0 ELSE misses
      /\ counter' = counter /\ posted' = posted /\ reqId' = reqId /\ reqs' = reqs
      /\ up' = up /\ silent' = silent /\ calm' = calm
  BY DEF RecvHeart, Received
<1>2. m.id = reqId => m.age = 0
  BY LatestIsYoung
<1>3. TypeOK'
  BY <1>1, Spans DEF TypeOK
<1>4. InTime'
  BY <1>1 DEF InTime, Timed
<1>5. Silence'
  <2>1. ASSUME ~up, m.id = reqId PROVE silent <= 0
    BY <1>2, <2>1 DEF Silence
  <2> QED BY <1>1, <2>1 DEF Silence
<1> QED BY <1>1, <1>2, <1>3, <1>4, <1>5

\* What the proxy does and what may go wrong only moves or removes messages.
LEMMA OthersStep ==
  ASSUME IInv,
         \/ \E m \in reqs : ReplayHeart(m)
         \/ \E m \in reqs \union replies : Lose(m)
         \/ ProxyCrash \/ ProxyRestart \/ Calm \/ UNCHANGED vars
  PROVE  IInv' /\ misses' = misses
<1> USE DEF IInv
<1>1. ASSUME NEW m \in reqs, ReplayHeart(m) PROVE IInv' /\ misses' = misses
  BY <1>1 DEF ReplayHeart, TypeOK, InTime, Timed, Silence
<1>2. ASSUME NEW m \in reqs \union replies, Lose(m) PROVE IInv' /\ misses' = misses
  BY <1>2 DEF Lose, TypeOK, InTime, Timed, Silence
<1>3. CASE ProxyCrash
  <2>1. TypeOK'
    <3>1. 0 \in 0..MaxMisses+1
      BY Spans
    <3> QED BY <1>3, <3>1 DEF ProxyCrash, TypeOK
  <2>2. InTime'
    BY <1>3 DEF ProxyCrash, InTime, Timed
  <2>3. \A m \in replies : 0 <= m.age
    BY Spans DEF TypeOK, Message
  <2>4. Silence'
    BY <1>3, <2>3 DEF ProxyCrash, Silence, TypeOK
  <2> QED BY <1>3, <2>1, <2>2, <2>4 DEF ProxyCrash
<1>4. CASE ProxyRestart
  BY <1>4, Spans DEF ProxyRestart, TypeOK, InTime, Timed, Silence
<1>5. CASE Calm
  BY <1>5 DEF Calm, TypeOK, InTime, Timed, Silence
<1>6. CASE UNCHANGED vars
  BY <1>6 DEF vars, TypeOK, InTime, Timed, Silence
<1> QED BY <1>1, <1>2, <1>3, <1>4, <1>5, <1>6

\* Every step keeps the invariant.
LEMMA InductiveStep == IInv /\ [Next]_vars => IInv'
  BY TimerStep, PostStep, RecvStep, OthersStep DEF Next

\* The invariant holds in every state.
THEOREM Always == Spec => []IInv
  BY Initially, InductiveStep, PTL DEF Spec

-----------------------------------------------------------------------------
(* The theorems.                                                           *)

\* Every variable keeps its type.
THEOREM HeartbeatTypeCorrect == Spec => []TypeOK
<1>1. IInv => TypeOK
  BY DEF IInv
<1> QED BY <1>1, Always, PTL

\* The misses are forgiven only by a reply to the latest heartbeat.
THEOREM OnlyLatestForgives == Spec => OnlyLatestCounts
<1> DEFINE Forgiven == misses' < misses => \E m \in replies \ replies' : m.age = 0
<1>1. IInv /\ [Next]_vars => [Forgiven]_vars
  <2> SUFFICES ASSUME IInv, [Next]_vars, misses' < misses
               PROVE  \E m \in replies \ replies' : m.age = 0
    OBVIOUS
  <2>1. misses \in Nat /\ misses' # misses
    BY Spans DEF IInv, TypeOK
  <2>2. CASE HeartTimer
    <3>1. misses <= misses' /\ misses' \in Nat
      BY <2>2, TimerStep, Spans DEF IInv, TypeOK
    <3> QED BY <2>1, <3>1
  <2>3. CASE Post
    BY <2>1, <2>3 DEF Post
  <2>4. ASSUME NEW m \in replies, RecvHeart(m) PROVE m.age = 0 /\ m \in replies \ replies'
    BY <2>1, <2>4, RecvStep
  <2> QED BY <2>1, <2>2, <2>3, <2>4, OthersStep DEF Next
<1> QED BY <1>1, Always, PTL DEF Spec, OnlyLatestCounts

\* A proxy that is dead for more than HEART_ERROR_TIMES_MAX heartbeats is taken
\* for dead, whatever replies were still under way.
THEOREM DeadNoticed == Spec => []DeadIsNoticed
<1>1. IInv => DeadIsNoticed
  BY Spans DEF IInv, TypeOK, Silence, DeadIsNoticed, Active
<1> QED BY <1>1, Always, PTL

\* A proxy that is trusted again stays trusted, as long as nothing is lost or
\* late.
THEOREM TrustIsKept == MaxMisses > 0 => (Spec => TrustLasts)
<1> SUFFICES ASSUME MaxMisses > 0 PROVE Spec => TrustLasts
  OBVIOUS
<1>1. ASSUME IInv, IInv', Next, Assured PROVE Assured'
  <2>1. calm /\ up
    BY <1>1 DEF Assured
  <2>2. CASE HeartTimer
    <3> DEFINE new == [id |-> counter, age |-> 0]
    <3>1. /\ reqs = {} /\ replies = {} /\ reqId' = counter /\ misses' = Counted(misses)
          /\ reqs' = Aged(reqs) \union {new} /\ UNCHANGED <<up, calm>>
      BY <2>1, <2>2 DEF HeartTimer, Beats
    <3>2. misses = 0
      BY <1>1, <3>1 DEF Assured
    <3>3. misses' = 1
      BY <3>1, <3>2, Spans DEF Counted
    <3>4. new \in reqs' /\ new.id = reqId'
      BY <3>1
    <3> QED BY <2>1, <3>1, <3>3, <3>4 DEF Assured
  <2>3. CASE Post
    BY <1>1, <2>3 DEF Post, Assured
  <2>4. ASSUME NEW m \in replies, RecvHeart(m) PROVE Assured'
    <3>1. /\ replies' = replies \ {m} /\ misses' = (IF m.id = reqId THEN 0 ELSE misses)
          /\ UNCHANGED <<reqs, reqId, up, calm>>
      BY <2>4 DEF RecvHeart, Received
    <3>2. CASE m.id = reqId
      BY <2>1, <3>1, <3>2 DEF Assured
    <3>3. CASE m.id # reqId
      BY <1>1, <3>1, <3>3 DEF Assured
    <3> QED BY <3>2, <3>3
  <2>5. ASSUME NEW m \in reqs, ReplayHeart(m) PROVE Assured'
    <3>1. reqs' \union replies' = reqs \union replies /\ UNCHANGED <<reqId, misses, up, calm>>
      BY <2>5 DEF ReplayHeart
    <3> QED BY <1>1, <3>1 DEF Assured
  <2>6. ASSUME NEW m \in reqs \union replies, Lose(m) PROVE FALSE
    BY <2>1, <2>6 DEF Lose
  <2>7. ~ProxyCrash /\ ~ProxyRestart /\ ~Calm
    BY <2>1 DEF ProxyCrash, ProxyRestart, Calm
  <2> QED BY <1>1, <2>2, <2>3, <2>4, <2>5, <2>6, <2>7 DEF Next
<1>2. ASSUME IInv', Assured' PROVE Active'
  BY <1>2, Spans DEF Assured, Active
<1>3. IInv /\ IInv' /\ [Next]_vars => [Assured => Assured' /\ Active']_vars
  BY <1>1, <1>2
<1> QED BY <1>3, Always, PTL DEF Spec, TrustLasts
=============================================================================
