------------------------------ MODULE BytePipe ------------------------------
(***************************************************************************)
(* What a TCP relay promises its two peers: one byte pipe for each         *)
(* direction, which hands over what was sent, in order, each byte once, as *)
(* long as the connection of the sink is open, and hands over everything   *)
(* unless one of the connections is closed.                                *)
(* Byte number i of a direction is represented by i.                       *)
(***************************************************************************)
EXTENDS Naturals, Sequences

CONSTANT Dir          \* the directions

VARIABLES sent,       \* sent[d]: number of bytes the source has sent
          out,        \* out[d]: the bytes the sink's connection was handed
          sourceGone, \* sourceGone[d]: the source's connection is closed
          sinkGone    \* sinkGone[d]: the sink's connection is closed

gone == <<sourceGone, sinkGone>>
vars == <<sent, out, gone>>

Init == /\ sent = [d \in Dir |-> 0]
        /\ out = [d \in Dir |-> <<>>]
        /\ sourceGone = [d \in Dir |-> FALSE]
        /\ sinkGone = [d \in Dir |-> FALSE]

\* The bytes number 1 to n.
Bytes(n) == [i \in 1..n |-> i]

\* The source sends one more byte.
Send(d) == /\ ~sourceGone[d]
           /\ sent' = [sent EXCEPT ![d] = @ + 1]
           /\ UNCHANGED <<out, gone>>

\* The sink's connection is handed the next bytes, up to the n-th.
Deliver(d) == \E n \in Len(out[d]) + 1 .. sent[d] :
    /\ ~sinkGone[d]
    /\ out' = [out EXCEPT ![d] = Bytes(n)]
    /\ UNCHANGED <<sent, gone>>

\* Connections are closed, for good.
Closing == /\ \A d \in Dir : /\ sourceGone[d] => sourceGone'[d]
                             /\ sinkGone[d] => sinkGone'[d]
           /\ UNCHANGED <<sent, out>>

Next == (\E d \in Dir : Send(d) \/ Deliver(d)) \/ Closing

\* What is sent arrives, unless a connection is closed.
Progress == \A d \in Dir : Len(out[d]) < sent[d]
                ~> (Len(out[d]) = sent[d] \/ sourceGone[d] \/ sinkGone[d])

SafeSpec == Init /\ [][Next]_vars
Spec == SafeSpec /\ Progress
=============================================================================
