------------------------------ MODULE FlowMap -------------------------------
(***************************************************************************)
(* The flow table of FlowTree with the shape of the tree: small, but       *)
(* exactly the walks that std::map makes, for keys whose order is none.    *)
(*                                                                         *)
(* With up to MaxFlows = 3 flows and none closed yet, the tree is its keys *)
(* in order and the place of its root: two keys have the older one as the  *)
(* root, three have the middle one, which is what the rebalancing of a     *)
(* red-black tree comes to.                                                *)
(***************************************************************************)
EXTENDS FlowTree

VARIABLE root  \* the place of the root among the entries

vars == <<tree, root>>

MaxFlows == 3

Init == TreeInit /\ root = 0

\* The walk of lower_bound from place i with a subtree of at most one key on
\* either side: the place of the first key that is not less than c.
LowerBound(c) ==
  IF entries = <<>> THEN 1
  ELSE IF ConnLess(Key(root), c)
       THEN IF root < Len(entries) /\ ConnLess(Key(root + 1), c) THEN root + 2 ELSE root + 1
       ELSE IF root > 1 /\ ~ConnLess(Key(root - 1), c) THEN root - 1 ELSE root

\* getUdpProcessor, with map::find.
Found(c) == FoundAt(c, LowerBound(c))
getUdpProcessor(c) == entries[LowerBound(c)]

\* A datagram of flow c arrives.
Datagram(c) ==
  /\ Found(c) \/ Len(entries) < MaxFlows
  /\ SendFrom(c, LowerBound(c))
  /\ root' = IF Found(c) THEN root
             ELSE IF Len(entries) = 2 \/ (Len(entries) = 1 /\ LowerBound(c) = 1) THEN 2
             ELSE 1

Next == \E c \in Flow : Datagram(c)

Spec == Init /\ [][Next]_vars

-----------------------------------------------------------------------------
\* A datagram of a flow that has a processor finds it, and no other flow's: all
\* datagrams of a flow leave from one socket, the one its answers come to, as
\* the proxy's UDP forwarding (README.md:5) needs.
FiledIsFound ==
  \A i \in 1..Len(entries) : Found(Key(i)) /\ getUdpProcessor(Key(i)) = entries[i]
=============================================================================
