------------------------------ MODULE FlowTree ------------------------------
(***************************************************************************)
(* The proxy's flow table _udp_mgr as what it is, a search tree ordered by *)
(* conn_info::operator<.  UdpRelay takes the table for a function of       *)
(* flows; this module asks whether the tree is one.                        *)
(*                                                                         *)
(* A tree is known here by its entries from left to right alone.  A walk   *)
(* down any tree with these entries ends between two neighbours, both of   *)
(* which it has passed; so whatever the tree's shape, and however it was   *)
(* rebalanced, the walk ends at one of the places of Place or EndPlace.    *)
(***************************************************************************)
EXTENDS SockAddr, Sequences

CONSTANT Flow  \* the conn_infos that datagrams may have

VARIABLES
  entries,  \* _udp_mgr from left to right: the key, and the processor's id
  live,     \* the processors whose timer is running
  made,     \* processors made so far, which is the latest id (getUniqueId)
  used      \* the latest datagram: its flow and the processor it left through

tree == <<entries, live, made, used>>

TreeInit == entries = <<>> /\ live = {} /\ made = 0 /\ used = {}

Key(i) == entries[i].conn

\* lower_bound: everything passed on the left is less than c, nothing on the right is.
Place(c, i) ==
  /\ i \in 1..Len(entries) + 1
  /\ i > 1 => ConnLess(Key(i - 1), c)
  /\ i <= Len(entries) => ~ConnLess(Key(i), c)

\* upper_bound: c is less than what was passed on the right, and nothing on the left.
EndPlace(c, i) ==
  /\ i \in 1..Len(entries) + 1
  /\ i > 1 => ~ConnLess(c, Key(i - 1))
  /\ i <= Len(entries) => ConnLess(c, Key(i))

\* map::find: what is at the lower bound, unless c is less.
FoundAt(c, i) == i <= Len(entries) /\ ~ConnLess(c, Key(i))

\* The tree with e at place i, and without the places lo to hi - 1.
Inserted(e, i) ==
  [j \in 1..Len(entries) + 1 |->
     IF j < i THEN entries[j] ELSE IF j = i THEN e ELSE entries[j - 1]]
Erased(lo, hi) ==
  [j \in 1..Len(entries) - (hi - lo) |->
     IF j < lo THEN entries[j] ELSE entries[j + (hi - lo)]]

\* onUdpSend, when the search for the datagram's flow c ends at i: the datagram
\* leaves through the processor that is found, or through a new one that is
\* filed under c (setUdpProcessor) and whose timer is started.
SendFrom(c, i) ==
  IF FoundAt(c, i)
  THEN /\ used' = {[conn |-> c, id |-> entries[i].id]}
       /\ UNCHANGED <<entries, live, made>>
  ELSE /\ made' = made + 1
       /\ entries' = Inserted([conn |-> c, id |-> made'], i)
       /\ live' = live \union {[conn |-> c, id |-> made']}
       /\ used' = {[conn |-> c, id |-> made']}

onUdpSend(c) == \E i \in 1..Len(entries) + 1 : Place(c, i) /\ SendFrom(c, i)

\* The timer of p finds p idle: p is closed, and what the tree has under its flow
\* is erased.  (A timer that finds it used changes nothing here.)  Only if
\* the order is none can the walks cross, and then std::map promises nothing.
Close(p) == \E lo, hi \in 1..Len(entries) + 1 :
  /\ Place(p.conn, lo) /\ EndPlace(p.conn, hi) /\ lo <= hi
  /\ entries' = Erased(lo, hi)
  /\ live' = live \ {p}
  /\ UNCHANGED <<made, used>>

TreeNext == (\E c \in Flow : onUdpSend(c)) \/ (\E p \in live : Close(p))

TreeSpec == TreeInit /\ [][TreeNext]_tree

-----------------------------------------------------------------------------
\* The ids that the entries have for flow c, and the table that this is meant to be.
FiledUnder(c) == {entries[i].id : i \in {j \in 1..Len(entries) : Key(j) = c}}

Table == INSTANCE FlowTable WITH filed <- [c \in Flow |-> FiledUnder(c)]

\* The tree is a table: no datagram leaves through another flow's processor, or
\* through a second one while the first is open, and each timer erases its own
\* flow and no other, however the tree has grown and shrunk.
TreeIsTable == Table!Spec
=============================================================================
