---------------------------- MODULE Interception ----------------------------
(***************************************************************************)
(* What MultiFilter promises an application whose TCP connect is           *)
(* intercepted, with nothing of how the two processes arrange it.          *)
(*                                                                         *)
(* A connect is held, and then leaves the hold in exactly one way: it is   *)
(* let through to the address the application asked for, or it is spliced  *)
(* to the remote socket that was opened for this very connect, or it is    *)
(* stranded because a datagram or a process was lost, or it is closed.     *)
(* Once let through it is never spliced, and it never changes its partner. *)
(* One step may move several connects: a process that dies takes all of    *)
(* its connects with it.                                                   *)
(***************************************************************************)
CONSTANTS Conn,     \* the TCP connects that are intercepted
          NoConn    \* stands for no connect at all

VARIABLES outcome,  \* outcome[c]: what has become of connect c
          partner   \* partner[c]: the connect whose remote socket c is joined to

vars == <<outcome, partner>>

Outcome == {"idle", "held", "direct", "spliced", "stranded", "closed"}

\* The fates that may follow each fate.
Follows == [idle     |-> {"held", "direct", "stranded"},
            held     |-> {"direct", "spliced", "stranded", "closed"},
            direct   |-> {"closed"},
            spliced  |-> {"closed"},
            stranded |-> {"closed"},
            closed   |-> {}]

\* A spliced connect is joined to its own remote socket, any other to none.
OwnPartner(o) == [c \in Conn |-> IF o[c] = "spliced" THEN c ELSE NoConn]

Init == /\ outcome = [c \in Conn |-> "idle"]
        /\ partner = OwnPartner(outcome)

Next == /\ outcome' \in [Conn -> Outcome]
        /\ \A c \in Conn : outcome'[c] # outcome[c] => outcome'[c] \in Follows[outcome[c]]
        /\ partner' = OwnPartner(outcome')

\* No connect is held for ever.
Progress == \A c \in Conn : outcome[c] = "held" ~> outcome[c] # "held"

SafeSpec == Init /\ [][Next]_vars
Spec == SafeSpec /\ Progress
=============================================================================
