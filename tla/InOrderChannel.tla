--------------------------- MODULE InOrderChannel ---------------------------
(***************************************************************************)
(* What one site promises another about the messages it publishes to it:   *)
(* a message arrives at most once and only after it was published, and     *)
(* those that arrive while the sender waits for them arrive in the order   *)
(* of publication.  Any message may be dropped, and one whose reply does   *)
(* not come in time may still arrive later, out of order.                  *)
(*                                                                         *)
(* Messages are numbered in the order of their publication.                *)
(***************************************************************************)
EXTENDS Naturals

CONSTANT MaxMessages    \* bound: publications

VARIABLES
    published,  \* number of messages published
    newest,     \* the youngest message handed to the network
    overdue,    \* messages given up by the sender and still under way
    received    \* messages the subscriber has handled

vars == <<published, newest, overdue, received>>

Init ==
    /\ published = 0
    /\ newest = 0
    /\ overdue = {}
    /\ received = {}

Publish ==
    /\ published < MaxMessages
    /\ published' = published + 1
    /\ UNCHANGED <<newest, overdue, received>>

Deliver(n) ==
    /\ newest < n /\ n <= published
    /\ newest' = n
    /\ received' = received \cup {n}
    /\ UNCHANGED <<published, overdue>>

GiveUp(n) ==
    /\ newest < n /\ n <= published
    /\ newest' = n
    /\ overdue' = overdue \cup {n}
    /\ UNCHANGED <<published, received>>

DeliverLate(n) ==
    /\ n \in overdue
    /\ overdue' = overdue \ {n}
    /\ received' = received \cup {n}
    /\ UNCHANGED <<published, newest>>

Next ==
    \/ Publish
    \/ \E n \in 1..MaxMessages : Deliver(n) \/ GiveUp(n) \/ DeliverLate(n)

Spec == Init /\ [][Next]_vars
=============================================================================
