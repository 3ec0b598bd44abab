--------------------------- MODULE PackageStream ---------------------------
(***************************************************************************)
(* What the receiving side of the BLE site promises about the messages the *)
(* gateway sends over a serial line that may lose bytes: a message whose   *)
(* bytes all arrive, after a message whose last byte arrived, is handled   *)
(* as it was sent, once and in order.  Junk is handled only because of     *)
(* damage, and no longer after the next such message.                      *)
(***************************************************************************)
EXTENDS Naturals, Sequences

CONSTANT Messages   \* the messages are numbered 1..Messages

VARIABLES
    damaged,    \* messages that lost a byte
    cut,        \* messages that lost their last byte
    got         \* what was handled: message numbers, or Junk

Junk == 0

vars == <<damaged, cut, got>>

Handled == {got[i] : i \in DOMAIN got} \ {Junk}

\* The message is whole, and a frame of the message before cannot run into it.
Sheltered(m) == m \notin damaged /\ m - 1 \notin cut

Init == damaged = {} /\ cut = {} /\ got = <<>>

Damage(m, isLast) ==
    /\ m \notin Handled
    /\ damaged' = damaged \cup {m}
    /\ cut' = IF isLast THEN cut \cup {m} ELSE cut
    /\ UNCHANGED got

Handle(m) ==
    /\ \A k \in Handled : k < m
    /\ \A k \in 1..(m - 1) : Sheltered(k) => k \in Handled
    /\ got' = Append(got, m)
    /\ UNCHANGED <<damaged, cut>>

HandleJunk ==
    /\ \E m \in damaged : \A k \in Handled : Sheltered(k) => k < m
    /\ got' = Append(got, Junk)
    /\ UNCHANGED <<damaged, cut>>

Next ==
    \/ \E m \in 1..Messages : Handle(m) \/ \E isLast \in BOOLEAN : Damage(m, isLast)
    \/ HandleJunk

Spec == Init /\ [][Next]_vars
=============================================================================
