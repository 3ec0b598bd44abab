--------------------------- MODULE MCSubscription ---------------------------
(***************************************************************************)
(* Subscription on two subscribers, two message ids and two threads.  The  *)
(* properties are invariants and action properties that treat the sites,   *)
(* messages and threads alike, so that symmetry is sound.                  *)
(***************************************************************************)
EXTENDS Subscription

Symmetry == Permutations(Site) \cup Permutations(Message) \cup Permutations(Thread)
=============================================================================
