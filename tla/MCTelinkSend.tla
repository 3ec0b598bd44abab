--------------------------- MODULE MCTelinkSend ----------------------------
(* Two switches, one with two commands queued at a time, one with one. *)
EXTENDS TelinkSend

CONSTANTS c1, c2, s1, s2, s3, A, B

MCAddressOf == [s \in {s1, s2, s3} |-> IF s = s3 THEN B ELSE A]
=============================================================================
