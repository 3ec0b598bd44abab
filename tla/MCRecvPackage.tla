--------------------------- MODULE MCRecvPackage ---------------------------
(***************************************************************************)
(* The gateway is external.  A message travels as one whole package (index *)
(* 0) or as a start (1), middle (2) and end (3) package, each in a frame   *)
(* of its own in which the bytes 1, 2 and 3 are sent as 2, 17 and so on.   *)
(* One header byte, 145, stands for the four of the code.                  *)
(***************************************************************************)
EXTENDS RecvPackage, TLC

MCLine == <<
    1, 145, 2, 17, 8, 3,        1, 145, 2, 18, 2, 18, 3,    1, 145, 2, 19, 9, 3,
    1, 145, 0, 2, 17, 3,
    1, 145, 2, 17, 2, 19, 3,    1, 145, 2, 19, 10, 3,
    1, 145, 0, 11, 3 >>

MCEnds == <<19, 25, 38, 43>>

MCSaid ==
    (6  :> <<145, 1, 8>>) @@ (13 :> <<145, 1, 8, 2>>) @@ (19 :> <<145, 1, 8, 2, 9>>) @@
    (25 :> <<145, 0, 1>>) @@
    (32 :> <<145, 1, 3>>) @@ (38 :> <<145, 1, 3, 10>>) @@
    (43 :> <<145, 0, 11>>)
=============================================================================
