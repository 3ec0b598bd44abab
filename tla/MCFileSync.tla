----------------------------- MODULE MCFileSync -----------------------------
EXTENDS FileSync

CONSTANTS p1, p2, d1, d2
=============================================================================
