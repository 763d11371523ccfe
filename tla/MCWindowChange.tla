--------------------------- MODULE MCWindowChange ---------------------------
EXTENDS WindowChange

CONSTANTS p1, p2, p3
=============================================================================
