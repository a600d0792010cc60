--------------------------- MODULE MCRequestBoard ---------------------------
EXTENDS RequestBoard

CONSTANTS p1
=============================================================================
