------------------------------ MODULE MCDrain ------------------------------
EXTENDS Drain

CONSTANTS p1, p2, p3
=============================================================================
