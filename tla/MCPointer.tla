----------------------------- MODULE MCPointer ------------------------------
\* Pointer with two viewers, on a panel of a few pixels.
EXTENDS Pointer

CONSTANTS c1, c2
=============================================================================
