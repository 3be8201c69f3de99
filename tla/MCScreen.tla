------------------------------ MODULE MCScreen ------------------------------
\* Screen on a panel of a few pixels, with one viewer or two.
EXTENDS Screen

CONSTANTS c1, c2
=============================================================================
