------------------------------ MODULE MCNotices ------------------------------
\* Notices, with two viewers.
EXTENDS Notices

CONSTANTS v1, v2
=============================================================================
