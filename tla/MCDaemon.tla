------------------------------ MODULE MCDaemon ------------------------------
\* Daemon, two processes and one thread of the app.
EXTENDS Daemon, TLC

CONSTANTS d1, d2

Symmetry == Permutations({d1, d2})
=============================================================================
