------------------------------- MODULE MCApp -------------------------------
\* App, with two daemons for two requests.
EXTENDS App

CONSTANTS d1, d2

Symmetry == Permutations({d1, d2})
=============================================================================
