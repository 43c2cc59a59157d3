--------------------------- MODULE MCSessionWriters ---------------------------
EXTENDS SessionWriters, TLC

CONSTANTS h1, a1, d1, j1, s1, s2

\* The command opens the round.
OneCommand == h1 :> 0

Interchangeable == Permutations(Servers)
===============================================================================
