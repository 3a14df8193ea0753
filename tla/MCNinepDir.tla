----------------------------- MODULE MCNinepDir -----------------------------
\* Small instances of NinepDir.
EXTENDS NinepDir, TLC

CONSTANTS c1, c2

MCClients == {c1, c2}
Symm == Permutations(MCClients)
=============================================================================
