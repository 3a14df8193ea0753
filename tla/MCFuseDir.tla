----------------------------- MODULE MCFuseDir ------------------------------
\* Small instances of FuseDir.
EXTENDS FuseDir, TLC

CONSTANTS p1, p2, n1

MCProcs == {p1, p2}
MCNodes == {n1}
=============================================================================
