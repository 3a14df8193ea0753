---------------------------- MODULE MCFuseNode -----------------------------
\* A small instance of FuseNode.
EXTENDS FuseNode

CONSTANTS p1, p2, n1

MCProcs == {p1, p2}
MCNodes == {n1}
=============================================================================
