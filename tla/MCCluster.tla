------------------------------ MODULE MCCluster -------------------------------
\* Two nodes, a station that moves between them, and at most one call to it.
EXTENDS Cluster

CONSTANTS a, b, cp, c1
===============================================================================
