--------------------------- MODULE MCConnections ---------------------------
(* Instances of Connections for TLC.                                       *)
EXTENDS Connections, TLC

CONSTANTS c1, c2, c3, c4

\* All connections on one event loop, or each on its own.
OneLoop  == [c \in Conns |-> 1]
OwnLoops == [c \in Conns |-> c]

\* Each connection is of a module of its own, or all are of one module, or c1
\* and c2 are of one module and the others of another.
OwnIps == [c \in Conns |-> c]
OneIp  == [c \in Conns |-> 1]
TwoIps == [c \in Conns |-> IF c \in {c1, c2} THEN 1 ELSE 2]
=============================================================================
