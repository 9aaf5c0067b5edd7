----------------------------- MODULE MCPeerCli -----------------------------
(***************************************************************************)
(* PeerCli for TLC.                                                        *)
(***************************************************************************)
EXTENDS PeerCli

CONSTANTS p1, p2, c1, c2, a1, a2

\* "wga peers wgc" for two nodes and "wga peers add" for one of their names.
Overlapping == [c \in Cmds |-> IF c = c1 THEN <<p1, p2>> ELSE <<p2>>]

\* "wga peers wgc" for one node, twice.
Again == [c \in Cmds |-> <<p1>>]
=============================================================================
