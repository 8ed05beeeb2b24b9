--------------------------- MODULE MCCanaryServer ---------------------------
(* A small instance of CanaryServer.                                         *)
EXTENDS CanaryServer

CONSTANTS c1, c2, c3, k1, k2
=============================================================================
