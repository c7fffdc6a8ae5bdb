--------------------------- MODULE MCRosbridgeClient ---------------------------
(* Two concurrent calls against one connection goroutine: every hazard of  *)
(* the protocol is between two calls, or a call and the goroutine.         *)
EXTENDS RosbridgeClient
CONSTANTS k1, k2
MCCalls == {k1, k2}
=============================================================================
