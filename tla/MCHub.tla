--------------------------------- MODULE MCHub ---------------------------------
(* Three connection attempts: one that holds the slot, and two that can    *)
(* both be past the first check when it is freed.                          *)
EXTENDS Hub
CONSTANTS c1, c2, c3
MCConns == {c1, c2, c3}
=============================================================================
