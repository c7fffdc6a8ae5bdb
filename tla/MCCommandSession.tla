----------------------------- MODULE MCCommandSession -----------------------------
(* Two commands over two connections.                                      *)
EXTENDS CommandSession
=============================================================================
