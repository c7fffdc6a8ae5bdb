------------------------------ MODULE MCTerminalUI -----------------------------
(* Two connections one after the other, a channel that a single message    *)
(* fills, and one prompt and one command for the input line.               *)
EXTENDS TerminalUI
MCKinds == {"status_update", "action_recipe"}
=============================================================================
