------------------------------- MODULE MCLLMProxy -------------------------------
(* Two requests: each is served alone, two show that nothing is shared.    *)
EXTENDS LLMProxy
CONSTANTS r1, r2
MCReqs == {r1, r2}
=============================================================================
