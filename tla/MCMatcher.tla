-------------------------------- MODULE MCMatcher ------------------------------
(* All written names of up to four characters, and of five that begin with *)
(* a letter that the names have; "c" is a filler word, "A" a capital.      *)
EXTENDS Matcher

MCLower == [a |-> "a", b |-> "b", A |-> "a", c |-> "c"]
MCStopWords == {<<"c">>}
MCNames == {<<"a", "_", "b">>, <<"b", "_", "b">>, <<"a", "b", "b", "a">>, <<"b", "a", "a">>}
MCValues ==
    UNION {[1..n -> {"a", "b", "_"}] : n \in 0..4}
        \cup {<<"c", "_", "b">>, <<"c">>, <<"A", "_", "b">>, <<"A", "b", "b", "a">>,
              <<"a", "b", "a", "b", "a">>, <<"a", "b", "b", "b", "a">>}
=============================================================================
