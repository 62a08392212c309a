------------------------------ MODULE MCEngine ------------------------------
(* Instances of Engine for TLC: two tokens, one of them EOS (which chat     *)
(* prompts contain too).                                                    *)
EXTENDS Engine

CONSTANTS a, e, c1, c2, m1, m2, h1, h2, h0

Tokens == {a, e}
Hashes == {h0, h1, h2}
Prints == [m \in Model |-> IF m = m1 THEN h1 ELSE h2]

\* Prompts that extend, repeat and contradict each other.
TurnPrompts == {<< >>, <<a, e>>, <<a, a, e>>}
ShortPrompts == {<<a>>, <<a, e>>}

\* Among them a negative one that makes reserve() throw for short prompts.
Caps == {-3, 0, 3}
=============================================================================
