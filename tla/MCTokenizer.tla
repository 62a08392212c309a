---------------------------- MODULE MCTokenizer ----------------------------
(* Tokenizer for TLC: blank, apostrophe, s, < and e with acute accent; the  *)
(* last one is in the vocabulary only byte by byte.                         *)
EXTENDS Tokenizer

Chars == {<<32>>, <<39>>, <<115>>, <<60>>, <<195, 169>>}

\* The blank and the two bytes of the accented letter, as byte_encoder has
\* them.
G == <<196, 160>>
A == <<195, 131>>
C == <<194, 169>>
s == <<115>>

Tokens ==
    {G, A, C, s, <<32>>, <<39>>, <<60>>, A \o C, s \o s, G \o s, G \o s \o s,
     <<39, 115>>, <<60, 115>>, <<60, 115, 60>>, <<60, 39>>, <<60, 60, 60, 115>>}

\* One is the beginning of the other.
Specials == {<<60, 115>>, <<60, 115, 60>>}
ByteTokens == [t \in {<<60, 39>>} |-> 10]

\* The result of the last one is no token.
MergeList == <<<<s, s>>, <<A, C>>, <<G, s>>, <<G, s \o s>>, <<<<39>>, s>>,
               <<s \o s, s>>>>

BosString == <<60, 60, 60, 115>>
EosString == <<60, 115>>
=============================================================================
