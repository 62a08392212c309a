---------------------------- MODULE MCThinkSplit ----------------------------
(* ThinkSplit with short tags that keep the structure of the real ones:    *)
(* both start and end with the same character, they differ in the second,  *)
(* and no tag overlaps itself.                                             *)
EXTENDS ThinkSplit

Chars == {"<", "/", ">", " "}
Spaces == {" "}
OpenTag == <<"<", ">">>
CloseTag == <<"<", "/", ">">>
=============================================================================
