-------------------------- MODULE MCKVCacheFile ---------------------------
(* Instances of KVCacheFile for TLC.                                       *)
EXTENDS KVCacheFile

CONSTANTS p1, p2, c1, c2, c3, v1

\* One process, three conversations, payloads of one size: two files fit.
OneProc  == {p1}
ThreeConv == {c1, c2, c3}
TwoConvs == {c1, c2}
OneOwner == [c \in Conv |-> p1]
OnePayload == {v1}
Ones == [v \in Payload |-> 1]

\* Two processes, each with a conversation of its own; no two files fit.
TwoProc == {p1, p2}
TwoOwner == [c \in Conv |-> IF c = c1 THEN p1 ELSE p2]
=============================================================================
