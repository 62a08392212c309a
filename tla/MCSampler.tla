----------------------------- MODULE MCSampler -----------------------------
(* Sampler over four tokens: ties, underflow, non-finite logits, a token   *)
(* that was seen twice, top_k off, below and at the size of the vocabulary. *)
EXTENDS Sampler

MCExp == [d \in 0..Depth |-> 2 ^ (Depth - d)]
MCValues == {-1, 4, 8}
MCRecents == { <<1>>, <<0, 2, 0>> }
MCParams ==
    { q \in [invT : {0, 1, 2}, topK : {0, 2, 3, 4}, num : {1, 9}, den : {10},
             penalty : {1, 2}, debug : BOOLEAN, fast : BOOLEAN] :
        /\ q.invT = 0 => q.topK = 2 /\ q.num = 9
        /\ q.topK \in {0, 4} => q.num = 9
        /\ q.invT = 2 => q.penalty = 2 }
=============================================================================
