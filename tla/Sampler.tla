------------------------------ MODULE Sampler ------------------------------
(***************************************************************************)
(* sample_token (src/engine/sample.cpp): from the logits of a pass to a    *)
(* token, through the repeat penalty, the heap of the k best or the        *)
(* softmax over everything, top-p and a random draw.                       *)
(*                                                                         *)
(* A logit is an integer, or Bad for an infinity or NaN.  The exponential  *)
(* of a logit d below the greatest one is Exp[d], any falling function,    *)
(* and 0 beyond Depth, as when expf underflows; the temperature multiplies *)
(* d.  Sums are exact.  Where the code leaves the order of equals open     *)
(* (heap, sort) the model takes any.                                       *)
(***************************************************************************)
EXTENDS Integers, Sequences, FiniteSets, FiniteSetsExt, Functions

CONSTANTS VocabSize,
          Values,      \* finite logits
          Bad,
          Params,      \* GenParams, and the environment's two switches
          Recents,     \* recent_tokens
          Depth,
          Exp          \* expf

Token == 0..(VocabSize - 1)
Logit == Values \cup {Bad}

\* invT is the inverse temperature, 0 for one that asks for greedy decoding;
\* topP is num/den.
Param == [invT : Nat, topK : Int, num : Nat, den : Nat \ {0}, penalty : Nat,
          debug : BOOLEAN, fast : BOOLEAN]

ASSUME SamplerAssumption ==
    /\ VocabSize \in Nat \ {0} /\ Depth \in Nat
    /\ Values \subseteq Int /\ Bad \notin Int
    /\ Params \subseteq Param /\ Recents \subseteq Seq(Token)
    /\ Exp \in [0..Depth -> Nat \ {0}]
    /\ \A d, e \in 0..Depth : d < e => Exp[d] > Exp[e]

VARIABLES
    par, recent, given,  \* the arguments, logits as they came
    pc,
    logits,              \* the array, which the code changes in place
    penalized,           \* penalty_applied
    i, heap,             \* the scan of sample_top_k_fast and its heap
    cand, mass,          \* the candidates in order; what their weights are normalized by
    kept,                \* how many of them top-p has left
    out                  \* the token returned, -1 before

input == <<par, recent, given>>
vars == <<input, pc, logits, penalized, i, heap, cand, mass, kept, out>>

Finite(lg) == { t \in Token : lg[t] # Bad }
Greatest(lg, S) == Max({ lg[t] : t \in S })
Weight(invT, lg, top, t) ==
    LET d == (top - lg[t]) * invT
    IN IF lg[t] = Bad \/ d > Depth THEN 0 ELSE Exp[d]
Mass(invT, lg, top, S) == MapThenSumSet(LAMBDA t : Weight(invT, lg, top, t), S)

Above(lg, s, t) == lg[s] # Bad /\ (lg[t] = Bad \/ lg[s] > lg[t])

\* The orders in which a sort by falling key may leave S.
Sorted(key, S) ==
    { q \in [1..Cardinality(S) -> S] :
        IsInjective(q) /\ \A a, b \in DOMAIN q : a < b => key[q[a]] >= key[q[b]] }

-----------------------------------------------------------------------------
Init ==
    /\ par \in Params /\ recent \in Recents /\ given \in [Token -> Logit]
    /\ pc = "start" /\ logits = given /\ penalized = FALSE
    /\ i = 0 /\ heap = {} /\ cand = << >> /\ mass = 0 /\ kept = 0
    /\ out = -1

\* The first of the greatest finite logits, token 0 if there is none.
sample_greedy(lg) ==
    LET F == Finite(lg) IN
    IF F = {} THEN 0 ELSE Min({ t \in F : lg[t] = Greatest(lg, F) })

Penalty(p, v) == IF v = Bad THEN Bad ELSE IF v > 0 THEN v \div p ELSE v * p

\* Once for every occurrence among the recent tokens.
apply_repeat_penalty(lg) ==
    IF par.penalty <= 1 THEN lg
    ELSE LET after[m \in 0..Len(recent)] ==
               IF m = 0 THEN lg
               ELSE [after[m - 1] EXCEPT
                       ![recent[m]] = Penalty(par.penalty, after[m - 1][recent[m]])]
         IN after[Len(recent)]

Returns(t) == out' = t /\ pc' = "done"

\* The path without debugging: greedy, or the penalty and the fast sampler.
Start ==
    /\ pc = "start"
    /\ \/ /\ ~par.debug /\ par.invT = 0
          /\ Returns(sample_greedy(logits)) /\ UNCHANGED <<logits, penalized>>
       \/ /\ ~par.debug /\ par.invT > 0
          /\ logits' = apply_repeat_penalty(logits) /\ penalized' = TRUE
          /\ pc' = IF par.fast THEN "fast" ELSE "sanitize"
          /\ UNCHANGED out
       \/ /\ par.debug
          /\ pc' = "sanitize" /\ UNCHANGED <<logits, penalized, out>>
    /\ UNCHANGED <<input, i, heap, cand, mass, kept>>

\* A fault: the penalty is applied again after the fast sampler declined.
SanitizePenalizes ==
    /\ pc = "sanitize"
    /\ \/ par.invT = 0 /\ Returns(sample_greedy(logits)) /\ UNCHANGED <<logits, penalized>>
       \/ /\ par.invT > 0
          /\ logits' = apply_repeat_penalty(logits)
          /\ penalized' = TRUE
          /\ pc' = IF par.fast THEN "fast" ELSE "softmax"
          /\ UNCHANGED out
    /\ UNCHANGED <<input, i, heap, cand, mass, kept>>

\* What is not finite becomes -INFINITY, which Bad stands for already; then
\* greedy, the penalty if it is due, and the fast sampler (again).
Sanitize ==
    /\ pc = "sanitize"
    /\ \/ par.invT = 0 /\ Returns(sample_greedy(logits)) /\ UNCHANGED <<logits, penalized>>
       \/ /\ par.invT > 0
          /\ logits' = IF penalized THEN logits ELSE apply_repeat_penalty(logits)
          /\ penalized' = TRUE
          /\ pc' = IF par.fast THEN "fast" ELSE "softmax"
          /\ UNCHANGED out
    /\ UNCHANGED <<input, i, heap, cand, mass, kept>>

-----------------------------------------------------------------------------
(* sample_top_k_fast.                                                      *)

InRange == par.topK > 0 /\ par.topK < VocabSize

\* A fault: the caller does not look whether it is a token.
DeclineReturns ==
    /\ pc = "fast" /\ ~InRange
    /\ pc' = "done" /\ out' = -1
    /\ i' = VocabSize
    /\ UNCHANGED <<input, logits, penalized, heap, cand, mass, kept>>

\* It returns -1 and the caller goes on; `i' records that it was tried, as
\* the code's position does.
Decline ==
    /\ pc = "fast" /\ ~InRange
    /\ pc' = IF i = 0 /\ ~par.debug THEN "sanitize" ELSE "softmax"
    /\ i' = VocabSize
    /\ UNCHANGED <<input, logits, penalized, heap, cand, mass, kept, out>>

Least(S) == { t \in S : logits[t] = Min({ logits[s] : s \in S }) }

\* A fault: the heap's order is inverted and the greatest is replaced.
ScanInverted ==
    /\ pc = "fast" /\ InRange /\ i < VocabSize
    /\ \/ logits[i] = Bad /\ UNCHANGED heap
       \/ logits[i] # Bad /\ Cardinality(heap) < par.topK /\ heap' = heap \cup {i}
       \/ /\ logits[i] # Bad /\ Cardinality(heap) = par.topK
          /\ \E t \in { s \in heap : logits[s] = Greatest(logits, heap) } :
               heap' = IF logits[i] > logits[t] THEN (heap \ {t}) \cup {i} ELSE heap
    /\ i' = i + 1
    /\ UNCHANGED <<input, pc, logits, penalized, cand, mass, kept, out>>

\* The next token of the vocabulary goes into the heap if there is room or if
\* it beats the front, one of the least.
Scan ==
    /\ pc = "fast" /\ InRange /\ i < VocabSize
    /\ \/ logits[i] = Bad /\ UNCHANGED heap
       \/ logits[i] # Bad /\ Cardinality(heap) < par.topK /\ heap' = heap \cup {i}
       \/ /\ logits[i] # Bad /\ Cardinality(heap) = par.topK
          /\ \E t \in Least(heap) :
               heap' = IF logits[i] > logits[t] THEN (heap \ {t}) \cup {i} ELSE heap
    /\ i' = i + 1
    /\ UNCHANGED <<input, pc, logits, penalized, cand, mass, kept, out>>

max == Greatest(logits, Finite(logits))

\* Sorted and normalized by what the heap holds.
FastSoftmax ==
    /\ pc = "fast" /\ InRange /\ i = VocabSize
    /\ \/ /\ heap = {} /\ Returns(sample_greedy(logits)) /\ UNCHANGED <<cand, mass>>
       \/ /\ heap # {} /\ cand' \in Sorted(logits, heap)
          /\ mass' = Mass(par.invT, logits, max, heap)
          /\ pc' = "top_p" /\ UNCHANGED out
    /\ UNCHANGED <<input, logits, penalized, i, heap, kept>>

\* Over the whole vocabulary; top_k_filter sorts only when it cuts.
Softmax ==
    /\ pc = "softmax"
    /\ \/ Finite(logits) = {} /\ Returns(0) /\ UNCHANGED <<cand, mass>>
       \/ /\ Finite(logits) # {}
          /\ mass' = Mass(par.invT, logits, max, Token)
          /\ \/ ~InRange /\ cand' = [j \in 1..VocabSize |-> j - 1]
             \/ /\ InRange
                /\ \E q \in Sorted([t \in Token |-> Weight(par.invT, logits, max, t)], Token) :
                      cand' = SubSeq(q, 1, par.topK)
          /\ pc' = "top_p" /\ UNCHANGED out
    /\ UNCHANGED <<input, logits, penalized, i, heap, kept>>

CandWeight(j) == Weight(par.invT, logits, max, cand[j])
Cum(j) == MapThenSumSet(CandWeight, 1..j)

\* Up to and including the candidate whose cumulated probability passes p.
top_p_filter ==
    LET over == { j \in 1..Len(cand) : Cum(j) * par.den > par.num * mass }
    IN IF over = {} THEN Len(cand) ELSE Min(over)

TopP ==
    /\ pc = "top_p"
    /\ kept' = top_p_filter
    /\ pc' = "draw"
    /\ UNCHANGED <<input, logits, penalized, i, heap, cand, mass, out>>

\* The first candidate whose cumulated weight reaches r, drawn from
\* [0, total): any that has weight, and the first one when r is 0.
sample_from ==
    /\ pc = "draw"
    /\ \E j \in 1..kept : (j = 1 \/ CandWeight(j) > 0) /\ Returns(cand[j])
    /\ UNCHANGED <<input, logits, penalized, i, heap, cand, mass, kept>>

Next ==
    \/ Start \/ Sanitize \/ Decline \/ Scan \/ FastSoftmax \/ Softmax \/ TopP
    \/ sample_from

Spec == Init /\ [][Next]_vars /\ WF_vars(Next)

-----------------------------------------------------------------------------
(* Properties.                                                             *)

\* What n occurrences among the recent tokens make of a logit.
Repeated(p, v, n) ==
    LET f[m \in 0..n] == IF m = 0 \/ p <= 1 THEN v ELSE Penalty(p, f[m - 1])
    IN f[n]

\* The penalty counts every recent token once, however many of the two
\* samplers have looked at the array before a token is chosen: a logit read
\* by them is the given one penalised as often as its token occurs in
\* recent_tokens (the flag penalty_applied of sample_token).
PenaltyOnce ==
    pc \in {"fast", "softmax", "top_p", "draw"} =>
        \A t \in Token :
            logits[t] = Repeated(par.penalty, given[t],
                                 Cardinality({ j \in DOMAIN recent : recent[j] = t }))

\* With top_k in range a token is drawn only from the k most likely and the
\* nucleus, whichever of the two samplers did it: its logit is finite if any
\* is, fewer than k tokens are likelier, and those together do not yet pass
\* top_p; at temperature 0 it is the likeliest.
Nucleus ==
    (pc = "done" /\ Finite(logits) # {} /\ (InRange \/ par.invT = 0)) =>
        LET better == { t \in Token : Above(logits, t, out) } IN
        /\ out \in Finite(logits)
        /\ par.invT = 0 => better = {}
        /\ par.invT > 0 => /\ Cardinality(better) < par.topK
                           /\ Mass(par.invT, logits, max, better) * par.den <= par.num * mass

\* A token comes back whatever the logits and the parameters are, also when
\* the fast sampler declines twice (the -1 it returns is never a token).
SampleEnds == <>(pc = "done" /\ out \in Token)
=============================================================================
