----------------------------- MODULE Generator -----------------------------
(***************************************************************************)
(* What Engine::generate promises its callers about control: it runs one   *)
(* call at a time, a call starts with a cleared stop flag, the first token *)
(* is delivered unconditionally and every further one only if the cap and  *)
(* the stop flag allowed it when it was decided on.  Engine implements     *)
(* this; HttpServer is built on it.                                        *)
(***************************************************************************)
EXTENDS Integers

CONSTANT Cap           \* values of params.max_tokens

VARIABLES busy,        \* a call of generate() is running
          stop,        \* stop_flag_
          cap,         \* max_tokens of the running call, 0 if there is none
          count,       \* tokens it has delivered
          armed        \* it has decided on the next token

vars == <<busy, stop, cap, count, armed>>

TypeOK ==
    /\ busy \in BOOLEAN /\ stop \in BOOLEAN /\ armed \in BOOLEAN
    /\ cap \in Cap \cup {0} /\ count \in Nat

Init ==
    /\ busy = FALSE /\ stop = FALSE /\ armed = FALSE
    /\ cap = 0 /\ count = 0

Enter(m) ==
    /\ ~busy
    /\ busy' = TRUE /\ stop' = FALSE /\ cap' = m
    /\ UNCHANGED <<count, armed>>

\* The prompt is refused: the flag is cleared all the same.
Refuse ==
    /\ ~busy
    /\ stop' = FALSE
    /\ UNCHANGED <<busy, cap, count, armed>>

Decide ==
    /\ busy /\ ~armed
    /\ count = 0 \/ (count < cap /\ ~stop)
    /\ armed' = TRUE
    /\ UNCHANGED <<busy, stop, cap, count>>

Deliver ==
    /\ armed
    /\ count' = count + 1
    /\ armed' = FALSE
    /\ UNCHANGED <<busy, stop, cap>>

\* The call ends: a stop condition, or an exception out of the callback.
Return ==
    /\ busy
    /\ busy' = FALSE /\ cap' = 0 /\ count' = 0 /\ armed' = FALSE
    /\ UNCHANGED stop

Stop ==
    /\ stop' = TRUE
    /\ UNCHANGED <<busy, cap, count, armed>>

\* The process dies and another one takes its place.
Die ==
    /\ busy' = FALSE /\ cap' = 0 /\ count' = 0 /\ armed' = FALSE
    /\ stop' = FALSE

Next ==
    \/ \E m \in Cap : Enter(m)
    \/ Refuse \/ Decide \/ Deliver \/ Return \/ Stop \/ Die

Spec == Init /\ [][Next]_vars
=============================================================================
