------------------------------ MODULE Scratch ------------------------------
(***************************************************************************)
(* class ScratchPool (src/memory/pool.cpp), the bump allocator of every    *)
(* activation, and the three ways Engine::generate uses it: batched        *)
(* prefill, prefill token by token, and decode_step, each followed by the  *)
(* head that turns the last hidden state into logits.                      *)
(*                                                                         *)
(* Buffer 0 is the hidden state (x_batch or x), the others are those of    *)
(* the layer, or of the head, in the order in which the code asks for      *)
(* them.  Addresses and sizes are bytes.  A buffer lives from its get to   *)
(* the end of the layer or head that reads it; the hidden state lives on   *)
(* to the head, where the code calls its last row last_prefill_x.          *)
(***************************************************************************)
EXTENDS Integers

CONSTANTS Configs,   \* the dimensions of the models: H, Q, KV, I, V and L
          Prompts,   \* numbers of prompt tokens
          Hydrated,  \* numbers of tokens that try_hydrate_kv may restore
          Floor,     \* the least size of the pool, 64 MiB
          Margin     \* kBatchedScratchMargin, 4 MiB

Pad(size) == ((size + 255) \div 256) * 256

\* The capacity that Engine::load asks for.
Capacity(c) ==
    LET need  == 16 * c.H + 4 * c.Q + 4 * c.KV + 8 * c.I + 4 * c.V
        bytes == IF need > Floor THEN need ELSE Floor
    IN ((bytes + 4095) \div 4096) * 4096

\* What the buffers of a layer, in a pass over m tokens at once or over one,
\* and those of the head are asked for with.
BatchSize(c, m) ==
    << 2 * m * c.H, 2 * m * c.Q, 2 * m * c.KV, 2 * m * c.KV, 2 * m * c.Q,
       2 * m * c.H, 2 * m * c.H, 2 * m * c.H,
       2 * m * c.I, 2 * m * c.I, 2 * m * c.I, 2 * m * c.H >>
TokenSize(c) ==
    << 2 * c.H, 2 * c.Q, 2 * c.KV, 2 * c.KV, 2 * c.H, 2 * c.Q, 2 * c.H,
       2 * c.I, 2 * c.I, 2 * c.I >>
HeadSize(c) == << 2 * c.H, 4 * c.V >>

\* What one layer of a pass over one token takes; transformer_layer gives
\* nothing back.
LayerBytes(c) ==
    3 * Pad(2 * c.H) + 2 * Pad(2 * c.Q) + 2 * Pad(2 * c.KV) + 3 * Pad(2 * c.I)

\* The models the program is meant for: all layers of one token, its hidden
\* state and the head fit in the pool, and the head fits in the margin.
ASSUME ConfigAssumption ==
    /\ Floor \in Nat /\ Margin \in Nat /\ Prompts \subseteq Nat \ {0} /\ Hydrated \subseteq Nat
    /\ \A c \in Configs :
         /\ c \in [H : Nat, Q : Nat, KV : Nat, I : Nat, V : Nat, L : Nat \ {0}]
         /\ 2 * Pad(2 * c.H) + c.L * LayerBytes(c) + Pad(4 * c.V) <= Capacity(c)
         /\ 13 * 255 + Pad(2 * c.H) + Pad(4 * c.V) <= Margin

Null == -1
Free == -2
Buffer == 0..12

VARIABLES
    cfg, enabled,  \* the model, and JLLM_BATCHED_PREFILL
    offset,        \* offset_
    pc, pass,      \* where generate is, and which pass over the layers it makes
    n, row,        \* N; the tokens of the prompt that have been through prefill
    layer, i,      \* the layer, and the buffers it has asked for
    snapshot,      \* what transformer_prefill marked
    at             \* the address of every buffer that is alive, or Null

scratchVars == <<cfg, enabled, offset, pc, pass, n, row, layer, i, snapshot, at>>

cap == Capacity(cfg)
rows == IF pass = "batch" THEN n - row ELSE 1
Sizes == IF pc = "head" THEN HeadSize(cfg)
         ELSE IF pass = "batch" THEN BatchSize(cfg, rows) ELSE TokenSize(cfg)
Asked == IF pc = "head" THEN 2 ELSE IF pass = "batch" THEN 12 ELSE 10
SizeOf(b) == IF b = 0 THEN 2 * rows * cfg.H ELSE Sizes[b]

-----------------------------------------------------------------------------
\* ScratchPool::get at offset `from': the address, and the offset it leaves.
Got(from, size) == IF from + Pad(size) > cap THEN Null ELSE from
OffsetAfter(from, size) == IF from + Pad(size) > cap THEN from ELSE from + Pad(size)

NoBuffers == [b \in Buffer |-> Free]

ScratchInit ==
    /\ cfg \in Configs /\ enabled \in BOOLEAN
    /\ offset = 0 /\ snapshot = 0
    /\ pc = "idle" /\ pass = "decode"
    /\ n = 0 /\ row = 0 /\ layer = 0 /\ i = 0
    /\ at = NoBuffers

\* A fault: the estimate forgets swiglu_batch.
batched_fits_two_wide(N) ==
    Capacity(cfg) - (2 * N * cfg.H
                     + N * 2 * (5 * cfg.H + 2 * cfg.Q + 2 * cfg.KV + 2 * cfg.I)) >= Margin

\* The estimate that generate bases its choice on, for all N tokens.
batched_fits(N) ==
    Capacity(cfg) - (2 * N * cfg.H
                     + N * 2 * (5 * cfg.H + 2 * cfg.Q + 2 * cfg.KV + 3 * cfg.I)) >= Margin

\* reset() and the get of the hidden state of m tokens.
Begin(m) ==
    /\ offset' = OffsetAfter(0, 2 * m * cfg.H)
    /\ at' = [NoBuffers EXCEPT ![0] = Got(0, 2 * m * cfg.H)]
    /\ pc' = "layers" /\ layer' = 0 /\ i' = 0
    /\ snapshot' = OffsetAfter(0, 2 * m * cfg.H)

\* generate gets to its prefill with N tokens, the first s of them hydrated.
\* When all are, the decode loop computes the last position again.
Generate(N, s) ==
    /\ pc = "idle" /\ s <= N
    /\ n' = N /\ row' = s
    /\ \/ /\ s < N /\ enabled /\ batched_fits(N)
          /\ pass' = "batch" /\ Begin(N - s)
       \/ /\ s < N /\ ~(enabled /\ batched_fits(N))
          /\ pass' = "prefill" /\ pc' = "next"
          /\ UNCHANGED <<offset, layer, i, snapshot, at>>
       \/ /\ s = N
          /\ pass' = "decode" /\ pc' = "next"
          /\ UNCHANGED <<offset, layer, i, snapshot, at>>
    /\ UNCHANGED <<cfg, enabled>>

\* The next token of the prompt, or the next iteration of the decode loop.
BeginToken ==
    /\ pc = "next"
    /\ Begin(1)
    /\ UNCHANGED <<cfg, enabled, pass, n, row>>

\* The decode loop ends.
Return ==
    /\ pc = "next" /\ pass = "decode"
    /\ pc' = "idle" /\ n' = 0 /\ row' = 0
    /\ UNCHANGED <<cfg, enabled, offset, pass, layer, i, snapshot, at>>

\* The layer, or the head, asks for its next buffer.
Get ==
    /\ pc \in {"layers", "head"} /\ i < Asked
    /\ at' = [at EXCEPT ![i + 1] = Got(offset, Sizes[i + 1])]
    /\ offset' = OffsetAfter(offset, Sizes[i + 1])
    /\ i' = i + 1
    /\ UNCHANGED <<cfg, enabled, pc, pass, n, row, layer, snapshot>>

rewind_to(saved) == IF saved < 0 \/ saved > cap THEN offset ELSE saved

\* A fault: a layer of batched prefill ends by resetting the pool.
EndsInReset ==
    /\ pc = "layers" /\ i = Asked
    /\ offset' = IF pass = "batch" THEN 0 ELSE offset
    /\ at' = [NoBuffers EXCEPT ![0] = at[0]]
    /\ i' = 0
    /\ layer' = IF layer + 1 < cfg.L THEN layer + 1 ELSE 0
    /\ IF layer + 1 < cfg.L THEN UNCHANGED <<pc, row>>
       ELSE IF pass = "prefill" /\ row + 1 < n
       THEN pc' = "next" /\ row' = row + 1
       ELSE pc' = "head" /\ UNCHANGED row
    /\ UNCHANGED <<cfg, enabled, pass, n, snapshot>>

\* The layer is done; transformer_prefill goes back to its mark, and
\* transformer_layer keeps what it has taken.  After the last layer comes
\* the next token of the prompt or the head.
LayerDone ==
    /\ pc = "layers" /\ i = Asked
    /\ offset' = IF pass = "batch" THEN rewind_to(snapshot) ELSE offset
    /\ at' = [NoBuffers EXCEPT ![0] = at[0]]
    /\ i' = 0
    /\ layer' = IF layer + 1 < cfg.L THEN layer + 1 ELSE 0
    /\ IF layer + 1 < cfg.L THEN UNCHANGED <<pc, row>>
       ELSE IF pass = "prefill" /\ row + 1 < n
       THEN pc' = "next" /\ row' = row + 1
       ELSE pc' = "head" /\ UNCHANGED row
    /\ UNCHANGED <<cfg, enabled, pass, n, snapshot>>

\* The head has its logits, or could not copy them, or got no buffer: Path A
\* then leaves the first token to the loop, and decode_step returns EOS.
HeadDone ==
    /\ pc = "head" /\ i = Asked
    /\ at' = NoBuffers /\ i' = 0
    /\ pc' = "next" /\ pass' = "decode"
    /\ UNCHANGED <<cfg, enabled, offset, n, row, layer, snapshot>>

ScratchNext ==
    \/ \E N \in Prompts : \E s \in Hydrated : Generate(N, s)
    \/ BeginToken \/ Get \/ LayerDone \/ HeadDone \/ Return

ScratchSpec == ScratchInit /\ [][ScratchNext]_scratchVars

-----------------------------------------------------------------------------
(* Correctness.                                                            *)

ScratchTypeOK ==
    /\ cfg \in Configs /\ enabled \in BOOLEAN
    /\ offset \in Int /\ snapshot \in Int
    /\ pc \in {"idle", "next", "layers", "head"}
    /\ pass \in {"batch", "prefill", "decode"}
    /\ n \in Nat /\ row \in 0..n
    /\ layer \in 0..(cfg.L - 1) /\ i \in 0..Asked
    /\ at \in [Buffer -> Int]

\* get() never returns null to the layers, which do not test for it, nor to
\* the head: the estimate behind batched_fits covers what transformer_prefill
\* then asks for, and the passes over one token, which give nothing back
\* between layers, stay within the pool.
NeverExhausted == \A b \in Buffer : at[b] # Null

\* Two buffers that are alive never share a byte, and all lie in the pool: no
\* layer, and not the head, overwrites the hidden state it has yet to read.
LiveDisjoint ==
    \A a \in Buffer : at[a] >= 0 =>
        /\ at[a] + SizeOf(a) <= cap
        /\ \A b \in Buffer : a # b /\ at[b] >= 0 =>
             at[a] + SizeOf(a) <= at[b] \/ at[b] + SizeOf(b) <= at[a]
=============================================================================
