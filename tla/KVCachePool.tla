---------------------------- MODULE KVCachePool ----------------------------
(***************************************************************************)
(* class KVCachePool (src/memory/kv_cache.cpp): the flat arrays that hold  *)
(* the keys and values of every layer and position, the offsets at which   *)
(* the engine stores them, the packed copy that goes to a file and the way *)
(* back, cut down to the prefix that a new prompt shares with the file.    *)
(*                                                                         *)
(* An address counts half entries (the keys, or the values, of one layer   *)
(* and position); every offset and length in the code is a multiple of     *)
(* that.  What the array ought to hold is kept beside it in `want', by     *)
(* layer, position and half.                                               *)
(*                                                                         *)
(* The pool's format is fixed when the model is loaded; stores and saves   *)
(* go by the request's kv_int8, which is the pool's unless the body of the *)
(* request says otherwise (http_server.cpp:382).  docs/server.md:89 says   *)
(* of such an override that it produces garbage: from then on (`mixed')    *)
(* the control is followed and the contents are not.                       *)
(***************************************************************************)
EXTENDS Integers

CONSTANTS NLayers,     \* cfg.n_layers
          MaxContext,  \* cfg.max_context, tokens in the fast pool
          Overflow,    \* cfg.overflow_context
          Version,     \* distinguishes the contents a cell gets over time
          Zero,        \* what memset leaves
          Garbage,     \* not followed: stored in two formats
          Any,         \* nothing is promised about this cell
          NoFile

ASSUME ConstAssumption ==
    /\ NLayers \in Nat \ {0} /\ MaxContext \in Nat \ {0} /\ Overflow \in Nat

Layer == 0..(NLayers - 1)
Pos   == 0..(MaxContext + Overflow - 1)
Half  == {"k", "v"}
Slot  == Layer \X Pos \X Half
Fast  == 0..(2 * NLayers * MaxContext - 1)
Slow  == 0..(2 * NLayers * Overflow - 1)

\* The keys or values computed for a layer and position.
Cell == [layer : Layer, pos : Pos, half : Half, version : Version]
Word == Cell \cup {Zero, Garbage}

VARIABLES
    int8,        \* cfg.kv_type_bytes = 1, fixed by init
    kv_int8,     \* gen_params_.kv_int8, the request's
    mixed,       \* some request so far had a format other than the pool's
    gpu, cpu,    \* gpu_pool_ and cpu_pool_
    scales,      \* kv_scales_: the row of scales that goes with each half
    gpuTokens,   \* gpu_tokens_
    pc, layer,   \* the copy that is running, and the layer it is at
    n,           \* its used_tokens
    host,        \* the packed host buffer it fills or empties
    file,        \* the last file written: format, used_tokens, body
    want,        \* [Slot -> Word]
    fileWant     \* `want' for its tokens when the file was written

copy == <<pc, layer, n, host>>
format == <<int8, kv_int8, mixed>>
pools == <<gpu, cpu, scales, want>>
vars == <<format, pools, gpuTokens, copy, file, fileWant>>

-----------------------------------------------------------------------------
\* memcpy of m half entries, and memset.
Copy(dst, d, src, s, m) ==
    [a \in DOMAIN dst |-> IF a \in d..(d + m - 1) THEN src[s + (a - d)] ELSE dst[a]]
Fill(dst, d, m, w) ==
    [a \in DOMAIN dst |-> IF a \in d..(d + m - 1) THEN w ELSE dst[a]]

\* Where the keys and the values of a position are in its pool.
key_ptr(l, p) ==
    IF p < MaxContext THEN l * 2 * MaxContext + p
    ELSE l * 2 * Overflow + (p - MaxContext)

val_ptr(l, p) ==
    IF p < MaxContext THEN l * 2 * MaxContext + MaxContext + p
    ELSE l * 2 * Overflow + Overflow + (p - MaxContext)

\* In rows of n_kv_heads floats.
kv_scale_ptr(l, p, isValue) ==
    l * 2 * MaxContext + (IF isValue THEN MaxContext ELSE 0) + p

Read(l, p, h) ==
    LET a == IF h = "k" THEN key_ptr(l, p) ELSE val_ptr(l, p)
    IN IF p < MaxContext THEN gpu[a] ELSE cpu[a]

Init ==
    /\ int8 \in BOOLEAN /\ kv_int8 = int8 /\ mixed = FALSE
    /\ gpu = [a \in Fast |-> Zero] /\ cpu = [a \in Slow |-> Zero]
    /\ scales = [a \in Fast |-> Zero]
    /\ gpuTokens = 0
    /\ pc = "idle" /\ layer = 0 /\ n = 0 /\ host = << >>
    /\ file = NoFile
    /\ want = [c \in Slot |-> Zero]
    /\ fileWant = NoFile

Finish == pc' = "idle" /\ layer' = 0 /\ n' = 0 /\ host' = << >>

\* All four arrays hold nothing but w.
Filled(w) ==
    /\ gpu' = [a \in Fast |-> w] /\ cpu' = [a \in Slow |-> w]
    /\ scales' = [a \in Fast |-> w] /\ want' = [c \in Slot |-> w]

\* The process ends and another one loads the model, in either format: a new
\* pool, and the old file.  (Ending during a copy leaves no more behind than
\* ending after it failed.)
Restart(b) ==
    /\ pc = "idle"
    /\ int8' = b /\ kv_int8' = b
    /\ Filled(IF mixed THEN Garbage ELSE Zero)
    /\ gpuTokens' = 0
    /\ UNCHANGED <<mixed, copy, file, fileWant>>

\* A request begins whose kv_int8 is b.
Request(b) ==
    /\ pc = "idle" /\ kv_int8 # b
    /\ kv_int8' = b
    /\ mixed' = (mixed \/ b # int8)
    /\ IF mixed' THEN Filled(Garbage) ELSE UNCHANGED pools
    /\ UNCHANGED <<int8, gpuTokens, copy, file, fileWant>>

\* transformer_layer_attn_compute and transformer_prefill store the K/V of
\* one layer and position; in INT8 mode each half has its row of scales, but
\* past the fast pool, where kv_scale_ptr is null.  (Without `mixed' the
\* request's format is the pool's; with it the contents are not followed.)
Store(l, p, v) ==
    /\ pc = "idle" /\ ~mixed
    /\ LET c(h) == [layer |-> l, pos |-> p, half |-> h, version |-> v] IN
       /\ IF p < MaxContext
          THEN /\ gpu' = [gpu EXCEPT ![key_ptr(l, p)] = c("k"),
                                     ![val_ptr(l, p)] = c("v")]
               /\ UNCHANGED cpu
          ELSE /\ cpu' = [cpu EXCEPT ![key_ptr(l, p)] = c("k"),
                                     ![val_ptr(l, p)] = c("v")]
               /\ UNCHANGED gpu
       /\ scales' = IF kv_int8 /\ p < MaxContext
                    THEN [scales EXCEPT ![kv_scale_ptr(l, p, FALSE)] = c("k"),
                                        ![kv_scale_ptr(l, p, TRUE)] = c("v")]
                    ELSE scales
       /\ want' = [want EXCEPT ![<<l, p, "k">>] = c("k"),
                                ![<<l, p, "v">>] = c("v")]
    /\ UNCHANGED <<format, gpuTokens, copy, file, fileWant>>

-----------------------------------------------------------------------------
(* gather_used_to_host, for a save: not of a request in INT8 mode, not     *)
(* past the pool.                                                          *)

StartGather(m) ==
    /\ pc = "idle" /\ ~kv_int8
    /\ pc' = "gather" /\ layer' = 0 /\ n' = m
    /\ host' = [a \in 0..(2 * NLayers * m - 1) |-> Zero]
    /\ UNCHANGED <<format, pools, gpuTokens, file, fileWant>>

Gathered(l) ==
    LET src == l * 2 * MaxContext
        dst == l * 2 * n
    IN Copy(Copy(host, dst, gpu, src, n), dst + n, gpu, src + MaxContext, n)

GatherLayer ==
    /\ pc = "gather" /\ layer < NLayers
    /\ host' = Gathered(layer)
    /\ layer' = layer + 1
    /\ UNCHANGED <<format, pools, gpuTokens, pc, n, file, fileWant>>

\* The file is written; a save that fails leaves the previous one.
GatherDone ==
    /\ pc = "gather" /\ layer = NLayers
    /\ \/ /\ file' = [int8 |-> int8, tokens |-> n, body |-> host]
          /\ fileWant' = [c \in DOMAIN want |-> IF c[2] < n THEN want[c] ELSE Any]
       \/ UNCHANGED <<file, fileWant>>
    /\ Finish
    /\ UNCHANGED <<format, pools, gpuTokens>>

\* A copy to the host fails in some layer.
GatherFails ==
    /\ pc = "gather" /\ layer < NLayers
    /\ Finish
    /\ UNCHANGED <<format, pools, gpuTokens, file, fileWant>>

-----------------------------------------------------------------------------
(* try_hydrate_kv: compact the body to the m matched tokens, then          *)
(* scatter_from_host with zero_remaining.                                  *)

\* A fault: the first m tokens' worth of bytes of every layer is taken.
CompactTruncated(f, m) ==
    [a \in 0..(2 * NLayers * m - 1) |->
        f.body[(a \div (2 * m)) * 2 * f.tokens + (a % (2 * m))]]

\* The loop over layers: m keys from the start of the layer, m values from
\* its value half.
Compact(f, m) ==
    [a \in 0..(2 * NLayers * m - 1) |->
        LET l == a \div (2 * m)
            r == a % (2 * m)
        IN f.body[l * 2 * f.tokens + IF r < m THEN r ELSE f.tokens + (r - m)]]

\* A fault: the file's format is not compared with the pool's.
FitsAnyFormat(m) == file # NoFile /\ m <= file.tokens

\* What try_hydrate_kv asks of the header: kv_type_bytes is the pool's.  The
\* request's kv_int8 is not looked at.
Fits(m) == file # NoFile /\ file.int8 = int8 /\ m <= file.tokens

StartScatter(m) ==
    /\ pc = "idle"
    /\ Fits(m)
    /\ pc' = "scatter" /\ layer' = 0 /\ n' = m
    /\ host' = Compact(file, m)
    /\ UNCHANGED <<format, pools, gpuTokens, file, fileWant>>

\* The first `calls' of a layer's four copies and memsets are done.
Scattered(l, calls) ==
    LET keys == l * 2 * MaxContext
        vals == keys + MaxContext
        from == l * 2 * n
        k1 == IF calls >= 1 THEN Copy(gpu, keys, host, from, n) ELSE gpu
        k2 == IF calls >= 2 THEN Copy(k1, vals, host, from + n, n) ELSE k1
        k3 == IF calls >= 3 THEN Fill(k2, keys + n, MaxContext - n, Zero) ELSE k2
    IN IF calls >= 4 THEN Fill(k3, vals + n, MaxContext - n, Zero) ELSE k3

\* What they should achieve: the file's prefix, and nothing stale behind it.
Wanted(l, calls) ==
    [c \in DOMAIN want |->
        LET p == c[2] IN
        IF c[1] # l \/ p >= MaxContext THEN want[c]
        ELSE IF p < n
        THEN IF calls >= (IF c[3] = "k" THEN 1 ELSE 2) THEN fileWant[c] ELSE want[c]
        ELSE IF calls >= (IF c[3] = "k" THEN 3 ELSE 4) THEN Zero ELSE want[c]]

ScatterLayer ==
    /\ pc = "scatter" /\ layer < NLayers
    /\ gpu' = Scattered(layer, 4) /\ want' = Wanted(layer, 4)
    /\ layer' = layer + 1
    /\ UNCHANGED <<format, cpu, scales, gpuTokens, pc, n, host, file, fileWant>>

ScatterFails ==
    /\ pc = "scatter" /\ layer < NLayers
    /\ \E calls \in 0..3 :
         gpu' = Scattered(layer, calls) /\ want' = Wanted(layer, calls)
    /\ Finish
    /\ UNCHANGED <<format, cpu, scales, gpuTokens, file, fileWant>>

ScatterDone ==
    /\ pc = "scatter" /\ layer = NLayers
    /\ gpuTokens' = n
    /\ Finish
    /\ UNCHANGED <<format, pools, file, fileWant>>

-----------------------------------------------------------------------------
Next ==
    \/ \E b \in BOOLEAN : Restart(b) \/ Request(b)
    \/ \E l \in Layer, p \in Pos, v \in Version : Store(l, p, v)
    \/ \E m \in 1..MaxContext : StartGather(m) \/ StartScatter(m)
    \/ GatherLayer \/ GatherDone \/ GatherFails
    \/ ScatterLayer \/ ScatterDone \/ ScatterFails

Spec == Init /\ [][Next]_vars

-----------------------------------------------------------------------------
(* Correctness.                                                            *)

TypeOK ==
    /\ int8 \in BOOLEAN /\ kv_int8 \in BOOLEAN /\ mixed \in BOOLEAN
    /\ gpu \in [Fast -> Word] /\ cpu \in [Slow -> Word]
    /\ scales \in [Fast -> Word]
    /\ gpuTokens \in 0..MaxContext
    /\ pc \in {"idle", "gather", "scatter"}
    /\ layer \in 0..NLayers /\ n \in 0..MaxContext
    /\ want \in [Slot -> Word]

\* The flat pools are an array indexed by layer, position and half: a store
\* reaches its own cell and no other, what is hydrated from a file is what
\* the cells of the matched prefix held when it was written, everything
\* behind it in the fast pool is zero, and a copy that fails half way has
\* touched nothing but what it had got to.  As long as no request overrides
\* the pool's format.
PoolIsArray ==
    ~mixed => \A l \in Layer, p \in Pos, h \in Half :
                want[<<l, p, h>>] = Read(l, p, h)

\* As long as no request overrides the pool's format, the scales that
\* attention reads in an INT8 pool for a half in the fast pool were computed
\* with its bytes: files carry no scales, and neither one written before a
\* restart nor one written since is ever hydrated into such a pool.
ScalesFollow ==
    ~mixed /\ int8 =>
            \A l \in Layer, p \in 0..(MaxContext - 1), h \in Half :
              scales[kv_scale_ptr(l, p, h = "v")] = want[<<l, p, h>>]
=============================================================================
