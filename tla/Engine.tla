------------------------------- MODULE Engine -------------------------------
(***************************************************************************)
(* Engine::generate (src/engine/decode.cu): hydrate the KV cache from the  *)
(* conversation's file, prefill the rest of the prompt, sample and deliver *)
(* tokens until a stop condition, save the KV cache.  Around it: loading a *)
(* model, stop() from another thread or a signal handler, callbacks that   *)
(* throw, and a process that dies and is started again with another model, *)
(* context or KV format.                                                   *)
(*                                                                         *)
(* The K/V of a position depends on every token up to it, so a KV slot is  *)
(* modelled by the history it was computed from: the model, the format and *)
(* the tokens.  A forward pass looks only at the slots the attention       *)
(* kernel reads; what it computes from slots that do not form one history  *)
(* is Junk.  The disk is the atomic store that KVCacheFile implements.     *)
(***************************************************************************)
EXTENDS Integers, Sequences

CONSTANTS
    Token, EOS, BOS,  \* the vocabulary, tokenizer_.eos_id and bos_id
    Prompt,           \* what tokenizer_.encode may return
    MaxTok,           \* values of params.max_tokens (any integer)
    Conv, NoConv,     \* valid conversation ids, and the empty one
    Model, NoModel,   \* GGUF files, and an engine that has none loaded
    Hash, ZeroHash,   \* fingerprints; all zero when computing one failed
    Fingerprint,      \* [Model -> Hash], file size and first 256 bytes
    FingerprintFails, \* whether compute_model_fingerprint may fail
    Contexts,         \* values max_context may get at load time
    Overflow,         \* overflow_context (JLLM_KV_OVERFLOW)
    MaxSlots,         \* at least max_context + overflow_context
    Override,         \* whether requests may set kv_int8 against the pool
    MinSave,          \* MIN_TOKENS_TO_SAVE
    RecentCap,        \* length of the repeat-penalty window
    Junk, NoFile, Null, NoReq

ASSUME ConstAssumption ==
    /\ EOS \in Token /\ BOS \in Token
    /\ Prompt \subseteq Seq(Token) /\ MaxTok \subseteq Int
    /\ NoConv \notin Conv /\ NoModel \notin Model
    /\ Fingerprint \in [Model -> Hash \ {ZeroHash}] /\ ZeroHash \in Hash
    /\ FingerprintFails \in BOOLEAN /\ Override \in BOOLEAN
    /\ Overflow \in Nat /\ MaxSlots \in Nat
    /\ Contexts \subseteq 1..(MaxSlots - Overflow)
    /\ MinSave \in Nat \ {0} /\ RecentCap \in Nat \ {0}

Slot == 0..(MaxSlots - 1)

\* The K/V of one position: who computed it, in which format, over what.
Cell == [model : Model, int8 : BOOLEAN, toks : Seq(Token)]

\* A saved conversation: header, tokens and the packed body.
KVFile == [hash : Hash, int8 : BOOLEAN, ctx : Contexts, tokens : Seq(Token),
           body : [Slot -> Cell \cup {Junk}]]

Request == [conv : Conv \cup {NoConv}, prompt : Seq(Token), max : MaxTok,
            int8 : BOOLEAN]

PC == {"idle", "hydrate", "prefill", "first", "deliverfirst", "loop",
       "deliver", "save"}

ASSUME DistinctAssumption ==
    /\ Junk \notin Cell /\ NoFile \notin KVFile /\ NoReq \notin Request
    /\ Null \notin Seq(Token) /\ Junk \notin Seq(Token) /\ Null # Junk

VARIABLES
    disk,        \* [Conv -> KVFile or NoFile]
    model,       \* the loaded GGUF file
    int8Pool,    \* kv_cfg.kv_type_bytes = 1
    maxCtx,      \* kv_cfg.max_context
    hash,        \* model_fingerprint_
    kv,          \* [Slot -> Cell or Junk], KVCachePool
    stop,        \* stop_flag_
    pc, req,     \* where generate() is, and its arguments
    start,       \* prefill_start, the tokens found in the cache
    pos,         \* the next position to compute
    x,           \* the history behind the last hidden state, Junk or Null
    last,        \* last_token_
    tok,         \* the token sampled but not delivered yet
    kvTokens,    \* tokens whose K/V is committed to the cache
    out,         \* tokens delivered through token_cb
    recent,      \* recent_tokens_
    after        \* tokens delivered since stop() (history variable)

process == <<model, int8Pool, maxCtx, hash>>
call == <<req, start, pos, x, last, tok, kvTokens, out, recent, after>>
vars == <<disk, process, kv, stop, pc, call>>

limit == maxCtx + Overflow          \* kv_cache_.max_tokens()
N == Len(req.prompt)

-----------------------------------------------------------------------------
(* What attention sees.                                                    *)

Prefix(s, m) == [j \in 1..m |-> s[j]]

\* The first m tokens of t, but of h where h already has them.
Splice(h, t, m) == [j \in 1..m |-> IF j <= Len(h) THEN h[j] ELSE t[j]]

CellOf(s) == [model |-> model, int8 |-> int8Pool, toks |-> s]

\* The kernels read the slots 0..m-1 contiguously from the fast pool, in the
\* request's format.
Reads(k, m, s) ==
    /\ req.int8 = int8Pool
    /\ m <= maxCtx
    /\ \A q \in 0..(m - 1) : k[q] = CellOf(Prefix(s, q + 1))

\* The slots 0..m-1 hold the K/V of one history.
Coherent(k, m) ==
    m = 0 \/ (k[m - 1] # Junk /\ Reads(k, m, k[m - 1].toks))

History(k, m) == IF m = 0 THEN << >> ELSE k[m - 1].toks

\* What position p gets when the layers run on history h extended to s.
Computed(ok, p, s) ==
    IF ok /\ req.int8 = int8Pool /\ p < maxCtx THEN CellOf(s) ELSE Junk

\* The hidden state at position m-1.
Hidden(k, m) == IF Coherent(k, m) THEN History(k, m) ELSE Junk

\* decode_step's and per-token prefill's pass over all layers at p.
Forward(p, t) ==
    LET k == [kv EXCEPT ![p] = Computed(Coherent(kv, p), p,
                                        Append(History(kv, p), t))]
    IN kv' = k /\ x' = Hidden(k, p + 1)

Push(r, t) == IF Len(r) < RecentCap THEN Append(r, t)
              ELSE Append(Tail(r), t)

-----------------------------------------------------------------------------
Idle ==
    /\ pc = "idle" /\ req = NoReq /\ start = 0 /\ pos = 0 /\ x = Null
    /\ last = EOS /\ tok = EOS /\ kvTokens = << >> /\ out = << >>
    /\ after = 0

Init ==
    /\ disk = [c \in Conv |-> NoFile]
    /\ model = NoModel /\ int8Pool = FALSE /\ hash = ZeroHash
    /\ maxCtx \in Contexts
    /\ kv = [q \in Slot |-> Junk]
    /\ stop = FALSE
    /\ recent = << >>
    /\ Idle

\* generate() returns or throws; nothing reads the call's state again.
Return ==
    /\ pc' = "idle" /\ req' = NoReq /\ start' = 0 /\ pos' = 0 /\ x' = Null
    /\ last' = EOS /\ tok' = EOS /\ kvTokens' = << >> /\ out' = << >>
    /\ after' = 0

\* What compute_model_fingerprint leaves in model_fingerprint_: zeroes unless
\* the whole head of the file could be read.
ModelHashes(m) ==
    {Fingerprint[m]} \cup {h \in {ZeroHash} : FingerprintFails}

\* Engine::load in a fresh process.
LoadModel(m) ==
    /\ pc = "idle" /\ model = NoModel
    /\ model' = m
    /\ \E b \in BOOLEAN, c \in Contexts : int8Pool' = b /\ maxCtx' = c
    /\ hash' \in ModelHashes(m)
    /\ UNCHANGED <<disk, kv, stop, pc, call>>

\* Two faults: one of the two resets is missing.
EnterKeepsRecent(r) ==
    /\ pc = "idle" /\ model # NoModel
    /\ r.int8 # int8Pool => Override
    /\ stop' = FALSE
    /\ recent' = recent

EnterKeepsStop(r) ==
    /\ pc = "idle" /\ model # NoModel
    /\ r.int8 # int8Pool => Override
    /\ stop' = stop
    /\ recent' = << >>

\* Entry of generate(): the stop flag and the repeat window are reset, then
\* the prompt is tokenized and checked.
Enter(r) ==
    /\ pc = "idle" /\ model # NoModel
    /\ r.int8 # int8Pool => Override
    /\ stop' = FALSE
    /\ recent' = << >>

Rejects(r) == Len(r.prompt) >= limit \/ Len(r.prompt) + r.max < 0

\* An over-long prompt (in bytes or in tokens), or a negative max_tokens that
\* makes kv_tokens.reserve throw.
GenerateThrows(r) ==
    /\ Enter(r)
    /\ Return
    /\ UNCHANGED <<disk, process, kv>>

Generate(r) ==
    /\ Enter(r)
    /\ ~Rejects(r)
    /\ pc' = "hydrate"
    /\ req' = r
    /\ kvTokens' = r.prompt
    /\ UNCHANGED <<disk, process, kv, start, pos, x, last, tok, out, after>>

\* What a caller may pass; an empty prompt becomes one BOS token.
Requests ==
    {[conv |-> c, prompt |-> IF s = << >> THEN <<BOS>> ELSE s, max |-> m,
      int8 |-> b] : c \in Conv \cup {NoConv}, s \in Prompt, m \in MaxTok,
                    b \in BOOLEAN}

-----------------------------------------------------------------------------
(* try_hydrate_kv.                                                         *)

\* A fault: the fingerprint is not compared.
CompatibleAnyModel(f) ==
    /\ f.int8 = int8Pool /\ f.ctx = maxCtx
    /\ Len(f.tokens) \in 1..maxCtx

Compatible(f) ==
    /\ f.hash = hash /\ f.int8 = int8Pool /\ f.ctx = maxCtx
    /\ Len(f.tokens) \in 1..maxCtx

\* m is the length of the longest common prefix of the two.
CommonPrefix(s, t, m) ==
    /\ m <= Len(s) /\ m <= Len(t)
    /\ \A j \in 1..m : s[j] = t[j]
    /\ m < Len(s) /\ m < Len(t) => s[m + 1] # t[m + 1]

\* Load and scatter the matched prefix; the rest of the fast pool is zeroed.
HydrateHit ==
    /\ pc = "hydrate"
    /\ req.conv # NoConv
    /\ LET f == disk[req.conv] IN
       /\ f # NoFile
       /\ Compatible(f)
       /\ \E m \in 1..maxCtx :
            /\ CommonPrefix(f.tokens, req.prompt, m)
            /\ start' = m
            /\ kv' = [q \in Slot |-> IF q < m THEN f.body[q]
                                     ELSE IF q < maxCtx THEN Junk ELSE kv[q]]
    /\ pos' = start'
    /\ pc' = "prefill"
    /\ UNCHANGED <<disk, process, stop, req, x, last, tok, kvTokens, out,
                   recent, after>>

\* No conversation, no usable file, no common prefix, or a read error.
HydrateMiss ==
    /\ pc = "hydrate"
    /\ start' = 0 /\ pos' = 0
    /\ pc' = "prefill"
    /\ UNCHANGED <<disk, process, kv, stop, req, x, last, tok, kvTokens, out,
                   recent, after>>

\* A copy to the device fails after some layers were overwritten.
ScatterFails ==
    /\ pc = "hydrate"
    /\ req.conv # NoConv /\ disk[req.conv] # NoFile /\ Compatible(disk[req.conv])
    /\ disk[req.conv].tokens[1] = req.prompt[1]
    /\ kv' = [q \in Slot |-> IF q < maxCtx THEN Junk ELSE kv[q]]
    /\ start' = 0 /\ pos' = 0
    /\ pc' = "prefill"
    /\ UNCHANGED <<disk, process, stop, req, x, last, tok, kvTokens, out,
                   recent, after>>

-----------------------------------------------------------------------------
(* Prefill of the positions start..N-1.                                    *)

\* transformer_prefill, layer by layer over the whole batch.
PrefillBatched ==
    /\ pc = "prefill"
    /\ pos = start /\ start < N
    /\ LET h == History(kv, start)
           k == [q \in Slot |->
                   IF q \in start..(N - 1)
                   THEN Computed(Coherent(kv, start), q,
                                 Splice(h, req.prompt, q + 1))
                   ELSE kv[q]]
       IN kv' = k /\ x' = Hidden(k, N)
    /\ pos' = N
    /\ last' = req.prompt[N]
    /\ pc' = "first"
    /\ UNCHANGED <<disk, process, stop, req, start, tok, kvTokens, out, recent,
                   after>>

\* One iteration of the per-token loop (batching disabled or too large).
PrefillToken ==
    /\ pc = "prefill"
    /\ pos < N
    /\ Forward(pos, req.prompt[pos + 1])
    /\ last' = req.prompt[pos + 1]
    /\ pos' = pos + 1
    /\ pc' = IF pos + 1 = N THEN "first" ELSE "prefill"
    /\ UNCHANGED <<disk, process, stop, req, start, tok, kvTokens, out, recent,
                   after>>

\* The cache covered the whole prompt: last_prefill_x stays null.
PrefillNothing ==
    /\ pc = "prefill"
    /\ start = N
    /\ last' = req.prompt[N]
    /\ pc' = "first"
    /\ UNCHANGED <<disk, process, kv, stop, req, start, pos, x, tok, kvTokens,
                   out, recent, after>>

-----------------------------------------------------------------------------
(* The first token, from the hidden state prefill left (Path A).           *)

SampleFirst ==
    /\ pc = "first"
    /\ x # Null
    /\ \E t \in Token : tok' = t
    /\ pc' = "deliverfirst"
    /\ UNCHANGED <<disk, process, kv, stop, req, start, pos, x, last, kvTokens,
                   out, recent, after>>

\* No hidden state, or copying the logits failed: recompute position N-1.
FallBack ==
    /\ pc = "first"
    /\ pos' = N - 1
    /\ pc' = "loop"
    /\ UNCHANGED <<disk, process, kv, stop, req, start, x, last, tok, kvTokens,
                   out, recent, after>>

Delivered ==
    /\ out' = Append(out, tok)
    /\ after' = IF stop THEN after + 1 ELSE after

DeliverFirst ==
    /\ pc = "deliverfirst"
    /\ Delivered
    /\ last' = tok
    /\ recent' = Push(recent, tok)
    /\ pc' = IF tok = EOS THEN "save" ELSE "loop"
    /\ UNCHANGED <<disk, process, kv, stop, req, start, pos, x, tok, kvTokens>>

-----------------------------------------------------------------------------
(* The decode loop; its counter i equals Len(out) at the loop head.        *)

\* A fault: the loop does not look at the stop flag.
DeafGuard == Len(out) < req.max

LoopGuard == Len(out) < req.max /\ ~stop

\* A fault: a full cache does not leave the loop.
LoopEndsByGuard ==
    /\ pc = "loop"
    /\ ~LoopGuard
    /\ pc' = "save"
    /\ UNCHANGED <<disk, process, kv, stop, call>>

LoopEnds ==
    /\ pc = "loop"
    /\ ~LoopGuard \/ pos >= limit
    /\ pc' = "save"
    /\ UNCHANGED <<disk, process, kv, stop, call>>

\* check_memory_and_thermal finds too little memory.
OomStop ==
    /\ pc = "loop"
    /\ LoopGuard /\ pos < limit
    /\ pc' = "save"
    /\ UNCHANGED <<disk, process, kv, stop, call>>

\* Two faults: the token is recorded although position N-1 is only being
\* recomputed; decoding goes on past the end of the cache.
DecodeRecordsTwice ==
    /\ pc = "loop"
    /\ LoopGuard /\ pos < limit
    /\ kvTokens' = Append(kvTokens, last)
    /\ Forward(pos, last)
    /\ \E t \in Token : /\ tok' = t
                        /\ last' = t
                        /\ recent' = Push(recent, t)
    /\ pos' = pos + 1
    /\ pc' = "deliver"
    /\ UNCHANGED <<disk, process, stop, req, start, out, after>>

DecodeUnbounded ==
    /\ pc = "loop"
    /\ LoopGuard
    /\ kvTokens' = IF Len(kvTokens) = pos THEN Append(kvTokens, last)
                   ELSE kvTokens
    /\ Forward(pos, last)
    /\ \E t \in Token : /\ tok' = t
                        /\ last' = t
                        /\ recent' = Push(recent, t)
    /\ pos' = pos + 1
    /\ pc' = "deliver"
    /\ UNCHANGED <<disk, process, stop, req, start, out, after>>

\* decode_step(pos): the token about to be written is recorded first.
DecodeStep ==
    /\ pc = "loop"
    /\ LoopGuard /\ pos < limit
    /\ kvTokens' = IF Len(kvTokens) = pos THEN Append(kvTokens, last)
                   ELSE kvTokens
    /\ Forward(pos, last)
    /\ \E t \in Token : /\ tok' = t
                        /\ last' = t
                        /\ recent' = Push(recent, t)
    /\ pos' = pos + 1
    /\ pc' = "deliver"
    /\ UNCHANGED <<disk, process, stop, req, start, out, after>>

\* The logits cannot be copied back: decode_step returns EOS and leaves
\* last_token_ and the repeat window alone.
DecodeFails ==
    /\ pc = "loop"
    /\ LoopGuard /\ pos < limit
    /\ kvTokens' = IF Len(kvTokens) = pos THEN Append(kvTokens, last)
                   ELSE kvTokens
    /\ Forward(pos, last)
    /\ tok' = EOS
    /\ pos' = pos + 1
    /\ pc' = "deliver"
    /\ UNCHANGED <<disk, process, stop, req, start, last, out, recent, after>>

Deliver ==
    /\ pc = "deliver"
    /\ Delivered
    /\ pc' = IF tok = EOS THEN "save" ELSE "loop"
    /\ UNCHANGED <<disk, process, kv, stop, req, start, pos, x, last, tok,
                   kvTokens, recent>>

\* The caller's token_cb throws; generate() unwinds without saving.
CallbackThrows ==
    /\ pc \in {"deliverfirst", "deliver"}
    /\ Return
    /\ UNCHANGED <<disk, process, kv, stop, recent>>

-----------------------------------------------------------------------------
(* The end of the turn.                                                    *)

Saves == /\ req.conv # NoConv
         /\ Len(kvTokens) >= MinSave
         /\ Len(kvTokens) <= maxCtx
         /\ ~req.int8

\* A fault: the file gets the tokens of the prompt and all of the answer.
SavesDelivered ==
    /\ pc = "save"
    /\ Saves
    /\ disk' = [disk EXCEPT ![req.conv] =
                  [hash |-> hash, int8 |-> int8Pool, ctx |-> maxCtx,
                   tokens |-> req.prompt \o out, body |-> kv]]
    /\ Return
    /\ UNCHANGED <<process, kv, stop, recent>>

\* The file replaces the conversation's previous one, and the sweep may
\* evict other conversations.
Save ==
    /\ pc = "save"
    /\ Saves
    /\ \E gone \in SUBSET (Conv \ {req.conv}) :
         disk' = [c \in Conv |->
                    IF c = req.conv
                    THEN [hash |-> hash, int8 |-> int8Pool, ctx |-> maxCtx,
                          tokens |-> kvTokens,
                          body |-> [q \in Slot |-> IF q < Len(kvTokens)
                                                   THEN kv[q] ELSE Junk]]
                    ELSE IF c \in gone THEN NoFile ELSE disk[c]]
    /\ Return
    /\ UNCHANGED <<process, kv, stop, recent>>

\* The rules say not to save, or the save fails.
NoSave ==
    /\ pc = "save"
    /\ Return
    /\ UNCHANGED <<disk, process, kv, stop, recent>>

-----------------------------------------------------------------------------
\* Engine::stop, from the client's callback or a signal handler.
Stop ==
    /\ model # NoModel
    /\ stop' = TRUE
    /\ UNCHANGED <<disk, process, kv, pc, call>>

\* The process dies at any point; only the disk survives.
Crash ==
    /\ model # NoModel
    /\ model' = NoModel
    /\ kv' = [q \in Slot |-> Junk]
    /\ stop' = FALSE
    /\ recent' = << >>
    /\ Return
    /\ UNCHANGED <<disk, int8Pool, maxCtx, hash>>

Hydrate == HydrateHit \/ HydrateMiss \/ ScatterFails
Prefill == PrefillBatched \/ PrefillToken \/ PrefillNothing
First   == SampleFirst \/ FallBack \/ DeliverFirst
Loop    == LoopEnds \/ OomStop \/ DecodeStep \/ DecodeFails \/ Deliver
Finish  == Save \/ NoSave

Step == Hydrate \/ Prefill \/ First \/ Loop \/ CallbackThrows \/ Finish

Next ==
    \/ \E m \in Model : LoadModel(m)
    \/ \E r \in Requests : Generate(r) \/ GenerateThrows(r)
    \/ Step
    \/ Stop
    \/ Crash

\* generate() runs on its own thread and never waits for anyone.
Spec == Init /\ [][Next]_vars /\ WF_vars(Step)

-----------------------------------------------------------------------------
(* Correctness.                                                            *)

TypeOK ==
    /\ disk \in [Conv -> KVFile \cup {NoFile}]
    /\ model \in Model \cup {NoModel} /\ int8Pool \in BOOLEAN
    /\ maxCtx \in Contexts /\ hash \in Hash
    /\ kv \in [Slot -> Cell \cup {Junk}]
    /\ stop \in BOOLEAN
    /\ pc \in PC
    /\ req \in Request \cup {NoReq}
    /\ pc # "idle" => req # NoReq /\ model # NoModel
    /\ start \in 0..maxCtx /\ pos \in 0..limit
    /\ x \in Seq(Token) \cup {Junk, Null}
    /\ last \in Token /\ tok \in Token
    /\ kvTokens \in Seq(Token) /\ out \in Seq(Token) /\ recent \in Seq(Token)
    /\ after \in Nat

\* Every saved file holds, for each of its tokens, the K/V that the model it
\* names computes over exactly the tokens before it.  Hydration checks only
\* the header, so a file that broke this would silently garble a later turn,
\* possibly in another process.
FileSound(f) ==
    \E m \in Model :
        /\ f.hash = Fingerprint[m]
        /\ \A q \in 0..(Len(f.tokens) - 1) :
              f.body[q] = [model |-> m, int8 |-> f.int8,
                           toks |-> Prefix(f.tokens, q + 1)]

FilesSound == \A c \in Conv : disk[c] # NoFile => FileSound(disk[c])

\* A token is sampled from a forward pass that saw the K/V of this request's
\* prompt and of the tokens delivered so far, nothing else: no slot left by
\* an earlier request, by a hydrated file that differs, or never written.
OwnHistory ==
    pc \in {"deliverfirst", "deliver"} => x = req.prompt \o out

\* At the end of the turn the committed tokens are the prompt and everything
\* delivered but the last token, which never reaches the cache.
CommittedTokens ==
    pc = "save" => kvTokens = req.prompt \o
                     (IF out = << >> THEN << >> ELSE Prefix(out, Len(out) - 1))

\* Once stop() has been called, at most the one token already in the works is
\* still delivered.
StopBound == after <= 1

\* The repeat-penalty window holds the last tokens of this request only (an
\* EOS made up by a failing decode_step is not in it).
RecentWindow ==
    pc = "loop" =>
        LET n == IF Len(out) < RecentCap THEN Len(out) ELSE RecentCap
        IN recent = [j \in 1..n |-> out[Len(out) - n + j]]

\* Every generate() returns (or throws): the decode loop is bounded and no
\* failure of a copy, a file or a callback leaves it waiting.
GenerateReturns == pc # "idle" ~> pc = "idle"

\* The engine implements the Generator specification that the HTTP server
\* relies on.
Gen == INSTANCE Generator WITH
         Cap   <- MaxTok,
         busy  <- pc # "idle",
         cap   <- IF pc = "idle" THEN 0 ELSE req.max,
         count <- Len(out),
         armed <- pc \in {"deliverfirst", "deliver"}
GeneratorSpec == Gen!Init /\ [][Gen!Next]_Gen!vars

-----------------------------------------------------------------------------
(* What comments and documents say, and the code does not do.              *)

\* docs/architecture.md: overflow positions are slower "but work", so what
\* the attention reads does not depend on which pool a position is in.
OverflowWorks == OwnHistory

\* decode.cu, at the save: INT8 bytes are never saved, for the file has no
\* room for their scales.
NoInt8File == \A c \in Conv : disk[c] # NoFile => ~disk[c].int8
=============================================================================
