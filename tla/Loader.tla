------------------------------- MODULE Loader -------------------------------
(***************************************************************************)
(* The life of an Engine inside main() or the server: Engine::load with    *)
(* every allocation that may fail, the places it leaves the weights in,    *)
(* the context it chooses from the memory budget, the generations that     *)
(* then use the scratch pool (module Scratch), and Engine::unload.         *)
(*                                                                         *)
(* `mem' is what is really allocated, mapped or registered with the        *)
(* driver; `kept' is what the engine's fields remember, which is what      *)
(* unload gives back.  Amounts of memory are in MB, as in MemoryBudget.    *)
(***************************************************************************)
EXTENDS Scratch, FiniteSets

CONSTANTS Settings,    \* environment variables, parameters and program
          Files,       \* what matters of the model file
          Available,   \* total - os - cma - cuda_ctx - safety, as probed
          Reserve, Overhead,   \* reserve_mb and the CLI's +200
          FileMB, LayerMB, OutputMB,
          MB, TokenBytes, ScaleBytes, \* bytes: of a MB, of a token's K/V in INT8, of its scales
          MaxSeqLen, AutoCap, ScratchMB

Layer == 0..(cfg.L - 1)
Place == {"null", "file", "device"}

Setting == [program : {"cli", "server"}, mapped : BOOLEAN, fastGemv : BOOLEAN,
            deviceOutput : BOOLEAN, fastEmbd : BOOLEAN, deviceLayers : Int,
            int8 : BOOLEAN, limit : Nat, overflow : Int]
\* overflow: JLLM_KV_OVERFLOW, a number of tokens, or -1 for a quarter.
\* tied: no output.weight; quantLayers: the leading layers in a K-quant;
\* outQuant: the output matrix is in one; norms: the type of the RMSNorms.
File == [tied : BOOLEAN, quantLayers : Nat, outQuant : BOOLEAN,
         norms : {"f32", "f16", "missing"}, qkNorm : BOOLEAN]

ASSUME LoaderAssumption ==
    /\ Settings \subseteq Setting /\ Files \subseteq File /\ Available \subseteq Int
    /\ {FileMB, LayerMB, OutputMB, MB, TokenBytes, MaxSeqLen, AutoCap} \subseteq Nat \ {0}
    /\ {Reserve, Overhead, ScaleBytes, ScratchMB} \subseteq Nat

\* The K/V of one token take less than a MB (147 KB for Qwen3-4B in FP16).
ASSUME TokenAssumption == 2 * TokenBytes <= MB

VARIABLES
    set, file, avail,     \* fixed for the life of the process
    step, l,              \* where load is, and the layer of its loops
    mem, kept,
    region,               \* g_mapped_weight_region: of nothing, the file or the output
    norm, quant,          \* where the pointers of every layer lead
    outNorm, output, embd,
    ctx,                  \* cfg_.max_context of the pool
    modelMB, kvMB, scrMB  \* the budget

plan    == <<set, file, avail>>
weights == <<norm, quant, outNorm, output, embd>>
budget  == <<ctx, modelMB, kvMB, scrMB>>
loaderVars == <<plan, step, l, mem, kept, region, weights, budget>>
vars == <<loaderVars, scratchVars>>

free_mb == avail - modelMB - kvMB - scrMB

\* Resources are named, and those of a layer numbered.
The(names) == { <<r, 0>> : r \in names }
Has(r) == <<r, 0>> \in mem
Keep(r) == mem' = mem \cup r /\ kept' = kept \cup r
Fail == step' = "failed"

Init ==
    /\ ScratchInit
    /\ set \in Settings /\ file \in Files /\ avail \in Available
    /\ step = "start" /\ l = 0
    /\ mem = {} /\ kept = {} /\ region = "none"
    /\ norm = [i0 \in Layer |-> "null"] /\ quant = [i0 \in Layer |-> "null"]
    /\ outNorm = "null" /\ output = "null" /\ embd = "null"
    /\ ctx = 0 /\ modelMB = 0 /\ kvMB = 0 /\ scrMB = 0

-----------------------------------------------------------------------------
(* The weights.                                                            *)

\* The check the command line program makes before it has an engine.
Precheck ==
    /\ step = "start"
    /\ step' = IF set.program = "cli" /\ avail < FileMB + Overhead THEN "refused" ELSE "map"
    /\ UNCHANGED <<plan, l, mem, kept, region, weights, budget>>

\* load_gguf_weights: the registration with the driver, and the alias for it,
\* are optional.
Registered ==
    \/ mem' = mem \cup The({"file", "structs"}) /\ region' = "none"
    \/ /\ set.mapped
       /\ mem' = mem \cup The({"file", "structs", "fileReg"}) /\ region' \in {"file", "none"}

\* load_and_map_weights: the file cannot be opened or mapped, or no tensor is
\* known; otherwise every pointer leads into the mapping.
MapWeights ==
    /\ step = "map"
    /\ \/ Fail /\ UNCHANGED <<mem, kept, region, weights>>
       \/ /\ Registered
          /\ kept' = kept \cup The({"file", "structs"})
          /\ norm' = [i0 \in Layer |-> IF file.norms = "missing" THEN "null" ELSE "file"]
          /\ quant' = [i0 \in Layer |-> "file"]
          /\ outNorm' = "file" /\ output' = "file" /\ embd' = "file"
          /\ step' = "norms"
       \/ /\ Registered
          /\ kept' = kept \cup The({"file", "structs"})
          /\ Fail /\ UNCHANGED weights
    /\ l' = 0
    /\ UNCHANGED <<plan, budget>>

Norms(i0) == {<<"attn", i0>>, <<"ffn", i0>>}
QKNorms(i0) == IF file.qkNorm THEN {<<"q", i0>>, <<"k", i0>>} ELSE {}

\* A fault: the first copy of a pair is not freed when the second one fails.
NormLayerLeaks ==
    /\ step = "norms" /\ l < cfg.L
    /\ \/ /\ file.norms = "f32" /\ Keep(Norms(l) \cup QKNorms(l))
          /\ norm' = [norm EXCEPT ![l] = "device"] /\ l' = l + 1 /\ UNCHANGED step
       \/ /\ mem' = mem \cup {<<"attn", l>>} /\ Fail /\ UNCHANGED <<kept, norm, l>>
    /\ UNCHANGED <<plan, region, quant, outNorm, output, embd, budget>>

\* materialize_norm_weights, one layer: the copies of a pair are kept
\* together, or the first one is freed when the second one fails.
NormLayer ==
    /\ step = "norms" /\ l < cfg.L
    /\ \/ /\ file.norms = "f32" /\ Keep(Norms(l) \cup QKNorms(l))
          /\ norm' = [norm EXCEPT ![l] = "device"] /\ l' = l + 1 /\ UNCHANGED step
       \/ /\ Fail /\ UNCHANGED <<mem, kept, norm, l>>
       \/ /\ file.norms = "f32" /\ file.qkNorm /\ Keep(Norms(l))
          /\ Fail /\ UNCHANGED <<norm, l>>
    /\ UNCHANGED <<plan, region, quant, outNorm, output, embd, budget>>

OutNorm ==
    /\ step = "norms" /\ l = cfg.L
    /\ \/ /\ Keep(The({"outNorm"})) /\ outNorm' = "device" /\ step' = "kv"
          /\ modelMB' = IF set.mapped THEN FileMB ELSE 0
       \/ Fail /\ UNCHANGED <<mem, kept, outNorm, modelMB>>
    /\ l' = 0
    /\ UNCHANGED <<plan, region, norm, quant, output, embd, ctx, kvMB, scrMB>>

-----------------------------------------------------------------------------
(* The context and the pools.                                              *)

TokenSize2 == IF set.int8 THEN TokenBytes ELSE 2 * TokenBytes
least(S) == CHOOSE x \in S : \A y \in S : x <= y

\* MemoryBudget::max_context, with the rounding of C++; scratch_mb is still 0.
max_context ==
    LET bytes == (free_mb + kvMB) * MB IN
    IF bytes < 0 THEN -((-bytes) \div TokenSize2) ELSE bytes \div TokenSize2

\* -c is honoured up to what the model and the memory allow.
Context ==
    IF set.limit > 0 THEN least({set.limit, MaxSeqLen, max_context})
    ELSE least({max_context, MaxSeqLen, AutoCap})

kv_overflow_context == IF set.overflow < 0 THEN Context \div 4 ELSE set.overflow

\* KVCachePool::init.  A negative size fails, a zero one gives no memory; the
\* overflow pool and the INT8 scales are done without when they do not fit.
InitKV ==
    /\ step = "kv"
    /\ \/ /\ Context >= 0
          /\ \E over \in {0, kv_overflow_context}, scales \in {FALSE, set.int8} :
               /\ Keep(The((IF Context > 0 THEN {"kv"} ELSE {})
                           \cup (IF over > 0 THEN {"kvOverflow"} ELSE {})
                           \cup (IF scales THEN {"scales"} ELSE {})))
               /\ kvMB' = ((Context + over) * TokenSize2) \div MB
          /\ ctx' = Context
          /\ step' = "scratch"
       \/ Fail /\ UNCHANGED <<mem, kept, ctx, kvMB>>
    /\ UNCHANGED <<plan, l, region, weights, modelMB, scrMB>>

\* What the scales take, which the budget does not know of.
ScalesMB == IF Has("scales") THEN (ctx * ScaleBytes) \div MB ELSE 0

InitScratch ==
    /\ step = "scratch"
    /\ \/ /\ Keep(The({"scratch"})) /\ scrMB' = ScratchMB
          /\ step' = IF set.mapped THEN "output" ELSE "layers"
       \/ Fail /\ UNCHANGED <<mem, kept, scrMB>>
    /\ l' = 0
    /\ UNCHANGED <<plan, region, weights, ctx, modelMB, kvMB>>

-----------------------------------------------------------------------------
(* Weights on the device.                                                  *)

AfterLayers == IF set.mapped THEN "stream" ELSE "output"
LayerCap == IF set.deviceLayers < 0 THEN cfg.L ELSE least({set.deviceLayers, cfg.L})
LayersAsked == set.fastGemv /\ set.deviceLayers # 0

\* materialize_layer_weights: the next layer goes into an arena of its own;
\* free_mb is a local copy of the budget that follows the copies.
CopyLayer ==
    /\ step = "layers" /\ LayersAsked /\ l < LayerCap
    /\ set.mapped \/ LayerCap = cfg.L
    /\ l < file.quantLayers
    /\ free_mb - l * LayerMB >= LayerMB + Reserve
    /\ Keep({<<"layer", l>>})
    /\ quant' = [quant EXCEPT ![l] = "device"]
    /\ l' = l + 1
    /\ UNCHANGED <<plan, step, region, norm, outNorm, output, embd, budget>>

\* All that were asked for are there, or one is not: it does not fit, is in
\* another format, or cannot be allocated or copied.
LayersDone ==
    /\ step = "layers"
    /\ modelMB' = modelMB + l * LayerMB
    /\ step' = IF LayersAsked /\ ~set.mapped /\ l < cfg.L THEN "failed" ELSE AfterLayers
    /\ l' = 0
    /\ UNCHANGED <<plan, mem, kept, region, weights, ctx, kvMB, scrMB>>

OutputAsked == set.deviceOutput /\ set.fastGemv /\ file.outQuant
AfterOutput(done) == IF set.mapped THEN "layers" ELSE IF done THEN "stream" ELSE "failed"

\* map_host_weight_range_for_gpu, only without the mapping of the file: tried
\* first for a tied output, and for any after a copy that had no room.
MapOutput ==
    /\ step = "output" /\ OutputAsked /\ ~set.mapped
    /\ Keep(The({"outputReg"})) /\ region' = "output"
    /\ modelMB' = modelMB + OutputMB
    /\ step' = "stream"
    /\ UNCHANGED <<plan, l, weights, ctx, kvMB, scrMB>>

\* A fault: there is no look at the budget.
CopyOutputUnweighed ==
    /\ step = "output" /\ OutputAsked
    /\ Keep(The({"output"}))
    /\ output' = "device"
    /\ embd' = IF file.tied /\ set.fastEmbd THEN "device" ELSE embd
    /\ modelMB' = modelMB + OutputMB
    /\ step' = AfterOutput(TRUE)
    /\ UNCHANGED <<plan, l, region, norm, quant, outNorm, ctx, kvMB, scrMB>>

\* A fault: the embedding follows the output to the device without a look at
\* what will read it.
CopyOutputAlways ==
    /\ step = "output" /\ OutputAsked /\ free_mb >= OutputMB + Reserve
    /\ Keep(The({"output"}))
    /\ output' = "device"
    /\ embd' = IF file.tied THEN "device" ELSE embd
    /\ modelMB' = modelMB + OutputMB
    /\ step' = AfterOutput(TRUE)
    /\ UNCHANGED <<plan, l, region, norm, quant, outNorm, ctx, kvMB, scrMB>>

\* The copy; a tied embedding follows it when the GPU reads embeddings.
CopyOutput ==
    /\ step = "output" /\ OutputAsked /\ free_mb >= OutputMB + Reserve
    /\ Keep(The({"output"}))
    /\ output' = "device"
    /\ embd' = IF file.tied /\ set.fastEmbd THEN "device" ELSE embd
    /\ modelMB' = modelMB + OutputMB
    /\ step' = AfterOutput(TRUE)
    /\ UNCHANGED <<plan, l, region, norm, quant, outNorm, ctx, kvMB, scrMB>>

\* Not asked for, no room, or an allocation or copy has failed.
SkipOutput ==
    /\ step = "output"
    /\ step' = AfterOutput(FALSE)
    /\ UNCHANGED <<plan, l, mem, kept, region, weights, budget>>

\* The stream, which nobody looks at when it cannot be created, the tokenizer
\* and the pinned buffer for the logits.
FinishLoad ==
    /\ step = "stream"
    /\ \E s \in SUBSET {"stream"} :
         \/ Keep(The(s \cup {"logits"})) /\ step' = "ready"
         \/ Keep(The(s)) /\ Fail
    /\ UNCHANGED <<plan, l, region, weights, budget>>

-----------------------------------------------------------------------------
\* Engine::unload gives back what the fields remember.  The registration of
\* the file is undone if the region leads to the file, that of the output if
\* the field is set; both before the mapping goes.
Freed == kept \cup IF region = "file" THEN The({"fileReg"}) ELSE {}

\* A fault: the fields are not cleared.
UnloadForgets ==
    /\ mem' = mem \ Freed /\ UNCHANGED kept
    /\ region' = "none"
    /\ UNCHANGED <<plan, l, weights, budget>>

unload ==
    /\ mem' = mem \ Freed /\ kept' = {}
    /\ region' = "none"
    /\ UNCHANGED <<plan, l, weights, budget>>

\* main() unloads and returns, the server and a failed load just return; the
\* destructor unloads again.
Exit ==
    /\ step \in {"ready", "failed"} /\ pc = "idle"
    /\ step' = IF step = "ready" /\ set.program = "cli" THEN "unloaded" ELSE "gone"
    /\ unload

Destroy ==
    /\ step = "unloaded"
    /\ step' = "gone"
    /\ unload

Load ==
    \/ Precheck \/ MapWeights \/ NormLayer \/ OutNorm \/ InitKV \/ InitScratch
    \/ CopyLayer \/ LayersDone \/ MapOutput \/ CopyOutput \/ SkipOutput \/ FinishLoad

Next ==
    \/ (Load \/ Exit \/ Destroy) /\ UNCHANGED scratchVars
    \/ step = "ready" /\ ScratchNext /\ UNCHANGED loaderVars

Spec == Init /\ [][Next]_vars

-----------------------------------------------------------------------------
(* Correctness.                                                            *)

TypeOK ==
    /\ ScratchTypeOK
    /\ set \in Settings /\ file \in Files /\ avail \in Available
    /\ l \in 0..cfg.L
    /\ region \in {"none", "file", "output"}
    /\ norm \in [Layer -> Place] /\ quant \in [Layer -> Place]
    /\ {outNorm, output, embd} \subseteq Place
    /\ {ctx, modelMB, kvMB, scrMB} \subseteq Int

\* Whatever fails, every field of the engine leads to something that is still
\* allocated, and the region that kernels resolve weights with to a mapping
\* that is still registered: unload, which runs twice in the command line
\* program, frees nothing twice.
NothingFreedTwice ==
    /\ kept \subseteq mem
    /\ region = "file" => The({"file", "fileReg"}) \subseteq mem
    /\ region = "output" => The({"file", "outputReg"}) \subseteq mem

\* When the process is done with its engine nothing is left allocated, also
\* after a load that failed anywhere.  The one exception is a registration
\* of the file that the driver gave no alias for, which unload cannot see.
AllGivenBack == step = "gone" => mem \subseteq The({"fileReg"})

\* Once load has returned true, what a pass over the layers reads is memory
\* its reader can reach: norms are read by kernels as they are, matrices by
\* kernels or else by the CPU from the file, embeddings by the CPU unless the
\* fast path is on, and with JLLM_MAPPED_WEIGHTS=0 kernels read all matrices
\* (JLLM_DEVICE_LAYERS=0 is let through and leaves them to the CPU).
WeightsUsable ==
    step = "ready" =>
        /\ \A i0 \in Layer :
             /\ norm[i0] = "device" /\ Norms(i0) \subseteq mem
             /\ quant[i0] = IF <<"layer", i0>> \in mem THEN "device" ELSE "file"
        /\ outNorm = "device" /\ Has("outNorm")
        /\ output = IF Has("output") THEN "device" ELSE "file"
        /\ embd = "device" => set.fastEmbd /\ Has("output")
        /\ Has("file")
        /\ ~set.mapped =>
             /\ output = "device" \/ region = "output"
             /\ set.deviceLayers # 0 => \A i0 \in Layer : quant[i0] = "device"

\* The context is chosen before the scratch pool and the scales have been
\* paid for, and an output that CUDA maps from the host is never weighed
\* against the budget.  These are all that a load that succeeds may take
\* beyond the memory that was available, whatever is asked for with -c and
\* however many layers and outputs go to the device: the safety margin is
\* for them, and suffices where it is at least their sum (without
\* JLLM_KV_OVERFLOW, which comes on top).
Unweighed == ScratchMB + ScalesMB + IF Has("outputReg") THEN OutputMB ELSE 0

WithinMemory ==
    step = "ready" /\ set.overflow = 0 => free_mb - ScalesMB >= -Unweighed
=============================================================================
