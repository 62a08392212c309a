# A TLA+ model of reflex-llm

reflex-llm is an LLM inference runtime for Jetson boards: one engine loads a
GGUF model, keeps the keys and values of the running conversation in a
pre-allocated pool, persists them per conversation, and is driven by a command
line program or by an OpenAI-compatible HTTP server. This directory models the
parts of it that keep state and interact, checks them with TLC on small
instances and proves the most important results with TLAPS.

Source paths below are relative to the repository.

## The system

| part | state | operations | who uses it |
| --- | --- | --- | --- |
| HTTP server, `src/server/http_server.cpp`, `src/main_server.cpp` | `g_engine_mutex`; per stream `client_alive`, `errored`; what was sent | handlers for `/health`, `/v1/models`, `/v1/chat/completions` (plain and SSE), signal handler | worker threads of cpp-httplib |
| reasoning splitter, `struct ThinkSplit` in the same file | `mode`, `buf` | `feed`, `flush` | both chat handlers, from the token callback |
| engine, `src/engine/decode.cu` | loaded model and fingerprint, `stop_flag_`, `last_token_`, `recent_tokens_`, the locals of `generate`, all allocations | `load`, `unload`, `generate` (with `try_hydrate_kv`, `transformer_prefill`, `decode_step`, the save), `stop` | server under the mutex, CLI |
| KV pool, `src/memory/kv_cache.cpp` | fast pool, overflow pool, INT8 scales | `key_ptr`, `val_ptr`, `kv_scale_ptr`, `gather_used_to_host`, `scatter_from_host`, `init`, `destroy`, `evict` (never called) | engine |
| KV cache files, `src/persistence/kv_cache_file.cpp` | `<conv>.bin`, `<conv>.bin.tmp` in one directory | save, peek, load, stale `.tmp` cleanup, budget eviction | engine, possibly several processes |
| scratch allocator, `src/memory/pool.cpp` | `offset_` | `get`, `reset`, `mark`, `rewind_to` | engine |
| memory budget, OOM guard, `src/memory/budget.cpp`, `include/jllm_memory.h` | MB counters | `probe_system_memory`, `max_context`, `can_allocate`, `can_extend` | engine, CLI |
| tokenizer, `src/engine/tokenizer.cpp` | vocabulary, merges, special tokens | `load_from_gguf`, `encode`, `decode` | engine |
| GGUF loader, `src/engine/model.cpp` | `ModelConfig`, `ModelWeights`, the mapping and `g_mapped_weight_region` | `load_gguf_config`, `parse_tensor_infos`, `load_and_map_weights` | `Engine::load` |
| sampler, `src/engine/sample.cpp` | the logits, changed in place | `sample_token` | engine |
| command line program, `src/main.cpp` | | memory check, load, generate, unload | |
| kernels, Jetson layer | see "Not modelled" | | engine |

How they interact: a worker thread calls `generate` under the mutex, on its own
thread, and gets every token through a callback in which a streaming handler
writes to the client; when the write fails the callback calls `stop`. `generate`
first looks for a saved conversation, scatters the common prefix of its K/V into
the pool, computes the rest of the prompt, decodes until a stop condition, and
saves the pool's committed part. The file code then collects `.tmp` files and
evicts old conversations. Before all that `load` reads the file three times
(configuration, tensors, tokenizer), maps it, copies what kernels need to the
device, and divides what memory is left between K/V, scratch and weights;
`unload` gives everything back, twice in the command line program.

What is hard about it: one pool shared by all requests and never cleared; a save
that can be interrupted anywhere by `exit` or a power failure, and is checked on
reading by its length only; counting which tokens are committed over several
special cases (first token from the prefill, recomputation of position N-1, a
full cache, a failing copy); a stop flag raised from other threads and reset at
entry; handlers with many exits under one lock; a load with some twenty
allocations that may each fail; a bump allocator whose users rely on an estimate
made elsewhere; three readers of one file format with three tables of sizes; two
samplers that work on one array. The complete list, with line
numbers, is under `hazards` in PROJECT.json.

## Modules

| module | models | built on |
| --- | --- | --- |
| `KVStore` | what the persistent cache promises: an atomic store per conversation | |
| `KVCacheFile` | the directory, one system call per action, with crashes and power loss | implements `KVStore` |
| `KVCacheFileProofs` | its theorems | |
| `KVCachePool` | the flat arrays, their offsets and the copies between pool and file body | |
| `KVCachePoolProofs` | its theorems | |
| `Generator` | what `generate` promises its callers about control | |
| `Engine` | `generate` and the engine's life over several processes | implements `Generator`; its `disk` is a `KVStore` |
| `EngineProofs` | its theorems | |
| `HttpServer` | worker threads, mutex, streams, shutdown | its engine is a `Generator` |
| `HttpServerProofs` | its theorems | |
| `ThinkSplit` | the incremental parser, against a definition over the whole text | |
| `ThinkSplitProofs` | its theorems | |
| `Tokenizer` | `encode` and the decode of a token, over bytes | |
| `Scratch` | the bump allocator and the passes over the layers that use it | |
| `Loader` | `load`, `unload` and the programs around them: allocations, places of weights, budget | `Scratch` between load and unload |
| `LoaderProofs` | theorems about `Scratch` and `Loader` | |
| `Gguf` | the three readers of a model file | |
| `GgufProofs` | its theorems | |
| `Sampler` | `sample_token` | |
| `SamplerProofs` | its theorems | |
| `MC...` | constants for TLC | |

Operators introduced by a comment "A fault: ..." are faulty variants of the
definition that follows them; they are not part of the specifications and serve
to show that a property notices the fault.

### KVCacheFile

State: the two directory entries of every conversation (`bin`, `tmp`), the
entries that have reached stable storage (`durable`), a clock, and for every
process its program counter and locals. A file is a record: the payload whose
bytes it holds a prefix of, its length, whether it is synced, and whether a
power loss tore it. Lengths are in units (the header is one unit).

Actions follow `save_kv_to_file` line by line: `OpenTmp`, `WriteHeader` (a
single `write`), `WriteTokens` and `WriteBody` (one `write` of `write_all`'s
loop, of any non-empty length), `Fsync`, `Rename`, and `SaveFails` for every
failing call, which unlinks the `.tmp`. A process whose `.tmp` is unlinked by
another one goes on writing to its descriptor and fails at the rename. Then
`cleanup_stale_tmp_files` (`ListTmp`, `UnlinkTmp`) and
`enforce_kv_cache_budget` (`ListBin`, `EvictOldest`, `BudgetDone`), each working
on a listing that may be out of date. Reading is `PeekHeader` and `Load`, two
opens of the name.

Environment: `Crash` (a process dies, the page cache survives), `Writeback` and
`PowerLoss` (bytes that were not synced may be cut or replaced; directory
entries go back to the durable ones). A rename is atomic and a synced file is
durable, as POSIX file systems in use promise.

Assumption: a conversation has one owner process (`Owner`). Two processes saving
the same id would share a `.tmp`; CHANGELOG.md:208 rules that out ("Single-process
today"). Different processes may share the directory.

### Engine

A KV slot is modelled by the history it was computed from: model, format and the
tokens up to it, or `Junk`. This is what makes the properties meaningful: a
forward pass over slots that do not form one history gives `Junk`, in the slots
it writes and in the hidden state `x` from which a token is sampled. `Reads`
says which slots attention reads: contiguously from the fast pool, in the
request's format. So a stale slot, a foreign file, an overflow position or a
wrong format shows up as a hidden state that is not the request's own history.

The actions are the phases of `generate`: `Generate` / `GenerateThrows` (entry
and early throws), `HydrateHit` / `HydrateMiss` / `ScatterFails`,
`PrefillBatched` / `PrefillToken` / `PrefillNothing`, `SampleFirst` / `FallBack`
/ `DeliverFirst`, the loop (`LoopEnds`, `OomStop`, `DecodeStep`, `DecodeFails`,
`Deliver`), `CallbackThrows`, `Save` / `NoSave`. `Stop` comes at any time,
`Crash` ends the process and `LoadModel` starts another, perhaps with another
model, context or format. Sampling returns any token. `after` is a history
variable that counts deliveries after `stop`.

### KVCachePool

Addresses count half entries (keys or values of one layer and position), which
divides every offset and length in the code. `Copy` and `Fill` are `memcpy` and
`memset`. The array that the code's arithmetic is supposed to implement is kept
beside the memory as `want`, by layer, position and half, and `PoolIsArray` says
that reading the pool gives exactly that array; a scatter that fails
has performed any number of its four calls in the layer it got to. `evict`,
which nothing calls, is left out; `init` and `destroy` are in `Loader`.

The guards are the code's: `StartGather` looks at the request's `kv_int8`
(decode.cu:1958), `StartScatter` at the header's `kv_type_bytes` (`Fits`,
decode.cu:1502), `Store` at the request's, also for positions in the overflow
pool, where `kv_scale_ptr` is null and no scales are written. `Restart` loads the
model again in either format and finds the file of the process before. `Request`
begins a request in either format. One that overrides the pool's format makes
the engine write entries of one size into a pool laid out for another;
docs/server.md:89 says that this "produces garbage tokens" and
`EngineInt8Save` shows what it does to files. From such a request on (`mixed`)
the model goes on with control, so that saves and hydrations of all kinds
happen, but stores are no longer followed and both properties claim nothing.
That an INT8 pool is never gathered, and nothing ever scattered into one, is
therefore not assumed but a consequence of the two tests while no request
overrides the format.

### HttpServer

State: the mutex, the engine as a `Generator` instance, and for each worker its
place in the handler, the request's kind, what its client has been sent (kinds of
events), and the locals of the streaming lambda. `connected` says whether writes
to the client succeed. The exits are all there: bad body, opener not written,
over-long prompt, exception in the callback or in `flush`, the error event, the
plain handler's catch clauses (after the lock guard is gone). cpp-httplib is
modelled from its use: a pool of threads, a provider called after the headers.
`signal_handler` is `stop` and the end of the process.

### ThinkSplit

Tags are parameters; TLC uses `<>` and `</>`, which share their first and last
characters and differ in the second like the real ones. `InInit`, `InThinking`
and `InContent` are the turns of `feed`'s loop.

### Tokenizer

A token id is its string; strings are sequences of bytes, and the byte encoding
of GPT-2 models is computed as in the code. The actions are the turns of the
loops of `encode`: `TakeSpecial`, `TakePlain`, `Pretokenize`, then `Merge` and
`Emit` for a model with merges or `Match` for one without. Texts are valid UTF-8.

### Scratch

Addresses and sizes are bytes; the sizes are those the code asks for, in its
order: twelve buffers a layer in `transformer_prefill`, ten in
`transformer_layer`, two for the head. `Generate` makes the choice of
`batched_fits`, `Begin` is `reset` and the hidden state, `Get` one call of
`get`, `LayerDone` the rewind of a batch (or none). `at` holds the addresses of
the buffers that will still be read, among them the hidden state up to the head
(`last_prefill_x`). `ConfigAssumption` says which models are meant: all layers
of one token and the head fit in the pool, and the head in the margin. Qwen3-4B,
the model the documents measure with, takes about 4 of the 64 MiB.

### Loader

The process from `main` to the engine's destructor. `mem` is what the system
has given, `kept` what the engine's fields hold, so a leak and a double free are
differences between the two. Every allocation, copy and registration may fail:
`MapWeights`, `NormLayer` (a pair of copies is kept or freed together),
`OutNorm`, `InitKV` (overflow pool and INT8 scales are optional), `InitScratch`,
`CopyLayer` / `LayersDone`, `MapOutput` / `CopyOutput` / `SkipOutput` and
`FinishLoad` (the result of `cudaStreamCreate` is not looked at), in the two
orders that `JLLM_MAPPED_WEIGHTS` chooses between. For
every pointer of a layer the model keeps where it leads: nowhere, into the
mapping, to the device. Amounts are in MB like those of `MemoryBudget`. Between
load and unload the actions of `Scratch` run. `WithinMemory` bounds what a load
takes beyond the memory that was available (after the safety margin) by the three
things the code never weighs: the scratch pool, the INT8 scales and an output
that CUDA maps. Whether the margin covers these depends on the model, so no
constant for it appears.

### Gguf

A file is a sequence of metadata entries (key, type, sizes) and one of tensors.
Each reader advances by its own idea of a value's size (`SkipConfig`,
`SkipExact`, `SkipTokens`); when that differs from the size in the file
(`ValueBytes`, from the format) it is lost: what it reads may overwrite any
field with `Noise`, or it has run past the end of the file, where reads fail and
change nothing. The properties are conditions on the file only, and so tell
which files the readers are right about; what a value ought to be is read off
the whole file. For `load_gguf_config` they are the
`Clean` ones: no key contains the name of another, no number is 0, which the
code takes for one that is missing and replaces by a default (`WellNamed`), the
first entry whose size it guesses is an array of strings, and all
hyperparameters come before it, as converters write them. Of a file
that has one behind it nothing is claimed: TLC finds a file of two entries, an
array of strings and `block_count`, that is read as a model of 0 layers when
`ConfigExact` is asked of all files that are `WellNamed`. For `load_from_gguf` all entries
are `Passable`: no key beyond 1024 bytes, arrays of strings or of 4-byte values
only, and a vocabulary and merges that are arrays of strings, since their
elements are read as strings whatever their type (tokenizer.cpp:180-199).

### Sampler

Logits are integers or `Bad`; the exponential is any falling function `Exp` that
underflows to zero beyond `Depth` (powers of two in the run). `Start` and
`Sanitize` are the two entrances of `sample_token`, `Scan` a turn of the heap's
loop; ties are broken in any way, since `std::partial_sort` and heaps leave that
open, and the draw returns any candidate that has weight.

## Runs

| run | bounds | shows |
| --- | --- | --- |
| KVCacheFileSweep | 1 process, 3 conversations of equal size, budget for 2, clock 0..2, crashes | `BudgetHolds`, `NoStaleTmp`, `EvictsOldestFirst` |
| KVCacheFileShare | 2 processes with a conversation each, one payload, a budget smaller than one file, clock 0..1, power losses | `BinIntact`, `StoreSpec`, `JobsEnd` |
| Engine | 1 conversation and none, prompts of 0, 2 and 3 tokens that extend and contradict each other, caps -3, 0 and 3, 2 models, contexts 3 and 4, both KV formats, window 2 | the invariants of `Engine`, `GeneratorSpec`, `GenerateReturns` |
| KVCachePool | 2 layers, 2 fast positions and 1 overflow position, restarts and requests in both KV formats | `PoolIsArray`, `ScalesFollow` |
| HttpServer | 2 workers, 3 requests of any kind, caps 0 and 2 | `Serialized`, `OwnStop`, `WellFormed`, `NoDecodeForTheDead`, `Answered` |
| Tokenizer | texts of up to 4 of 5 characters, 16 tokens, 6 merges, 2 special tokens | `Lossless`, `CanonicalMerges`, `EncodeEnds` |
| ThinkSplit | texts of up to 9 characters over 4, chunks of up to 3 | `ChunksDoNotMatter`, `EmitsEarly` |
| Loader | 2 layers, a pool for a batch of 7 tokens, prompts of 1, 7 and 9 tokens, available memory from -3 to 40 MB for a file of 12, each switch on its own in both modes of `JLLM_MAPPED_WEIGHTS`, an overflow of 3 tokens and of a quarter | `NeverExhausted`, `LiveDisjoint`, `NothingFreedTwice`, `AllGivenBack`, `WeightsUsable`, `WithinMemory` |
| Sampler | 4 tokens, logits -1, 4, 8 and non-finite, top_k 0, 2, 3 and 4, two windows of recent tokens | `PenaltyOnce`, `Nucleus`, `SampleEnds` |
| Gguf | up to 3 of 18 entries in every order behind a common beginning (2 without it), a limit of 5 entries for `load_gguf_config`, up to 4 of 9 tensors in every order, an embedding with one dimension | `InfosExact`, `ConfigExact`, `WeightsExact`, `TokensExact` |

Why the bounds suffice: the sweep needs three files to have an order and a file
to keep; two processes are enough for a stale listing, and with room for no
file but the kept one each sweep removes what the other process has saved. Payloads that
differ (in length, or in nothing a reader can see) are left to the theorems,
which hold for any set of them. A context of four and three-token prompts leave
room for a hydrated prefix, a divergent suffix, a full cache and a wrapped
window; a second model and a second context make a file that must be refused.
With two workers one holds the lock and one waits, and three requests let a
worker come back with another request on top of what its last one left; the
theorems cover any number of both. Nine characters hold both tags, text between
and after them, and a second candidate for a tag.
Four characters are enough for a pair of special tokens one of which begins like
the other, for merges that compete, and for a blank before, between and after.
Two layers have one to leave behind and one to go on with, and a batch of seven
is the largest that fits, so that nine go token by token; the amounts of memory
stop a load at each of its tests, and the theorems cover all others. Four tokens
with three values have ties at every place of the order, and a window that holds
a token twice. Three entries suffice for one that is skipped wrongly between two
that matter.

`CHECK_DEADLOCK FALSE` everywhere: clocks, requests and texts are bounded, a
stopped server stays stopped, and an engine without callers is idle.

### Disagreements with documents and comments

Two runs are expected to fail; each states what a document or comment says.

| run | said | done |
| --- | --- | --- |
| EngineOverflow | the overflow pool is "slower but works" (docs/architecture.md:127) | attention reads the fast pool only, past the layer's keys |
| EngineInt8Save | INT8 bytes are not saved, having no scales (decode.cu:1960) | the guard tests the request's flag, not the pool's format |

The passing run of `Engine` excludes what these show, and a third case: no
overflow pool (`Overflow = 0`), requests in the pool's format (`Override =
FALSE`), and a fingerprint that could be computed (`FingerprintFails = FALSE`).
Without one, files are written and matched with a fingerprint of zeros, where
decode.cu:802-803 says "we just don't write/match KV cache files".

Smaller ones, visible in the models but without a run of their own: with
`max_tokens` 0 the first token is still delivered, although docs/server.md:82
calls it the generation cap (`Generator` says what holds instead); hydration
compares the file with the pool and not with the request's format, which
jllm_engine.h:186-189 suggests; a separator that arrives in the chunk after
`</think>` is not eaten (http_server.cpp:124), which is why `ChunksDoNotMatter`
is stated up to leading separators; a character that the vocabulary does not
know is dropped, where docs/engine.md:205 promises a byte token (`Lossless` says
what is kept); SIGTERM calls `exit(0)` from the handler, in the middle of a
generation, where docs/server.md:264 says it is stopped cleanly (the action
`signal_handler`); the lock of a stream is taken before its opener is written
(http_server.cpp:251, the actions `Lock` and `Opener`), where
docs/server.md:273-274 says that "response headers + first chunk hit the wire
before we block".

In the modules about loading and sampling: when the INT8 scales cannot be
allocated `init` returns true, and the engine, which "should detect kv_scales_ ==
nullptr and not enable INT8" (kv_cache.cpp:76), does not look (`InitKV`);
`JLLM_MAPPED_WEIGHTS=0` demands all layers on the device, but
`JLLM_DEVICE_LAYERS=0` returns before the demand is made (decode.cu:744, the
exception in `WeightsUsable`); a mapping that was registered and got no alias is
unmapped without being unregistered (decode.cu:323, the exception in
`AllGivenBack`); `load_gguf_config` skips eight bytes of every type it does not
know (model.cpp:207), where docs/gguf.md:99 says that all 13 types must be
handled: a hyperparameter of docs/gguf.md:41-53 behind an array of strings is
silently replaced by its default, behind another guess by anything
(`ConfigExact` says for which files the reader is right); the comment at decode.cu:836-837 says that users who pass `-c <N>`
"bypass this cap and are responsible for fitting in memory", where the code
clamps their context to the memory cap as well (decode.cu:843, `Context`), which
`WithinMemory` relies on; at temperature 0 the repeat penalty is skipped
(sample.cpp:183), where docs/engine.md:188-190 applies it first;
tensors that are missing are warned about and leave
null pointers (model.cpp:679-689); with `top_k` 0 or at least the vocabulary,
which a request may set (http_server.cpp:375), `top_p_filter` sees candidates in
the order of their ids where its comment says "Already sorted" (sample.cpp:81),
so `Nucleus` is stated for a `top_k` in range. `evict`, which nothing calls,
copies whole entries out of a layout of halves (kv_cache.cpp:139) and would not
do what docs/memory.md:104-108 shows.

## Fairness

`KVCacheFile`: weak fairness of every process's running save, sweep or load: it
executes its next system call; nothing waits for anyone. `Engine`: weak fairness
of `Step`, since `generate` runs on one thread and blocks on nobody. `Tokenizer`:
weak fairness of its one loop, and so for `Sampler`. `HttpServer`:
weak fairness of every worker; `std::mutex` is not assumed fair, and `Answered`
holds because requests are finite in number (a worker could wait for ever behind
an endless supply of luckier ones). Crashes, disconnects, `stop`, signals and
time carry no fairness.

## Theorems

All for arbitrary values of the constants, from the named assumptions next to
their declarations.

`KVCacheFileProofs`

* `TypeCorrect`: `Spec => []TypeOK`.
* `FilesIntact`: `Spec => []BinIntact`. `BinIntact` alone is not inductive: a
  rename publishes whatever the `.tmp` holds. The invariant `Inv` adds
  `TmpIsPrefix`: a process between open and rename owns its conversation, has
  written `len` units, its `.tmp` if still there is exactly that prefix, `len` is
  the full length from the fsync on, and the file is synced at the rename. It
  needs ownership (no other process opens that `.tmp`) and copes with an unlink
  by somebody's sweep.
* `ImplementsStore`: `Spec => StoreSpec`. A rename is `Put`, an eviction `Drop`,
  a load `Read`, a writeback `Sync`, a power loss `PowerLoss` (nothing torn can
  come back, by `BinIntact`), everything else a stutter.
* `StaleTmpGone`: `Spec => []NoStaleTmp`, for any number of processes. `Swept(p)`
  says that since `p` took the time no `.tmp` has become stale by that time but
  those `p` still has on its list: a file that others create or write to in the
  meantime has a later mtime, and the clock of the model never runs backwards.
* `BudgetKept` (`[]BudgetHolds`) and `OldestGoesFirst` (`EvictsOldestFirst`), for
  one process per directory (`OneProcess`, CHANGELOG.md:208 "Single-process
  today"): with two, a sweep counts and removes files from a listing that the
  other has changed. The invariant `Evicting` says that what the sweep still has
  listed is what the directory holds, with sizes and times, and that its running
  total is theirs.

`EngineProofs`

* `TypeCorrect`: `Spec => []TypeOK`, which bounds every position by the pool's
  length. `TypeOK` is not inductive: prefill indexes the prompt and stepping back
  to position N-1 needs a prompt. `PromptFits` adds that a running call's prompt
  is not empty and shorter than the limit, and that prefill stays inside it. The
  lemmas `HistoryType` to `PushType` give the types of the operators the passes
  are built from.
* `StopIsPrompt`: `Spec => []StopBound`, from `Control`: a delivery after `stop`
  leaves the call at the loop head or past it with the flag still raised, and the
  loop head looks at the flag before the next pass.
* `ImplementsGenerator`: `Spec => GeneratorSpec`; `Control` also says that nothing
  is delivered before the loop, so that the first token is the unconditional one.
  This is what entitles `HttpServer` to use `Generator` in place of the engine.
* `TokensCommitted` (`[]CommittedTokens`) and `WindowIsRecent` (`[]RecentWindow`).
  The invariant `Turn` follows a call through its phases: before the loop nothing
  is delivered and the position is inside the prompt (`BeforeLoop`), at the loop
  head the position is the prompt and all delivered tokens but the last
  (`AtLoop`), between a pass and its delivery one more (`AtDeliver`). The three
  ways into the loop (first token from the prefill, from a recomputed last
  position, after a prefill that had nothing to do) have to arrive at the same
  equation, which is where an off-by-one would show.
* `SavedFilesSound` (`[]FilesSound`) and `SeesOwnHistory` (`[]OwnHistory`), under
  `Identified`: requests in the pool's format, a fingerprint that was computed
  and differs for different models. The second also needs `Overflow = 0`. These
  hypotheses exclude what the failing runs show and the fingerprint of zeros
  described above; the passing run satisfies them. The invariant
  `Histories` says how far the pool holds the K/V of the running request: up to
  the matched prefix after a hydration (from a file that is sound, so of the same
  tokens, model and format), up to the position during prefill and decoding,
  and the hidden state, when there is one, is that of the last position. Files
  and pool are needed in one induction: a save writes what the pool holds, a
  hydration the other way round.

`HttpServerProofs`

* `TypeCorrect`: `Spec => []TypeOK`, with the engine's type from the lemma that
  every server step is a `Generator` step or leaves the engine alone.
* `Serialization`, `StopIsOwn`, `DeadStreamsEnd`: from `Inv`, which joins
  `Serialized` (who is in the locked region holds the mutex, and conversely),
  `OwnStop` and `DeadIsStopped` (a stream whose write failed has raised the flag
  and is past the unconditional first token). `OwnStop` needs `Serialized`: a
  stream may raise the flag during its flush, when nobody is generating because
  it still holds the mutex, and the next `generate` clears it.
* `StreamsWellFormed`: `Spec => []WellFormed`. `Script(w)` gives for each place in
  the handlers what the client of `w` has been sent when it gets there; a client
  whose connection broke has a beginning of that.

`KVCachePoolProofs`

* `TypeCorrect`, `PoolIsAnArray` (`[]PoolIsArray`) and `ScalesAgree`
  (`[]ScalesFollow`), for every number of layers and size of the two pools, as
  long as no request overrides the pool's format (`~mixed`; `TypeCorrect` too, as
  the contents of a file saved by an override are not followed). The
  lemmas say that the offsets of `key_ptr`, `val_ptr` and `kv_scale_ptr` lie in
  the pool and differ for different slots, and which words a copy touches.
  `FormatOK` says why INT8 bytes never travel without their scales: the request's
  format is the pool's, so every file was gathered from an FP16 pool and says so,
  and a hydration finds an FP16 pool.
  The invariant `IInv` relates memory to array while copies are under way:
  `FileOK` for the layers of the file body that a gather has written, `CopyOK`
  for the ones a scatter has yet to read, after the compaction has moved them to
  a shorter stride.

`ThinkSplitProofs`

* `ChunkingIrrelevant` (`[]ChunksDoNotMatter`) and `EmitsAtOnce` (`[]EmitsEarly`),
  for every alphabet, any two non-empty tags (also tags that overlap themselves)
  and texts of every length. The invariant `Divided` says for each mode what has
  been emitted and held back of the text so far. Its heart is that once reasoning
  has been emitted at least `Len(Close) - 1` characters are held back, so that a
  closing tag cannot begin in text that is gone. That `find` returns the first
  occurrence is proved from the well-foundedness of `<` on the naturals
  (`LeastNat`), with no induction over texts.

`LoaderProofs`, about `Scratch`

* `TypeCorrect`, `PoolSuffices` (`ScratchSpec => []NeverExhausted`) and
  `BuffersDisjoint` (`ScratchSpec => []LiveDisjoint`), for every model that
  meets `ConfigAssumption`, every prompt and every hydrated prefix. The
  invariant is `Control /\ Reach /\ Stacked`. `Reach` bounds the offset by what
  the buffers asked for so far, the layers done so far and the hidden state
  take; that the bound stays within the pool is arithmetic: for a batch it uses
  the estimate of `batched_fits` and that padding costs less than 256 bytes in
  each of 13 buffers, for one token the assumption on all layers (a lemma lifts
  it from the last layer to each). `Stacked` says that live buffers lie one
  above the other below the offset and the hidden state below the mark, which is
  why a rewind cannot uncover it.

`LoaderProofs`, about `Loader`

* `FreesOnce` (`[]NothingFreedTwice`) and `GivesBack` (`[]AllGivenBack`) from
  `Owned`: `kept` is in `mem`, the difference is at most the registration of the
  file, and a region leads to something mapped and registered.
* `DrivesScratch`: `Spec => ScratchSpec`, which gives `ScratchInProgram`, the
  two results about the scratch pool for the whole program.
* `LoadsUsably` (`[]WeightsUsable`) from `Placed`, which says for each stage of
  the load, and each layer that its loops have passed, where the pointers lead
  and that what they lead to is allocated.
* `StaysWithin` (`[]WithinMemory`): beyond the available memory `load` takes no
  more than it takes without looking at the budget, that is the scratch pool, the
  INT8 scales and, with `JLLM_MAPPED_WEIGHTS=0`, an output matrix that is mapped
  because it does not fit. Whether the margin (256 MB in budget.cpp:49) covers
  that is a matter of the model. For Qwen3-4B it does in the default mode (64 MB
  of scratch and less than 100 MB of scales). It does not with
  `JLLM_MAPPED_WEIGHTS=0` and `JLLM_DEVICE_LAYERS=0`, where 64 MB of scratch and
  an output of some 319 MB exceed it. The only assumption on amounts is that the
  K/V of one token take less than a MB (`TokenAssumption`). The invariant
  `Spending` bounds `free_mb` from below through the stages of the load;
  `ContextFits` is the arithmetic of `max_context`, which rounds toward zero.

`GgufProofs`

* `InfosRight` (`[]InfosExact`), `ConfigRight` (`[]ConfigExact`), `WeightsRight`
  (`[]WeightsExact`) and `TokensRight` (`[]TokensExact`), for every set of files
  of any number of entries and tensors (`FilesAssumption` is their format) and
  any limit on the entries `load_gguf_config` looks at. Each reader is a loop, and
  the invariant says what it holds at `at`: what the places before it give
  (`Tokens`, `MappedBefore`, `Taking`). That it is at the beginning of an entry
  rests on three lemmas, one for each table of sizes: what it skips is what the
  value takes, and for `load_gguf_config` this is so exactly for the types it
  does not guess. `Taking` has a second case for the reader past the end of the
  file, which holds what the visible entries give and takes no more; `TakenIs`
  shows that the order of the else-ifs makes the substring search exact.
  The attempt to prove `ConfigExact` and `TokensExact` as they first stood found
  the two conditions on numbers that are 0 and on the type of the vocabulary's
  elements, which no file of the run had violated.

`SamplerProofs`, from `SamplerAssumption`, for every vocabulary, logits, recent
tokens, parameters and falling `Exp`

* `PenaltyIsOnce` (`[]PenaltyOnce`). The invariant `Penalising` ties
  `penalty_applied` to the array: unset, the logits are the given ones; set, each
  is penalised as often as its token occurs; and it is set whenever a sampler
  reads them. `Penalised` shows that the loop of `apply_repeat_penalty` over the
  tokens and the count per token come to the same.
* `DrawsFromNucleus` (`[]Nucleus`). `Nucleus` speaks of the token returned; the
  invariant `Drawing` adds what makes it so on the way. `Heaped`: a finite logit
  that was scanned and is not in the heap finds the heap full of logits at least
  as great. `Ranking`: a candidate that may be drawn (it has weight, or is the
  first) is finite, and every token above it stands before it. For the heap this
  follows from `Heaped`; for the full softmax, which sorts by weights of which
  many may be 0, from weights that fall strictly while they are positive
  (`AboveWeight`) and a first candidate that has weight (`TopWeight`). `Cut`: what
  stands before a kept candidate does not pass `top_p`; a set of tokens among the
  first m candidates weighs at most their cumulated weight (`Prefix`). Equals may
  be ordered in any way.
* `ReturnsToken`: what comes back is a token, never the -1 of the sampler that
  declined: the safety half of `SampleEnds`.

The recursive functions and sums behind these are reached without an operator as
a parameter: `Induction` is stated for a set, `Iteration` gives a recursive
function over 0..N, and `FoldExists` and `FoldSums` show that the library's fold
over a finite set exists and does not depend on the order in which elements are
taken out.

Only model-checked: `Lossless` and `CanonicalMerges` of `Tokenizer`, and liveness (`JobsEnd`, `GenerateReturns`, `Answered`,
`EncodeEnds`, `SampleEnds`), which the prover does not reach. The two properties
of `Tokenizer` do not hold for every value of its constants: a token whose
characters are no tokens themselves is kept by `encode` and not by `Visible`, and
merges may be listed in an order that no training produces. The code checks
neither, so a theorem would need assumptions it does not justify; the run takes a
vocabulary and a list of merges of the kind that models have. The invariants that
a theorem above needs beyond the property it states (`Turn`, `Histories`, `Swept`,
`Evicting`, `Script`, `IInv` of the pool, `Divided`, `Spending`, and those of
`GgufProofs` and `SamplerProofs`) were also checked by TLC on the instances of the runs.

## Not modelled

* Kernels: numerical code; so is rounding in the sampler, and overflow at
  temperatures so small that dividing by them makes a logit or the sum of the
  exponentials infinite, where the code falls back to greedy or to token 0
  (sample.cpp:150, 250, 257). `Engine` allows any token, and any prompt.
* In `KVCacheFile`: an `unlink` that fails although the file is there, and a
  directory that cannot be listed (kv_cache_file.cpp:334-341, 369, 392): the
  sweep then leaves files behind, and above the budget, until it can. The
  listing, the `stat` of each file and the clock are read in one step
  (kv_cache_file.cpp:386-389); what changes while they are read looks as if it
  had changed before or after.
* `decode` of a vector of tokens, `map_weights`, `weight_bytes`, `evict`,
  `emergency_free`, CUDA graph capture: nothing calls them.
* In `Gguf`: files cut short, files of 4 GB and more (where the lost reader would
  not leave the file), an alignment other than 32, which is not looked for,
  bias tensors, which are ignored.
* `/proc` and sysfs readers, power modes, thermal back-off (a sleep), timing
  statistics.
* Prompt formatting, JSON layout, the health report; argument parsing of the CLI.
* Two processes serving one conversation (see `KVCacheFile`).

## Plan

1. Done: all modules above.
2. Composition: the server over `Engine` instead of `Generator`, and `Engine`
   with the tokens of `Sampler`.
3. Theorems: that the byte encoding of `Tokenizer` can be undone and that a merge
   keeps the text of a piece, which hold for every vocabulary.
