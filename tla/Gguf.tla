-------------------------------- MODULE Gguf --------------------------------
(***************************************************************************)
(* The three readers of a GGUF file, one after the other as main() and     *)
(* Engine::load call them: load_gguf_config, parse_tensor_infos (called by *)
(* the first for the size of the vocabulary and again by                   *)
(* load_and_map_weights) and Tokenizer::load_from_gguf.                    *)
(*                                                                         *)
(* A file is a sequence of metadata entries and one of tensor infos.  The  *)
(* sizes of values are bytes; keys are read by their length everywhere, so *)
(* only the classes the code tells apart are kept.  Each reader walks over *)
(* the entries with its own idea of a value's size; when that differs from *)
(* the size in the file it is no longer at the beginning of an entry and   *)
(* what it reads from there on is noise.                                   *)
(***************************************************************************)
EXTENDS Integers, Sequences, FiniteSets, FiniteSetsExt

CONSTANTS Files,
          MetaCap,     \* 256, the entries load_gguf_config looks at
          Noise        \* a number read off a boundary

\* The 13 types of values by their numbers; TypeBytes is the file format's.
Type == 0..12
TString == 8
TArray == 9
Bytes1 == {0, 1, 7}
Bytes2 == {2, 3}
Bytes4 == {4, 5, 6}
Bytes8 == {10, 11, 12}
TypeBytes(t) ==
    IF t \in Bytes1 THEN 1 ELSE IF t \in Bytes2 THEN 2 ELSE IF t \in Bytes4 THEN 4 ELSE 8

\* A metadata entry: the class of its key's length (up to 255, up to 1024,
\* beyond), its type; for an array the type and number of its elements;
\* `bytes' of a string, of each string of an array or each nested array.
ValueBytes(e) ==
    CASE e.type = TString -> 8 + e.bytes
      [] e.type = TArray ->
           12 + e.n * (CASE e.etype = TString -> 8 + e.bytes
                         [] e.etype = TArray -> 12 + e.bytes
                         [] OTHER -> TypeBytes(e.etype))
      [] OTHER -> TypeBytes(e.type)

Matrices == {"attn_q", "attn_k", "attn_v", "attn_output", "ffn_gate", "ffn_up", "ffn_down"}
QKNorms == {"attn_q_norm", "attn_k_norm"}
RmsNorms == {"attn_norm", "ffn_norm"}
LayerField == Matrices \cup QKNorms \cup RmsNorms
Global == {"token_embd", "output_norm", "output"}
G(x) == <<-1, x>>     \* a field of ModelWeights itself, beside <<layer, field>>

Entry == [key : STRING, len : {"short", "long", "huge"}, type : Type,
          etype : Type, n : Nat, bytes : Nat, val : Nat]

\* A tensor info with the first two of its dimensions, the second 0 when
\* there is only one; the layer of a name that does not begin with blk. is -1.
TensorInfo == { t \in [name : LayerField \cup Global \cup {"other"}, layer : Int,
                       type : Nat, shape : (Nat \ {0}) \X Nat] :
                  t.name \in Global => t.layer = -1 }

ASSUME FilesAssumption ==
    /\ Files \subseteq [magic : BOOLEAN, meta : Seq(Entry), tensors : Seq(TensorInfo)]
    /\ Noise \in Nat /\ MetaCap \in Nat

VARIABLES
    file, pc, ret,        \* ret: who called parse_tensor_infos
    at,                   \* the entry or tensor a reader is at
    lost,                 \* "no"; "noise"; "end": it has run past the end of the file
    cfg,                  \* ModelConfig
    infos,                \* the tensor infos read
    ptr, types,           \* ModelWeights: the tensor every field leads to, and its types
    tok                   \* the Tokenizer's fields

vars == <<file, pc, ret, at, lost, cfg, infos, ptr, types, tok>>

meta == file.meta
N == Len(meta)
E == meta[at]

ConfigField == {"n_layers", "n_kv_heads", "n_heads", "head_dim", "hidden_dim",
                "intermediate_dim", "vocab_size", "max_seq_len", "rope_theta",
                "rms_eps", "name", "rope_neox"}
TokField == {"vocab", "merges", "model", "bos_id", "eos_id", "add_bos", "add_eos"}
Layers == 0..(cfg["n_layers"] - 1)

Init ==
    /\ file \in Files
    /\ pc = "config" /\ ret = "vocab" /\ at = 1 /\ lost = "no"
    /\ cfg = [x \in ConfigField |-> 0]
    /\ infos = << >>
    /\ ptr = << >> /\ types = << >>
    /\ tok = [x \in TokField |-> 0]

\* The next reader, or the next loop of this one, begins.
Goto(place) == pc' = place /\ at' = 1 /\ lost' = "no"

-----------------------------------------------------------------------------
(* load_gguf_config.                                                       *)

\* A fault: bools are taken for 4-byte values.
gguf_scalar_size_wide(t) ==
    CASE t \in {0, 1} -> 1 [] t \in {2, 3} -> 2 [] t \in {4, 5, 6, 7} -> 4
      [] t \in {10, 11, 12} -> 8 [] OTHER -> 0

gguf_scalar_size(t) ==
    CASE t \in {0, 1, 7} -> 1 [] t \in {2, 3} -> 2 [] t \in {4, 5, 6} -> 4
      [] t \in {10, 11, 12} -> 8 [] OTHER -> 0

\* What parse_tensor_infos skips, and load_gguf_config behind a long key: a
\* nested array is guessed to have 8 bytes.
SkipExact(e) ==
    CASE e.type = TString -> 8 + e.bytes
      [] e.type = TArray ->
           12 + e.n * (CASE e.etype = TString -> 8 + e.bytes
                         [] e.etype = TArray -> 8
                         [] OTHER -> gguf_scalar_size(e.etype))
      [] OTHER -> gguf_scalar_size(e.type)

\* Otherwise load_gguf_config knows three types and skips 8 bytes of others.
SkipConfig(e) ==
    CASE e.len # "short" -> SkipExact(e)
      [] e.len = "short" /\ e.type \in {4, 6} -> 4
      [] e.len = "short" /\ e.type = TString -> 8 + e.bytes
      [] OTHER -> 8

\* The names a key contains, as strstr finds them.
Contains(key) ==
    CASE key = "head_count_kv" -> {"head_count_kv", "head_count"}
      [] key = "original_context_length" -> {"context_length"}
      [] key = "expert_feed_forward_length" -> {"feed_forward_length"}
      [] OTHER -> {key}

\* A fault: the shorter of two names is looked for first.
Uint32NamesSwapped ==
    <<"block_count", "head_count", "head_count_kv", "key_length", "value_length",
      "embedding_length", "feed_forward_length", "vocab_size", "context_length">>

\* In the order of the else-ifs.
Uint32Names ==
    <<"block_count", "head_count_kv", "head_count", "key_length", "value_length",
      "embedding_length", "feed_forward_length", "vocab_size", "context_length">>

FieldOf(name) ==
    CASE name = "block_count" -> "n_layers"
      [] name = "head_count_kv" -> "n_kv_heads"
      [] name = "head_count" -> "n_heads"
      [] name \in {"key_length", "value_length"} -> "head_dim"
      [] name = "embedding_length" -> "hidden_dim"
      [] name = "feed_forward_length" -> "intermediate_dim"
      [] name = "vocab_size" -> "vocab_size"
      [] name = "context_length" -> "max_seq_len"
      [] name = "freq_base" -> "rope_theta"
      [] name = "rms_eps" -> "rms_eps"
      [] name = "name" -> "name"
      [] name = "architecture" -> "rope_neox"

\* The name an entry of a type is taken for: the first one its key contains.
Taken(e) ==
    CASE e.type = 4 ->
           LET hit == { j \in DOMAIN Uint32Names : Uint32Names[j] \in Contains(e.key) }
           IN IF hit = {} THEN {} ELSE {Uint32Names[Min(hit)]}
      [] e.type = 6 -> Contains(e.key) \cap {"freq_base", "rms_eps"}
      [] e.type = TString -> Contains(e.key) \cap {"name", "architecture"}
      [] OTHER -> {}

\* Where a wrong skip leads.  Eight bytes into an array of strings the next
\* key length is made of the first string's: 2^32 or more, past the end of
\* the file (below 4 GB), where reads fail and the length stays what it is.
Strays(e) == IF e.type = TArray /\ e.etype = TString /\ e.n > 0 /\ e.bytes > 0
             THEN "end" ELSE "noise"

\* Not a GGUF file: a configuration of zeros is returned, and load goes on.
BadMagic ==
    /\ pc = "config" /\ ~file.magic
    /\ ret' = "map"
    /\ Goto("skip")
    /\ UNCHANGED <<file, cfg, infos, ptr, types, tok>>

ConfigEntry ==
    /\ pc = "config" /\ file.magic /\ at <= N /\ at <= MetaCap /\ lost = "no"
    /\ cfg' = [x \in ConfigField |->
                 IF E.len = "short" /\ x \in { FieldOf(n) : n \in Taken(E) }
                 THEN E.val ELSE cfg[x]]
    /\ lost' = IF SkipConfig(E) = ValueBytes(E) THEN "no" ELSE Strays(E)
    /\ at' = at + 1
    /\ UNCHANGED <<file, pc, ret, infos, ptr, types, tok>>

\* Off a boundary a field may be overwritten with anything.
ConfigLost ==
    /\ pc = "config" /\ at <= N /\ at <= MetaCap /\ lost # "no"
    /\ \/ UNCHANGED cfg
       \/ lost = "noise" /\ \E x \in ConfigField : cfg' = [cfg EXCEPT ![x] = Noise]
    /\ at' = at + 1
    /\ UNCHANGED <<file, pc, ret, lost, infos, ptr, types, tok>>

Default(v, d) == IF v = 0 THEN d ELSE v

\* What has no entry is derived or gets its default.
ConfigDefaults ==
    /\ pc = "config" /\ file.magic /\ (at > N \/ at > MetaCap)
    /\ cfg' = [cfg EXCEPT
                 !["head_dim"] = Default(@, IF cfg["n_heads"] > 0 /\ cfg["hidden_dim"] > 0
                                            THEN cfg["hidden_dim"] \div cfg["n_heads"] ELSE 0),
                 !["rope_theta"] = Default(@, 10000),
                 !["max_seq_len"] = Default(@, 2048),
                 !["n_kv_heads"] = Default(@, cfg["n_heads"])]
    /\ ret' = IF cfg["vocab_size"] = 0 /\ cfg["hidden_dim"] > 0 THEN "vocab" ELSE "map"
    /\ Goto("skip")
    /\ UNCHANGED <<file, infos, ptr, types, tok>>

\* vocab_size from the shape of the embedding, in either order; a shape of
\* one dimension that is hidden_dim gives none.
DeriveVocab ==
    /\ pc = "vocab"
    /\ LET embd == { j \in DOMAIN infos : infos[j].name = "token_embd" }
           s == infos[Min(embd)].shape
           h == cfg["hidden_dim"]
           v == IF embd = {} THEN 0
                ELSE IF s[1] = h THEN s[2] ELSE IF s[2] = h THEN s[1] ELSE Max({s[1], s[2]})
       IN cfg' = [cfg EXCEPT !["vocab_size"] = Default(v, 32000)]
    /\ ret' = "map"
    /\ Goto("skip")
    /\ UNCHANGED <<file, infos, ptr, types, tok>>

-----------------------------------------------------------------------------
(* parse_tensor_infos.                                                     *)

SkipEntry ==
    /\ pc = "skip" /\ at <= N
    /\ lost' = IF lost = "no" /\ SkipExact(E) = ValueBytes(E) THEN "no" ELSE "noise"
    /\ at' = at + 1
    /\ UNCHANGED <<file, pc, ret, cfg, infos, ptr, types, tok>>

\* All tensor infos are read as they are, or as noise.
ReadInfos ==
    /\ pc = "skip" /\ at > N
    /\ infos' = IF lost = "no" THEN file.tensors
                ELSE [j \in DOMAIN file.tensors |->
                        [name |-> "other", layer |-> -1, type |-> 0, shape |-> <<1, 1>>]]
    /\ Goto(ret)
    /\ ptr' = [x \in ({-1} \X Global) \cup (Layers \X LayerField) |-> 0]
    /\ types' = [x \in ({-1} \X {"embd", "output"}) \cup (Layers \X {"rms", "qk"}) |-> 0]
    /\ UNCHANGED <<file, ret, cfg, tok>>

-----------------------------------------------------------------------------
(* load_and_map_weights, after parsing.                                    *)

I == infos[at]
InLayer == I.layer \in Layers
F32orF16(t) == IF t = 0 THEN 0 ELSE 1

\* One tensor; the types of matrices, kept with each, are left out.
MapTensor ==
    /\ pc = "map" /\ at <= Len(infos)
    /\ \/ /\ InLayer /\ I.name \in LayerField
          /\ ptr' = [ptr EXCEPT ![<<I.layer, I.name>>] = at]
          /\ types' = CASE I.name \in RmsNorms -> [types EXCEPT ![<<I.layer, "rms">>] = F32orF16(I.type)]
                        [] I.name \in QKNorms -> [types EXCEPT ![<<I.layer, "qk">>] = F32orF16(I.type)]
                        [] OTHER -> types
       \/ /\ ~InLayer /\ I.name \in Global
          /\ ptr' = [ptr EXCEPT ![G(I.name)] = at]
          /\ types' = CASE I.name = "token_embd" -> [types EXCEPT ![G("embd")] = I.type]
                        [] I.name = "output" -> [types EXCEPT ![G("output")] = I.type]
                        [] OTHER -> types
       \/ /\ ~(InLayer /\ I.name \in LayerField) /\ ~(~InLayer /\ I.name \in Global)
          /\ UNCHANGED <<ptr, types>>
    /\ at' = at + 1
    /\ UNCHANGED <<file, pc, ret, lost, cfg, infos, tok>>

Mapped == \E x \in DOMAIN ptr : ptr[x] # 0

\* A fault: the type does not follow the pointer.
TieOutputPointer ==
    /\ pc = "map" /\ at > Len(infos)
    /\ IF ptr[G("output")] = 0 /\ ptr[G("token_embd")] # 0
       THEN /\ ptr' = [ptr EXCEPT ![G("output")] = ptr[G("token_embd")]]
            /\ UNCHANGED types
       ELSE UNCHANGED <<ptr, types>>
    /\ Goto(IF Mapped THEN "tokens" ELSE "failed")
    /\ UNCHANGED <<file, ret, cfg, infos, tok>>

\* The tied fallback; tensors that are missing are only warned about.
TieOutput ==
    /\ pc = "map" /\ at > Len(infos)
    /\ IF ptr[G("output")] = 0 /\ ptr[G("token_embd")] # 0
       THEN /\ ptr' = [ptr EXCEPT ![G("output")] = ptr[G("token_embd")]]
            /\ types' = [types EXCEPT ![G("output")] = types[G("embd")]]
       ELSE UNCHANGED <<ptr, types>>
    /\ Goto(IF Mapped THEN "tokens" ELSE "failed")
    /\ UNCHANGED <<file, ret, cfg, infos, tok>>

-----------------------------------------------------------------------------
(* Tokenizer::load_from_gguf.                                              *)

TokName(e) ==
    CASE e.key = "tokens" /\ e.type = TArray -> "vocab"
      [] e.key = "merges" /\ e.type = TArray -> "merges"
      [] e.key = "model" /\ e.type = TString -> "model"
      [] e.key = "bos_token_id" /\ e.type = 4 -> "bos_id"
      [] e.key = "eos_token_id" /\ e.type = 4 -> "eos_id"
      [] e.key = "add_bos_token" /\ e.type = 7 -> "add_bos"
      [] e.key = "add_eos_token" /\ e.type = 7 -> "add_eos"
      [] OTHER -> "none"

\* A fault: elements that are not strings are taken to have 8 bytes.
SkipTokensWide(e) ==
    CASE e.len = "huge" -> 0
      [] e.len # "huge" /\ e.type = TString -> 8 + e.bytes
      [] e.len # "huge" /\ e.type = TArray ->
           12 + e.n * (IF e.etype = TString \/ TokName(e) # "none" THEN 8 + e.bytes ELSE 8)
      [] OTHER -> gguf_scalar_size(e.type)

\* A key beyond 1024 is skipped with its type but without its value; of the
\* elements of an array that are not strings each is taken to have 4 bytes.
SkipTokens(e) ==
    CASE e.len = "huge" -> 0
      [] e.len # "huge" /\ e.type = TString -> 8 + e.bytes
      [] e.len # "huge" /\ e.type = TArray ->
           12 + e.n * (IF e.etype = TString \/ TokName(e) # "none" THEN 8 + e.bytes ELSE 4)
      [] OTHER -> gguf_scalar_size(e.type)

TokenEntry ==
    /\ pc = "tokens" /\ file.magic /\ at <= N
    /\ \/ /\ lost = "no"
          /\ tok' = [x \in TokField |-> IF E.len = "short" /\ x = TokName(E) THEN E.val ELSE tok[x]]
          /\ lost' = IF SkipTokens(E) = ValueBytes(E) THEN "no" ELSE "noise"
       \/ /\ lost # "no"
          /\ \/ UNCHANGED tok
             \/ \E x \in TokField : tok' = [tok EXCEPT ![x] = Noise]
          /\ UNCHANGED lost
    /\ at' = at + 1
    /\ UNCHANGED <<file, pc, ret, cfg, infos, ptr, types>>

\* Engine::load does not look at the result.
TokensDone ==
    /\ pc = "tokens" /\ (at > N \/ ~file.magic)
    /\ pc' = "done"
    /\ UNCHANGED <<file, ret, at, lost, cfg, infos, ptr, types, tok>>

Next ==
    \/ BadMagic \/ ConfigEntry \/ ConfigLost \/ ConfigDefaults \/ DeriveVocab
    \/ SkipEntry \/ ReadInfos \/ MapTensor \/ TieOutput
    \/ TokenEntry \/ TokensDone

Spec == Init /\ [][Next]_vars

-----------------------------------------------------------------------------
(* Correctness.  What is claimed depends on what the file holds, never on  *)
(* what a reader made of it.                                               *)

ReadingDone == pc \in {"tokens", "done", "failed"}
NestedArray(e) == e.type = TArray /\ e.etype = TArray /\ e.n > 0
Unnested == \A j \in 1..N : ~NestedArray(meta[j])
OrElse(S, d) == IF S = {} THEN {d} ELSE S

\* parse_tensor_infos finds the tensor infos behind metadata of all 13 types,
\* in any order and number, unless an array holds arrays: a skip that is off
\* by a byte anywhere turns every weight into noise.
InfosExact == pc \in {"vocab", "map"} /\ Unnested => infos = file.tensors

\* What load_gguf_config can see: the entries up to the first one of a type
\* it skips by guess, and no more than MetaCap.
Guessed(e) == \/ e.len = "short" /\ e.type \notin {4, 6, TString} \cup Bytes8
              \/ e.len # "short" /\ NestedArray(e)
Odd == { j \in 1..N : Guessed(meta[j]) }
Visible == 1..Min({N, MetaCap} \cup { j - 1 : j \in Odd })
GivenIn(S, key, type) ==
    { meta[j].val : j \in { k \in S : /\ meta[k].key = key /\ meta[k].type = type
                                      /\ meta[k].len = "short" } }
Given(key, type) == GivenIn(1..N, key, type)

\* The entries the configuration is made of, by key and type.
HyperKeys ==
    ({"block_count", "head_count_kv", "head_count", "key_length", "value_length",
      "embedding_length", "feed_forward_length", "vocab_size", "context_length"} \X {4})
    \cup ({"freq_base", "rms_eps"} \X {6}) \cup {<<"architecture", TString>>}

\* The rows of an embedding: the dimension that is not the hidden one.
Rows(h) ==
    { LET s == file.tensors[j].shape
      IN Default(IF s[1] = h THEN s[2] ELSE IF s[2] = h THEN s[1] ELSE Max({s[1], s[2]}), 32000)
      : j \in { k \in DOMAIN file.tensors : file.tensors[k].name = "token_embd" } }

\* Every hyperparameter has the value that the file, read as a whole, has
\* under its key, or its default when the file has no such key.
Hyper ==
    LET heads == cfg["n_heads"]
        h == cfg["hidden_dim"]
    IN /\ cfg["n_layers"] \in OrElse(Given("block_count", 4), 0)
       /\ heads \in OrElse(Given("head_count", 4), 0)
       /\ h \in OrElse(Given("embedding_length", 4), 0)
       /\ cfg["intermediate_dim"] \in OrElse(Given("feed_forward_length", 4), 0)
       /\ cfg["n_kv_heads"] \in OrElse(Given("head_count_kv", 4), heads)
       /\ cfg["head_dim"] \in OrElse(Given("key_length", 4) \cup Given("value_length", 4),
                                    IF heads = 0 THEN 0 ELSE h \div heads)
       /\ cfg["max_seq_len"] \in OrElse(Given("context_length", 4), 2048)
       /\ cfg["rope_theta"] \in OrElse(Given("freq_base", 6), 10000)
       /\ cfg["rms_eps"] \in OrElse(Given("rms_eps", 6), 0)
       /\ cfg["rope_neox"] \in OrElse(Given("architecture", TString), 0)

\* The size of the vocabulary, from its key or from the embedding.
Vocabulary ==
    LET h == cfg["hidden_dim"]
    IN h > 0 => cfg["vocab_size"] \in IF Given("vocab_size", 4) = {}
                                      THEN OrElse(Rows(h), 32000)
                                      ELSE Given("vocab_size", 4)

\* No key contains the name of another (as rope.scaling.original_context_length
\* would).  A number that is 0 counts as one that is not there.
WellNamed ==
    /\ file.magic /\ Unnested
    /\ \A j \in 1..N : /\ meta[j].key \in Contains(meta[j].key)
                       /\ meta[j].type \in {4, 6} => meta[j].val # 0

\* The files load_gguf_config is right about: the first entry it cannot skip
\* is an array of strings, and all hyperparameters come before it.
Clean ==
    /\ WellNamed
    /\ Odd = {} \/ Min(Odd) > MetaCap \/ Strays(meta[Min(Odd)]) = "end"
    /\ \A j \in (1..N) \ Visible :
         ~(meta[j].len = "short" /\ <<meta[j].key, meta[j].type>> \in HyperKeys)

\* For those files load_gguf_config gives every hyperparameter the value of
\* the key of that name, or its default, though it looks for substrings and
\* runs off the end of the file at the first array of strings, where it must
\* take nothing for an entry any more.
ConfigExact == ReadingDone /\ Clean => Hyper /\ Vocabulary

\* The tensors, among those at the places S, with a name in a layer.
NamedIn(S, l, x) == { j \in S : file.tensors[j].name = x /\ file.tensors[j].layer = l }
Named(l, x) == NamedIn(DOMAIN file.tensors, l, x)
IsF16(j) == F32orF16(file.tensors[j].type)

\* The two norms of a pair that share a type flag, and whether they agree.
Flag == [rms |-> RmsNorms, qk |-> QKNorms]
Agree(l, flag) ==
    \A x, y \in Flag[flag] : \A j \in Named(l, x), k \in Named(l, y) : IsF16(j) = IsF16(k)

\* Every weight pointer leads to the tensor of its name in its layer, or is
\* null when the file has none, in whatever order the tensors come; a tied
\* output leads to the embedding and is read in the embedding's type; the
\* one type flag of a pair of norms is right when the two agree.
WeightsExact ==
    ReadingDone /\ Unnested =>
        /\ \A l \in Layers :
             /\ \A x \in LayerField : ptr[<<l, x>>] \in OrElse(Named(l, x), 0)
             /\ \A flag \in {"rms", "qk"} : Agree(l, flag) =>
                  \A x \in Flag[flag] : \A j \in Named(l, x) : types[<<l, flag>>] = IsF16(j)
        /\ ptr[G("token_embd")] \in OrElse(Named(-1, "token_embd"), 0)
        /\ ptr[G("output_norm")] \in OrElse(Named(-1, "output_norm"), 0)
        /\ ptr[G("output")] \in OrElse(Named(-1, "output"), ptr[G("token_embd")])
        /\ ptr[G("output")] # 0 => types[G("output")] = file.tensors[ptr[G("output")]].type
        /\ ptr[G("token_embd")] # 0 =>
             types[G("embd")] = file.tensors[ptr[G("token_embd")]].type

\* What load_from_gguf can skip: no key longer than 1024, and arrays of
\* strings or of 4-byte values; the vocabulary and the merges are read as
\* strings whatever the type of their elements.
Passable(e) ==
    /\ e.len # "huge"
    /\ (e.type = TArray /\ e.n > 0) => e.etype = TString \/ (e.etype \in Bytes4 /\ TokName(e) = "none")

HeldIn(S, x) == { meta[j].val : j \in { k \in S : meta[k].len = "short" /\ TokName(meta[k]) = x } }

\* The tokenizer gets its vocabulary, merges and special ids from wherever
\* they are among the metadata, as long as it can skip all of them.
TokensExact ==
    pc = "done" /\ file.magic /\ (\A j \in 1..N : Passable(meta[j])) =>
        \A x \in TokField : tok[x] \in OrElse(HeldIn(1..N, x), 0)
=============================================================================
