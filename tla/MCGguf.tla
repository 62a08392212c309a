------------------------------- MODULE MCGguf -------------------------------
(* Files with every order of up to three further entries behind a common   *)
(* beginning (two without it), and every order of a few tensors.           *)
EXTENDS Gguf

Of(key, type, val) == [key |-> key, len |-> "short", type |-> type, etype |-> 0, n |-> 0,
                       bytes |-> 0, val |-> val]
Str(key, bytes, val) == [Of(key, TString, val) EXCEPT !.bytes = bytes]
Arr(key, etype, n, bytes, val) == [Of(key, TArray, val) EXCEPT !.etype = etype, !.n = n, !.bytes = bytes]

Entries ==
    { Of("block_count", 4, 2), Of("head_count_kv", 4, 2), Of("context_length", 4, 100),
      Of("original_context_length", 4, 50), Of("key_length", 4, 3), Of("freq_base", 6, 500),
      Of("eos_token_id", 4, 7), Of("vocab_size", 4, 12), Of("size", 10, 1),
      Of("add_bos_token", 7, 1), Of("version", 2, 1),
      Arr("tokens", TString, 2, 1, 20), Arr("token_type", 5, 2, 0, 1),
      Arr("flags", 7, 3, 0, 1), Arr("nested", TArray, 1, 4, 1), Arr("none", TString, 0, 0, 1),
      [Of("long", 7, 1) EXCEPT !.len = "long"], [Of("huge", 4, 1) EXCEPT !.len = "huge"] }

Orders(S, n) == { q \in [1..n -> S] : \A a, b \in 1..n : q[a] = q[b] => a = b }
Begin == <<Str("architecture", 5, 1), Of("embedding_length", 4, 8), Of("head_count", 4, 4)>>
Plain == Begin \o <<Of("block_count", 4, 2), Arr("tokens", TString, 2, 1, 20)>>

T(name, layer, type) == [name |-> name, layer |-> layer, type |-> type, shape |-> <<8, 12>>]
Tensors ==
    { T("token_embd", -1, 12), [T("output", -1, 14) EXCEPT !.shape = <<12, 8>>],
      T("attn_q", 0, 12), T("attn_norm", 1, 0), T("ffn_norm", 1, 1), T("attn_q_norm", 1, 1),
      T("attn_q", 2, 12), T("other", 0, 0), T("output_norm", -1, 0) }
Flat == << [T("token_embd", -1, 12) EXCEPT !.shape = <<8, 0>>] >>
Swapped == << [T("token_embd", -1, 12) EXCEPT !.shape = <<12, 8>>], T("attn_q", 0, 12) >>

MCFiles ==
    { [magic |-> TRUE, meta |-> Begin \o q, tensors |-> Swapped] :
        q \in UNION { Orders(Entries, n) : n \in 0..3 } }
    \cup { [magic |-> TRUE, meta |-> q, tensors |-> Swapped] :
        q \in UNION { Orders(Entries, n) : n \in 0..2 } }
    \cup { [magic |-> TRUE, meta |-> Begin \o q, tensors |-> Flat] :
        q \in UNION { Orders(Entries, n) : n \in 0..1 } }
    \cup { [magic |-> m, meta |-> Plain, tensors |-> q] :
        m \in BOOLEAN, q \in UNION { Orders(Tensors, n) : n \in 0..4 } }
=============================================================================
