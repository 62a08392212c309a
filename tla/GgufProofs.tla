----------------------------- MODULE GgufProofs -----------------------------
(***************************************************************************)
(* Proofs about Gguf for every set of files: any number of metadata and    *)
(* tensors, of any types and in any order.                                 *)
(*                                                                         *)
(* The three readers are loops over a sequence, and the argument is the    *)
(* same for each: where the reader is `at', it holds what the places       *)
(* before `at' give.  For that the reader must be at the beginning of an   *)
(* entry, which is a lemma on the sizes it skips (SkipExactRight,          *)
(* SkipTokensRight, SkipConfigRight).  load_gguf_config does get lost; the *)
(* invariant Taking then says that it has what is visible and takes no     *)
(* more.                                                                   *)
(***************************************************************************)
EXTENDS Gguf, WellFoundedInduction, TLAPS

\* The least element of a nonempty set of numbers is one of them.
LEMMA LeastNat ==
    ASSUME NEW S, S \subseteq Nat, S # {}
    PROVE  Min(S) \in S /\ \A y \in S : Min(S) <= y
<1>1. \E x \in S : \A y \in S : ~(<<y, x>> \in OpToRel(<, Nat))
  BY NatLessThanWellFounded, WFMin, Zenon
<1>2. PICK x \in S : \A y \in S : ~(y < x)
  BY <1>1, Zenon DEF OpToRel
<1>3. \A y \in S : x <= y
  BY <1>2
<1> QED
  BY <1>3 DEF Min

-----------------------------------------------------------------------------
(* Types.                                                                  *)

Place == {"config", "skip", "vocab", "map", "tokens", "failed", "done"}

Typing ==
    /\ file \in Files
    /\ pc \in Place /\ ret \in {"vocab", "map"}
    /\ at \in Nat /\ at >= 1
    /\ lost \in {"no", "noise", "end"}
    /\ cfg \in [ConfigField -> Nat]
    /\ infos \in Seq(TensorInfo)
    /\ tok \in [TokField -> Nat]

LEMMA FileType ==
    ASSUME file \in Files
    PROVE  /\ N \in Nat /\ \A j \in 1..N : meta[j] \in Entry
           /\ file.tensors \in Seq(TensorInfo) /\ file.magic \in BOOLEAN
<1>1. file \in [magic : BOOLEAN, meta : Seq(Entry), tensors : Seq(TensorInfo)]
  BY FilesAssumption
<1>2. file.meta \in Seq(Entry) /\ file.tensors \in Seq(TensorInfo) /\ file.magic \in BOOLEAN
  BY <1>1
<1> QED
  BY <1>2 DEF N, meta

LEMMA TypingInit == Init => Typing
BY DEF Init, Typing, Place, ConfigField, TokField

LEMMA TypingConfig ==
    ASSUME Typing, ConfigEntry \/ ConfigLost \/ ConfigDefaults
    PROVE  Typing'
<1>1. CASE ConfigEntry
  <2>1. at \in 1..N /\ E \in Entry
    BY <1>1, FileType DEF Typing, ConfigEntry, E
  <2>2. E.val \in Nat
    BY <2>1 DEF Entry
  <2>3. cfg' \in [ConfigField -> Nat]
    BY <1>1, <2>2 DEF Typing, ConfigEntry
  <2> QED
    BY <1>1, <2>3 DEF Typing, ConfigEntry, Strays, Place
<1>2. CASE ConfigLost
  <2>1. cfg' \in [ConfigField -> Nat]
    BY <1>2, FilesAssumption DEF Typing, ConfigLost
  <2> QED
    BY <1>2, <2>1 DEF Typing, ConfigLost, Place
<1>3. CASE ConfigDefaults
  <2>1. /\ cfg["n_heads"] \in Nat /\ cfg["hidden_dim"] \in Nat
        /\ cfg \in [ConfigField -> Nat]
    BY DEF Typing, ConfigField
  <2> DEFINE d == IF cfg["n_heads"] > 0 /\ cfg["hidden_dim"] > 0
                  THEN cfg["hidden_dim"] \div cfg["n_heads"] ELSE 0
  <2>2. d \in Nat
    BY <2>1
  <2> HIDE DEF d
  <2>3. cfg' = [cfg EXCEPT !["head_dim"] = Default(@, d),
                           !["rope_theta"] = Default(@, 10000),
                           !["max_seq_len"] = Default(@, 2048),
                           !["n_kv_heads"] = Default(@, cfg["n_heads"])]
    BY <1>3 DEF ConfigDefaults, d
  <2>4. cfg' \in [ConfigField -> Nat]
    BY <2>1, <2>2, <2>3 DEF Default, ConfigField
  <2>5. /\ pc' = "skip" /\ at' = 1 /\ lost' = "no" /\ ret' \in {"vocab", "map"}
        /\ UNCHANGED <<file, infos, tok>>
    BY <1>3 DEF ConfigDefaults, Goto
  <2> QED
    BY <2>4, <2>5 DEF Typing, Place
<1> QED
  BY <1>1, <1>2, <1>3

\* The number of rows that a shape of two dimensions stands for.
RowsOf(s, h) == IF s[1] = h THEN s[2] ELSE IF s[2] = h THEN s[1] ELSE Max({s[1], s[2]})

LEMMA RowsType ==
    ASSUME NEW s \in (Nat \ {0}) \X Nat, NEW h
    PROVE  RowsOf(s, h) \in Nat
<1>1. s[1] \in Nat /\ s[2] \in Nat
  OBVIOUS
<1>2. Max({s[1], s[2]}) \in {s[1], s[2]}
  <2>1. \E x \in {s[1], s[2]} : \A y \in {s[1], s[2]} : x >= y
    <3>1. CASE s[1] >= s[2]
      BY <1>1, <3>1
    <3>2. CASE s[2] >= s[1]
      BY <1>1, <3>2
    <3> QED
      BY <1>1, <3>1, <3>2
  <2> QED
    BY <2>1 DEF Max
<1> QED
  BY <1>1, <1>2 DEF RowsOf

\* What DeriveVocab makes of the tensor infos.
Embeddings == { j \in DOMAIN infos : infos[j].name = "token_embd" }

Derivation ==
    Default(IF Embeddings = {} THEN 0
            ELSE RowsOf(infos[Min(Embeddings)].shape, cfg["hidden_dim"]), 32000)

LEMMA Derived ==
    ASSUME infos \in Seq(TensorInfo)
    PROVE  /\ Derivation \in Nat \ {0}
           /\ \/ Embeddings = {} /\ Derivation = 32000
              \/ \E j \in Embeddings :
                   Derivation = Default(RowsOf(infos[j].shape, cfg["hidden_dim"]), 32000)
<1> DEFINE m == Min(Embeddings)
           r == RowsOf(infos[m].shape, cfg["hidden_dim"])
<1>1. CASE Embeddings = {}
  BY <1>1 DEF Default, Derivation
<1>2. CASE Embeddings # {}
  <2>1. m \in Embeddings
    <3>1. Embeddings \subseteq Nat
      BY DEF Embeddings
    <3> QED
      BY <1>2, <3>1, LeastNat
  <2>2. Derivation = Default(r, 32000)
    BY <1>2 DEF Derivation
  <2> HIDE DEF m
  <2>3. infos[m] \in TensorInfo
    BY <2>1 DEF Embeddings
  <2>4. infos[m].shape \in (Nat \ {0}) \X Nat
    BY <2>3 DEF TensorInfo
  <2>5. r \in Nat
    BY <2>4, RowsType
  <2>6. Derivation \in Nat \ {0}
    BY <2>2, <2>5 DEF Default
  <2>7. \E j \in Embeddings :
          Derivation = Default(RowsOf(infos[j].shape, cfg["hidden_dim"]), 32000)
    BY <2>1, <2>2
  <2> QED
    BY <2>6, <2>7
<1> QED
  BY <1>1, <1>2

LEMMA DeriveVocabIs ==
    ASSUME DeriveVocab
    PROVE  /\ cfg' = [cfg EXCEPT !["vocab_size"] = Derivation]
           /\ pc = "vocab" /\ pc' = "skip" /\ at' = 1 /\ lost' = "no" /\ ret' = "map"
           /\ UNCHANGED <<file, infos, ptr, types, tok>>
<1>1. cfg' = [cfg EXCEPT !["vocab_size"] = Derivation]
  BY DEF DeriveVocab, RowsOf, Embeddings, Derivation
<1>2. /\ pc = "vocab" /\ pc' = "skip" /\ at' = 1 /\ lost' = "no" /\ ret' = "map"
      /\ UNCHANGED <<file, infos, ptr, types, tok>>
  BY DEF DeriveVocab, Goto
<1> QED
  BY <1>1, <1>2

LEMMA TypingRest ==
    ASSUME Typing,
           BadMagic \/ DeriveVocab \/ SkipEntry \/ ReadInfos \/ MapTensor
             \/ TieOutput \/ TokenEntry \/ TokensDone
    PROVE  Typing'
<1>1. CASE BadMagic
  BY <1>1 DEF Typing, BadMagic, Goto, Place
<1>2. CASE DeriveVocab
  <2>1. cfg' = [cfg EXCEPT !["vocab_size"] = Derivation] /\ Derivation \in Nat
    BY <1>2, Derived, DeriveVocabIs DEF Typing
  <2>2. cfg' \in [ConfigField -> Nat]
    BY <2>1 DEF Typing
  <2>3. /\ pc' = "skip" /\ at' = 1 /\ lost' = "no" /\ ret' = "map"
        /\ UNCHANGED <<file, infos, tok>>
    BY <1>2, DeriveVocabIs
  <2> QED
    BY <2>2, <2>3 DEF Typing, Place
<1>3. CASE SkipEntry
  BY <1>3 DEF Typing, SkipEntry, Place
<1>4. CASE ReadInfos
  <2>1. file.tensors \in Seq(TensorInfo)
    BY FileType DEF Typing
  <2> DEFINE noise == [name |-> "other", layer |-> -1, type |-> 0, shape |-> <<1, 1>>]
             n == Len(file.tensors)
  <2>2. noise \in TensorInfo
    <3>1. <<1, 1>> \in (Nat \ {0}) \X Nat /\ -1 \in Int
      OBVIOUS
    <3>2. noise \in [name : LayerField \cup Global \cup {"other"}, layer : Int,
                    type : Nat, shape : (Nat \ {0}) \X Nat]
      BY <3>1
    <3> QED
      BY <3>2 DEF TensorInfo
  <2>3. DOMAIN file.tensors = 1..n /\ n \in Nat
    BY <2>1
  <2>4. [j \in 1..n |-> noise] \in Seq(TensorInfo)
    BY <2>2, <2>3
  <2>5. infos' \in Seq(TensorInfo)
    BY <1>4, <2>1, <2>3, <2>4 DEF ReadInfos
  <2> HIDE DEF n, noise
  <2> QED
    BY <1>4, <2>5 DEF Typing, ReadInfos, Goto, Place
<1>5. CASE MapTensor
  <2>1. UNCHANGED <<file, pc, ret, lost, cfg, infos, tok>> /\ at' = at + 1
    BY <1>5 DEF MapTensor
  <2> QED
    BY <2>1 DEF Typing
<1>6. CASE TieOutput
  <2>1. UNCHANGED <<file, ret, cfg, infos, tok>> /\ pc' \in Place /\ at' = 1 /\ lost' = "no"
    BY <1>6 DEF TieOutput, Goto, Place
  <2> QED
    BY <2>1 DEF Typing
<1>7. CASE TokenEntry
  <2>1. at \in 1..N /\ E \in Entry
    BY <1>7, FileType DEF Typing, TokenEntry, E
  <2>2. E.val \in Nat
    BY <2>1 DEF Entry
  <2>3. tok' \in [TokField -> Nat]
    BY <1>7, <2>2, FilesAssumption DEF Typing, TokenEntry
  <2> QED
    BY <1>7, <2>3 DEF Typing, TokenEntry, Place
<1>8. CASE TokensDone
  BY <1>8 DEF Typing, TokensDone, Place
<1> QED
  BY <1>1, <1>2, <1>3, <1>4, <1>5, <1>6, <1>7, <1>8

LEMMA TypingStep == Typing /\ [Next]_vars => Typing'
<1>1. ASSUME Typing, UNCHANGED vars PROVE Typing'
  BY <1>1 DEF vars, Typing
<1> QED
  BY <1>1, TypingConfig, TypingRest DEF Next

-----------------------------------------------------------------------------
(* The sizes that the readers skip.                                        *)

LEMMA ScalarSize ==
    ASSUME NEW t \in Type, t # TString, t # TArray
    PROVE  gguf_scalar_size(t) = TypeBytes(t)
BY DEF Type, TString, TArray, gguf_scalar_size, TypeBytes, Bytes1, Bytes2, Bytes4

\* The size of an element of an array, in the file and to a reader.
LEMMA SkipExactRight ==
    ASSUME NEW e \in Entry, ~NestedArray(e)
    PROVE  SkipExact(e) = ValueBytes(e)
<1>1. e.type \in Type /\ e.etype \in Type /\ e.n \in Nat /\ e.bytes \in Nat
  BY DEF Entry
<1>2. CASE e.type = TString
  BY <1>2 DEF SkipExact, ValueBytes, TString, TArray
<1>3. CASE e.type = TArray
  <2>0. TString # TArray
    BY DEF TString, TArray
  <2>1. CASE e.etype = TString
    BY <1>3, <2>0, <2>1 DEF SkipExact, ValueBytes
  <2>2. CASE e.etype = TArray
    <3>1. e.n = 0
      BY <1>1, <1>3, <2>2 DEF NestedArray
    <3>2. SkipExact(e) = 12 + e.n * 8 /\ ValueBytes(e) = 12 + e.n * (12 + e.bytes)
      BY <1>3, <2>0, <2>2 DEF SkipExact, ValueBytes
    <3>3. e.n * 8 = 0 /\ e.n * (12 + e.bytes) = 0
      BY <1>1, <3>1
    <3> QED
      BY <3>2, <3>3
  <2>3. CASE e.etype # TString /\ e.etype # TArray
    BY <1>1, <1>3, <2>0, <2>3, ScalarSize DEF SkipExact, ValueBytes
  <2> QED
    BY <2>1, <2>2, <2>3
<1>4. CASE e.type # TString /\ e.type # TArray
  BY <1>1, <1>4, ScalarSize DEF SkipExact, ValueBytes
<1> QED
  BY <1>2, <1>3, <1>4

LEMMA SkipTokensRight ==
    ASSUME NEW e \in Entry, Passable(e)
    PROVE  SkipTokens(e) = ValueBytes(e)
<1>1. /\ e.type \in Type /\ e.etype \in Type /\ e.n \in Nat /\ e.bytes \in Nat
      /\ e.len # "huge" /\ TString # TArray
  BY DEF Entry, Passable, TString, TArray
<1>2. CASE e.type = TString
  BY <1>1, <1>2 DEF SkipTokens, ValueBytes
<1>3. CASE e.type = TArray
  <2> DEFINE a == IF e.etype = TString \/ TokName(e) # "none" THEN 8 + e.bytes ELSE 4
             b == CASE e.etype = TString -> 8 + e.bytes
                    [] e.etype = TArray -> 12 + e.bytes
                    [] OTHER -> TypeBytes(e.etype)
  <2>1. SkipTokens(e) = 12 + e.n * a
    BY <1>1, <1>3 DEF SkipTokens
  <2>2. ValueBytes(e) = 12 + e.n * b
    BY <1>1, <1>3 DEF ValueBytes
  <2>3. CASE e.n = 0
    <3>1. a \in Nat /\ b \in Nat
      BY <1>1 DEF TypeBytes
    <3> HIDE DEF a, b
    <3>2. e.n * a = 0 /\ e.n * b = 0
      BY <2>3, <3>1
    <3> QED
      BY <2>1, <2>2, <3>2
  <2>4. CASE e.n # 0
    <3>1. e.n > 0
      BY <1>1, <2>4
    <3>2. e.etype = TString \/ (e.etype \in Bytes4 /\ TokName(e) = "none")
      BY <1>3, <3>1 DEF Passable
    <3>3. a = b
      BY <1>1, <3>2 DEF TypeBytes, Bytes1, Bytes2, Bytes4, TString, TArray
    <3> HIDE DEF a, b
    <3> QED
      BY <2>1, <2>2, <3>3
  <2> QED
    BY <2>3, <2>4
<1>4. CASE e.type # TString /\ e.type # TArray
  BY <1>1, <1>4, ScalarSize DEF SkipTokens, ValueBytes
<1> QED
  BY <1>2, <1>3, <1>4

-----------------------------------------------------------------------------
(* parse_tensor_infos.                                                     *)

\* It is never lost in a file without nested arrays.
Infos == Unnested => /\ pc = "skip" => lost = "no"
                     /\ pc \in {"vocab", "map"} => infos = file.tensors

LEMMA SameFile ==
    ASSUME file' = file
    PROVE  /\ N' = N /\ meta' = meta /\ Unnested' = Unnested
BY DEF N, meta, Unnested

LEMMA FileKept == [Next]_vars => file' = file
BY DEF Next, vars, BadMagic, ConfigEntry, ConfigLost, ConfigDefaults, DeriveVocab,
       SkipEntry, ReadInfos, MapTensor, TieOutput, TokenEntry, TokensDone

LEMMA InfosInit == Init => Infos
BY DEF Init, Infos

LEMMA InfosStep == Typing /\ Infos /\ [Next]_vars => Infos'
<1> SUFFICES ASSUME Typing, Infos, [Next]_vars, Unnested PROVE Infos'
  BY FileKept, SameFile DEF Infos
<1>1. ASSUME SkipEntry PROVE Infos'
  <2>1. at \in 1..N /\ E \in Entry /\ ~NestedArray(E)
    BY <1>1, FileType DEF Typing, SkipEntry, E, Unnested
  <2>2. SkipExact(E) = ValueBytes(E)
    BY <2>1, SkipExactRight
  <2> QED
    BY <1>1, <2>2 DEF SkipEntry, Infos
<1>2. ASSUME ReadInfos PROVE Infos'
  <2>1. pc = "skip" /\ lost = "no" /\ pc' = ret /\ lost' = "no" /\ file' = file
    BY <1>2 DEF ReadInfos, Goto, Infos
  <2>2. infos' = file.tensors
    BY <1>2, <2>1 DEF ReadInfos
  <2> QED
    BY <2>1, <2>2 DEF Infos
<1>3. ASSUME BadMagic PROVE Infos'
  BY <1>3 DEF BadMagic, Goto, Infos
<1>4. ASSUME ConfigEntry \/ ConfigLost PROVE Infos'
  <2>1. pc' = "config"
    BY <1>4 DEF ConfigEntry, ConfigLost
  <2> QED
    BY <2>1 DEF Infos
<1>5. ASSUME ConfigDefaults PROVE Infos'
  <2>1. pc' = "skip" /\ lost' = "no"
    BY <1>5 DEF ConfigDefaults, Goto
  <2> QED
    BY <2>1 DEF Infos
<1>6. ASSUME DeriveVocab PROVE Infos'
  <2>1. pc' = "skip" /\ lost' = "no"
    BY <1>6, DeriveVocabIs
  <2> QED
    BY <2>1 DEF Infos
<1>7. ASSUME MapTensor PROVE Infos'
  <2>1. UNCHANGED <<file, pc, infos>> /\ pc = "map"
    BY <1>7 DEF MapTensor
  <2> QED
    BY <2>1 DEF Infos
<1>8. ASSUME TieOutput PROVE Infos'
  <2>1. pc' \in {"tokens", "failed"}
    BY <1>8 DEF TieOutput, Goto
  <2> QED
    BY <2>1 DEF Infos
<1>9. ASSUME TokenEntry \/ TokensDone PROVE Infos'
  <2>1. pc' \in {"tokens", "done"}
    BY <1>9 DEF TokenEntry, TokensDone
  <2> QED
    BY <2>1 DEF Infos
<1>10. ASSUME UNCHANGED vars PROVE Infos'
  BY <1>10 DEF vars, Infos
<1> QED
  BY <1>1, <1>2, <1>3, <1>4, <1>5, <1>6, <1>7, <1>8, <1>9, <1>10 DEF Next

-----------------------------------------------------------------------------
(* load_from_gguf.                                                         *)

Readable == file.magic /\ \A j \in 1..N : Passable(meta[j])
HeldBefore(x) == HeldIn(1..(at - 1), x)
Nothing == [x \in TokField |-> 0]

\* What has been read is what the entries passed so far hold.
Tokens ==
    Readable =>
        /\ pc \notin {"tokens", "done"} => tok = Nothing
        /\ pc = "tokens" => /\ lost = "no" /\ at <= N + 1
                            /\ \A x \in TokField : tok[x] \in OrElse(HeldBefore(x), 0)
        /\ pc = "done" => \A x \in TokField : tok[x] \in OrElse(HeldIn(1..N, x), 0)

LEMMA TokensInit == Init => Tokens
BY DEF Init, Tokens, Nothing

LEMMA SameReadable == ASSUME file' = file PROVE Readable' = Readable
BY DEF meta, Readable, N

\* One more entry.
LEMMA HeldGrows ==
    ASSUME Typing, at <= N, NEW x
    PROVE  HeldIn(1..at, x) =
             HeldBefore(x) \cup
               (IF E.len = "short" /\ TokName(E) = x THEN {E.val} ELSE {})
<1>1. 1..at = 1..(at - 1) \cup {at}
  BY DEF Typing
<1> QED
  BY <1>1 DEF HeldIn, HeldBefore, E

LEMMA TokenEntryStep ==
    ASSUME Typing, Tokens, Readable, TokenEntry
    PROVE  Tokens'
<1>1. /\ at \in Nat /\ at >= 1 /\ at \in 1..N /\ E \in Entry /\ Passable(E)
  BY FileType DEF Typing, TokenEntry, E, Readable
<1>2. /\ pc = "tokens" /\ lost = "no"
      /\ \A x \in TokField : tok[x] \in OrElse(HeldBefore(x), 0)
  BY DEF Tokens, TokenEntry
<1>3. SkipTokens(E) = ValueBytes(E)
  BY <1>1, SkipTokensRight
<1>4. /\ lost' = "no" /\ at' = at + 1 /\ pc' = "tokens" /\ file' = file
      /\ tok' = [x \in TokField |-> IF E.len = "short" /\ x = TokName(E) THEN E.val ELSE tok[x]]
  BY <1>2, <1>3 DEF TokenEntry
<1>5. at' <= N' + 1 /\ at' - 1 = at
  BY <1>1, <1>4, FileType, SameFile DEF Typing
<1>6. ASSUME NEW x \in TokField
      PROVE  tok'[x] \in OrElse(HeldIn(1..at, x), 0)
  <2> DEFINE H == HeldBefore(x)
             hit == E.len = "short" /\ x = TokName(E)
  <2>1. HeldIn(1..at, x) = H \cup (IF hit THEN {E.val} ELSE {})
    BY <1>1, HeldGrows
  <2>2. tok[x] \in OrElse(H, 0) /\ tok'[x] = IF hit THEN E.val ELSE tok[x]
    BY <1>2, <1>4
  <2> HIDE DEF H, hit
  <2> QED
    BY <2>1, <2>2 DEF OrElse
<1>7. ASSUME NEW x \in TokField
      PROVE  HeldBefore(x)' = HeldIn(1..at, x)
  BY <1>4, <1>5 DEF HeldBefore, HeldIn, meta
<1>8. \A x \in TokField : tok'[x] \in OrElse(HeldBefore(x)', 0)
  BY <1>6, <1>7
<1>9. \A x \in TokField : (tok[x] \in OrElse(HeldBefore(x), 0))'
  BY <1>8 DEF OrElse
<1> QED
  BY <1>4, <1>5, <1>9 DEF Tokens

LEMMA TokensStep == Typing /\ Tokens /\ [Next]_vars => Tokens'
<1> SUFFICES ASSUME Typing, Tokens, [Next]_vars, Readable PROVE Tokens'
  BY FileKept, SameReadable DEF Tokens
<1>0. file' = file /\ N' = N
  BY FileKept, SameFile
<1>1. ASSUME pc \notin {"tokens", "done"}, pc' \notin {"tokens", "done"}, tok' = tok
      PROVE  Tokens'
  BY <1>1 DEF Tokens, Nothing
<1>2. ASSUME TieOutput PROVE Tokens'
  <2>1. /\ pc = "map" /\ pc' \in {"tokens", "failed"} /\ at' = 1 /\ lost' = "no"
        /\ tok' = tok
    BY <1>2 DEF TieOutput, Goto
  <2>2. tok' = Nothing
    BY <2>1 DEF Tokens
  <2>3. \A x \in TokField : HeldBefore(x)' = {}
    BY <2>1 DEF HeldBefore, HeldIn
  <2>4. \A x \in TokField : (tok[x] \in OrElse(HeldBefore(x), 0))'
    BY <2>2, <2>3 DEF OrElse, Nothing
  <2>5. 1 <= N' + 1
    BY <1>0, FileType DEF Typing
  <2> QED
    BY <2>1, <2>2, <2>4, <2>5 DEF Tokens, Nothing
<1>3. ASSUME TokensDone PROVE Tokens'
  <2>1. pc = "tokens" /\ at > N /\ pc' = "done" /\ tok' = tok
    BY <1>3 DEF TokensDone, Readable
  <2>2. at - 1 = N
    BY <2>1, FileType DEF Tokens, Typing
  <2>3. \A x \in TokField : tok[x] \in OrElse(HeldIn(1..N, x), 0)
    BY <2>1, <2>2 DEF Tokens, HeldBefore
  <2>4. \A x \in TokField : HeldIn(1..N, x)' = HeldIn(1..N, x)
    BY <1>0 DEF HeldIn, meta
  <2>5. \A x \in TokField : (tok[x] \in OrElse(HeldIn(1..N, x), 0))'
    BY <2>1, <2>3, <2>4 DEF OrElse
  <2> QED
    BY <2>1, <2>5 DEF Tokens
<1>4. ASSUME BadMagic PROVE Tokens'
  BY <1>1, <1>4 DEF BadMagic, Goto
<1>5. ASSUME ConfigEntry PROVE Tokens'
  BY <1>1, <1>5 DEF ConfigEntry
<1>6. ASSUME ConfigLost PROVE Tokens'
  BY <1>1, <1>6 DEF ConfigLost
<1>7. ASSUME ConfigDefaults PROVE Tokens'
  BY <1>1, <1>7 DEF ConfigDefaults, Goto
<1>8. ASSUME DeriveVocab PROVE Tokens'
  BY <1>1, <1>8, DeriveVocabIs
<1>9. ASSUME SkipEntry PROVE Tokens'
  BY <1>1, <1>9 DEF SkipEntry
<1>10. ASSUME ReadInfos PROVE Tokens'
  BY <1>1, <1>10 DEF ReadInfos, Goto, Typing
<1>11. ASSUME MapTensor PROVE Tokens'
  <2>1. pc = "map" /\ pc' = pc /\ tok' = tok
    BY <1>11 DEF MapTensor
  <2> QED
    BY <1>1, <2>1
<1>12. ASSUME UNCHANGED vars PROVE Tokens'
  <2>1. \A x \in TokField : HeldIn(1..N, x)' = HeldIn(1..N, x) /\ HeldBefore(x)' = HeldBefore(x)
    BY <1>0, <1>12 DEF HeldIn, HeldBefore, meta, vars
  <2> QED
    BY <1>0, <1>12, <2>1 DEF vars, Tokens, OrElse, Nothing
<1> QED
  BY <1>2, <1>3, <1>4, <1>5, <1>6, <1>7, <1>8, <1>9, <1>10, <1>11, <1>12, TokenEntryStep
     DEF Next

LEMMA TokensImply == Tokens => TokensExact
BY DEF Tokens, TokensExact, Readable

-----------------------------------------------------------------------------
(* load_and_map_weights.                                                   *)

PtrDomain == ({-1} \X Global) \cup (Layers \X LayerField)
TypeDomain == ({-1} \X {"embd", "output"}) \cup (Layers \X {"rms", "qk"})

\* The tensor in work has this name in this layer.
Matches(l, x) == I.name = x /\ I.layer = l

\* The tensors before the one in work.
Before(l, x) == NamedIn(1..(at - 1), l, x)

LEMMA Flags == Flag["rms"] = RmsNorms /\ Flag["qk"] = QKNorms
BY DEF Flag

LEMMA NamesDiffer ==
    /\ RmsNorms \subseteq LayerField /\ QKNorms \subseteq LayerField
    /\ RmsNorms \cap QKNorms = {} /\ LayerField \cap Global = {}
BY DEF LayerField, Matrices, RmsNorms, QKNorms, Global

LEMMA LayersNat ==
    ASSUME Typing
    PROVE  -1 \notin Layers /\ Layers \subseteq Nat
<1>1. cfg["n_layers"] \in Nat
  BY DEF Typing, ConfigField
<1> QED
  BY <1>1 DEF Layers

\* What one turn of the loop does to every field.
MapsOne ==
    /\ \A l \in Layers, x \in LayerField :
         ptr'[<<l, x>>] = IF Matches(l, x) THEN at ELSE ptr[<<l, x>>]
    /\ \A x \in Global : ptr'[<<-1, x>>] = IF Matches(-1, x) THEN at ELSE ptr[<<-1, x>>]
    /\ \A l \in Layers, flag \in {"rms", "qk"} :
         types'[<<l, flag>>] = IF I.layer = l /\ I.name \in Flag[flag]
                               THEN F32orF16(I.type) ELSE types[<<l, flag>>]
    /\ types'[<<-1, "embd">>] = IF Matches(-1, "token_embd") THEN I.type ELSE types[<<-1, "embd">>]
    /\ types'[<<-1, "output">>] = IF Matches(-1, "output") THEN I.type ELSE types[<<-1, "output">>]
    /\ ptr' \in [PtrDomain -> Nat] /\ types' \in [TypeDomain -> Nat]

LEMMA MapTensorIs ==
    ASSUME Typing, MapTensor, ptr \in [PtrDomain -> Nat], types \in [TypeDomain -> Nat]
    PROVE  MapsOne
<1>1. /\ at \in Nat /\ I \in TensorInfo /\ -1 \notin Layers
  <2>1. at \in 1..Len(infos)
    BY DEF Typing, MapTensor
  <2> QED
    BY <2>1, LayersNat DEF Typing, I
<1>2. /\ I.name \in Global => I.layer = -1
      /\ I.type \in Nat /\ F32orF16(I.type) \in Nat
  BY <1>1 DEF TensorInfo, F32orF16
<1> DEFINE y == I.name
           m == I.layer
           t == I.type
           f == F32orF16(t)
<1>3. CASE m \in Layers /\ y \in LayerField
  <2>1. /\ ptr' = [ptr EXCEPT ![<<m, y>>] = at]
        /\ types' = CASE y \in RmsNorms -> [types EXCEPT ![<<m, "rms">>] = f]
                      [] y \in QKNorms -> [types EXCEPT ![<<m, "qk">>] = f]
                      [] OTHER -> types
    BY <1>3 DEF MapTensor, InLayer
  <2> HIDE DEF y, m, t, f
  <2>2. y \notin Global
    BY <1>3, NamesDiffer
  <2>3. ptr' \in [PtrDomain -> Nat] /\ types' \in [TypeDomain -> Nat]
    BY <1>1, <1>2, <1>3, <2>1 DEF PtrDomain, TypeDomain, f, t
  <2>4. \A l \in Layers, x \in LayerField :
          ptr'[<<l, x>>] = IF y = x /\ m = l THEN at ELSE ptr[<<l, x>>]
    BY <2>1 DEF PtrDomain
  <2>5. \A x \in Global : ptr'[<<-1, x>>] = ptr[<<-1, x>>] /\ y # x
    BY <1>1, <1>3, <2>1, <2>2 DEF PtrDomain
  <2>6. \A l \in Layers, flag \in {"rms", "qk"} :
          types'[<<l, flag>>] = IF m = l /\ y \in Flag[flag] THEN f ELSE types[<<l, flag>>]
    BY <1>3, <2>1, Flags, NamesDiffer DEF TypeDomain
  <2>7. /\ types'[<<-1, "embd">>] = types[<<-1, "embd">>]
        /\ types'[<<-1, "output">>] = types[<<-1, "output">>]
    BY <1>1, <1>3, <2>1 DEF TypeDomain
  <2>8. "token_embd" \in Global /\ "output" \in Global
    BY DEF Global
  <2> QED
    BY <2>3, <2>4, <2>5, <2>6, <2>7, <2>8 DEF MapsOne, Matches, y, m, t, f
<1>4. CASE m \notin Layers /\ y \in Global
  <2>1. /\ ptr' = [ptr EXCEPT ![<<-1, y>>] = at] /\ m = -1
        /\ types' = CASE y = "token_embd" -> [types EXCEPT ![<<-1, "embd">>] = t]
                      [] y = "output" -> [types EXCEPT ![<<-1, "output">>] = t]
                      [] OTHER -> types
    BY <1>2, <1>4 DEF MapTensor, InLayer, G
  <2>2. y \notin LayerField
    BY <1>4, NamesDiffer
  <2> HIDE DEF y, m, t, f
  <2>3. ptr' \in [PtrDomain -> Nat] /\ types' \in [TypeDomain -> Nat]
    BY <1>1, <1>2, <1>4, <2>1 DEF PtrDomain, TypeDomain, t
  <2>4. \A l \in Layers, x \in LayerField : ptr'[<<l, x>>] = ptr[<<l, x>>] /\ y # x
    BY <1>1, <2>1, <2>2 DEF PtrDomain
  <2>5. \A x \in Global : ptr'[<<-1, x>>] = IF y = x THEN at ELSE ptr[<<-1, x>>]
    BY <2>1 DEF PtrDomain
  <2>6. \A l \in Layers, flag \in {"rms", "qk"} :
          types'[<<l, flag>>] = types[<<l, flag>>] /\ y \notin Flag[flag]
    BY <1>1, <2>1, <2>2, Flags, NamesDiffer DEF TypeDomain
  <2>7. /\ types'[<<-1, "embd">>] = IF y = "token_embd" THEN t ELSE types[<<-1, "embd">>]
        /\ types'[<<-1, "output">>] = IF y = "output" THEN t ELSE types[<<-1, "output">>]
    BY <2>1 DEF TypeDomain
  <2> QED
    BY <2>1, <2>3, <2>4, <2>5, <2>6, <2>7 DEF MapsOne, Matches, y, m, t, f
<1>5. CASE ~(m \in Layers /\ y \in LayerField) /\ ~(m \notin Layers /\ y \in Global)
  <2>1. ptr' = ptr /\ types' = types
    BY <1>5 DEF MapTensor, InLayer
  <2>2. \A l \in Layers, x \in LayerField : ~(y = x /\ m = l)
    BY <1>5
  <2>3. \A x \in Global : ~(y = x /\ m = -1)
    BY <1>1, <1>5
  <2>4. \A l \in Layers, flag \in {"rms", "qk"} : ~(m = l /\ y \in Flag[flag])
    BY <1>5, Flags, NamesDiffer
  <2>5. "token_embd" \in Global /\ "output" \in Global
    BY DEF Global
  <2> QED
    BY <2>1, <2>2, <2>3, <2>4, <2>5 DEF MapsOne, Matches
<1> QED
  BY <1>3, <1>4, <1>5

LEMMA NamedGrows ==
    ASSUME Typing, infos = file.tensors, at <= Len(infos), NEW l, NEW x
    PROVE  NamedIn(1..at, l, x) = Before(l, x) \cup (IF Matches(l, x) THEN {at} ELSE {})
<1>1. 1..at = 1..(at - 1) \cup {at}
  BY DEF Typing
<1> QED
  BY <1>1 DEF NamedIn, Before, Matches, I

\* After the tensors before the one in work.
MappedBefore ==
    /\ ptr \in [PtrDomain -> Nat] /\ types \in [TypeDomain -> Nat]
    /\ at <= Len(infos) + 1
    /\ \A l \in Layers, x \in LayerField : ptr[<<l, x>>] \in OrElse(Before(l, x), 0)
    /\ \A x \in Global : ptr[<<-1, x>>] \in OrElse(Before(-1, x), 0)
    /\ \A l \in Layers, flag \in {"rms", "qk"} : Agree(l, flag) =>
         \A x \in Flag[flag] : \A j \in Before(l, x) : types[<<l, flag>>] = IsF16(j)
    /\ ptr[<<-1, "token_embd">>] # 0 =>
         types[<<-1, "embd">>] = file.tensors[ptr[<<-1, "token_embd">>]].type
    /\ ptr[<<-1, "output">>] # 0 =>
         types[<<-1, "output">>] = file.tensors[ptr[<<-1, "output">>]].type

Weights == Unnested => (pc = "map" => MappedBefore) /\ WeightsExact

LEMMA SameNamed ==
    ASSUME file' = file, cfg' = cfg
    PROVE  /\ Layers' = Layers /\ PtrDomain' = PtrDomain /\ TypeDomain' = TypeDomain
           /\ \A l, x : Named(l, x)' = Named(l, x)
           /\ \A l : \A flag : Agree(l, flag)' = Agree(l, flag)
           /\ \A j : IsF16(j)' = IsF16(j)
<1>1. \A l, x : Named(l, x)' = Named(l, x)
  BY DEF Named, NamedIn
<1>2. \A j : IsF16(j)' = IsF16(j)
  BY DEF IsF16
<1>3. \A l : \A flag : Agree(l, flag)' = Agree(l, flag)
  BY <1>1, <1>2 DEF Agree
<1> QED
  BY <1>1, <1>2, <1>3 DEF Layers, PtrDomain, TypeDomain

LEMMA WeightsInit == Init => Weights
BY DEF Init, Weights, WeightsExact, ReadingDone

LEMMA BeginMapping ==
    ASSUME Typing, ReadInfos
    PROVE  MappedBefore'
<1>1. /\ ptr' = [x \in PtrDomain |-> 0] /\ types' = [x \in TypeDomain |-> 0]
      /\ at' = 1 /\ file' = file /\ cfg' = cfg
  BY DEF ReadInfos, Goto, PtrDomain, TypeDomain
<1>2. Layers' = Layers /\ PtrDomain' = PtrDomain /\ TypeDomain' = TypeDomain
  BY <1>1, SameNamed
<1>3. Typing'
  BY TypingRest
<1>4. at' <= Len(infos') + 1
  BY <1>1, <1>3 DEF Typing
<1>5. \A l, x : Before(l, x)' = {}
  BY <1>1 DEF Before, NamedIn
<1>6. ptr' \in [PtrDomain' -> Nat] /\ types' \in [TypeDomain' -> Nat]
  BY <1>1, <1>2
<1>7. /\ \A l \in Layers, x \in LayerField : ptr'[<<l, x>>] = 0
      /\ \A x \in Global : ptr'[<<-1, x>>] = 0
  BY <1>1 DEF PtrDomain
<1>8. "token_embd" \in Global /\ "output" \in Global
  BY DEF Global
<1> QED
  BY <1>2, <1>4, <1>5, <1>6, <1>7, <1>8 DEF MappedBefore, OrElse

LEMMA MappingStep ==
    ASSUME Typing, Infos, Unnested, MappedBefore, MapTensor
    PROVE  MappedBefore'
<1>1. /\ infos = file.tensors /\ at \in Nat /\ at >= 1 /\ at <= Len(infos)
      /\ Len(infos) \in Nat /\ DOMAIN infos = 1..Len(infos)
  BY DEF Infos, MapTensor, Typing
<1>2. UNCHANGED <<file, cfg, infos>> /\ at' = at + 1
  BY DEF MapTensor
<1>3. MapsOne
  BY MapTensorIs DEF MappedBefore
<1>4. /\ Layers' = Layers /\ PtrDomain' = PtrDomain /\ TypeDomain' = TypeDomain
      /\ \A l : \A flag : Agree(l, flag)' = Agree(l, flag)
      /\ \A j : IsF16(j)' = IsF16(j)
  BY <1>2, SameNamed
<1>5. at' <= Len(infos') + 1 /\ at' - 1 = at
  BY <1>1, <1>2
<1>6. ASSUME NEW l, NEW x
      PROVE  Before(l, x)' = Before(l, x) \cup (IF Matches(l, x) THEN {at} ELSE {})
  <2>1. Before(l, x)' = NamedIn(1..at, l, x)
    BY <1>2, <1>5 DEF Before, NamedIn
  <2> QED
    BY <1>1, <2>1, NamedGrows
<1>7. \A l \in Layers, x \in LayerField : ptr'[<<l, x>>] \in OrElse(Before(l, x)', 0)
  <2> SUFFICES ASSUME NEW l \in Layers, NEW x \in LayerField
               PROVE  ptr'[<<l, x>>] \in OrElse(Before(l, x)', 0)
    OBVIOUS
  <2>1. /\ ptr[<<l, x>>] \in OrElse(Before(l, x), 0)
        /\ ptr'[<<l, x>>] = IF Matches(l, x) THEN at ELSE ptr[<<l, x>>]
    BY <1>3 DEF MappedBefore, MapsOne
  <2> QED
    BY <1>6, <2>1 DEF OrElse
<1>8. \A x \in Global : ptr'[<<-1, x>>] \in OrElse(Before(-1, x)', 0)
  <2> SUFFICES ASSUME NEW x \in Global PROVE ptr'[<<-1, x>>] \in OrElse(Before(-1, x)', 0)
    OBVIOUS
  <2>1. /\ ptr[<<-1, x>>] \in OrElse(Before(-1, x), 0)
        /\ ptr'[<<-1, x>>] = IF Matches(-1, x) THEN at ELSE ptr[<<-1, x>>]
    BY <1>3 DEF MappedBefore, MapsOne
  <2> QED
    BY <1>6, <2>1 DEF OrElse
<1>9. ASSUME NEW l \in Layers, NEW flag \in {"rms", "qk"}, Agree(l, flag),
             NEW x \in Flag[flag], NEW j \in Before(l, x)'
      PROVE  types'[<<l, flag>>] = IsF16(j)
  <2>1. types'[<<l, flag>>] = IF I.layer = l /\ I.name \in Flag[flag]
                              THEN F32orF16(I.type) ELSE types[<<l, flag>>]
    BY <1>3 DEF MapsOne
  <2>2. j \in Before(l, x) \/ (j = at /\ Matches(l, x))
    BY <1>6, <1>9
  <2>3. CASE I.layer = l /\ I.name \in Flag[flag]
    <3>1. at \in Named(l, I.name)
      BY <1>1, <2>3 DEF Named, NamedIn, I
    <3>2. j \in Named(l, x)
      BY <1>1, <2>2, <3>1 DEF Before, Named, NamedIn, Matches
    <3>3. IsF16(j) = IsF16(at)
      BY <1>9, <2>3, <3>1, <3>2 DEF Agree
    <3>4. IsF16(at) = F32orF16(I.type)
      BY <1>1 DEF IsF16, I
    <3> QED
      BY <2>1, <2>3, <3>3, <3>4
  <2>4. CASE ~(I.layer = l /\ I.name \in Flag[flag])
    <3>1. j \in Before(l, x)
      BY <2>2, <2>4 DEF Matches
    <3> QED
      BY <1>9, <2>1, <2>4, <3>1 DEF MappedBefore
  <2> QED
    BY <2>3, <2>4
<1>10. \A l \in Layers', flag \in {"rms", "qk"} : Agree(l, flag)' =>
         \A x \in Flag[flag] : \A j \in Before(l, x)' : types'[<<l, flag>>] = IsF16(j)'
  <2> SUFFICES ASSUME NEW l \in Layers', NEW flag \in {"rms", "qk"}, Agree(l, flag)',
                      NEW x \in Flag[flag], NEW j \in Before(l, x)'
               PROVE  types'[<<l, flag>>] = IsF16(j)'
    OBVIOUS
  <2>1. l \in Layers /\ Agree(l, flag) /\ IsF16(j)' = IsF16(j)
    BY <1>4
  <2> QED
    BY <1>9, <2>1
<1>11. "token_embd" \in Global /\ "output" \in Global
  BY DEF Global
<1>12. /\ ptr'[<<-1, "token_embd">>] # 0 =>
            types'[<<-1, "embd">>] = file'.tensors[ptr'[<<-1, "token_embd">>]].type
       /\ ptr'[<<-1, "output">>] # 0 =>
            types'[<<-1, "output">>] = file'.tensors[ptr'[<<-1, "output">>]].type
  BY <1>1, <1>2, <1>3, <1>11 DEF MapsOne, MappedBefore, Matches, I
<1>13. ptr' \in [PtrDomain' -> Nat] /\ types' \in [TypeDomain' -> Nat]
  BY <1>3, <1>4 DEF MapsOne
<1> QED
  BY <1>4, <1>5, <1>7, <1>8, <1>10, <1>12, <1>13 DEF MappedBefore, OrElse

LEMMA MappingEnds ==
    ASSUME Typing, Infos, Unnested, MappedBefore, TieOutput
    PROVE  WeightsExact'
<1>1. /\ infos = file.tensors /\ at \in Nat /\ at > Len(infos)
      /\ Len(infos) \in Nat /\ DOMAIN infos = 1..Len(infos)
  BY DEF Infos, TieOutput, Typing
<1>2. UNCHANGED <<file, cfg>>
  BY DEF TieOutput
<1>3. /\ Layers' = Layers
      /\ \A l, x : Named(l, x)' = Named(l, x)
      /\ \A l : \A flag : Agree(l, flag)' = Agree(l, flag)
      /\ \A j : IsF16(j)' = IsF16(j)
  BY <1>2, SameNamed
<1>4. \A l, x : Before(l, x) = Named(l, x)
  <2>1. 1..(at - 1) = DOMAIN file.tensors
    BY <1>1 DEF MappedBefore
  <2> QED
    BY <2>1 DEF Before, Named
<1> DEFINE tied == ptr[<<-1, "output">>] = 0 /\ ptr[<<-1, "token_embd">>] # 0
<1>5. IF tied
      THEN /\ ptr' = [ptr EXCEPT ![<<-1, "output">>] = ptr[<<-1, "token_embd">>]]
           /\ types' = [types EXCEPT ![<<-1, "output">>] = types[<<-1, "embd">>]]
      ELSE ptr' = ptr /\ types' = types
  BY DEF TieOutput, G
<1>6. ptr \in [PtrDomain -> Nat] /\ types \in [TypeDomain -> Nat] /\ -1 \notin Layers
  BY LayersNat DEF MappedBefore
<1>7. /\ \A l \in Layers, x \in LayerField : ptr'[<<l, x>>] = ptr[<<l, x>>]
      /\ ptr'[<<-1, "token_embd">>] = ptr[<<-1, "token_embd">>]
      /\ ptr'[<<-1, "output_norm">>] = ptr[<<-1, "output_norm">>]
      /\ ptr'[<<-1, "output">>] = IF tied THEN ptr[<<-1, "token_embd">>] ELSE ptr[<<-1, "output">>]
  <2>1. /\ <<-1, "output">> \in PtrDomain /\ <<-1, "token_embd">> \in PtrDomain
        /\ <<-1, "output_norm">> \in PtrDomain
        /\ \A l \in Layers, x \in LayerField : <<l, x>> \in PtrDomain
    BY DEF PtrDomain, Global
  <2> HIDE DEF tied
  <2> QED
    BY <1>5, <1>6, <2>1
<1>8. /\ \A l \in Layers, flag \in {"rms", "qk"} : types'[<<l, flag>>] = types[<<l, flag>>]
      /\ types'[<<-1, "embd">>] = types[<<-1, "embd">>]
      /\ types'[<<-1, "output">>] = IF tied THEN types[<<-1, "embd">>] ELSE types[<<-1, "output">>]
  <2>1. /\ <<-1, "output">> \in TypeDomain /\ <<-1, "embd">> \in TypeDomain
        /\ \A l \in Layers, flag \in {"rms", "qk"} : <<l, flag>> \in TypeDomain
    BY DEF TypeDomain
  <2> HIDE DEF tied
  <2> QED
    BY <1>5, <1>6, <2>1
<1>9. /\ "token_embd" \in Global /\ "output" \in Global /\ "output_norm" \in Global
      /\ \A x \in Global : ptr[<<-1, x>>] \in OrElse(Named(-1, x), 0)
  BY <1>4 DEF Global, MappedBefore
<1>10. \A l \in Layers, x \in LayerField : ptr'[<<l, x>>] \in OrElse(Named(l, x), 0)
  BY <1>4, <1>7 DEF MappedBefore
<1>11. ASSUME NEW l \in Layers, NEW flag \in {"rms", "qk"}, Agree(l, flag)
       PROVE  \A x \in Flag[flag] : \A j \in Named(l, x) : types'[<<l, flag>>] = IsF16(j)
  BY <1>4, <1>8, <1>11 DEF MappedBefore
<1>12. /\ ptr'[<<-1, "token_embd">>] \in OrElse(Named(-1, "token_embd"), 0)
       /\ ptr'[<<-1, "output_norm">>] \in OrElse(Named(-1, "output_norm"), 0)
  BY <1>7, <1>9
<1>13. ptr'[<<-1, "output">>] \in OrElse(Named(-1, "output"), ptr'[<<-1, "token_embd">>])
  <2>1. ptr[<<-1, "output">>] \in OrElse(Named(-1, "output"), 0)
    BY <1>9
  <2>2. 0 \notin Named(-1, "output")
    BY <1>1 DEF Named, NamedIn
  <2> QED
    BY <1>7, <2>1, <2>2 DEF OrElse
<1>14. /\ ptr'[<<-1, "output">>] # 0 =>
            types'[<<-1, "output">>] = file.tensors[ptr'[<<-1, "output">>]].type
       /\ ptr'[<<-1, "token_embd">>] # 0 =>
            types'[<<-1, "embd">>] = file.tensors[ptr'[<<-1, "token_embd">>]].type
  BY <1>7, <1>8 DEF MappedBefore
<1> HIDE DEF tied
<1> QED
  BY <1>2, <1>3, <1>10, <1>11, <1>12, <1>13, <1>14 DEF WeightsExact, G, OrElse

LEMMA WeightsStep == Typing /\ Infos /\ Weights /\ [Next]_vars => Weights'
<1> SUFFICES ASSUME Typing, Infos, Weights, [Next]_vars, Unnested PROVE Weights'
  BY FileKept, SameFile DEF Weights
<1>1. ASSUME pc' \in {"config", "skip", "vocab"} PROVE Weights'
  BY <1>1 DEF Weights, WeightsExact, ReadingDone
<1>2. ASSUME ReadInfos PROVE Weights'
  <2>1. pc' \in {"vocab", "map"}
    BY <1>2 DEF ReadInfos, Goto, Typing
  <2> QED
    BY <1>2, <2>1, BeginMapping DEF Weights, WeightsExact, ReadingDone
<1>3. ASSUME MapTensor PROVE Weights'
  <2>1. pc = "map" /\ pc' = "map"
    BY <1>3 DEF MapTensor
  <2> QED
    BY <1>3, <2>1, MappingStep DEF Weights, WeightsExact, ReadingDone
<1>4. ASSUME TieOutput PROVE Weights'
  <2>1. pc = "map" /\ pc' \in {"tokens", "failed"}
    BY <1>4 DEF TieOutput, Goto
  <2> QED
    BY <1>4, <2>1, MappingEnds DEF Weights
<1>5. ASSUME UNCHANGED <<file, cfg, ptr, types>>, ReadingDone' = ReadingDone, pc' # "map"
      PROVE  Weights'
  <2>1. /\ Layers' = Layers
        /\ \A l, x : Named(l, x)' = Named(l, x)
        /\ \A l : \A flag : Agree(l, flag)' = Agree(l, flag)
        /\ \A j : IsF16(j)' = IsF16(j)
    BY <1>5, SameNamed
  <2>2. WeightsExact
    BY DEF Weights
  <2>3. WeightsExact'
    BY <1>5, <2>1, <2>2, FileKept, SameFile DEF WeightsExact, OrElse, G
  <2> QED
    BY <1>5, <2>3 DEF Weights
<1>6. ASSUME TokenEntry \/ TokensDone PROVE Weights'
  <2>1. UNCHANGED <<file, cfg, ptr, types>> /\ pc = "tokens" /\ pc' \in {"tokens", "done"}
    BY <1>6 DEF TokenEntry, TokensDone
  <2>2. ReadingDone' = ReadingDone
    BY <2>1 DEF ReadingDone
  <2> QED
    BY <1>5, <2>1, <2>2
<1>7. ASSUME UNCHANGED vars PROVE Weights'
  <2>1. UNCHANGED <<file, pc, at, cfg, infos, ptr, types>>
    BY <1>7 DEF vars
  <2>2. CASE pc = "map"
    <3>1. MappedBefore
      BY <2>2 DEF Weights
    <3>2. /\ Layers' = Layers /\ PtrDomain' = PtrDomain /\ TypeDomain' = TypeDomain
          /\ \A l : \A flag : Agree(l, flag)' = Agree(l, flag)
          /\ \A j : IsF16(j)' = IsF16(j)
      BY <2>1, SameNamed
    <3>3. \A l, x : Before(l, x)' = Before(l, x)
      BY <2>1 DEF Before, NamedIn
    <3>4. /\ ptr' \in [PtrDomain' -> Nat] /\ types' \in [TypeDomain' -> Nat]
          /\ at' <= Len(infos') + 1
      BY <2>1, <3>1, <3>2 DEF MappedBefore
    <3>5. /\ \A l \in Layers, x \in LayerField : ptr'[<<l, x>>] \in OrElse(Before(l, x)', 0)
          /\ \A x \in Global : ptr'[<<-1, x>>] \in OrElse(Before(-1, x)', 0)
      BY <2>1, <3>1, <3>3 DEF MappedBefore
    <3>6. \A l \in Layers, flag \in {"rms", "qk"} : Agree(l, flag)' =>
            \A x \in Flag[flag] : \A j \in Before(l, x)' : types'[<<l, flag>>] = IsF16(j)'
      BY <2>1, <3>1, <3>2, <3>3 DEF MappedBefore
    <3>7. /\ ptr'[<<-1, "token_embd">>] # 0 =>
               types'[<<-1, "embd">>] = file'.tensors[ptr'[<<-1, "token_embd">>]].type
          /\ ptr'[<<-1, "output">>] # 0 =>
               types'[<<-1, "output">>] = file'.tensors[ptr'[<<-1, "output">>]].type
      BY <2>1, <3>1 DEF MappedBefore
    <3>8. MappedBefore'
      BY <3>2, <3>4, <3>5, <3>6, <3>7 DEF MappedBefore, OrElse
    <3> QED
      BY <2>1, <2>2, <3>8 DEF Weights, WeightsExact, ReadingDone
  <2>3. CASE pc # "map"
    BY <1>5, <2>1, <2>3 DEF ReadingDone
  <2> QED
    BY <2>2, <2>3
<1>8. ASSUME BadMagic \/ ConfigEntry \/ ConfigLost \/ ConfigDefaults \/ DeriveVocab \/ SkipEntry
      PROVE  Weights'
  <2>1. pc' \in {"config", "skip"}
    BY <1>8, DeriveVocabIs DEF BadMagic, ConfigEntry, ConfigLost, ConfigDefaults, SkipEntry, Goto
  <2> QED
    BY <1>1, <2>1
<1> QED
  BY <1>2, <1>3, <1>4, <1>6, <1>7, <1>8 DEF Next

-----------------------------------------------------------------------------
(* load_gguf_config.                                                       *)

\* It skips an entry right exactly when it does not guess.
LEMMA SkipConfigRight ==
    ASSUME NEW e \in Entry, ~NestedArray(e)
    PROVE  SkipConfig(e) = ValueBytes(e) <=> ~Guessed(e)
<1>1. e.type \in Type /\ e.etype \in Type /\ e.n \in Nat /\ e.bytes \in Nat
  BY DEF Entry
<1>2. CASE e.len # "short"
  <2>1. SkipConfig(e) = SkipExact(e) /\ ~Guessed(e)
    BY <1>2 DEF SkipConfig, Guessed
  <2> QED
    BY <2>1, SkipExactRight
<1>3. CASE e.len = "short" /\ e.type = TArray
  <2> DEFINE b == CASE e.etype = TString -> 8 + e.bytes
                    [] e.etype = TArray -> 12 + e.bytes
                    [] OTHER -> TypeBytes(e.etype)
  <2>1. ValueBytes(e) = 12 + e.n * b
    BY <1>3 DEF ValueBytes, TString, TArray
  <2>2. b \in Nat
    BY <1>1 DEF TypeBytes
  <2> HIDE DEF b
  <2>3. e.n * b \in Nat
    BY <1>1, <2>2
  <2>4. ValueBytes(e) # 8
    BY <2>1, <2>3
  <2>5. SkipConfig(e) = 8 /\ Guessed(e)
    BY <1>3 DEF SkipConfig, Guessed, TString, TArray, Bytes8
  <2> QED
    BY <2>4, <2>5
<1>4. CASE e.len = "short" /\ e.type = TString
  <2>1. ValueBytes(e) = 8 + e.bytes /\ SkipConfig(e) = 8 + e.bytes
    BY <1>4 DEF SkipConfig, ValueBytes, TString, TArray
  <2>2. ~Guessed(e)
    BY <1>4 DEF Guessed
  <2> QED
    BY <2>1, <2>2
<1>5. CASE e.len = "short" /\ e.type # TArray /\ e.type # TString
  <2>1. ValueBytes(e) = TypeBytes(e.type)
    BY <1>5 DEF ValueBytes
  <2>2. SkipConfig(e) = IF e.type \in {4, 6} THEN 4 ELSE 8
    BY <1>5 DEF SkipConfig
  <2> QED
    BY <1>1, <1>5, <2>1, <2>2
       DEF Guessed, TypeBytes, Type, TString, TArray, Bytes1, Bytes2, Bytes4, Bytes8
<1> QED
  BY <1>2, <1>3, <1>4, <1>5

Uint32Keys == {"block_count", "head_count_kv", "head_count", "key_length", "value_length",
               "embedding_length", "feed_forward_length", "vocab_size", "context_length"}

LEMMA NamesAre ==
    /\ DOMAIN Uint32Names = 1..9
    /\ \A j \in 1..9 : Uint32Names[j] \in Uint32Keys
    /\ \A x \in Uint32Keys : \E j \in 1..9 : Uint32Names[j] = x
    /\ Uint32Names[1] = "block_count" /\ Uint32Names[2] = "head_count_kv"
<1>1. /\ DOMAIN Uint32Names = 1..9
      /\ Uint32Names[1] = "block_count" /\ Uint32Names[2] = "head_count_kv"
      /\ Uint32Names[3] = "head_count" /\ Uint32Names[4] = "key_length"
      /\ Uint32Names[5] = "value_length" /\ Uint32Names[6] = "embedding_length"
      /\ Uint32Names[7] = "feed_forward_length" /\ Uint32Names[8] = "vocab_size"
      /\ Uint32Names[9] = "context_length"
  BY DEF Uint32Names
<1> QED
  BY <1>1 DEF Uint32Keys

\* An entry whose key contains no other name is taken for what it is.
LEMMA TakenIs ==
    ASSUME NEW e, e.key \in Contains(e.key)
    PROVE  Taken(e) = { x \in {e.key} : \/ e.type = 4 /\ x \in Uint32Keys
                                        \/ e.type = 6 /\ x \in {"freq_base", "rms_eps"}
                                        \/ e.type = TString /\ x \in {"name", "architecture"} }
<1>1. \/ e.key = "head_count_kv" /\ Contains(e.key) = {"head_count_kv", "head_count"}
      \/ e.key # "head_count_kv" /\ Contains(e.key) = {e.key}
  BY DEF Contains
<1>2. CASE e.type = 4
  <2> DEFINE hit == { j \in DOMAIN Uint32Names : Uint32Names[j] \in Contains(e.key) }
             m == Min(hit)
  <2>1. Taken(e) = IF hit = {} THEN {} ELSE {Uint32Names[m]}
    BY <1>2 DEF Taken, TString
  <2>2. hit # {} => m \in hit /\ \A y \in hit : m <= y
    <3>1. hit \subseteq Nat
      <4>1. DOMAIN Uint32Names = 1..9
        BY NamesAre
      <4> QED
        BY <4>1
    <3> HIDE DEF hit
    <3> QED
      BY <3>1, LeastNat
  <2>3. CASE e.key = "head_count_kv"
    <3>1. 2 \in hit /\ 1 \notin hit /\ hit \subseteq 1..9
      BY <1>1, <2>3, NamesAre
    <3>2. m = 2
      <4> HIDE DEF hit, m
      <4>1. m \in 1..9 /\ m <= 2 /\ m # 1
        BY <2>2, <3>1
      <4> QED
        BY <4>1
    <3> HIDE DEF hit, m
    <3>3. Taken(e) = {"head_count_kv"}
      BY <2>1, <3>1, <3>2, NamesAre
    <3> QED
      BY <1>2, <2>3, <3>3 DEF Uint32Keys, TString
  <2>4. CASE e.key # "head_count_kv"
    <3>1. \A j \in hit : Uint32Names[j] = e.key
      BY <1>1, <2>4
    <3>2. hit = {} <=> e.key \notin Uint32Keys
      BY <1>1, <2>4, NamesAre
    <3> HIDE DEF hit, m
    <3>3. Taken(e) = IF e.key \notin Uint32Keys THEN {} ELSE {e.key}
      BY <2>1, <2>2, <3>1, <3>2
    <3> QED
      BY <1>2, <3>3 DEF TString
  <2> QED
    BY <2>3, <2>4
<1>3. CASE e.type = 6
  <2>1. Taken(e) = Contains(e.key) \cap {"freq_base", "rms_eps"}
    BY <1>3 DEF Taken, TString
  <2> QED
    BY <1>1, <1>3, <2>1 DEF TString
<1>4. CASE e.type = TString
  <2>1. Taken(e) = Contains(e.key) \cap {"name", "architecture"}
    BY <1>4 DEF Taken, TString
  <2> QED
    BY <1>1, <1>4, <2>1 DEF TString
<1>5. CASE e.type # 4 /\ e.type # 6 /\ e.type # TString
  BY <1>5 DEF Taken
<1> QED
  BY <1>2, <1>3, <1>4, <1>5

Gives(e, x) == x \in { FieldOf(n) : n \in Taken(e) }
Is(e, key, type) == e.key = key /\ e.type = type

LEMMA GivesIs ==
    ASSUME NEW e, e.key \in Contains(e.key)
    PROVE  /\ Gives(e, "n_layers") <=> Is(e, "block_count", 4)
           /\ Gives(e, "n_kv_heads") <=> Is(e, "head_count_kv", 4)
           /\ Gives(e, "n_heads") <=> Is(e, "head_count", 4)
           /\ Gives(e, "head_dim") <=> Is(e, "key_length", 4) \/ Is(e, "value_length", 4)
           /\ Gives(e, "hidden_dim") <=> Is(e, "embedding_length", 4)
           /\ Gives(e, "intermediate_dim") <=> Is(e, "feed_forward_length", 4)
           /\ Gives(e, "vocab_size") <=> Is(e, "vocab_size", 4)
           /\ Gives(e, "max_seq_len") <=> Is(e, "context_length", 4)
           /\ Gives(e, "rope_theta") <=> Is(e, "freq_base", 6)
           /\ Gives(e, "rms_eps") <=> Is(e, "rms_eps", 6)
           /\ Gives(e, "rope_neox") <=> Is(e, "architecture", TString)
<1>1. Taken(e) = { x \in {e.key} : \/ e.type = 4 /\ x \in Uint32Keys
                                   \/ e.type = 6 /\ x \in {"freq_base", "rms_eps"}
                                   \/ e.type = TString /\ x \in {"name", "architecture"} }
  BY TakenIs
<1>2. \A x : Gives(e, x) <=>
        /\ x = FieldOf(e.key)
        /\ \/ e.type = 4 /\ e.key \in Uint32Keys
           \/ e.type = 6 /\ e.key \in {"freq_base", "rms_eps"}
           \/ e.type = TString /\ e.key \in {"name", "architecture"}
  BY <1>1 DEF Gives
<1>3. /\ FieldOf("block_count") = "n_layers"
      /\ FieldOf("head_count_kv") = "n_kv_heads"
      /\ FieldOf("head_count") = "n_heads"
      /\ FieldOf("key_length") = "head_dim" /\ FieldOf("value_length") = "head_dim"
      /\ FieldOf("embedding_length") = "hidden_dim"
      /\ FieldOf("feed_forward_length") = "intermediate_dim"
      /\ FieldOf("vocab_size") = "vocab_size"
      /\ FieldOf("context_length") = "max_seq_len"
      /\ FieldOf("freq_base") = "rope_theta"
      /\ FieldOf("rms_eps") = "rms_eps"
      /\ FieldOf("name") = "name"
      /\ FieldOf("architecture") = "rope_neox"
  BY DEF FieldOf
<1>4. CASE e.type = 4 /\ e.key \in Uint32Keys
  BY <1>2, <1>3, <1>4 DEF Is, Uint32Keys, TString
<1>5. CASE e.type = 6 /\ e.key \in {"freq_base", "rms_eps"}
  BY <1>2, <1>3, <1>5 DEF Is, TString
<1>6. CASE e.type = TString /\ e.key \in {"name", "architecture"}
  BY <1>2, <1>3, <1>6 DEF Is, TString
<1>7. CASE ~ \/ e.type = 4 /\ e.key \in Uint32Keys
             \/ e.type = 6 /\ e.key \in {"freq_base", "rms_eps"}
             \/ e.type = TString /\ e.key \in {"name", "architecture"}
  BY <1>2, <1>7 DEF Is, Uint32Keys
<1> QED
  BY <1>4, <1>5, <1>6, <1>7

\* What the entries at the places S give a field.
GivesIn(S, x) == { meta[j].val : j \in { k \in S : meta[k].len = "short" /\ Gives(meta[k], x) } }

LEMMA GivesAll ==
    ASSUME NEW S, \A j \in S : meta[j].key \in Contains(meta[j].key)
    PROVE  /\ GivesIn(S, "n_layers") = GivenIn(S, "block_count", 4)
           /\ GivesIn(S, "n_kv_heads") = GivenIn(S, "head_count_kv", 4)
           /\ GivesIn(S, "n_heads") = GivenIn(S, "head_count", 4)
           /\ GivesIn(S, "head_dim") = GivenIn(S, "key_length", 4) \cup GivenIn(S, "value_length", 4)
           /\ GivesIn(S, "hidden_dim") = GivenIn(S, "embedding_length", 4)
           /\ GivesIn(S, "intermediate_dim") = GivenIn(S, "feed_forward_length", 4)
           /\ GivesIn(S, "vocab_size") = GivenIn(S, "vocab_size", 4)
           /\ GivesIn(S, "max_seq_len") = GivenIn(S, "context_length", 4)
           /\ GivesIn(S, "rope_theta") = GivenIn(S, "freq_base", 6)
           /\ GivesIn(S, "rms_eps") = GivenIn(S, "rms_eps", 6)
           /\ GivesIn(S, "rope_neox") = GivenIn(S, "architecture", TString)
<1>1. ASSUME NEW x, NEW key, NEW type, \A j \in S : Gives(meta[j], x) <=> Is(meta[j], key, type)
      PROVE  GivesIn(S, x) = GivenIn(S, key, type)
  BY <1>1 DEF GivesIn, GivenIn, Is
<1>2. GivesIn(S, "head_dim") = GivenIn(S, "key_length", 4) \cup GivenIn(S, "value_length", 4)
  <2>1. \A j \in S : Gives(meta[j], "head_dim") <=>
          Is(meta[j], "key_length", 4) \/ Is(meta[j], "value_length", 4)
    BY GivesIs
  <2> QED
    BY <2>1 DEF GivesIn, GivenIn, Is
<1> QED
  BY <1>1, <1>2, GivesIs

SoFar(x) == GivesIn(1..(at - 1), x)
Seen(x) == GivesIn(Visible, x)

\* A reader on a boundary has taken what the entries so far give; one that has
\* run past the end of the file has taken what is visible, and reads no more.
Taking ==
    pc = "config" /\ Clean =>
        /\ lost # "noise"
        /\ at <= N + 1 /\ at <= MetaCap + 1
        /\ lost = "no" => /\ \A j \in Odd : at <= j
                          /\ \A x \in ConfigField : cfg[x] \in OrElse(SoFar(x), 0)
        /\ lost = "end" => \A x \in ConfigField : cfg[x] \in OrElse(Seen(x), 0)

LEMMA SameConfig ==
    ASSUME file' = file
    PROVE  /\ Clean' = Clean /\ Odd' = Odd /\ Visible' = Visible
           /\ \A S, key, type : GivenIn(S, key, type)' = GivenIn(S, key, type)
           /\ \A key, type : Given(key, type)' = Given(key, type)
           /\ \A S, x : GivesIn(S, x)' = GivesIn(S, x)
           /\ \A h : Rows(h)' = Rows(h)
<1>1. meta' = meta /\ N' = N
  BY DEF meta, N
<1>2. Odd' = Odd
  BY <1>1 DEF Odd
<1>3. Visible' = Visible
  BY <1>1, <1>2 DEF Visible
<1>4. Unnested' = Unnested
  BY <1>1 DEF Unnested
<1>5. Clean' = Clean
  BY <1>1, <1>2, <1>3, <1>4 DEF Clean, WellNamed
<1>6. \A S, key, type : GivenIn(S, key, type)' = GivenIn(S, key, type)
  BY <1>1 DEF GivenIn
<1>7. \A key, type : Given(key, type)' = Given(key, type)
  BY <1>1 DEF GivenIn, Given
<1>8. \A S, x : GivesIn(S, x)' = GivesIn(S, x)
  BY <1>1 DEF GivesIn
<1>9. \A h : Rows(h)' = Rows(h)
  BY DEF Rows
<1> QED
  BY <1>2, <1>3, <1>5, <1>6, <1>7, <1>8, <1>9

\* Where the visible entries end.
LEMMA VisibleIs ==
    ASSUME Typing, NEW k \in Nat, k <= N, k <= MetaCap, \A j \in Odd : k + 1 <= j,
           k = N \/ k = MetaCap \/ k + 1 \in Odd
    PROVE  Visible = 1..k
<1> DEFINE S == {N, MetaCap} \cup { j - 1 : j \in Odd }
           m == Min(S)
<1>1. N \in Nat /\ MetaCap \in Nat /\ Odd \subseteq 1..N
  BY FileType, FilesAssumption DEF Typing, Odd
<1>2. S \subseteq Nat /\ S # {}
  BY <1>1
<1>3. m \in S /\ \A y \in S : m <= y
  <2> HIDE DEF S
  <2> QED
    BY <1>2, LeastNat
<1>4. k \in S
  BY <1>1
<1>5. \A y \in S : k <= y
  BY <1>1
<1>6. Visible = 1..m
  BY DEF Visible
<1> HIDE DEF S, m
<1>7. m = k
  BY <1>2, <1>3, <1>4, <1>5
<1> QED
  BY <1>6, <1>7

LEMMA VisibleIn == ASSUME Typing PROVE Visible \subseteq 1..N
<1> DEFINE S == {N, MetaCap} \cup { j - 1 : j \in Odd }
           m == Min(S)
<1>1. N \in Nat /\ MetaCap \in Nat /\ Odd \subseteq 1..N
  BY FileType, FilesAssumption DEF Typing, Odd
<1>2. S \subseteq Nat /\ S # {} /\ N \in S
  BY <1>1
<1>3. m \in Nat /\ m <= N
  <2> HIDE DEF S
  <2> QED
    BY <1>2, LeastNat
<1>4. Visible = 1..m
  BY DEF Visible
<1> HIDE DEF S, m
<1> QED
  BY <1>1, <1>3, <1>4

LEMMA TakingInit == Init => Taking
<1> SUFFICES ASSUME Init, Clean PROVE Taking
  BY DEF Taking
<1>1. file \in Files /\ at = 1 /\ lost = "no" /\ cfg = [x \in ConfigField |-> 0]
  BY DEF Init
<1>2. at <= N + 1 /\ at <= MetaCap + 1 /\ \A j \in Odd : at <= j
  BY <1>1, FileType, FilesAssumption DEF Odd
<1>3. \A x \in ConfigField : cfg[x] \in OrElse(SoFar(x), 0)
  BY <1>1 DEF SoFar, OrElse, GivesIn
<1> QED
  BY <1>1, <1>2, <1>3 DEF Taking

LEMMA TakingEntry ==
    ASSUME Typing, Taking, Clean, ConfigEntry
    PROVE  Taking'
<1>1. /\ at \in Nat /\ at \in 1..N /\ at <= MetaCap /\ E \in Entry /\ ~NestedArray(E)
      /\ E.key \in Contains(E.key) /\ N \in Nat /\ MetaCap \in Nat
  BY FileType, FilesAssumption DEF Typing, ConfigEntry, E, Clean, WellNamed, Unnested
<1>2. /\ pc = "config" /\ lost = "no" /\ \A j \in Odd : at <= j
      /\ \A x \in ConfigField : cfg[x] \in OrElse(SoFar(x), 0)
  BY DEF Taking, ConfigEntry
<1>3. /\ pc' = "config" /\ file' = file /\ at' = at + 1
      /\ lost' = IF SkipConfig(E) = ValueBytes(E) THEN "no" ELSE Strays(E)
      /\ cfg' = [x \in ConfigField |-> IF E.len = "short" /\ Gives(E, x) THEN E.val ELSE cfg[x]]
  BY DEF ConfigEntry, Gives
<1>4. SkipConfig(E) = ValueBytes(E) <=> ~Guessed(E)
  BY <1>1, SkipConfigRight
<1>5. /\ Odd' = Odd /\ N' = N /\ \A S, x : GivesIn(S, x)' = GivesIn(S, x)
      /\ Visible' = Visible
  BY <1>3, SameConfig, SameFile
<1>6. at' <= N' + 1 /\ at' <= MetaCap + 1 /\ at' - 1 = at
  BY <1>1, <1>3, <1>5
<1>7. Odd \subseteq 1..N /\ (Guessed(E) <=> at \in Odd)
  BY <1>1 DEF Odd, E
<1>8. CASE Guessed(E)
  <2>1. at \in Odd /\ Odd \subseteq Nat
    BY <1>1, <1>7, <1>8
  <2>2. Min(Odd) = at
    <3> DEFINE m == Min(Odd)
    <3>1. m \in Odd /\ m <= at
      BY <2>1, LeastNat
    <3> HIDE DEF m
    <3>2. m \in Nat /\ at <= m
      BY <1>2, <2>1, <3>1
    <3>3. m = at
      BY <1>1, <3>1, <3>2
    <3> QED
      BY <3>3 DEF m
  <2>3. Strays(E) = "end"
    BY <1>1, <2>1, <2>2 DEF Clean, WellNamed, E
  <2>4. lost' = "end"
    BY <1>3, <1>4, <1>8, <2>3
  <2>5. Visible = 1..(at - 1)
    <3>1. /\ at - 1 \in Nat /\ at - 1 <= N /\ at - 1 <= MetaCap
          /\ (at - 1) + 1 = at
      BY <1>1
    <3> QED
      BY <1>2, <2>1, <3>1, VisibleIs
  <2>6. \A x : ~(E.len = "short" /\ Gives(E, x))
    <3>1. E.len = "short" => Taken(E) = {}
      BY <1>8, <1>1 DEF Guessed, Taken
    <3> QED
      BY <3>1 DEF Gives
  <2>7. \A x \in ConfigField : cfg'[x] \in OrElse(Seen(x)', 0)
    BY <1>2, <1>3, <1>5, <2>5, <2>6 DEF Seen, SoFar
  <2>8. \A x \in ConfigField : (cfg[x] \in OrElse(Seen(x), 0))'
    BY <2>7 DEF OrElse
  <2> QED
    BY <1>3, <1>5, <1>6, <2>4, <2>8 DEF Taking
<1>9. CASE ~Guessed(E)
  <2>1. lost' = "no" /\ at \notin Odd
    BY <1>3, <1>4, <1>7, <1>9
  <2>2. \A j \in Odd' : at' <= j
    <3>1. \A j \in Odd : at + 1 <= j
      BY <1>1, <1>2, <1>7, <2>1
    <3> QED
      BY <1>3, <1>5, <3>1
  <2>3. ASSUME NEW x \in ConfigField
        PROVE  cfg'[x] \in OrElse(GivesIn(1..at, x), 0)
    <3> DEFINE H == SoFar(x)
               hit == E.len = "short" /\ Gives(E, x)
    <3>0. 1..at = 1..(at - 1) \cup {at}
      BY <1>1
    <3>1. GivesIn(1..at, x) = H \cup (IF hit THEN {E.val} ELSE {})
      BY <3>0 DEF GivesIn, SoFar, E
    <3>2. cfg[x] \in OrElse(H, 0) /\ cfg'[x] = IF hit THEN E.val ELSE cfg[x]
      BY <1>2, <1>3
    <3> HIDE DEF H, hit
    <3> QED
      BY <3>1, <3>2 DEF OrElse
  <2>4. \A x \in ConfigField : SoFar(x)' = GivesIn(1..at, x)
    BY <1>3, <1>6 DEF SoFar, GivesIn, meta
  <2>5. \A x \in ConfigField : cfg'[x] \in OrElse(SoFar(x)', 0)
    BY <2>3, <2>4
  <2>6. \A x \in ConfigField : (cfg[x] \in OrElse(SoFar(x), 0))'
    BY <2>5 DEF OrElse
  <2> QED
    BY <1>3, <1>5, <1>6, <2>1, <2>2, <2>6 DEF Taking
<1> QED
  BY <1>8, <1>9

LEMMA TakingStep == Typing /\ Taking /\ [Next]_vars => Taking'
<1> SUFFICES ASSUME Typing, Taking, [Next]_vars, Clean, pc' = "config" PROVE Taking'
  BY FileKept, SameConfig DEF Taking
<1>1. file' = file /\ N' = N /\ Visible' = Visible /\ Odd' = Odd
      /\ \A S, x : GivesIn(S, x)' = GivesIn(S, x)
  BY FileKept, SameFile, SameConfig
<1>2. ASSUME ConfigLost PROVE Taking'
  <2>1. /\ pc = "config" /\ at <= N /\ at <= MetaCap /\ lost = "end"
        /\ \A x \in ConfigField : cfg[x] \in OrElse(Seen(x), 0)
    BY <1>2 DEF ConfigLost, Taking, Typing
  <2>2. cfg' = cfg /\ lost' = lost /\ at' = at + 1
    BY <1>2, <2>1 DEF ConfigLost
  <2>3. \A x \in ConfigField : cfg'[x] \in OrElse(Seen(x)', 0)
    BY <1>1, <2>1, <2>2 DEF Seen
  <2>4. \A x \in ConfigField : (cfg[x] \in OrElse(Seen(x), 0))'
    BY <2>3 DEF OrElse
  <2>5. at' <= N' + 1 /\ at' <= MetaCap + 1
    BY <1>1, <2>1, <2>2, FileType, FilesAssumption DEF Typing
  <2> QED
    BY <2>1, <2>2, <2>4, <2>5 DEF Taking
<1>3. ASSUME UNCHANGED vars PROVE Taking'
  <2>1. UNCHANGED <<pc, at, lost, cfg>>
    BY <1>3 DEF vars
  <2>2. \A x : SoFar(x)' = SoFar(x) /\ Seen(x)' = Seen(x)
    BY <1>1, <2>1 DEF SoFar, Seen
  <2> QED
    BY <1>1, <2>1, <2>2 DEF Taking, OrElse
<1>4. ~(BadMagic \/ ConfigDefaults \/ DeriveVocab \/ SkipEntry \/ ReadInfos \/ TieOutput
          \/ TokenEntry \/ TokensDone)
  BY DEF BadMagic, ConfigDefaults, DeriveVocab, SkipEntry, ReadInfos, TieOutput,
         TokenEntry, TokensDone, Goto, Typing
<1>5. ~MapTensor
  BY DEF MapTensor
<1> QED
  BY <1>2, <1>3, <1>4, <1>5, TakingEntry DEF Next

\* parse_tensor_infos is called for the vocabulary exactly when the file gives
\* no size for it.
Pending == pc = "vocab" \/ (pc = "skip" /\ ret = "vocab")

Configured ==
    Clean /\ pc # "config" =>
        /\ Hyper
        /\ IF Pending THEN Given("vocab_size", 4) = {} ELSE Vocabulary

LEMMA ConfiguredImplies == Configured => ConfigExact
BY DEF Configured, ConfigExact, ReadingDone, Pending

LEMMA ConfiguredInit == Init => Configured
BY DEF Init, Configured

LEMMA HyperKept ==
    ASSUME file' = file,
           \A x \in ConfigField \ {"vocab_size"} : cfg'[x] = cfg[x]
    PROVE  Hyper' = Hyper
<1>1. /\ cfg'["n_layers"] = cfg["n_layers"] /\ cfg'["n_heads"] = cfg["n_heads"]
      /\ cfg'["hidden_dim"] = cfg["hidden_dim"]
      /\ cfg'["intermediate_dim"] = cfg["intermediate_dim"]
      /\ cfg'["n_kv_heads"] = cfg["n_kv_heads"] /\ cfg'["head_dim"] = cfg["head_dim"]
      /\ cfg'["max_seq_len"] = cfg["max_seq_len"] /\ cfg'["rope_theta"] = cfg["rope_theta"]
      /\ cfg'["rms_eps"] = cfg["rms_eps"] /\ cfg'["rope_neox"] = cfg["rope_neox"]
  BY DEF ConfigField
<1>2. \A key, type : Given(key, type)' = Given(key, type)
  BY SameConfig
<1> QED
  BY <1>1, <1>2 DEF Hyper, OrElse

\* What the reader has when it is through with the metadata.
LEMMA Through ==
    ASSUME Typing, Taking, Clean, ConfigDefaults
    PROVE  \A x \in ConfigField : cfg[x] \in OrElse(Seen(x), 0)
<1>1. /\ pc = "config" /\ (at > N \/ at > MetaCap)
      /\ lost = "no" \/ lost = "end"
  BY DEF ConfigDefaults, Taking, Typing
<1>2. /\ pc = "config" /\ at \in Nat /\ at >= 1 /\ N \in Nat /\ MetaCap \in Nat
      /\ at <= N + 1 /\ at <= MetaCap + 1
  BY FileType, FilesAssumption DEF ConfigDefaults, Taking, Typing
<1>3. CASE lost = "no"
  <2>1. \A j \in Odd : at <= j
    BY <1>2, <1>3 DEF Taking
  <2>2. /\ at - 1 \in Nat /\ at - 1 <= N /\ at - 1 <= MetaCap /\ (at - 1) + 1 = at
        /\ at - 1 = N \/ at - 1 = MetaCap
    BY <1>1, <1>2
  <2>3. Visible = 1..(at - 1)
    BY <2>1, <2>2, VisibleIs
  <2> QED
    BY <1>2, <1>3, <2>3 DEF Taking, Seen, SoFar
<1>4. CASE lost = "end"
  BY <1>2, <1>4 DEF Taking
<1> QED
  BY <1>1, <1>3, <1>4

\* A number that is given is not 0, so that it is never taken for missing.
LEMMA Kept ==
    ASSUME Typing, Clean, NEW key, NEW type \in {4, 6}
    PROVE  0 \notin Given(key, type)
BY DEF Clean, WellNamed, Given, GivenIn

\* All that a clean file gives a hyperparameter is visible.
LEMMA AllVisible ==
    ASSUME Typing, Clean, NEW key, NEW type, <<key, type>> \in HyperKeys
    PROVE  Given(key, type) = GivenIn(Visible, key, type)
<1>1. Visible \subseteq 1..N
  BY VisibleIn
<1>2. \A j \in 1..N : meta[j].key = key /\ meta[j].type = type /\ meta[j].len = "short"
                       => j \in Visible
  BY DEF Clean
<1> QED
  BY <1>1, <1>2 DEF Given, GivenIn

LEMMA DefaultIs ==
    ASSUME NEW S, 0 \notin S, NEW v \in OrElse(S, 0), NEW d
    PROVE  Default(v, d) \in OrElse(S, d)
BY DEF Default, OrElse

LEMMA ConfigDefaultsStep ==
    ASSUME Typing, Taking, Clean, ConfigDefaults
    PROVE  Configured'
<1> DEFINE heads == cfg["n_heads"]
           h == cfg["hidden_dim"]
           d == IF heads > 0 /\ h > 0 THEN h \div heads ELSE 0
<1>1. /\ cfg' = [cfg EXCEPT !["head_dim"] = Default(@, d),
                           !["rope_theta"] = Default(@, 10000),
                           !["max_seq_len"] = Default(@, 2048),
                           !["n_kv_heads"] = Default(@, heads)]
      /\ ret' = IF cfg["vocab_size"] = 0 /\ h > 0 THEN "vocab" ELSE "map"
      /\ pc' = "skip" /\ file' = file
  BY DEF ConfigDefaults, Goto
<1>2. cfg \in [ConfigField -> Nat] /\ heads \in Nat /\ h \in Nat
  BY DEF Typing, ConfigField
<1>3. d = IF heads = 0 THEN 0 ELSE h \div heads
  BY <1>2
<1>4. \A x \in ConfigField : cfg[x] \in OrElse(Seen(x), 0)
  BY Through
<1>5. /\ Seen("n_layers") = Given("block_count", 4)
      /\ Seen("n_kv_heads") = Given("head_count_kv", 4)
      /\ Seen("n_heads") = Given("head_count", 4)
      /\ Seen("head_dim") = Given("key_length", 4) \cup Given("value_length", 4)
      /\ Seen("hidden_dim") = Given("embedding_length", 4)
      /\ Seen("intermediate_dim") = Given("feed_forward_length", 4)
      /\ Seen("vocab_size") = Given("vocab_size", 4)
      /\ Seen("max_seq_len") = Given("context_length", 4)
      /\ Seen("rope_theta") = Given("freq_base", 6)
      /\ Seen("rms_eps") = Given("rms_eps", 6)
      /\ Seen("rope_neox") = Given("architecture", TString)
  <2>1. \A j \in Visible : meta[j].key \in Contains(meta[j].key)
    BY VisibleIn DEF Clean, WellNamed
  <2>2. \A key \in Uint32Keys : Given(key, 4) = GivenIn(Visible, key, 4)
    BY AllVisible DEF HyperKeys, Uint32Keys
  <2>3. /\ Given("freq_base", 6) = GivenIn(Visible, "freq_base", 6)
        /\ Given("rms_eps", 6) = GivenIn(Visible, "rms_eps", 6)
        /\ Given("architecture", TString) = GivenIn(Visible, "architecture", TString)
    BY AllVisible DEF HyperKeys
  <2> QED
    BY <2>1, <2>2, <2>3, GivesAll DEF Seen, Uint32Keys
<1> HIDE DEF d
<1>6. /\ cfg["n_layers"] \in OrElse(Given("block_count", 4), 0)
      /\ heads \in OrElse(Given("head_count", 4), 0)
      /\ h \in OrElse(Given("embedding_length", 4), 0)
      /\ cfg["intermediate_dim"] \in OrElse(Given("feed_forward_length", 4), 0)
      /\ cfg["rms_eps"] \in OrElse(Given("rms_eps", 6), 0)
      /\ cfg["rope_neox"] \in OrElse(Given("architecture", TString), 0)
      /\ cfg["vocab_size"] \in OrElse(Given("vocab_size", 4), 0)
  BY <1>4, <1>5 DEF ConfigField
<1>7. /\ Default(cfg["n_kv_heads"], heads) \in OrElse(Given("head_count_kv", 4), heads)
      /\ Default(cfg["max_seq_len"], 2048) \in OrElse(Given("context_length", 4), 2048)
      /\ Default(cfg["rope_theta"], 10000) \in OrElse(Given("freq_base", 6), 10000)
      /\ Default(cfg["head_dim"], d) \in OrElse(Given("key_length", 4) \cup Given("value_length", 4), d)
  <2>1. /\ 0 \notin Given("head_count_kv", 4) /\ 0 \notin Given("context_length", 4)
        /\ 0 \notin Given("freq_base", 6)
        /\ 0 \notin Given("key_length", 4) \cup Given("value_length", 4)
    BY Kept
  <2>2. /\ cfg["n_kv_heads"] \in OrElse(Given("head_count_kv", 4), 0)
        /\ cfg["max_seq_len"] \in OrElse(Given("context_length", 4), 0)
        /\ cfg["rope_theta"] \in OrElse(Given("freq_base", 6), 0)
        /\ cfg["head_dim"] \in OrElse(Given("key_length", 4) \cup Given("value_length", 4), 0)
    BY <1>4, <1>5 DEF ConfigField
  <2> QED
    BY <2>1, <2>2, DefaultIs
<1>8. /\ cfg'["n_layers"] = cfg["n_layers"] /\ cfg'["n_heads"] = heads
      /\ cfg'["hidden_dim"] = h
      /\ cfg'["intermediate_dim"] = cfg["intermediate_dim"]
      /\ cfg'["n_kv_heads"] = Default(cfg["n_kv_heads"], heads)
      /\ cfg'["head_dim"] = Default(cfg["head_dim"], d)
      /\ cfg'["max_seq_len"] = Default(cfg["max_seq_len"], 2048)
      /\ cfg'["rope_theta"] = Default(cfg["rope_theta"], 10000)
      /\ cfg'["rms_eps"] = cfg["rms_eps"] /\ cfg'["rope_neox"] = cfg["rope_neox"]
      /\ cfg'["vocab_size"] = cfg["vocab_size"]
  BY <1>1, <1>2 DEF ConfigField
<1>9. \A key, type : Given(key, type)' = Given(key, type)
  BY <1>1, SameConfig
<1>10. Hyper'
  BY <1>3, <1>6, <1>7, <1>8, <1>9 DEF Hyper, OrElse
<1>11. 0 \notin Given("vocab_size", 4)
  BY Kept
<1>12. CASE cfg["vocab_size"] = 0 /\ h > 0
  <2>1. Pending' /\ Given("vocab_size", 4)' = {}
    BY <1>1, <1>6, <1>9, <1>11, <1>12 DEF Pending, OrElse
  <2> QED
    BY <1>10, <2>1 DEF Configured
<1>13. CASE ~(cfg["vocab_size"] = 0 /\ h > 0)
  <2>1. ~Pending'
    BY <1>1, <1>13 DEF Pending
  <2>2. h > 0 => cfg["vocab_size"] \in Given("vocab_size", 4) /\ Given("vocab_size", 4) # {}
    BY <1>6, <1>13 DEF OrElse
  <2>3. Vocabulary'
    BY <1>8, <1>9, <2>2 DEF Vocabulary
  <2> QED
    BY <1>10, <2>1, <2>3 DEF Configured
<1> QED
  BY <1>12, <1>13

\* The size of the vocabulary from the shape of the embedding.
LEMMA DeriveVocabStep ==
    ASSUME Typing, Infos, Configured, Clean, DeriveVocab
    PROVE  Configured'
<1>1. /\ cfg' = [cfg EXCEPT !["vocab_size"] = Derivation]
      /\ pc = "vocab" /\ pc' = "skip" /\ ret' = "map" /\ file' = file
  BY DeriveVocabIs
<1>2. infos = file.tensors
  BY <1>1 DEF Clean, WellNamed, Infos
<1>3. Hyper /\ Given("vocab_size", 4) = {}
  BY <1>1 DEF Configured, Pending
<1>4. cfg \in [ConfigField -> Nat]
  BY DEF Typing
<1>5. /\ \A x \in ConfigField \ {"vocab_size"} : cfg'[x] = cfg[x]
      /\ cfg'["vocab_size"] = Derivation /\ cfg'["hidden_dim"] = cfg["hidden_dim"]
  BY <1>1, <1>4 DEF ConfigField
<1>6. Hyper' /\ ~Pending'
  BY <1>1, <1>3, <1>5, HyperKept DEF Pending
<1>7. Derivation \in OrElse(Rows(cfg["hidden_dim"]), 32000)
  <2> DEFINE h == cfg["hidden_dim"]
  <2>1. Rows(h) = { Default(RowsOf(infos[j].shape, h), 32000) : j \in Embeddings }
    BY <1>2 DEF Rows, RowsOf, Embeddings
  <2>2. \/ Embeddings = {} /\ Derivation = 32000
        \/ \E j \in Embeddings : Derivation = Default(RowsOf(infos[j].shape, h), 32000)
    BY Derived DEF Typing
  <2> QED
    BY <2>1, <2>2 DEF OrElse
<1>8. Vocabulary'
  <2>1. Given("vocab_size", 4)' = {} /\ Rows(cfg["hidden_dim"])' = Rows(cfg["hidden_dim"])
    BY <1>1, <1>3, <1>5, SameConfig
  <2> QED
    BY <1>5, <1>7, <2>1 DEF Vocabulary, OrElse
<1> QED
  BY <1>6, <1>8 DEF Configured

LEMMA ConfiguredStep ==
    Typing /\ Infos /\ Taking /\ Configured /\ [Next]_vars => Configured'
<1> SUFFICES ASSUME Typing, Infos, Taking, Configured, [Next]_vars, Clean PROVE Configured'
  BY FileKept, SameConfig DEF Configured
<1>1. file' = file
  BY FileKept
<1>2. ASSUME cfg' = cfg, pc # "config", Pending' = Pending PROVE Configured'
  <2>1. Hyper' = Hyper
    BY <1>1, <1>2, HyperKept
  <2>2. Vocabulary' = Vocabulary
    <3>1. Given("vocab_size", 4)' = Given("vocab_size", 4)
          /\ Rows(cfg["hidden_dim"])' = Rows(cfg["hidden_dim"])
      BY <1>1, <1>2, SameConfig
    <3> QED
      BY <1>2, <3>1 DEF Vocabulary, OrElse
  <2>3. Given("vocab_size", 4)' = Given("vocab_size", 4)
    BY <1>1, SameConfig
  <2> QED
    BY <1>2, <2>1, <2>2, <2>3 DEF Configured
<1>3. ASSUME BadMagic PROVE Configured'
  BY <1>3 DEF BadMagic, Clean, WellNamed
<1>4. ASSUME ConfigEntry \/ ConfigLost PROVE Configured'
  <2>1. pc' = "config"
    BY <1>4 DEF ConfigEntry, ConfigLost
  <2> QED
    BY <2>1 DEF Configured
<1>5. ASSUME SkipEntry PROVE Configured'
  <2>1. pc = "skip" /\ pc' = "skip" /\ ret' = ret /\ cfg' = cfg
    BY <1>5 DEF SkipEntry
  <2> QED
    BY <1>2, <2>1 DEF Pending
<1>6. ASSUME ReadInfos PROVE Configured'
  <2>1. pc = "skip" /\ pc' = ret /\ cfg' = cfg /\ ret' = ret
    BY <1>6 DEF ReadInfos, Goto
  <2>2. Pending' = Pending
    BY <2>1 DEF Pending, Typing
  <2> QED
    BY <1>2, <2>1, <2>2
<1>7. ASSUME MapTensor PROVE Configured'
  <2>1. pc = "map" /\ pc' = "map" /\ cfg' = cfg
    BY <1>7 DEF MapTensor
  <2> QED
    BY <1>2, <2>1 DEF Pending
<1>8. ASSUME TieOutput PROVE Configured'
  <2>1. pc = "map" /\ pc' \in {"tokens", "failed"} /\ cfg' = cfg
    BY <1>8 DEF TieOutput, Goto
  <2> QED
    BY <1>2, <2>1 DEF Pending
<1>9. ASSUME TokenEntry \/ TokensDone PROVE Configured'
  <2>1. pc = "tokens" /\ pc' \in {"tokens", "done"} /\ cfg' = cfg
    BY <1>9 DEF TokenEntry, TokensDone
  <2> QED
    BY <1>2, <2>1 DEF Pending
<1>10. ASSUME UNCHANGED vars PROVE Configured'
  <2>1. UNCHANGED <<pc, ret, cfg>>
    BY <1>10 DEF vars
  <2>2. CASE pc = "config"
    BY <2>1, <2>2 DEF Configured
  <2>3. CASE pc # "config"
    BY <1>2, <2>1, <2>3 DEF Pending
  <2> QED
    BY <2>2, <2>3
<1> QED
  BY <1>3, <1>4, <1>5, <1>6, <1>7, <1>8, <1>9, <1>10, ConfigDefaultsStep, DeriveVocabStep
     DEF Next

-----------------------------------------------------------------------------
(* The theorems.                                                           *)

\* The parts above together are inductive.
IInv == Typing /\ Infos /\ Tokens /\ Weights /\ Taking /\ Configured

LEMMA Invariance == Spec => []IInv
<1>1. Init => IInv
  BY TypingInit, InfosInit, TokensInit, WeightsInit, TakingInit, ConfiguredInit DEF IInv
<1>2. IInv /\ [Next]_vars => IInv'
  BY TypingStep, InfosStep, TokensStep, WeightsStep, TakingStep, ConfiguredStep DEF IInv
<1> QED
  BY <1>1, <1>2, PTL DEF Spec

\* parse_tensor_infos gives the tensor infos that the file holds behind any
\* metadata without nested arrays: the sizes it skips are right for all 13
\* types, so that it is at the first tensor info after the last entry.
THEOREM InfosRight == Spec => []InfosExact
<1>1. IInv => InfosExact
  BY DEF IInv, Infos, InfosExact
<1> QED
  BY <1>1, Invariance, PTL

\* load_gguf_config gives every hyperparameter the value that the file has
\* under its name, or its default, for every file that is Clean, so has all of
\* them before the first entry that is skipped by guess: the order of the
\* substrings it looks for is right, and the first array of strings takes it
\* past the end of the file before it takes anything that is not an entry.
THEOREM ConfigRight == Spec => []ConfigExact
<1>1. IInv => ConfigExact
  BY ConfiguredImplies DEF IInv
<1> QED
  BY <1>1, Invariance, PTL

\* load_and_map_weights leads every weight pointer to the tensor of its name
\* and layer whatever the order of the tensors, and the type it keeps with a
\* pointer is that tensor's, the tied output included.
THEOREM WeightsRight == Spec => []WeightsExact
<1>1. IInv => WeightsExact
  BY DEF IInv, Weights, WeightsExact
<1> QED
  BY <1>1, Invariance, PTL

\* load_from_gguf gives the tokenizer its vocabulary, merges and special ids
\* from any place among metadata that it can skip.
THEOREM TokensRight == Spec => []TokensExact
<1>1. IInv => TokensExact
  BY TokensImply DEF IInv
<1> QED
  BY <1>1, Invariance, PTL
=============================================================================
