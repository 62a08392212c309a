----------------------------- MODULE Tokenizer -----------------------------
(***************************************************************************)
(* Tokenizer::encode and decode (src/engine/tokenizer.cpp).  A text is cut *)
(* at special tokens, what is between them into pieces, and every piece    *)
(* into tokens: by BPE merges if the model has any, else by the longest    *)
(* match.  Strings are sequences of bytes.  A token id is modelled by its  *)
(* string, which is all that encode and decode use of it.                  *)
(***************************************************************************)
EXTENDS Integers, Sequences, SequencesExt, FiniteSets, FiniteSetsExt

CONSTANTS
    Char,        \* UTF-8 characters that texts are made of
    MaxText,     \* bound on the length of a text, in characters
    Vocab,       \* vocab, the token strings
    Special,     \* special_tokens_ (<|...|>, <think>, </think>)
    ByteToken,   \* [tokens like <0x0A> -> their byte]
    Merges,      \* tokenizer.ggml.merges, a sequence of pairs
    Bos, Eos,    \* the strings of bos_id and eos_id
    AddBos, AddEos

Byte == 0..255

ASSUME VocabAssumption ==
    /\ Char \subseteq Seq(Byte) \ {<< >>}
    /\ Vocab \subseteq Seq(Byte) \ {<< >>}
    /\ Special \subseteq Vocab /\ DOMAIN ByteToken \subseteq Vocab
    /\ \A m \in DOMAIN Merges : Merges[m] \in Seq(Byte) \X Seq(Byte)
    /\ AddBos \in BOOLEAN /\ AddEos \in BOOLEAN /\ MaxText \in Nat

VARIABLES
    text,        \* the argument of encode
    byteEncode,  \* byte_encode_: the model is "gpt2" or "qwen2"
    merging,     \* bpe_ranks_ is not empty
    pc,          \* which loop encode is in
    pos,         \* bytes of the text dealt with
    plain,       \* the plain text in work, from the next piece on
    piece,       \* the piece in work, byte-encoded if the model is
    symbols,     \* its symbols
    tokens       \* the result so far

model == <<text, byteEncode, merging>>
vars == <<model, pc, pos, plain, piece, symbols, tokens>>

-----------------------------------------------------------------------------
(* Bytes and characters.                                                   *)

Drop(s, n) == SubSeq(s, n + 1, Len(s))

\* Code points beyond two bytes are never asked for.
utf8_from_codepoint(cp) ==
    IF cp <= 127 THEN <<cp>> ELSE <<192 + (cp \div 64), 128 + (cp % 64)>>

utf8_len(c) ==
    CASE c \in 192..223 -> 2 [] c \in 224..239 -> 3 [] c \in 240..247 -> 4
      [] OTHER -> 1

Printable == (33..126) \cup (161..172) \cup (174..255)

\* Every byte as a printable character; the others in order from 256 on.
byte_encoder ==
    [b \in Byte |-> utf8_from_codepoint(
        IF b \in Printable THEN b
        ELSE 256 + Cardinality({c \in 0..(b - 1) : c \notin Printable}))]

byte_decoder(s) == CHOOSE b \in Byte : byte_encoder[b] = s
Decodable(s) == \E b \in Byte : byte_encoder[b] = s

encode_bytes_gpt2(t) == FlattenSeq([j \in DOMAIN t |-> byte_encoder[t[j]]])

\* The bytes of the character at j; a cut-off one counts as one byte.
CharLen(t, j) == IF j - 1 + utf8_len(t[j]) > Len(t) THEN 1 ELSE utf8_len(t[j])

split_utf8_symbols(t) ==
    LET add(r, j) ==
          IF j < r.next THEN r
          ELSE LET n == CharLen(t, j)
               IN [next |-> j + n, out |-> Append(r.out, SubSeq(t, j, j + n - 1))]
    IN FoldLeftDomain(add, [next |-> 1, out |-> << >>], t).out

-----------------------------------------------------------------------------
(* Pieces.                                                                 *)

Class(c) ==
    CASE c \in (9..13) \cup {32} -> "space"
      [] c \in (65..90) \cup (97..122) -> "alpha"
      [] c \in 48..57 -> "digit"
      [] OTHER -> "other"

\* What may follow an apostrophe: s t re ve m ll d.
Contraction == {<<115>>, <<116>>, <<114, 101>>, <<118, 101>>, <<109>>,
                <<108, 108>>, <<100>>}

\* The bytes of the run of one class that starts after the first n.
RunLen(t, n) ==
    Max({m \in 1..(Len(t) - n) :
            \A j \in 1..m : Class(t[n + j]) = Class(t[n + 1])})

\* A fault: a blank is always taken to belong to what follows.
PieceLenBlank(t) ==
    LET cs == {c \in Contraction : t[1] = 39 /\ IsPrefix(c, Tail(t))}
        lead == IF t[1] = 32 THEN 1 ELSE 0
    IN IF cs # {} THEN 1 + Len(CHOOSE c \in cs : TRUE)
       ELSE IF lead = Len(t) THEN 0
       ELSE lead + RunLen(t, lead)

\* One turn of pretokenize_ascii.
PieceLen(t) ==
    LET cs == {c \in Contraction : t[1] = 39 /\ IsPrefix(c, Tail(t))}
        lead == IF t[1] = 32 /\ Len(t) > 1 /\ Class(t[2]) # "space" THEN 1 ELSE 0
    IN IF cs # {} THEN 1 + Len(CHOOSE c \in cs : TRUE)
       ELSE lead + RunLen(t, lead)

-----------------------------------------------------------------------------
(* encode.                                                                 *)

Init ==
    /\ \E cs \in BoundedSeq(Char, MaxText) : text = FlattenSeq(cs)
    /\ byteEncode \in BOOLEAN /\ merging \in BOOLEAN
    /\ pc = "text" /\ pos = 0
    /\ plain = << >> /\ piece = << >> /\ symbols = << >>
    /\ tokens = IF AddBos THEN <<Bos>> ELSE << >>

SpecialsAt(n) == {s \in Special : IsPrefix(s, Drop(text, n))}

Longest(S) == CHOOSE s \in S : \A t \in S : Len(t) <= Len(s)

TakeSpecial ==
    /\ pc = "text" /\ pos < Len(text)
    /\ SpecialsAt(pos) # {}
    /\ LET s == Longest(SpecialsAt(pos))
       IN tokens' = Append(tokens, s) /\ pos' = pos + Len(s)
    /\ UNCHANGED <<model, pc, plain, piece, symbols>>

\* The plain text up to the next special token or the end.
TakePlain ==
    /\ pc = "text" /\ pos < Len(text)
    /\ SpecialsAt(pos) = {}
    /\ pos' = Min({n \in (pos + 1)..Len(text) : n = Len(text) \/ SpecialsAt(n) # {}})
    /\ plain' = SubSeq(text, pos + 1, pos')
    /\ pc' = "plain"
    /\ UNCHANGED <<model, piece, symbols, tokens>>

Pretokenize ==
    /\ pc = "plain" /\ plain # << >>
    /\ LET raw == SubSeq(plain, 1, PieceLen(plain)) IN
       /\ plain' = Drop(plain, PieceLen(plain))
       /\ piece' = IF byteEncode THEN encode_bytes_gpt2(raw) ELSE raw
    /\ symbols' = IF merging THEN split_utf8_symbols(piece') ELSE << >>
    /\ pc' = IF merging THEN "merge" ELSE "match"
    /\ UNCHANGED <<model, pos, tokens>>

PlainDone ==
    /\ pc = "plain" /\ plain = << >>
    /\ pc' = "text"
    /\ UNCHANGED <<model, pos, plain, piece, symbols, tokens>>

\* bpe_ranks_: the key of a pair is its halves joined by a newline, and a
\* later merge of the same key replaces an earlier one.
bpe_key(l, r) == l \o <<10>> \o r
Ranks(l, r) == {m \in DOMAIN Merges :
                  bpe_key(Merges[m][1], Merges[m][2]) = bpe_key(l, r)}
Ranked(s) == {j \in 1..(Len(s) - 1) : Ranks(s[j], s[j + 1]) # {}}
RankAt(s, j) == Max(Ranks(s[j], s[j + 1]))

\* A fault: of equal ranks the last pair is taken.
BestLast(s) ==
    Max({j \in Ranked(s) : \A i \in Ranked(s) : RankAt(s, j) <= RankAt(s, i)})

\* The first of the pairs with the lowest rank.
Best(s) ==
    Min({j \in Ranked(s) : \A i \in Ranked(s) : RankAt(s, j) <= RankAt(s, i)})

Merge ==
    /\ pc = "merge"
    /\ Ranked(symbols) # {}
    /\ LET b == Best(symbols)
       IN symbols' = SubSeq(symbols, 1, b - 1)
                       \o <<symbols[b] \o symbols[b + 1]>> \o Drop(symbols, b + 1)
    /\ UNCHANGED <<model, pc, pos, plain, piece, tokens>>

MergeDone ==
    /\ pc = "merge"
    /\ Ranked(symbols) = {}
    /\ pc' = "emit"
    /\ UNCHANGED <<model, pos, plain, piece, symbols, tokens>>

InVocab(s) == s \in Vocab

\* A fault: a symbol that is no token is dropped as a whole.
EmitWhole ==
    /\ pc = "emit" /\ symbols # << >>
    /\ tokens' = IF Head(symbols) \in Vocab THEN Append(tokens, Head(symbols))
                 ELSE tokens
    /\ symbols' = Tail(symbols)
    /\ UNCHANGED <<model, pc, pos, plain, piece>>

\* A symbol that is no token falls back to its characters; those that are
\* no tokens either are dropped.
Emit ==
    /\ pc = "emit" /\ symbols # << >>
    /\ tokens' = IF Head(symbols) \in Vocab THEN Append(tokens, Head(symbols))
                 ELSE tokens \o SelectSeq(split_utf8_symbols(Head(symbols)), InVocab)
    /\ symbols' = Tail(symbols)
    /\ UNCHANGED <<model, pc, pos, plain, piece>>

EmitDone ==
    /\ pc = "emit" /\ symbols = << >>
    /\ pc' = "plain" /\ piece' = << >>
    /\ UNCHANGED <<model, pos, plain, symbols, tokens>>

\* Without merges: the longest token at the front of the piece.
Match ==
    /\ pc = "match" /\ piece # << >>
    /\ LET S == Vocab \cap Prefixes(piece) IN
       IF S # {}
       THEN /\ tokens' = Append(tokens, Longest(S))
            /\ piece' = Drop(piece, Len(Longest(S)))
       ELSE /\ piece' = Drop(piece, CharLen(piece, 1))
            /\ UNCHANGED tokens
    /\ UNCHANGED <<model, pc, pos, plain, symbols>>

MatchDone ==
    /\ pc = "match" /\ piece = << >>
    /\ pc' = "plain"
    /\ UNCHANGED <<model, pos, plain, piece, symbols, tokens>>

Finish ==
    /\ pc = "text" /\ pos = Len(text)
    /\ tokens' = IF AddEos THEN Append(tokens, Eos) ELSE tokens
    /\ pc' = "done"
    /\ UNCHANGED <<model, pos, plain, piece, symbols>>

Next ==
    \/ TakeSpecial \/ TakePlain \/ Pretokenize \/ PlainDone
    \/ Merge \/ MergeDone \/ Emit \/ EmitDone
    \/ Match \/ MatchDone \/ Finish

\* encode is one loop on one thread.
Spec == Init /\ [][Next]_vars /\ WF_vars(Next)

-----------------------------------------------------------------------------
(* decode, of one token.                                                   *)

\* Characters that byte_encoder does not produce stay as they are; a token
\* that begins with one is returned unchanged.
DecodeBytes(s) ==
    LET cs == split_utf8_symbols(s)
        one(c) == IF Decodable(c) THEN <<byte_decoder(c)>> ELSE c
    IN IF ~Decodable(cs[1]) THEN s ELSE FlattenSeq([j \in DOMAIN cs |-> one(cs[j])])

decode(s) ==
    IF s \in DOMAIN ByteToken THEN <<ByteToken[s]>>
    ELSE IF byteEncode THEN DecodeBytes(s)
    ELSE s

-----------------------------------------------------------------------------
(* Correctness.                                                            *)

\* What encode keeps: the text without the characters (the bytes, for a
\* byte-encoding model) that the vocabulary does not know.
Units(t) == IF byteEncode THEN [j \in DOMAIN t |-> <<t[j]>>] ELSE split_utf8_symbols(t)
Known(u) == (IF byteEncode THEN encode_bytes_gpt2(u) ELSE u) \in Vocab
Visible(t) == FlattenSeq(SelectSeq(Units(t), Known))

\* The result without what add_bos_ and add_eos_ put around it.
Inner == SubSeq(tokens, IF AddBos THEN 2 ELSE 1, Len(tokens) - IF AddEos THEN 1 ELSE 0)

SpellsByteToken ==
    \E n \in 0..Len(text) : \E s \in DOMAIN ByteToken : IsPrefix(s, Drop(text, n))

\* The text of the tokens, token by token as the engine streams them, is the
\* text that was encoded: the cuts at special tokens and pieces, the merges,
\* a merge that is no token and the two directions of the byte encoding lose,
\* double and reorder nothing.  (A text that spells a byte token, <0x0A>, is
\* taken for that byte.)
Lossless ==
    pc = "done" /\ ~SpellsByteToken =>
        FlattenSeq([j \in DOMAIN Inner |-> decode(Inner[j])]) = Visible(text)

\* The reference for merging: one pass over the piece per merge of the list,
\* from left to right.
MergePass(s, m) ==
    LET add(r, y) == IF r # << >> /\ <<Last(r), y>> = Merges[m]
                     THEN Append(Front(r), Last(r) \o y) ELSE Append(r, y)
    IN FoldLeft(add, << >>, s)

BPE(s) == FoldLeft(MergePass, s, [m \in DOMAIN Merges |-> m])

\* For a list in which every merge joins characters and results of earlier
\* ones, always merging the lowest-ranked pair, wherever it is, ends where the
\* passes in the order of the list end: a piece has one tokenization, the
\* one the model was trained with.
CanonicalMerges ==
    pc = "merge" /\ Ranked(symbols) = {} =>
        symbols = BPE(split_utf8_symbols(piece))

\* encode returns: every turn of its loops takes some of the text.
EncodeEnds == <>(pc = "done")
=============================================================================
