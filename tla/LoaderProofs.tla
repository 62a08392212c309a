---------------------------- MODULE LoaderProofs ----------------------------
(***************************************************************************)
(* Proofs about Scratch and Loader.                                        *)
(*                                                                         *)
(* Scratch, for every model, prompt length and hydrated length that        *)
(* ConfigAssumption admits: no get() of the layers or the head returns     *)
(* null, and buffers that are alive are disjoint and in the pool.  The     *)
(* first rests on how far the offset can have come after i buffers         *)
(* (Reach), the second on the live buffers lying below the offset          *)
(* (Stacked); neither needs the other.                                     *)
(*                                                                         *)
(* Loader, for every model, file, environment, amount of memory and number *)
(* of layers: nothing is freed twice or left behind, and a load that       *)
(* succeeds leaves every weight where its reader can reach it and has not  *)
(* spent more memory than there was.  Loader is shown to drive the scratch *)
(* pool as Scratch says, so the theorems about Scratch hold of it too.     *)
(***************************************************************************)
EXTENDS Loader, TLAPS


-----------------------------------------------------------------------------
(* Arithmetic.                                                             *)

\* Padding adds less than 256 bytes.
LEMMA PadFacts ==
    ASSUME NEW s \in Nat
    PROVE  Pad(s) \in Nat /\ s <= Pad(s) /\ Pad(s) <= s + 255
BY DEF Pad

\* Multiplication by a natural number is monotone.
LEMMA TimesMonotone ==
    ASSUME NEW a \in Nat, NEW b \in Nat, NEW x \in Nat, a <= b
    PROVE  a * x <= b * x /\ a * x \in Nat /\ b * x \in Nat
<1>1. PICK d \in Nat : b = a + d
  BY b - a \in Nat
<1>2. b * x = a * x + d * x
  BY <1>1
<1>3. a * x \in Nat /\ d * x \in Nat
  OBVIOUS
<1> QED
  BY <1>2, <1>3

\* A model's dimensions are natural numbers, and so is its pool's capacity.
LEMMA ConfigFacts ==
    ASSUME NEW c \in Configs
    PROVE  /\ c.H \in Nat /\ c.Q \in Nat /\ c.KV \in Nat /\ c.I \in Nat /\ c.V \in Nat
           /\ c.L \in Nat /\ c.L >= 1
           /\ Capacity(c) \in Nat
<1>1. /\ c.H \in Nat /\ c.Q \in Nat /\ c.KV \in Nat /\ c.I \in Nat /\ c.V \in Nat
      /\ c.L \in Nat /\ c.L >= 1 /\ Floor \in Nat
  BY ConfigAssumption
<1> DEFINE need == 16 * c.H + 4 * c.Q + 4 * c.KV + 8 * c.I + 4 * c.V
           bytes == IF need > Floor THEN need ELSE Floor
<1>2. bytes \in Nat
  BY <1>1
<1> HIDE DEF bytes
<1>3. ((bytes + 4095) \div 4096) * 4096 \in Nat
  BY <1>2
<1> QED
  BY <1>1, <1>3 DEF Capacity, bytes

\* The padded sizes the buffers of a layer have in a pass over m tokens.
PH(c, m) == Pad(2 * m * c.H)
PQ(c, m) == Pad(2 * m * c.Q)
PK(c, m) == Pad(2 * m * c.KV)
PI(c, m) == Pad(2 * m * c.I)

LEMMA PaddedBounds ==
    ASSUME NEW c \in Configs, NEW m \in Nat
    PROVE  /\ PH(c, m) \in Nat /\ PQ(c, m) \in Nat /\ PK(c, m) \in Nat /\ PI(c, m) \in Nat
           /\ PH(c, m) <= 2 * (m * c.H) + 255 /\ PQ(c, m) <= 2 * (m * c.Q) + 255
           /\ PK(c, m) <= 2 * (m * c.KV) + 255 /\ PI(c, m) <= 2 * (m * c.I) + 255
<1>1. ASSUME NEW x \in Nat
      PROVE  Pad(2 * m * x) \in Nat /\ Pad(2 * m * x) <= 2 * (m * x) + 255
  <2>1. 2 * m * x \in Nat /\ 2 * m * x = 2 * (m * x)
    OBVIOUS
  <2> QED
    BY <2>1, PadFacts
<1>2. c.H \in Nat /\ c.Q \in Nat /\ c.KV \in Nat /\ c.I \in Nat
  BY ConfigFacts
<1>3. PH(c, m) \in Nat /\ PH(c, m) <= 2 * (m * c.H) + 255
  BY <1>1, <1>2 DEF PH
<1>4. PQ(c, m) \in Nat /\ PQ(c, m) <= 2 * (m * c.Q) + 255
  BY <1>1, <1>2 DEF PQ
<1>5. PK(c, m) \in Nat /\ PK(c, m) <= 2 * (m * c.KV) + 255
  BY <1>1, <1>2 DEF PK
<1>6. PI(c, m) \in Nat /\ PI(c, m) <= 2 * (m * c.I) + 255
  BY <1>1, <1>2 DEF PI
<1> QED
  BY <1>3, <1>4, <1>5, <1>6

LEMMA PaddedFacts ==
    ASSUME NEW c \in Configs, NEW m \in Nat
    PROVE  /\ PH(c, m) \in Nat /\ PQ(c, m) \in Nat /\ PK(c, m) \in Nat /\ PI(c, m) \in Nat
           /\ 2 * m * c.H \in Nat /\ 2 * m * c.Q \in Nat /\ 2 * m * c.KV \in Nat /\ 2 * m * c.I \in Nat
<1>1. ASSUME NEW x \in Nat
      PROVE  2 * m * x \in Nat
  OBVIOUS
<1>2. /\ 2 * m * c.H \in Nat /\ 2 * m * c.Q \in Nat
      /\ 2 * m * c.KV \in Nat /\ 2 * m * c.I \in Nat
  <2>1. c.H \in Nat /\ c.Q \in Nat /\ c.KV \in Nat /\ c.I \in Nat
    BY ConfigFacts
  <2>2. 2 * m * c.H \in Nat
    BY <2>1, <1>1
  <2>3. 2 * m * c.Q \in Nat
    BY <2>1, <1>1
  <2>4. 2 * m * c.KV \in Nat
    BY <2>1, <1>1
  <2>5. 2 * m * c.I \in Nat
    BY <2>1, <1>1
  <2> QED
    BY <2>2, <2>3, <2>4, <2>5
<1> QED
  BY <1>2, PaddedBounds

-----------------------------------------------------------------------------
(* How far the buffers of a layer or of the head reach.                    *)

BatchEnds(h, q, k, f) ==
    << h, h + q, h + q + k, h + q + 2 * k, h + 2 * q + 2 * k, 2 * h + 2 * q + 2 * k,
       3 * h + 2 * q + 2 * k, 4 * h + 2 * q + 2 * k, 4 * h + 2 * q + 2 * k + f,
       4 * h + 2 * q + 2 * k + 2 * f, 4 * h + 2 * q + 2 * k + 3 * f,
       5 * h + 2 * q + 2 * k + 3 * f >>
TokenEnds(h, q, k, f) ==
    << h, h + q, h + q + k, h + q + 2 * k, 2 * h + q + 2 * k, 2 * h + 2 * q + 2 * k,
       3 * h + 2 * q + 2 * k, 3 * h + 2 * q + 2 * k + f, 3 * h + 2 * q + 2 * k + 2 * f,
       3 * h + 2 * q + 2 * k + 3 * f >>
HeadEnds(h, v) == << h, h + v >>

BatchEnd(c, m, j) == IF j = 0 THEN 0 ELSE BatchEnds(PH(c, m), PQ(c, m), PK(c, m), PI(c, m))[j]
TokenEnd(c, j) == IF j = 0 THEN 0 ELSE TokenEnds(PH(c, 1), PQ(c, 1), PK(c, 1), PI(c, 1))[j]
HeadEnd(c, j) == IF j = 0 THEN 0 ELSE HeadEnds(PH(c, 1), Pad(4 * c.V))[j]

\* Each buffer of batched prefill begins where the one before it ends.
LEMMA BatchStep ==
    ASSUME NEW c \in Configs, NEW m \in Nat, NEW j \in 0..11
    PROVE  /\ BatchSize(c, m)[j + 1] \in Nat
           /\ BatchEnd(c, m, j) \in Nat
           /\ BatchEnd(c, m, j) + Pad(BatchSize(c, m)[j + 1]) = BatchEnd(c, m, j + 1)
           /\ BatchEnd(c, m, j + 1) \in Nat
           /\ BatchEnd(c, m, j + 1) <= 5 * PH(c, m) + 2 * PQ(c, m) + 2 * PK(c, m) + 3 * PI(c, m)
<1> DEFINE h == PH(c, m)  q == PQ(c, m)  k == PK(c, m)  f == PI(c, m)
           h0 == 2 * m * c.H  q0 == 2 * m * c.Q  k0 == 2 * m * c.KV  f0 == 2 * m * c.I
<1>1. h \in Nat /\ q \in Nat /\ k \in Nat /\ f \in Nat
  BY PaddedFacts
<1>2. h0 \in Nat /\ q0 \in Nat /\ k0 \in Nat /\ f0 \in Nat
  BY PaddedFacts
<1>3. Pad(h0) = h /\ Pad(q0) = q /\ Pad(k0) = k /\ Pad(f0) = f
  BY DEF PH, PQ, PK, PI
<1>4. BatchSize(c, m) = << h0, q0, k0, k0, q0, h0, h0, h0, f0, f0, f0, h0 >>
  BY DEF BatchSize
<1>5. \A t : BatchEnd(c, m, t) = IF t = 0 THEN 0 ELSE BatchEnds(h, q, k, f)[t]
  BY DEF BatchEnd
<1> HIDE DEF h, q, k, f, h0, q0, k0, f0
<1>6. j = 0 \/ j = 1 \/ j = 2 \/ j = 3 \/ j = 4 \/ j = 5 \/ j = 6 \/ j = 7 \/ j = 8
      \/ j = 9 \/ j = 10 \/ j = 11
  OBVIOUS
<1> SUFFICES /\ BatchSize(c, m)[j + 1] \in Nat
             /\ BatchEnd(c, m, j) \in Nat
             /\ BatchEnd(c, m, j) + Pad(BatchSize(c, m)[j + 1]) = BatchEnd(c, m, j + 1)
             /\ BatchEnd(c, m, j + 1) \in Nat
             /\ BatchEnd(c, m, j + 1) <= 5 * h + 2 * q + 2 * k + 3 * f
  BY DEF h, q, k, f
<1>7. CASE j \in 0..5
  BY <1>1, <1>2, <1>3, <1>4, <1>5, <1>6, <1>7 DEF BatchEnds
<1>8. CASE j \in 6..11
  BY <1>1, <1>2, <1>3, <1>4, <1>5, <1>6, <1>8 DEF BatchEnds
<1> QED
  BY <1>7, <1>8

\* The same for a pass over one token.
LEMMA TokenStep ==
    ASSUME NEW c \in Configs, NEW j \in 0..9
    PROVE  /\ TokenSize(c)[j + 1] \in Nat
           /\ TokenEnd(c, j) \in Nat
           /\ TokenEnd(c, j) + Pad(TokenSize(c)[j + 1]) = TokenEnd(c, j + 1)
           /\ TokenEnd(c, j + 1) \in Nat
           /\ TokenEnd(c, j + 1) <= LayerBytes(c)
           /\ TokenEnd(c, 10) = LayerBytes(c)
<1> DEFINE h == PH(c, 1)  q == PQ(c, 1)  k == PK(c, 1)  f == PI(c, 1)
           h0 == 2 * c.H  q0 == 2 * c.Q  k0 == 2 * c.KV  f0 == 2 * c.I
<1>1. h \in Nat /\ q \in Nat /\ k \in Nat /\ f \in Nat
  BY PaddedFacts
<1>2. h0 \in Nat /\ q0 \in Nat /\ k0 \in Nat /\ f0 \in Nat
  BY ConfigFacts
<1>3. Pad(h0) = h /\ Pad(q0) = q /\ Pad(k0) = k /\ Pad(f0) = f
  <2>1. 2 * 1 * c.H = h0 /\ 2 * 1 * c.Q = q0 /\ 2 * 1 * c.KV = k0 /\ 2 * 1 * c.I = f0
    BY ConfigFacts
  <2> QED
    BY <2>1 DEF PH, PQ, PK, PI
<1>4. TokenSize(c) = << h0, q0, k0, k0, h0, q0, h0, f0, f0, f0 >>
  BY DEF TokenSize
<1>5. \A t : TokenEnd(c, t) = IF t = 0 THEN 0 ELSE TokenEnds(h, q, k, f)[t]
  BY DEF TokenEnd
<1>6. LayerBytes(c) = 3 * h + 2 * q + 2 * k + 3 * f
  BY <1>3 DEF LayerBytes
<1> HIDE DEF h, q, k, f, h0, q0, k0, f0
<1>7. j = 0 \/ j = 1 \/ j = 2 \/ j = 3 \/ j = 4 \/ j = 5 \/ j = 6 \/ j = 7 \/ j = 8 \/ j = 9
  OBVIOUS
<1> QED
  BY <1>1, <1>2, <1>3, <1>4, <1>5, <1>6, <1>7 DEF TokenEnds

\* And for the head.
LEMMA HeadStep ==
    ASSUME NEW c \in Configs, NEW j \in 0..1
    PROVE  /\ HeadSize(c)[j + 1] \in Nat
           /\ HeadEnd(c, j) \in Nat
           /\ HeadEnd(c, j) + Pad(HeadSize(c)[j + 1]) = HeadEnd(c, j + 1)
           /\ HeadEnd(c, j + 1) \in Nat
           /\ HeadEnd(c, j + 1) <= Pad(2 * c.H) + Pad(4 * c.V)
<1>1. 2 * c.H \in Nat /\ 4 * c.V \in Nat /\ 2 * 1 * c.H = 2 * c.H
  BY ConfigFacts
<1>2. PH(c, 1) = Pad(2 * c.H)
  BY <1>1 DEF PH
<1>3. Pad(2 * c.H) \in Nat /\ Pad(4 * c.V) \in Nat
  BY <1>1, PadFacts
<1>4. j = 0 \/ j = 1
  OBVIOUS
<1> QED
  BY <1>1, <1>2, <1>3, <1>4 DEF HeadEnd, HeadEnds, HeadSize

-----------------------------------------------------------------------------
(* The pool is large enough.                                               *)

\* All layers of one token, and the head behind them.
LEMMA TokenRoom ==
    ASSUME NEW c \in Configs, NEW x \in Nat, x <= c.L
    PROVE  /\ LayerBytes(c) \in Nat /\ x * LayerBytes(c) \in Nat
           /\ PH(c, 1) \in Nat
           /\ PH(c, 1) + x * LayerBytes(c) <= Capacity(c)
           /\ PH(c, 1) + x * LayerBytes(c) + Pad(2 * c.H) + Pad(4 * c.V) <= Capacity(c)
<1>1. LayerBytes(c) \in Nat
  BY TokenStep, 0 \in 0..9 DEF TokenEnd
<1>2. x * LayerBytes(c) \in Nat /\ c.L * LayerBytes(c) \in Nat
      /\ x * LayerBytes(c) <= c.L * LayerBytes(c)
  BY <1>1, TimesMonotone, ConfigFacts
<1>3. 2 * c.H \in Nat /\ 4 * c.V \in Nat /\ 2 * 1 * c.H = 2 * c.H /\ Capacity(c) \in Nat
  BY ConfigFacts
<1>4. PH(c, 1) = Pad(2 * c.H) /\ Pad(2 * c.H) \in Nat /\ Pad(4 * c.V) \in Nat
  BY <1>3, PadFacts DEF PH
<1>5. 2 * Pad(2 * c.H) + c.L * LayerBytes(c) + Pad(4 * c.V) <= Capacity(c)
  BY ConfigAssumption
<1> DEFINE lb == x * LayerBytes(c)  all == c.L * LayerBytes(c)
<1> HIDE DEF lb, all
<1>6. lb \in Nat /\ all \in Nat /\ lb <= all /\ 2 * Pad(2 * c.H) + all + Pad(4 * c.V) <= Capacity(c)
  BY <1>2, <1>5 DEF lb, all
<1>7. /\ PH(c, 1) + lb <= Capacity(c)
      /\ PH(c, 1) + lb + Pad(2 * c.H) + Pad(4 * c.V) <= Capacity(c)
  BY <1>3, <1>4, <1>6
<1> QED
  BY <1>1, <1>2, <1>4, <1>7 DEF lb

\* A layer of batched prefill over m tokens of a prompt of N for which the
\* estimate said yes, and the head.
LEMMA BatchRoom ==
    ASSUME cfg \in Configs, NEW N \in Nat, NEW m \in Nat, m <= N, batched_fits(N)
    PROVE  /\ 6 * PH(cfg, m) + 2 * PQ(cfg, m) + 2 * PK(cfg, m) + 3 * PI(cfg, m) <= Capacity(cfg)
           /\ PH(cfg, m) + Pad(2 * cfg.H) + Pad(4 * cfg.V) <= Capacity(cfg)
           /\ PH(cfg, m) <= Capacity(cfg)
<1> DEFINE H == cfg.H  Q == cfg.Q  K == cfg.KV  F == cfg.I
           nh == N * H  nq == N * Q  nk == N * K  nf == N * F
           mh == m * H  mq == m * Q  mk == m * K  mf == m * F
<1>1. H \in Nat /\ Q \in Nat /\ K \in Nat /\ F \in Nat /\ cfg.V \in Nat /\ Capacity(cfg) \in Nat
  BY ConfigFacts
<1>2. /\ mh \in Nat /\ mq \in Nat /\ mk \in Nat /\ mf \in Nat
      /\ nh \in Nat /\ nq \in Nat /\ nk \in Nat /\ nf \in Nat
      /\ mh <= nh /\ mq <= nq /\ mk <= nk /\ mf <= nf
  BY <1>1, TimesMonotone
<1>3. 2 * N * H + N * 2 * (5 * H + 2 * Q + 2 * K + 3 * F)
        = 12 * nh + 4 * nq + 4 * nk + 6 * nf
  BY <1>1
<1>4. Capacity(cfg) - (12 * nh + 4 * nq + 4 * nk + 6 * nf) >= Margin
  BY <1>3 DEF batched_fits
<1>5. /\ Margin \in Nat
      /\ 13 * 255 + Pad(2 * H) + Pad(4 * cfg.V) <= Margin
  BY ConfigAssumption
<1>6. Pad(2 * H) \in Nat /\ Pad(4 * cfg.V) \in Nat
  BY <1>1, PadFacts, 2 * H \in Nat, 4 * cfg.V \in Nat
<1>7. /\ PH(cfg, m) \in Nat /\ PQ(cfg, m) \in Nat /\ PK(cfg, m) \in Nat /\ PI(cfg, m) \in Nat
      /\ PH(cfg, m) <= 2 * mh + 255 /\ PQ(cfg, m) <= 2 * mq + 255
      /\ PK(cfg, m) <= 2 * mk + 255 /\ PI(cfg, m) <= 2 * mf + 255
  BY PaddedBounds
<1> DEFINE p == Pad(2 * H)  v == Pad(4 * cfg.V)  capa == Capacity(cfg)
<1> HIDE DEF nh, nq, nk, nf, mh, mq, mk, mf, p, v, capa
<1>8. /\ 6 * PH(cfg, m) + 2 * PQ(cfg, m) + 2 * PK(cfg, m) + 3 * PI(cfg, m) <= capa
      /\ PH(cfg, m) + p + v <= capa
      /\ PH(cfg, m) <= capa
  <2>1. capa \in Nat /\ p \in Nat /\ v \in Nat
    BY <1>1, <1>6 DEF capa, p, v
  <2>2. capa - (12 * nh + 4 * nq + 4 * nk + 6 * nf) >= Margin /\ 13 * 255 + p + v <= Margin
    BY <1>4, <1>5 DEF capa, p, v
  <2> QED
    BY <1>2, <1>5, <1>7, <2>1, <2>2
<1> QED
  BY <1>8 DEF p, v, capa

-----------------------------------------------------------------------------
(* The inductive invariant.                                                *)

\* Control: which pass is under way, and what batched prefill relies on.
Control ==
    /\ cfg \in Configs /\ enabled \in BOOLEAN
    /\ pc \in {"idle", "next", "layers", "head"}
    /\ pass \in {"batch", "prefill", "decode"}
    /\ n \in Nat /\ row \in Nat /\ row <= n
    /\ layer \in Nat /\ layer < cfg.L
    /\ i \in Nat /\ i <= Asked
    /\ pc \in {"idle", "next"} => i = 0 /\ pass # "batch"
    /\ pc = "idle" => pass = "decode"
    /\ pc = "head" => layer = 0
    /\ pass # "decode" => row < n
    /\ pass = "batch" => batched_fits(n)

Base == IF pass = "batch" THEN PH(cfg, rows) ELSE PH(cfg, 1) + layer * LayerBytes(cfg)
HeadBase == IF pass = "batch" THEN PH(cfg, rows) ELSE PH(cfg, 1) + cfg.L * LayerBytes(cfg)
End(j) == IF pass = "batch" THEN BatchEnd(cfg, rows, j) ELSE TokenEnd(cfg, j)

\* The offset has come no farther than the buffers asked for take.
Reach ==
    /\ offset \in Nat /\ snapshot \in Nat
    /\ offset <= cap /\ snapshot <= cap
    /\ pass = "batch" => snapshot = PH(cfg, rows)
    /\ pc = "layers" => offset <= Base + End(i)
    /\ pc = "head" => offset <= HeadBase + HeadEnd(cfg, i)

\* The buffers that are alive lie below the offset, one above the other, and
\* the hidden state below the mark of batched prefill.
Alive(b) == b = 0 \/ (pc \in {"layers", "head"} /\ b <= i)
Stacked ==
    /\ at \in [Buffer -> Int]
    /\ \A b \in Buffer : at[b] # Null
    /\ \A b \in Buffer : at[b] >= 0 => Alive(b) /\ at[b] + SizeOf(b) <= offset
    /\ \A a, b \in Buffer : (a < b /\ at[a] >= 0 /\ at[b] >= 0) => at[a] + SizeOf(a) <= at[b]
    /\ at[0] >= 0 => at[0] + SizeOf(0) <= snapshot /\ pc # "idle"
    /\ (at[0] >= 0 /\ pc = "next") => pass = "prefill"

ScratchInv == Control /\ Reach /\ Stacked

LEMMA RowsFacts ==
    ASSUME Control
    PROVE  rows \in Nat /\ rows >= 1 /\ (pass = "batch" => rows <= n) /\ cap \in Nat
BY ConfigFacts DEF Control, rows, cap

\* There is room for the next buffer, and it reaches as far as it may.
LEMMA GetRoom ==
    ASSUME Control, Reach, pc \in {"layers", "head"}, i < Asked
    PROVE  /\ Sizes[i + 1] \in Nat
           /\ offset + Pad(Sizes[i + 1]) <= cap
           /\ pc = "layers" => offset + Pad(Sizes[i + 1]) <= Base + End(i + 1)
           /\ pc = "head" => offset + Pad(Sizes[i + 1]) <= HeadBase + HeadEnd(cfg, i + 1)
<1>1. rows \in Nat /\ rows >= 1 /\ (pass = "batch" => rows <= n) /\ cap \in Nat
  BY RowsFacts
<1>2. cfg \in Configs /\ i \in Nat /\ offset \in Nat /\ n \in Nat /\ layer \in Nat /\ layer < cfg.L
  BY DEF Control, Reach
<1>3. CASE pc = "layers" /\ pass = "batch"
  <2>1. i \in 0..11 /\ Sizes = BatchSize(cfg, rows)
    BY <1>2, <1>3 DEF Asked, Sizes
  <2>2. /\ BatchSize(cfg, rows)[i + 1] \in Nat
        /\ BatchEnd(cfg, rows, i) \in Nat
        /\ BatchEnd(cfg, rows, i) + Pad(BatchSize(cfg, rows)[i + 1]) = BatchEnd(cfg, rows, i + 1)
        /\ BatchEnd(cfg, rows, i + 1) \in Nat
        /\ BatchEnd(cfg, rows, i + 1)
             <= 5 * PH(cfg, rows) + 2 * PQ(cfg, rows) + 2 * PK(cfg, rows) + 3 * PI(cfg, rows)
    BY <1>1, <1>2, <2>1, BatchStep
  <2>3. 6 * PH(cfg, rows) + 2 * PQ(cfg, rows) + 2 * PK(cfg, rows) + 3 * PI(cfg, rows) <= Capacity(cfg)
    BY <1>1, <1>2, <1>3, BatchRoom DEF Control
  <2>4. PH(cfg, rows) \in Nat /\ PQ(cfg, rows) \in Nat /\ PK(cfg, rows) \in Nat /\ PI(cfg, rows) \in Nat
    BY <1>1, <1>2, PaddedFacts
  <2>5. offset <= PH(cfg, rows) + BatchEnd(cfg, rows, i)
    BY <1>3 DEF Reach, Base, End
  <2>6. Pad(BatchSize(cfg, rows)[i + 1]) \in Nat
    BY <2>2, PadFacts
  <2>7. /\ offset + Pad(BatchSize(cfg, rows)[i + 1]) <= PH(cfg, rows) + BatchEnd(cfg, rows, i + 1)
        /\ PH(cfg, rows) + BatchEnd(cfg, rows, i + 1) <= Capacity(cfg)
    BY <1>1, <1>2, <2>2, <2>3, <2>4, <2>5, <2>6 DEF cap
  <2>8. offset + Pad(BatchSize(cfg, rows)[i + 1]) <= Capacity(cfg)
    BY <1>1, <1>2, <2>2, <2>4, <2>6, <2>7 DEF cap
  <2> QED
    BY <1>3, <2>1, <2>2, <2>7, <2>8 DEF Base, End, cap
<1>4. CASE pc = "layers" /\ pass # "batch"
  <2>1. i \in 0..9 /\ Sizes = TokenSize(cfg)
    BY <1>2, <1>4 DEF Asked, Sizes
  <2>2. /\ TokenSize(cfg)[i + 1] \in Nat
        /\ TokenEnd(cfg, i) \in Nat
        /\ TokenEnd(cfg, i) + Pad(TokenSize(cfg)[i + 1]) = TokenEnd(cfg, i + 1)
        /\ TokenEnd(cfg, i + 1) \in Nat
        /\ TokenEnd(cfg, i + 1) <= LayerBytes(cfg)
    BY <1>2, <2>1, TokenStep
  <2> DEFINE lb == LayerBytes(cfg)  below == layer * lb  with == (layer + 1) * lb
  <2>3. /\ lb \in Nat /\ below \in Nat /\ with \in Nat
        /\ PH(cfg, 1) \in Nat /\ PH(cfg, 1) + with <= Capacity(cfg)
    <3>1. layer + 1 \in Nat /\ layer + 1 <= cfg.L /\ layer <= cfg.L
      BY <1>2, ConfigFacts
    <3> QED
      BY <1>2, <3>1, TokenRoom
  <2>4. with = below + lb
    BY <1>2, <2>3
  <2>5. offset <= PH(cfg, 1) + below + TokenEnd(cfg, i)
    BY <1>4 DEF Reach, Base, End
  <2>6. Pad(TokenSize(cfg)[i + 1]) \in Nat
    BY <2>2, PadFacts
  <2> HIDE DEF lb, below, with
  <2>7. TokenEnd(cfg, i + 1) <= lb
    BY <2>2 DEF lb
  <2>8. /\ offset + Pad(TokenSize(cfg)[i + 1]) <= PH(cfg, 1) + below + TokenEnd(cfg, i + 1)
        /\ offset + Pad(TokenSize(cfg)[i + 1]) <= Capacity(cfg)
    BY <1>1, <1>2, <2>2, <2>3, <2>4, <2>5, <2>6, <2>7 DEF cap
  <2> QED
    BY <1>4, <2>1, <2>2, <2>8 DEF Base, End, cap, below, lb
<1>5. CASE pc = "head"
  <2>1. i \in 0..1 /\ Sizes = HeadSize(cfg)
    BY <1>2, <1>5 DEF Asked, Sizes
  <2>2. /\ HeadSize(cfg)[i + 1] \in Nat
        /\ HeadEnd(cfg, i) \in Nat
        /\ HeadEnd(cfg, i) + Pad(HeadSize(cfg)[i + 1]) = HeadEnd(cfg, i + 1)
        /\ HeadEnd(cfg, i + 1) \in Nat
        /\ HeadEnd(cfg, i + 1) <= Pad(2 * cfg.H) + Pad(4 * cfg.V)
    BY <1>2, <2>1, HeadStep
  <2>3. HeadBase \in Nat /\ HeadBase + Pad(2 * cfg.H) + Pad(4 * cfg.V) <= Capacity(cfg)
    <3>1. CASE pass = "batch"
      BY <1>1, <1>2, <3>1, BatchRoom, PaddedFacts DEF HeadBase, Control
    <3>2. CASE pass # "batch"
      <4>1. /\ PH(cfg, 1) \in Nat /\ cfg.L * LayerBytes(cfg) \in Nat
            /\ PH(cfg, 1) + cfg.L * LayerBytes(cfg) + Pad(2 * cfg.H) + Pad(4 * cfg.V) <= Capacity(cfg)
        BY <1>2, ConfigFacts, TokenRoom
      <4> QED
        BY <3>2, <4>1 DEF HeadBase
    <3> QED
      BY <3>1, <3>2
  <2>4. Pad(HeadSize(cfg)[i + 1]) \in Nat /\ Pad(2 * cfg.H) \in Nat /\ Pad(4 * cfg.V) \in Nat
    BY <1>2, <2>2, PadFacts, ConfigFacts, 2 * cfg.H \in Nat, 4 * cfg.V \in Nat
  <2>5. offset <= HeadBase + HeadEnd(cfg, i)
    BY <1>5 DEF Reach
  <2>6. /\ offset + Pad(HeadSize(cfg)[i + 1]) <= HeadBase + HeadEnd(cfg, i + 1)
        /\ offset + Pad(HeadSize(cfg)[i + 1]) <= Capacity(cfg)
    BY <1>1, <1>2, <2>2, <2>3, <2>4, <2>5 DEF cap
  <2> QED
    BY <1>5, <2>1, <2>2, <2>6 DEF cap
<1> QED
  BY <1>3, <1>4, <1>5

-----------------------------------------------------------------------------
(* Every step keeps the invariant.                                         *)

LEMMA InitHolds == ScratchInit => ScratchInv
<1> SUFFICES ASSUME ScratchInit PROVE ScratchInv
  OBVIOUS
<1>1. cfg \in Configs /\ cfg.L \in Nat /\ cfg.L >= 1 /\ cap \in Nat
  BY ConfigFacts DEF ScratchInit, cap
<1>2. Control
  BY <1>1 DEF ScratchInit, Control, Asked
<1>3. Reach
  BY <1>1 DEF ScratchInit, Reach
<1>4. Stacked
  BY DEF ScratchInit, Stacked, NoBuffers, Buffer, Free, Null
<1> QED
  BY <1>2, <1>3, <1>4 DEF ScratchInv

\* reset() and the get of the hidden state, when there is room for it.
LEMMA BeginFacts ==
    ASSUME cfg \in Configs, NEW m \in Nat, PH(cfg, m) <= Capacity(cfg), Begin(m)
    PROVE  /\ offset' = PH(cfg, m) /\ snapshot' = PH(cfg, m)
           /\ at' = [NoBuffers EXCEPT ![0] = 0]
           /\ pc' = "layers" /\ layer' = 0 /\ i' = 0
           /\ 2 * m * cfg.H \in Nat /\ 2 * m * cfg.H <= PH(cfg, m)
           /\ PH(cfg, m) \in Nat /\ Capacity(cfg) \in Nat
<1>1. 2 * m * cfg.H \in Nat /\ PH(cfg, m) \in Nat /\ Capacity(cfg) \in Nat
  BY PaddedFacts, ConfigFacts
<1>2. 2 * m * cfg.H <= PH(cfg, m)
  BY <1>1, PadFacts DEF PH
<1>3. Pad(2 * m * cfg.H) = PH(cfg, m)
  BY DEF PH
<1> DEFINE sz == 2 * m * cfg.H
<1>4. Pad(sz) = PH(cfg, m) /\ offset' = OffsetAfter(0, sz) /\ snapshot' = OffsetAfter(0, sz)
      /\ at' = [NoBuffers EXCEPT ![0] = Got(0, sz)]
  BY <1>3 DEF Begin
<1> HIDE DEF sz
<1>5. OffsetAfter(0, sz) = PH(cfg, m) /\ Got(0, sz) = 0
  BY <1>1, <1>4 DEF OffsetAfter, Got, cap
<1> QED
  BY <1>1, <1>2, <1>4, <1>5 DEF Begin

\* What a pass begins with satisfies the invariant.
LEMMA BeginHolds ==
    ASSUME cfg \in Configs, NEW m \in Nat, PH(cfg, m) <= Capacity(cfg), Begin(m),
           UNCHANGED cfg, rows' = m
    PROVE  Reach' /\ Stacked'
<1>1. /\ offset' = PH(cfg, m) /\ snapshot' = PH(cfg, m)
      /\ at' = [NoBuffers EXCEPT ![0] = 0]
      /\ pc' = "layers" /\ layer' = 0 /\ i' = 0
      /\ 2 * m * cfg.H \in Nat /\ 2 * m * cfg.H <= PH(cfg, m)
      /\ PH(cfg, m) \in Nat /\ Capacity(cfg) \in Nat
  BY BeginFacts
<1>2. Reach'
  <2>1. (pass' # "batch") => m = 1
    BY DEF rows
  <2>2. pass' = "batch" => Base' = PH(cfg, m) /\ End(i)' = 0
    BY <1>1 DEF Base, End, BatchEnd
  <2>3. pass' # "batch" => Base' = PH(cfg, m) /\ End(i)' = 0
    <3>1. LayerBytes(cfg) \in Nat /\ 0 * LayerBytes(cfg) = 0
      BY TokenRoom, ConfigFacts
    <3> QED
      BY <1>1, <2>1, <3>1 DEF Base, End, TokenEnd
  <2> QED
    BY <1>1, <2>2, <2>3 DEF Reach, cap
<1>3. Stacked'
  <2>1. /\ at' \in [Buffer -> Int] /\ at'[0] = 0
        /\ \A b \in Buffer : b # 0 => at'[b] = Free
    BY <1>1 DEF NoBuffers, Buffer, Free
  <2>2. SizeOf(0)' = 2 * m * cfg.H
    BY DEF SizeOf
  <2> DEFINE sz == 2 * m * cfg.H
  <2>3. SizeOf(0)' = sz /\ sz \in Nat /\ sz <= offset' /\ sz <= snapshot' /\ offset' \in Nat /\ snapshot' \in Nat
    BY <1>1, <2>2
  <2> HIDE DEF sz
  <2> QED
    BY <1>1, <2>1, <2>3 DEF Stacked, Alive, Free, Null, Buffer
<1> QED
  BY <1>2, <1>3

LEMMA GenerateHolds ==
    ASSUME ScratchInv, NEW N \in Prompts, NEW s \in Hydrated, Generate(N, s)
    PROVE  ScratchInv'
<1>1. N \in Nat /\ s \in Nat /\ s <= N /\ N >= 1
  BY ConfigAssumption DEF Generate
<1>2. cfg \in Configs /\ cfg' = cfg /\ n' = N /\ row' = s /\ pc = "idle" /\ UNCHANGED enabled
  BY DEF ScratchInv, Control, Generate
<1>3. CASE s < N /\ enabled /\ batched_fits(N) /\ pass' = "batch" /\ Begin(N - s)
  <2> DEFINE m == N - s
  <2>1. m \in Nat /\ m <= N /\ m >= 1
    BY <1>1, <1>3
  <2>2. rows' = m
    BY <1>2, <1>3 DEF rows
  <2>3. PH(cfg, m) <= Capacity(cfg)
    BY <1>1, <1>2, <1>3, <2>1, BatchRoom
  <2>4. Begin(m)
    BY <1>3
  <2> HIDE DEF m
  <2>5. Reach' /\ Stacked'
    BY <1>2, <2>1, <2>2, <2>3, <2>4, BeginHolds
  <2>6. batched_fits(n)'
    BY <1>2, <1>3 DEF batched_fits
  <2>7. pc' = "layers" /\ layer' = 0 /\ i' = 0
    BY <2>4 DEF Begin
  <2>8. Control'
    BY <1>1, <1>2, <1>3, <2>6, <2>7, ConfigFacts DEF Control, Asked, ScratchInv
  <2> QED
    BY <2>5, <2>8 DEF ScratchInv
<1>4. CASE /\ pc' = "next" /\ pass' # "batch" /\ pass' \in {"prefill", "decode"}
           /\ pass' = "prefill" => s < N
           /\ UNCHANGED <<offset, layer, i, snapshot, at>>
  <2>1. Control'
    BY <1>1, <1>2, <1>4 DEF ScratchInv, Control, Asked
  <2>2. Reach'
    BY <1>2, <1>4 DEF ScratchInv, Reach, cap
  <2>3. \A b \in Buffer : at[b] < 0 /\ at[b] # Null
    BY <1>2 DEF ScratchInv, Stacked, Alive, Buffer
  <2>4. Stacked'
    BY <1>2, <1>4, <2>3 DEF ScratchInv, Stacked, Buffer
  <2> QED
    BY <2>1, <2>2, <2>4 DEF ScratchInv
<1>5. \/ s < N /\ enabled /\ batched_fits(N) /\ pass' = "batch" /\ Begin(N - s)
      \/ s < N /\ pass' = "prefill" /\ pc' = "next" /\ UNCHANGED <<offset, layer, i, snapshot, at>>
      \/ pass' = "decode" /\ pc' = "next" /\ UNCHANGED <<offset, layer, i, snapshot, at>>
  BY DEF Generate
<1> QED
  BY <1>3, <1>4, <1>5

LEMMA BeginTokenHolds ==
    ASSUME ScratchInv, BeginToken
    PROVE  ScratchInv'
<1>1. /\ cfg \in Configs /\ UNCHANGED <<cfg, enabled, pass, n, row>> /\ pc = "next"
      /\ Begin(1) /\ pass # "batch"
  BY DEF ScratchInv, Control, BeginToken
<1>2. PH(cfg, 1) <= Capacity(cfg)
  <2>1. /\ LayerBytes(cfg) \in Nat /\ PH(cfg, 1) \in Nat
        /\ PH(cfg, 1) + 0 * LayerBytes(cfg) <= Capacity(cfg) /\ Capacity(cfg) \in Nat
    BY <1>1, TokenRoom, ConfigFacts
  <2>2. 0 * LayerBytes(cfg) = 0
    BY <2>1
  <2> QED
    BY <2>1, <2>2
<1>3. rows' = 1
  BY <1>1 DEF rows
<1>4. Reach' /\ Stacked'
  BY <1>1, <1>2, <1>3, BeginHolds
<1>5. Control'
  BY <1>1, ConfigFacts DEF ScratchInv, Control, Asked, Begin
<1> QED
  BY <1>4, <1>5 DEF ScratchInv

\* The sizes of the buffers asked for so far are natural numbers.
LEMMA BelowSizes ==
    ASSUME Control, NEW b \in Buffer, b <= i
    PROVE  SizeOf(b) \in Int
<1>1. /\ cfg \in Configs /\ rows \in Nat /\ i \in Nat /\ i <= Asked
      /\ cfg.H \in Nat /\ cfg.Q \in Nat /\ cfg.KV \in Nat /\ cfg.I \in Nat /\ cfg.V \in Nat
  BY RowsFacts, ConfigFacts DEF Control
<1>2. CASE b = 0
  <2>1. 2 * rows * cfg.H \in Nat
    BY <1>1, PaddedFacts
  <2> QED
    BY <1>2, <2>1 DEF SizeOf
<1>3. CASE b # 0 /\ pc # "head" /\ pass = "batch"
  <2>1. b - 1 \in 0..11 /\ (b - 1) + 1 = b
    BY <1>1, <1>3 DEF Asked, Buffer
  <2>2. BatchSize(cfg, rows)[b] \in Nat
    BY <1>1, <2>1, BatchStep
  <2> QED
    BY <1>3, <2>2 DEF SizeOf, Sizes
<1>4. CASE b # 0 /\ pc # "head" /\ pass # "batch"
  <2>1. b - 1 \in 0..9 /\ (b - 1) + 1 = b
    BY <1>1, <1>4 DEF Asked, Buffer
  <2>2. TokenSize(cfg)[b] \in Nat
    BY <1>1, <2>1, TokenStep
  <2> QED
    BY <1>4, <2>2 DEF SizeOf, Sizes
<1>5. CASE b # 0 /\ pc = "head"
  <2>1. b - 1 \in 0..1 /\ (b - 1) + 1 = b
    BY <1>1, <1>5 DEF Asked, Buffer
  <2>2. HeadSize(cfg)[b] \in Nat
    BY <1>1, <2>1, HeadStep
  <2> QED
    BY <1>5, <2>2 DEF SizeOf, Sizes
<1> QED
  BY <1>2, <1>3, <1>4, <1>5

LEMMA AliveSizes ==
    ASSUME Control, NEW b \in Buffer, Alive(b)
    PROVE  SizeOf(b) \in Int
<1>1. i \in Nat
  BY DEF Control
<1> QED
  BY <1>1, BelowSizes DEF Alive, Buffer

LEMMA GetHolds ==
    ASSUME ScratchInv, Get
    PROVE  ScratchInv'
<1> DEFINE sz == Sizes[i + 1]
<1>1. /\ pc \in {"layers", "head"} /\ i < Asked /\ i' = i + 1
      /\ UNCHANGED <<cfg, enabled, pc, pass, n, row, layer, snapshot>>
      /\ at' = [at EXCEPT ![i + 1] = Got(offset, sz)]
      /\ offset' = OffsetAfter(offset, sz)
  BY DEF Get
<1>2. Control /\ Reach /\ Stacked
  BY DEF ScratchInv
<1>3. /\ sz \in Nat /\ offset + Pad(sz) <= cap
      /\ pc = "layers" => offset + Pad(sz) <= Base + End(i + 1)
      /\ pc = "head" => offset + Pad(sz) <= HeadBase + HeadEnd(cfg, i + 1)
  BY <1>1, <1>2, GetRoom
<1>4. i \in Nat /\ Asked \in {2, 10, 12} /\ offset \in Nat /\ cap \in Nat
  BY <1>2, RowsFacts DEF Control, Reach, Asked
<1>5. Asked' = Asked /\ rows' = rows /\ Sizes' = Sizes /\ cap' = cap
  BY <1>1 DEF Asked, rows, Sizes, cap
<1>6. \A b : SizeOf(b)' = SizeOf(b)
  BY <1>1, <1>5 DEF SizeOf
<1>7. SizeOf(i + 1) = sz
  BY <1>4 DEF SizeOf
<1>8. Pad(sz) \in Nat /\ sz <= Pad(sz)
  BY <1>3, PadFacts
<1> HIDE DEF sz
<1>9. offset' = offset + Pad(sz) /\ Got(offset, sz) = offset
  BY <1>1, <1>3, <1>4, <1>8 DEF OffsetAfter, Got
<1>10. Control'
  BY <1>1, <1>2, <1>4, <1>5 DEF Control, batched_fits
<1>11. Reach'
  <2>1. Base' = Base /\ HeadBase' = HeadBase /\ End(i)' = End(i + 1) /\ HeadEnd(cfg, i)' = HeadEnd(cfg, i + 1)
    BY <1>1, <1>5 DEF Base, HeadBase, End
  <2> QED
    BY <1>1, <1>2, <1>3, <1>4, <1>5, <1>8, <1>9, <2>1 DEF Reach
<1>12. Stacked'
  <2>1. i + 1 \in Buffer /\ i + 1 # 0 /\ 0 \in Buffer
    BY <1>1, <1>4 DEF Buffer
  <2>2. at \in [Buffer -> Int] /\ at' = [at EXCEPT ![i + 1] = offset]
    BY <1>1, <1>2, <1>9 DEF Stacked
  <2>3. \A b \in Buffer : b # i + 1 => at'[b] = at[b]
    BY <2>2
  <2>4. at'[i + 1] = offset /\ at'[0] = at[0] /\ at' \in [Buffer -> Int]
    BY <1>4, <2>1, <2>2
  <2>5. \A b \in Buffer : at[b] >= 0 => b <= i /\ at[b] + SizeOf(b) <= offset
    BY <1>1, <1>2, <1>4 DEF Stacked, Alive, Buffer
  <2>6. \A b \in Buffer : b \in Int /\ at[b] \in Int
    BY <2>2 DEF Buffer
  <2>7. \A b \in Buffer : at'[b] >= 0 => Alive(b)' /\ at'[b] + SizeOf(b)' <= offset'
    <3> SUFFICES ASSUME NEW b \in Buffer, at'[b] >= 0
                 PROVE  Alive(b)' /\ at'[b] + SizeOf(b) <= offset'
      BY <1>6
    <3>1. CASE b = i + 1
      BY <1>1, <1>3, <1>4, <1>7, <1>8, <1>9, <2>4, <3>1 DEF Alive
    <3>2. CASE b # i + 1
      <4>1. at[b] >= 0 /\ at'[b] = at[b] /\ b <= i /\ at[b] + SizeOf(b) <= offset
        BY <2>3, <2>5, <3>2
      <4>2. Alive(b)'
        BY <1>1, <1>4, <2>6, <4>1 DEF Alive
      <4>3. SizeOf(b) \in Int
        BY <1>2, <1>4, <4>1, BelowSizes
      <4> QED
        BY <1>4, <1>8, <1>9, <2>6, <4>1, <4>2, <4>3
    <3> QED
      BY <3>1, <3>2
  <2>8. \A a, b \in Buffer : (a < b /\ at'[a] >= 0 /\ at'[b] >= 0) => at'[a] + SizeOf(a)' <= at'[b]
    <3> SUFFICES ASSUME NEW a \in Buffer, NEW b \in Buffer, a < b, at'[a] >= 0, at'[b] >= 0
                 PROVE  at'[a] + SizeOf(a) <= at'[b]
      BY <1>6
    <3>1. CASE b = i + 1
      BY <2>3, <2>4, <2>5, <2>6, <3>1
    <3>2. CASE b # i + 1
      <4>1. b <= i /\ at'[b] = at[b] /\ a # i + 1
        BY <1>4, <2>3, <2>5, <2>6, <3>2
      <4> QED
        BY <1>2, <2>3, <4>1 DEF Stacked
    <3> QED
      BY <3>1, <3>2
  <2>9. \A b \in Buffer : at'[b] # Null
    BY <1>2, <1>4, <2>3, <2>4 DEF Stacked, Null
  <2>10. at'[0] >= 0 => at'[0] + SizeOf(0)' <= snapshot' /\ pc' # "idle"
    BY <1>1, <1>2, <1>6, <2>4 DEF Stacked
  <2> QED
    BY <1>1, <2>4, <2>7, <2>8, <2>9, <2>10 DEF Stacked
<1> QED
  BY <1>10, <1>11, <1>12 DEF ScratchInv

LEMMA LayerDoneHolds ==
    ASSUME ScratchInv, LayerDone
    PROVE  ScratchInv'
<1>1. /\ pc = "layers" /\ i = Asked /\ i' = 0
      /\ UNCHANGED <<cfg, enabled, pass, n, snapshot>>
      /\ at' = [NoBuffers EXCEPT ![0] = at[0]]
      /\ offset' = IF pass = "batch" THEN rewind_to(snapshot) ELSE offset
      /\ layer' = IF layer + 1 < cfg.L THEN layer + 1 ELSE 0
  BY DEF LayerDone
<1>2. \/ layer + 1 < cfg.L /\ UNCHANGED <<pc, row>>
      \/ ~(layer + 1 < cfg.L) /\ pass = "prefill" /\ row + 1 < n /\ pc' = "next" /\ row' = row + 1
      \/ ~(layer + 1 < cfg.L) /\ pc' = "head" /\ UNCHANGED row
  BY DEF LayerDone
<1>3. Control /\ Reach /\ Stacked
  BY DEF ScratchInv
<1>4. /\ cfg \in Configs /\ cfg.L \in Nat /\ cfg.L >= 1 /\ layer \in Nat /\ layer < cfg.L
      /\ n \in Nat /\ row \in Nat /\ offset \in Nat /\ snapshot \in Nat /\ snapshot <= cap
      /\ offset <= cap /\ cap \in Nat /\ rows \in Nat
  BY <1>3, ConfigFacts, RowsFacts DEF Control, Reach
<1>5. rows' = rows /\ cap' = cap
  BY <1>1, <1>2 DEF rows, cap
<1>6. offset' = IF pass = "batch" THEN snapshot ELSE offset
  BY <1>1, <1>4 DEF rewind_to
<1>7. Control'
  BY <1>1, <1>2, <1>3, <1>4 DEF Control, Asked, batched_fits
<1>8. Reach'
  <2>1. CASE pass = "batch"
    <3>1. PH(cfg, rows) \in Nat /\ snapshot = PH(cfg, rows) /\ offset' = snapshot
      BY <1>3, <1>4, <1>6, <2>1, PaddedFacts DEF Reach
    <3>2. Base' = PH(cfg, rows) /\ HeadBase' = PH(cfg, rows)
      BY <1>1, <1>5, <2>1 DEF Base, HeadBase
    <3>3. End(i)' = 0 /\ HeadEnd(cfg, i)' = 0
      BY <1>1 DEF End, HeadEnd, BatchEnd, TokenEnd
    <3> QED
      BY <1>1, <1>4, <1>5, <2>1, <3>1, <3>2, <3>3 DEF Reach
  <2>2. CASE pass # "batch"
    <3> DEFINE lb == LayerBytes(cfg)
    <3>1. lb \in Nat /\ PH(cfg, 1) \in Nat /\ TokenEnd(cfg, 10) = lb
      BY <1>4, TokenRoom, TokenStep, 0 \in 0..9
    <3>2. offset <= PH(cfg, 1) + layer * lb + lb
      BY <1>1, <1>3, <2>2, <3>1 DEF Reach, Base, End, Asked
    <3>3. layer * lb + lb = (layer + 1) * lb /\ layer * lb \in Nat
      BY <1>4, <3>1
    <3>4. offset <= PH(cfg, 1) + (layer + 1) * lb
      BY <1>4, <3>1, <3>2, <3>3
    <3>5. End(i)' = 0 /\ HeadEnd(cfg, i)' = 0
      BY <1>1 DEF End, HeadEnd, BatchEnd, TokenEnd
    <3>6. offset' = offset
      BY <1>6, <2>2
    <3>7. CASE layer + 1 < cfg.L
      <4>1. pc' = "layers" /\ layer' = layer + 1
        BY <1>1, <1>2, <3>7
      <4>2. Base' = PH(cfg, 1) + (layer + 1) * lb
        BY <1>1, <2>2, <4>1 DEF Base
      <4>3. (layer + 1) * lb \in Nat
        BY <1>4, <3>1
      <4>4. Base' + 0 = Base'
        BY <3>1, <4>2, <4>3
      <4> QED
        BY <1>1, <1>4, <1>5, <2>2, <3>4, <3>5, <3>6, <4>1, <4>2, <4>4 DEF Reach
    <3>8. CASE ~(layer + 1 < cfg.L)
      <4>1. layer + 1 = cfg.L
        BY <1>4, <3>8
      <4>2. HeadBase' = PH(cfg, 1) + (layer + 1) * lb
        BY <1>1, <2>2, <4>1 DEF HeadBase
      <4>3. (layer + 1) * lb \in Nat
        BY <1>4, <3>1
      <4>4. HeadBase' + 0 = HeadBase'
        BY <3>1, <4>2, <4>3
      <4>5. pc' # "layers"
        BY <1>2, <3>8
      <4> QED
        BY <1>1, <1>4, <1>5, <2>2, <3>4, <3>5, <3>6, <4>2, <4>4, <4>5 DEF Reach
    <3> QED
      BY <3>7, <3>8
  <2> QED
    BY <2>1, <2>2
<1>9. Stacked'
  <2>1. /\ at' \in [Buffer -> Int] /\ at'[0] = at[0] /\ 0 \in Buffer
        /\ \A b \in Buffer : b # 0 => at'[b] = Free
    BY <1>1, <1>3 DEF NoBuffers, Buffer, Free, Stacked
  <2>2. SizeOf(0)' = SizeOf(0)
    BY <1>1, <1>5 DEF SizeOf
  <2>3. at[0] >= 0 => at[0] + SizeOf(0) <= snapshot /\ at[0] + SizeOf(0) <= offset
    BY <1>3, <2>1 DEF Stacked
  <2>4. at[0] >= 0 => at'[0] + SizeOf(0)' <= offset'
    BY <1>6, <2>1, <2>2, <2>3
  <2>5. pc' # "idle" /\ (pc' = "next" => pass' = "prefill")
    BY <1>1, <1>2
  <2>6. \A b \in Buffer : b # 0 => ~(at'[b] >= 0) /\ at'[b] # Null
    BY <2>1 DEF Free, Null
  <2>7. at'[0] # Null
    BY <1>3, <2>1 DEF Stacked
  <2>8. \A b \in Buffer : at'[b] >= 0 => Alive(b)' /\ at'[b] + SizeOf(b)' <= offset'
    BY <2>1, <2>4, <2>6 DEF Alive
  <2>9. \A a, b \in Buffer : ~(a < b /\ at'[a] >= 0 /\ at'[b] >= 0)
    BY <2>6 DEF Buffer
  <2> QED
    BY <1>1, <2>1, <2>2, <2>3, <2>5, <2>6, <2>7, <2>8, <2>9 DEF Stacked
<1> QED
  BY <1>7, <1>8, <1>9 DEF ScratchInv

LEMMA HeadDoneHolds ==
    ASSUME ScratchInv, HeadDone
    PROVE  ScratchInv'
<1>1. /\ pc = "head" /\ i' = 0 /\ at' = NoBuffers /\ pc' = "next" /\ pass' = "decode"
      /\ UNCHANGED <<cfg, enabled, offset, n, row, layer, snapshot>>
  BY DEF HeadDone
<1>2. Control'
  BY <1>1 DEF ScratchInv, Control, Asked
<1>3. Reach'
  BY <1>1 DEF ScratchInv, Reach, cap
<1>4. Stacked'
  BY <1>1 DEF Stacked, NoBuffers, Buffer, Free, Null
<1> QED
  BY <1>2, <1>3, <1>4 DEF ScratchInv

LEMMA ReturnHolds ==
    ASSUME ScratchInv, Return
    PROVE  ScratchInv'
<1>1. /\ pc = "next" /\ pass = "decode" /\ pc' = "idle" /\ n' = 0 /\ row' = 0
      /\ UNCHANGED <<cfg, enabled, offset, pass, layer, i, snapshot, at>>
  BY DEF Return
<1>2. Control'
  BY <1>1 DEF ScratchInv, Control, Asked
<1>3. Reach'
  BY <1>1 DEF ScratchInv, Reach, cap
<1>4. \A b \in Buffer : ~(at[b] >= 0)
  BY <1>1 DEF ScratchInv, Stacked, Alive, Buffer
<1>5. Stacked'
  BY <1>1, <1>4 DEF ScratchInv, Stacked, Buffer
<1> QED
  BY <1>2, <1>3, <1>5 DEF ScratchInv

LEMMA StutterHolds ==
    ASSUME ScratchInv, UNCHANGED scratchVars
    PROVE  ScratchInv'
BY DEF ScratchInv, Control, Reach, Stacked, Alive, Asked, rows, cap, Base, HeadBase, End,
       SizeOf, Sizes, scratchVars, batched_fits

LEMMA NextHolds ==
    ASSUME ScratchInv, [ScratchNext]_scratchVars
    PROVE  ScratchInv'
BY GenerateHolds, BeginTokenHolds, GetHolds, LayerDoneHolds, HeadDoneHolds, ReturnHolds,
   StutterHolds DEF ScratchNext

-----------------------------------------------------------------------------
(* What follows.                                                           *)

\* The variables keep their types: the offset and the mark stay in the pool.
THEOREM TypeCorrect == ScratchSpec => []ScratchTypeOK
<1>1. ScratchInv => ScratchTypeOK
  BY ConfigFacts DEF ScratchInv, Control, Reach, Stacked, ScratchTypeOK, Asked
<1> QED
  BY <1>1, InitHolds, NextHolds, PTL DEF ScratchSpec

\* No layer and no head is handed a null buffer, for any model and prompt.
THEOREM PoolSuffices == ScratchSpec => []NeverExhausted
<1>1. ScratchInv => NeverExhausted
  BY DEF ScratchInv, Stacked, NeverExhausted
<1> QED
  BY <1>1, InitHolds, NextHolds, PTL DEF ScratchSpec

\* Buffers that are alive share no byte and lie in the pool.
THEOREM BuffersDisjoint == ScratchSpec => []LiveDisjoint
<1>1. ASSUME ScratchInv PROVE LiveDisjoint
  <2> SUFFICES ASSUME NEW a \in Buffer, at[a] >= 0
               PROVE  /\ at[a] + SizeOf(a) <= cap
                      /\ \A b \in Buffer : a # b /\ at[b] >= 0 =>
                           at[a] + SizeOf(a) <= at[b] \/ at[b] + SizeOf(b) <= at[a]
    BY DEF LiveDisjoint
  <2>1. /\ at \in [Buffer -> Int] /\ Alive(a) /\ at[a] + SizeOf(a) <= offset
        /\ offset \in Nat /\ offset <= cap /\ cap \in Nat
    BY <1>1, RowsFacts DEF ScratchInv, Stacked, Reach
  <2>2. SizeOf(a) \in Int
    BY <1>1, <2>1, AliveSizes DEF ScratchInv
  <2>3. at[a] + SizeOf(a) <= cap
    BY <2>1, <2>2
  <2>4. \A b \in Buffer : a # b => a < b \/ b < a
    BY DEF Buffer
  <2> QED
    BY <1>1, <2>3, <2>4 DEF ScratchInv, Stacked
<1> QED
  BY <1>1, InitHolds, NextHolds, PTL DEF ScratchSpec

-----------------------------------------------------------------------------

MappedSteps == {"norms", "kv", "scratch", "layers", "output", "stream", "ready"}
AfterNorms == MappedSteps \ {"norms"}

-----------------------------------------------------------------------------
(* Ownership: what is allocated and not remembered is at most the          *)
(* registration of the file.                                               *)

Owned ==
    /\ kept \subseteq mem
    /\ mem \subseteq kept \cup The({"fileReg"})
    /\ region \in {"none", "file", "output"}
    /\ region = "file" => The({"file", "fileReg"}) \subseteq mem
    /\ region = "output" => The({"file", "outputReg"}) \subseteq mem
    /\ step \in {"start", "map"} => mem = {} /\ kept = {} /\ region = "none"
    /\ step \in MappedSteps => The({"file"}) \subseteq kept
    /\ step = "gone" => kept = {}

LEMMA OwnedInit == Init => Owned
BY DEF Init, Owned, The, MappedSteps

\* The actions of load.
LEMMA OwnedLoad ==
    ASSUME Owned, Load
    PROVE  Owned'
<1>1. CASE Precheck
  BY <1>1 DEF Owned, Precheck, MappedSteps, The, plan, weights, budget
<1>2. CASE MapWeights
  BY <1>2 DEF Owned, MapWeights, Registered, Fail, MappedSteps, The
<1>3. CASE NormLayer
  BY <1>3 DEF Owned, NormLayer, Keep, Fail, MappedSteps, The
<1>4. CASE OutNorm
  BY <1>4 DEF Owned, OutNorm, Keep, Fail, MappedSteps, The
<1>5. CASE InitKV
  <2>1. /\ step = "kv" /\ UNCHANGED region
        /\ \/ step' = "scratch" /\ \E r : Keep(r)
           \/ Fail /\ UNCHANGED <<mem, kept>>
    BY <1>5 DEF InitKV
  <2> QED
    BY <2>1 DEF Owned, Keep, Fail, MappedSteps, The
<1>6. CASE InitScratch
  BY <1>6 DEF Owned, InitScratch, Keep, Fail, MappedSteps, The
<1>7. CASE CopyLayer
  BY <1>7 DEF Owned, CopyLayer, Keep, MappedSteps, The
<1>8. CASE LayersDone
  BY <1>8 DEF Owned, LayersDone, AfterLayers, MappedSteps, The
<1>9. CASE MapOutput
  BY <1>9 DEF Owned, MapOutput, Keep, MappedSteps, The
<1>10. CASE CopyOutput
  BY <1>10 DEF Owned, CopyOutput, Keep, AfterOutput, MappedSteps, The
<1>11. CASE SkipOutput
  BY <1>11 DEF Owned, SkipOutput, AfterOutput, MappedSteps, The
<1>12. CASE FinishLoad
  BY <1>12 DEF Owned, FinishLoad, Keep, Fail, MappedSteps, The
<1> QED
  BY <1>1, <1>2, <1>3, <1>4, <1>5, <1>6, <1>7, <1>8, <1>9, <1>10, <1>11, <1>12 DEF Load

LEMMA OwnedNext ==
    ASSUME Owned, [Next]_vars
    PROVE  Owned'
<1>1. CASE Load
  BY <1>1, OwnedLoad
<1>2. CASE Exit
  BY <1>2 DEF Owned, Exit, unload, Freed, MappedSteps, The
<1>3. CASE Destroy
  BY <1>3 DEF Owned, Destroy, unload, Freed, MappedSteps, The
<1>4. CASE UNCHANGED loaderVars
  BY <1>4 DEF Owned, loaderVars, MappedSteps, The
<1> QED
  BY <1>1, <1>2, <1>3, <1>4 DEF Next, vars

\* Every field leads to something that is still allocated, so no unload of
\* the two frees anything twice, whatever failed.
THEOREM FreesOnce == Spec => []NothingFreedTwice
<1>1. Owned => NothingFreedTwice
  BY DEF Owned, NothingFreedTwice
<1> QED
  BY <1>1, OwnedInit, OwnedNext, PTL DEF Spec

\* Nothing is left allocated at the end, except a registration of the file
\* that got no alias.
THEOREM GivesBack == Spec => []AllGivenBack
<1>1. Owned => AllGivenBack
  BY DEF Owned, AllGivenBack
<1> QED
  BY <1>1, OwnedInit, OwnedNext, PTL DEF Spec

-----------------------------------------------------------------------------
(* The scratch pool.                                                       *)

\* The program uses the pool as Scratch says, and only once load is done.
THEOREM DrivesScratch == Spec => ScratchSpec
<1>1. Init => ScratchInit
  BY DEF Init
<1>2. [Next]_vars => [ScratchNext]_scratchVars
  BY DEF Next, vars
<1> QED
  BY <1>1, <1>2, PTL DEF Spec, ScratchSpec

\* So the pool suffices, and live buffers are disjoint, in the whole program.
THEOREM ScratchInProgram == Spec => [](NeverExhausted /\ LiveDisjoint)
BY DrivesScratch, PoolSuffices, BuffersDisjoint, PTL

-----------------------------------------------------------------------------
(* Where the weights are, step by step.                                    *)

\* Layers below k have been given their norms, or their matrices, on the
\* device.
NormsUpTo(k) == \A j \in Layer : j < k => norm[j] = "device" /\ Norms(j) \subseteq mem
MatricesUpTo(k) == \A j \in Layer : j < k => quant[j] = "device"

Placed ==
    /\ set \in Settings
    /\ cfg.L \in Nat /\ l \in Nat /\ l <= cfg.L
    /\ step \in MappedSteps =>
         /\ norm \in [Layer -> Place] /\ quant \in [Layer -> Place]
         /\ \A j \in Layer : quant[j] = IF <<"layer", j>> \in mem THEN "device" ELSE "file"
         /\ output = IF Has("output") THEN "device" ELSE "file"
         /\ embd = "device" => set.fastEmbd /\ Has("output")
         /\ Has("file")
    /\ step = "norms" => NormsUpTo(l)
    /\ step \in AfterNorms => NormsUpTo(cfg.L) /\ outNorm = "device" /\ Has("outNorm")
    /\ step = "layers" => MatricesUpTo(l)
    /\ step = "output" => l = 0
    /\ step = "output" /\ ~set.mapped => ~LayersAsked \/ MatricesUpTo(cfg.L)
    /\ step \in {"stream", "ready"} /\ ~set.mapped =>
         /\ output = "device" \/ region = "output"
         /\ set.deviceLayers # 0 => MatricesUpTo(cfg.L)

LEMMA LeastOfTwo ==
    ASSUME NEW a \in Int, NEW b \in Int
    PROVE  least({a, b}) \in Int /\ least({a, b}) <= a /\ least({a, b}) <= b
<1>1. \E x \in {a, b} : \A y \in {a, b} : x <= y
  <2>1. CASE a <= b
    BY <2>1
  <2>2. CASE b <= a
    BY <2>2
  <2> QED
    BY <2>1, <2>2
<1>2. least({a, b}) \in {a, b} /\ \A y \in {a, b} : least({a, b}) <= y
  BY <1>1 DEF least
<1> QED
  BY <1>2

LEMMA PlacedInit == Init => Placed
<1> SUFFICES ASSUME Init PROVE Placed
  OBVIOUS
<1>1. cfg.L \in Nat
  BY ConfigFacts DEF Init, ScratchInit
<1> QED
  BY <1>1 DEF Init, Placed, MappedSteps, AfterNorms

LEMMA PlacedLoad ==
    ASSUME Placed, Owned, Load, UNCHANGED scratchVars
    PROVE  Placed'
<1>0. /\ set \in Settings /\ set' = set
      /\ cfg' = cfg /\ Layer' = Layer /\ cfg.L \in Nat /\ l \in Nat /\ l <= cfg.L
  <2>1. set' = set
    BY DEF Load, Precheck, MapWeights, NormLayer, OutNorm, InitKV, InitScratch, CopyLayer,
           LayersDone, MapOutput, CopyOutput, SkipOutput, FinishLoad, plan
  <2> QED
    BY <2>1 DEF scratchVars, Layer, Placed
<1>1. CASE Precheck
  BY <1>0, <1>1 DEF Placed, Precheck, MappedSteps, AfterNorms, plan, weights, budget
<1>2. CASE MapWeights
  <2>1. CASE Fail /\ UNCHANGED <<mem, kept, region, weights>>
    BY <1>0, <1>2, <2>1 DEF Placed, MapWeights, Fail, MappedSteps, AfterNorms
  <2>2. CASE step' = "norms"
    <3>1. mem = {}
      BY <1>2 DEF Owned, MapWeights
    <3>2. /\ mem' \subseteq The({"file", "structs", "fileReg"}) /\ <<"file", 0>> \in mem'
          /\ l' = 0 /\ UNCHANGED set
          /\ norm' = [i0 \in Layer |-> IF file.norms = "missing" THEN "null" ELSE "file"]
          /\ quant' = [i0 \in Layer |-> "file"] /\ output' = "file" /\ embd' = "file"
      BY <1>2, <2>2, <3>1 DEF MapWeights, Registered, Fail, The, plan
    <3>3. \A j : <<"layer", j>> \notin mem'
      BY <3>2 DEF The
    <3>4. <<"output", 0>> \notin mem'
      BY <3>2 DEF The
    <3> QED
      BY <1>0, <2>2, <3>2, <3>3, <3>4 DEF Placed, Has, NormsUpTo, MappedSteps, AfterNorms, Place, Layer
  <2>3. CASE Fail
    BY <1>0, <1>2, <2>3 DEF Placed, MapWeights, Fail, MappedSteps, AfterNorms
  <2> QED
    BY <1>2, <2>1, <2>2, <2>3 DEF MapWeights
<1>3. CASE NormLayer
  <2>1. CASE /\ Keep(Norms(l) \cup QKNorms(l)) /\ norm' = [norm EXCEPT ![l] = "device"]
             /\ l' = l + 1 /\ UNCHANGED step
    <3>1. /\ step = "norms" /\ l \in Layer /\ norm \in [Layer -> Place]
          /\ UNCHANGED <<quant, output, embd, set, file>>
      BY <1>0, <1>3 DEF NormLayer, Layer, Placed, MappedSteps, plan
    <3>2. mem \subseteq mem' /\ Norms(l) \subseteq mem'
      BY <2>1 DEF Keep
    <3>3. \A j : <<"layer", j>> \in mem' <=> <<"layer", j>> \in mem
      BY <2>1 DEF Keep, Norms, QKNorms
    <3>4. /\ <<"output", 0>> \in mem' <=> <<"output", 0>> \in mem
          /\ <<"file", 0>> \in mem' <=> <<"file", 0>> \in mem
      BY <2>1 DEF Keep, Norms, QKNorms
    <3>5. \A j : Norms(j)' = Norms(j)
      BY DEF Norms
    <3>6. NormsUpTo(l)'
      BY <1>0, <2>1, <3>1, <3>2, <3>5 DEF NormsUpTo, Placed, Layer, MappedSteps
    <3>7. l' \in Nat /\ l' <= cfg.L /\ norm' \in [Layer -> Place]
      BY <1>0, <2>1, <3>1 DEF Layer, Place
    <3> QED
      BY <1>0, <2>1, <3>1, <3>3, <3>4, <3>6, <3>7 DEF Placed, Has, MappedSteps, AfterNorms
  <2>2. CASE Fail /\ l' = l
    BY <1>0, <2>2 DEF Placed, Fail, MappedSteps, AfterNorms
  <2> QED
    BY <1>3, <2>1, <2>2 DEF NormLayer
<1>4. CASE OutNorm
  <2>1. CASE Fail
    BY <1>0, <1>4, <2>1 DEF Placed, OutNorm, Fail, MappedSteps, AfterNorms
  <2>2. CASE Keep(The({"outNorm"})) /\ outNorm' = "device" /\ step' = "kv"
    <3>1. step = "norms" /\ l = cfg.L /\ l' = 0 /\ UNCHANGED <<norm, quant, output, embd, set>>
      BY <1>4 DEF OutNorm, plan
    <3>2. mem' = mem \cup {<<"outNorm", 0>>}
      BY <2>2 DEF Keep, The
    <3>3. NormsUpTo(cfg.L)'
      BY <1>0, <3>1, <3>2 DEF Placed, NormsUpTo, Norms
    <3> QED
      BY <1>0, <2>2, <3>1, <3>2, <3>3 DEF Placed, Has, MappedSteps, AfterNorms
  <2> QED
    BY <1>4, <2>1, <2>2 DEF OutNorm
<1>5. CASE InitKV
  <2>1. CASE Fail
    BY <1>0, <1>5, <2>1 DEF Placed, InitKV, Fail, MappedSteps, AfterNorms
  <2>2. CASE step' = "scratch"
    <3>1. step = "kv" /\ UNCHANGED <<l, norm, quant, outNorm, output, embd, set>>
      BY <1>5 DEF InitKV, plan, weights
    <3>2. \E r : r \subseteq The({"kv", "kvOverflow", "scales"}) /\ mem' = mem \cup r
      BY <1>5, <2>2 DEF InitKV, Keep, The, Fail
    <3>3. /\ mem \subseteq mem'
          /\ \A x \in mem' : x \in mem \/ x \in The({"kv", "kvOverflow", "scales"})
      BY <3>2
    <3>4. /\ \A j : <<"layer", j>> \in mem' <=> <<"layer", j>> \in mem
          /\ <<"output", 0>> \in mem' <=> <<"output", 0>> \in mem
      BY <3>3 DEF The
    <3>5. NormsUpTo(cfg.L)'
      BY <1>0, <3>1, <3>3 DEF Placed, NormsUpTo, Norms, AfterNorms, MappedSteps
    <3> QED
      BY <1>0, <2>2, <3>1, <3>3, <3>4, <3>5 DEF Placed, Has, MappedSteps, AfterNorms
  <2> QED
    BY <1>5, <2>1, <2>2 DEF InitKV
<1>6. CASE InitScratch
  <2>1. CASE Fail
    BY <1>0, <1>6, <2>1 DEF Placed, InitScratch, Fail, MappedSteps, AfterNorms
  <2>2. CASE Keep(The({"scratch"})) /\ step' = IF set.mapped THEN "output" ELSE "layers"
    <3>1. step = "scratch" /\ l' = 0 /\ UNCHANGED <<norm, quant, outNorm, output, embd, set>>
      BY <1>6 DEF InitScratch, plan, weights
    <3>2. mem' = mem \cup {<<"scratch", 0>>}
      BY <2>2 DEF Keep, The
    <3>3. NormsUpTo(cfg.L)' /\ MatricesUpTo(l)'
      BY <1>0, <3>1, <3>2 DEF Placed, NormsUpTo, MatricesUpTo, Norms, AfterNorms, MappedSteps, Layer
    <3> QED
      BY <1>0, <2>2, <3>1, <3>2, <3>3 DEF Placed, Has, MappedSteps, AfterNorms
  <2> QED
    BY <1>6, <2>1, <2>2 DEF InitScratch
<1>7. CASE CopyLayer
  <2>1. /\ step = "layers" /\ step' = step /\ l < LayerCap
        /\ mem' = mem \cup {<<"layer", l>>} /\ quant' = [quant EXCEPT ![l] = "device"]
        /\ l' = l + 1 /\ UNCHANGED <<norm, outNorm, output, embd, set>>
    BY <1>7 DEF CopyLayer, Keep, plan
  <2>2. l < cfg.L
    <3>1. set.deviceLayers \in Int
      <4>1. set \in Setting
        BY <1>0, LoaderAssumption
      <4> QED
        BY <4>1 DEF Setting
    <3>2. LayerCap <= cfg.L /\ LayerCap \in Int
      <4> DEFINE d == set.deviceLayers  L == cfg.L
      <4>1. d \in Int /\ L \in Int
        BY <1>0, <3>1
      <4>2. LayerCap = IF d < 0 THEN L ELSE least({d, L})
        BY DEF LayerCap
      <4> HIDE DEF d, L
      <4>3. least({d, L}) \in Int /\ least({d, L}) <= L
        BY <4>1, LeastOfTwo
      <4>4. LayerCap <= L /\ LayerCap \in Int
        BY <4>1, <4>2, <4>3
      <4> QED
        BY <4>4 DEF L
    <3> QED
      BY <1>0, <2>1, <3>2
  <2>3. l \in Layer
    BY <1>0, <2>2 DEF Layer
  <2>4. NormsUpTo(cfg.L)'
    BY <1>0, <2>1 DEF Placed, NormsUpTo, Norms, AfterNorms, MappedSteps
  <2>5. MatricesUpTo(l)' /\ quant' \in [Layer -> Place]
    BY <1>0, <2>1, <2>3 DEF Placed, MatricesUpTo, Layer, MappedSteps, Place
  <2>6. \A j \in Layer : quant'[j] = IF <<"layer", j>> \in mem' THEN "device" ELSE "file"
    BY <2>1, <2>3 DEF Placed, MappedSteps
  <2> QED
    BY <1>0, <2>1, <2>2, <2>4, <2>5, <2>6 DEF Placed, Has, MappedSteps, AfterNorms
<1>8. CASE LayersDone
  <2>1. /\ step = "layers" /\ l' = 0 /\ UNCHANGED <<mem, region, norm, quant, outNorm, output, embd, set>>
        /\ step' = IF LayersAsked /\ ~set.mapped /\ l < cfg.L THEN "failed" ELSE AfterLayers
    BY <1>8 DEF LayersDone, plan, weights
  <2>2. step' = "output" => ~LayersAsked' \/ MatricesUpTo(cfg.L)'
    BY <1>0, <2>1 DEF Placed, AfterLayers, MatricesUpTo, LayersAsked, Layer
  <2>3. NormsUpTo(cfg.L)'
    BY <1>0, <2>1 DEF Placed, NormsUpTo, Norms, AfterNorms, MappedSteps
  <2> QED
    BY <1>0, <2>1, <2>2, <2>3 DEF Placed, Has, AfterLayers, MappedSteps, AfterNorms
<1>9. CASE MapOutput
  <2>1. /\ step = "output" /\ step' = "stream" /\ ~set.mapped /\ set.fastGemv
        /\ mem' = mem \cup {<<"outputReg", 0>>} /\ region' = "output"
        /\ UNCHANGED <<l, norm, quant, outNorm, output, embd, set>>
    BY <1>9 DEF MapOutput, OutputAsked, Keep, The, plan, weights
  <2>2. NormsUpTo(cfg.L)'
    BY <1>0, <2>1 DEF Placed, NormsUpTo, Norms, AfterNorms, MappedSteps
  <2>3. set.deviceLayers # 0 => MatricesUpTo(cfg.L)'
    BY <1>0, <2>1 DEF Placed, MatricesUpTo, LayersAsked
  <2> QED
    BY <1>0, <2>1, <2>2, <2>3 DEF Placed, Has, MappedSteps, AfterNorms
<1>10. CASE CopyOutput
  <2>1. /\ step = "output" /\ step' = AfterOutput(TRUE) /\ set.fastGemv
        /\ mem' = mem \cup {<<"output", 0>>} /\ output' = "device"
        /\ embd' = (IF file.tied /\ set.fastEmbd THEN "device" ELSE embd)
        /\ UNCHANGED <<l, norm, quant, outNorm, set>>
    BY <1>10 DEF CopyOutput, OutputAsked, Keep, The, plan
  <2>2. NormsUpTo(cfg.L)'
    BY <1>0, <2>1 DEF Placed, NormsUpTo, Norms, AfterNorms, MappedSteps
  <2>3. ~set.mapped /\ set.deviceLayers # 0 => MatricesUpTo(cfg.L)'
    BY <1>0, <2>1 DEF Placed, MatricesUpTo, LayersAsked
  <2>4. MatricesUpTo(l)'
    BY <1>0, <2>1 DEF Placed, MatricesUpTo, Layer
  <2> QED
    BY <1>0, <2>1, <2>2, <2>3, <2>4 DEF Placed, Has, AfterOutput, MappedSteps, AfterNorms
<1>11. CASE SkipOutput
  <2>1. /\ step = "output" /\ step' = AfterOutput(FALSE)
        /\ UNCHANGED <<l, mem, region, norm, quant, outNorm, output, embd, set>>
    BY <1>11 DEF SkipOutput, plan, weights
  <2>2. NormsUpTo(cfg.L)' /\ MatricesUpTo(l)'
    BY <1>0, <2>1 DEF Placed, NormsUpTo, MatricesUpTo, Norms, AfterNorms, MappedSteps, Layer
  <2> QED
    BY <1>0, <2>1, <2>2 DEF Placed, Has, AfterOutput, MappedSteps, AfterNorms
<1>12. CASE FinishLoad
  <2>1. /\ step = "stream" /\ UNCHANGED <<l, region, norm, quant, outNorm, output, embd, set>>
        /\ step' \in {"ready", "failed"}
        /\ \E s \in SUBSET {"stream"} : mem' = mem \cup The(s \cup {"logits"}) \/ mem' = mem \cup The(s)
    BY <1>12 DEF FinishLoad, Keep, Fail, plan, weights
  <2>2. /\ mem \subseteq mem'
        /\ \A j : <<"layer", j>> \in mem' <=> <<"layer", j>> \in mem
        /\ <<"output", 0>> \in mem' <=> <<"output", 0>> \in mem
    BY <2>1 DEF The
  <2>3. NormsUpTo(cfg.L)' /\ (MatricesUpTo(cfg.L) => MatricesUpTo(cfg.L)')
    BY <1>0, <2>1, <2>2 DEF Placed, NormsUpTo, MatricesUpTo, Norms, AfterNorms, MappedSteps
  <2> QED
    BY <1>0, <2>1, <2>2, <2>3 DEF Placed, Has, MappedSteps, AfterNorms
<1> QED
  BY <1>1, <1>2, <1>3, <1>4, <1>5, <1>6, <1>7, <1>8, <1>9, <1>10, <1>11, <1>12 DEF Load

LEMMA PlacedNext ==
    ASSUME Placed, Owned, [Next]_vars
    PROVE  Placed'
<1>1. CASE Load /\ UNCHANGED scratchVars
  BY <1>1, PlacedLoad
<1>2. CASE (Exit \/ Destroy) /\ UNCHANGED scratchVars
  BY <1>2 DEF Placed, Exit, Destroy, unload, plan, scratchVars, MappedSteps, AfterNorms
<1>3. CASE UNCHANGED loaderVars /\ cfg' = cfg
  BY <1>3 DEF Placed, loaderVars, plan, weights, budget, Has, NormsUpTo, MatricesUpTo, Norms,
              Layer, LayersAsked, MappedSteps, AfterNorms
<1>4. ScratchNext => cfg' = cfg
  BY DEF ScratchNext, Generate, BeginToken, Get, LayerDone, HeadDone, Return
<1> QED
  BY <1>1, <1>2, <1>3, <1>4 DEF Next, vars, scratchVars

\* A load that returns true leaves every weight where its reader can reach
\* it, for any number of layers and any setting.
THEOREM LoadsUsably == Spec => []WeightsUsable
<1>1. Placed => WeightsUsable
  <2> SUFFICES ASSUME Placed, step = "ready" PROVE WeightsUsable
    BY DEF WeightsUsable
  <2>1. \A j \in Layer : j < cfg.L
    BY DEF Placed, Layer
  <2> QED
    BY <2>1 DEF Placed, WeightsUsable, NormsUpTo, MatricesUpTo, MappedSteps, AfterNorms
<1>2. Init => Placed /\ Owned
  BY PlacedInit, OwnedInit
<1>3. Placed /\ Owned /\ [Next]_vars => Placed' /\ Owned'
  BY PlacedNext, OwnedNext
<1> QED
  BY <1>1, <1>2, <1>3, PTL DEF Spec

-----------------------------------------------------------------------------
(* The memory budget.                                                      *)

LEMMA LeastOfThree ==
    ASSUME NEW a \in Int, NEW b \in Int, NEW c \in Int
    PROVE  /\ least({a, b, c}) \in Int /\ least({a, b, c}) <= a
           /\ least({a, b, c}) <= b /\ least({a, b, c}) <= c
<1>1. \E x \in {a, b, c} : \A y \in {a, b, c} : x <= y
  <2>1. CASE a <= b /\ a <= c
    BY <2>1
  <2>2. CASE b <= a /\ b <= c
    BY <2>2
  <2>3. CASE c <= a /\ c <= b
    BY <2>3
  <2> QED
    BY <2>1, <2>2, <2>3
<1>2. least({a, b, c}) \in {a, b, c} /\ \A y \in {a, b, c} : least({a, b, c}) <= y
  BY <1>1 DEF least
<1> QED
  BY <1>2

\* Division as the code uses it.
LEMMA QuotientTimes ==
    ASSUME NEW b \in Nat, NEW t \in Nat \ {0}
    PROVE  b \div t \in Nat /\ (b \div t) * t <= b /\ (b < t <=> b \div t = 0)
<1>1. b \div t \in Int /\ b \div t >= 0
  OBVIOUS
<1>2. b = t * (b \div t) + (b % t)
  OBVIOUS
<1>3. b % t \in 0..(t - 1)
  OBVIOUS
<1> DEFINE q == b \div t
           r == b % t
<1>4. q \in Nat /\ b = t * q + r /\ r \in 0..(t - 1)
  BY <1>1, <1>2, <1>3
<1> HIDE DEF q, r
<1>5. q * t = t * q /\ t * q \in Nat
  BY <1>4
<1>6. q * t <= b
  BY <1>4, <1>5
<1>7. b < t <=> q = 0
  <2>1. q = 0 => t * q = 0
    OBVIOUS
  <2>2. q # 0 => t * q >= t
    BY <1>4
  <2> QED
    BY <1>4, <1>5, <2>1, <2>2
<1> QED
  BY <1>4, <1>6, <1>7 DEF q

LEMMA QuotientBound ==
    ASSUME NEW a \in Nat, NEW m \in Nat \ {0}, NEW f \in Nat, a <= f * m
    PROVE  a \div m <= f
<1> DEFINE q == a \div m
<1>1. q \in Nat /\ q * m <= a
  BY QuotientTimes
<1> HIDE DEF q
<1>2. q * m <= f * m
  <2>1. q * m \in Nat /\ f * m \in Nat
    BY <1>1
  <2> QED
    BY <1>1, <2>1
<1>3. q > f => q * m >= f * m + m
  BY <1>1
<1>4. f * m \in Nat /\ q * m \in Nat
  BY <1>1
<1>5. q <= f
  BY <1>1, <1>2, <1>3, <1>4
<1> QED
  BY <1>5 DEF q

\* What Context leaves room for, whatever was asked for: max_context rounds
\* towards zero, so a negative budget gives a negative context or none.
LEMMA ContextFits ==
    ASSUME set \in Settings, avail \in Int, modelMB \in Int,
           kvMB = 0, scrMB = 0, Context >= 0
    PROVE  /\ Context \in 0..MaxSeqLen
           /\ (Context * TokenSize2) \div MB \in Nat
           /\ (Context * TokenSize2) \div MB <= avail - modelMB
<1>1. /\ set.limit \in Nat /\ MaxSeqLen \in Nat /\ AutoCap \in Nat
      /\ MB \in Nat \ {0} /\ TokenBytes \in Nat \ {0}
  <2>1. set \in Setting
    BY LoaderAssumption
  <2> QED
    BY <2>1, LoaderAssumption DEF Setting
<1> DEFINE f == avail - modelMB
           t == TokenSize2
           bytes == f * MB
<1>2. f \in Int /\ t \in Nat \ {0} /\ t <= MB /\ bytes \in Int
  BY <1>1, TokenAssumption DEF TokenSize2
<1>3. max_context = IF bytes < 0 THEN -((-bytes) \div t) ELSE bytes \div t
  <2>1. free_mb + kvMB = f
    BY DEF free_mb
  <2> QED
    BY <2>1 DEF max_context
<1>4. bytes < 0 => /\ (-bytes) \div t \in Nat
                   /\ -bytes < t <=> (-bytes) \div t = 0
  BY <1>2, QuotientTimes
<1>5. bytes >= 0 => bytes \div t \in Nat /\ (bytes \div t) * t <= bytes
  BY <1>2, QuotientTimes
<1> HIDE DEF t
<1>6. max_context \in Int
  BY <1>2, <1>3, <1>4, <1>5
<1>7. /\ Context \in Int /\ Context <= max_context /\ Context <= MaxSeqLen
  <2> DEFINE a == set.limit
             m == max_context
  <2>1. a \in Int /\ m \in Int /\ MaxSeqLen \in Int /\ AutoCap \in Int
    BY <1>1, <1>6
  <2>2. Context = IF a > 0 THEN least({a, MaxSeqLen, m})
                  ELSE least({m, MaxSeqLen, AutoCap})
    BY DEF Context
  <2> HIDE DEF a, m
  <2>3. LET x == least({a, MaxSeqLen, m})
        IN x \in Int /\ x <= a /\ x <= MaxSeqLen /\ x <= m
    BY <2>1, LeastOfThree
  <2>4. LET x == least({m, MaxSeqLen, AutoCap})
        IN x \in Int /\ x <= m /\ x <= MaxSeqLen /\ x <= AutoCap
    BY <2>1, LeastOfThree
  <2>5. Context \in Int /\ Context <= m /\ Context <= MaxSeqLen
    BY <2>2, <2>3, <2>4
  <2> QED
    BY <2>5 DEF m
<1>8. bytes >= 0
  <2> SUFFICES ASSUME bytes < 0 PROVE FALSE
    BY <1>2
  <2>1. -bytes < t
    BY <1>3, <1>4, <1>6, <1>7
  <2>2. f < 0 => f * MB <= -MB
    BY <1>1, <1>2
  <2>3. f >= 0 => f * MB >= 0
    BY <1>1, <1>2
  <2> QED
    BY <1>1, <1>2, <2>1, <2>2, <2>3
<1>9. f \in Nat
  <2>1. f < 0 => f * MB < 0
    BY <1>1, <1>2
  <2> QED
    BY <1>2, <1>8, <2>1
<1> DEFINE c == Context
           q == bytes \div t
<1>10. c \in Nat /\ q \in Nat /\ c <= q /\ q * t <= bytes
  BY <1>2, <1>3, <1>5, <1>7, <1>8
<1> HIDE DEF c, q
<1>11. c * t \in Nat /\ c * t <= q * t /\ q * t \in Nat
  BY <1>2, <1>10
<1>12. c * t <= f * MB
  BY <1>2, <1>10, <1>11
<1>13. (c * t) \div MB <= f
  BY <1>1, <1>9, <1>11, <1>12, QuotientBound
<1>14. (c * t) \div MB \in Nat
  BY <1>1, <1>11, QuotientTimes
<1> QED
  BY <1>1, <1>7, <1>10, <1>13, <1>14 DEF c, t

\* What is left of the memory at every step of load.  Only the scratch pool
\* and a mapped output may take more than there is.
Left(x) == set.overflow # 0 \/ free_mb >= -x
Spending ==
    /\ set \in Settings /\ avail \in Int /\ l \in Nat
    /\ modelMB \in Int /\ kvMB \in Int /\ scrMB \in Int
    /\ step \in {"start", "map", "norms", "kv"} => kvMB = 0 /\ scrMB = 0 /\ ~Has("scales")
    /\ Has("scales") => ctx \in 0..MaxSeqLen
    /\ step = "scratch" => scrMB = 0 /\ Left(0)
    /\ step = "output" => l = 0 /\ Left(ScratchMB)
    /\ step = "layers" => Left(ScratchMB - l * LayerMB)
    /\ step \in {"stream", "ready"} =>
         Left(ScratchMB + IF Has("outputReg") THEN OutputMB ELSE 0)

LEMMA SpendingInit == Init => Spending
<1> SUFFICES ASSUME Init PROVE Spending
  OBVIOUS
<1>1. avail \in Int
  BY LoaderAssumption DEF Init
<1> QED
  BY <1>1 DEF Init, Spending, Has

LEMMA Amounts ==
    /\ ScratchMB \in Nat /\ OutputMB \in Nat /\ LayerMB \in Nat /\ Reserve \in Nat
    /\ FileMB \in Nat /\ MB \in Nat \ {0} /\ ScaleBytes \in Nat
BY LoaderAssumption

LEMMA SpendingLoad ==
    ASSUME Spending, Load
    PROVE  Spending'
<1>0. /\ set \in Settings /\ set' = set /\ avail \in Int /\ avail' = avail /\ l \in Nat
      /\ modelMB \in Int /\ kvMB \in Int /\ scrMB \in Int
  <2>1. UNCHANGED <<set, avail>>
    BY DEF Load, Precheck, MapWeights, NormLayer, OutNorm, InitKV, InitScratch, CopyLayer,
           LayersDone, MapOutput, CopyOutput, SkipOutput, FinishLoad, plan
  <2> QED
    BY <2>1 DEF Spending
<1>1. CASE Precheck
  BY <1>0, <1>1 DEF Spending, Precheck, Has, budget
<1>2. CASE MapWeights
  <2>1. /\ step = "map" /\ step' \in {"failed", "norms"} /\ l' = 0
        /\ UNCHANGED <<ctx, modelMB, kvMB, scrMB>>
    BY <1>2 DEF MapWeights, Fail, budget
  <2>2. Has("scales")' = Has("scales")
    BY <1>2 DEF MapWeights, Registered, Has, The
  <2> QED
    BY <1>0, <2>1, <2>2 DEF Spending
<1>3. CASE NormLayer
  <2>1. /\ step = "norms" /\ step' \in {"failed", "norms"} /\ l' \in {l, l + 1}
        /\ UNCHANGED <<ctx, modelMB, kvMB, scrMB>>
    BY <1>3 DEF NormLayer, Fail, budget
  <2>2. Has("scales")' = Has("scales")
    BY <1>3 DEF NormLayer, Keep, Norms, QKNorms, Has
  <2> QED
    BY <1>0, <2>1, <2>2 DEF Spending
<1>4. CASE OutNorm
  <2>1. /\ step = "norms" /\ step' \in {"failed", "kv"} /\ l' = 0
        /\ UNCHANGED <<ctx, kvMB, scrMB>> /\ modelMB' \in Int
    BY <1>0, <1>4, Amounts DEF OutNorm, Fail
  <2>2. Has("scales")' = Has("scales")
    BY <1>4 DEF OutNorm, Keep, The, Has
  <2> QED
    BY <1>0, <2>1, <2>2 DEF Spending
<1>5. CASE InitKV
  <2>1. step = "kv" /\ UNCHANGED <<l, modelMB, scrMB>> /\ kvMB = 0 /\ scrMB = 0
        /\ ~Has("scales")
    BY <1>5 DEF InitKV, Spending
  <2>2. CASE Fail /\ UNCHANGED <<mem, kept, ctx, kvMB>>
    BY <1>0, <2>1, <2>2 DEF Spending, Fail, Has
  <2>3. CASE step' = "scratch"
    <3>1. Context >= 0 /\ ctx' = Context
      BY <1>5, <2>3 DEF InitKV, Fail
    <3>2. PICK over \in {0, kv_overflow_context}, scales \in {FALSE, set.int8} :
            /\ mem' = mem \cup The((IF Context > 0 THEN {"kv"} ELSE {})
                           \cup (IF over > 0 THEN {"kvOverflow"} ELSE {})
                           \cup (IF scales THEN {"scales"} ELSE {}))
            /\ kvMB' = ((Context + over) * TokenSize2) \div MB
      BY <1>5, <2>3 DEF InitKV, Fail, Keep
    <3>3. /\ Context \in 0..MaxSeqLen
          /\ (Context * TokenSize2) \div MB \in Nat
          /\ (Context * TokenSize2) \div MB <= avail - modelMB
      BY <1>0, <2>1, <3>1, ContextFits
    <3>5. kvMB' \in Int
      <4>1. over \in Int /\ Context \in Int
        BY <1>0, <3>2, <3>3, LoaderAssumption DEF kv_overflow_context, Setting
      <4>2. TokenSize2 \in Nat /\ MB \in Nat \ {0}
        BY LoaderAssumption DEF TokenSize2
      <4> QED
        BY <3>2, <4>1, <4>2
    <3>6. Left(0)'
      <4> SUFFICES ASSUME set.overflow = 0 PROVE free_mb' >= 0
        BY <1>0 DEF Left
      <4>1. kvMB' = (Context * TokenSize2) \div MB
        <5>1. over = 0 /\ Context + 0 = Context
          BY <3>2, <3>3, LoaderAssumption DEF kv_overflow_context
        <5> QED
          BY <3>2, <5>1
      <4>2. free_mb' = avail - modelMB - kvMB' - 0
        BY <1>0, <2>1 DEF free_mb
      <4> QED
        BY <1>0, <3>3, <4>1, <4>2
    <3> QED
      BY <1>0, <2>1, <2>3, <3>1, <3>3, <3>5, <3>6 DEF Spending
  <2> QED
    BY <1>5, <2>2, <2>3 DEF InitKV
<1>6. CASE InitScratch
  <2>1. step = "scratch" /\ UNCHANGED <<ctx, modelMB, kvMB>> /\ l' = 0
        /\ Has("scales")' = Has("scales")
    BY <1>6 DEF InitScratch, Keep, The, Has
  <2>2. CASE Fail /\ UNCHANGED scrMB
    BY <1>0, <2>1, <2>2 DEF Spending, Fail
  <2>3. CASE scrMB' = ScratchMB /\ step' \in {"output", "layers"}
    <3>1. Left(ScratchMB)'
      BY <1>0, <2>1, <2>3, Amounts DEF Spending, Left, free_mb
    <3>2. (ScratchMB - l * LayerMB)' = ScratchMB
      BY <2>1, Amounts
    <3> QED
      BY <1>0, <2>1, <2>3, <3>1, <3>2, Amounts DEF Spending, Left
  <2> QED
    BY <1>6, <2>2, <2>3 DEF InitScratch
<1>7. CASE CopyLayer
  <2>1. /\ step = "layers" /\ step' = step /\ UNCHANGED <<ctx, modelMB, kvMB, scrMB>>
        /\ l' = l + 1 /\ Has("scales")' = Has("scales")
        /\ free_mb - l * LayerMB >= LayerMB + Reserve
    BY <1>7 DEF CopyLayer, Keep, Has, budget
  <2>2. Left(ScratchMB - l * LayerMB)'
    <3>1. free_mb' = free_mb /\ free_mb \in Int
      BY <1>0, <2>1 DEF free_mb
    <3>2. l' * LayerMB = l * LayerMB + LayerMB /\ l * LayerMB \in Nat
      BY <1>0, <2>1, Amounts
    <3> DEFINE x == l * LayerMB
    <3>3. x \in Nat /\ free_mb - x >= LayerMB + Reserve
      BY <2>1, <3>2
    <3> HIDE DEF x
    <3>4. free_mb >= -(ScratchMB - (x + LayerMB))
      BY <3>1, <3>3, Amounts
    <3> QED
      BY <3>1, <3>2, <3>4 DEF Left, x
  <2> QED
    BY <1>0, <2>1, <2>2 DEF Spending
<1>8. CASE LayersDone
  <2>1. /\ step = "layers" /\ UNCHANGED <<ctx, kvMB, scrMB, mem>> /\ l' = 0
        /\ modelMB' = modelMB + l * LayerMB
        /\ step' \in {"failed", "stream", "output"}
    BY <1>8 DEF LayersDone, AfterLayers
  <2> DEFINE x == l * LayerMB
  <2>2. x \in Nat /\ modelMB' = modelMB + x /\ Left(ScratchMB - x)
    BY <1>0, <2>1, Amounts DEF Spending
  <2> HIDE DEF x
  <2>3. Left(ScratchMB)' /\ modelMB' \in Int
    BY <1>0, <2>1, <2>2, Amounts DEF Left, free_mb
  <2>4. free_mb' \in Int
    BY <1>0, <2>1, <2>3 DEF free_mb
  <2>5. Left(ScratchMB + IF Has("outputReg") THEN OutputMB ELSE 0)'
    BY <1>0, <2>3, <2>4, Amounts DEF Left
  <2> QED
    BY <1>0, <2>1, <2>3, <2>5 DEF Spending, Has
<1>9. CASE MapOutput
  <2>1. /\ step = "output" /\ step' = "stream" /\ ~set.mapped
        /\ UNCHANGED <<l, ctx, kvMB, scrMB>> /\ modelMB' = modelMB + OutputMB
        /\ Has("scales")' = Has("scales") /\ Has("outputReg")'
    BY <1>9 DEF MapOutput, Keep, The, Has
  <2>2. Left(ScratchMB + OutputMB)' /\ modelMB' \in Int
    BY <1>0, <2>1, Amounts DEF Spending, Left, free_mb
  <2> QED
    BY <1>0, <2>1, <2>2 DEF Spending
<1>10. CASE CopyOutput
  <2>1. /\ step = "output" /\ step' \in {"stream", "layers"} /\ l' = l
        /\ UNCHANGED <<ctx, kvMB, scrMB>> /\ modelMB' = modelMB + OutputMB
        /\ Has("scales")' = Has("scales") /\ free_mb >= OutputMB + Reserve
    BY <1>10 DEF CopyOutput, Keep, The, Has, AfterOutput
  <2>2. free_mb' >= 0 /\ free_mb' \in Int /\ modelMB' \in Int
    BY <1>0, <2>1, Amounts DEF free_mb
  <2>3. Left(ScratchMB + IF Has("outputReg") THEN OutputMB ELSE 0)'
    BY <2>2, <1>0, Amounts DEF Left
  <2>4. Left(ScratchMB - l * LayerMB)'
    <3>1. l' * LayerMB = 0
      BY <2>1, Amounts DEF Spending
    <3> QED
      BY <2>2, <3>1, Amounts DEF Left
  <2> QED
    BY <1>0, <2>1, <2>2, <2>3, <2>4 DEF Spending
<1>11. CASE SkipOutput
  <2>1. /\ step = "output" /\ step' \in {"stream", "layers", "failed"} /\ l = 0
        /\ UNCHANGED <<l, ctx, modelMB, kvMB, scrMB, mem>> /\ Left(ScratchMB)
        /\ step' = "stream" => set.mapped
    BY <1>11 DEF SkipOutput, AfterOutput, budget, Spending
  <2>2. Left(ScratchMB)' /\ Left(ScratchMB - l * LayerMB)'
    BY <1>0, <2>1, Amounts DEF Left, free_mb
  <2>3. free_mb' \in Int
    BY <1>0, <2>1 DEF free_mb
  <2>4. Left(ScratchMB + IF Has("outputReg") THEN OutputMB ELSE 0)'
    BY <1>0, <2>2, <2>3, Amounts DEF Left
  <2> QED
    BY <1>0, <2>1, <2>2, <2>4 DEF Spending, Has
<1>12. CASE FinishLoad
  <2>1. /\ step = "stream" /\ step' \in {"ready", "failed"}
        /\ UNCHANGED <<l, ctx, modelMB, kvMB, scrMB>>
        /\ Has("scales")' = Has("scales") /\ Has("outputReg")' = Has("outputReg")
    BY <1>12 DEF FinishLoad, Keep, The, Has, Fail, budget
  <2> QED
    BY <1>0, <2>1 DEF Spending, Left, free_mb
<1> QED
  BY <1>1, <1>2, <1>3, <1>4, <1>5, <1>6, <1>7, <1>8, <1>9, <1>10, <1>11, <1>12 DEF Load

LEMMA SpendingNext ==
    ASSUME Spending, [Next]_vars
    PROVE  Spending'
<1>1. CASE Load
  BY <1>1, SpendingLoad
<1>2. CASE Exit \/ Destroy
  <2>1. /\ UNCHANGED <<set, avail, l, ctx, modelMB, kvMB, scrMB>>
        /\ step' \in {"unloaded", "gone"} /\ mem' \subseteq mem
    BY <1>2 DEF Exit, Destroy, unload, plan, budget
  <2> QED
    BY <2>1 DEF Spending, Has
<1>3. CASE UNCHANGED loaderVars
  BY <1>3 DEF Spending, loaderVars, plan, budget, Has, Left, free_mb
<1> QED
  BY <1>1, <1>2, <1>3 DEF Next, vars

\* A load that succeeds has taken beyond the available memory no more than
\* the scratch pool, the INT8 scales and a CUDA-mapped output, none of which
\* is weighed against the budget (Engine::load, MemoryBudget::max_context):
\* for every model, amount of memory, requested context and setting but
\* JLLM_KV_OVERFLOW.
THEOREM StaysWithin == Spec => []WithinMemory
<1>1. Spending => WithinMemory
  <2> SUFFICES ASSUME Spending, step = "ready", set.overflow = 0
               PROVE  free_mb - ScalesMB >= -Unweighed
    BY DEF WithinMemory
  <2> DEFINE o == IF Has("outputReg") THEN OutputMB ELSE 0
  <2>1. free_mb >= -(ScratchMB + o) /\ free_mb \in Int /\ o \in Nat
    BY Amounts DEF Spending, Left, free_mb
  <2>2. ScalesMB \in Int
    <3>1. Has("scales") => ctx \in Nat
      BY LoaderAssumption DEF Spending
    <3> QED
      BY <3>1, Amounts DEF ScalesMB
  <2>3. Unweighed = ScratchMB + ScalesMB + o
    BY DEF Unweighed
  <2> HIDE DEF o
  <2> QED
    BY <2>1, <2>2, <2>3, Amounts
<1>2. Init => Spending
  BY SpendingInit
<1>3. Spending /\ [Next]_vars => Spending'
  BY SpendingNext
<1> QED
  BY <1>1, <1>2, <1>3, PTL DEF Spec
=============================================================================
