------------------------- MODULE KVCachePoolProofs -------------------------
(* Theorems about KVCachePool, for any number of layers and any sizes of   *)
(* the two pools.                                                          *)
EXTENDS KVCachePool, TLAPS

-----------------------------------------------------------------------------
(* Arithmetic: rows of m half entries, one after the other.                *)

LEMMA RowLess ==
    ASSUME NEW r \in Nat, NEW s \in Nat, NEW m \in Nat, r < s
    PROVE  r * m + m <= s * m
OBVIOUS

LEMMA Product == ASSUME NEW r \in Nat, NEW m \in Nat PROVE r * m \in Nat
OBVIOUS

LEMMA DivMod ==
    ASSUME NEW l \in Nat, NEW k \in Nat \ {0}, NEW r \in 0..(k - 1)
    PROVE  (l * k + r) \div k = l /\ (l * k + r) % k = r
OBVIOUS

LEMMA DivSum ==
    ASSUME NEW a \in Nat, NEW k \in Nat \ {0}
    PROVE  a \div k \in Nat /\ a % k \in 0..(k - 1)
           /\ a = k * (a \div k) + (a % k)
<1>1. a \div k \in Int /\ a \div k >= 0
    OBVIOUS
<1>2. a % k \in 0..(k - 1)
    OBVIOUS
<1>3. a = k * (a \div k) + (a % k)
    OBVIOUS
<1> QED
    BY <1>1, <1>2, <1>3

\* The layout that the pools, the scales and the packed buffer share: two
\* rows of m half entries for every layer, the keys' and the values'.
Row(l, h) == 2 * l + IF h = "v" THEN 1 ELSE 0
Addr(l, p, h, m) == Row(l, h) * m + p

LEMMA RowType ==
    ASSUME NEW l \in Nat, NEW h \in Half
    PROVE  Row(l, h) \in Nat
BY DEF Row

LEMMA RowUnique ==
    ASSUME NEW l \in Nat, NEW h \in Half, NEW k \in Nat, NEW g \in Half
    PROVE  Row(l, h) = Row(k, g) <=> l = k /\ h = g
BY DEF Row, Half

LEMMA AddrSum ==
    ASSUME NEW l \in Nat, NEW p \in Int, NEW m \in Nat
    PROVE  /\ Addr(l, p, "k", m) = l * 2 * m + p
           /\ Addr(l, p, "v", m) = l * 2 * m + m + p
<1>1. l * 2 * m = (2 * l) * m /\ (2 * l + 1) * m = l * 2 * m + m
    OBVIOUS
<1>2. l * 2 * m \in Int
    OBVIOUS
<1> QED
    BY <1>1, <1>2 DEF Addr, Row

LEMMA AddrType ==
    ASSUME NEW l \in Nat, NEW h \in Half, NEW m \in Nat, NEW p \in Int
    PROVE  Addr(l, p, h, m) \in Int
           /\ \A i \in Int : Addr(l, p + i, h, m) = Addr(l, p, h, m) + i
<1>1. Row(l, h) * m \in Nat
    BY RowType, Product
<1> QED
    BY <1>1 DEF Addr

\* Every address is inside the array.
LEMMA AddrRange ==
    ASSUME NEW l \in Layer, NEW h \in Half, NEW m \in Nat, NEW p \in 0..(m - 1)
    PROVE  Addr(l, p, h, m) \in 0..(2 * NLayers * m - 1)
<1>1. l \in Nat /\ Row(l, h) \in Nat /\ Row(l, h) < 2 * NLayers
      /\ 2 * NLayers \in Nat
    BY ConstAssumption DEF Layer, Row
<1>2. Row(l, h) * m + m <= 2 * NLayers * m
    BY <1>1, RowLess
<1>3. Row(l, h) * m \in Nat /\ 2 * NLayers * m \in Nat
    BY <1>1, Product
<1> QED
    BY <1>2, <1>3 DEF Addr

\* Rows do not overlap.
LEMMA RowApart ==
    ASSUME NEW r \in Nat, NEW s \in Nat, NEW m \in Nat, r # s,
           NEW p \in 0..(m - 1), NEW q \in 0..(m - 1)
    PROVE  r * m + p # s * m + q
<1>1. r * m \in Nat /\ s * m \in Nat
    BY Product
<1>2. r < s => r * m + m <= s * m
    BY RowLess
<1>3. s < r => s * m + m <= r * m
    BY RowLess
<1>4. r < s \/ s < r
    OBVIOUS
<1> DEFINE x == r * m
           y == s * m
<1>5. x \in Nat /\ y \in Nat /\ (r < s => x + m <= y) /\ (s < r => y + m <= x)
    BY <1>1, <1>2, <1>3
<1> HIDE DEF x, y
<1>6. x + p # y + q
    BY <1>4, <1>5
<1> QED
    BY <1>6 DEF x, y

\* A range of addresses within one row holds that row's entries and no other.
Within(a, d, c) == a \in d..(d + c - 1)

LEMMA AddrBand ==
    ASSUME NEW m \in Nat, NEW l \in Nat, NEW h \in Half, NEW p \in 0..(m - 1),
           NEW k \in Nat, NEW g \in Half, NEW lo \in 0..m, NEW c \in Nat,
           lo + c <= m
    PROVE  Within(Addr(l, p, h, m), Addr(k, lo, g, m), c)
             <=> l = k /\ h = g /\ lo <= p /\ p < lo + c
<1> DEFINE r == Row(l, h)
           s == Row(k, g)
<1>1. r \in Nat /\ s \in Nat
    BY RowType
<1>2. r * m \in Nat /\ s * m \in Nat
    BY <1>1, Product
<1>3. r < s => r * m + m <= s * m
    BY <1>1, RowLess
<1>4. s < r => s * m + m <= r * m
    BY <1>1, RowLess
<1>5. r = s <=> l = k /\ h = g
    BY RowUnique
<1>6. Addr(l, p, h, m) = r * m + p /\ Addr(k, lo, g, m) = s * m + lo
    BY DEF Addr
<1> HIDE DEF r, s
<1>7. r = s => r * m = s * m
    OBVIOUS
<1> DEFINE x == r * m
           y == s * m
<1>8. /\ x \in Nat /\ y \in Nat
      /\ r < s => x + m <= y
      /\ s < r => y + m <= x
      /\ r = s => x = y
    BY <1>2, <1>3, <1>4, <1>7
<1> HIDE DEF x, y
<1>9. x + p \in (y + lo)..((y + lo) + c - 1)
        <=> r = s /\ lo <= p /\ p < lo + c
  <2>1. CASE r < s
      BY <1>1, <1>8, <2>1
  <2>2. CASE s < r
      BY <1>1, <1>8, <2>2
  <2>3. CASE r = s
      BY <1>1, <1>8, <2>3
  <2> QED
      BY <1>1, <2>1, <2>2, <2>3
<1> QED
    BY <1>5, <1>6, <1>9 DEF x, y, Within

\* Two slots of an array have different addresses.
LEMMA AddrUnique ==
    ASSUME NEW m \in Nat, NEW l \in Nat, NEW h \in Half, NEW p \in 0..(m - 1),
           NEW k \in Nat, NEW g \in Half, NEW q \in 0..(m - 1)
    PROVE  Addr(l, p, h, m) = Addr(k, q, g, m) <=> l = k /\ h = g /\ p = q
<1> DEFINE r == Row(l, h)
           s == Row(k, g)
<1>1. r \in Nat /\ s \in Nat /\ (r = s <=> l = k /\ h = g)
    BY RowType, RowUnique
<1>2. Addr(l, p, h, m) = r * m + p /\ Addr(k, q, g, m) = s * m + q
    BY DEF Addr
<1> HIDE DEF r, s
<1>3. r # s => r * m + p # s * m + q
    BY <1>1, RowApart
<1>4. r = s => (r * m + p = s * m + q <=> p = q)
  <2>1. r * m \in Nat
      BY <1>1, Product
  <2> QED
      BY <2>1
<1> QED
    BY <1>1, <1>2, <1>3, <1>4

-----------------------------------------------------------------------------
(* Copies and fills by rows.                                               *)

Packed(m) == 0..(2 * NLayers * m - 1)

\* A memcpy into one row reaches that row's entries and no other.
LEMMA CopyRow ==
    ASSUME NEW m \in Nat, NEW dst, DOMAIN dst = Packed(m), NEW src, NEW s \in Int,
           NEW k \in Nat, NEW g \in Half, NEW lo \in 0..m, NEW c \in Nat,
           lo + c <= m,
           NEW l \in Layer, NEW h \in Half, NEW p \in 0..(m - 1)
    PROVE  Copy(dst, Addr(k, lo, g, m), src, s, c)[Addr(l, p, h, m)] =
             IF l = k /\ h = g /\ lo <= p /\ p < lo + c
             THEN src[s + (p - lo)] ELSE dst[Addr(l, p, h, m)]
<1>0. l \in Nat
    BY ConstAssumption DEF Layer
<1> DEFINE a == Addr(l, p, h, m)
           d == Addr(k, lo, g, m)
<1>1. a \in DOMAIN dst
    BY AddrRange DEF Packed
<1>2. Within(a, d, c) <=> l = k /\ h = g /\ lo <= p /\ p < lo + c
    BY <1>0, AddrBand
<1>3. l = k /\ h = g => a - d = p - lo
  <2>1. Row(l, h) * m \in Nat
      BY <1>0, RowType, Product
  <2> QED
      BY <2>1 DEF Addr
<1>4. Copy(dst, d, src, s, c)[a] =
        IF a \in d..(d + c - 1) THEN src[s + (a - d)] ELSE dst[a]
    BY <1>1 DEF Copy
<1> HIDE DEF a, d
<1>5. Copy(dst, d, src, s, c)[a] =
        IF l = k /\ h = g /\ lo <= p /\ p < lo + c
        THEN src[s + (p - lo)] ELSE dst[a]
    BY <1>2, <1>3, <1>4 DEF Within
<1> QED
    BY <1>5 DEF a, d

\* The same for memset.
LEMMA FillRow ==
    ASSUME NEW m \in Nat, NEW dst, DOMAIN dst = Packed(m), NEW w,
           NEW k \in Nat, NEW g \in Half, NEW lo \in 0..m, NEW c \in Nat,
           lo + c <= m,
           NEW l \in Layer, NEW h \in Half, NEW p \in 0..(m - 1)
    PROVE  Fill(dst, Addr(k, lo, g, m), c, w)[Addr(l, p, h, m)] =
             IF l = k /\ h = g /\ lo <= p /\ p < lo + c
             THEN w ELSE dst[Addr(l, p, h, m)]
<1>0. l \in Nat
    BY ConstAssumption DEF Layer
<1> DEFINE a == Addr(l, p, h, m)
           d == Addr(k, lo, g, m)
<1>1. a \in DOMAIN dst
    BY AddrRange DEF Packed
<1>2. Within(a, d, c) <=> l = k /\ h = g /\ lo <= p /\ p < lo + c
    BY <1>0, AddrBand
<1>3. Fill(dst, d, c, w)[a] = IF a \in d..(d + c - 1) THEN w ELSE dst[a]
    BY <1>1 DEF Fill
<1> HIDE DEF a, d
<1>4. Fill(dst, d, c, w)[a] =
        IF l = k /\ h = g /\ lo <= p /\ p < lo + c THEN w ELSE dst[a]
    BY <1>2, <1>3 DEF Within
<1> QED
    BY <1>4 DEF a, d

LEMMA CopyType ==
    ASSUME NEW D, NEW dst \in [D -> Word], D \subseteq Int, NEW src, NEW d \in Int,
           NEW s \in Int, NEW c \in Nat, \A i \in 0..(c - 1) : src[s + i] \in Word
    PROVE  Copy(dst, d, src, s, c) \in [D -> Word]
<1>1. ASSUME NEW a \in D
      PROVE  (IF a \in d..(d + c - 1) THEN src[s + (a - d)] ELSE dst[a]) \in Word
  <2>1. a \in d..(d + c - 1) => a - d \in 0..(c - 1)
      OBVIOUS
  <2> QED
      BY <2>1
<1> QED
    BY <1>1 DEF Copy

LEMMA FillType ==
    ASSUME NEW D, NEW dst \in [D -> Word], NEW d, NEW c, NEW w \in Word
    PROVE  Fill(dst, d, c, w) \in [D -> Word]
BY DEF Fill

\* The rows of an array are made of its words.
LEMMA RowWords ==
    ASSUME NEW m \in Nat, NEW src \in [Packed(m) -> Word], NEW l \in Layer,
           NEW h \in Half, NEW c \in 0..m
    PROVE  \A i \in 0..(c - 1) : src[Addr(l, 0, h, m) + i] \in Word
<1> SUFFICES ASSUME NEW i \in 0..(c - 1)
             PROVE  src[Addr(l, 0, h, m) + i] \in Word
    OBVIOUS
<1>1. l \in Nat /\ i \in 0..(m - 1) /\ i \in Int
    BY ConstAssumption DEF Layer
<1>2. Addr(l, 0 + i, h, m) = Addr(l, 0, h, m) + i
    BY <1>1, AddrType
<1>3. Addr(l, i, h, m) \in Packed(m)
    BY <1>1, AddrRange DEF Packed
<1>4. 0 + i = i
    BY <1>1
<1> QED
    BY <1>2, <1>3, <1>4

-----------------------------------------------------------------------------
(* The inductive invariant.                                                *)

Lower(m) == 0..(m - 1)

\* The fast pool, the slow pool and the scales, by address.
FastOK ==
    \A l \in Layer, p \in Lower(MaxContext), h \in Half :
        want[<<l, p, h>>] = gpu[Addr(l, p, h, MaxContext)]
SlowOK ==
    \A l \in Layer, p \in Lower(Overflow), h \in Half :
        want[<<l, MaxContext + p, h>>] = cpu[Addr(l, p, h, Overflow)]
ScaleOK ==
    int8 => \A l \in Layer, p \in Lower(MaxContext), h \in Half :
              scales[Addr(l, p, h, MaxContext)] = want[<<l, p, h>>]

\* The file is the packed copy of what was wanted when it was written.
FileOK ==
    file # NoFile =>
      /\ file.tokens \in 1..MaxContext
      /\ file.body \in [Packed(file.tokens) -> Word]
      /\ \A l \in Layer, p \in Lower(file.tokens), h \in Half :
           fileWant[<<l, p, h>>] = file.body[Addr(l, p, h, file.tokens)]

\* A copy is not interrupted by stores: the buffer agrees with the pool in
\* the layers gathered so far, or with the file throughout.
CopyOK ==
    /\ pc # "idle" => /\ n \in 1..MaxContext /\ ~int8
                      /\ host \in [Packed(n) -> Word]
    /\ pc = "gather" =>
         \A l \in Lower(layer), p \in Lower(n), h \in Half :
             host[Addr(l, p, h, n)] = want[<<l, p, h>>]
    /\ pc = "scatter" =>
         \A l \in Layer, p \in Lower(n), h \in Half :
             host[Addr(l, p, h, n)] = fileWant[<<l, p, h>>]

\* No request has overridden the format: every request has the pool's, so an
\* INT8 pool is not saved, and no file is in INT8.
FormatOK ==
    /\ ~mixed /\ kv_int8 = int8
    /\ file # NoFile => file.int8 = FALSE

Good ==
    TypeOK /\ FormatOK /\ FastOK /\ SlowOK /\ ScaleOK /\ FileOK /\ CopyOK

\* Nothing is promised once a request has overridden the format.
IInv == mixed \/ Good

LEMMA Sizes ==
    /\ NLayers \in Nat /\ MaxContext \in Nat /\ Overflow \in Nat
    /\ MaxContext > 0 /\ NLayers > 0
    /\ Fast = Packed(MaxContext) /\ Slow = Packed(Overflow)
    /\ \A m \in Nat : Packed(m) \subseteq Int /\ Lower(m) \subseteq Nat
    /\ Layer \subseteq Nat /\ Pos \subseteq Nat
    /\ Lower(MaxContext) \subseteq Pos
    /\ \A p \in Lower(Overflow) : MaxContext + p \in Pos
    /\ \A p \in Pos : \/ p < MaxContext /\ p \in Lower(MaxContext)
                      \/ /\ ~(p < MaxContext)
                         /\ p - MaxContext \in Lower(Overflow)
                         /\ p = MaxContext + (p - MaxContext)
BY ConstAssumption DEF Fast, Slow, Packed, Lower, Layer, Pos

LEMMA PtrAddr ==
    ASSUME NEW l \in Layer, NEW p \in Pos
    PROVE  /\ p < MaxContext =>
                /\ key_ptr(l, p) = Addr(l, p, "k", MaxContext)
                /\ val_ptr(l, p) = Addr(l, p, "v", MaxContext)
                /\ kv_scale_ptr(l, p, FALSE) = Addr(l, p, "k", MaxContext)
                /\ kv_scale_ptr(l, p, TRUE) = Addr(l, p, "v", MaxContext)
           /\ ~(p < MaxContext) =>
                /\ key_ptr(l, p) = Addr(l, p - MaxContext, "k", Overflow)
                /\ val_ptr(l, p) = Addr(l, p - MaxContext, "v", Overflow)
<1>1. l \in Nat /\ p \in Nat /\ MaxContext \in Nat /\ Overflow \in Nat
      /\ p - MaxContext \in Int
    BY Sizes
<1>2. l * 2 * MaxContext \in Nat /\ l * 2 * Overflow \in Nat
    BY <1>1
<1>3. /\ Addr(l, p, "k", MaxContext) = l * 2 * MaxContext + p
      /\ Addr(l, p, "v", MaxContext) = l * 2 * MaxContext + MaxContext + p
      /\ Addr(l, p - MaxContext, "k", Overflow)
           = l * 2 * Overflow + (p - MaxContext)
      /\ Addr(l, p - MaxContext, "v", Overflow)
           = l * 2 * Overflow + Overflow + (p - MaxContext)
  <2>1. \A q \in Int, m \in Nat : /\ Addr(l, q, "k", m) = l * 2 * m + q
                                  /\ Addr(l, q, "v", m) = l * 2 * m + m + q
      BY <1>1, AddrSum
  <2>2. p \in Int
      BY <1>1
  <2> QED
      BY <1>1, <2>1, <2>2, Zenon
<1> DEFINE x == l * 2 * MaxContext
           y == l * 2 * Overflow
<1>4. /\ key_ptr(l, p) = IF p < MaxContext THEN x + p ELSE y + (p - MaxContext)
      /\ val_ptr(l, p) = IF p < MaxContext THEN x + MaxContext + p
                         ELSE y + Overflow + (p - MaxContext)
      /\ kv_scale_ptr(l, p, FALSE) = x + 0 + p
      /\ kv_scale_ptr(l, p, TRUE) = x + MaxContext + p
    BY DEF key_ptr, val_ptr, kv_scale_ptr
<1> HIDE DEF x, y
<1>5. x + 0 + p = x + p
    BY <1>1, <1>2 DEF x
<1> QED
    BY <1>3, <1>4, <1>5 DEF x, y

LEMMA ReadAddr ==
    ASSUME NEW l \in Layer, NEW h \in Half
    PROVE  /\ \A p \in Lower(MaxContext) :
                Read(l, p, h) = gpu[Addr(l, p, h, MaxContext)]
           /\ \A p \in Lower(Overflow) :
                Read(l, MaxContext + p, h) = cpu[Addr(l, p, h, Overflow)]
<1>1. ASSUME NEW p \in Lower(MaxContext)
      PROVE  Read(l, p, h) = gpu[Addr(l, p, h, MaxContext)]
  <2>1. p < MaxContext /\ p \in Pos
      BY Sizes DEF Lower
  <2> QED
      BY <2>1, PtrAddr DEF Read, Half
<1>2. ASSUME NEW p \in Lower(Overflow)
      PROVE  Read(l, MaxContext + p, h) = cpu[Addr(l, p, h, Overflow)]
  <2>1. MaxContext + p \in Pos /\ ~(MaxContext + p < MaxContext)
        /\ (MaxContext + p) - MaxContext = p
      BY Sizes DEF Lower
  <2> DEFINE q == MaxContext + p
  <2>2. q \in Pos /\ ~(q < MaxContext) /\ q - MaxContext = p
      BY <2>1
  <2> HIDE DEF q
  <2>3. Read(l, q, h) = cpu[Addr(l, p, h, Overflow)]
      BY <2>2, PtrAddr DEF Read, Half
  <2> QED
      BY <2>3 DEF q
<1> QED
    BY <1>1, <1>2

LEMMA ArrayIff == FastOK /\ SlowOK => PoolIsArray
<1> SUFFICES ASSUME FastOK, SlowOK, NEW l \in Layer, NEW p \in Pos, NEW h \in Half
             PROVE  want[<<l, p, h>>] = Read(l, p, h)
    BY DEF PoolIsArray
<1>1. CASE p \in Lower(MaxContext)
    BY <1>1, ReadAddr DEF FastOK
<1>2. CASE ~(p < MaxContext)
  <2>1. PICK q \in Lower(Overflow) : p = MaxContext + q
      BY <1>2, Sizes
  <2>2. Read(l, MaxContext + q, h) = cpu[Addr(l, q, h, Overflow)]
      BY ReadAddr
  <2>3. want[<<l, MaxContext + q, h>>] = cpu[Addr(l, q, h, Overflow)]
      BY DEF SlowOK
  <2> QED
      BY <2>1, <2>2, <2>3
<1> QED
    BY <1>1, <1>2, Sizes

LEMMA ScalesIff == ScaleOK => ScalesFollow
<1> SUFFICES ASSUME ScaleOK, int8, NEW l \in Layer, NEW p \in 0..(MaxContext - 1),
                    NEW h \in Half
             PROVE  scales[kv_scale_ptr(l, p, h = "v")] = want[<<l, p, h>>]
    BY DEF ScalesFollow
<1>1. p \in Lower(MaxContext) /\ p \in Pos /\ p < MaxContext
    BY Sizes DEF Lower
<1>2. CASE h = "k"
    BY <1>1, <1>2, PtrAddr DEF ScaleOK
<1>3. CASE h = "v"
    BY <1>1, <1>3, PtrAddr DEF ScaleOK
<1> QED
    BY <1>2, <1>3 DEF Half

-----------------------------------------------------------------------------
(* The actions.                                                            *)

LEMMA SlotIn ==
    ASSUME NEW l \in Layer, NEW p \in Pos, NEW h \in Half
    PROVE  <<l, p, h>> \in Slot
BY DEF Slot

LEMMA SlotParts ==
    ASSUME NEW c \in Slot
    PROVE  /\ c[1] \in Layer /\ c[2] \in Pos /\ c[3] \in Half
           /\ c = <<c[1], c[2], c[3]>>
BY DEF Slot

LEMMA IdleInit == Init => Good
<1> SUFFICES ASSUME Init PROVE Good
    OBVIOUS
<1>1. TypeOK
  <2>1. Zero \in Word /\ 0 \in 0..MaxContext /\ 0 \in 0..NLayers
      BY Sizes DEF Word
  <2>2. int8 \in BOOLEAN /\ kv_int8 \in BOOLEAN /\ mixed \in BOOLEAN
      BY Zenon DEF Init
  <2> QED
      BY <2>1, <2>2 DEF Init, TypeOK
<1>2. FastOK
    BY Sizes, SlotIn, AddrRange DEF Init, FastOK, Lower, Packed
<1>3. SlowOK
  <2> SUFFICES ASSUME NEW l \in Layer, NEW p \in Lower(Overflow), NEW h \in Half
               PROVE  want[<<l, MaxContext + p, h>>] = cpu[Addr(l, p, h, Overflow)]
      BY DEF SlowOK
  <2>1. <<l, MaxContext + p, h>> \in Slot
      BY Sizes, SlotIn
  <2>2. Addr(l, p, h, Overflow) \in Slow
      BY Sizes, AddrRange DEF Lower, Packed
  <2> QED
      BY <2>1, <2>2 DEF Init
<1>4. ScaleOK
    BY Sizes, SlotIn, AddrRange DEF Init, ScaleOK, Lower, Packed
<1> QED
    BY <1>1, <1>2, <1>3, <1>4 DEF Init, Good, FormatOK, FileOK, CopyOK

\* The two halves of a slot have addresses of their own.
LEMMA StoreAddrs ==
    ASSUME NEW m \in Nat, NEW l \in Layer, NEW p \in Lower(m)
    PROVE  /\ Addr(l, p, "k", m) \in Packed(m) /\ Addr(l, p, "v", m) \in Packed(m)
           /\ Addr(l, p, "k", m) # Addr(l, p, "v", m)
           /\ \A k \in Layer, q \in Lower(m), h \in Half :
                /\ Addr(k, q, h, m) \in Packed(m)
                /\ k # l \/ q # p => /\ Addr(k, q, h, m) # Addr(l, p, "k", m)
                                     /\ Addr(k, q, h, m) # Addr(l, p, "v", m)
<1>1. "k" \in Half /\ "v" \in Half /\ l \in Nat /\ p \in 0..(m - 1)
    BY Sizes DEF Half, Lower
<1>2. Addr(l, p, "k", m) \in Packed(m) /\ Addr(l, p, "v", m) \in Packed(m)
    BY <1>1, AddrRange DEF Packed
<1>3. Addr(l, p, "k", m) # Addr(l, p, "v", m)
    BY <1>1, AddrUnique
<1>4. ASSUME NEW k \in Layer, NEW q \in Lower(m), NEW h \in Half
      PROVE  /\ Addr(k, q, h, m) \in Packed(m)
             /\ k # l \/ q # p => /\ Addr(k, q, h, m) # Addr(l, p, "k", m)
                                  /\ Addr(k, q, h, m) # Addr(l, p, "v", m)
  <2>1. k \in Nat /\ q \in 0..(m - 1)
      BY Sizes DEF Lower
  <2>2. Addr(k, q, h, m) \in Packed(m)
      BY <2>1, AddrRange DEF Packed
  <2> QED
      BY <1>1, <2>1, <2>2, AddrUnique
<1> QED
    BY <1>2, <1>3, <1>4

LEMMA StoreStep ==
    ASSUME Good, NEW l \in Layer, NEW p \in Pos, NEW v \in Version, Store(l, p, v)
    PROVE  Good'
<1> DEFINE ck == [layer |-> l, pos |-> p, half |-> "k", version |-> v]
           cv == [layer |-> l, pos |-> p, half |-> "v", version |-> v]
<1>1. ck \in Word /\ cv \in Word
    BY DEF Word, Cell, Half
<1>2. /\ pc = "idle" /\ UNCHANGED <<int8, kv_int8, mixed>>
      /\ UNCHANGED <<gpuTokens, copy, file, fileWant>>
    BY DEF Store, format
<1>3. want' = [want EXCEPT ![<<l, p, "k">>] = ck, ![<<l, p, "v">>] = cv]
    BY DEF Store
<1>4. scales' = IF kv_int8 /\ p < MaxContext
                THEN [scales EXCEPT ![kv_scale_ptr(l, p, FALSE)] = ck,
                                     ![kv_scale_ptr(l, p, TRUE)] = cv]
                ELSE scales
    BY DEF Store
<1>5. IF p < MaxContext
      THEN /\ gpu' = [gpu EXCEPT ![key_ptr(l, p)] = ck,
                                 ![val_ptr(l, p)] = cv]
           /\ UNCHANGED cpu
      ELSE /\ cpu' = [cpu EXCEPT ![key_ptr(l, p)] = ck,
                                 ![val_ptr(l, p)] = cv]
           /\ UNCHANGED gpu
    BY DEF Store
<1> HIDE DEF ck, cv
<1>6. want \in [Slot -> Word] /\ gpu \in [Packed(MaxContext) -> Word]
      /\ cpu \in [Packed(Overflow) -> Word]
      /\ scales \in [Packed(MaxContext) -> Word]
    BY Sizes DEF Good, TypeOK
<1>7. /\ want' \in [Slot -> Word]
      /\ want'[<<l, p, "k">>] = ck /\ want'[<<l, p, "v">>] = cv
      /\ \A k \in Layer, q \in Pos, h \in Half :
           k # l \/ q # p => want'[<<k, q, h>>] = want[<<k, q, h>>]
  <2>1. <<l, p, "k">> \in Slot /\ <<l, p, "v">> \in Slot
      BY SlotIn DEF Half
  <2>2. \A k \in Layer, q \in Pos, h \in Half : <<k, q, h>> \in Slot
      BY SlotIn
  <2> QED
      BY <1>1, <1>3, <1>6, <2>1, <2>2
<1>8. FileOK' /\ CopyOK' /\ FormatOK' /\ kv_int8 = int8
    BY <1>2 DEF Good, FormatOK, FileOK, CopyOK, copy
<1>9. CASE p < MaxContext
  <2>1. p \in Lower(MaxContext) /\ MaxContext \in Nat
      BY <1>9, Sizes
  <2>2. gpu' = [gpu EXCEPT ![Addr(l, p, "k", MaxContext)] = ck,
                           ![Addr(l, p, "v", MaxContext)] = cv]
        /\ UNCHANGED cpu
      BY <1>5, <1>9, PtrAddr
  <2>3. /\ gpu' \in [Packed(MaxContext) -> Word]
        /\ gpu'[Addr(l, p, "k", MaxContext)] = ck
        /\ gpu'[Addr(l, p, "v", MaxContext)] = cv
        /\ \A k \in Layer, q \in Lower(MaxContext), h \in Half :
             k # l \/ q # p => gpu'[Addr(k, q, h, MaxContext)]
                                 = gpu[Addr(k, q, h, MaxContext)]
      BY <1>1, <1>6, <2>1, <2>2, StoreAddrs
  <2>4. ASSUME int8
        PROVE  /\ scales' \in [Packed(MaxContext) -> Word]
               /\ scales'[Addr(l, p, "k", MaxContext)] = ck
               /\ scales'[Addr(l, p, "v", MaxContext)] = cv
               /\ \A k \in Layer, q \in Lower(MaxContext), h \in Half :
                    k # l \/ q # p => scales'[Addr(k, q, h, MaxContext)]
                                        = scales[Addr(k, q, h, MaxContext)]
    <3>1. scales' = [scales EXCEPT ![Addr(l, p, "k", MaxContext)] = ck,
                                   ![Addr(l, p, "v", MaxContext)] = cv]
        BY <1>4, <1>8, <1>9, <2>4, PtrAddr
    <3> QED
        BY <1>1, <1>6, <2>1, <3>1, StoreAddrs
  <2>5. TypeOK'
    <3>1. scales' \in [Fast -> Word]
        BY <1>4, <1>6, <1>8, <2>4, Sizes
    <3> QED
        BY <1>2, <1>7, <2>2, <2>3, <3>1, Sizes DEF Good, TypeOK, copy
  <2>6. FastOK'
    <3> SUFFICES ASSUME NEW k \in Layer, NEW q \in Lower(MaxContext), NEW h \in Half
                 PROVE  want'[<<k, q, h>>] = gpu'[Addr(k, q, h, MaxContext)]
        BY DEF FastOK
    <3>1. CASE k = l /\ q = p
        BY <1>7, <2>3, <3>1 DEF Half
    <3>2. CASE k # l \/ q # p
        BY <1>7, <2>3, <3>2, Sizes DEF Good, FastOK
    <3> QED
        BY <3>1, <3>2
  <2>7. SlowOK'
    <3>1. \A q \in Lower(Overflow) : MaxContext + q \in Pos /\ MaxContext + q # p
        BY <1>9, Sizes DEF Lower
    <3> QED
        BY <1>7, <2>2, <3>1 DEF Good, SlowOK
  <2>8. ScaleOK'
    <3> SUFFICES ASSUME int8, NEW k \in Layer, NEW q \in Lower(MaxContext),
                        NEW h \in Half
                 PROVE  scales'[Addr(k, q, h, MaxContext)] = want'[<<k, q, h>>]
        BY <1>2 DEF ScaleOK
    <3>1. CASE k = l /\ q = p
        BY <1>7, <2>4, <3>1 DEF Half
    <3>2. CASE k # l \/ q # p
        BY <1>7, <2>4, <3>2, Sizes DEF Good, ScaleOK
    <3> QED
        BY <3>1, <3>2
  <2> QED
      BY <1>8, <2>5, <2>6, <2>7, <2>8 DEF Good
<1>10. CASE ~(p < MaxContext)
  <2> DEFINE r == p - MaxContext
  <2>1. r \in Lower(Overflow) /\ Overflow \in Nat /\ p = MaxContext + r
      BY <1>10, Sizes
  <2>2. cpu' = [cpu EXCEPT ![Addr(l, r, "k", Overflow)] = ck,
                           ![Addr(l, r, "v", Overflow)] = cv]
      BY <1>5, <1>10, PtrAddr
  <2> HIDE DEF r
  <2>3. /\ cpu' \in [Packed(Overflow) -> Word]
        /\ cpu'[Addr(l, r, "k", Overflow)] = ck
        /\ cpu'[Addr(l, r, "v", Overflow)] = cv
        /\ \A k \in Layer, q \in Lower(Overflow), h \in Half :
             k # l \/ q # r => cpu'[Addr(k, q, h, Overflow)]
                                 = cpu[Addr(k, q, h, Overflow)]
      BY <1>1, <1>6, <2>1, <2>2, StoreAddrs
  <2>4. UNCHANGED <<gpu, scales, int8>>
      BY <1>2, <1>4, <1>5, <1>10
  <2>5. TypeOK'
      BY <1>2, <1>7, <2>3, <2>4, Sizes DEF Good, TypeOK, copy
  <2>6. FastOK'
    <3>1. \A q \in Lower(MaxContext) : q \in Pos /\ q # p
        BY <1>10, Sizes DEF Lower
    <3> QED
        BY <1>7, <2>4, <3>1 DEF Good, FastOK
  <2>7. SlowOK'
    <3> SUFFICES ASSUME NEW k \in Layer, NEW q \in Lower(Overflow), NEW h \in Half
                 PROVE  want'[<<k, MaxContext + q, h>>]
                          = cpu'[Addr(k, q, h, Overflow)]
        BY DEF SlowOK
    <3>1. MaxContext + q \in Pos /\ (MaxContext + q = p <=> q = r)
        BY <2>1, Sizes DEF Lower
    <3>2. want[<<k, MaxContext + q, h>>] = cpu[Addr(k, q, h, Overflow)]
        BY DEF Good, SlowOK
    <3>3. CASE k = l /\ q = r
        BY <1>7, <2>3, <3>1, <3>3 DEF Half
    <3>4. CASE k # l \/ q # r
        BY <1>7, <2>3, <3>1, <3>2, <3>4
    <3> QED
        BY <3>3, <3>4
  <2>8. ScaleOK'
    <3> SUFFICES ASSUME int8, NEW k \in Layer, NEW q \in Lower(MaxContext),
                        NEW h \in Half
                 PROVE  scales'[Addr(k, q, h, MaxContext)] = want'[<<k, q, h>>]
        BY <1>2 DEF ScaleOK
    <3>1. q \in Pos /\ q # p
        BY <1>10, Sizes DEF Lower
    <3> QED
        BY <1>7, <2>4, <3>1 DEF Good, ScaleOK
  <2> QED
      BY <1>8, <2>5, <2>6, <2>7, <2>8 DEF Good
<1> QED
    BY <1>9, <1>10

\* A row of one array copied to the same row of another, which may have longer
\* or shorter rows.
LEMMA RowCopied ==
    ASSUME NEW m \in Nat, NEW w \in Nat, NEW dst \in [Packed(m) -> Word],
           NEW src \in [Packed(w) -> Word], NEW k \in Layer, NEW g \in Half,
           NEW c \in Nat, c <= m, c <= w
    PROVE  LET to == Copy(dst, Addr(k, 0, g, m), src, Addr(k, 0, g, w), c)
           IN /\ to \in [Packed(m) -> Word]
              /\ \A p \in Lower(c) : to[Addr(k, p, g, m)] = src[Addr(k, p, g, w)]
              /\ \A l \in Layer, p \in Lower(m), h \in Half :
                   l # k \/ h # g \/ ~(p < c)
                     => to[Addr(l, p, h, m)] = dst[Addr(l, p, h, m)]
<1> DEFINE z == 0
           to == Copy(dst, Addr(k, z, g, m), src, Addr(k, z, g, w), c)
<1>1. /\ k \in Nat /\ z \in Int /\ z \in 0..m /\ z + c <= m /\ c \in 0..w
      /\ \A p \in Int : z + p = p /\ p - z = p
      /\ \A p \in Lower(m) : z <= p /\ p \in Int /\ (p < z + c <=> p < c)
    BY ConstAssumption DEF Layer, Lower
<1>2. /\ \A i \in 0..(c - 1) : src[Addr(k, z, g, w) + i] \in Word
      /\ Packed(m) \subseteq Int
    BY <1>1, RowWords, Sizes
<1> HIDE DEF z
<1>3. Addr(k, z, g, m) \in Int /\ Addr(k, z, g, w) \in Int
    BY <1>1, AddrType
<1>4. to \in [Packed(m) -> Word]
    BY <1>2, <1>3, CopyType
<1>5. ASSUME NEW l \in Layer, NEW p \in Lower(m), NEW h \in Half
      PROVE  to[Addr(l, p, h, m)] = IF l = k /\ h = g /\ z <= p /\ p < z + c
                                    THEN src[Addr(k, z, g, w) + (p - z)]
                                    ELSE dst[Addr(l, p, h, m)]
  <2>1. p \in 0..(m - 1) /\ DOMAIN dst = Packed(m)
      BY DEF Lower
  <2>2. z \in 0..m /\ z + c <= m /\ k \in Nat
      BY <1>1
  <2> DEFINE s == Addr(k, z, g, w)
  <2>3. s \in Int
      BY <1>3
  <2> HIDE DEF s
  <2>4. Copy(dst, Addr(k, z, g, m), src, s, c)[Addr(l, p, h, m)]
          = IF l = k /\ h = g /\ z <= p /\ p < z + c
            THEN src[s + (p - z)] ELSE dst[Addr(l, p, h, m)]
      BY <2>1, <2>2, <2>3, CopyRow
  <2> QED
      BY <2>4 DEF s
<1> HIDE DEF to
<1>6. ASSUME NEW p \in Lower(c)
      PROVE  to[Addr(k, p, g, m)] = src[Addr(k, p, g, w)]
  <2>1. p \in Lower(m) /\ p < c
      BY DEF Lower
  <2>2. Addr(k, z + p, g, w) = Addr(k, z, g, w) + p
      BY <1>1, <2>1, AddrType
  <2> QED
      BY <1>1, <1>5, <2>1, <2>2
<1>7. ASSUME NEW l \in Layer, NEW p \in Lower(m), NEW h \in Half,
             l # k \/ h # g \/ ~(p < c)
      PROVE  to[Addr(l, p, h, m)] = dst[Addr(l, p, h, m)]
    BY <1>1, <1>5, <1>7
<1> QED
    BY <1>4, <1>6, <1>7 DEF to, z

\* The rest of a row, from its entry c on, is overwritten with one word.
LEMMA RowFilled ==
    ASSUME NEW m \in Nat, NEW dst \in [Packed(m) -> Word], NEW k \in Layer,
           NEW g \in Half, NEW c \in Nat, c <= m, NEW w \in Word,
           NEW r, r = m - c, NEW to, to = Fill(dst, Addr(k, c, g, m), r, w)
    PROVE  /\ to \in [Packed(m) -> Word]
           /\ \A p \in Lower(m) : ~(p < c) => to[Addr(k, p, g, m)] = w
           /\ \A l \in Layer, p \in Lower(m), h \in Half :
                l # k \/ h # g \/ p < c
                  => to[Addr(l, p, h, m)] = dst[Addr(l, p, h, m)]
<1>1. k \in Nat /\ c \in 0..m /\ m - c \in Nat /\ c + (m - c) <= m
      /\ c + (m - c) = m
    BY Sizes
<1>2. to \in [Packed(m) -> Word]
    BY FillType
<1>3. ASSUME NEW l \in Layer, NEW p \in Lower(m), NEW h \in Half
      PROVE  to[Addr(l, p, h, m)] = IF l = k /\ h = g /\ c <= p /\ p < c + (m - c)
                                    THEN w ELSE dst[Addr(l, p, h, m)]
  <2>1. p \in 0..(m - 1) /\ DOMAIN dst = Packed(m)
      BY DEF Lower
  <2>2. Fill(dst, Addr(k, c, g, m), m - c, w)[Addr(l, p, h, m)]
          = IF l = k /\ h = g /\ c <= p /\ p < c + (m - c)
            THEN w ELSE dst[Addr(l, p, h, m)]
      BY <1>1, <2>1, FillRow
  <2> QED
      BY <2>2
<1>4. \A p \in Lower(m) : p < m /\ (c <= p <=> ~(p < c))
    BY DEF Lower
<1>5. ASSUME NEW p \in Lower(m), ~(p < c)
      PROVE  to[Addr(k, p, g, m)] = w
    BY <1>1, <1>3, <1>4, <1>5
<1>6. ASSUME NEW l \in Layer, NEW p \in Lower(m), NEW h \in Half,
             l # k \/ h # g \/ p < c
      PROVE  to[Addr(l, p, h, m)] = dst[Addr(l, p, h, m)]
    BY <1>3, <1>4, <1>6
<1> QED
    BY <1>2, <1>5, <1>6

LEMMA StartGatherStep ==
    ASSUME Good, NEW m \in 1..MaxContext, StartGather(m)
    PROVE  Good'
<1>1. m \in 0..MaxContext /\ 0 \in 0..NLayers /\ Lower(0) = {} /\ Zero \in Word
    BY Sizes DEF Lower, Word
<1>2. host' = [a \in Packed(m) |-> Zero] /\ n' = m /\ layer' = 0
      /\ pc' = "gather" /\ ~int8
      /\ UNCHANGED <<int8, kv_int8, mixed, gpu, cpu, scales, want>>
      /\ UNCHANGED <<gpuTokens, file, fileWant>>
    BY DEF StartGather, Packed, FormatOK, Good, format, pools
<1>3. TypeOK'
    BY <1>1, <1>2 DEF Good, TypeOK
<1>4. CopyOK'
    BY <1>1, <1>2 DEF CopyOK
<1> QED
    BY <1>2, <1>3, <1>4 DEF Good, FormatOK, FastOK, SlowOK, ScaleOK, FileOK

\* Where the rows of a layer start.
LEMMA AddrStart ==
    ASSUME NEW k \in Nat, NEW m \in Nat
    PROVE  /\ Addr(k, 0, "k", m) = k * 2 * m
           /\ Addr(k, 0, "v", m) = k * 2 * m + m
<1> DEFINE z == 0
<1>1. z \in Int /\ \A x \in Int : x + z = x
    OBVIOUS
<1> HIDE DEF z
<1>2. /\ Addr(k, z, "k", m) = k * 2 * m + z
      /\ Addr(k, z, "v", m) = k * 2 * m + m + z
    BY <1>1, AddrSum
<1>3. k * 2 * m \in Int /\ k * 2 * m + m \in Int
    OBVIOUS
<1> QED
    BY <1>1, <1>2, <1>3 DEF z

\* The two copies of one layer.
LEMMA GatheredRows ==
    ASSUME n \in 1..MaxContext, host \in [Packed(n) -> Word],
           gpu \in [Packed(MaxContext) -> Word], NEW k \in Layer
    PROVE  /\ Gathered(k) \in [Packed(n) -> Word]
           /\ \A p \in Lower(n), h \in Half :
                Gathered(k)[Addr(k, p, h, n)] = gpu[Addr(k, p, h, MaxContext)]
           /\ \A l \in Layer, p \in Lower(n), h \in Half :
                l # k => Gathered(k)[Addr(l, p, h, n)] = host[Addr(l, p, h, n)]
<1> DEFINE one == Copy(host, Addr(k, 0, "k", n), gpu,
                       Addr(k, 0, "k", MaxContext), n)
           two == Copy(one, Addr(k, 0, "v", n), gpu,
                       Addr(k, 0, "v", MaxContext), n)
<1>1. k \in Nat /\ n \in Nat /\ MaxContext \in Nat /\ n <= n /\ n <= MaxContext
    BY Sizes
<1>2. "k" \in Half /\ "v" \in Half
    BY DEF Half
<1>3. Gathered(k) = two
  <2>1. \A m \in Nat : /\ Addr(k, 0, "k", m) = k * 2 * m
                       /\ Addr(k, 0, "v", m) = k * 2 * m + m
      BY <1>1, AddrStart
  <2> QED
      BY <1>1, <2>1 DEF Gathered
<1>4. /\ one \in [Packed(n) -> Word]
      /\ \A p \in Lower(n) :
           one[Addr(k, p, "k", n)] = gpu[Addr(k, p, "k", MaxContext)]
      /\ \A l \in Layer, p \in Lower(n), h \in Half :
           l # k \/ h # "k" \/ ~(p < n)
             => one[Addr(l, p, h, n)] = host[Addr(l, p, h, n)]
    BY <1>1, <1>2, RowCopied
<1> HIDE DEF one
<1>5. /\ two \in [Packed(n) -> Word]
      /\ \A p \in Lower(n) :
           two[Addr(k, p, "v", n)] = gpu[Addr(k, p, "v", MaxContext)]
      /\ \A l \in Layer, p \in Lower(n), h \in Half :
           l # k \/ h # "v" \/ ~(p < n)
             => two[Addr(l, p, h, n)] = one[Addr(l, p, h, n)]
    BY <1>1, <1>2, <1>4, RowCopied
<1> HIDE DEF two
<1>6. ASSUME NEW p \in Lower(n), NEW h \in Half
      PROVE  two[Addr(k, p, h, n)] = gpu[Addr(k, p, h, MaxContext)]
  <2>1. CASE h = "k"
      BY <1>2, <1>4, <1>5, <2>1
  <2>2. CASE h = "v"
      BY <1>5, <2>2
  <2> QED
      BY <2>1, <2>2 DEF Half
<1>7. ASSUME NEW l \in Layer, NEW p \in Lower(n), NEW h \in Half, l # k
      PROVE  two[Addr(l, p, h, n)] = host[Addr(l, p, h, n)]
    BY <1>4, <1>5, <1>7
<1> QED
    BY <1>3, <1>5, <1>6, <1>7

LEMMA GatherLayerStep ==
    ASSUME Good, GatherLayer
    PROVE  Good'
<1>1. /\ pc = "gather" /\ layer < NLayers /\ host' = Gathered(layer)
      /\ layer' = layer + 1
      /\ UNCHANGED <<int8, kv_int8, mixed, gpu, cpu, scales, want>>
      /\ UNCHANGED <<gpuTokens, pc, n, file, fileWant>>
    BY DEF GatherLayer, format, pools
<1>2. /\ n \in 1..MaxContext /\ ~int8 /\ host \in [Packed(n) -> Word]
      /\ gpu \in [Packed(MaxContext) -> Word]
      /\ \A l \in Lower(layer), p \in Lower(n), h \in Half :
           host[Addr(l, p, h, n)] = want[<<l, p, h>>]
    BY <1>1, Sizes DEF Good, CopyOK, TypeOK
<1>3. layer \in Layer /\ layer + 1 \in 0..NLayers
      /\ \A l \in Lower(layer + 1) : l \in Layer /\ (l = layer \/ l \in Lower(layer))
    BY <1>1, Sizes DEF Good, TypeOK, Layer, Lower
<1>4. Lower(n) \subseteq Lower(MaxContext)
    BY <1>2, Sizes DEF Lower
<1>5. TypeOK'
    BY <1>1, <1>3 DEF Good, TypeOK
<1>6. CopyOK'
  <2>1. host' \in [Packed(n) -> Word]
      BY <1>1, <1>2, <1>3, GatheredRows
  <2>2. ASSUME NEW l \in Lower(layer + 1), NEW p \in Lower(n), NEW h \in Half
        PROVE  host'[Addr(l, p, h, n)] = want[<<l, p, h>>]
    <3>1. CASE l = layer
        BY <1>1, <1>2, <1>3, <1>4, <3>1, GatheredRows DEF Good, FastOK
    <3>2. CASE l # layer
        BY <1>1, <1>2, <1>3, <3>2, GatheredRows
    <3> QED
        BY <3>1, <3>2
  <2> QED
      BY <1>1, <1>2, <2>1, <2>2 DEF CopyOK
<1> QED
    BY <1>1, <1>5, <1>6 DEF Good, FormatOK, FastOK, SlowOK, ScaleOK, FileOK

\* After any copy the pool is idle and the buffer is gone.
LEMMA FinishStep ==
    ASSUME Finish
    PROVE  CopyOK' /\ pc' = "idle" /\ layer' \in 0..NLayers /\ n' \in 0..MaxContext
BY Sizes DEF Finish, CopyOK

LEMMA GatherDoneStep ==
    ASSUME Good, GatherDone
    PROVE  Good'
<1>1. /\ pc = "gather" /\ layer = NLayers /\ Finish
      /\ UNCHANGED <<int8, kv_int8, mixed, gpu, cpu, scales, want, gpuTokens>>
    BY DEF GatherDone, format, pools
<1>2. /\ n \in 1..MaxContext /\ host \in [Packed(n) -> Word] /\ ~int8
      /\ \A l \in Layer, p \in Lower(n), h \in Half :
           host[Addr(l, p, h, n)] = want[<<l, p, h>>]
    BY <1>1, Sizes DEF Good, CopyOK, Lower, Layer
<1>3. FileOK'
  <2>1. CASE UNCHANGED <<file, fileWant>>
      BY <2>1 DEF Good, FileOK
  <2>2. CASE /\ file' = [int8 |-> int8, tokens |-> n, body |-> host]
             /\ fileWant' = [c \in DOMAIN want |-> IF c[2] < n THEN want[c] ELSE Any]
    <3>1. file'.tokens = n /\ file'.body = host
        BY <2>2
    <3>2. ASSUME NEW l \in Layer, NEW p \in Lower(n), NEW h \in Half
          PROVE  fileWant'[<<l, p, h>>] = want[<<l, p, h>>]
      <4>1. p \in Pos /\ p < n
          BY <1>2, Sizes DEF Lower
      <4>2. <<l, p, h>> \in DOMAIN want
          BY <4>1, SlotIn DEF Good, TypeOK
      <4> QED
          BY <2>2, <4>1, <4>2
    <3> QED
        BY <1>2, <3>1, <3>2 DEF FileOK
  <2> QED
      BY <2>1, <2>2 DEF GatherDone
<1>4. TypeOK'
    BY <1>1, FinishStep DEF Good, TypeOK
<1>5. FormatOK'
  <2>1. int8 = FALSE
      BY <1>2 DEF Good, TypeOK
  <2>2. file' = file \/ file' = [int8 |-> int8, tokens |-> n, body |-> host]
      BY DEF GatherDone
  <2>3. file' # NoFile => file'.int8 = FALSE
      BY <2>1, <2>2 DEF Good, FormatOK
  <2> QED
      BY <1>1, <2>3 DEF Good, FormatOK
<1> QED
    BY <1>1, <1>3, <1>4, <1>5, FinishStep DEF Good, FastOK, SlowOK, ScaleOK

LEMMA GatherFailsStep ==
    ASSUME Good, GatherFails
    PROVE  Good'
<1>1. /\ Finish
      /\ UNCHANGED <<int8, kv_int8, mixed, gpu, cpu, scales, want>>
      /\ UNCHANGED <<gpuTokens, file, fileWant>>
    BY DEF GatherFails, format, pools
<1>2. TypeOK'
    BY <1>1, FinishStep DEF Good, TypeOK
<1> QED
    BY <1>1, <1>2, FinishStep DEF Good, FormatOK, FastOK, SlowOK, ScaleOK, FileOK

\* Every address is that of some slot.
LEMMA AddrOnto ==
    ASSUME NEW m \in Nat \ {0}, NEW a \in Packed(m)
    PROVE  \E l \in Layer, p \in Lower(m), h \in Half : a = Addr(l, p, h, m)
<1> DEFINE w == 2 * m
           l == a \div w
           r == a % w
<1>1. a \in Nat /\ m \in Nat /\ w \in Nat \ {0} /\ NLayers \in Nat /\ NLayers > 0
      /\ a < 2 * NLayers * m
    BY ConstAssumption, Product DEF Packed
<1>2. l \in Nat /\ r \in 0..(w - 1) /\ a = w * l + r
    BY <1>1, DivSum
<1>3. l \in Layer
  <2> SUFFICES ASSUME NLayers <= l PROVE FALSE
      BY <1>1, <1>2 DEF Layer
  <2>1. w * NLayers <= w * l
      BY <1>1, <1>2
  <2>2. w * NLayers = 2 * NLayers * m
      BY <1>1
  <2>3. w * l \in Nat
      BY <1>1, <1>2
  <2> HIDE DEF l, r, w
  <2> QED
      BY <1>1, <1>2, <2>1, <2>2, <2>3
<1>4. w * l = l * 2 * m /\ l * 2 * m \in Nat
    BY <1>1, <1>2
<1>5. r < m \/ r - m \in 0..(m - 1)
    BY <1>1, <1>2
<1> HIDE DEF l, r
<1>6. CASE r < m
  <2>1. r \in Lower(m) /\ r \in Int
      BY <1>1, <1>2, <1>6 DEF Lower
  <2>2. Addr(l, r, "k", m) = l * 2 * m + r
      BY <1>1, <1>2, <2>1, AddrSum
  <2> QED
      BY <1>2, <1>3, <1>4, <2>1, <2>2 DEF Half
<1>7. CASE r - m \in 0..(m - 1)
  <2> DEFINE p == r - m
  <2>1. p \in Lower(m) /\ p \in Int
      BY <1>7 DEF Lower
  <2>2. m + p = r
      BY <1>1, <1>2
  <2> HIDE DEF p
  <2>3. Addr(l, p, "v", m) = l * 2 * m + m + p
      BY <1>1, <1>2, <2>1, AddrSum
  <2>4. a = Addr(l, p, "v", m)
      BY <1>1, <1>2, <1>4, <2>1, <2>2, <2>3
  <2> QED
      BY <1>3, <2>1, <2>4 DEF Half
<1> QED
    BY <1>5, <1>6, <1>7

\* The compacted buffer holds the first m entries of every row of the file.
LEMMA Compacted ==
    ASSUME NEW f, f.tokens \in Nat, f.body \in [Packed(f.tokens) -> Word],
           NEW m \in Nat \ {0}, m <= f.tokens
    PROVE  /\ Compact(f, m) \in [Packed(m) -> Word]
           /\ \A l \in Layer, p \in Lower(m), h \in Half :
                Compact(f, m)[Addr(l, p, h, m)] = f.body[Addr(l, p, h, f.tokens)]
<1> DEFINE t == f.tokens
           w == 2 * m
           at(l, r) == l * 2 * t + IF r < m THEN r ELSE t + (r - m)
<1>1. m \in Nat /\ t \in Nat /\ m <= t /\ w \in Nat \ {0}
    OBVIOUS
<1>2. Compact(f, m) = [a \in Packed(m) |-> f.body[at(a \div w, a % w)]]
    BY DEF Compact, Packed
<1>3. ASSUME NEW l \in Layer, NEW p \in Lower(m), NEW h \in Half
      PROVE  /\ Addr(l, p, h, m) \in Packed(m)
             /\ Compact(f, m)[Addr(l, p, h, m)] = f.body[Addr(l, p, h, t)]
             /\ Addr(l, p, h, t) \in Packed(t)
  <2>1. /\ l \in Nat /\ p \in 0..(m - 1) /\ p \in 0..(t - 1) /\ p \in Int
        /\ p \in Nat /\ p < m /\ ~(m + p < m) /\ (m + p) - m = p
        /\ p \in 0..(w - 1) /\ m + p \in 0..(w - 1)
      BY <1>1, ConstAssumption DEF Layer, Lower
  <2>2. Addr(l, p, h, m) \in Packed(m) /\ Addr(l, p, h, t) \in Packed(t)
      BY <1>1, <2>1, AddrRange DEF Packed
  <2>3. l * 2 * m = l * w /\ l * w \in Nat /\ l * 2 * t \in Nat
      BY <1>1, <2>1
  <2>4. Compact(f, m)[Addr(l, p, h, m)]
          = f.body[at(Addr(l, p, h, m) \div w, Addr(l, p, h, m) % w)]
      BY <1>2, <2>2
  <2> HIDE DEF w, t
  <2>5. /\ (l * w + p) \div w = l /\ (l * w + p) % w = p
        /\ (l * w + (m + p)) \div w = l /\ (l * w + (m + p)) % w = m + p
    <3>1. \A r \in 0..(w - 1) : (l * w + r) \div w = l /\ (l * w + r) % w = r
        BY <1>1, <2>1, DivMod
    <3> QED
        BY <2>1, <3>1
  <2>6. \A j \in Nat : /\ Addr(l, p, "k", j) = l * 2 * j + p
                       /\ Addr(l, p, "v", j) = l * 2 * j + j + p
      BY <2>1, AddrSum
  <2>7. CASE h = "k"
    <3>1. Addr(l, p, "k", m) = l * w + p /\ Addr(l, p, "k", t) = l * 2 * t + p
        BY <1>1, <2>3, <2>6, Zenon
    <3>2. at(l, p) = l * 2 * t + p
        BY <2>1
    <3> HIDE DEF at
    <3> QED
        BY <2>2, <2>4, <2>5, <2>7, <3>1, <3>2
  <2>8. CASE h = "v"
    <3>1. /\ Addr(l, p, "v", m) = l * w + (m + p)
          /\ Addr(l, p, "v", t) = l * 2 * t + (t + p)
      <4>1. /\ Addr(l, p, "v", m) = l * 2 * m + m + p
            /\ Addr(l, p, "v", t) = l * 2 * t + t + p
          BY <1>1, <2>6, Zenon
      <4> DEFINE x == l * w
                 y == l * 2 * t
      <4>2. x \in Nat /\ y \in Nat /\ l * 2 * m = x
          BY <2>3
      <4> HIDE DEF x, y
      <4>3. x + m + p = x + (m + p) /\ y + t + p = y + (t + p)
          BY <1>1, <2>1, <4>2
      <4> QED
          BY <4>1, <4>2, <4>3 DEF x, y
    <3>2. at(l, m + p) = l * 2 * t + (t + p)
        BY <2>1
    <3> HIDE DEF at
    <3> QED
        BY <2>2, <2>4, <2>5, <2>8, <3>1, <3>2
  <2> QED
      BY <2>7, <2>8 DEF Half
<1>4. ASSUME NEW a \in Packed(m)
      PROVE  Compact(f, m)[a] \in Word
  <2>1. PICK l \in Layer, p \in Lower(m), h \in Half : a = Addr(l, p, h, m)
      BY AddrOnto
  <2> QED
      BY <1>3, <2>1
<1>5. Compact(f, m) \in [Packed(m) -> Word]
  <2>1. Compact(f, m) = [a \in Packed(m) |-> Compact(f, m)[a]]
      BY <1>2
  <2> QED
      BY <1>4, <2>1
<1> QED
    BY <1>3, <1>5

LEMMA StartScatterStep ==
    ASSUME Good, NEW m \in 1..MaxContext, StartScatter(m)
    PROVE  Good'
<1>1. /\ file # NoFile /\ m <= file.tokens /\ host' = Compact(file, m)
      /\ n' = m /\ layer' = 0 /\ pc' = "scatter" /\ ~int8
      /\ UNCHANGED <<int8, kv_int8, mixed, gpu, cpu, scales, want>>
      /\ UNCHANGED <<gpuTokens, file, fileWant>>
    BY DEF StartScatter, Fits, FormatOK, Good, format, pools
<1>2. /\ m \in Nat \ {0} /\ m \in 0..MaxContext /\ 0 \in 0..NLayers
      /\ file.tokens \in 1..MaxContext /\ file.tokens \in Nat
      /\ file.body \in [Packed(file.tokens) -> Word]
      /\ Lower(m) \subseteq Lower(file.tokens)
    BY <1>1, Sizes DEF Good, FileOK, Lower
<1>3. TypeOK'
    BY <1>1, <1>2 DEF Good, TypeOK
<1>4. CopyOK'
  <2>1. /\ host' \in [Packed(m) -> Word]
        /\ \A l \in Layer, p \in Lower(m), h \in Half :
             host'[Addr(l, p, h, m)] = file.body[Addr(l, p, h, file.tokens)]
      BY <1>1, <1>2, Compacted
  <2>2. \A l \in Layer, p \in Lower(m), h \in Half :
          host'[Addr(l, p, h, m)] = fileWant[<<l, p, h>>]
      BY <1>1, <1>2, <2>1 DEF Good, FileOK
  <2> QED
      BY <1>1, <2>1, <2>2 DEF CopyOK
<1> QED
    BY <1>1, <1>3, <1>4 DEF Good, FormatOK, FastOK, SlowOK, ScaleOK, FileOK

\* The copies and fills of one layer, as far as they got.
LEMMA ScatteredRows ==
    ASSUME n \in 1..MaxContext, host \in [Packed(n) -> Word],
           gpu \in [Packed(MaxContext) -> Word], NEW k \in Layer, NEW calls \in 0..4
    PROVE  /\ Scattered(k, calls) \in [Packed(MaxContext) -> Word]
           /\ \A l \in Layer, p \in Lower(MaxContext), h \in Half :
                LET done == IF p < n THEN IF h = "k" THEN 1 ELSE 2
                            ELSE IF h = "k" THEN 3 ELSE 4
                IN Scattered(k, calls)[Addr(l, p, h, MaxContext)]
                     = IF l = k /\ calls >= done
                       THEN IF p < n THEN host[Addr(l, p, h, n)] ELSE Zero
                       ELSE gpu[Addr(l, p, h, MaxContext)]
<1> DEFINE M == MaxContext
           k1 == IF calls >= 1
                 THEN Copy(gpu, Addr(k, 0, "k", M), host, Addr(k, 0, "k", n), n)
                 ELSE gpu
           k2 == IF calls >= 2
                 THEN Copy(k1, Addr(k, 0, "v", M), host, Addr(k, 0, "v", n), n)
                 ELSE k1
           k3 == IF calls >= 3 THEN Fill(k2, Addr(k, n, "k", M), M - n, Zero) ELSE k2
           k4 == IF calls >= 4 THEN Fill(k3, Addr(k, n, "v", M), M - n, Zero) ELSE k3
<1>1. k \in Nat /\ n \in Nat /\ n \in Int /\ M \in Nat /\ n <= n /\ n <= M
      /\ Zero \in Word
    BY Sizes DEF Word
<1>2. "k" \in Half /\ "v" \in Half
    BY DEF Half
<1>3. Scattered(k, calls) = k4
  <2>1. /\ Addr(k, 0, "k", M) = k * 2 * M /\ Addr(k, 0, "v", M) = k * 2 * M + M
        /\ Addr(k, 0, "k", n) = k * 2 * n /\ Addr(k, 0, "v", n) = k * 2 * n + n
      BY <1>1, AddrStart
  <2>2. /\ Addr(k, n, "k", M) = k * 2 * M + n
        /\ Addr(k, n, "v", M) = k * 2 * M + M + n
      BY <1>1, AddrSum
  <2> QED
      BY <2>1, <2>2 DEF Scattered
<1>4. /\ k1 \in [Packed(M) -> Word]
      /\ calls >= 1 => \A p \in Lower(n) :
                         k1[Addr(k, p, "k", M)] = host[Addr(k, p, "k", n)]
      /\ \A l \in Layer, p \in Lower(M), h \in Half :
           l # k \/ h # "k" \/ ~(p < n) \/ ~(calls >= 1)
             => k1[Addr(l, p, h, M)] = gpu[Addr(l, p, h, M)]
  <2>1. CASE calls >= 1
      BY <1>1, <1>2, <2>1, RowCopied
  <2>2. CASE ~(calls >= 1)
      BY <2>2
  <2> QED
      BY <2>1, <2>2
<1> HIDE DEF k1
<1>5. /\ k2 \in [Packed(M) -> Word]
      /\ calls >= 2 => \A p \in Lower(n) :
                         k2[Addr(k, p, "v", M)] = host[Addr(k, p, "v", n)]
      /\ \A l \in Layer, p \in Lower(M), h \in Half :
           l # k \/ h # "v" \/ ~(p < n) \/ ~(calls >= 2)
             => k2[Addr(l, p, h, M)] = k1[Addr(l, p, h, M)]
  <2>1. CASE calls >= 2
      BY <1>1, <1>2, <1>4, <2>1, RowCopied
  <2>2. CASE ~(calls >= 2)
      BY <1>4, <2>2
  <2> QED
      BY <2>1, <2>2
<1> HIDE DEF k2
<1>6. /\ k3 \in [Packed(M) -> Word]
      /\ calls >= 3 => \A p \in Lower(M) :
                         ~(p < n) => k3[Addr(k, p, "k", M)] = Zero
      /\ \A l \in Layer, p \in Lower(M), h \in Half :
           l # k \/ h # "k" \/ p < n \/ ~(calls >= 3)
             => k3[Addr(l, p, h, M)] = k2[Addr(l, p, h, M)]
  <2>1. CASE calls >= 3
      BY <1>1, <1>2, <1>5, <2>1, RowFilled
  <2>2. CASE ~(calls >= 3)
      BY <1>5, <2>2
  <2> QED
      BY <2>1, <2>2
<1> HIDE DEF k3
<1>7. /\ k4 \in [Packed(M) -> Word]
      /\ calls >= 4 => \A p \in Lower(M) :
                         ~(p < n) => k4[Addr(k, p, "v", M)] = Zero
      /\ \A l \in Layer, p \in Lower(M), h \in Half :
           l # k \/ h # "v" \/ p < n \/ ~(calls >= 4)
             => k4[Addr(l, p, h, M)] = k3[Addr(l, p, h, M)]
  <2>1. CASE calls >= 4
    <3>1. k4 = Fill(k3, Addr(k, n, "v", M), M - n, Zero)
        BY <2>1
    <3>2. k3 \in [Packed(M) -> Word]
        BY <1>6
    <3> HIDE DEF k4
    <3> QED
        BY <1>1, <1>2, <2>1, <3>1, <3>2, RowFilled
  <2>2. CASE ~(calls >= 4)
      BY <1>6, <2>2
  <2> QED
      BY <2>1, <2>2
<1> HIDE DEF k4
<1>8. ASSUME NEW l \in Layer, NEW p \in Lower(M), NEW h \in Half
      PROVE  k4[Addr(l, p, h, M)]
               = IF l = k /\ calls >= (IF p < n THEN IF h = "k" THEN 1 ELSE 2
                                       ELSE IF h = "k" THEN 3 ELSE 4)
                 THEN IF p < n THEN host[Addr(l, p, h, n)] ELSE Zero
                 ELSE gpu[Addr(l, p, h, M)]
  <2>1. p < n => p \in Lower(n)
      BY <1>1 DEF Lower
  <2>2. CASE h = "k"
      BY <1>2, <1>4, <1>5, <1>6, <1>7, <2>1, <2>2
  <2>3. CASE h = "v"
      BY <1>2, <1>4, <1>5, <1>6, <1>7, <2>1, <2>3
  <2> QED
      BY <2>2, <2>3 DEF Half
<1> QED
    BY <1>3, <1>7, <1>8

\* A layer's copies, complete or not, keep the pool an array.
LEMMA ScatterKeeps ==
    ASSUME Good, pc = "scatter", layer \in Layer, NEW calls \in 0..4,
           gpu' = Scattered(layer, calls), want' = Wanted(layer, calls),
           UNCHANGED <<cpu, int8>>
    PROVE  /\ gpu' \in [Fast -> Word] /\ want' \in [Slot -> Word]
           /\ FastOK' /\ SlowOK' /\ ScaleOK'
<1>1. /\ n \in 1..MaxContext /\ ~int8 /\ host \in [Packed(n) -> Word]
      /\ gpu \in [Packed(MaxContext) -> Word] /\ want \in [Slot -> Word]
      /\ \A l \in Layer, p \in Lower(n), h \in Half :
           host[Addr(l, p, h, n)] = fileWant[<<l, p, h>>]
    BY Sizes DEF Good, TypeOK, CopyOK
<1>2. gpu' \in [Fast -> Word]
    BY <1>1, ScatteredRows, Sizes
<1>3. ASSUME NEW l \in Layer, NEW p \in Lower(MaxContext), NEW h \in Half
      PROVE  want'[<<l, p, h>>] = gpu'[Addr(l, p, h, MaxContext)]
  <2>1. <<l, p, h>> \in DOMAIN want /\ ~(p >= MaxContext)
        /\ (p < n => p \in Lower(n))
      BY <1>1, SlotIn, Sizes DEF Lower
  <2>2. want'[<<l, p, h>>] =
          IF l # layer THEN want[<<l, p, h>>]
          ELSE IF p < n
          THEN IF calls >= (IF h = "k" THEN 1 ELSE 2) THEN fileWant[<<l, p, h>>]
               ELSE want[<<l, p, h>>]
          ELSE IF calls >= (IF h = "k" THEN 3 ELSE 4) THEN Zero
               ELSE want[<<l, p, h>>]
      BY <2>1 DEF Wanted
  <2>3. gpu'[Addr(l, p, h, MaxContext)]
          = IF l = layer /\ calls >= (IF p < n THEN IF h = "k" THEN 1 ELSE 2
                                      ELSE IF h = "k" THEN 3 ELSE 4)
            THEN IF p < n THEN host[Addr(l, p, h, n)] ELSE Zero
            ELSE gpu[Addr(l, p, h, MaxContext)]
      BY <1>1, ScatteredRows
  <2>4. want[<<l, p, h>>] = gpu[Addr(l, p, h, MaxContext)]
      BY DEF Good, FastOK
  <2>5. p < n => host[Addr(l, p, h, n)] = fileWant[<<l, p, h>>]
      BY <1>1, <2>1
  <2> QED
      BY <2>2, <2>3, <2>4, <2>5
<1>4. ASSUME NEW l \in Layer, NEW p \in Lower(Overflow), NEW h \in Half
      PROVE  want'[<<l, MaxContext + p, h>>] = want[<<l, MaxContext + p, h>>]
  <2>1. MaxContext + p \in Pos /\ MaxContext + p >= MaxContext
      BY Sizes DEF Lower
  <2>2. <<l, MaxContext + p, h>> \in DOMAIN want
      BY <1>1, <2>1, SlotIn
  <2> QED
      BY <2>1, <2>2 DEF Wanted
<1>5. want' \in [Slot -> Word]
  <2>1. DOMAIN want' = Slot /\ want' = [c \in Slot |-> want'[c]]
      BY <1>1 DEF Wanted
  <2>2. ASSUME NEW c \in Slot PROVE want'[c] \in Word
    <3>1. PICK l \in Layer, p \in Pos, h \in Half : c = <<l, p, h>>
        BY SlotParts
    <3>2. CASE p \in Lower(MaxContext)
      <4>1. Addr(l, p, h, MaxContext) \in Fast
          BY <3>2, Sizes, AddrRange DEF Lower, Packed
      <4> QED
          BY <1>2, <1>3, <3>1, <3>2, <4>1
    <3>3. CASE ~(p < MaxContext)
      <4>1. PICK q \in Lower(Overflow) : p = MaxContext + q
          BY <3>3, Sizes
      <4> QED
          BY <1>1, <1>4, <3>1, <4>1
    <3> QED
        BY <3>2, <3>3, Sizes
  <2> QED
      BY <2>1, <2>2
<1>6. SlowOK'
    BY <1>4 DEF Good, SlowOK
<1> QED
    BY <1>1, <1>2, <1>3, <1>5, <1>6 DEF FastOK, ScaleOK

LEMMA ScatterLayerStep ==
    ASSUME Good, ScatterLayer
    PROVE  Good'
<1>1. /\ pc = "scatter" /\ layer < NLayers
      /\ gpu' = Scattered(layer, 4) /\ want' = Wanted(layer, 4)
      /\ layer' = layer + 1
      /\ UNCHANGED <<int8, kv_int8, mixed, cpu, scales, gpuTokens>>
      /\ UNCHANGED <<pc, n, host, file, fileWant>>
    BY DEF ScatterLayer, format
<1>2. layer \in Layer /\ layer + 1 \in 0..NLayers
    BY <1>1, Sizes DEF Good, TypeOK, Layer
<1>3. /\ gpu' \in [Fast -> Word] /\ want' \in [Slot -> Word]
      /\ FastOK' /\ SlowOK' /\ ScaleOK'
  <2> DEFINE calls == 4
  <2>1. calls \in 0..4 /\ gpu' = Scattered(layer, calls)
        /\ want' = Wanted(layer, calls)
      BY <1>1
  <2> HIDE DEF calls
  <2> QED
      BY <1>1, <1>2, <2>1, ScatterKeeps
<1>4. TypeOK'
    BY <1>1, <1>2, <1>3 DEF Good, TypeOK
<1>5. FileOK' /\ CopyOK' /\ FormatOK'
    BY <1>1 DEF Good, FileOK, CopyOK, FormatOK
<1> QED
    BY <1>3, <1>4, <1>5 DEF Good

LEMMA ScatterFailsStep ==
    ASSUME Good, ScatterFails
    PROVE  Good'
<1>1. /\ pc = "scatter" /\ layer < NLayers /\ Finish
      /\ UNCHANGED <<int8, kv_int8, mixed, cpu, scales, gpuTokens, file, fileWant>>
    BY DEF ScatterFails, format
<1>2. PICK calls \in 0..3 : gpu' = Scattered(layer, calls)
                            /\ want' = Wanted(layer, calls)
    BY DEF ScatterFails
<1>3. layer \in Layer /\ calls \in 0..4
    BY <1>1, Sizes DEF Good, TypeOK, Layer
<1>4. /\ gpu' \in [Fast -> Word] /\ want' \in [Slot -> Word]
      /\ FastOK' /\ SlowOK' /\ ScaleOK'
    BY <1>1, <1>2, <1>3, ScatterKeeps
<1>5. TypeOK'
    BY <1>1, <1>4, FinishStep DEF Good, TypeOK
<1>6. FileOK' /\ FormatOK'
    BY <1>1 DEF Good, FileOK, FormatOK
<1> QED
    BY <1>1, <1>4, <1>5, <1>6, FinishStep DEF Good

LEMMA ScatterDoneStep ==
    ASSUME Good, ScatterDone
    PROVE  Good'
<1>1. /\ Finish /\ gpuTokens' = n
      /\ UNCHANGED <<int8, kv_int8, mixed, gpu, cpu, scales, want>>
      /\ UNCHANGED <<file, fileWant>>
    BY DEF ScatterDone, format, pools
<1>2. TypeOK'
    BY <1>1, FinishStep DEF Good, TypeOK
<1> QED
    BY <1>1, <1>2, FinishStep DEF Good, FormatOK, FastOK, SlowOK, ScaleOK, FileOK

\* A new pool is an array of zeros, and its scales are.
LEMMA RestartStep ==
    ASSUME Good, NEW b \in BOOLEAN, Restart(b)
    PROVE  Good'
<1>1. /\ gpu' = [a \in Fast |-> Zero] /\ cpu' = [a \in Slow |-> Zero]
      /\ scales' = [a \in Fast |-> Zero] /\ want' = [c \in Slot |-> Zero]
    BY DEF Restart, Filled, Good, FormatOK
<1>2. /\ int8' = b /\ kv_int8' = b /\ gpuTokens' = 0 /\ pc = "idle"
      /\ UNCHANGED <<mixed, pc, layer, n, host, file, fileWant>>
    BY DEF Restart, copy
<1>3. Zero \in Word
    BY DEF Word
<1>4. TypeOK'
    BY <1>1, <1>2, <1>3, Sizes DEF Good, TypeOK
<1>5. FastOK' /\ ScaleOK'
    BY <1>1, Sizes, SlotIn, AddrRange DEF FastOK, ScaleOK, Lower, Packed
<1>6. SlowOK'
  <2> SUFFICES ASSUME NEW l \in Layer, NEW p \in Lower(Overflow), NEW h \in Half
               PROVE  want'[<<l, MaxContext + p, h>>]
                        = cpu'[Addr(l, p, h, Overflow)]
      BY DEF SlowOK
  <2>1. <<l, MaxContext + p, h>> \in Slot
      BY Sizes, SlotIn
  <2>2. Addr(l, p, h, Overflow) \in Slow
      BY Sizes, AddrRange DEF Lower, Packed
  <2> QED
      BY <1>1, <2>1, <2>2
<1>7. FormatOK' /\ FileOK' /\ CopyOK'
    BY <1>2 DEF Good, FormatOK, FileOK, CopyOK
<1> QED
    BY <1>4, <1>5, <1>6, <1>7 DEF Good

\* IInv is inductive: an override, once there, stays, and anything else keeps
\* Good.
LEMMA Step == IInv /\ [Next]_vars => IInv'
<1> SUFFICES ASSUME IInv, [Next]_vars PROVE IInv'
    OBVIOUS
<1>1. CASE mixed
  <2>1. mixed'
    <3>1. ASSUME NEW b \in BOOLEAN, Request(b) PROVE mixed'
        BY <1>1, <3>1, Zenon DEF Request
    <3>2. ASSUME NEW b \in BOOLEAN, Restart(b) PROVE mixed'
        BY <1>1, <3>2, Zenon DEF Restart
    <3>3. ASSUME NEW l \in Layer, NEW p \in Pos, NEW v \in Version, Store(l, p, v)
          PROVE  mixed'
        BY <1>1, <3>3, Zenon DEF Store
    <3>4. ASSUME NEW m \in 1..MaxContext, StartGather(m) \/ StartScatter(m)
          PROVE  mixed'
        BY <1>1, <3>4, Zenon DEF StartGather, StartScatter, format
    <3>5. GatherLayer \/ GatherDone \/ GatherFails => mixed'
        BY <1>1, Zenon DEF GatherLayer, GatherDone, GatherFails, format
    <3>6. ScatterLayer \/ ScatterDone \/ ScatterFails => mixed'
        BY <1>1, Zenon DEF ScatterLayer, ScatterDone, ScatterFails, format
    <3>7. UNCHANGED vars => mixed'
        BY <1>1, Zenon DEF vars, format
    <3> QED
        BY <3>1, <3>2, <3>3, <3>4, <3>5, <3>6, <3>7 DEF Next
  <2> QED
      BY <2>1 DEF IInv
<1>2. CASE Good
  <2>1. ASSUME NEW l \in Layer, NEW p \in Pos, NEW v \in Version, Store(l, p, v)
        PROVE  Good'
      BY <1>2, <2>1, StoreStep
  <2>2. ASSUME NEW m \in 1..MaxContext, StartGather(m) PROVE Good'
      BY <1>2, <2>2, StartGatherStep
  <2>3. ASSUME NEW m \in 1..MaxContext, StartScatter(m) PROVE Good'
      BY <1>2, <2>3, StartScatterStep
  <2>4. CASE GatherLayer
      BY <1>2, <2>4, GatherLayerStep DEF IInv
  <2>5. CASE GatherDone
      BY <1>2, <2>5, GatherDoneStep DEF IInv
  <2>6. CASE GatherFails
      BY <1>2, <2>6, GatherFailsStep DEF IInv
  <2>7. CASE ScatterLayer
      BY <1>2, <2>7, ScatterLayerStep DEF IInv
  <2>8. CASE ScatterDone
      BY <1>2, <2>8, ScatterDoneStep DEF IInv
  <2>9. CASE ScatterFails
      BY <1>2, <2>9, ScatterFailsStep DEF IInv
  <2>10. ASSUME NEW b \in BOOLEAN, Restart(b) PROVE Good'
      BY <1>2, <2>10, RestartStep
  <2>11. ASSUME NEW b \in BOOLEAN, Request(b) PROVE mixed'
      BY <1>2, <2>11 DEF Request, Good, FormatOK
  <2>12. CASE UNCHANGED vars
    <3>1. Good'
        BY <1>2, <2>12 DEF vars, format, pools, copy, Good, TypeOK, FormatOK,
             FastOK, SlowOK, ScaleOK, FileOK, CopyOK
    <3> QED
        BY <3>1 DEF IInv
  <2> QED
      BY <2>1, <2>2, <2>3, <2>4, <2>5, <2>6, <2>7, <2>8, <2>9, <2>10, <2>11, <2>12
      DEF Next, IInv
<1> QED
    BY <1>1, <1>2 DEF IInv

-----------------------------------------------------------------------------
(* The theorems.                                                           *)

\* As long as no request overrides the pool's format, in every reachable
\* state the flat pools hold what the array should, every file is in FP16, and
\* during a gather or a scatter the buffer agrees with the part of the pool
\* or of the file that the copying has got to.
THEOREM Invariance == Spec => []IInv
<1>1. Init => IInv
    BY IdleInit DEF IInv
<1> QED
    BY <1>1, Step, PTL DEF Spec

\* As long as no request overrides the pool's format, every access of
\* KVCachePool stays inside its arrays and leaves words in them, and a copy
\* never runs past the last layer or the fast pool.
THEOREM TypeCorrect == Spec => [](~mixed => TypeOK)
<1>1. IInv => (~mixed => TypeOK)
    BY DEF IInv, Good
<1> QED
    BY <1>1, Invariance, PTL

\* The flat pools behave as an array indexed by layer, position and half
\* (key_ptr, val_ptr, gather_used_to_host, scatter_from_host and the
\* compaction in try_hydrate_kv), for every number of layers, every size of
\* the two pools and every length of the saved and the matched prefix, as
\* long as no request overrides the pool's format.
THEOREM PoolIsAnArray == Spec => []PoolIsArray
<1>1. IInv => PoolIsArray
    BY ArrayIff DEF IInv, Good, PoolIsArray
<1> QED
    BY <1>1, Invariance, PTL

\* As long as no request overrides the pool's format, every half in an INT8
\* fast pool is read with the scales computed for it, across saves,
\* hydrations and restarts in either format, for every number of layers and
\* size of the pool: gather is skipped by a request in INT8, so no file is in
\* INT8, and try_hydrate_kv refuses a file of another format.
THEOREM ScalesAgree == Spec => []ScalesFollow
<1>1. IInv => ScalesFollow
    BY ScalesIff DEF IInv, Good, ScalesFollow
<1> QED
    BY <1>1, Invariance, PTL
=============================================================================
