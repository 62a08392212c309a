---------------------------- MODULE EngineProofs ----------------------------
(***************************************************************************)
(* For every vocabulary, prompt, cap, context and number of conversations: *)
(* Engine keeps its types and stays inside its pool, delivers at most one  *)
(* token after stop(), implements Generator, keeps count of what is in its *)
(* cache, and samples from and saves the history of its own request only.  *)
(***************************************************************************)
EXTENDS Engine, TLAPS, SequenceTheorems

\* TypeOK in four parts.
DiskOK == disk \in [Conv -> KVFile \cup {NoFile}]
ProcessOK ==
    /\ model \in Model \cup {NoModel} /\ int8Pool \in BOOLEAN
    /\ maxCtx \in Contexts /\ hash \in Hash
KvOK == kv \in [Slot -> Cell \cup {Junk}]
CallOK ==
    /\ stop \in BOOLEAN /\ pc \in PC /\ req \in Request \cup {NoReq}
    /\ pc # "idle" => req # NoReq /\ model # NoModel
    /\ start \in 0..maxCtx /\ pos \in 0..limit
    /\ x \in Seq(Token) \cup {Junk, Null}
    /\ last \in Token /\ tok \in Token
    /\ kvTokens \in Seq(Token) /\ out \in Seq(Token) /\ recent \in Seq(Token)
    /\ after \in Nat

\* A prompt is never empty and leaves room for a token; the positions of the
\* prefill are positions of the prompt.
PromptFits ==
    /\ pc # "idle" => N > 0 /\ N < limit
    /\ pc = "prefill" => start <= N /\ pos <= N
    /\ pc = "idle" => start = 0 /\ pos = 0

TypeInv == DiskOK /\ ProcessOK /\ KvOK /\ CallOK /\ PromptFits

LEMMA TypeParts == TypeInv => TypeOK
  BY DEF TypeInv, DiskOK, ProcessOK, KvOK, CallOK, TypeOK

LEMMA ContextType ==
  ASSUME NEW c \in Contexts
  PROVE  /\ c \in Nat \ {0} /\ c + Overflow \in Nat \ {0}
         /\ c <= c + Overflow /\ c + Overflow <= MaxSlots
  BY ConstAssumption

LEMMA LimitType ==
  ASSUME ProcessOK
  PROVE  /\ maxCtx \in Nat \ {0} /\ limit \in Nat \ {0}
         /\ maxCtx <= limit /\ limit <= MaxSlots
  BY ContextType DEF ProcessOK, limit

-----------------------------------------------------------------------------
(* The operators of "What attention sees".                                 *)

LEMMA HistoryType ==
  ASSUME NEW k \in [Slot -> Cell \cup {Junk}], NEW m \in 0..MaxSlots,
         Coherent(k, m)
  PROVE  History(k, m) \in Seq(Token)
  <1>1. CASE m = 0
    BY <1>1 DEF History
  <1>2. CASE m # 0
    <2>1. m - 1 \in Slot
      BY <1>2, ConstAssumption DEF Slot
    <2>2. k[m - 1] \in Cell
      BY <1>2, <2>1 DEF Coherent
    <2> QED
      BY <1>2, <2>2 DEF History, Cell
  <1> QED
    BY <1>1, <1>2

LEMMA HiddenType ==
  ASSUME NEW k \in [Slot -> Cell \cup {Junk}], NEW m \in 0..MaxSlots
  PROVE  Hidden(k, m) \in Seq(Token) \cup {Junk, Null}
  BY HistoryType DEF Hidden

LEMMA ComputedType ==
  ASSUME ProcessOK, model # NoModel, NEW p, NEW s, NEW ok \in BOOLEAN,
         ok => s \in Seq(Token)
  PROVE  Computed(ok, p, s) \in Cell \cup {Junk}
  <1>1. CASE ok /\ req.int8 = int8Pool /\ p < maxCtx
    <2>1. CellOf(s) \in Cell
      BY <1>1 DEF ProcessOK, CellOf, Cell
    <2> QED
      BY <1>1, <2>1 DEF Computed
  <1>2. CASE ~(ok /\ req.int8 = int8Pool /\ p < maxCtx)
    BY <1>2 DEF Computed
  <1> QED
    BY <1>1, <1>2

LEMMA SpliceType ==
  ASSUME NEW h \in Seq(Token), NEW t \in Seq(Token), NEW m \in 0..Len(t)
  PROVE  Splice(h, t, m) \in Seq(Token)
  <1>1. \A j \in 1..m : (IF j <= Len(h) THEN h[j] ELSE t[j]) \in Token
    OBVIOUS
  <1> QED
    BY <1>1 DEF Splice

LEMMA CoherentBoolean ==
  ASSUME NEW k, NEW m
  PROVE  Coherent(k, m) \in BOOLEAN
  BY DEF Coherent, Reads

\* One pass over the layers writes a slot of the pool and leaves a hidden
\* state.
LEMMA ForwardType ==
  ASSUME ProcessOK, KvOK, model # NoModel, NEW p \in Nat, p < limit,
         NEW t \in Token, Forward(p, t)
  PROVE  KvOK' /\ x' \in Seq(Token) \cup {Junk, Null}
  <1>1. p \in Slot /\ p \in 0..MaxSlots /\ p + 1 \in 0..MaxSlots
    BY LimitType, ConstAssumption DEF Slot
  <1> DEFINE c == Computed(Coherent(kv, p), p, Append(History(kv, p), t))
             k == [kv EXCEPT ![p] = c]
  <1>2. Coherent(kv, p) => Append(History(kv, p), t) \in Seq(Token)
    BY <1>1, HistoryType DEF KvOK
  <1>3. c \in Cell \cup {Junk}
    BY <1>2, ComputedType, CoherentBoolean
  <1>4. k \in [Slot -> Cell \cup {Junk}]
    BY <1>1, <1>3 DEF KvOK
  <1>5. Hidden(k, p + 1) \in Seq(Token) \cup {Junk, Null}
    BY <1>1, <1>4, HiddenType
  <1>6. kv' = k /\ x' = Hidden(k, p + 1)
    BY DEF Forward
  <1> QED
    BY <1>4, <1>5, <1>6 DEF KvOK

LEMMA PushType ==
  ASSUME NEW r \in Seq(Token), NEW t \in Token
  PROVE  Push(r, t) \in Seq(Token)
  <1>1. CASE Len(r) < RecentCap
    BY <1>1 DEF Push
  <1>2. CASE ~(Len(r) < RecentCap)
    <2>1. Len(r) > 0
      BY <1>2, ConstAssumption
    <2>2. Tail(r) \in Seq(Token)
      BY <2>1
    <2> QED
      BY <1>2, <2>2 DEF Push
  <1> QED
    BY <1>1, <1>2

LEMMA RequestType ==
  ASSUME NEW r \in Requests
  PROVE  r \in Request /\ Len(r.prompt) > 0
  <1>1. PICK c \in Conv \cup {NoConv}, s \in Prompt, m \in MaxTok,
             b \in BOOLEAN :
          r = [conv |-> c, prompt |-> IF s = << >> THEN <<BOS>> ELSE s,
               max |-> m, int8 |-> b]
    BY DEF Requests
  <1>2. s \in Seq(Token) /\ <<BOS>> \in Seq(Token) /\ Len(<<BOS>>) = 1
    BY ConstAssumption
  <1>3. CASE s = << >>
    BY <1>1, <1>2, <1>3 DEF Request
  <1>4. CASE s # << >>
    <2>1. Len(s) > 0
      BY <1>2, <1>4
    <2> QED
      BY <1>1, <1>2, <1>4, <2>1 DEF Request
  <1> QED
    BY <1>3, <1>4

-----------------------------------------------------------------------------
LEMMA TypeInit == Init => TypeInv
  <1> SUFFICES ASSUME Init PROVE TypeInv
    OBVIOUS
  <1>1. DiskOK
    BY DEF Init, DiskOK
  <1>2. ProcessOK
    <2>1. int8Pool \in BOOLEAN
      BY Zenon DEF Init
    <2> QED
      BY <2>1, ConstAssumption DEF Init, ProcessOK
  <1>3. KvOK
    BY DEF Init, KvOK
  <1>4. stop \in BOOLEAN
    BY Zenon DEF Init
  <1>5. << >> \in Seq(Token)
    OBVIOUS
  <1>6. Idle /\ recent = << >>
    BY DEF Init
  <1>7. CallOK
    BY <1>2, <1>4, <1>5, <1>6, LimitType, ConstAssumption DEF Idle, CallOK, PC
  <1>8. PromptFits
    BY <1>6 DEF Idle, PromptFits
  <1> QED
    BY <1>1, <1>2, <1>3, <1>7, <1>8 DEF TypeInv

\* The call ends, in whatever way.
LEMMA TypeReturn ==
  ASSUME TypeInv, Return, stop' \in BOOLEAN, recent' \in Seq(Token),
         DiskOK', ProcessOK', KvOK'
  PROVE  TypeInv'
  <1>1. << >> \in Seq(Token)
    OBVIOUS
  <1>2. maxCtx' \in Nat /\ limit' \in Nat
    BY ContextType DEF ProcessOK, limit
  <1>3. CallOK'
    BY <1>1, <1>2, ConstAssumption DEF Return, CallOK, PC
  <1>4. PromptFits'
    BY DEF Return, PromptFits
  <1> QED
    BY <1>3, <1>4 DEF TypeInv

LEMMA TypeLoad ==
  ASSUME TypeInv, NEW m \in Model, LoadModel(m)
  PROVE  TypeInv'
  <1> USE DEF TypeInv
  <1>1. DiskOK' /\ KvOK'
    BY DEF LoadModel, DiskOK, KvOK
  <1>2. ProcessOK'
    <2>1. hash' \in Hash
      BY ConstAssumption DEF LoadModel, ModelHashes
    <2>2. int8Pool' \in BOOLEAN /\ maxCtx' \in Contexts
      BY Zenon DEF LoadModel
    <2> QED
      BY <2>1, <2>2 DEF LoadModel, ProcessOK
  <1>3. UNCHANGED <<stop, pc, call>> /\ pc = "idle"
    BY DEF LoadModel
  <1>4. maxCtx' \in Nat /\ limit' \in Nat
    BY <1>2, ContextType DEF ProcessOK, limit
  <1>5. PromptFits'
    BY <1>3 DEF PromptFits, call
  <1>6. CallOK'
    BY <1>3, <1>4 DEF CallOK, PromptFits, call
  <1> QED
    BY <1>1, <1>2, <1>5, <1>6

LEMMA TypeGenerate ==
  ASSUME TypeInv, NEW r \in Requests, Generate(r)
  PROVE  TypeInv'
  <1> USE DEF TypeInv
  <1>1. DiskOK' /\ ProcessOK' /\ KvOK' /\ UNCHANGED <<maxCtx, limit, model>>
    BY DEF Generate, DiskOK, ProcessOK, KvOK, process, limit
  <1>2. r \in Request /\ r.prompt \in Seq(Token) /\ Len(r.prompt) > 0
    BY RequestType DEF Request
  <1>3. Len(r.prompt) < limit
    BY <1>2, LimitType DEF Generate, Rejects
  <1>4. stop' \in BOOLEAN
    BY Zenon DEF Generate, Enter
  <1>5. << >> \in Seq(Token)
    OBVIOUS
  <1>6. CallOK'
    BY <1>1, <1>2, <1>4, <1>5, DistinctAssumption
    DEF Generate, Enter, CallOK, PC
  <1>7. PromptFits'
    BY <1>1, <1>2, <1>3 DEF Generate, PromptFits, N
  <1> QED
    BY <1>1, <1>6, <1>7

LEMMA TypeHydrate ==
  ASSUME TypeInv, Hydrate
  PROVE  TypeInv'
  <1> USE DEF TypeInv
  <1>1. pc = "hydrate" /\ pc' = "prefill"
        /\ UNCHANGED <<disk, process, stop, req, x, last, tok, kvTokens, out,
                       recent, after>>
    BY DEF Hydrate, HydrateHit, HydrateMiss, ScatterFails
  <1>2. DiskOK' /\ ProcessOK' /\ UNCHANGED <<maxCtx, limit, model>>
    BY <1>1 DEF DiskOK, ProcessOK, process, limit
  <1>3. req \in Request /\ req.prompt \in Seq(Token)
    BY <1>1 DEF CallOK, Request
  <1>4. KvOK' /\ start' \in 0..maxCtx /\ start' <= N /\ pos' = start'
    <2>1. CASE HydrateMiss \/ ScatterFails
      BY <2>1, <1>1, <1>3, LimitType
      DEF HydrateMiss, ScatterFails, KvOK, N, PromptFits
    <2>2. CASE HydrateHit
      <3>1. req.conv \in Conv /\ disk[req.conv] \in KVFile
        BY <2>2, <1>3 DEF HydrateHit, Request, DiskOK
      <3>2. disk[req.conv].body \in [Slot -> Cell \cup {Junk}]
        BY <3>1 DEF KVFile
      <3>3. KvOK'
        BY <2>2, <3>2 DEF HydrateHit, KvOK
      <3>4. start' \in 1..maxCtx /\ start' <= N
        BY <2>2 DEF HydrateHit, CommonPrefix, N
      <3> QED
        BY <2>2, <3>3, <3>4, LimitType DEF HydrateHit
    <2> QED
      BY <2>1, <2>2 DEF Hydrate
  <1>5. CallOK'
    BY <1>1, <1>2, <1>4, LimitType DEF CallOK, PC
  <1>6. PromptFits'
    BY <1>1, <1>2, <1>4 DEF PromptFits, N
  <1> QED
    BY <1>2, <1>4, <1>5, <1>6

LEMMA TypePrefill ==
  ASSUME TypeInv, Prefill
  PROVE  TypeInv'
  <1> USE DEF TypeInv
  <1>1. /\ pc = "prefill" /\ pc' \in {"prefill", "first"}
        /\ UNCHANGED <<disk, process, stop, req, start, tok, kvTokens, out,
                       recent, after>>
    BY DEF Prefill, PrefillBatched, PrefillToken, PrefillNothing
  <1>2. DiskOK' /\ ProcessOK' /\ UNCHANGED <<maxCtx, limit, model>>
    BY <1>1 DEF DiskOK, ProcessOK, process, limit
  <1>3. req \in Request /\ req.prompt \in Seq(Token) /\ model # NoModel
    BY <1>1 DEF CallOK, Request
  <1>4. N \in Nat /\ N > 0 /\ N < limit /\ start <= N /\ pos <= N
        /\ start \in Nat /\ pos \in Nat
    BY <1>1, <1>3, LimitType DEF PromptFits, CallOK, N
  <1>5. KvOK' /\ x' \in Seq(Token) \cup {Junk, Null}
        /\ last' \in Token /\ pos' \in Nat /\ pos' <= N
    <2>1. CASE PrefillNothing
      BY <2>1, <1>3, <1>4 DEF PrefillNothing, KvOK, CallOK, N
    <2>2. CASE PrefillToken
      <3>1. req.prompt[pos + 1] \in Token
        BY <2>2, <1>3, <1>4 DEF PrefillToken, N
      <3>2. pos < limit /\ Forward(pos, req.prompt[pos + 1])
        BY <2>2, <1>4, LimitType DEF PrefillToken
      <3>3. KvOK' /\ x' \in Seq(Token) \cup {Junk, Null}
        BY <1>3, <1>4, <3>1, <3>2, ForwardType
      <3> QED
        BY <2>2, <1>4, <3>1, <3>3 DEF PrefillToken
    <2>3. CASE PrefillBatched
      <3> DEFINE h == History(kv, start)
                 ok == Coherent(kv, start)
                 k == [q \in Slot |->
                         IF q \in start..(N - 1)
                         THEN Computed(ok, q, Splice(h, req.prompt, q + 1))
                         ELSE kv[q]]
      <3>1. start \in 0..MaxSlots /\ N \in 0..MaxSlots
        BY <1>4, LimitType, ConstAssumption
      <3>2. ASSUME NEW q \in Slot, q \in start..(N - 1)
            PROVE  Computed(ok, q, Splice(h, req.prompt, q + 1))
                     \in Cell \cup {Junk}
        <4>1. q + 1 \in 0..Len(req.prompt)
          BY <1>4, <3>2 DEF N
        <4>2. ok => Splice(h, req.prompt, q + 1) \in Seq(Token)
          BY <1>3, <3>1, <4>1, HistoryType, SpliceType DEF KvOK
        <4> HIDE DEF h, ok
        <4>3. ok \in BOOLEAN
          BY CoherentBoolean DEF ok
        <4> QED
          BY <1>3, <4>2, <4>3, ComputedType
      <3>3. k \in [Slot -> Cell \cup {Junk}]
        BY <3>2 DEF KvOK
      <3>4. kv' = k /\ x' = Hidden(k, N) /\ pos' = N /\ last' = req.prompt[N]
        BY <2>3 DEF PrefillBatched
      <3>5. Hidden(k, N) \in Seq(Token) \cup {Junk, Null}
        BY <3>1, <3>3, HiddenType
      <3>6. req.prompt[N] \in Token
        BY <1>3, <1>4 DEF N
      <3> QED
        BY <1>4, <3>3, <3>4, <3>5, <3>6 DEF KvOK
    <2> QED
      BY <2>1, <2>2, <2>3 DEF Prefill
  <1>6. CallOK'
    BY <1>1, <1>2, <1>4, <1>5, LimitType DEF CallOK, PC
  <1>7. PromptFits'
    BY <1>1, <1>2, <1>4, <1>5 DEF PromptFits, N
  <1> QED
    BY <1>2, <1>5, <1>6, <1>7

\* Steps that leave the pool and the position alone, or step back to the
\* last position of the prompt.
LEMMA TypeFirst ==
  ASSUME TypeInv, SampleFirst \/ FallBack
  PROVE  TypeInv'
  <1> USE DEF TypeInv
  <1>1. /\ pc = "first" /\ pc' \in {"deliverfirst", "loop"}
        /\ UNCHANGED <<disk, process, kv, stop, req, start, x, last, kvTokens,
                       out, recent, after>>
    BY DEF SampleFirst, FallBack
  <1>2. DiskOK' /\ ProcessOK' /\ KvOK' /\ UNCHANGED <<maxCtx, limit, model>>
    BY <1>1 DEF DiskOK, ProcessOK, KvOK, process, limit
  <1>3. N \in Nat /\ N > 0 /\ N < limit
    BY <1>1, LimitType DEF PromptFits, CallOK, Request, N
  <1>4. tok' \in Token
    BY DEF SampleFirst, FallBack, CallOK
  <1>5. pos' \in 0..limit
    BY <1>3, LimitType DEF SampleFirst, FallBack, CallOK
  <1>6. CallOK'
    BY <1>1, <1>2, <1>4, <1>5 DEF CallOK, PC
  <1>7. PromptFits'
    BY <1>1, <1>2 DEF PromptFits, N
  <1> QED
    BY <1>2, <1>6, <1>7

LEMMA TypeDecode ==
  ASSUME TypeInv, DecodeStep \/ DecodeFails
  PROVE  TypeInv'
  <1> USE DEF TypeInv
  <1>1. /\ pc = "loop" /\ pc' = "deliver" /\ pos < limit /\ pos' = pos + 1
        /\ Forward(pos, last)
        /\ UNCHANGED <<disk, process, stop, req, start, out, after>>
    BY DEF DecodeStep, DecodeFails
  <1>2. DiskOK' /\ ProcessOK' /\ UNCHANGED <<maxCtx, limit, model>>
    BY <1>1 DEF DiskOK, ProcessOK, process, limit
  <1>3. KvOK' /\ x' \in Seq(Token) \cup {Junk, Null}
    BY <1>1, LimitType, ForwardType DEF CallOK
  <1>4. kvTokens' \in Seq(Token)
    <2>1. kvTokens \in Seq(Token) /\ Append(kvTokens, last) \in Seq(Token)
      BY DEF CallOK
    <2>2. kvTokens' = kvTokens \/ kvTokens' = Append(kvTokens, last)
      BY DEF DecodeStep, DecodeFails
    <2> QED
      BY <2>1, <2>2
  <1>5. tok' \in Token /\ last' \in Token /\ recent' \in Seq(Token)
    BY PushType, ConstAssumption DEF DecodeStep, DecodeFails, CallOK
  <1>6. pos' \in 0..limit
    BY <1>1, LimitType DEF CallOK
  <1>7. CallOK'
    BY <1>1, <1>2, <1>3, <1>4, <1>5, <1>6 DEF CallOK, PC
  <1>8. PromptFits'
    BY <1>1, <1>2 DEF PromptFits, N
  <1> QED
    BY <1>2, <1>3, <1>7, <1>8

LEMMA TypeDeliver ==
  ASSUME TypeInv, DeliverFirst \/ Deliver
  PROVE  TypeInv'
  <1> USE DEF TypeInv
  <1>1. /\ pc \in {"deliverfirst", "deliver"} /\ pc' \in {"loop", "save"}
        /\ UNCHANGED <<disk, process, kv, stop, req, start, pos, x, tok,
                       kvTokens>>
    BY DEF DeliverFirst, Deliver
  <1>2. DiskOK' /\ ProcessOK' /\ KvOK' /\ UNCHANGED <<maxCtx, limit, model>>
    BY <1>1 DEF DiskOK, ProcessOK, KvOK, process, limit
  <1>3. out' \in Seq(Token) /\ last' \in Token /\ recent' \in Seq(Token)
    <2>1. Append(out, tok) \in Seq(Token) /\ Push(recent, tok) \in Seq(Token)
      BY PushType DEF CallOK
    <2>2. out' = Append(out, tok)
      BY DEF DeliverFirst, Deliver, Delivered
    <2>3. (last' = tok /\ recent' = Push(recent, tok))
          \/ UNCHANGED <<last, recent>>
      BY DEF DeliverFirst, Deliver
    <2> QED
      BY <2>1, <2>2, <2>3 DEF CallOK
  <1>4. after' \in Nat
    BY DEF DeliverFirst, Deliver, Delivered, CallOK
  <1>5. CallOK'
    BY <1>1, <1>2, <1>3, <1>4 DEF CallOK, PC
  <1>6. PromptFits'
    BY <1>1, <1>2 DEF PromptFits, N
  <1> QED
    BY <1>2, <1>5, <1>6

LEMMA TypeLoopEnds ==
  ASSUME TypeInv, LoopEnds \/ OomStop
  PROVE  TypeInv'
  <1> USE DEF TypeInv
  <1>1. /\ pc = "loop" /\ pc' = "save"
        /\ UNCHANGED <<disk, process, kv, stop, call>>
    BY DEF LoopEnds, OomStop
  <1>2. DiskOK' /\ ProcessOK' /\ KvOK' /\ UNCHANGED <<maxCtx, limit, model>>
    BY <1>1 DEF DiskOK, ProcessOK, KvOK, process, limit
  <1>3. CallOK'
    BY <1>1, <1>2 DEF CallOK, PC, call
  <1>4. PromptFits'
    BY <1>1, <1>2 DEF PromptFits, N, call
  <1> QED
    BY <1>2, <1>3, <1>4

LEMMA TypeSave ==
  ASSUME TypeInv, Save
  PROVE  TypeInv'
  <1> USE DEF TypeInv
  <1>1. pc = "save" /\ Return /\ UNCHANGED <<process, kv, stop, recent>>
    BY DEF Save
  <1>2. ProcessOK' /\ KvOK' /\ stop' \in BOOLEAN /\ recent' \in Seq(Token)
    BY <1>1 DEF ProcessOK, KvOK, CallOK, process
  <1> DEFINE body == [q \in Slot |-> IF q < Len(kvTokens) THEN kv[q] ELSE Junk]
             file == [hash |-> hash, int8 |-> int8Pool, ctx |-> maxCtx,
                      tokens |-> kvTokens, body |-> body]
  <1>3. body \in [Slot -> Cell \cup {Junk}]
    BY DEF KvOK
  <1>4. file \in KVFile
    <2> HIDE DEF body
    <2> QED
      BY <1>3 DEF KVFile, ProcessOK, CallOK
  <1>5. DiskOK'
    <2>1. PICK gone \in SUBSET (Conv \ {req.conv}) :
            disk' = [c \in Conv |-> IF c = req.conv THEN file
                                    ELSE IF c \in gone THEN NoFile ELSE disk[c]]
      BY DEF Save
    <2> HIDE DEF file
    <2> QED
      BY <1>4, <2>1 DEF DiskOK
  <1> QED
    BY <1>1, <1>2, <1>5, TypeReturn

LEMMA TypeNext == TypeInv /\ [Next]_vars => TypeInv'
  <1> SUFFICES ASSUME TypeInv, [Next]_vars PROVE TypeInv'
    OBVIOUS
  <1> USE DEF TypeInv
  <1>1. ASSUME Return, UNCHANGED <<disk, process, kv>>, stop' \in BOOLEAN,
               recent' \in Seq(Token)
        PROVE  TypeInv'
    BY <1>1, TypeReturn DEF DiskOK, ProcessOK, KvOK, process
  <1>2. ASSUME NEW r \in Requests, GenerateThrows(r) PROVE TypeInv'
    <2>1. stop' \in BOOLEAN /\ recent' = << >>
      BY <1>2, Zenon DEF GenerateThrows, Enter
    <2>2. recent' \in Seq(Token)
      BY <2>1
    <2> QED
      BY <1>1, <1>2, <2>1, <2>2 DEF GenerateThrows
  <1>3. CASE CallbackThrows \/ NoSave
    BY <1>1, <1>3 DEF CallbackThrows, NoSave, CallOK
  <1>4. CASE Stop
    <2>1. stop' \in BOOLEAN
      BY <1>4, Zenon DEF Stop
    <2>2. UNCHANGED <<disk, process, kv, pc, call, limit, N>>
      BY <1>4 DEF Stop, process, call, limit, N
    <2>3. DiskOK' /\ ProcessOK' /\ KvOK' /\ CallOK'
      BY <2>1, <2>2 DEF DiskOK, ProcessOK, KvOK, CallOK, process, call
    <2>4. PromptFits'
      BY <2>2 DEF PromptFits, call
    <2> QED
      BY <2>3, <2>4
  <1>5. CASE Crash
    <2>1. stop' \in BOOLEAN
      BY <1>5, Zenon DEF Crash
    <2>2. DiskOK' /\ ProcessOK' /\ KvOK' /\ recent' \in Seq(Token) /\ Return
      BY <1>5 DEF Crash, DiskOK, ProcessOK, KvOK
    <2> QED
      BY <2>1, <2>2, TypeReturn
  <1>6. CASE UNCHANGED vars
    <2>1. UNCHANGED <<disk, process, kv, stop, pc, call, limit, N>>
      BY <1>6 DEF vars, process, call, limit, N
    <2>2. DiskOK' /\ ProcessOK' /\ KvOK' /\ CallOK'
      BY <2>1 DEF DiskOK, ProcessOK, KvOK, CallOK, process, call
    <2>3. PromptFits'
      BY <2>1 DEF PromptFits, call
    <2> QED
      BY <2>2, <2>3
  <1> QED
    BY <1>2, <1>3, <1>4, <1>5, <1>6, TypeLoad, TypeGenerate, TypeHydrate,
       TypePrefill, TypeFirst, TypeDecode, TypeDeliver, TypeLoopEnds, TypeSave
    DEF Next, Step, First, Loop, Finish

\* The engine's state stays within its types and its pool: in particular
\* every position that is computed, stored or decoded lies below max_tokens().
THEOREM TypeCorrect == Spec => []TypeOK
  BY TypeInit, TypeNext, TypeParts, PTL DEF Spec

-----------------------------------------------------------------------------
\* The control of one call: what is delivered before the loop is entered,
\* and what delivering after stop() leaves behind.
Control ==
    /\ pc \in PC
    /\ stop \in BOOLEAN
    /\ tok \in Token
    /\ out \in Seq(Token)
    /\ after \in {0, 1}
    /\ pc \notin {"loop", "deliver", "save"} => out = << >>
    /\ after = 1 => stop /\ pc \in {"loop", "save"}

LEMMA ControlInit == Init => Control
  <1> SUFFICES ASSUME Init PROVE Control
    OBVIOUS
  <1>1. stop \in BOOLEAN
    BY Zenon DEF Init
  <1>2. << >> \in Seq(Token)
    OBVIOUS
  <1>3. pc = "idle" /\ tok = EOS /\ out = << >> /\ after = 0
    BY Zenon DEF Init, Idle
  <1> QED
    BY <1>1, <1>2, <1>3, ConstAssumption DEF Control, PC

LEMMA ControlNext == Control /\ [Next]_vars => Control'
  <1> SUFFICES ASSUME Control, [Next]_vars PROVE Control'
    OBVIOUS
  <1> USE DEF Control, PC, process
  <1>1. ASSUME NEW m \in Model, LoadModel(m) PROVE Control'
    BY <1>1 DEF LoadModel, call
  <1>2. ASSUME NEW r \in Requests, Generate(r) PROVE Control'
    BY <1>2 DEF Generate, Enter
  <1>3. ASSUME Return, stop' \in BOOLEAN PROVE Control'
    BY <1>3, ConstAssumption DEF Return
  <1>4. ASSUME NEW r \in Requests, GenerateThrows(r) PROVE Control'
    BY <1>3, <1>4 DEF GenerateThrows, Enter
  <1>5. CASE Hydrate
    BY <1>5 DEF Hydrate, HydrateHit, HydrateMiss, ScatterFails
  <1>6. CASE Prefill
    BY <1>6 DEF Prefill, PrefillBatched, PrefillToken, PrefillNothing
  <1>7. CASE SampleFirst \/ FallBack
    BY <1>7 DEF SampleFirst, FallBack
  <1>8. CASE DeliverFirst
    BY <1>8 DEF DeliverFirst, Delivered
  <1>9. CASE LoopEnds \/ OomStop
    BY <1>9 DEF LoopEnds, OomStop, call
  <1>10. CASE DecodeStep
    BY <1>10 DEF DecodeStep, LoopGuard
  <1>11. CASE DecodeFails
    BY <1>11, ConstAssumption DEF DecodeFails, LoopGuard
  <1>12. CASE Deliver
    BY <1>12 DEF Deliver, Delivered
  <1>13. CASE CallbackThrows
    BY <1>3, <1>13 DEF CallbackThrows
  <1>14. CASE Save \/ NoSave
    BY <1>3, <1>14 DEF Save, NoSave
  <1>15. CASE Stop
    BY <1>15 DEF Stop, call
  <1>16. CASE Crash
    BY <1>3, <1>16 DEF Crash
  <1>17. CASE UNCHANGED vars
    BY <1>17 DEF vars, call
  <1> QED
    BY <1>1, <1>2, <1>4, <1>5, <1>6, <1>7, <1>8, <1>9, <1>10, <1>11, <1>12,
       <1>13, <1>14, <1>15, <1>16, <1>17
    DEF Next, Step, First, Loop, Finish

\* The control part of the type invariant holds throughout.
LEMMA ControlHolds == Spec => []Control
  BY ControlInit, ControlNext, PTL DEF Spec

\* After stop() at most one more token reaches the callback, whoever calls it
\* and whenever: the decode loop's test comes before the pass that computes a
\* token, and the flag is cleared only at the entry of the next call.
THEOREM StopIsPrompt == Spec => []StopBound
  <1>1. Control => StopBound
    BY DEF Control, StopBound
  <1> QED
    BY <1>1, ControlHolds, PTL

-----------------------------------------------------------------------------
LEMMA GenInit == Init => Gen!Init
  BY DEF Init, Idle, Gen!Init

\* A step of the engine that the caller does not see.
LEMMA Stutter ==
  ASSUME UNCHANGED <<stop, out>>, UNCHANGED req,
         pc \notin {"idle", "deliverfirst", "deliver"},
         pc' \notin {"idle", "deliverfirst", "deliver"}
  PROVE  UNCHANGED Gen!vars
  BY DEF Gen!vars

LEMMA GenNext == Control /\ [Next]_vars => [Gen!Next]_(Gen!vars)
  <1> SUFFICES ASSUME Control, [Next]_vars PROVE Gen!Next \/ UNCHANGED Gen!vars
    OBVIOUS
  <1> USE DEF Control, PC, process
  <1>1. ASSUME NEW m \in Model, LoadModel(m) PROVE UNCHANGED Gen!vars
    BY <1>1 DEF LoadModel, call, Gen!vars
  <1>2. ASSUME NEW r \in Requests, Generate(r) PROVE Gen!Next
    <2>1. r.max \in MaxTok
      BY DEF Requests
    <2>2. Gen!Enter(r.max)
      BY <1>2 DEF Generate, Enter, Gen!Enter
    <2> QED
      BY <2>1, <2>2 DEF Gen!Next
  <1>3. ASSUME NEW r \in Requests, GenerateThrows(r) PROVE Gen!Next
    <2>1. Gen!Refuse
      BY <1>3 DEF GenerateThrows, Enter, Return, Gen!Refuse
    <2> QED
      BY <2>1 DEF Gen!Next
  <1>4. ASSUME Return, UNCHANGED stop, pc # "idle" PROVE Gen!Next
    <2>1. Gen!Return
      BY <1>4 DEF Return, Gen!Return
    <2> QED
      BY <2>1 DEF Gen!Next
  <1>5. CASE Hydrate
    BY <1>5, Stutter DEF Hydrate, HydrateHit, HydrateMiss, ScatterFails
  <1>6. CASE Prefill
    BY <1>6, Stutter DEF Prefill, PrefillBatched, PrefillToken, PrefillNothing
  <1>7. CASE FallBack
    BY <1>7, Stutter DEF FallBack
  <1>8. CASE LoopEnds \/ OomStop
    BY <1>8, Stutter DEF LoopEnds, OomStop, call
  <1>9. CASE SampleFirst
    <2>1. Gen!Decide
      BY <1>9 DEF SampleFirst, Gen!Decide
    <2> QED
      BY <2>1 DEF Gen!Next
  <1>10. CASE DecodeStep \/ DecodeFails
    <2>1. Gen!Decide
      BY <1>10 DEF DecodeStep, DecodeFails, LoopGuard, Gen!Decide
    <2> QED
      BY <2>1 DEF Gen!Next
  <1>11. CASE DeliverFirst \/ Deliver
    <2>1. Len(out') = Len(out) + 1 /\ UNCHANGED <<stop, req>>
      BY <1>11 DEF DeliverFirst, Deliver, Delivered
    <2>2. pc \in {"deliverfirst", "deliver"} /\ pc' \in {"loop", "save"}
      BY <1>11 DEF DeliverFirst, Deliver
    <2>3. Gen!Deliver
      BY <2>1, <2>2 DEF Gen!Deliver
    <2> QED
      BY <2>3 DEF Gen!Next
  <1>12. CASE CallbackThrows
    BY <1>4, <1>12 DEF CallbackThrows
  <1>13. CASE Save \/ NoSave
    BY <1>4, <1>13 DEF Save, NoSave
  <1>14. CASE Stop
    <2>1. Gen!Stop
      BY <1>14 DEF Stop, call, Gen!Stop
    <2> QED
      BY <2>1 DEF Gen!Next
  <1>15. CASE Crash
    <2>1. Gen!Die
      BY <1>15 DEF Crash, Return, Gen!Die
    <2> QED
      BY <2>1 DEF Gen!Next
  <1>16. CASE UNCHANGED vars
    BY <1>16 DEF vars, call, Gen!vars
  <1> QED
    BY <1>1, <1>2, <1>3, <1>5, <1>6, <1>7, <1>8, <1>9, <1>10, <1>11, <1>12,
       <1>13, <1>14, <1>15, <1>16
    DEF Next, Step, First, Loop, Finish

\* generate() implements the Generator specification that HttpServer takes
\* the engine to be: one call at a time with a fresh stop flag, a first token
\* without conditions, every further one only under the cap and the flag.
THEOREM ImplementsGenerator == Spec => GeneratorSpec
  BY ControlHolds, GenInit, GenNext, PTL DEF Spec, GeneratorSpec

-----------------------------------------------------------------------------
(* Prefixes and windows of sequences.                                      *)

LEMMA PrefixType ==
  ASSUME NEW s \in Seq(Token), NEW m \in 0..Len(s)
  PROVE  Prefix(s, m) \in Seq(Token) /\ Len(Prefix(s, m)) = m
         /\ \A j \in 1..m : Prefix(s, m)[j] = s[j]
  <1>1. \A j \in 1..m : s[j] \in Token
    OBVIOUS
  <1> QED
    BY <1>1 DEF Prefix

LEMMA PrefixAll ==
  ASSUME NEW s \in Seq(Token)
  PROVE  Prefix(s, Len(s)) = s
  BY PrefixType, SeqEqual

\* A token behind a sequence does not change its prefixes.
LEMMA PrefixAppend ==
  ASSUME NEW s \in Seq(Token), NEW t \in Token, NEW m \in 0..Len(s)
  PROVE  Prefix(Append(s, t), m) = Prefix(s, m)
  <1>1. \A j \in 1..m : Append(s, t)[j] = s[j]
    OBVIOUS
  <1> QED
    BY <1>1 DEF Prefix

LEMMA PrefixExtend ==
  ASSUME NEW s \in Seq(Token), NEW m \in 0..(Len(s) - 1)
  PROVE  Append(Prefix(s, m), s[m + 1]) = Prefix(s, m + 1)
  <1>1. Prefix(s, m) \in Seq(Token) /\ Len(Prefix(s, m)) = m
        /\ \A j \in 1..m : Prefix(s, m)[j] = s[j]
    BY PrefixType
  <1>2. Prefix(s, m + 1) \in Seq(Token) /\ Len(Prefix(s, m + 1)) = m + 1
        /\ \A j \in 1..(m + 1) : Prefix(s, m + 1)[j] = s[j]
    BY PrefixType
  <1> DEFINE a == Append(Prefix(s, m), s[m + 1])
  <1>3. s[m + 1] \in Token
    OBVIOUS
  <1>4. a \in Seq(Token) /\ Len(a) = m + 1
        /\ \A j \in 1..(m + 1) : a[j] = IF j <= m THEN Prefix(s, m)[j] ELSE s[m + 1]
    BY <1>1, <1>3
  <1>5. \A j \in 1..(m + 1) : a[j] = s[j]
    BY <1>1, <1>4
  <1> HIDE DEF a
  <1>6. a = Prefix(s, m + 1)
    BY <1>2, <1>4, <1>5, SeqEqual
  <1> QED
    BY <1>6 DEF a

LEMMA ConcatAppend ==
  ASSUME NEW s \in Seq(Token), NEW u \in Seq(Token), NEW t \in Token
  PROVE  Append(s \o u, t) = s \o Append(u, t)
  <1> DEFINE a == Append(s \o u, t)
             b == s \o Append(u, t)
  <1>1. s \o u \in Seq(Token) /\ Len(s \o u) = Len(s) + Len(u)
        /\ \A i \in 1..(Len(s) + Len(u)) :
             (s \o u)[i] = IF i <= Len(s) THEN s[i] ELSE u[i - Len(s)]
    BY ConcatProperties
  <1>2. Append(u, t) \in Seq(Token) /\ Len(Append(u, t)) = Len(u) + 1
        /\ \A i \in 1..(Len(u) + 1) :
             Append(u, t)[i] = IF i <= Len(u) THEN u[i] ELSE t
    OBVIOUS
  <1>3. b \in Seq(Token) /\ Len(b) = Len(s) + Len(u) + 1
        /\ \A i \in 1..(Len(s) + Len(u) + 1) :
             b[i] = IF i <= Len(s) THEN s[i] ELSE Append(u, t)[i - Len(s)]
    BY <1>2, ConcatProperties
  <1>4. a \in Seq(Token) /\ Len(a) = Len(s) + Len(u) + 1
        /\ \A i \in 1..(Len(s) + Len(u) + 1) :
             a[i] = IF i <= Len(s) + Len(u) THEN (s \o u)[i] ELSE t
    BY <1>1
  <1> HIDE DEF a, b
  <1>5. ASSUME NEW i \in 1..(Len(s) + Len(u) + 1) PROVE a[i] = b[i]
    <2>1. Len(s) \in Nat /\ Len(u) \in Nat
      OBVIOUS
    <2>2. CASE i <= Len(s)
      BY <1>1, <1>3, <1>4, <2>1, <2>2
    <2>3. CASE Len(s) < i /\ i <= Len(s) + Len(u)
      <3>1. i - Len(s) \in 1..(Len(u) + 1) /\ i - Len(s) <= Len(u)
        BY <2>1, <2>3
      <3>2. a[i] = u[i - Len(s)]
        BY <1>1, <1>4, <2>1, <2>3
      <3>3. b[i] = Append(u, t)[i - Len(s)]
        BY <1>3, <2>1, <2>3
      <3> QED
        BY <1>2, <3>1, <3>2, <3>3
    <2>4. CASE i = Len(s) + Len(u) + 1
      <3>1. i - Len(s) = Len(u) + 1 /\ i - Len(s) \in 1..(Len(u) + 1)
        BY <2>1, <2>4
      <3> QED
        BY <1>2, <1>3, <1>4, <2>1, <2>4, <3>1
    <2> QED
      BY <2>1, <2>2, <2>3, <2>4
  <1>6. a = b
    BY <1>3, <1>4, <1>5, SeqEqual
  <1> QED
    BY <1>6 DEF a, b

\* What is left of a sequence without its last element.
Front(s) == IF s = << >> THEN << >> ELSE Prefix(s, Len(s) - 1)

LEMMA FrontAppend ==
  ASSUME NEW s \in Seq(Token), NEW t \in Token
  PROVE  Front(Append(s, t)) = s /\ Append(s, t) # << >>
         /\ Len(Append(s, t)) = Len(s) + 1 /\ Append(s, t)[Len(s) + 1] = t
  <1>1. Len(Append(s, t)) = Len(s) + 1 /\ Append(s, t)[Len(s) + 1] = t
    OBVIOUS
  <1>3. Append(s, t) # << >>
    BY <1>1, EmptySeq
  <1>2. Prefix(Append(s, t), Len(s)) = s
    BY PrefixAppend, PrefixAll
  <1> QED
    BY <1>1, <1>2, <1>3 DEF Front

LEMMA FrontLast ==
  ASSUME NEW s \in Seq(Token), s # << >>
  PROVE  /\ Front(s) \in Seq(Token) /\ Len(Front(s)) = Len(s) - 1
         /\ Append(Front(s), s[Len(s)]) = s
  <1>1. Len(s) \in Nat \ {0}
    OBVIOUS
  <1>2. Front(s) = Prefix(s, Len(s) - 1)
    BY DEF Front
  <1>3. Append(Prefix(s, Len(s) - 1), s[Len(s)]) = Prefix(s, Len(s))
    BY <1>1, PrefixExtend
  <1> QED
    BY <1>1, <1>2, <1>3, PrefixType, PrefixAll

\* The last RecentCap elements of a sequence, or all of them.
Window(s) ==
    LET n == IF Len(s) < RecentCap THEN Len(s) ELSE RecentCap
    IN [j \in 1..n |-> s[Len(s) - n + j]]

LEMMA WindowEmpty == Window(<< >>) = << >>
  <1>1. Len(<< >>) = 0 /\ RecentCap > 0
    BY ConstAssumption
  <1>2. Window(<< >>) = [j \in 1..0 |-> << >>[Len(<< >>) - 0 + j]]
    BY <1>1 DEF Window
  <1> QED
    BY <1>2

LEMMA WindowPush ==
  ASSUME NEW s \in Seq(Token), NEW t \in Token
  PROVE  Push(Window(s), t) = Window(Append(s, t))
  <1> DEFINE n == IF Len(s) < RecentCap THEN Len(s) ELSE RecentCap
             a == Append(s, t)
             w == Window(s)
  <1>1. RecentCap \in Nat \ {0} /\ Len(s) \in Nat /\ n \in 0..Len(s)
    BY ConstAssumption
  <1>2. w = [j \in 1..n |-> s[Len(s) - n + j]]
    BY DEF Window
  <1> HIDE DEF n, w
  <1>3. \A j \in 1..n : s[Len(s) - n + j] \in Token
    BY <1>1
  <1>4. w \in Seq(Token) /\ Len(w) = n
        /\ \A j \in 1..n : w[j] = s[Len(s) - n + j]
    BY <1>1, <1>2, <1>3
  <1>5. a \in Seq(Token) /\ Len(a) = Len(s) + 1
        /\ \A i \in 1..(Len(s) + 1) : a[i] = IF i <= Len(s) THEN s[i] ELSE t
    OBVIOUS
  <1> HIDE DEF a
  <1>6. CASE Len(s) < RecentCap
    <2>1. n = Len(s)
      BY <1>6 DEF n
    <2>2. Push(w, t) = Append(w, t) /\ Append(w, t) \in Seq(Token)
          /\ Len(Append(w, t)) = n + 1
          /\ \A j \in 1..(n + 1) : Append(w, t)[j] = IF j <= n THEN w[j] ELSE t
      BY <1>4, <1>6, <2>1 DEF Push
    <2>3. Window(a) = [j \in 1..(n + 1) |-> a[j]]
      <3>1. (IF Len(a) < RecentCap THEN Len(a) ELSE RecentCap) = n + 1
        BY <1>1, <1>5, <1>6, <2>1
      <3>2. \A j \in 1..(n + 1) : Len(a) - (n + 1) + j = j
        BY <1>1, <1>5, <2>1
      <3> QED
        BY <3>1, <3>2 DEF Window
    <2>4. \A j \in 1..(n + 1) : a[j] \in Token
      BY <1>1, <1>5, <2>1
    <2>5. Window(a) \in Seq(Token) /\ Len(Window(a)) = n + 1
          /\ \A j \in 1..(n + 1) : Window(a)[j] = a[j]
      BY <1>1, <2>3, <2>4
    <2>6. \A j \in 1..(n + 1) : Append(w, t)[j] = a[j]
      BY <1>1, <1>4, <1>5, <2>1, <2>2
    <2> QED
      BY <2>2, <2>5, <2>6, SeqEqual DEF w, a
  <1>7. CASE ~(Len(s) < RecentCap)
    <2>1. n = RecentCap /\ n \in Nat \ {0}
      BY <1>1, <1>7 DEF n
    <2> DEFINE u == Tail(w)
    <2>2. w # << >>
      BY <1>4, <2>1
    <2>3. u \in Seq(Token) /\ Len(u) = n - 1
          /\ \A j \in 1..(n - 1) : u[j] = w[j + 1]
      BY <1>4, <2>2, HeadTailProperties
    <2>4. Push(w, t) = Append(u, t)
      BY <1>4, <2>1 DEF Push
    <2> HIDE DEF u
    <2>5. Append(u, t) \in Seq(Token) /\ Len(Append(u, t)) = n
          /\ \A j \in 1..n : Append(u, t)[j] = IF j <= n - 1 THEN u[j] ELSE t
      BY <2>1, <2>3
    <2>6. Window(a) = [j \in 1..n |-> a[Len(a) - n + j]]
      <3>1. (IF Len(a) < RecentCap THEN Len(a) ELSE RecentCap) = n
        BY <1>1, <1>5, <1>7, <2>1
      <3> QED
        BY <3>1 DEF Window
    <2>7. \A j \in 1..n : a[Len(a) - n + j] \in Token
      BY <1>1, <1>5
    <2>8. Window(a) \in Seq(Token) /\ Len(Window(a)) = n
          /\ \A j \in 1..n : Window(a)[j] = a[Len(a) - n + j]
      BY <1>1, <2>6, <2>7
    <2>9. ASSUME NEW j \in 1..n PROVE Append(u, t)[j] = Window(a)[j]
      <3>1. Len(a) - n + j \in 1..(Len(s) + 1) /\ Len(a) - n + j = Len(s) - n + (j + 1)
        BY <1>1, <1>5
      <3>2. CASE j <= n - 1
        <4>1. j \in 1..(n - 1) /\ j + 1 \in 1..n
          BY <2>1, <3>2
        <4>2. Append(u, t)[j] = s[Len(s) - n + (j + 1)]
          BY <1>4, <2>3, <2>5, <3>2, <4>1
        <4>3. Len(s) - n + (j + 1) <= Len(s)
          BY <1>1, <3>2
        <4> QED
          BY <1>5, <2>8, <3>1, <4>2, <4>3
      <3>3. CASE j = n
        <4>1. Len(a) - n + j = Len(s) + 1
          BY <1>1, <1>5, <3>3
        <4>2. Append(u, t)[j] = t
          BY <2>1, <2>5, <3>3
        <4>3. a[Len(s) + 1] = t
          BY <1>1, <1>5
        <4> QED
          BY <2>8, <4>1, <4>2, <4>3
      <3>4. j <= n - 1 \/ j = n
        BY <2>1
      <3> QED
        BY <3>2, <3>3, <3>4
    <2>10. Append(u, t) = Window(a)
      BY <2>5, <2>8, <2>9, SeqEqual
    <2> QED
      BY <2>4, <2>10 DEF w, a
  <1> QED
    BY <1>6, <1>7

-----------------------------------------------------------------------------
(* The bookkeeping of one turn: which tokens count as committed to the     *)
(* cache, where the next one goes, and what the repeat window holds.       *)

BeforeLoop ==
    /\ pc \in {"hydrate", "prefill", "first", "deliverfirst"} =>
         kvTokens = req.prompt /\ out = << >> /\ recent = << >>
    /\ pc = "idle" => out = << >>
    /\ pc = "prefill" => start <= pos
    /\ pc \in {"first", "deliverfirst"} => pos = N
    /\ pc = "first" => last = req.prompt[N]

\* At the loop head the last token delivered is not in the cache yet; after
\* a fall back nothing is delivered and the prompt's last token is redone.
AtLoop ==
    /\ kvTokens = req.prompt \o Front(out)
    /\ recent = Window(out)
    /\ out = << >> => pos = N - 1 /\ last = req.prompt[N]
    /\ out # << >> => pos = N + Len(out) - 1 /\ last = out[Len(out)]

AtDeliver ==
    /\ kvTokens = req.prompt \o out
    /\ pos = N + Len(out)
    /\ tok # EOS => last = tok /\ recent = Window(Append(out, tok))

Turn ==
    /\ BeforeLoop
    /\ pc = "loop" => AtLoop
    /\ pc = "deliver" => AtDeliver
    /\ pc = "save" => kvTokens = req.prompt \o Front(out)

LEMMA TurnImplies ==
  ASSUME Turn
  PROVE  CommittedTokens /\ RecentWindow
  <1>1. CommittedTokens
    BY DEF Turn, CommittedTokens, Front
  <1>2. RecentWindow
    BY DEF Turn, AtLoop, RecentWindow, Window
  <1> QED
    BY <1>1, <1>2

LEMMA TurnIdle ==
  ASSUME pc = "idle", out = << >>
  PROVE  Turn
  BY DEF Turn, BeforeLoop

LEMMA TurnReturn ==
  ASSUME Return
  PROVE  Turn'
  BY DEF Return, Turn, BeforeLoop

\* Neither stop() nor loading touches the turn.
LEMMA TurnKept ==
  ASSUME Turn, UNCHANGED <<pc, call>>
  PROVE  Turn'
  <1>1. UNCHANGED <<pc, req, start, pos, last, tok, kvTokens, out, recent>>
    BY DEF call
  <1>2. UNCHANGED N
    BY <1>1 DEF N
  <1>3. BeforeLoop'
    BY <1>1, <1>2 DEF Turn, BeforeLoop
  <1>4. UNCHANGED <<AtLoop, AtDeliver>>
    BY <1>1, <1>2 DEF AtLoop, AtDeliver
  <1> QED
    BY <1>1, <1>3, <1>4 DEF Turn

LEMMA TurnGenerate ==
  ASSUME Turn, NEW r, Generate(r)
  PROVE  Turn'
  <1>1. out' = << >> /\ recent' = << >> /\ kvTokens' = req'.prompt
        /\ pc' = "hydrate"
    BY DEF Generate, Enter, Turn, BeforeLoop
  <1> QED
    BY <1>1 DEF Turn, BeforeLoop

LEMMA TurnTypes ==
  ASSUME TypeInv, pc # "idle"
  PROVE  /\ req.prompt \in Seq(Token) /\ N \in Nat \ {0} /\ N = Len(req.prompt)
         /\ req.prompt[N] \in Token
         /\ start \in Nat /\ pos \in Nat
         /\ pc = "prefill" => start <= N /\ pos <= N
         /\ out \in Seq(Token) /\ kvTokens \in Seq(Token)
         /\ recent \in Seq(Token) /\ last \in Token /\ tok \in Token
  <1>1. req \in Request
    BY DEF TypeInv, CallOK
  <1>2. req.prompt \in Seq(Token)
    BY <1>1 DEF Request
  <1>3. N \in Nat \ {0} /\ (pc = "prefill" => start <= N /\ pos <= N)
    BY <1>2 DEF TypeInv, PromptFits, N
  <1>4. start \in Nat /\ pos \in Nat
    BY LimitType DEF TypeInv, CallOK
  <1> QED
    BY <1>2, <1>3, <1>4 DEF TypeInv, CallOK, N

LEMMA TurnHydrate ==
  ASSUME TypeInv, Turn, Hydrate
  PROVE  Turn'
  <1>1. /\ pc = "hydrate" /\ pc' = "prefill" /\ pos' = start'
        /\ UNCHANGED <<req, kvTokens, out, recent>>
    BY DEF Hydrate, HydrateHit, HydrateMiss, ScatterFails
  <1>2. start' \in Nat
    <2>1. start' \in 0..maxCtx'
      BY TypeHydrate DEF TypeInv, CallOK
    <2> QED
      BY <2>1
  <1> QED
    BY <1>1, <1>2 DEF Turn, BeforeLoop

LEMMA TurnPrefill ==
  ASSUME TypeInv, Turn, Prefill
  PROVE  Turn'
  <1>1. /\ pc = "prefill" /\ pc' \in {"prefill", "first"}
        /\ UNCHANGED <<req, start, kvTokens, out, recent, N>>
    BY DEF Prefill, PrefillBatched, PrefillToken, PrefillNothing, N
  <1>2. /\ N \in Nat \ {0} /\ start \in Nat /\ pos \in Nat
        /\ start <= pos /\ pos <= N
    BY <1>1, TurnTypes DEF Turn, BeforeLoop
  <1>3. /\ pc' = "prefill" => start' <= pos'
        /\ pc' = "first" => pos' = N /\ last' = req.prompt[N]
    <2>1. CASE PrefillBatched
      BY <2>1 DEF PrefillBatched
    <2>2. CASE PrefillToken
      BY <1>2, <2>2 DEF PrefillToken
    <2>3. CASE PrefillNothing
      BY <1>2, <2>3 DEF PrefillNothing
    <2> QED
      BY <2>1, <2>2, <2>3 DEF Prefill
  <1> QED
    BY <1>1, <1>3 DEF Turn, BeforeLoop

LEMMA TurnFirst ==
  ASSUME TypeInv, Turn, SampleFirst \/ FallBack
  PROVE  Turn'
  <1>1. /\ pc = "first"
        /\ UNCHANGED <<req, last, kvTokens, out, recent, N>>
    BY DEF SampleFirst, FallBack, N
  <1>2. /\ kvTokens = req.prompt /\ out = << >> /\ recent = << >>
        /\ pos = N /\ last = req.prompt[N]
    BY <1>1 DEF Turn, BeforeLoop
  <1>3. CASE SampleFirst
    <2>1. pc' = "deliverfirst" /\ pos' = pos
      BY <1>3 DEF SampleFirst
    <2> QED
      BY <1>1, <1>2, <2>1 DEF Turn, BeforeLoop
  <1>4. CASE FallBack
    <2>1. pc' = "loop" /\ pos' = N - 1
      BY <1>4 DEF FallBack
    <2>2. Window(<< >>) = << >> /\ Front(<< >>) = << >>
      BY WindowEmpty DEF Front
    <2>3. req.prompt \o << >> = req.prompt
      BY <1>1, TurnTypes, ConcatEmptySeq
    <2>4. AtLoop'
      BY <1>1, <1>2, <2>1, <2>2, <2>3 DEF AtLoop
    <2> QED
      BY <2>1, <2>4 DEF Turn, BeforeLoop
  <1> QED
    BY <1>3, <1>4

LEMMA TurnDeliver ==
  ASSUME TypeInv, Turn, DeliverFirst \/ Deliver
  PROVE  Turn'
  <1>1. /\ pc \in {"deliverfirst", "deliver"}
        /\ pc' = (IF tok = EOS THEN "save" ELSE "loop")
        /\ out' = Append(out, tok)
        /\ UNCHANGED <<req, pos, kvTokens, N>>
    BY DEF DeliverFirst, Deliver, Delivered, N
  <1>2. /\ out \in Seq(Token) /\ tok \in Token /\ req.prompt \in Seq(Token)
        /\ N \in Nat
    BY <1>1, TurnTypes
  <1>3. /\ Front(out') = out /\ out' # << >> /\ Len(out') = Len(out) + 1
        /\ out'[Len(out')] = tok
    BY <1>1, <1>2, FrontAppend
  <1>4. kvTokens' = req'.prompt \o Front(out') /\ pos' = N + Len(out)
    <2>1. CASE pc = "deliverfirst"
      <3>1. kvTokens = req.prompt /\ out = << >> /\ pos = N
        BY <2>1 DEF Turn, BeforeLoop
      <3>2. req.prompt \o << >> = req.prompt
        BY <1>2, ConcatEmptySeq
      <3> QED
        BY <1>1, <1>2, <1>3, <3>1, <3>2
    <2>2. CASE pc = "deliver"
      BY <1>1, <1>3, <2>2 DEF Turn, AtDeliver
    <2> QED
      BY <1>1, <2>1, <2>2
  <1>5. tok # EOS => last' = tok /\ recent' = Window(out')
    <2>1. CASE DeliverFirst
      <3>1. out = << >> /\ recent = << >>
        BY <2>1 DEF DeliverFirst, Turn, BeforeLoop
      <3>2. Window(<< >>) = << >>
        BY WindowEmpty
      <3>3. Push(Window(out), tok) = Window(Append(out, tok))
        BY <1>2, WindowPush
      <3> QED
        BY <1>1, <2>1, <3>1, <3>2, <3>3 DEF DeliverFirst
    <2>2. CASE Deliver
      BY <1>1, <2>2 DEF Deliver, Turn, AtDeliver
    <2> QED
      BY <2>1, <2>2
  <1>6. CASE tok = EOS
    BY <1>1, <1>4, <1>6 DEF Turn, BeforeLoop
  <1>7. CASE tok # EOS
    <2>1. pos' = N' + Len(out') - 1
      BY <1>1, <1>2, <1>3, <1>4
    <2>2. AtLoop'
      BY <1>3, <1>4, <1>5, <1>7, <2>1 DEF AtLoop
    <2> QED
      BY <1>1, <1>7, <2>2 DEF Turn, BeforeLoop
  <1> QED
    BY <1>6, <1>7

\* decode_step: what it commits to the cache before it runs the layers.
LEMMA DecodeCommits ==
  ASSUME TypeInv, Turn, DecodeStep \/ DecodeFails
  PROVE  /\ kvTokens' = req.prompt \o out /\ pos' = N + Len(out)
         /\ pos = Len(kvTokens') - 1 /\ last = kvTokens'[pos + 1]
         /\ kvTokens' = kvTokens \/ kvTokens' = Append(kvTokens, last)
  <1>1. /\ pc = "loop" /\ pos' = pos + 1
        /\ kvTokens' = IF Len(kvTokens) = pos THEN Append(kvTokens, last)
                       ELSE kvTokens
    BY DEF DecodeStep, DecodeFails
  <1>2. AtLoop
    BY <1>1 DEF Turn
  <1>3. /\ out \in Seq(Token) /\ last \in Token /\ req.prompt \in Seq(Token)
        /\ N \in Nat \ {0} /\ N = Len(req.prompt)
    BY <1>1, TurnTypes
  <1>4. CASE out = << >>
    <2>1. pos = N - 1 /\ last = req.prompt[N] /\ kvTokens = req.prompt \o << >>
      BY <1>2, <1>4 DEF AtLoop, Front
    <2>2. kvTokens = req.prompt
      BY <1>3, <2>1, ConcatEmptySeq
    <2>3. kvTokens' = kvTokens
      BY <1>1, <1>3, <2>1, <2>2
    <2> QED
      BY <1>1, <1>3, <1>4, <2>1, <2>2, <2>3
  <1>5. CASE out # << >>
    <2>1. /\ pos = N + Len(out) - 1 /\ last = out[Len(out)]
          /\ kvTokens = req.prompt \o Front(out)
      BY <1>2, <1>5 DEF AtLoop
    <2>2. /\ Front(out) \in Seq(Token) /\ Len(Front(out)) = Len(out) - 1
          /\ Append(Front(out), last) = out /\ Len(out) \in Nat
      BY <1>3, <1>5, <2>1, FrontLast
    <2>3. Len(kvTokens) = pos /\ kvTokens \in Seq(Token)
      BY <1>3, <2>1, <2>2, ConcatProperties
    <2>4. Append(kvTokens, last) = req.prompt \o out
      <3>1. Append(req.prompt \o Front(out), last)
              = req.prompt \o Append(Front(out), last)
        BY <1>3, <2>2, ConcatAppend
      <3> QED
        BY <2>1, <2>2, <3>1
    <2>5. kvTokens' = Append(kvTokens, last)
      BY <1>1, <2>3
    <2>6. Len(kvTokens') = pos + 1 /\ kvTokens'[pos + 1] = last
      BY <1>3, <2>3, <2>5
    <2> QED
      BY <1>1, <1>3, <2>1, <2>2, <2>3, <2>4, <2>5, <2>6
  <1> QED
    BY <1>4, <1>5

LEMMA TurnDecode ==
  ASSUME TypeInv, Turn, DecodeStep \/ DecodeFails
  PROVE  Turn'
  <1>1. /\ pc = "loop" /\ pc' = "deliver" /\ UNCHANGED <<req, out, N>>
    BY DEF DecodeStep, DecodeFails, N
  <1>2. out \in Seq(Token) /\ recent = Window(out)
    BY <1>1, TurnTypes DEF Turn, AtLoop
  <1>3. tok' # EOS => last' = tok' /\ recent' = Window(Append(out, tok'))
    <2>1. CASE DecodeStep
      <3>1. PICK t \in Token : tok' = t /\ last' = t /\ recent' = Push(recent, t)
        BY <2>1 DEF DecodeStep
      <3> QED
        BY <1>2, <3>1, WindowPush
    <2>2. CASE DecodeFails
      BY <2>2 DEF DecodeFails
    <2> QED
      BY <2>1, <2>2
  <1>4. AtDeliver'
    BY <1>1, <1>3, DecodeCommits DEF AtDeliver
  <1> QED
    BY <1>1, <1>4 DEF Turn, BeforeLoop

LEMMA TurnLoopEnds ==
  ASSUME Turn, LoopEnds \/ OomStop
  PROVE  Turn'
  <1>1. pc = "loop" /\ pc' = "save" /\ UNCHANGED <<req, kvTokens, out>>
    BY DEF LoopEnds, OomStop, call
  <1> QED
    BY <1>1 DEF Turn, AtLoop, BeforeLoop

LEMMA TurnNext == TypeInv /\ Turn /\ [Next]_vars => Turn'
  <1> SUFFICES ASSUME TypeInv, Turn, [Next]_vars PROVE Turn'
    OBVIOUS
  <1>1. ASSUME NEW m \in Model, LoadModel(m) PROVE Turn'
    BY <1>1, TurnKept DEF LoadModel
  <1>2. ASSUME NEW r \in Requests, Generate(r) PROVE Turn'
    BY <1>2, TurnGenerate
  <1>3. ASSUME NEW r \in Requests, GenerateThrows(r) PROVE Turn'
    BY <1>3, TurnReturn DEF GenerateThrows
  <1>4. CASE CallbackThrows \/ Save \/ NoSave \/ Crash
    BY <1>4, TurnReturn DEF CallbackThrows, Save, NoSave, Crash
  <1>5. CASE Stop \/ UNCHANGED vars
    BY <1>5, TurnKept DEF Stop, vars
  <1> QED
    BY <1>1, <1>2, <1>3, <1>4, <1>5, TurnHydrate, TurnPrefill, TurnFirst,
       TurnDecode, TurnDeliver, TurnLoopEnds
    DEF Next, Step, First, Loop, Finish

LEMMA TypeInvHolds == Spec => []TypeInv
  BY TypeInit, TypeNext, PTL DEF Spec

LEMMA TurnHolds == Spec => []Turn
  <1>1. Init => Turn
    BY TurnIdle DEF Init, Idle
  <1> QED
    BY <1>1, TypeInvHolds, TurnNext, PTL DEF Spec

\* Whatever ends a turn (EOS, the cap, stop(), a full cache, low memory), and
\* whether its first token came from the prefill or from a recomputed last
\* position, the tokens recorded with the cache are the prompt and all the
\* delivered ones but the last.
THEOREM TokensCommitted == Spec => []CommittedTokens
  BY TurnHolds, TurnImplies, PTL

\* The repeat-penalty window is the tail of what this call has delivered,
\* whenever a pass is about to sample with it.
THEOREM WindowIsRecent == Spec => []RecentWindow
  BY TurnHolds, TurnImplies, PTL

-----------------------------------------------------------------------------
(* Whose history the slots hold.                                           *)

\* The pool's format is the request's, a fingerprint was computed and tells
\* the models apart.
Identified ==
    /\ Override = FALSE /\ FingerprintFails = FALSE
    /\ \A a, b \in Model : Fingerprint[a] = Fingerprint[b] => a = b

\* The slots of the fast pool below m hold the K/V of s.
HoldsKV(k, m, s) ==
    \A q \in 0..(m - 1) : q < maxCtx => k[q] = CellOf(Prefix(s, q + 1))

\* The positions that attention can read.
Inside == pos <= maxCtx

Histories ==
    /\ model # NoModel => hash = Fingerprint[model]
    /\ pc # "idle" => req.int8 = int8Pool
    /\ pc \in {"idle", "hydrate"} => x = Null
    /\ pc = "prefill" =>
         /\ HoldsKV(kv, pos, req.prompt)
         /\ Inside => x \in {Null, Prefix(req.prompt, pos)}
    /\ pc = "first" /\ Inside => x \in {Null, req.prompt}
    /\ pc \in {"first", "deliverfirst", "loop", "deliver", "save"} =>
         HoldsKV(kv, Len(kvTokens), kvTokens)
    /\ pc \in {"deliverfirst", "deliver"} /\ Inside => x = req.prompt \o out

LEMMA PrefixPrefix ==
  ASSUME NEW s \in Seq(Token), NEW m \in 0..Len(s), NEW q \in 0..m
  PROVE  Prefix(Prefix(s, m), q) = Prefix(s, q)
  <1>1. \A j \in 1..q : Prefix(s, m)[j] = s[j]
    BY PrefixType
  <1> QED
    BY <1>1 DEF Prefix

\* Slots that hold one history are read as that history.
LEMMA HoldsCoherent ==
  ASSUME ProcessOK, model # NoModel, req.int8 = int8Pool,
         NEW k, NEW s \in Seq(Token), NEW m \in 0..Len(s), m <= maxCtx,
         HoldsKV(k, m, s)
  PROVE  /\ Coherent(k, m) /\ History(k, m) = Prefix(s, m)
         /\ Hidden(k, m) = Prefix(s, m)
  <1>1. CASE m = 0
    <2>1. Prefix(s, 0) = << >>
      BY DEF Prefix
    <2> QED
      BY <1>1, <2>1 DEF Coherent, History, Hidden
  <1>2. CASE m # 0
    <2>1. m \in Nat \ {0} /\ maxCtx \in Nat
      BY <1>2, LimitType
    <2>2. Prefix(s, m) \in Seq(Token)
      BY PrefixType
    <2>3. k[m - 1] = CellOf(Prefix(s, m))
      <3>1. m - 1 \in 0..(m - 1) /\ m - 1 < maxCtx /\ (m - 1) + 1 = m
        BY <2>1
      <3> QED
        BY <3>1 DEF HoldsKV
    <2>4. CellOf(Prefix(s, m)) \in Cell /\ CellOf(Prefix(s, m)).toks = Prefix(s, m)
      BY <2>2 DEF CellOf, Cell, ProcessOK
    <2>5. k[m - 1] # Junk /\ k[m - 1].toks = Prefix(s, m)
      BY <2>3, <2>4, DistinctAssumption
    <2>6. ASSUME NEW q \in 0..(m - 1)
          PROVE  k[q] = CellOf(Prefix(Prefix(s, m), q + 1))
      <3>1. q < maxCtx /\ q + 1 \in 0..m
        BY <2>1
      <3>2. Prefix(Prefix(s, m), q + 1) = Prefix(s, q + 1)
        BY <3>1, PrefixPrefix
      <3> QED
        BY <3>1, <3>2 DEF HoldsKV
    <2>7. Reads(k, m, Prefix(s, m))
      BY <2>6 DEF Reads
    <2>8. Coherent(k, m)
      BY <2>5, <2>7 DEF Coherent
    <2>9. History(k, m) = Prefix(s, m)
      BY <1>2, <2>5 DEF History
    <2> QED
      BY <2>8, <2>9 DEF Hidden
  <1> QED
    BY <1>1, <1>2

\* A pass over the layers at the end of a history extends it by the token.
LEMMA ForwardHolds ==
  ASSUME ProcessOK, KvOK, model # NoModel, req.int8 = int8Pool,
         NEW s \in Seq(Token), NEW p \in 0..(Len(s) - 1), p < limit,
         HoldsKV(kv, p, s), Forward(p, s[p + 1])
  PROVE  /\ HoldsKV(kv', p + 1, s)
         /\ p < maxCtx => x' = Prefix(s, p + 1)
         /\ \A q \in Slot \ {p} : kv'[q] = kv[q]
  <1>1. p \in Slot /\ Slot = 0..(MaxSlots - 1) /\ MaxSlots \in Nat
        /\ maxCtx \in Nat /\ maxCtx <= MaxSlots
    BY LimitType, ConstAssumption DEF Slot
  <1> DEFINE c == Computed(Coherent(kv, p), p, Append(History(kv, p), s[p + 1]))
             k == [kv EXCEPT ![p] = c]
  <1>2. kv' = k /\ x' = Hidden(k, p + 1)
    BY DEF Forward
  <1>3. k[p] = c /\ \A q \in Slot \ {p} : k[q] = kv[q]
    BY <1>1 DEF KvOK
  <1>6. p < maxCtx => c = CellOf(Prefix(s, p + 1))
    <2>1. SUFFICES ASSUME p < maxCtx PROVE c = CellOf(Prefix(s, p + 1))
      OBVIOUS
    <2>2. p \in 0..Len(s) /\ p <= maxCtx
      BY <1>1, <2>1
    <2>3. Coherent(kv, p) /\ History(kv, p) = Prefix(s, p)
      BY <2>2, HoldsCoherent
    <2>4. Append(Prefix(s, p), s[p + 1]) = Prefix(s, p + 1)
      BY PrefixExtend
    <2> QED
      BY <2>1, <2>3, <2>4 DEF Computed
  <1> HIDE DEF k, c
  <1>7. HoldsKV(k, p + 1, s)
    <2>1. SUFFICES ASSUME NEW q \in 0..(p + 1 - 1), q < maxCtx
                   PROVE  k[q] = CellOf(Prefix(s, q + 1))
      BY DEF HoldsKV
    <2>2. CASE q = p
      BY <1>3, <1>6, <2>1, <2>2
    <2>3. CASE q # p
      <3>1. q \in 0..(p - 1) /\ q \in Slot \ {p}
        BY <1>1, <2>1, <2>3
      <3> QED
        BY <1>3, <2>1, <3>1 DEF HoldsKV
    <2> QED
      BY <2>2, <2>3
  <1>9. p < maxCtx => x' = Prefix(s, p + 1)
    <2>1. SUFFICES ASSUME p < maxCtx PROVE Hidden(k, p + 1) = Prefix(s, p + 1)
      BY <1>2
    <2>2. p + 1 \in 0..Len(s) /\ p + 1 <= maxCtx
      BY <1>1, <2>1
    <2> QED
      BY <1>7, <2>2, HoldsCoherent
  <1> QED
    BY <1>2, <1>3, <1>7, <1>9

\* Nothing that the slots are judged by has changed.
LEMMA HoldsKept ==
  ASSUME NEW m, NEW s, HoldsKV(kv, m, s), UNCHANGED <<process, kv>>
  PROVE  HoldsKV(kv, m, s)'
  <1>1. \A r : CellOf(r)' = CellOf(r)
    BY DEF CellOf, process
  <1> QED
    BY <1>1 DEF HoldsKV, process

-----------------------------------------------------------------------------
LEMMA HistoriesReturn ==
  ASSUME Histories, Return, model' # NoModel => UNCHANGED <<model, hash>>
  PROVE  Histories'
  BY DEF Return, Histories

LEMMA HistoriesGenerate ==
  ASSUME Identified, Histories, NEW r \in Requests, Generate(r)
  PROVE  Histories'
  <1>1. /\ pc = "idle" /\ pc' = "hydrate" /\ req' = r /\ UNCHANGED <<process, x>>
        /\ (r.int8 # int8Pool => Override)
    BY DEF Generate, Enter
  <1>2. r.int8 = int8Pool
    BY <1>1 DEF Identified
  <1> QED
    BY <1>1, <1>2 DEF Histories, process

LEMMA HistoriesHydrate ==
  ASSUME Identified, TypeInv, Histories, FilesSound, Hydrate
  PROVE  Histories'
  <1>1. /\ pc = "hydrate" /\ pc' = "prefill" /\ pos' = start'
        /\ UNCHANGED <<process, req, x>>
    BY DEF Hydrate, HydrateHit, HydrateMiss, ScatterFails
  <1>2. /\ model \in Model /\ hash = Fingerprint[model] /\ x = Null
        /\ req.int8 = int8Pool
    BY <1>1 DEF Histories, TypeInv, CallOK, ProcessOK
  <1>3. \A r : CellOf(r)' = CellOf(r)
    BY <1>1 DEF CellOf, process
  <1>4. HoldsKV(kv, pos, req.prompt)'
    <2>1. CASE HydrateMiss \/ ScatterFails
      <3>1. pos' = 0
        BY <2>1 DEF HydrateMiss, ScatterFails
      <3> QED
        BY <3>1 DEF HoldsKV
    <2>2. CASE HydrateHit
      <3> DEFINE f == disk[req.conv]
      <3>1. f # NoFile /\ Compatible(f) /\ req.conv # NoConv
        BY <2>2 DEF HydrateHit
      <3>8. PICK n \in 1..maxCtx :
              /\ CommonPrefix(f.tokens, req.prompt, n)
              /\ start' = n
              /\ kv' = [q \in Slot |-> IF q < n THEN f.body[q]
                                       ELSE IF q < maxCtx THEN Junk ELSE kv[q]]
        BY <2>2 DEF HydrateHit
      <3>2. req \in Request
        BY <1>1 DEF TypeInv, CallOK
      <3>3. req.conv \in Conv /\ f \in KVFile
        BY <3>1, <3>2 DEF Request, TypeInv, DiskOK
      <3>4. FileSound(f)
        BY <3>1, <3>3 DEF FilesSound
      <3> HIDE DEF f
      <3>5. PICK m \in Model :
              /\ f.hash = Fingerprint[m]
              /\ \A q \in 0..(Len(f.tokens) - 1) :
                   f.body[q] = [model |-> m, int8 |-> f.int8,
                                toks |-> Prefix(f.tokens, q + 1)]
        BY <3>4 DEF FileSound
      <3>6. m = model /\ f.int8 = int8Pool
        BY <1>2, <3>1, <3>5 DEF Compatible, Identified
      <3>9. /\ n \in Nat \ {0} /\ n <= Len(f.tokens) /\ n <= Len(req.prompt)
            /\ n <= MaxSlots /\ MaxSlots \in Nat
            /\ f.tokens \in Seq(Token) /\ req.prompt \in Seq(Token)
        <4>1. maxCtx \in Nat /\ maxCtx <= limit /\ limit <= MaxSlots /\ limit \in Nat
          BY LimitType DEF TypeInv
        <4>2. f.tokens \in Seq(Token) /\ req.prompt \in Seq(Token)
          BY <3>2, <3>3 DEF KVFile, Request
        <4> QED
          BY <3>8, <4>1, <4>2, ConstAssumption DEF CommonPrefix
      <3>7. ASSUME NEW q \in 0..(n - 1)
            PROVE  kv'[q] = CellOf(Prefix(req.prompt, q + 1))
        <4>1. q \in 0..(Len(f.tokens) - 1) /\ q \in Slot /\ q < n
          BY <3>9 DEF Slot
        <4>2. \A j \in 1..(q + 1) : f.tokens[j] = req.prompt[j]
          BY <3>8, <3>9 DEF CommonPrefix
        <4>3. Prefix(f.tokens, q + 1) = Prefix(req.prompt, q + 1)
          BY <4>2 DEF Prefix
        <4>4. kv'[q] = f.body[q]
          BY <3>8, <4>1
        <4> QED
          BY <3>5, <3>6, <4>1, <4>3, <4>4 DEF CellOf
      <3> QED
        BY <1>1, <1>3, <3>7, <3>8 DEF HoldsKV
    <2> QED
      BY <2>1, <2>2 DEF Hydrate
  <1> QED
    BY <1>1, <1>2, <1>4 DEF Histories, process

LEMMA HistoriesPrefill ==
  ASSUME TypeInv, Turn, Histories, Prefill
  PROVE  Histories'
  <1>1. /\ pc = "prefill" /\ pc' \in {"prefill", "first"}
        /\ UNCHANGED <<process, req, start, kvTokens, out>>
    BY DEF Prefill, PrefillBatched, PrefillToken, PrefillNothing
  <1>2. /\ req.prompt \in Seq(Token) /\ N \in Nat \ {0} /\ N = Len(req.prompt)
        /\ start \in Nat /\ pos \in Nat /\ start <= N /\ pos <= N /\ start <= pos
    BY <1>1, TurnTypes DEF Turn, BeforeLoop
  <1>3. /\ model # NoModel /\ hash = Fingerprint[model] /\ req.int8 = int8Pool
        /\ HoldsKV(kv, pos, req.prompt) /\ kvTokens = req.prompt
        /\ Inside => x \in {Null, Prefix(req.prompt, pos)}
    BY <1>1 DEF Histories, TypeInv, CallOK, Turn, BeforeLoop
  <1>4. ProcessOK /\ KvOK /\ N < limit
    BY <1>1 DEF TypeInv, PromptFits
  <1>5. maxCtx' = maxCtx /\ maxCtx \in Nat /\ maxCtx <= MaxSlots
        /\ limit \in Nat /\ limit <= MaxSlots /\ MaxSlots \in Nat
    BY <1>1, <1>4, LimitType, ConstAssumption DEF process
  <1>6. /\ HoldsKV(kv, pos, req.prompt)' /\ pos' \in Nat /\ pos' <= N
        /\ pc' = "first" => pos' = N
        /\ Inside' => x' \in {Null, Prefix(req.prompt, pos')}
    <2>1. CASE PrefillNothing
      <3>1. UNCHANGED <<kv, x, pos>> /\ pos = N
        BY <1>2, <2>1 DEF PrefillNothing
      <3>2. HoldsKV(kv, pos, req.prompt)'
        BY <1>1, <1>3, <3>1, HoldsKept
      <3> QED
        BY <1>2, <1>3, <1>5, <3>1, <3>2 DEF Inside
    <2>2. CASE PrefillToken
      <3>1. /\ pos < N /\ pos' = pos + 1 /\ Forward(pos, req.prompt[pos + 1])
            /\ pc' = "first" => pos + 1 = N
        BY <2>2 DEF PrefillToken
      <3>2. pos \in 0..(Len(req.prompt) - 1) /\ pos < limit
        BY <1>2, <1>4, <1>5, <3>1
      <3>3. /\ HoldsKV(kv', pos + 1, req.prompt)
            /\ pos < maxCtx => x' = Prefix(req.prompt, pos + 1)
        <4> HIDE DEF N
        <4> QED
          BY <1>1, <1>2, <1>3, <1>4, <3>1, <3>2, ForwardHolds
      <3>4. HoldsKV(kv, pos, req.prompt)'
        <4>1. \A r : CellOf(r)' = CellOf(r)
          BY <1>1 DEF CellOf, process
        <4> QED
          BY <1>1, <1>5, <3>1, <3>3, <4>1 DEF HoldsKV
      <3> QED
        BY <1>2, <1>5, <3>1, <3>3, <3>4 DEF Inside
    <2>3. CASE PrefillBatched
      <3> DEFINE h == History(kv, start)
                 ok == Coherent(kv, start)
                 k == [q \in Slot |->
                         IF q \in start..(N - 1)
                         THEN Computed(ok, q, Splice(h, req.prompt, q + 1))
                         ELSE kv[q]]
      <3>1. /\ pos = start /\ start < N /\ kv' = k /\ x' = Hidden(k, N)
            /\ pos' = N /\ pc' = "first"
        BY <2>3 DEF PrefillBatched
      <3>2. start <= maxCtx
        BY <1>5 DEF TypeInv, CallOK
      <3>3. ok /\ h = Prefix(req.prompt, start)
        BY <1>2, <1>3, <1>4, <3>1, <3>2, HoldsCoherent
      <3>4. ASSUME NEW q \in 0..(N - 1), q < maxCtx
            PROVE  k[q] = CellOf(Prefix(req.prompt, q + 1))
        <4>1. q \in Slot /\ q \in Nat
          BY <1>2, <1>5, <3>4 DEF Slot
        <4>2. CASE q < start
          <5>1. q \notin start..(N - 1) /\ q \in 0..(start - 1)
            BY <1>2, <4>1, <4>2
          <5>2. k[q] = kv[q]
            BY <4>1, <5>1
          <5> QED
            BY <1>3, <3>1, <3>4, <5>1, <5>2 DEF HoldsKV
        <4>3. CASE ~(q < start)
          <5>1. q \in start..(N - 1)
            BY <1>2, <4>3
          <5>2. k[q] = Computed(ok, q, Splice(h, req.prompt, q + 1))
            BY <4>1, <5>1
          <5>3. Splice(h, req.prompt, q + 1) = Prefix(req.prompt, q + 1)
            <6>1. Len(h) = start /\ \A j \in 1..start : h[j] = req.prompt[j]
              BY <1>2, <3>3, PrefixType
            <6> HIDE DEF h
            <6>2. \A j \in 1..(q + 1) :
                    (IF j <= Len(h) THEN h[j] ELSE req.prompt[j]) = req.prompt[j]
              BY <1>2, <6>1
            <6> QED
              BY <6>2 DEF Splice, Prefix
          <5> HIDE DEF k, h, ok
          <5>4. Computed(ok, q, Splice(h, req.prompt, q + 1))
                  = CellOf(Prefix(req.prompt, q + 1))
            BY <1>3, <3>3, <3>4, <5>3 DEF Computed
          <5> QED
            BY <5>2, <5>4
        <4> QED
          BY <4>2, <4>3
      <3> HIDE DEF k, h, ok
      <3>5. HoldsKV(k, N, req.prompt)
        BY <3>4 DEF HoldsKV
      <3>6. \A r : CellOf(r)' = CellOf(r)
        BY <1>1 DEF CellOf, process
      <3>7. HoldsKV(kv, pos, req.prompt)'
        BY <1>1, <1>5, <3>1, <3>4, <3>6 DEF HoldsKV
      <3>8. Inside' => x' = Prefix(req.prompt, N)
        <4>1. SUFFICES ASSUME N <= maxCtx PROVE Hidden(k, N) = Prefix(req.prompt, N)
          BY <1>5, <3>1 DEF Inside
        <4> QED
          BY <1>2, <1>3, <1>4, <3>5, <4>1, HoldsCoherent
      <3> QED
        BY <1>2, <3>1, <3>7, <3>8
    <2> QED
      BY <2>1, <2>2, <2>3 DEF Prefill
  <1>7. Prefix(req.prompt, N) = req.prompt
    BY <1>2, PrefixAll
  <1>8. CASE pc' = "prefill"
    BY <1>1, <1>3, <1>6, <1>8 DEF Histories, process
  <1>9. CASE pc' = "first"
    <2>1. HoldsKV(kv, Len(kvTokens), kvTokens)'
      BY <1>1, <1>2, <1>3, <1>6, <1>9
    <2> QED
      BY <1>1, <1>3, <1>6, <1>7, <1>9, <2>1 DEF Histories, process
  <1> QED
    BY <1>1, <1>8, <1>9

LEMMA HistoriesFirst ==
  ASSUME TypeInv, Turn, Histories, SampleFirst \/ FallBack
  PROVE  Histories'
  <1>1. /\ pc = "first" /\ pc' \in {"deliverfirst", "loop"}
        /\ UNCHANGED <<process, kv, req, x, kvTokens, out>>
        /\ pc' = "deliverfirst" => x # Null /\ pos' = pos
    BY DEF SampleFirst, FallBack
  <1>2. /\ HoldsKV(kv, Len(kvTokens), kvTokens) /\ out = << >>
        /\ Inside => x \in {Null, req.prompt}
        /\ model # NoModel /\ hash = Fingerprint[model] /\ req.int8 = int8Pool
    BY <1>1 DEF Histories, Turn, BeforeLoop, TypeInv, CallOK
  <1>3. HoldsKV(kv, Len(kvTokens), kvTokens)'
    BY <1>1, <1>2, HoldsKept
  <1>4. req.prompt \o << >> = req.prompt
    BY <1>1, TurnTypes, ConcatEmptySeq
  <1>5. pc' = "deliverfirst" /\ Inside' => x' = req'.prompt \o out'
    BY <1>1, <1>2, <1>4 DEF Inside, process
  <1> QED
    BY <1>1, <1>2, <1>3, <1>5 DEF Histories, process

LEMMA HistoriesDeliver ==
  ASSUME TypeInv, Histories, DeliverFirst \/ Deliver \/ LoopEnds \/ OomStop
  PROVE  Histories'
  <1>1. /\ pc \in {"deliverfirst", "deliver", "loop"} /\ pc' \in {"loop", "save"}
        /\ UNCHANGED <<process, kv, req, kvTokens>>
    BY DEF DeliverFirst, Deliver, LoopEnds, OomStop, call
  <1>2. /\ HoldsKV(kv, Len(kvTokens), kvTokens)
        /\ model # NoModel /\ hash = Fingerprint[model] /\ req.int8 = int8Pool
    BY <1>1 DEF Histories, TypeInv, CallOK
  <1>3. HoldsKV(kv, Len(kvTokens), kvTokens)'
    BY <1>1, <1>2, HoldsKept
  <1> QED
    BY <1>1, <1>2, <1>3 DEF Histories, process

LEMMA HistoriesDecode ==
  ASSUME TypeInv, Turn, Histories, DecodeStep \/ DecodeFails
  PROVE  Histories'
  <1>1. /\ pc = "loop" /\ pc' = "deliver" /\ pos < limit /\ pos' = pos + 1
        /\ Forward(pos, last) /\ UNCHANGED <<process, req, out>>
    BY DEF DecodeStep, DecodeFails
  <1>2. /\ HoldsKV(kv, Len(kvTokens), kvTokens)
        /\ model # NoModel /\ hash = Fingerprint[model] /\ req.int8 = int8Pool
        /\ ProcessOK /\ KvOK
    BY <1>1 DEF Histories, TypeInv, CallOK
  <1>3. PICK s : s = kvTokens'
    OBVIOUS
  <1>4. /\ s = req.prompt \o out /\ pos = Len(s) - 1 /\ last = s[pos + 1]
        /\ s = kvTokens \/ s = Append(kvTokens, last)
    BY <1>3, DecodeCommits
  <1>5. /\ s \in Seq(Token) /\ kvTokens \in Seq(Token) /\ last \in Token
        /\ pos \in Nat /\ maxCtx \in Nat /\ maxCtx' = maxCtx
    BY <1>1, <1>2, <1>4, TurnTypes, ConcatProperties, LimitType DEF process
  <1>6. pos \in 0..(Len(s) - 1) /\ pos <= Len(kvTokens) /\ Len(s) = pos + 1
    <2>1. Len(s) \in Nat /\ Len(kvTokens) \in Nat
      BY <1>5
    <2>2. Len(Append(kvTokens, last)) = Len(kvTokens) + 1
      BY <1>5
    <2>3. Len(s) = pos + 1 /\ (Len(s) = Len(kvTokens) \/ Len(s) = Len(kvTokens) + 1)
      <3>1. Len(s) = Len(kvTokens) \/ Len(s) = Len(kvTokens) + 1
        BY <1>4, <2>2
      <3>2. pos = Len(s) - 1
        BY <1>4
      <3> QED
        BY <2>1, <3>1, <3>2
    <2> QED
      BY <1>5, <2>1, <2>3
  <1>7. HoldsKV(kv, pos, s)
    <2>1. ASSUME NEW q \in 0..(pos - 1), q < maxCtx
          PROVE  kv[q] = CellOf(Prefix(s, q + 1))
      <3>1. q \in 0..(Len(kvTokens) - 1) /\ q + 1 \in 0..Len(kvTokens)
        BY <1>5, <1>6
      <3>2. Prefix(s, q + 1) = Prefix(kvTokens, q + 1)
        <4>1. Prefix(Append(kvTokens, last), q + 1) = Prefix(kvTokens, q + 1)
          BY <1>5, <3>1, PrefixAppend
        <4> QED
          BY <1>4, <4>1
      <3> QED
        BY <1>2, <2>1, <3>1, <3>2 DEF HoldsKV
    <2> QED
      BY <2>1 DEF HoldsKV
  <1>8. HoldsKV(kv', pos + 1, s) /\ (pos < maxCtx => x' = Prefix(s, pos + 1))
    BY <1>1, <1>2, <1>4, <1>5, <1>6, <1>7, ForwardHolds
  <1>9. HoldsKV(kv, Len(kvTokens), kvTokens)'
    <2>1. \A r : CellOf(r)' = CellOf(r)
      BY <1>1 DEF CellOf, process
    <2> QED
      BY <1>3, <1>5, <1>6, <1>8, <2>1 DEF HoldsKV
  <1>10. Inside' => x' = req'.prompt \o out'
    <2>1. Prefix(s, pos + 1) = s
      BY <1>5, <1>6, PrefixAll
    <2>2. Inside' => pos < maxCtx
      BY <1>1, <1>5 DEF Inside
    <2> QED
      BY <1>1, <1>4, <1>8, <2>1, <2>2
  <1> QED
    BY <1>1, <1>2, <1>9, <1>10 DEF Histories, process

LEMMA HistoriesNext ==
  Identified /\ TypeInv /\ Turn /\ Histories /\ FilesSound /\ [Next]_vars
    => Histories'
  <1> SUFFICES ASSUME Identified, TypeInv, Turn, Histories, FilesSound, [Next]_vars
               PROVE  Histories'
    OBVIOUS
  <1>1. ASSUME NEW m \in Model, LoadModel(m) PROVE Histories'
    <2>1. model' = m /\ hash' = Fingerprint[m] /\ pc = "idle" /\ UNCHANGED <<pc, x>>
      BY <1>1 DEF LoadModel, ModelHashes, Identified, call
    <2> QED
      BY <2>1 DEF Histories
  <1>2. ASSUME NEW r \in Requests, Generate(r) PROVE Histories'
    BY <1>2, HistoriesGenerate
  <1>3. ASSUME NEW r \in Requests, GenerateThrows(r) PROVE Histories'
    BY <1>3, HistoriesReturn DEF GenerateThrows, process
  <1>4. CASE CallbackThrows \/ Save \/ NoSave \/ Crash
    BY <1>4, HistoriesReturn DEF CallbackThrows, Save, NoSave, Crash, process
  <1>5. CASE Stop \/ UNCHANGED vars
    <2>1. UNCHANGED <<process, kv, pc, call>>
      BY <1>5 DEF Stop, vars
    <2>2. UNCHANGED <<model, int8Pool, maxCtx, hash, pc, req, pos, x, kvTokens, out, kv>>
      BY <2>1 DEF process, call
    <2>3. \A r : CellOf(r)' = CellOf(r)
      BY <2>2 DEF CellOf
    <2>4. UNCHANGED <<Inside, HoldsKV(kv, pos, req.prompt),
                      HoldsKV(kv, Len(kvTokens), kvTokens)>>
      BY <2>2, <2>3 DEF HoldsKV, Inside
    <2> QED
      BY <2>2, <2>4 DEF Histories
  <1> QED
    BY <1>1, <1>2, <1>3, <1>4, <1>5, HistoriesHydrate, HistoriesPrefill,
       HistoriesFirst, HistoriesDecode, HistoriesDeliver
    DEF Next, Step, First, Loop, Finish

\* Only a save writes to the disk, and what it writes is the history that
\* the slots hold.
LEMMA FilesSoundNext ==
  TypeInv /\ Histories /\ FilesSound /\ [Next]_vars => FilesSound'
  <1> SUFFICES ASSUME TypeInv, Histories, FilesSound, [Next]_vars
               PROVE  FilesSound'
    OBVIOUS
  <1>1. CASE UNCHANGED disk
    BY <1>1 DEF FilesSound, FileSound
  <1>2. CASE Save
    <2> DEFINE body == [q \in Slot |-> IF q < Len(kvTokens) THEN kv[q] ELSE Junk]
               f == [hash |-> hash, int8 |-> int8Pool, ctx |-> maxCtx,
                     tokens |-> kvTokens, body |-> body]
    <2>1. /\ pc = "save" /\ Len(kvTokens) <= maxCtx
          /\ \E gone \in SUBSET (Conv \ {req.conv}) :
               disk' = [c \in Conv |-> IF c = req.conv THEN f
                                       ELSE IF c \in gone THEN NoFile ELSE disk[c]]
      BY <1>2 DEF Save, Saves
    <2>2. /\ HoldsKV(kv, Len(kvTokens), kvTokens) /\ model \in Model
          /\ hash = Fingerprint[model] /\ kvTokens \in Seq(Token)
      BY <2>1 DEF Histories, TypeInv, CallOK, ProcessOK
    <2>3. maxCtx \in Nat /\ maxCtx <= MaxSlots /\ MaxSlots \in Nat
      <3>1. maxCtx \in Nat /\ maxCtx <= limit /\ limit <= MaxSlots /\ limit \in Nat
        BY LimitType DEF TypeInv
      <3> QED
        BY <3>1, ConstAssumption
    <2>4. ASSUME NEW q \in 0..(Len(kvTokens) - 1)
          PROVE  body[q] = [model |-> model, int8 |-> int8Pool,
                            toks |-> Prefix(kvTokens, q + 1)]
      <3>1. q \in Slot /\ q < Len(kvTokens) /\ q < maxCtx
        BY <2>1, <2>2, <2>3 DEF Slot
      <3> QED
        BY <2>2, <3>1 DEF HoldsKV, CellOf
    <2> HIDE DEF body
    <2>5. FileSound(f)
      BY <2>2, <2>4 DEF FileSound
    <2> HIDE DEF f
    <2>6. ASSUME NEW c \in Conv, disk'[c] # NoFile PROVE FileSound(disk'[c])
      BY <2>1, <2>5, <2>6 DEF FilesSound
    <2> QED
      BY <2>6 DEF FilesSound, FileSound
  <1> QED
    BY <1>1, <1>2
    DEF Next, Step, Hydrate, HydrateHit, HydrateMiss, ScatterFails, Prefill,
        PrefillBatched, PrefillToken, PrefillNothing, First, SampleFirst,
        FallBack, DeliverFirst, Loop, LoopEnds, OomStop, DecodeStep,
        DecodeFails, Deliver, CallbackThrows, Finish, NoSave, Stop, Crash,
        LoadModel, Generate, GenerateThrows, vars

LEMMA HistoriesInit == Init => Histories /\ FilesSound
  <1> SUFFICES ASSUME Init PROVE Histories /\ FilesSound
    OBVIOUS
  <1>1. pc = "idle" /\ x = Null /\ model = NoModel
        /\ disk = [c \in Conv |-> NoFile]
    BY DEF Init, Idle
  <1> QED
    BY <1>1 DEF Histories, FilesSound

LEMMA HistoriesHold ==
  ASSUME Identified
  PROVE  Spec => [](Histories /\ FilesSound)
  <1>1. TypeInv /\ Turn /\ (Histories /\ FilesSound) /\ [Next]_vars
          => (Histories /\ FilesSound)'
    BY HistoriesNext, FilesSoundNext
  <1> QED
    BY <1>1, HistoriesInit, TypeInvHolds, TurnHolds, PTL DEF Spec

\* Every file on the disk holds the K/V that the model it names computes over
\* its tokens, for any context sizes, overflow pool, sequence of crashes,
\* restarts with other models, failing copies and evictions.  The hypothesis
\* leaves out the two cases the code does not handle: a request whose format
\* is not the pool's, and models that the fingerprint does not tell apart.
THEOREM SavedFilesSound ==
  ASSUME Identified
  PROVE  Spec => []FilesSound
  BY HistoriesHold, PTL

\* Without an overflow pool (where attention reads the wrong memory, see
\* OverflowWorks) every token is sampled from a pass over the K/V of the
\* request's prompt and of the tokens delivered so far.
THEOREM SeesOwnHistory ==
  ASSUME Identified, Overflow = 0
  PROVE  Spec => []OwnHistory
  <1>1. TypeInv /\ Histories => OwnHistory
    <2> SUFFICES ASSUME TypeInv, Histories PROVE OwnHistory
      OBVIOUS
    <2>1. Inside
      <3>1. pos \in 0..limit /\ limit = maxCtx + 0 /\ maxCtx \in Nat
        BY LimitType DEF TypeInv, CallOK, limit
      <3> QED
        BY <3>1 DEF Inside
    <2> QED
      BY <2>1 DEF Histories, OwnHistory
  <1> QED
    BY <1>1, HistoriesHold, TypeInvHolds, PTL
=============================================================================
