-------------------------- MODULE KVCacheFileProofs --------------------------
(* Theorems about KVCacheFile, for any number of processes, conversations,  *)
(* payloads and sizes.                                                      *)
EXTENDS KVCacheFile, TLAPS

\* The locals that a returning call is given are values of the right type.
LEMMA AnyType == AnyConv \in Conv /\ AnyPayload \in Payload
BY ConstAssumption DEF AnyConv, AnyPayload

LEMMA ZeroTime == 0 \in Time
BY ConstAssumption DEF Time

\* A listing of a well-typed directory consists of entries.
LEMMA ListType ==
    ASSUME NEW dir \in Files
    PROVE  list_kv_files(dir) \subseteq Entry
<1> SUFFICES ASSUME NEW c \in Conv, dir[c] # NoFile
             PROVE  [conv |-> c, mtime |-> dir[c].mtime, size |-> dir[c].len]
                      \in Entry
    BY DEF list_kv_files
<1> dir[c] \in File
    BY DEF Files
<1> QED
    BY DEF File, Entry

LEMMA ReturnType ==
    ASSUME TypeOK, NEW p \in Proc, Return(p)
    PROVE  /\ pc' \in [Proc -> PC]
           /\ conv' \in [Proc -> Conv]
           /\ val' \in [Proc -> Payload]
           /\ len' \in [Proc -> Nat]
           /\ entries' \in [Proc -> SUBSET Entry]
           /\ counted' \in [Proc -> SUBSET Entry]
           /\ at' \in [Proc -> Time]
BY AnyType, ZeroTime DEF TypeOK, Return, Goto, PC

LEMMA WrittenType ==
    ASSUME NEW f \in File, NEW n \in Nat, NEW t \in Time
    PROVE  [f EXCEPT !.len = n, !.mtime = t] \in File
BY DEF File

\* One write(2) on the open .tmp keeps the types.
LEMMA WriteType ==
    ASSUME TypeOK, NEW p \in Proc, NEW n \in Nat, WriteSome(p, n),
           pc' \in [Proc -> PC]
    PROVE  TypeOK'
<1>1. conv[p] \in Conv /\ len[p] \in Nat /\ now \in Time
    BY DEF TypeOK
<1>2. len' \in [Proc -> Nat]
    BY <1>1 DEF TypeOK, WriteSome
<1>3. tmp' \in Files
  <2>1. CASE tmp[conv[p]] = NoFile
      BY <2>1 DEF TypeOK, WriteSome
  <2>2. CASE tmp[conv[p]] # NoFile
    <3>1. tmp[conv[p]] \in File
        BY <1>1, <2>2 DEF TypeOK, Files
    <3>2. [tmp[conv[p]] EXCEPT !.len = len[p] + n, !.mtime = now] \in File
      <4> len[p] + n \in Nat
          BY <1>1
      <4> QED
          BY <1>1, <3>1, WrittenType
    <3>3. tmp' = [tmp EXCEPT ![conv[p]] =
                    [tmp[conv[p]] EXCEPT !.len = len[p] + n, !.mtime = now]]
        BY <2>2 DEF WriteSome
    <3> QED
        BY <1>1, <3>2, <3>3 DEF TypeOK, Files
  <2> QED
      BY <2>1, <2>2
<1> QED
    BY <1>2, <1>3 DEF TypeOK, WriteSome

\* What a power loss may leave of a file is a file or nothing.
LEMMA RemainsType ==
    ASSUME NEW f \in File \cup {NoFile}
    PROVE  /\ Remains(f) \subseteq File \cup {NoFile}
           /\ TmpRemains(f) \subseteq File \cup {NoFile}
<1>1. CASE f = NoFile
    BY <1>1 DEF Remains, TmpRemains
<1>2. CASE f # NoFile
  <2>1. f \in File /\ f.len \in Nat
      BY <1>2 DEF File
  <2>2. ASSUME NEW n \in Nat, NEW t \in {"no", "header", "data"}
        PROVE  Damaged(f, n, t) \in File
      BY <2>1, <2>2 DEF File, Damaged
  <2>3. \A n \in 0..f.len : n \in Nat
      BY <2>1
  <2>4. [f EXCEPT !.torn = "data"] \in File
      BY <2>1 DEF File
  <2>5. ASSUME NEW g \in Remains(f)
        PROVE  g \in File
    <3>1. CASE f.synced
        BY <1>2, <2>1, <2>5, <3>1 DEF Remains
    <3>2. CASE ~f.synced
      <4>1. PICK n \in 0..f.len, t \in {"no", "header", "data"} :
                g = Damaged(f, n, t)
          BY <1>2, <2>5, <3>2 DEF Remains
      <4> QED
          BY <2>2, <2>3, <4>1
    <3> QED
        BY <3>1, <3>2
  <2> QED
      BY <1>2, <2>4, <2>5 DEF TmpRemains
<1> QED
    BY <1>1, <1>2

LEMMA TypeInit == Init => TypeOK
BY AnyType, ZeroTime DEF Init, TypeOK, Files, PC

\* Every action keeps the types.
LEMMA TypeStep == TypeOK /\ [Next]_vars => TypeOK'
<1> SUFFICES ASSUME TypeOK, [Next]_vars
             PROVE  TypeOK'
    OBVIOUS
<1> USE DEF TypeOK, disk, work
<1>1. ASSUME NEW p \in Proc, NEW c \in Conv, NEW v \in Payload,
             StartSave(p, c, v)
      PROVE  TypeOK'
    BY <1>1 DEF StartSave, Goto, PC
<1>2. ASSUME NEW p \in Proc, OpenTmp(p) PROVE TypeOK'
  <2>1. conv[p] \in Conv /\ val[p] \in Payload /\ now \in Time
      OBVIOUS
  <2>2. [val |-> val[p], len |-> 0, mtime |-> now, synced |-> FALSE,
         torn |-> "no"] \in File
      BY <2>1 DEF File
  <2>3. tmp' \in Files
      BY <1>2, <2>1, <2>2 DEF OpenTmp, Files
  <2> QED
      BY <1>2, <2>3 DEF OpenTmp, Goto, PC
<1>3. ASSUME NEW p \in Proc, WriteHeader(p) PROVE TypeOK'
  <2>1. pc' \in [Proc -> PC]
      BY <1>3 DEF WriteHeader, Goto, PC
  <2> QED
      BY <1>3, <2>1, WriteType DEF WriteHeader, HeaderUnits
<1>4. ASSUME NEW p \in Proc, WriteTokens(p) PROVE TypeOK'
    BY <1>4, WriteType DEF WriteTokens
<1>5. ASSUME NEW p \in Proc, WriteBody(p) PROVE TypeOK'
    BY <1>5, WriteType DEF WriteBody
<1>6. ASSUME NEW p \in Proc, TokensWritten(p) \/ BodyWritten(p)
      PROVE  TypeOK'
    BY <1>6 DEF TokensWritten, BodyWritten, Goto, PC
<1>7. ASSUME NEW p \in Proc, Fsync(p) PROVE TypeOK'
  <2>1. conv[p] \in Conv
      OBVIOUS
  <2>2. ASSUME NEW f \in File PROVE [f EXCEPT !.synced = TRUE] \in File
      BY <2>2 DEF File
  <2>3. tmp' \in Files
      BY <1>7, <2>1, <2>2 DEF Fsync, Files
  <2> QED
      BY <1>7, <2>3 DEF Fsync, Goto, PC
<1>8. ASSUME NEW p \in Proc, Rename(p) PROVE TypeOK'
  <2>1. conv[p] \in Conv
      OBVIOUS
  <2>2. bin' \in Files /\ tmp' \in Files
      BY <1>8, <2>1 DEF Rename, Files
  <2> QED
      BY <1>8, <2>2 DEF Rename, Goto, PC
<1>9. ASSUME NEW p \in Proc, SaveFails(p) PROVE TypeOK'
  <2>1. conv[p] \in Conv
      OBVIOUS
  <2>2. tmp' \in Files
      BY <1>9, <2>1 DEF SaveFails, Files
  <2> QED
      BY <1>9, <2>2, ReturnType DEF SaveFails
<1>10. ASSUME NEW p \in Proc, ListTmp(p) PROVE TypeOK'
  <2>1. entries' \in [Proc -> SUBSET Entry]
      BY <1>10, ListType DEF ListTmp
  <2> QED
      BY <1>10, <2>1 DEF ListTmp, Goto, PC
<1>11. ASSUME NEW p \in Proc, UnlinkTmp(p) PROVE TypeOK'
  <2>1. PICK e \in entries[p] :
            /\ tmp' = [tmp EXCEPT ![e.conv] = NoFile]
            /\ entries' = [entries EXCEPT ![p] = @ \ {e}]
      BY <1>11 DEF UnlinkTmp
  <2>2. tmp' \in Files
      BY <2>1 DEF Files
  <2>3. entries' \in [Proc -> SUBSET Entry]
      BY <2>1
  <2> QED
      BY <1>11, <2>2, <2>3 DEF UnlinkTmp
<1>12. ASSUME NEW p \in Proc,
              CleanupDone(p) \/ BudgetDone(p)
       PROVE  TypeOK'
    BY <1>12 DEF CleanupDone, BudgetDone, Goto, PC
<1>13. ASSUME NEW p \in Proc, ListBin(p) PROVE TypeOK'
  <2>1. /\ entries' \in [Proc -> SUBSET Entry]
        /\ counted' \in [Proc -> SUBSET Entry]
      BY <1>13, ListType DEF ListBin
  <2> QED
      BY <1>13, <2>1 DEF ListBin, Goto, PC
<1>14. ASSUME NEW p \in Proc, EvictOldest(p) PROVE TypeOK'
  <2>1. PICK e \in Oldest(entries[p]) :
            /\ entries' = [entries EXCEPT ![p] = @ \ {e}]
            /\ IF e.conv = conv[p] \/ bin[e.conv] = NoFile
               THEN UNCHANGED <<bin, counted>>
               ELSE /\ bin' = [bin EXCEPT ![e.conv] = NoFile]
                    /\ counted' = [counted EXCEPT ![p] = @ \ {e}]
      BY <1>14 DEF EvictOldest
  <2>2. bin' \in Files
      BY <2>1 DEF Files
  <2>3. /\ entries' \in [Proc -> SUBSET Entry]
        /\ counted' \in [Proc -> SUBSET Entry]
      BY <2>1
  <2> QED
      BY <1>14, <2>2, <2>3 DEF EvictOldest
<1>15. ASSUME NEW p \in Proc, SaveReturns(p) PROVE TypeOK'
    BY <1>15, ReturnType DEF SaveReturns
<1>16. ASSUME NEW p \in Proc, NEW c \in Conv, PeekHeader(p, c) PROVE TypeOK'
  <2>1. Accepted(bin[c]) => bin[c].val \in Payload
      BY DEF Accepted, Files, File
  <2> QED
      BY <1>16, <2>1 DEF PeekHeader, Goto, PC
<1>17. ASSUME NEW p \in Proc, Load(p) PROVE TypeOK'
  <2>1. conv[p] \in Conv
      OBVIOUS
  <2>2. Accepted(bin[conv[p]])
          => Content(bin[conv[p]]) \in Payload \cup {Garbage}
      BY <2>1 DEF Accepted, Content, Files, File
  <2>3. \/ got' = [got EXCEPT ![p] = None]
        \/ /\ Accepted(bin[conv[p]])
           /\ got' = [got EXCEPT ![p] = <<conv[p], Content(bin[conv[p]])>>]
      BY <1>17 DEF Load, Usable
  <2>4. got' \in [Proc -> (Conv \X (Payload \cup {Garbage})) \cup {None}]
      BY <2>1, <2>2, <2>3
  <2> QED
      BY <1>17, <2>4, ReturnType DEF Load
<1>18. CASE Tick
    BY <1>18, ConstAssumption DEF Tick, Time
<1>19. ASSUME NEW c \in Conv, Writeback(c) PROVE TypeOK'
    BY <1>19 DEF Writeback, Files
<1>20. ASSUME NEW p \in Proc, Crash(p) PROVE TypeOK'
    BY <1>20, ReturnType DEF Crash
<1>21. CASE PowerLoss
  <2>1. bin' \in Files /\ tmp' \in Files
    <3>1. \A c \in Conv : bin'[c] \in File \cup {NoFile}
        BY <1>21, RemainsType DEF PowerLoss, Files
    <3>2. \A c \in Conv : tmp'[c] \in File \cup {NoFile}
        BY <1>21, RemainsType DEF PowerLoss, Files
    <3> QED
        BY <1>21, <3>1, <3>2 DEF PowerLoss, Files
  <2> QED
      BY <1>21, <2>1, AnyType, ZeroTime DEF PowerLoss, PC
<1>22. CASE UNCHANGED vars
    BY <1>22 DEF vars
<1> QED
    BY <1>1, <1>2, <1>3, <1>4, <1>5, <1>6, <1>7, <1>8, <1>9, <1>10, <1>11,
       <1>12, <1>13, <1>14, <1>15, <1>16, <1>17, <1>18, <1>19, <1>20, <1>21,
       <1>22 DEF Next, Save, Sweep, Environment

\* The variables keep their types in every behaviour.
THEOREM TypeCorrect == Spec => []TypeOK
BY TypeInit, TypeStep, PTL DEF Spec

-----------------------------------------------------------------------------
(* A .bin is always one whole, durable payload.                            *)

LEMMA FullLenType ==
    ASSUME NEW v \in Payload
    PROVE  /\ TokUnits[v] \in Nat /\ BodyUnits[v] \in Nat
           /\ FullLen(v) = 1 + TokUnits[v] + BodyUnits[v]
BY ConstAssumption DEF FullLen, HeaderUnits

\* A process that does not move, and whose .tmp nobody rewrites, stays as it
\* was; that another process removes its .tmp does no harm.
LEMMA Bystander ==
    ASSUME NEW q \in Proc, WriterOK(q), conv[q] \in Conv,
           pc'[q] = pc[q], conv'[q] = conv[q], val'[q] = val[q],
           len'[q] = len[q],
           \/ pc[q] \notin Saving \ {"open"}
           \/ tmp'[conv[q]] = tmp[conv[q]]
           \/ tmp'[conv[q]] = NoFile
    PROVE  WriterOK(q)'
BY DEF WriterOK, Prefixed, Saving

\* A process outside save_kv_to_file has nothing to keep.
LEMMA Outsider ==
    ASSUME NEW q \in Proc, pc'[q] \notin Saving
    PROVE  WriterOK(q)'
BY DEF WriterOK, Saving

\* Two processes never have the same .tmp open: a conversation has one owner.
LEMMA OwnTmp ==
    ASSUME NEW p \in Proc, NEW q \in Proc, p # q,
           WriterOK(p), WriterOK(q), pc[p] \in Saving, pc[q] \in Saving
    PROVE  conv[p] # conv[q]
BY DEF WriterOK

LEMMA ReturnInv ==
    ASSUME TypeOK, TmpIsPrefix, NEW p \in Proc, Return(p),
           \A q \in Proc \ {p} : pc[q] \in Saving \ {"open"} =>
               tmp'[conv[q]] \in {tmp[conv[q]], NoFile}
    PROVE  TmpIsPrefix'
<1> SUFFICES ASSUME NEW q \in Proc PROVE WriterOK(q)'
    BY DEF TmpIsPrefix
<1>1. CASE q = p
    BY <1>1, Outsider DEF Return, Goto, TypeOK, Saving
<1>2. CASE q # p
  <2>1. /\ pc'[q] = pc[q] /\ conv'[q] = conv[q] /\ val'[q] = val[q]
        /\ len'[q] = len[q] /\ conv[q] \in Conv /\ WriterOK(q)
      BY <1>2 DEF Return, Goto, TypeOK, TmpIsPrefix
  <2> QED
      BY <1>2, <2>1, Bystander
<1> QED
    BY <1>1, <1>2

\* The write(2) of a process: its own .tmp grows by what it wrote, and the
\* others' are not touched.
LEMMA WriteInv ==
    ASSUME TypeOK, TmpIsPrefix, NEW p \in Proc, NEW n \in Nat,
           WriteSome(p, n), pc[p] \in {"header", "tokens", "body"},
           \A q \in Proc \ {p} : pc'[q] = pc[q],
           \/ pc'[p] = "tokens" /\ len[p] + n <= HeaderUnits + TokUnits[val[p]]
           \/ pc'[p] = "body" /\ len[p] + n <= FullLen(val[p])
    PROVE  TmpIsPrefix'
<1> SUFFICES ASSUME NEW q \in Proc PROVE WriterOK(q)'
    BY DEF TmpIsPrefix
<1>1. /\ conv[p] \in Conv /\ conv[q] \in Conv /\ val[p] \in Payload
      /\ len[p] \in Nat /\ WriterOK(p) /\ WriterOK(q)
      /\ conv' = conv /\ val' = val
    BY DEF TypeOK, TmpIsPrefix, WriteSome
<1>2. CASE q = p
  <2>1. len'[p] = len[p] + n
      BY DEF TypeOK, WriteSome
  <2>2. Owner[conv[p]] = p
      BY <1>1 DEF WriterOK, Saving
  <2>3. ASSUME tmp'[conv[p]] # NoFile
        PROVE  /\ tmp'[conv[p]].val = val[p] /\ tmp'[conv[p]].len = len[p] + n
               /\ tmp'[conv[p]].torn = "no"
    <3>1. tmp[conv[p]] # NoFile
        BY <1>1, <2>3 DEF WriteSome, TypeOK, Files
    <3>2. tmp[conv[p]] \in File
        BY <1>1, <3>1 DEF TypeOK, Files
    <3>3. tmp[conv[p]].val = val[p] /\ tmp[conv[p]].torn = "no"
        BY <1>1, <3>1 DEF WriterOK, Prefixed, Saving
    <3>4. tmp'[conv[p]] =
            [tmp[conv[p]] EXCEPT !.len = len[p] + n, !.mtime = now]
        BY <1>1, <3>1 DEF WriteSome, TypeOK, Files
    <3> QED
        BY <3>2, <3>3, <3>4 DEF File
  <2> QED
      BY <1>1, <1>2, <2>1, <2>2, <2>3 DEF WriterOK, Prefixed, Saving
<1>3. CASE q # p
  <2>1. len'[q] = len[q] /\ pc'[q] = pc[q]
      BY <1>3 DEF TypeOK, WriteSome
  <2>2. pc[q] \in Saving => tmp'[conv[q]] = tmp[conv[q]]
      BY <1>1, <1>3, OwnTmp DEF WriteSome, TypeOK, Files, Saving
  <2> QED
      BY <1>1, <2>1, <2>2, Bystander
<1> QED
    BY <1>2, <1>3

LEMMA InvInit == Init => Inv
BY DEF Init, Inv, BinIntact, TmpIsPrefix, WriterOK, Saving

\* When no .bin changes, or some are removed, what is there stays intact.
LEMMA BinKept ==
    ASSUME TypeOK, BinIntact,
           \A c \in Conv : /\ bin'[c] \in {bin[c], NoFile}
                           /\ durable'[c] \in {durable[c], bin[c], NoFile}
    PROVE  BinIntact'
BY DEF BinIntact

\* Every action keeps the invariant.
LEMMA InvStep == TypeOK /\ Inv /\ [Next]_vars => Inv'
<1> SUFFICES ASSUME TypeOK, BinIntact, TmpIsPrefix, [Next]_vars
             PROVE  BinIntact' /\ TmpIsPrefix'
    BY DEF Inv
<1> USE DEF disk, work
<1>0. \A q \in Proc : /\ WriterOK(q) /\ conv[q] \in Conv /\ val[q] \in Payload
                      /\ len[q] \in Nat /\ pc[q] \in PC
    BY DEF TypeOK, TmpIsPrefix
<1>1. ASSUME NEW p \in Proc, NEW c \in Conv, NEW v \in Payload,
             StartSave(p, c, v)
      PROVE  BinIntact' /\ TmpIsPrefix'
  <2>1. WriterOK(p)'
      BY <1>1 DEF StartSave, Goto, WriterOK, TypeOK, Saving
  <2>2. ASSUME NEW q \in Proc, q # p PROVE WriterOK(q)'
      BY <1>0, <1>1, <2>2, Bystander DEF StartSave, Goto, TypeOK
  <2> QED
      BY <1>1, <2>1, <2>2, BinKept DEF StartSave, TmpIsPrefix
<1>2. ASSUME NEW p \in Proc, OpenTmp(p) PROVE BinIntact' /\ TmpIsPrefix'
  <2>1. WriterOK(p)'
    <3>1. /\ tmp'[conv[p]].val = val[p] /\ tmp'[conv[p]].len = 0
          /\ tmp'[conv[p]].torn = "no"
        BY <1>0, <1>2 DEF OpenTmp, TypeOK, Files
    <3>2. len[p] = 0
        BY <1>0, <1>2 DEF OpenTmp, WriterOK
    <3> QED
        BY <1>0, <1>2, <3>1, <3>2 DEF OpenTmp, Goto, WriterOK, Prefixed, TypeOK, Saving
  <2>2. ASSUME NEW q \in Proc, q # p PROVE WriterOK(q)'
    <3>1. pc[q] \in Saving => tmp'[conv[q]] = tmp[conv[q]]
        BY <1>0, <1>2, <2>2, OwnTmp DEF OpenTmp, TypeOK, Files, Saving
    <3> QED
        BY <1>0, <1>2, <2>2, <3>1, Bystander DEF OpenTmp, Goto, TypeOK
  <2> QED
      BY <1>2, <2>1, <2>2, BinKept DEF OpenTmp, TmpIsPrefix
<1>3. ASSUME NEW p \in Proc, WriteHeader(p) PROVE BinIntact' /\ TmpIsPrefix'
  <2>1. len[p] = 0 /\ TokUnits[val[p]] \in Nat
      BY <1>0, <1>3, FullLenType DEF WriteHeader, WriterOK
  <2>2. len[p] + HeaderUnits <= HeaderUnits + TokUnits[val[p]]
      BY <2>1 DEF HeaderUnits
  <2>3. pc'[p] = "tokens" /\ \A q \in Proc \ {p} : pc'[q] = pc[q]
      BY <1>3 DEF WriteHeader, Goto, TypeOK
  <2> QED
      BY <1>3, <2>2, <2>3, WriteInv, BinKept
      DEF WriteHeader, WriteSome, HeaderUnits
<1>4. ASSUME NEW p \in Proc, WriteTokens(p) PROVE BinIntact' /\ TmpIsPrefix'
  <2>1. PICK n \in 1..(HeaderUnits + TokUnits[val[p]] - len[p]) :
            WriteSome(p, n)
      BY <1>4 DEF WriteTokens
  <2>2. n \in Nat /\ len[p] + n <= HeaderUnits + TokUnits[val[p]]
      BY <1>0, FullLenType DEF HeaderUnits
  <2> QED
      BY <1>4, <2>1, <2>2, WriteInv, BinKept DEF WriteTokens, WriteSome
<1>5. ASSUME NEW p \in Proc, WriteBody(p) PROVE BinIntact' /\ TmpIsPrefix'
  <2>1. PICK n \in 1..(FullLen(val[p]) - len[p]) : WriteSome(p, n)
      BY <1>5 DEF WriteBody
  <2>2. n \in Nat /\ len[p] + n <= FullLen(val[p])
      BY <1>0, FullLenType
  <2> QED
      BY <1>5, <2>1, <2>2, WriteInv, BinKept DEF WriteBody, WriteSome
<1>6. ASSUME NEW p \in Proc, TokensWritten(p) \/ BodyWritten(p)
      PROVE  BinIntact' /\ TmpIsPrefix'
  <2>1. WriterOK(p)'
      BY <1>0, <1>6, FullLenType
      DEF TokensWritten, BodyWritten, Goto, WriterOK, Prefixed, TypeOK, Saving,
          HeaderUnits
  <2>2. ASSUME NEW q \in Proc, q # p PROVE WriterOK(q)'
      BY <1>0, <1>6, <2>2, Bystander DEF TokensWritten, BodyWritten, Goto, TypeOK
  <2> QED
      BY <1>6, <2>1, <2>2, BinKept DEF TokensWritten, BodyWritten, TmpIsPrefix
<1>7. ASSUME NEW p \in Proc, Fsync(p) PROVE BinIntact' /\ TmpIsPrefix'
  <2>1. WriterOK(p)'
    <3>1. CASE tmp[conv[p]] = NoFile
        BY <1>0, <1>7, <3>1 DEF Fsync, Goto, WriterOK, TypeOK, Saving
    <3>2. CASE tmp[conv[p]] # NoFile
      <4>1. tmp[conv[p]] \in File
          BY <1>0, <3>2 DEF TypeOK, Files
      <4>2. tmp'[conv[p]] = [tmp[conv[p]] EXCEPT !.synced = TRUE]
          BY <1>0, <1>7, <3>2 DEF Fsync, TypeOK, Files
      <4>3. tmp[conv[p]].val = val[p] /\ tmp[conv[p]].len = len[p]
            /\ tmp[conv[p]].torn = "no"
          BY <1>0, <1>7, <3>2 DEF Fsync, WriterOK, Prefixed, Saving
      <4>4. tmp'[conv[p]].val = val[p] /\ tmp'[conv[p]].len = len[p]
            /\ tmp'[conv[p]].torn = "no" /\ tmp'[conv[p]].synced
          BY <4>1, <4>2, <4>3 DEF File
      <4> QED
          BY <1>0, <1>7, <4>4 DEF Fsync, Goto, WriterOK, Prefixed, TypeOK, Saving
    <3> QED
        BY <3>1, <3>2
  <2>2. ASSUME NEW q \in Proc, q # p PROVE WriterOK(q)'
    <3>1. pc[q] \in Saving => tmp'[conv[q]] = tmp[conv[q]]
        BY <1>0, <1>7, <2>2, OwnTmp DEF Fsync, TypeOK, Files, Saving
    <3> QED
        BY <1>0, <1>7, <2>2, <3>1, Bystander DEF Fsync, Goto, TypeOK
  <2> QED
      BY <1>7, <2>1, <2>2, BinKept DEF Fsync, TmpIsPrefix
<1>8. ASSUME NEW p \in Proc, Rename(p) PROVE BinIntact' /\ TmpIsPrefix'
  <2>1. Intact(tmp[conv[p]])
      BY <1>0, <1>8 DEF Rename, WriterOK, Prefixed, Intact, Saving
  <2>2. BinIntact'
      BY <1>0, <1>8, <2>1 DEF Rename, BinIntact, TypeOK, Files
  <2>3. WriterOK(p)'
      BY <1>8, Outsider DEF Rename, Goto, TypeOK, Saving
  <2>4. ASSUME NEW q \in Proc, q # p PROVE WriterOK(q)'
    <3>1. tmp'[conv[q]] \in {tmp[conv[q]], NoFile}
        BY <1>0, <1>8 DEF Rename, TypeOK, Files
    <3> QED
        BY <1>0, <1>8, <2>4, <3>1, Bystander DEF Rename, Goto, TypeOK
  <2> QED
      BY <2>2, <2>3, <2>4 DEF TmpIsPrefix
<1>9. ASSUME NEW p \in Proc, SaveFails(p) PROVE BinIntact' /\ TmpIsPrefix'
  <2>1. \A q \in Proc : tmp'[conv[q]] \in {tmp[conv[q]], NoFile}
      BY <1>0, <1>9 DEF SaveFails, TypeOK, Files
  <2> QED
      BY <1>9, <2>1, ReturnInv, BinKept DEF SaveFails
<1>10. ASSUME NEW p \in Proc,
              \/ ListTmp(p) \/ CleanupDone(p) \/ ListBin(p) \/ BudgetDone(p)
       PROVE  BinIntact' /\ TmpIsPrefix'
  <2>1. WriterOK(p)'
      BY <1>10, Outsider
      DEF ListTmp, CleanupDone, ListBin, BudgetDone, Goto, TypeOK, Saving
  <2>2. ASSUME NEW q \in Proc, q # p PROVE WriterOK(q)'
      BY <1>0, <1>10, <2>2, Bystander
      DEF ListTmp, CleanupDone, ListBin, BudgetDone, Goto, TypeOK
  <2> QED
      BY <1>10, <2>1, <2>2, BinKept
      DEF ListTmp, CleanupDone, ListBin, BudgetDone, TmpIsPrefix
<1>11. ASSUME NEW p \in Proc, UnlinkTmp(p) PROVE BinIntact' /\ TmpIsPrefix'
  <2>1. \A q \in Proc : tmp'[conv[q]] \in {tmp[conv[q]], NoFile}
      BY <1>0, <1>11 DEF UnlinkTmp, TypeOK, Files
  <2>2. ASSUME NEW q \in Proc PROVE WriterOK(q)'
      BY <1>0, <1>11, <2>1, Bystander DEF UnlinkTmp
  <2> QED
      BY <1>11, <2>2, BinKept DEF UnlinkTmp, TmpIsPrefix
<1>12. ASSUME NEW p \in Proc, EvictOldest(p) PROVE BinIntact' /\ TmpIsPrefix'
  <2>1. \A c \in Conv : bin'[c] \in {bin[c], NoFile}
      BY <1>12 DEF EvictOldest, TypeOK, Files
  <2>2. ASSUME NEW q \in Proc PROVE WriterOK(q)'
      BY <1>0, <1>12, Bystander DEF EvictOldest
  <2> QED
      BY <1>12, <2>1, <2>2, BinKept DEF EvictOldest, TmpIsPrefix
<1>13. ASSUME NEW p \in Proc, SaveReturns(p) \/ Load(p) \/ Crash(p)
       PROVE  BinIntact' /\ TmpIsPrefix'
  <2>1. Return(p) /\ UNCHANGED <<bin, tmp, durable>>
      BY <1>13 DEF SaveReturns, Load, Crash
  <2> QED
      BY <2>1, ReturnInv, BinKept
<1>14. ASSUME NEW p \in Proc, NEW c \in Conv, PeekHeader(p, c)
       PROVE  BinIntact' /\ TmpIsPrefix'
  <2>1. WriterOK(p)'
      BY <1>14, Outsider DEF PeekHeader, Goto, TypeOK, Saving
  <2>2. ASSUME NEW q \in Proc, q # p PROVE WriterOK(q)'
      BY <1>0, <1>14, <2>2, Bystander DEF PeekHeader, Goto, TypeOK
  <2> QED
      BY <1>14, <2>1, <2>2, BinKept DEF PeekHeader, TmpIsPrefix
<1>15. ASSUME Tick \/ \E c \in Conv : Writeback(c)
       PROVE  BinIntact' /\ TmpIsPrefix'
  <2>1. UNCHANGED <<bin, tmp, pc, work>>
        /\ \A c \in Conv : durable'[c] \in {durable[c], bin[c]}
      BY <1>15 DEF Tick, Writeback, TypeOK, Files
  <2>2. ASSUME NEW q \in Proc PROVE WriterOK(q)'
      BY <1>0, <2>1, Bystander
  <2> QED
      BY <2>1, <2>2, BinKept DEF TmpIsPrefix
<1>16. CASE PowerLoss
  <2>1. \A c \in Conv : bin'[c] = durable[c] /\ durable'[c] = durable[c]
    <3> SUFFICES ASSUME NEW c \in Conv
                 PROVE  bin'[c] = durable[c] /\ durable'[c] = durable[c]
        OBVIOUS
    <3>1. bin'[c] \in Remains(durable[c]) /\ durable' = bin'
        BY <1>16 DEF PowerLoss
    <3>2. Remains(durable[c]) = {durable[c]}
        BY DEF BinIntact, Intact, Remains
    <3> QED
        BY <3>1, <3>2
  <2>2. BinIntact'
      BY <2>1 DEF BinIntact
  <2>3. ASSUME NEW q \in Proc PROVE WriterOK(q)'
      BY <1>16, Outsider DEF PowerLoss, Saving
  <2> QED
      BY <2>2, <2>3 DEF TmpIsPrefix
<1>17. CASE UNCHANGED vars
  <2>1. ASSUME NEW q \in Proc PROVE WriterOK(q)'
      BY <1>0, <1>17, Bystander DEF vars
  <2> QED
      BY <1>17, <2>1, BinKept DEF vars, TmpIsPrefix
<1> QED
    BY <1>1, <1>2, <1>3, <1>4, <1>5, <1>6, <1>7, <1>8, <1>9, <1>10, <1>11,
       <1>12, <1>13, <1>14, <1>15, <1>16, <1>17
    DEF Next, Save, Sweep, Environment

LEMMA InvHolds == Spec => []Inv
BY TypeCorrect, InvInit, InvStep, PTL DEF Spec

\* A saved conversation is one whole payload, fsynced, at every moment:
\* whatever crashes, power losses, short writes and failing calls there are.
THEOREM FilesIntact == Spec => []BinIntact
<1>1. Inv => BinIntact
    BY DEF Inv
<1> QED
    BY <1>1, InvHolds, PTL

-----------------------------------------------------------------------------
(* The directory implements the abstract store.                            *)

LEMMA StoreInit == Init => Store!Init
BY DEF Init, Store!Init, Abs

\* Every step of the directory is a step of the store or leaves it alone.
LEMMA StoreStep ==
    TypeOK /\ Inv /\ [Next]_vars => [Store!Next]_Store!vars
<1> SUFFICES ASSUME TypeOK, BinIntact, TmpIsPrefix, [Next]_vars
             PROVE  [Store!Next]_Store!vars
    BY DEF Inv
<1> USE DEF disk, work
<1>0. \A p \in Proc : conv[p] \in Conv /\ WriterOK(p)
    BY DEF TypeOK, TmpIsPrefix
<1>1. ASSUME UNCHANGED <<bin, durable, got>> PROVE [Store!Next]_Store!vars
    BY <1>1 DEF Store!vars, Abs
<1>2. ASSUME NEW p \in Proc, Rename(p) PROVE Store!Next
  <2> DEFINE c == conv[p]
             f == tmp[c]
  <2>1. c \in Conv /\ f \in File
      BY <1>0, <1>2 DEF Rename, TypeOK, Files
  <2>2. Content(f) = f.val /\ f.val \in Payload
      BY <1>0, <1>2, <2>1 DEF Rename, WriterOK, Prefixed, Saving, Content, File
  <2>3. f # NoFile /\ bin' = [bin EXCEPT ![c] = f]
        /\ UNCHANGED <<durable, got>>
      BY <1>2 DEF Rename
  <2> HIDE DEF c, f
  <2>4. Abs(bin)' = [Abs(bin) EXCEPT ![c] = f.val]
      BY <2>1, <2>2, <2>3 DEF TypeOK, Files, Abs
  <2>5. Store!Put(c, f.val)
      BY <2>3, <2>4 DEF Store!Put, Abs
  <2> QED
      BY <2>1, <2>2, <2>5 DEF Store!Next
<1>3. ASSUME NEW p \in Proc, EvictOldest(p) PROVE [Store!Next]_Store!vars
  <2>1. PICK e \in entries[p] :
            IF e.conv = conv[p] \/ bin[e.conv] = NoFile
            THEN UNCHANGED bin
            ELSE bin' = [bin EXCEPT ![e.conv] = NoFile]
      BY <1>3 DEF EvictOldest, Oldest
  <2>2. UNCHANGED <<durable, got>>
      BY <1>3 DEF EvictOldest
  <2>3. CASE UNCHANGED bin
      BY <1>1, <2>2, <2>3
  <2>4. CASE bin' = [bin EXCEPT ![e.conv] = NoFile]
    <3>1. e.conv \in Conv
        BY DEF TypeOK, Entry
    <3>2. Abs(bin)' = [Abs(bin) EXCEPT ![e.conv] = None]
        BY <2>4, <3>1 DEF TypeOK, Files, Abs
    <3>3. Store!Drop(e.conv)
        BY <2>2, <3>2 DEF Store!Drop, Abs
    <3> QED
        BY <3>1, <3>3 DEF Store!Next
  <2> QED
      BY <2>1, <2>3, <2>4
<1>4. ASSUME NEW p \in Proc, Crash(p) \/ \E c \in Conv : PeekHeader(p, c)
      PROVE  Store!Next
  <2>1. got' = [got EXCEPT ![p] = None] /\ UNCHANGED <<bin, durable>>
      BY <1>4 DEF Crash, PeekHeader
  <2>2. Store!Forget(p)
      BY <2>1 DEF Store!Forget, Abs
  <2> QED
      BY <2>2 DEF Store!Next
<1>5. ASSUME NEW p \in Proc, Load(p) PROVE Store!Next
  <2> DEFINE c == conv[p]
  <2>1. c \in Conv
      BY <1>0
  <2>2. UNCHANGED <<bin, durable>>
      BY <1>5 DEF Load
  <2>3. \/ got' = [got EXCEPT ![p] = None]
        \/ /\ Accepted(bin[c])
           /\ got' = [got EXCEPT ![p] = <<c, Content(bin[c])>>]
      BY <1>5 DEF Load, Usable
  <2>4. Accepted(bin[c]) => /\ Abs(bin)[c] = Content(bin[c])
                            /\ Content(bin[c]) # None
      BY <2>1, ConstAssumption DEF Accepted, Abs, Content, TypeOK, Files, File
  <2>5. Store!Read(p, c)
      BY <2>2, <2>3, <2>4 DEF Store!Read, Abs
  <2> QED
      BY <2>1, <2>5 DEF Store!Next
<1>6. ASSUME NEW c \in Conv, Writeback(c) PROVE Store!Next
  <2>1. durable' = [durable EXCEPT ![c] = bin[c]] /\ UNCHANGED <<bin, got>>
      BY <1>6 DEF Writeback
  <2>2. Abs(durable)' = [Abs(durable) EXCEPT ![c] = Abs(bin)[c]]
      BY <2>1 DEF TypeOK, Files, Abs
  <2>3. Store!Sync(c)
      BY <2>1, <2>2 DEF Store!Sync, Abs
  <2> QED
      BY <2>3 DEF Store!Next
<1>7. CASE PowerLoss
  <2>1. \A c \in Conv : bin'[c] = durable[c]
    <3> SUFFICES ASSUME NEW c \in Conv PROVE bin'[c] = durable[c]
        OBVIOUS
    <3>1. bin'[c] \in Remains(durable[c])
        BY <1>7 DEF PowerLoss
    <3>2. Remains(durable[c]) = {durable[c]}
        BY DEF BinIntact, Intact, Remains
    <3> QED
        BY <3>1, <3>2
  <2>2. /\ Abs(bin)' = Abs(durable) /\ Abs(durable)' = Abs(durable)
        /\ got' = [p \in Proc |-> None]
      BY <1>7, <2>1 DEF PowerLoss, Abs
  <2>3. Store!PowerLoss
      BY <2>2 DEF Store!PowerLoss
  <2> QED
      BY <2>3 DEF Store!Next
<1>8. ASSUME NEW p \in Proc,
             \/ \E c \in Conv, v \in Payload : StartSave(p, c, v)
             \/ OpenTmp(p) \/ WriteHeader(p) \/ WriteTokens(p)
             \/ TokensWritten(p) \/ WriteBody(p) \/ BodyWritten(p) \/ Fsync(p)
             \/ SaveFails(p) \/ ListTmp(p) \/ UnlinkTmp(p) \/ CleanupDone(p)
             \/ ListBin(p) \/ BudgetDone(p) \/ SaveReturns(p)
      PROVE  UNCHANGED <<bin, durable, got>>
    BY <1>8
    DEF StartSave, OpenTmp, WriteHeader, WriteTokens, TokensWritten, WriteBody,
        BodyWritten, Fsync, SaveFails, ListTmp, UnlinkTmp, CleanupDone,
        ListBin, BudgetDone, SaveReturns, WriteSome
<1>9. CASE Tick \/ UNCHANGED vars
    BY <1>1, <1>9 DEF Tick, vars
<1> QED
    BY <1>1, <1>2, <1>3, <1>4, <1>5, <1>6, <1>7, <1>8, <1>9
    DEF Next, Save, Sweep, Environment

\* The directory of files implements the atomic store, power losses included.
THEOREM ImplementsStore == Spec => StoreSpec
BY TypeCorrect, InvHolds, StoreInit, StoreStep, PTL DEF Spec, StoreSpec

-----------------------------------------------------------------------------
(* The sweep for stale .tmp files.                                         *)

Young(p, c) == tmp[c] # NoFile => at[p] - tmp[c].mtime < StaleAge

\* Since a process took the time, no .tmp has become stale by that time; the
\* ones that were are still on its list, or gone.
Swept(p) ==
    /\ pc[p] \in {"cleanup", "listbin", "evict", "saved"} => at[p] <= now
    /\ pc[p] = "cleanup" /\ StaleAge > 0 =>
         \A c \in Conv : Young(p, c) \/ \E e \in entries[p] : e.conv = c
    /\ pc[p] \in {"listbin", "evict", "saved"} /\ StaleAge > 0 =>
         \A c \in Conv : Young(p, c)

\* No .tmp gets older by anything but the passing of time.
TmpAges ==
    \A c \in Conv : tmp'[c] # NoFile =>
        \/ tmp[c] # NoFile /\ tmp'[c].mtime = tmp[c].mtime
        \/ tmp'[c].mtime = now

\* A process that is not sweeping.
LEMMA SweptOutside ==
    ASSUME NEW q \in Proc,
           pc'[q] \notin {"cleanup", "listbin", "evict", "saved"}
    PROVE  Swept(q)'
BY DEF Swept

\* A .tmp that was young stays young by the time already taken.
LEMMA YoungKept ==
    ASSUME TypeOK, NEW q \in Proc, NEW c \in Conv, Young(q, c), at[q] <= now,
           StaleAge > 0, at'[q] = at[q], TmpAges
    PROVE  Young(q, c)'
<1>1. at[q] \in Int /\ now \in Int /\ StaleAge \in Int
    BY ConstAssumption DEF TypeOK, Time
<1>2. CASE tmp'[c] = NoFile
    BY <1>2 DEF Young
<1>3. CASE tmp'[c] # NoFile
    BY <1>1, <1>3 DEF Young, TmpAges
<1> QED
    BY <1>2, <1>3

\* A process that is not at its sweep's own steps.
LEMMA SweptKept ==
    ASSUME TypeOK, NEW q \in Proc, Swept(q), pc'[q] = pc[q], at'[q] = at[q],
           entries'[q] = entries[q], now' \in Time, now <= now', TmpAges
    PROVE  Swept(q)'
<1>1. at[q] <= now => at[q] <= now'
    BY DEF TypeOK, Time
<1>2. ASSUME NEW c \in Conv, Young(q, c), StaleAge > 0, at[q] <= now
      PROVE  Young(q, c)'
    BY <1>2, YoungKept
<1> QED
    BY <1>1, <1>2 DEF Swept

\* A write or an fsync by p.
LEMMA WriteAges ==
    ASSUME TypeOK, NEW p \in Proc,
           \/ OpenTmp(p) \/ Fsync(p) \/ \E n \in Nat : WriteSome(p, n)
    PROVE  TmpAges
<1> SUFFICES ASSUME NEW c \in Conv, tmp'[c] # NoFile
             PROVE  \/ tmp[c] # NoFile /\ tmp'[c].mtime = tmp[c].mtime
                    \/ tmp'[c].mtime = now
    BY DEF TmpAges
<1>1. tmp \in Files /\ conv[p] \in Conv /\ tmp[c] \in File \cup {NoFile}
    BY DEF TypeOK, Files
<1>2. CASE c # conv[p]
  <2>1. tmp'[c] = tmp[c]
      BY <1>1, <1>2 DEF OpenTmp, Fsync, WriteSome, Files
  <2> QED
      BY <2>1
<1>3. CASE c = conv[p]
  <2>1. CASE OpenTmp(p)
      BY <1>1, <1>3, <2>1 DEF OpenTmp, Files
  <2>2. CASE Fsync(p)
      BY <1>1, <1>3, <2>2 DEF Fsync, Files, File
  <2>3. CASE \E n \in Nat : WriteSome(p, n)
      BY <1>1, <1>3, <2>3 DEF WriteSome, Files, File
  <2> QED
      BY <2>1, <2>2, <2>3
<1> QED
    BY <1>2, <1>3

\* Every step of any process keeps the account of every sweep.
LEMMA SweptStep ==
    TypeOK /\ (\A q \in Proc : Swept(q)) /\ [Next]_vars
      => \A q \in Proc : Swept(q)'
<1> SUFFICES ASSUME TypeOK, \A q \in Proc : Swept(q), [Next]_vars, NEW q \in Proc
             PROVE  Swept(q)'
    OBVIOUS
<1> USE DEF disk, work
<1>0. now \in Time /\ now <= now
    BY DEF TypeOK, Time
\* The steps of another process leave q's sweep alone if they keep TmpAges.
<1>1. ASSUME NEW p \in Proc, p # q, TmpAges, now' = now,
             pc'[q] = pc[q], at'[q] = at[q], entries'[q] = entries[q]
      PROVE  Swept(q)'
    BY <1>0, <1>1, SweptKept
<1>2. UNCHANGED tmp => TmpAges
    BY DEF TmpAges
<1>3. ASSUME NEW p \in Proc, Return(p), now' = now, TmpAges PROVE Swept(q)'
  <2>1. CASE p = q
      BY <1>3, <2>1, SweptOutside DEF Return, Goto, TypeOK
  <2>2. CASE p # q
    <3>1. pc'[q] = pc[q] /\ at'[q] = at[q] /\ entries'[q] = entries[q]
        BY <1>3, <2>2 DEF Return, Goto, TypeOK
    <3> QED
        BY <1>1, <1>3, <2>2, <3>1
  <2> QED
      BY <2>1, <2>2
\* What happens before the sweep.
<1>4. ASSUME NEW p \in Proc, now' = now, TmpAges, UNCHANGED <<entries, at>>,
             \A r \in Proc \ {p} : pc'[r] = pc[r],
             pc'[p] \notin {"cleanup", "listbin", "evict", "saved"}
      PROVE  Swept(q)'
    BY <1>0, <1>4, SweptKept, SweptOutside
<1>5. ASSUME NEW p \in Proc, NEW c \in Conv, PeekHeader(p, c) PROVE Swept(q)'
  <2>1. /\ now' = now /\ UNCHANGED <<tmp, entries, at>>
        /\ \A r \in Proc \ {p} : pc'[r] = pc[r]
        /\ pc'[p] \in {"idle", "load"}
      BY <1>5 DEF PeekHeader, Goto, TypeOK
  <2> QED
      BY <1>2, <1>4, <2>1
<1>6. ASSUME NEW p \in Proc, NEW c \in Conv, NEW v \in Payload,
             StartSave(p, c, v)
      PROVE  Swept(q)'
  <2>1. /\ now' = now /\ UNCHANGED <<tmp, entries, at>>
        /\ \A r \in Proc \ {p} : pc'[r] = pc[r]
        /\ pc'[p] = "open"
      BY <1>6 DEF StartSave, Goto, TypeOK
  <2> QED
      BY <1>2, <1>4, <2>1
<1>7. ASSUME NEW p \in Proc, OpenTmp(p) \/ Fsync(p) PROVE Swept(q)'
  <2>1. /\ now' = now /\ UNCHANGED <<entries, at>>
        /\ \A r \in Proc \ {p} : pc'[r] = pc[r]
        /\ pc'[p] \in {"header", "rename"}
      BY <1>7 DEF OpenTmp, Fsync, Goto, TypeOK
  <2> QED
      BY <1>4, <1>7, <2>1, WriteAges
<1>8. ASSUME NEW p \in Proc, WriteHeader(p) \/ WriteTokens(p) \/ WriteBody(p)
      PROVE  Swept(q)'
  <2>1. \E n \in Nat : WriteSome(p, n)
    <3>1. 1 \in Nat /\ \A a \in Int : 1..a \subseteq Nat
        OBVIOUS
    <3>2. TokUnits[val[p]] \in Nat /\ FullLen(val[p]) \in Int /\ len[p] \in Nat
        BY FullLenType DEF TypeOK
    <3> QED
        BY <1>8, <3>1, <3>2 DEF WriteHeader, WriteTokens, WriteBody, HeaderUnits
  <2>2. now' = now /\ UNCHANGED <<entries, at>>
      BY <2>1 DEF WriteSome
  <2>3. /\ \A r \in Proc \ {p} : pc'[r] = pc[r]
        /\ pc'[p] \in {"tokens", "body"}
      BY <1>8 DEF WriteHeader, WriteTokens, WriteBody, Goto, TypeOK
  <2> QED
      BY <1>4, <2>1, <2>2, <2>3, WriteAges
<1>9. ASSUME NEW p \in Proc, TokensWritten(p) \/ BodyWritten(p) PROVE Swept(q)'
  <2>1. /\ now' = now /\ UNCHANGED <<tmp, entries, at>>
        /\ \A r \in Proc \ {p} : pc'[r] = pc[r]
        /\ pc'[p] \in {"body", "fsync"}
      BY <1>9 DEF TokensWritten, BodyWritten, Goto, TypeOK
  <2> QED
      BY <1>2, <1>4, <2>1
<1>10. ASSUME NEW p \in Proc, Rename(p) PROVE Swept(q)'
  <2>1. TmpAges
      BY <1>10 DEF Rename, TmpAges, TypeOK, Files
  <2>2. /\ now' = now /\ UNCHANGED <<entries, at>>
        /\ \A r \in Proc \ {p} : pc'[r] = pc[r]
        /\ pc'[p] = "listtmp"
      BY <1>10 DEF Rename, Goto, TypeOK
  <2> QED
      BY <1>4, <2>1, <2>2
<1>11. ASSUME NEW p \in Proc, SaveFails(p) \/ SaveReturns(p) \/ Load(p) \/ Crash(p)
       PROVE  Swept(q)'
  <2>1. TmpAges
      BY <1>11 DEF SaveFails, SaveReturns, Load, Crash, TmpAges, TypeOK, Files
  <2> QED
      BY <1>3, <1>11, <2>1 DEF SaveFails, SaveReturns, Load, Crash
<1>12. ASSUME NEW p \in Proc, ListTmp(p) PROVE Swept(q)'
  <2>1. /\ UNCHANGED <<now, tmp>> /\ pc'[p] = "cleanup" /\ at'[p] = now
        /\ entries'[p] = IF StaleAge = 0 THEN {}
                         ELSE {e \in list_kv_files(tmp) :
                                 now - e.mtime >= StaleAge}
        /\ \A r \in Proc \ {p} : pc'[r] = pc[r] /\ at'[r] = at[r]
                                 /\ entries'[r] = entries[r]
      BY <1>12 DEF ListTmp, Goto, TypeOK
  <2>2. CASE p # q
      BY <1>1, <1>2, <2>1, <2>2
  <2>3. CASE p = q
    <3>1. ASSUME NEW c \in Conv, StaleAge > 0, ~Young(q, c)'
          PROVE  \E e \in entries'[q] : e.conv = c
      <4>1. tmp[c] # NoFile /\ ~(now - tmp[c].mtime < StaleAge)
          BY <2>1, <2>3, <3>1 DEF Young
      <4>2. tmp[c].mtime \in Int /\ now \in Int /\ StaleAge \in Nat
          BY <4>1, ConstAssumption DEF TypeOK, Files, File, Time
      <4> DEFINE e == [conv |-> c, mtime |-> tmp[c].mtime, size |-> tmp[c].len]
      <4>3. e \in list_kv_files(tmp)
          BY <4>1 DEF list_kv_files
      <4>4. e.conv = c /\ e.mtime = tmp[c].mtime
          OBVIOUS
      <4> HIDE DEF e
      <4>5. e \in entries'[q]
        <5>1. now - e.mtime >= StaleAge /\ StaleAge # 0
            BY <3>1, <4>1, <4>2, <4>4
        <5> QED
            BY <2>1, <2>3, <4>3, <5>1
      <4> QED
          BY <4>4, <4>5
    <3>2. at'[q] <= now'
        BY <1>0, <2>1, <2>3
    <3> QED
        BY <2>1, <2>3, <3>1, <3>2 DEF Swept
  <2> QED
      BY <2>2, <2>3
<1>13. ASSUME NEW p \in Proc, UnlinkTmp(p) PROVE Swept(q)'
  <2>1. PICK e \in entries[p] :
            /\ tmp' = [tmp EXCEPT ![e.conv] = NoFile]
            /\ entries' = [entries EXCEPT ![p] = @ \ {e}]
      BY <1>13 DEF UnlinkTmp
  <2>2. UNCHANGED <<now, pc, at>> /\ pc[p] = "cleanup"
      BY <1>13 DEF UnlinkTmp
  <2>3. TmpAges
      BY <2>1 DEF TmpAges, TypeOK, Files
  <2>4. CASE p # q
    <3>1. entries'[q] = entries[q]
        BY <2>1, <2>4 DEF TypeOK
    <3> QED
        BY <1>1, <2>2, <2>3, <2>4, <3>1
  <2>5. CASE p = q
    <3>1. at[q] <= now
        BY <2>2, <2>5 DEF Swept
    <3>2. ASSUME NEW c \in Conv, StaleAge > 0
          PROVE  Young(q, c)' \/ \E d \in entries'[q] : d.conv = c
      <4>1. entries'[q] = entries[q] \ {e}
          BY <2>1, <2>5 DEF TypeOK
      <4>2. CASE c = e.conv
        <5>1. tmp'[c] = NoFile
            BY <2>1, <4>2 DEF TypeOK, Files
        <5> QED
            BY <5>1 DEF Young
      <4>3. CASE c # e.conv
        <5>1. Young(q, c) \/ \E d \in entries[q] : d.conv = c
            BY <2>2, <2>5, <3>2 DEF Swept
        <5>2. CASE Young(q, c)
            BY <2>2, <2>3, <3>1, <3>2, <5>2, YoungKept
        <5>3. CASE \E d \in entries[q] : d.conv = c
            BY <4>1, <4>3, <5>3
        <5> QED
            BY <5>1, <5>2, <5>3
      <4> QED
          BY <4>2, <4>3
    <3> QED
        BY <2>2, <2>5, <3>1, <3>2 DEF Swept
  <2> QED
      BY <2>4, <2>5
<1>14. ASSUME NEW p \in Proc, CleanupDone(p) PROVE Swept(q)'
  <2>1. /\ UNCHANGED <<now, tmp, at, entries>> /\ pc[p] = "cleanup"
        /\ entries[p] = {} /\ pc'[p] = "listbin"
        /\ \A r \in Proc \ {p} : pc'[r] = pc[r]
      BY <1>14 DEF CleanupDone, Goto, TypeOK
  <2>2. CASE p # q
      BY <1>1, <1>2, <2>1, <2>2
  <2>3. CASE p = q
      BY <2>1, <2>3 DEF Swept, Young
  <2> QED
      BY <2>2, <2>3
<1>15. ASSUME NEW p \in Proc, ListBin(p) \/ EvictOldest(p) \/ BudgetDone(p)
       PROVE  Swept(q)'
  <2>1. /\ UNCHANGED <<now, tmp, at>> /\ pc[p] \in {"listbin", "evict"}
        /\ pc'[p] \in {"evict", "saved"}
        /\ \A r \in Proc \ {p} : pc'[r] = pc[r] /\ entries'[r] = entries[r]
      BY <1>15 DEF ListBin, EvictOldest, BudgetDone, Goto, TypeOK
  <2>2. CASE p # q
      BY <1>1, <1>2, <2>1, <2>2
  <2>3. CASE p = q
      BY <2>1, <2>3 DEF Swept, Young
  <2> QED
      BY <2>2, <2>3
<1>16. CASE Tick
  <2>1. UNCHANGED <<tmp, pc, at, entries>> /\ now' \in Time /\ now <= now'
      BY <1>16, ConstAssumption DEF Tick, TypeOK, Time
  <2> QED
      BY <1>2, <2>1, SweptKept
<1>17. CASE PowerLoss
    BY <1>17, SweptOutside DEF PowerLoss
<1>18. ASSUME NEW c \in Conv, Writeback(c) PROVE Swept(q)'
    BY <1>0, <1>2, <1>18, SweptKept DEF Writeback
<1>19. CASE UNCHANGED vars
    BY <1>0, <1>2, <1>19, SweptKept DEF vars
<1> QED
    BY <1>5, <1>6, <1>7, <1>8, <1>9, <1>10, <1>11, <1>12, <1>13, <1>14, <1>15,
       <1>16, <1>17, <1>18, <1>19
    DEF Next, Save, Sweep, Environment

\* A .tmp left behind by a crash does not outlive the next successful save,
\* with any number of processes writing and sweeping at the same time.
THEOREM StaleTmpGone == Spec => []NoStaleTmp
<1> DEFINE AllSwept == \A q \in Proc : Swept(q)
<1>1. Init => AllSwept
    BY DEF Init, Swept
<1>2. TypeOK /\ AllSwept /\ [Next]_vars => AllSwept'
    BY SweptStep
<1>3. AllSwept => NoStaleTmp
    BY DEF Swept, Young, NoStaleTmp
<1> HIDE DEF AllSwept
<1> QED
    BY <1>1, <1>2, <1>3, TypeCorrect, PTL DEF Spec

-----------------------------------------------------------------------------
(* The disk budget, with one process serving the directory.                *)

OneProcess == \A p, q \in Proc : p = q

AfterRename == {"listtmp", "cleanup", "listbin", "evict", "saved"}

\* From the rename to the return the file just saved is there; while the
\* process evicts, its sum is of the directory as it is, and what it has gone
\* past without removing is the file just saved.
Evicting(p) ==
    /\ pc[p] \in AfterRename =>
         bin[conv[p]] # NoFile /\ bin[conv[p]].val = val[p]
    /\ pc[p] = "evict" /\ MaxBytes = 0 => entries[p] = {}
    /\ pc[p] = "evict" /\ MaxBytes > 0 =>
         /\ counted[p] = list_kv_files(bin)
         /\ entries[p] \subseteq counted[p]
         /\ \A e \in counted[p] \ entries[p] : e.conv = conv[p]
    /\ pc[p] = "saved" /\ MaxBytes > 0 =>
         \/ Total(list_kv_files(bin)) <= MaxBytes
         \/ \A c \in Conv : bin[c] # NoFile => c = conv[p]

\* What an entry of a listing says of its file.
LEMMA ListedEntry ==
    ASSUME NEW dir, NEW e \in list_kv_files(dir)
    PROVE  e.conv \in Conv /\ dir[e.conv] # NoFile
           /\ e.mtime = dir[e.conv].mtime /\ e.size = dir[e.conv].len
BY DEF list_kv_files

LEMMA FileListed ==
    ASSUME NEW dir, NEW c \in Conv, dir[c] # NoFile
    PROVE  \E e \in list_kv_files(dir) : e.conv = c
<1> DEFINE e == [conv |-> c, mtime |-> dir[c].mtime, size |-> dir[c].len]
<1>1. e \in list_kv_files(dir)
    BY DEF list_kv_files
<1>2. e.conv = c
    OBVIOUS
<1> QED
    BY <1>1, <1>2

\* Removing a file removes its entry from the listing and no other.
LEMMA ListingShrinks ==
    ASSUME NEW dir \in Files, NEW e \in list_kv_files(dir)
    PROVE  list_kv_files([dir EXCEPT ![e.conv] = NoFile])
             = list_kv_files(dir) \ {e}
<1> DEFINE next == [dir EXCEPT ![e.conv] = NoFile]
           E(c) == [conv |-> c, mtime |-> dir[c].mtime, size |-> dir[c].len]
<1>1. PICK d \in Conv : dir[d] # NoFile /\ e = E(d)
    BY DEF list_kv_files
<1>2. e.conv = d
    BY <1>1
<1>3. next[d] = NoFile /\ \A c \in Conv \ {d} : next[c] = dir[c]
    BY <1>2 DEF Files
<1> HIDE DEF next
<1>4. list_kv_files(next) \subseteq list_kv_files(dir)
    BY <1>3 DEF list_kv_files
<1>5. e \notin list_kv_files(next)
    BY <1>2, <1>3, ListedEntry
<1>6. ASSUME NEW f \in list_kv_files(dir), f # e PROVE f \in list_kv_files(next)
  <2>1. PICK c \in Conv : dir[c] # NoFile /\ f = E(c)
      BY DEF list_kv_files
  <2>2. c # d
      BY <1>1, <1>6, <2>1
  <2>3. next[c] = dir[c]
      BY <1>3, <2>2
  <2> QED
      BY <2>1, <2>3 DEF list_kv_files
<1>7. list_kv_files(next) = list_kv_files(dir) \ {e}
    BY <1>4, <1>5, <1>6
<1> QED
    BY <1>7 DEF next

\* A process outside the sweep has nothing to keep.
LEMMA EvictingOutside ==
    ASSUME NEW p \in Proc, pc'[p] \notin AfterRename
    PROVE  Evicting(p)'
BY DEF Evicting, AfterRename

LEMMA EvictingKept ==
    ASSUME NEW p \in Proc, Evicting(p),
           UNCHANGED <<bin, pc, conv, val, entries, counted>>
    PROVE  Evicting(p)'
BY DEF Evicting

\* The eviction of the oldest entry, or the step past the file just saved.
LEMMA EvictOne ==
    ASSUME TypeOK, NEW p \in Proc, Evicting(p), EvictOldest(p)
    PROVE  \E e \in Oldest(entries[p]) :
             /\ MaxBytes > 0 /\ e \in list_kv_files(bin)
             /\ counted[p] = list_kv_files(bin)
             /\ entries'[p] = entries[p] \ {e}
             /\ \/ e.conv = conv[p] /\ UNCHANGED <<bin, counted>>
                \/ /\ e.conv # conv[p]
                   /\ bin' = [bin EXCEPT ![e.conv] = NoFile]
                   /\ counted'[p] = counted[p] \ {e}
<1>1. PICK e \in Oldest(entries[p]) :
         /\ entries' = [entries EXCEPT ![p] = @ \ {e}]
         /\ IF e.conv = conv[p] \/ bin[e.conv] = NoFile
            THEN UNCHANGED <<bin, counted>>
            ELSE /\ bin' = [bin EXCEPT ![e.conv] = NoFile]
                 /\ counted' = [counted EXCEPT ![p] = @ \ {e}]
    BY DEF EvictOldest
<1>2. pc[p] = "evict" /\ e \in entries[p]
    BY DEF EvictOldest, Oldest
<1>3. MaxBytes > 0
    BY <1>2, ConstAssumption DEF Evicting
<1>4. counted[p] = list_kv_files(bin) /\ e \in list_kv_files(bin)
    BY <1>2, <1>3 DEF Evicting
<1>5. bin[e.conv] # NoFile
    BY <1>4, ListedEntry
<1>6. entries'[p] = entries[p] \ {e}
    BY <1>1 DEF TypeOK
<1>7. CASE e.conv = conv[p]
    BY <1>1, <1>3, <1>4, <1>6, <1>7
<1>8. CASE e.conv # conv[p]
  <2>1. bin' = [bin EXCEPT ![e.conv] = NoFile]
        /\ counted' = [counted EXCEPT ![p] = @ \ {e}]
      BY <1>1, <1>5, <1>8
  <2>2. counted'[p] = counted[p] \ {e}
      BY <2>1 DEF TypeOK
  <2> QED
      BY <1>1, <1>3, <1>4, <1>6, <1>8, <2>1, <2>2
<1> QED
    BY <1>7, <1>8

\* Every step keeps the account of the sweep, as long as no other process
\* changes the directory.
LEMMA EvictingStep ==
    ASSUME OneProcess, TypeOK, Inv, NEW q \in Proc, Evicting(q), [Next]_vars
    PROVE  Evicting(q)'
<1> USE DEF disk, work
<1>0. \A p \in Proc : p = q
    BY DEF OneProcess
<1>1. ASSUME pc'[q] \notin AfterRename PROVE Evicting(q)'
    BY <1>1, EvictingOutside
<1>2. ASSUME NEW p \in Proc,
             \/ \E c \in Conv : PeekHeader(p, c)
             \/ \E c \in Conv, v \in Payload : StartSave(p, c, v)
             \/ OpenTmp(p) \/ WriteHeader(p) \/ WriteTokens(p)
             \/ TokensWritten(p) \/ WriteBody(p) \/ BodyWritten(p) \/ Fsync(p)
      PROVE  Evicting(q)'
  <2>1. p = q
      BY <1>0
  <2>2. pc'[q] \in {"idle", "load", "open", "header", "tokens", "body", "fsync",
                    "rename"}
      BY <1>2, <2>1
      DEF PeekHeader, StartSave, OpenTmp, WriteHeader, WriteTokens, Goto,
          TokensWritten, WriteBody, BodyWritten, Fsync, TypeOK
  <2> QED
      BY <1>1, <2>2 DEF AfterRename
<1>3. ASSUME NEW p \in Proc, SaveFails(p) \/ SaveReturns(p) \/ Load(p) \/ Crash(p)
      PROVE  Evicting(q)'
  <2>1. p = q
      BY <1>0
  <2>2. pc'[q] = "idle"
      BY <1>3, <2>1 DEF SaveFails, SaveReturns, Load, Crash, Return, Goto, TypeOK
  <2> QED
      BY <1>1, <2>2 DEF AfterRename
<1>4. ASSUME NEW p \in Proc, Rename(p) PROVE Evicting(q)'
  <2>1. p = q
      BY <1>0
  <2>2. conv[q] \in Conv /\ tmp[conv[q]] # NoFile /\ tmp[conv[q]].val = val[q]
      BY <1>4, <2>1 DEF Rename, TypeOK, Inv, TmpIsPrefix, WriterOK, Prefixed, Saving
  <2>3. bin'[conv[q]] = tmp[conv[q]] /\ conv' = conv /\ val' = val
      BY <1>4, <2>1, <2>2 DEF Rename, TypeOK, Files
  <2>4. pc'[q] = "listtmp"
      BY <1>4, <2>1 DEF Rename, Goto, TypeOK
  <2> QED
      BY <2>2, <2>3, <2>4 DEF Evicting
<1>5. ASSUME NEW p \in Proc, ListTmp(p) \/ UnlinkTmp(p) \/ CleanupDone(p)
      PROVE  Evicting(q)'
  <2>1. p = q
      BY <1>0
  <2>2. UNCHANGED <<bin, conv, val>> /\ pc[q] \in AfterRename
        /\ pc'[q] \in {"cleanup", "listbin"}
      BY <1>5, <2>1 DEF ListTmp, UnlinkTmp, CleanupDone, Goto, TypeOK, AfterRename
  <2> QED
      BY <2>2 DEF Evicting
<1>6. ASSUME NEW p \in Proc, ListBin(p) PROVE Evicting(q)'
  <2>1. p = q
      BY <1>0
  <2>2. UNCHANGED <<bin, conv, val>> /\ pc[q] = "listbin" /\ pc'[q] = "evict"
      BY <1>6, <2>1 DEF ListBin, Goto, TypeOK
  <2>3. entries'[q] = (IF MaxBytes = 0 THEN {} ELSE list_kv_files(bin))
        /\ counted'[q] = entries'[q]
      BY <1>6, <2>1 DEF ListBin, TypeOK
  <2>4. bin[conv[q]] # NoFile /\ bin[conv[q]].val = val[q]
      BY <2>2 DEF Evicting, AfterRename
  <2>5. list_kv_files(bin)' = list_kv_files(bin)
      BY <2>2 DEF list_kv_files
  <2> QED
      BY <2>2, <2>3, <2>4, <2>5 DEF Evicting
<1>7. ASSUME NEW p \in Proc, EvictOldest(p) PROVE Evicting(q)'
  <2>1. p = q
      BY <1>0
  <2>2. UNCHANGED <<pc, conv, val>> /\ pc[q] = "evict"
      BY <1>7, <2>1 DEF EvictOldest
  <2>3. PICK e \in Oldest(entries[q]) :
             /\ MaxBytes > 0 /\ e \in list_kv_files(bin)
             /\ counted[q] = list_kv_files(bin)
             /\ entries'[q] = entries[q] \ {e}
             /\ \/ e.conv = conv[q] /\ UNCHANGED <<bin, counted>>
                \/ /\ e.conv # conv[q]
                   /\ bin' = [bin EXCEPT ![e.conv] = NoFile]
                   /\ counted'[q] = counted[q] \ {e}
      BY <1>7, <2>1, EvictOne
  <2>4. /\ bin[conv[q]] # NoFile /\ bin[conv[q]].val = val[q]
        /\ entries[q] \subseteq counted[q]
        /\ \A f \in counted[q] \ entries[q] : f.conv = conv[q]
      BY <2>2, <2>3 DEF Evicting, AfterRename
  <2>5. bin'[conv[q]] = bin[conv[q]]
      BY <2>3 DEF TypeOK, Files
  <2>6. counted'[q] = list_kv_files(bin)'
    <3>1. bin \in Files
        BY DEF TypeOK
    <3>2. CASE UNCHANGED <<bin, counted>>
        BY <2>3, <3>2 DEF list_kv_files
    <3>3. CASE /\ bin' = [bin EXCEPT ![e.conv] = NoFile]
               /\ counted'[q] = counted[q] \ {e}
      <4>1. list_kv_files(bin') = list_kv_files(bin) \ {e}
          BY <2>3, <3>1, <3>3, ListingShrinks
      <4>2. list_kv_files(bin)' = list_kv_files(bin')
          BY DEF list_kv_files
      <4> QED
          BY <2>3, <3>3, <4>1, <4>2
    <3> QED
        BY <2>3, <3>2, <3>3
  <2>7. /\ entries'[q] \subseteq counted'[q]
        /\ \A f \in counted'[q] \ entries'[q] : f.conv = conv[q]
      BY <2>3, <2>4
  <2>8. ~(MaxBytes = 0)
      BY <2>3, ConstAssumption
  <2> QED
      BY <2>2, <2>4, <2>5, <2>6, <2>7, <2>8 DEF Evicting
<1>8. ASSUME NEW p \in Proc, BudgetDone(p) PROVE Evicting(q)'
  <2>1. p = q
      BY <1>0
  <2>2. UNCHANGED <<bin, conv, val>> /\ pc[q] = "evict" /\ pc'[q] = "saved"
        /\ (Total(counted[q]) <= MaxBytes \/ entries[q] = {})
      BY <1>8, <2>1 DEF BudgetDone, Goto, TypeOK
  <2>3. bin[conv[q]] # NoFile /\ bin[conv[q]].val = val[q]
      BY <2>2 DEF Evicting, AfterRename
  <2>4. ASSUME MaxBytes > 0
        PROVE  \/ Total(list_kv_files(bin)) <= MaxBytes
               \/ \A c \in Conv : bin[c] # NoFile => c = conv[q]
    <3>1. counted[q] = list_kv_files(bin)
          /\ \A e \in counted[q] \ entries[q] : e.conv = conv[q]
        BY <2>2, <2>4 DEF Evicting
    <3>2. CASE Total(counted[q]) <= MaxBytes
        BY <3>1, <3>2
    <3>3. CASE entries[q] = {}
      <4> SUFFICES ASSUME NEW c \in Conv, bin[c] # NoFile PROVE c = conv[q]
          OBVIOUS
      <4>1. PICK e \in list_kv_files(bin) : e.conv = c
          BY FileListed
      <4> QED
          BY <3>1, <3>3, <4>1
    <3> QED
        BY <2>2, <3>2, <3>3
  <2>5. Total(list_kv_files(bin))' = Total(list_kv_files(bin))
    <3>1. list_kv_files(bin)' = list_kv_files(bin)
        BY <2>2 DEF list_kv_files
    <3> QED
        BY <3>1
  <2> QED
      BY <2>2, <2>3, <2>4, <2>5 DEF Evicting
<1>9. ASSUME Tick \/ UNCHANGED vars \/ \E c \in Conv : Writeback(c)
      PROVE  Evicting(q)'
  <2>1. UNCHANGED <<bin, pc, conv, val, entries, counted>>
      BY <1>9 DEF Tick, vars, Writeback
  <2> QED
      BY <2>1, EvictingKept
<1>10. CASE PowerLoss
  <2>1. pc'[q] = "idle"
      BY <1>10 DEF PowerLoss
  <2> QED
      BY <1>1, <2>1 DEF AfterRename
<1> QED
    BY <1>2, <1>3, <1>4, <1>5, <1>6, <1>7, <1>8, <1>9, <1>10
    DEF Next, Save, Sweep, Environment

LEMMA EvictingHolds ==
    ASSUME OneProcess
    PROVE  Spec => [](\A q \in Proc : Evicting(q))
<1> DEFINE All == \A q \in Proc : Evicting(q)
<1>1. Init => All
    BY DEF Init, Evicting, AfterRename
<1>2. TypeOK /\ Inv /\ All /\ [Next]_vars => All'
    BY EvictingStep
<1> HIDE DEF All
<1>3. Spec => []All
    BY <1>1, <1>2, TypeCorrect, InvHolds, PTL DEF Spec
<1> QED
    BY <1>3 DEF All

\* A process alone in its directory: when a save returns, the directory is
\* within its budget or holds the file just saved and no other.
THEOREM BudgetKept ==
    ASSUME OneProcess
    PROVE  Spec => []BudgetHolds
<1>1. (\A q \in Proc : Evicting(q)) => BudgetHolds
    BY DEF Evicting, BudgetHolds, AfterRename
<1> QED
    BY <1>1, EvictingHolds, PTL

\* The file that a step evicts is no younger than any that stays.
LEMMA OldestStep ==
    ASSUME OneProcess, TypeOK, NEW p \in Proc, Evicting(p), [Next]_vars,
           NEW c \in Conv, pc[p] = "evict", bin[c] # NoFile,
           bin'[c] = NoFile, pc' = pc
    PROVE  \A d \in Conv \ {conv[p]} :
               bin'[d] # NoFile => bin'[d].mtime >= bin[c].mtime
<1> USE DEF disk, work
<1>0. \A q \in Proc : q = p
    BY DEF OneProcess
<1>1. EvictOldest(p)
  <2>1. bin' # bin
      OBVIOUS
  <2>2. ASSUME NEW q \in Proc, Save(q) \/ Load(q) \/ Crash(q)
                 \/ (\E d \in Conv : PeekHeader(q, d))
                 \/ (\E d \in Conv, v \in Payload : StartSave(q, d, v))
        PROVE  FALSE
    <3>1. q = p
        BY <1>0
    <3> QED
        BY <2>1, <2>2, <3>1
        DEF Save, Load, Crash, PeekHeader, StartSave, OpenTmp, WriteHeader,
            WriteTokens, TokensWritten, WriteBody, BodyWritten, Fsync, Rename,
            SaveFails, WriteSome, Saving
  <2>3. ASSUME NEW q \in Proc, Sweep(q) PROVE EvictOldest(q)
      BY <2>1, <2>3
      DEF Sweep, ListTmp, UnlinkTmp, CleanupDone, ListBin, BudgetDone, SaveReturns
  <2>4. ~PowerLoss
      BY DEF PowerLoss
  <2>5. ~Tick /\ ~UNCHANGED vars /\ ~\E d \in Conv : Writeback(d)
      BY <2>1 DEF Tick, vars, Writeback
  <2> QED
      BY <1>0, <2>2, <2>3, <2>4, <2>5 DEF Next, Environment
<1>2. PICK e \in Oldest(entries[p]) :
             /\ MaxBytes > 0 /\ e \in list_kv_files(bin)
             /\ counted[p] = list_kv_files(bin)
             /\ entries'[p] = entries[p] \ {e}
             /\ \/ e.conv = conv[p] /\ UNCHANGED <<bin, counted>>
                \/ /\ e.conv # conv[p]
                   /\ bin' = [bin EXCEPT ![e.conv] = NoFile]
                   /\ counted'[p] = counted[p] \ {e}
    BY <1>1, EvictOne
<1>3. bin' = [bin EXCEPT ![e.conv] = NoFile] /\ e.conv = c
    BY <1>2 DEF TypeOK, Files
<1>4. bin[c].mtime = e.mtime
    BY <1>2, <1>3, ListedEntry
<1> SUFFICES ASSUME NEW d \in Conv \ {conv[p]}, bin'[d] # NoFile
             PROVE  bin'[d].mtime >= bin[c].mtime
    OBVIOUS
<1>5. bin'[d] = bin[d]
    BY <1>3 DEF TypeOK, Files
<1>6. PICK f \in list_kv_files(bin) : f.conv = d
    BY <1>5, FileListed
<1>7. f \in entries[p]
    BY <1>2, <1>6 DEF Evicting
<1>8. e.mtime <= f.mtime
    BY <1>7 DEF Oldest
<1>9. f.mtime = bin[d].mtime
    BY <1>6, ListedEntry
<1>10. bin[d].mtime \in Int /\ bin[c].mtime \in Int
    BY <1>5 DEF TypeOK, Files, File, Time
<1> QED
    BY <1>4, <1>5, <1>8, <1>9, <1>10

\* Eviction goes by age: no step of the sweep removes a conversation that was
\* saved after another one which it leaves (but for the one just saved).
THEOREM OldestGoesFirst ==
    ASSUME OneProcess
    PROVE  Spec => EvictsOldestFirst
<1>1. TypeOK /\ (\A q \in Proc : Evicting(q)) /\ [Next]_vars =>
        [\A p \in Proc, c \in Conv :
           pc[p] = "evict" /\ bin[c] # NoFile /\ bin'[c] = NoFile /\ pc' = pc =>
             \A d \in Conv \ {conv[p]} :
               bin'[d] # NoFile => bin'[d].mtime >= bin[c].mtime]_vars
    BY OldestStep
<1> QED
    BY <1>1, TypeCorrect, EvictingHolds, PTL DEF Spec, EvictsOldestFirst
=============================================================================
