---------------------------- MODULE KVCacheFile ----------------------------
(***************************************************************************)
(* The directory of persisted KV caches (src/persistence/kv_cache_file.cpp *)
(* and its use by Engine::generate): a save writes <conv>.bin.tmp piece by *)
(* piece, fsyncs it and renames it over <conv>.bin; then it removes stale  *)
(* .tmp files and evicts the oldest .bin files until the directory is      *)
(* within its budget; a hydrate peeks at the header and then loads.        *)
(*                                                                         *)
(* One action is one system call, so other processes, a process crash and  *)
(* a power loss come between any two of them.  Lengths are counted in      *)
(* units: the header is one unit, tokens and body have the units of the    *)
(* payload.                                                                *)
(***************************************************************************)
EXTENDS Integers, FiniteSets, FiniteSetsExt

CONSTANTS
    Proc,        \* processes sharing the directory
    Conv,        \* conversation ids; <conv>.bin and <conv>.bin.tmp
    Payload,     \* what one save stores (tokens and KV bytes)
    TokUnits,    \* [Payload -> Nat], hdr.used_tokens
    BodyUnits,   \* [Payload -> Nat], hdr.body_bytes
    Owner,       \* [Conv -> Proc], the process that serves a conversation
    MaxBytes,    \* disk budget; 0 disables eviction
    StaleAge,    \* age at which a .tmp is stale; 0 disables the cleanup
    MaxTime,     \* bound on the clock
    Faults,      \* the faults considered: "crash", "power" (loss)
    None,        \* the reader found nothing usable
    Garbage,     \* bytes that were never saved as one payload
    NoFile       \* there is no such directory entry

ASSUME ConstAssumption ==
    /\ TokUnits  \in [Payload -> Nat]
    /\ BodyUnits \in [Payload -> Nat]
    /\ Owner \in [Conv -> Proc]
    /\ MaxBytes \in Nat /\ StaleAge \in Nat /\ MaxTime \in Nat
    /\ Conv # {} /\ Payload # {}
    /\ None \notin Payload /\ Garbage \notin Payload /\ None # Garbage

Time == 0..MaxTime
HeaderUnits == 1

\* On-disk length of a complete file: sizeof(hdr) + tokens + body.
FullLen(v) == HeaderUnits + TokUnits[v] + BodyUnits[v]

\* `val' is the payload whose bytes the file holds a prefix of; `torn' says
\* what a power loss did to bytes that no fsync had made durable.
File == [val : Payload, len : Nat, mtime : Time, synced : BOOLEAN,
         torn : {"no", "header", "data"}]
Files == [Conv -> File \cup {NoFile}]

ASSUME NoFileAssumption == NoFile \notin File

\* A directory entry as list_kv_files returns it.
Entry == [conv : Conv, mtime : Time, size : Nat]

PC == {"idle", "open", "header", "tokens", "body", "fsync", "rename",
       "listtmp", "cleanup", "listbin", "evict", "saved", "load"}

\* Inside save_kv_to_file.
Saving == {"open", "header", "tokens", "body", "fsync", "rename"}

VARIABLES
    now,         \* the clock, in seconds
    bin,         \* [Conv -> File or NoFile], the <conv>.bin entries
    tmp,         \* [Conv -> File or NoFile], the <conv>.bin.tmp entries
    durable,     \* the .bin entries that are on stable storage
    pc,          \* [Proc -> PC], the next system call of each process
    conv, val,   \* what it saves, or whose file it loads; val in a load is
                 \* the payload whose header it peeked at
    len,         \* units it has written to its open .tmp
    entries,     \* the rest of the directory listing it works through
    counted,     \* the listed files whose sizes are in its `total'
    at,          \* the time it took for judging the age of .tmp files
    got          \* result of its load: the conversation and what was in
                 \* its file, or None

disk == <<bin, tmp, durable>>
work == <<conv, val, len, entries, counted, at>>
vars == <<now, disk, pc, work, got>>

TypeOK ==
    /\ now \in Time
    /\ bin \in Files /\ tmp \in Files /\ durable \in Files
    /\ pc \in [Proc -> PC]
    /\ conv \in [Proc -> Conv]
    /\ val \in [Proc -> Payload]
    /\ len \in [Proc -> Nat]
    /\ entries \in [Proc -> SUBSET Entry]
    /\ counted \in [Proc -> SUBSET Entry]
    /\ at \in [Proc -> Time]
    /\ got \in [Proc -> (Conv \X (Payload \cup {Garbage})) \cup {None}]

\* Locals that no code reads: before the first call and after each return.
AnyConv == CHOOSE c \in Conv : TRUE
AnyPayload == CHOOSE v \in Payload : TRUE

Init ==
    /\ now = 0
    /\ bin = [c \in Conv |-> NoFile]
    /\ tmp = [c \in Conv |-> NoFile]
    /\ durable = [c \in Conv |-> NoFile]
    /\ pc = [p \in Proc |-> "idle"]
    /\ conv = [p \in Proc |-> AnyConv]
    /\ val = [p \in Proc |-> AnyPayload]
    /\ len = [p \in Proc |-> 0]
    /\ entries = [p \in Proc |-> {}]
    /\ counted = [p \in Proc |-> {}]
    /\ at = [p \in Proc |-> 0]
    /\ got = [p \in Proc |-> None]

Goto(p, l) == pc' = [pc EXCEPT ![p] = l]

\* The call returns and its locals go out of scope.
Return(p) ==
    /\ Goto(p, "idle")
    /\ conv' = [conv EXCEPT ![p] = AnyConv]
    /\ val' = [val EXCEPT ![p] = AnyPayload]
    /\ len' = [len EXCEPT ![p] = 0]
    /\ entries' = [entries EXCEPT ![p] = {}]
    /\ counted' = [counted EXCEPT ![p] = {}]
    /\ at' = [at EXCEPT ![p] = 0]

\* The listing of one suffix: every entry with its mtime and size.
list_kv_files(dir) ==
    {[conv |-> c, mtime |-> dir[c].mtime, size |-> dir[c].len] :
        c \in {d \in Conv : dir[d] # NoFile}}

Size(e) == e.size
Total(S) == MapThenSumSet(Size, S)

-----------------------------------------------------------------------------
(* save_kv_to_file, called at the end of a turn under the engine mutex.    *)

StartSave(p, c, v) ==
    /\ pc[p] = "idle"
    /\ Owner[c] = p
    /\ Goto(p, "open")
    /\ conv' = [conv EXCEPT ![p] = c]
    /\ val'  = [val EXCEPT ![p] = v]
    /\ len'  = [len EXCEPT ![p] = 0]
    /\ UNCHANGED <<now, disk, entries, counted, at, got>>

\* open(tmp, O_WRONLY | O_CREAT | O_TRUNC).
OpenTmp(p) ==
    /\ pc[p] = "open"
    /\ tmp' = [tmp EXCEPT ![conv[p]] =
                 [val |-> val[p], len |-> 0, mtime |-> now,
                  synced |-> FALSE, torn |-> "no"]]
    /\ Goto(p, "header")
    /\ UNCHANGED <<now, bin, durable, work, got>>

\* The fd stays writable when another process has unlinked the name.
WriteSome(p, n) ==
    /\ len' = [len EXCEPT ![p] = @ + n]
    /\ tmp' = IF tmp[conv[p]] = NoFile THEN tmp
              ELSE [tmp EXCEPT ![conv[p]].len = len[p] + n,
                               ![conv[p]].mtime = now]
    /\ UNCHANGED <<now, bin, durable, conv, val, entries, counted, at, got>>

WriteHeader(p) ==
    /\ pc[p] = "header"
    /\ WriteSome(p, HeaderUnits)
    /\ Goto(p, "tokens")

\* One write(2) of write_all's loop: any non-empty part of what is left.
WriteTokens(p) ==
    /\ pc[p] = "tokens"
    /\ \E n \in 1..(HeaderUnits + TokUnits[val[p]] - len[p]) : WriteSome(p, n)
    /\ UNCHANGED pc

WriteBody(p) ==
    /\ pc[p] = "body"
    /\ \E n \in 1..(FullLen(val[p]) - len[p]) : WriteSome(p, n)
    /\ UNCHANGED pc

\* write_all returns once everything asked for is written.
TokensWritten(p) ==
    /\ pc[p] = "tokens"
    /\ len[p] = HeaderUnits + TokUnits[val[p]]
    /\ Goto(p, "body")
    /\ UNCHANGED <<now, disk, work, got>>

\* A fault: a short write is taken for a complete one.
ShortBodyWritten(p) ==
    /\ pc[p] = "body"
    /\ Goto(p, "fsync")
    /\ UNCHANGED <<now, disk, work, got>>

BodyWritten(p) ==
    /\ pc[p] = "body"
    /\ len[p] = FullLen(val[p])
    /\ Goto(p, "fsync")
    /\ UNCHANGED <<now, disk, work, got>>

Fsync(p) ==
    /\ pc[p] = "fsync"
    /\ tmp' = IF tmp[conv[p]] = NoFile THEN tmp
              ELSE [tmp EXCEPT ![conv[p]].synced = TRUE]
    /\ Goto(p, "rename")
    /\ UNCHANGED <<now, bin, durable, work, got>>

Rename(p) ==
    /\ pc[p] = "rename"
    /\ tmp[conv[p]] # NoFile
    /\ bin' = [bin EXCEPT ![conv[p]] = tmp[conv[p]]]
    /\ tmp' = [tmp EXCEPT ![conv[p]] = NoFile]
    /\ Goto(p, "listtmp")
    /\ UNCHANGED <<now, durable, work, got>>

\* Any of the calls above fails (a full disk, an I/O error, a name that is
\* gone): the .tmp is unlinked and the save reports failure.
SaveFails(p) ==
    /\ pc[p] \in Saving
    /\ tmp' = IF pc[p] = "open" THEN tmp
              ELSE [tmp EXCEPT ![conv[p]] = NoFile]
    /\ Return(p)
    /\ UNCHANGED <<now, bin, durable, got>>

-----------------------------------------------------------------------------
(* After a successful save: cleanup_stale_tmp_files, then                  *)
(* enforce_kv_cache_budget with the saved path as keep_path.               *)

\* A fault: a .tmp of exactly the threshold age is kept.
ListOlderTmp(p) ==
    /\ pc[p] = "listtmp"
    /\ entries' = [entries EXCEPT ![p] =
                     IF StaleAge = 0 THEN {}
                     ELSE {e \in list_kv_files(tmp) :
                             now - e.mtime > StaleAge}]
    /\ at' = [at EXCEPT ![p] = now]
    /\ Goto(p, "cleanup")
    /\ UNCHANGED <<now, disk, conv, val, len, counted, got>>

ListTmp(p) ==
    /\ pc[p] = "listtmp"
    /\ entries' = [entries EXCEPT ![p] =
                     IF StaleAge = 0 THEN {}
                     ELSE {e \in list_kv_files(tmp) :
                             now - e.mtime >= StaleAge}]
    /\ at' = [at EXCEPT ![p] = now]
    /\ Goto(p, "cleanup")
    /\ UNCHANGED <<now, disk, conv, val, len, counted, got>>

UnlinkTmp(p) ==
    /\ pc[p] = "cleanup"
    /\ \E e \in entries[p] :
         /\ tmp' = [tmp EXCEPT ![e.conv] = NoFile]
         /\ entries' = [entries EXCEPT ![p] = @ \ {e}]
    /\ UNCHANGED <<now, bin, durable, pc, conv, val, len, counted, at, got>>

CleanupDone(p) ==
    /\ pc[p] = "cleanup"
    /\ entries[p] = {}
    /\ Goto(p, "listbin")
    /\ UNCHANGED <<now, disk, work, got>>

ListBin(p) ==
    /\ pc[p] = "listbin"
    /\ LET all == IF MaxBytes = 0 THEN {} ELSE list_kv_files(bin)
       IN /\ entries' = [entries EXCEPT ![p] = all]
          /\ counted' = [counted EXCEPT ![p] = all]
    /\ Goto(p, "evict")
    /\ UNCHANGED <<now, disk, conv, val, len, at, got>>

\* A fault: the listing is sorted the other way round.
Newest(S) == {e \in S : \A f \in S : e.mtime >= f.mtime}

\* The next entry of the listing sorted by mtime; equal mtimes, any order.
Oldest(S) == {e \in S : \A f \in S : e.mtime <= f.mtime}

\* A fault: keep_path is not skipped.
EvictAny(p) ==
    /\ pc[p] = "evict"
    /\ Total(counted[p]) > MaxBytes
    /\ \E e \in Oldest(entries[p]) :
         /\ entries' = [entries EXCEPT ![p] = @ \ {e}]
         /\ bin' = [bin EXCEPT ![e.conv] = NoFile]
         /\ counted' = [counted EXCEPT ![p] = @ \ {e}]
    /\ UNCHANGED <<now, tmp, durable, pc, conv, val, len, at, got>>

\* unlink fails when another process was first; then `total' keeps its size.
EvictOldest(p) ==
    /\ pc[p] = "evict"
    /\ Total(counted[p]) > MaxBytes
    /\ \E e \in Oldest(entries[p]) :
         /\ entries' = [entries EXCEPT ![p] = @ \ {e}]
         /\ IF e.conv = conv[p] \/ bin[e.conv] = NoFile
            THEN UNCHANGED <<bin, counted>>
            ELSE /\ bin' = [bin EXCEPT ![e.conv] = NoFile]
                 /\ counted' = [counted EXCEPT ![p] = @ \ {e}]
    /\ UNCHANGED <<now, tmp, durable, pc, conv, val, len, at, got>>

\* A fault: the loop does not stop at the end of the listing.
BudgetMet(p) ==
    /\ pc[p] = "evict"
    /\ Total(counted[p]) <= MaxBytes
    /\ Goto(p, "saved")
    /\ UNCHANGED <<now, disk, work, got>>

BudgetDone(p) ==
    /\ pc[p] = "evict"
    /\ Total(counted[p]) <= MaxBytes \/ entries[p] = {}
    /\ Goto(p, "saved")
    /\ UNCHANGED <<now, disk, work, got>>

SaveReturns(p) ==
    /\ pc[p] = "saved"
    /\ Return(p)
    /\ UNCHANGED <<now, disk, got>>

-----------------------------------------------------------------------------
(* The reading half of try_hydrate_kv: peek, then load through a new fd.   *)

\* Magic, version and size agree with the header.
Accepted(f) == f # NoFile /\ f.torn # "header" /\ f.len = FullLen(f.val)

\* The bytes after the header, as the caller takes them.
Content(f) == IF f.torn = "no" THEN f.val ELSE Garbage

PeekHeader(p, c) ==
    /\ pc[p] = "idle"
    /\ Owner[c] = p
    /\ got' = [got EXCEPT ![p] = None]
    /\ \/ /\ Accepted(bin[c])
          /\ conv' = [conv EXCEPT ![p] = c]
          /\ val' = [val EXCEPT ![p] = bin[c].val]
          /\ Goto(p, "load")
       \/ UNCHANGED <<conv, val, pc>>
    /\ UNCHANGED <<now, disk, len, entries, counted, at>>

\* The body must fit the buffer sized from the peeked header, and the
\* number of tokens must be the peeked one.
Usable(p, f) ==
    /\ Accepted(f)
    /\ BodyUnits[f.val] <= BodyUnits[val[p]]
    /\ TokUnits[f.val] = TokUnits[val[p]]

\* A fault: the peeked payload is taken to be still there.
LoadTrustsPeek(p) ==
    /\ pc[p] = "load"
    /\ got' = [got EXCEPT ![p] = <<conv[p], val[p]>>]
    /\ Return(p)
    /\ UNCHANGED <<now, disk>>

Load(p) ==
    /\ pc[p] = "load"
    /\ LET f == bin[conv[p]] IN
       \/ /\ Usable(p, f)
          /\ got' = [got EXCEPT ![p] = <<conv[p], Content(f)>>]
       \/ got' = [got EXCEPT ![p] = None]
    /\ Return(p)
    /\ UNCHANGED <<now, disk>>

-----------------------------------------------------------------------------
(* The environment: time, the page cache, crashes.                         *)

Tick ==
    /\ now < MaxTime
    /\ now' = now + 1
    /\ UNCHANGED <<disk, pc, work, got>>

\* The kernel writes the directory entry of one .bin back to the disk.
Writeback(c) ==
    /\ "power" \in Faults
    /\ durable[c] # bin[c]
    /\ durable' = [durable EXCEPT ![c] = bin[c]]
    /\ UNCHANGED <<now, bin, tmp, pc, work, got>>

\* The process dies between two system calls (exit(0) in the signal
\* handler, the OOM killer); the page cache survives.
Crash(p) ==
    /\ "crash" \in Faults
    /\ pc[p] # "idle"
    /\ Return(p)
    /\ got' = [got EXCEPT ![p] = None]
    /\ UNCHANGED <<now, disk>>

Damaged(f, n, t) == [f EXCEPT !.len = n, !.torn = t]

\* What may be left of a file that was renamed: all of it once it is
\* fsynced, else any prefix, or the right length with blocks missing.
Remains(f) ==
    IF f = NoFile THEN {NoFile}
    ELSE IF f.synced THEN {f}
    ELSE {Damaged(f, n, t) : n \in 0..f.len, t \in {"no", "header", "data"}}

\* A .tmp may also be gone; what is left of it is never read.
TmpRemains(f) ==
    IF f = NoFile THEN {NoFile} ELSE {NoFile, [f EXCEPT !.torn = "data"]}

PowerLoss ==
    /\ "power" \in Faults
    /\ bin' \in [Conv -> UNION {Remains(durable[c]) : c \in Conv}]
    /\ tmp' \in [Conv -> UNION {TmpRemains(tmp[c]) : c \in Conv}]
    /\ \A c \in Conv : /\ bin'[c] \in Remains(durable[c])
                       /\ tmp'[c] \in TmpRemains(tmp[c])
    /\ durable' = bin'
    /\ pc' = [p \in Proc |-> "idle"]
    /\ conv' = [p \in Proc |-> AnyConv]
    /\ val' = [p \in Proc |-> AnyPayload]
    /\ len' = [p \in Proc |-> 0]
    /\ entries' = [p \in Proc |-> {}]
    /\ counted' = [p \in Proc |-> {}]
    /\ at' = [p \in Proc |-> 0]
    /\ got' = [p \in Proc |-> None]
    /\ UNCHANGED now

-----------------------------------------------------------------------------
Save(p) ==
    \/ OpenTmp(p) \/ WriteHeader(p) \/ WriteTokens(p) \/ TokensWritten(p)
    \/ WriteBody(p) \/ BodyWritten(p) \/ Fsync(p) \/ Rename(p)
    \/ SaveFails(p)

Sweep(p) ==
    \/ ListTmp(p) \/ UnlinkTmp(p) \/ CleanupDone(p)
    \/ ListBin(p) \/ EvictOldest(p) \/ BudgetDone(p) \/ SaveReturns(p)

Environment == Tick \/ PowerLoss \/ \E c \in Conv : Writeback(c)

Next ==
    \/ \E p \in Proc :
         \/ \E c \in Conv : PeekHeader(p, c) \/ \E v \in Payload : StartSave(p, c, v)
         \/ Save(p) \/ Sweep(p) \/ Load(p) \/ Crash(p)
    \/ Environment

\* A process that is running executes its next system call.
Spec == /\ Init /\ [][Next]_vars
        /\ \A p \in Proc : WF_vars(Save(p) \/ Sweep(p) \/ Load(p))

-----------------------------------------------------------------------------
(* Correctness.                                                            *)

Intact(f) == f.torn = "no" /\ f.synced /\ f.len = FullLen(f.val)

\* A <conv>.bin is always one whole payload, durable on the disk, whatever
\* crash, power loss, short write or failing call came in between: the
\* "Atomic save" that kv_cache_file.h promises.  A reader has nothing but
\* the length to tell a damaged file by, so this is what keeps garbage KV
\* bytes out of the engine.
BinIntact ==
    \A c \in Conv : /\ bin[c] # NoFile => Intact(bin[c])
                    /\ durable[c] # NoFile => Intact(durable[c])

\* While a process writes, its .tmp (unless someone removed it) holds just
\* the prefix it has written, and is complete before it is renamed.
Prefixed(f, p) ==
    /\ f.val = val[p] /\ f.len = len[p] /\ f.torn = "no"
    /\ pc[p] = "rename" => f.synced
WriterOK(p) ==
    /\ pc[p] \in Saving => Owner[conv[p]] = p
    /\ pc[p] \in {"open", "header"} => len[p] = 0
    /\ pc[p] = "tokens" => len[p] <= HeaderUnits + TokUnits[val[p]]
    /\ pc[p] = "body"   => len[p] <= FullLen(val[p])
    /\ pc[p] \in {"fsync", "rename"} => len[p] = FullLen(val[p])
    /\ pc[p] \in Saving \ {"open"} /\ tmp[conv[p]] # NoFile
         => Prefixed(tmp[conv[p]], p)
TmpIsPrefix == \A p \in Proc : WriterOK(p)

Inv == BinIntact /\ TmpIsPrefix

\* The directory implements the abstract store: a save appears in one step,
\* a load returns a payload saved under that conversation or nothing, and a
\* power loss only ever goes back to an earlier whole save.
Abs(dir) == [c \in Conv |-> IF dir[c] = NoFile THEN None ELSE Content(dir[c])]
Store == INSTANCE KVStore WITH store <- Abs(bin), stable <- Abs(durable),
                               reply <- got
StoreSpec == Store!Init /\ [][Store!Next]_Store!vars

\* When the save returns, the directory is within its budget or holds
\* nothing but the file just saved, which the sweep never evicts.  (With
\* one process: another one may add files while this one sweeps.)
BudgetHolds ==
    \A p \in Proc : pc[p] = "saved" /\ MaxBytes > 0 =>
        /\ bin[conv[p]] # NoFile /\ bin[conv[p]].val = val[p]
        /\ \/ Total(list_kv_files(bin)) <= MaxBytes
           \/ \A c \in Conv : bin[c] # NoFile => c = conv[p]

\* Eviction is least-recently-saved first: a step that removes a .bin
\* leaves no older .bin behind except the one just saved.
EvictsOldestFirst ==
    [][\A p \in Proc, c \in Conv :
         pc[p] = "evict" /\ bin[c] # NoFile /\ bin'[c] = NoFile /\ pc' = pc =>
           \A d \in Conv \ {conv[p]} :
               bin'[d] # NoFile => bin'[d].mtime >= bin[c].mtime]_vars

\* A .tmp left by a crash is gone after the next successful save, unless it
\* is younger than the threshold.
NoStaleTmp ==
    \A p \in Proc : pc[p] \in {"listbin", "evict", "saved"} /\ StaleAge > 0 =>
        \A c \in Conv : tmp[c] # NoFile => at[p] - tmp[c].mtime < StaleAge

\* Every save and load that is started returns: write_all's loop and the
\* two sweeps end, whatever fails.
JobsEnd == \A p \in Proc : pc[p] # "idle" ~> pc[p] = "idle"
=============================================================================
