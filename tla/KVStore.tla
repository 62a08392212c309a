------------------------------ MODULE KVStore ------------------------------
(***************************************************************************)
(* What the persistent KV cache promises its only client, the engine: for  *)
(* every conversation there is at most one saved payload; a save replaces  *)
(* it at once or not at all, a read returns a payload that was saved or    *)
(* nothing, and a power loss takes a conversation back to the payload that *)
(* had reached stable storage.  KVCacheFile implements this.               *)
(***************************************************************************)
CONSTANTS Proc,      \* processes that use the cache directory
          Conv,      \* conversation ids
          Payload,   \* what a save stores: the tokens and their KV bytes
          None       \* no saved payload, and a read that found none

VARIABLES store,     \* the payload a reader would find now
          stable,    \* the payload a reader would find after a power loss
          reply      \* each process's last read: whose payload, which, or None

vars == <<store, stable, reply>>

TypeOK ==
    /\ store  \in [Conv -> Payload \cup {None}]
    /\ stable \in [Conv -> Payload \cup {None}]
    /\ reply  \in [Proc -> (Conv \X Payload) \cup {None}]

Init ==
    /\ store  = [c \in Conv |-> None]
    /\ stable = [c \in Conv |-> None]
    /\ reply  = [p \in Proc |-> None]

\* A save takes effect in one step.
Put(c, v) ==
    /\ store' = [store EXCEPT ![c] = v]
    /\ UNCHANGED <<stable, reply>>

\* Eviction to stay under the disk budget.
Drop(c) ==
    /\ store' = [store EXCEPT ![c] = None]
    /\ UNCHANGED <<stable, reply>>

\* The operating system writes a directory change back to the disk.
Sync(c) ==
    /\ stable' = [stable EXCEPT ![c] = store[c]]
    /\ UNCHANGED <<store, reply>>

\* A read may always miss: a failing system call is a cold prefill.
Read(p, c) ==
    /\ \/ /\ store[c] # None
          /\ reply' = [reply EXCEPT ![p] = <<c, store[c]>>]
       \/ reply' = [reply EXCEPT ![p] = None]
    /\ UNCHANGED <<store, stable>>

\* A new request starts: the process forgets its previous answer.
Forget(p) ==
    /\ reply' = [reply EXCEPT ![p] = None]
    /\ UNCHANGED <<store, stable>>

PowerLoss ==
    /\ store' = stable
    /\ reply' = [p \in Proc |-> None]
    /\ UNCHANGED stable

Next ==
    \/ \E c \in Conv : \/ \E v \in Payload : Put(c, v)
                       \/ Drop(c)
                       \/ Sync(c)
                       \/ \E p \in Proc : Read(p, c)
    \/ \E p \in Proc : Forget(p)
    \/ PowerLoss

Spec == Init /\ [][Next]_vars
=============================================================================
