--------------------------- MODULE MCKVCachePool ---------------------------
(* KVCachePool needs no more than values for its constants.                *)
EXTENDS KVCachePool
=============================================================================
