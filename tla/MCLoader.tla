------------------------------ MODULE MCLoader ------------------------------
(***************************************************************************)
(* Two layers, a pool that holds a batch of seven tokens, and memory from  *)
(* nothing to plenty.  The environment variables are set one at a time on  *)
(* top of the two modes of JLLM_MAPPED_WEIGHTS.                            *)
(***************************************************************************)
EXTENDS Loader

MCConfigs ==
    { [H |-> 256, Q |-> 256, KV |-> 128, I |-> 512, V |-> 400, L |-> 2] }

Base(m) == [program |-> "server", mapped |-> m, fastGemv |-> TRUE,
            deviceOutput |-> TRUE, fastEmbd |-> TRUE,
            deviceLayers |-> IF m THEN 0 ELSE -1,
            int8 |-> FALSE, limit |-> 0, overflow |-> 0]

MCSettings ==
    UNION { { Base(m),
              [Base(m) EXCEPT !.program = "cli"],
              [Base(m) EXCEPT !.fastGemv = FALSE],
              [Base(m) EXCEPT !.deviceOutput = FALSE],
              [Base(m) EXCEPT !.fastEmbd = FALSE],
              [Base(m) EXCEPT !.deviceLayers = 0],
              [Base(m) EXCEPT !.deviceLayers = 1],
              [Base(m) EXCEPT !.deviceLayers = -1],
              [Base(m) EXCEPT !.int8 = TRUE],
              [Base(m) EXCEPT !.limit = 60],
              [Base(m) EXCEPT !.overflow = -1, !.limit = 20],
              [Base(m) EXCEPT !.overflow = 3, !.limit = 20] } : m \in BOOLEAN }

MCAvailable == {-3, 12, 20, 26, 40}

MCFiles ==
    { [tied |-> t, quantLayers |-> 2, outQuant |-> TRUE, norms |-> "f32", qkNorm |-> TRUE]
        : t \in BOOLEAN } \cup
    { [tied |-> FALSE, quantLayers |-> 1, outQuant |-> FALSE, norms |-> "f32", qkNorm |-> FALSE],
      [tied |-> TRUE, quantLayers |-> 2, outQuant |-> TRUE, norms |-> "f16", qkNorm |-> FALSE],
      [tied |-> TRUE, quantLayers |-> 2, outQuant |-> TRUE, norms |-> "missing", qkNorm |-> FALSE] }
=============================================================================
