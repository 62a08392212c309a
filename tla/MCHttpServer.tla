---------------------------- MODULE MCHttpServer ----------------------------
(* HttpServer with two workers, for TLC.                                   *)
EXTENDS HttpServer

CONSTANTS w1, w2

Workers == {w1, w2}
=============================================================================
