---------------------------- MODULE MCP2pEngine ----------------------------
(* Model-checking instance of P2pEngine: one peer p1 and one group address *)
(* bc as model values; the numeric bounds are given in each .cfg.          *)
EXTENDS P2pEngine
=============================================================================
