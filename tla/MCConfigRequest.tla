------------------------- MODULE MCConfigRequest -------------------------
(* ConfigRequest instantiated for TLC with model values for callers, MACs  *)
(* and the empty slot.                                                     *)
EXTENDS ConfigRequest
====
