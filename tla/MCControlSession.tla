------------------------- MODULE MCControlSession -------------------------
(* ControlSession instantiated for TLC: heartbeat and offline thresholds   *)
(* scaled down to the smallest values that keep their order, and a small   *)
(* budget of environment faults.                                           *)
EXTENDS ControlSession
====
