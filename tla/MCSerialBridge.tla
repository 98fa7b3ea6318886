--------------------------- MODULE MCSerialBridge ---------------------------
(* SerialBridge instantiated for TLC.                                      *)
EXTENDS SerialBridge
====
