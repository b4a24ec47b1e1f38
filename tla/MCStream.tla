----------------------------- MODULE MCStream ------------------------------
(* Two streams of one engine on an instance, for TLC: their handlers and the  *)
(* hub share the row, the subscribers and the engine.                         *)
EXTENDS Stream
============================================================================
