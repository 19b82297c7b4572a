-------------------------- MODULE MCRealtimeSession --------------------------
(* Small instances of RealtimeSession. *)
EXTENDS RealtimeSession
=============================================================================
