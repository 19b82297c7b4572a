---------------------------- MODULE MCRunMarkers ----------------------------
(* Small instances of RunMarkers. *)
EXTENDS RunMarkers
=============================================================================
