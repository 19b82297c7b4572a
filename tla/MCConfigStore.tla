---------------------------- MODULE MCConfigStore ----------------------------
(* Small instances of ConfigStore. *)
EXTENDS ConfigStore

CONSTANTS w1, w2, k1, k2

OneCategory == {{k1, k2}}
=============================================================================
