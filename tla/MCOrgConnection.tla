--------------------------- MODULE MCOrgConnection ---------------------------
(* OrgConnection with the bounds of a .cfg. *)
EXTENDS OrgConnection
==============================================================================
