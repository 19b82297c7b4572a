---------------------------- MODULE MCLinkedLock ----------------------------
(* Small instances of LinkedLock. *)
EXTENDS LinkedLock

CONSTANTS p1, p2, p3, p4, h1, h2

OneHost == [p \in Proc |-> h1]
TwoHosts == [p \in Proc |-> IF p = p3 THEN h2 ELSE h1]
=============================================================================
