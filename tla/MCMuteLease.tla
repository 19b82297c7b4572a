----------------------------- MODULE MCMuteLease -----------------------------
(* Small instances of MuteLease. *)
EXTENDS MuteLease

CONSTANTS r1, r2, r3, p1, p2, m1, s1, s2

TwoProcesses == [r \in Run |-> IF r = r1 THEN p1 ELSE p2]
OneMachine == [p \in Process |-> m1]
SharedSets == [r \in Run |-> IF r = r1 THEN <<s1, s2>> ELSE <<s1>>]
=============================================================================
