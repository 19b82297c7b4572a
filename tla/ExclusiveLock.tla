---------------------------- MODULE ExclusiveLock ----------------------------
(***************************************************************************)
(* What a lock of linkedLock.ts promises those who use it: one holder at a  *)
(* time, for as long as it can be trusted.  LinkedLock implements it, and   *)
(* MuteLease is built on it.                                                *)
(***************************************************************************)
CONSTANT Client

VARIABLES
    holders,  \* who holds the lock
    trusted   \* nothing happened yet that the lock does not promise to survive

lockVars == <<holders, trusted>>

Init == holders = {} /\ trusted = TRUE

Take(c) ==
    /\ holders = {}
    /\ holders' = {c}
    /\ trusted' = trusted

(* The holder lets go of it, or ends. *)
Free(c) ==
    /\ c \in holders
    /\ holders' = holders \ {c}
    /\ trusted' = trusted

(* From here on the lock promises nothing. *)
Distrust ==
    /\ ~ trusted'
    /\ holders' \subseteq Client

Next ==
    \/ \E c \in Client : Take(c) \/ Free(c)
    \/ Distrust

Spec == Init /\ [][Next]_lockVars
=============================================================================
