\* Two calls side by side, a refresh, and two troubles, another refresh one of them; the
\* vault may fail too.
SPECIFICATION FairSpec
CONSTANTS
    Call = {c1, c2}
    MaxRefreshes = 2
    MaxTrouble = 2
INVARIANTS DisconnectedIsGone ToldOnce NothingOfTheOldOrg
PROPERTIES NeverBack Heals
CHECK_DEADLOCK FALSE
