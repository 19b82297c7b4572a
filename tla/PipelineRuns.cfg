\* Every pipeline of three steps out of seven kinds, and eight longer or refused ones.
SPECIFICATION FairSpec
CONSTANT Pipelines <- Many
INVARIANTS EveryStepAccounted GuardedWritesApproved
PROPERTIES OnlyStrayResumes NothingStartsOnceStopped RunEnds
CHECK_DEADLOCK FALSE
