CONSTANT MaxJobs = 3
SPECIFICATION FairSpec
INVARIANTS SyncKeepsItsWord NobodyIsMissed
PROPERTIES ImplementsJobSlot AllIsDone
