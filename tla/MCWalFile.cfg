SPECIFICATION Spec
CONSTANTS
  None = none
  MaxTold = 4
INVARIANTS
  CommittedIsRead
  SyncedSurvives
PROPERTY
  LogIsAtomic
