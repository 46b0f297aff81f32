SPECIFICATION Spec
SYMMETRY Symmetry
CONSTANTS
  Contents = {a, b}
  Corrupt = corrupt
  None = none
  HistoryLimit = 2
  MaxGen = 4
  MaxVer = 2
INVARIANTS
  RecoveryFaithful
  HistoryFaithful
  CountersExact
  NoCorruptRestore
  CleanMeansSaved
  NoFalseOffer
PROPERTY
  CompactionInvisible
