SPECIFICATION SpecAttachAnywhere
CONSTANTS
  Contents = {a, b}
  Corrupt = corrupt
  None = none
  HistoryLimit = 1
  MaxGen = 3
  MaxVer = 1
INVARIANT
  NoCorruptRestore
