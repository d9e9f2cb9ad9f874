SPECIFICATION Spec
CONSTANTS
  LimitChoices <- MCLimits
  MaxTotal = 8
  BufCap = 2
INVARIANTS
  TypeOK
  Accounting
  NoSilentHole
  AnnouncedOnce
  FinishedTellsTheGap
PROPERTY
  KeepsBothEnds
