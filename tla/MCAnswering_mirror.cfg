SPECIFICATION AnsweringSpec
CONSTANTS
  LabelLimit = 127
  HintLimit = 63
  MaxHops = 3
  Profiles <- MCProfiles
  Messages <- MCMessages
INVARIANTS
  RepliesMirrorRequest
CHECK_DEADLOCK FALSE
