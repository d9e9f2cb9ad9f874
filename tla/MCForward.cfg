SPECIFICATION ForwardSpec
CONSTANTS
  MaxSent = 3
  Window = 2
INVARIANTS
  ForwardTypeOK
  LogIsTheRelay
PROPERTIES
  RelaysBothWays
  EofReachesTheOther
  ForwardEnds
