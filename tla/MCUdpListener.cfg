SPECIFICATION UdpSpec
CONSTANTS
  s1 = s1
  s2 = s2
  s3 = s3
  Sources <- MCSources
  PeerChoices = {1, 2}
  IdleChoices = {1}
  Profiles <- MCProfiles
  SweepEvery = 1
  ClockSteps <- MCClockSteps
  MaxBehind = 1
  MaxDatagrams = 4
  MaxQueue = 1
INVARIANTS
  UdpTypeOK
  OverflowOnlyWhenFull
  OpenConnsAreLive
  DatagramsAccounted
  RepliesBounded
PROPERTIES
  ClosedIsFinal
  AllRetired
