SPECIFICATION TcpServeSpec
CONSTANTS
  Profiles <- MCProfiles
  MaxSent = 4
  Window = 2
INVARIANTS
  TcpServeTypeOK
  TranscriptIsFaithful
  RepliesAnswerReads
PROPERTIES
  ServeEnds
