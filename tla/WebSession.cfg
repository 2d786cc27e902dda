\* Connections that end from either side.
SPECIFICATION FairSpec
CONSTANTS
  DefaultTimeout = 5
  PushEvery = 5
  PingEvery = 30
  ReadDeadline = 60
PROPERTIES
  ReaderEnds
