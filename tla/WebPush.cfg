\* The handler's context ends the connection before its first message.
SPECIFICATION FairSpec
CONSTANTS
  DefaultTimeout = 5
  PushEvery = 5
  PingEvery = 30
  ReadDeadline = 60
PROPERTIES
  MessagesArrive
