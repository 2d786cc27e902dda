\* Sections under a TTL that outlasts them, and processes that stand still.
SPECIFICATION FairSpec
CONSTANTS
  Clients = {b1, b2, b3}
  NoToken = NoToken
  TTL = 6
  CallTimeout = 2
  MaxCalls = 2
  Slack = 1
INVARIANTS
  TypeOK
  LockOutlivesSection
PROPERTIES
  NeverFreesAnother
  ImplementsSectionLock
  LockEventuallyFree
