\* Statements of documents and comments that Dashboard refutes; TLC stops at
\* the first, so keep one of them at a time.
SPECIFICATION Spec
CONSTANTS
  Handlers = {h1, h2}
  Keys = {k1, k2}
  Values = {on}
  None = none
  DefaultMode = "rule"
  StatusTTL = 2
  ProbeLimit = 1
  ErrorLengths <- MCErrorLengths
PROPERTIES
  DeletionDone
  OverridesKept
  ShutdownGraceful
