\* Edits and status requests that overlap, outages, shutdowns and restarts.
SPECIFICATION Spec
CONSTANTS
  Handlers = {h1, h2}
  Keys = {k1, k2}
  Values = {on}
  None = none
  DefaultMode = "rule"
  StatusTTL = 2
  ProbeLimit = 1
  ErrorLengths <- MCErrorLengths
SYMMETRY Alike
INVARIANTS
  TypeOK
  StatusIsRecent
PROPERTIES
  EditTouchesOwnKey
