\* Statements of main.go about a shutdown that Scan refutes; TLC stops at the
\* first, so keep one of them at a time.
SPECIFICATION Spec
CONSTANTS
  Symbols = {s1, s2}
  ScanConc = 1
  BatchSize = 1
INVARIANTS
  GracefulShutdown
PROPERTIES
  NoSignalAfterCancel
\* The scanner returns when it is cancelled, and the program may crash.
CHECK_DEADLOCK FALSE
