SPECIFICATION CtlSpec
CONSTANTS
  EngineType = "TITAN"
  hotflow_ms = 2
  preignite_ms = 0
  pressureshutoff_ms = 0
  enableShutoff = FALSE
  IGN_CHECK_MS = 1
  MaxLate = 0
  MaxBack = 0
  MaxFwd = 0
  Word = 16
  Span = 8
  Clocks = {0}
  Received <- SomeBytes
  Typed <- SomeBytes
  MaxBytes = 2
  MaxWaiting = 1
INVARIANTS
  ServerTypeOK NeverBadSocket NoLeak InOrder
PROPERTIES
  StopKept SessionRunsOut NextServed StopGetsThrough BurnEndsAlone
CHECK_DEADLOCK FALSE
