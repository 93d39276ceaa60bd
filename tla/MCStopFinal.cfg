SPECIFICATION Spec
CONSTANTS
  EngineType = "LUNA"
  hotflow_ms = 4
  preignite_ms = 1
  pressureshutoff_ms = 1
  enableShutoff = FALSE
  IGN_CHECK_MS = 1
  MaxLate = 1
  MaxBack = 0
  MaxFwd = 0
  Word = 48
  Span = 24
  Clocks <- Ahead
  Received <- IgnitionOnly
PROPERTY
  StopIsFinal
