SPECIFICATION LiveSpec
CONSTANTS
  EngineType = "LUNA"
  hotflow_ms = 5
  preignite_ms = 1
  pressureshutoff_ms = 1
  enableShutoff = TRUE
  IGN_CHECK_MS = 1
  MaxLate = 1
  MaxBack = 2
  MaxFwd = 1
  Word = 48
  Span = 24
  Clocks <- SomeClocks
  Received <- IgnitionAndDrivers
INVARIANTS
  TypeOK BurnBounded NothingOutlivesBurn StopEndsBurn CutoffEndsBurn MainOpenTracksBurn
PROPERTIES
  OpensAfterPreignite TimerNotEarly BurnRefined BurnRefinedLive StartServed
