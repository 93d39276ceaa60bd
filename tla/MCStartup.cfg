SPECIFICATION Spec
CONSTANTS
  Written = {3, 6}
INVARIANTS
  TypeOK OneSelected OwnAnswer
PROPERTIES
  PinsReady StartupEnds BusReleased
