SPECIFICATION Spec
CONSTANTS
  NumSensors = 2
  PT1Index = 1
  num_items = 3
  BUFF_SIZE = 52
  Shortfalls = {0, 1, 3}
  MaxRounds = 9
  Loggers = {0, 1, 2}
  MaxSecond = 2
\* The model stops after MaxRounds rounds, and the process where main returns.
CHECK_DEADLOCK FALSE
INVARIANTS
  TypeOK LogIsOrdered Accounted SentIsLogged SocketReady LostOnlyAtTurn
