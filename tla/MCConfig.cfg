SPECIFICATION Spec
CONSTANTS
  Sections = {Main, Worker}
  Keys = {k}
  Values = {v, w}
  Null = Null
  MaxLines = 4
  MaxAgain = 1
INVARIANTS
  TypeOK MapIsTheFile GettersTell
PROPERTIES
  ReadReturns
