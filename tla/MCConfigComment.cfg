SPECIFICATION Spec
CONSTANTS
  Sections = {Main, Worker}
  Keys = {k}
  Values = {v, w}
  Null = Null
  MaxLines = 2
  MaxAgain = 1
PROPERTY
  CommentsIgnored
