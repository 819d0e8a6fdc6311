SPECIFICATION FairSpec
CONSTANTS
  p1 = p1
  p2 = p2
  n1 = n1
  n2 = n2
  n3 = n3
  n4 = n4
  Callers = {p1, p2}
  Vectors = {}
  NoName = NoName
  Size = 3
  Messages <- CreateMessages
  Names = {n1, n2, n3}
  Todo <- CreateTodo
  InDb = {}
  NewCache = TRUE
  LoadMayFail = FALSE
PROPERTY SyncEnds
