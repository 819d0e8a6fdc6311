SPECIFICATION FairSpec
CONSTANTS
  p1 = p1
  p2 = p2
  n1 = n1
  n2 = n2
  n3 = n3
  n4 = n4
  Callers = {p1, p2}
  Vectors = {}
  NoName = NoName
  Size = 3
  Messages <- UpdateMessages
  Names = {n1, n2, n3, n4}
  Todo <- UpdateTodo
  InDb = {n1, n2, n4}
  NewCache = FALSE
  LoadMayFail = TRUE
INVARIANTS PipelineTypeOK TodoAccounted OneRow CommitsAllAccepted
PROPERTIES DroppedOnlyBeforeStart IndexIsAtomic EndsUnlessMissed
