SPECIFICATION FairMCSpec
CONSTANTS
  c1 = c1
  c2 = c2
  m1 = m1
  m2 = m2
  m3 = m3
  Callers = {c1, c2}
  Messages = {m1, m2, m3}
  Vectors <- MCVectors
INVARIANTS TypeOK SerialTask NoLostPush Conserved
PROPERTIES DrainedAtReturn StopEndsUnlessMissed AcceptedIsProcessed
