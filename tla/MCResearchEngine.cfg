CONSTANTS
  a1 = a1
  a2 = a2
  a3 = a3
  a4 = a4
  Probe = Probe
  Area <- MCArea
  Readable <- MCReadable
  Garbled <- MCGarbled
  MaxDirections = 1
  MaxKept = 3
  MaxIterations = 3
  MaxWallClock = 1
  MaxCandidates = 2
  CallMinutes = 1
SPECIFICATION Spec
INVARIANTS
  TypeOK
  NoRevisit
  BreadthFirst
  IterationBudget
  UniqueIds
  ScannedTwiceAtMost
  HonestReason
  BoundedOverrun
PROPERTIES
  LeadsFollowed
  NothingForgotten
  Advances
  ImplementsExploration
  Terminates
  AnsweredUnlessAborted
