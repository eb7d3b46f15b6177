CONSTANTS
  a1 = a1
  a2 = a2
  a3 = a3
  a4 = a4
  Probe = Probe
  Area <- MCArea
  Readable <- MCReadable
  Garbled <- MCGarbled
  MaxDirections = 1
  MaxKept = 2
  MaxIterations = 3
  MaxWallClock = 1
  MaxCandidates = 2
  CallMinutes = 0
SPECIFICATION Spec
PROPERTIES
  SuccessIsAnswered
