CONSTANTS
  p1 = p1
  p2 = p2
  new = new
  dir = dir
  out = out
  Probe = Probe
  Area <- MCFiles
  Path <- MCFiles
  Outside <- MCNone
  Sources <- MCFiles
  Faults = {}
  Covers <- MCNoDirs
  Garbled <- MCNone
  Apply = TRUE
  MaxDirections = 1
  MaxEdits = 1
  MaxIterations = 2
  MaxCandidates = 2
SPECIFICATION Spec
INVARIANTS
  NothingOverwritten
