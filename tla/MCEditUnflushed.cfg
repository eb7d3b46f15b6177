CONSTANTS
  p1 = p1
  p2 = p2
  new = new
  dir = dir
  out = out
  Probe = Probe
  Area <- MCFiles
  Path <- MCFiles
  Outside <- MCNone
  Sources <- MCFiles
  Faults = {"close"}
  Covers <- MCNoDirs
  Garbled <- MCNone
  Apply = TRUE
  MaxDirections = 0
  MaxEdits = 2
  MaxIterations = 1
  MaxCandidates = 1
SPECIFICATION Spec
INVARIANTS
  WrittenIsWhole
