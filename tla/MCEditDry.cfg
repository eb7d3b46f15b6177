CONSTANTS
  p1 = p1
  p2 = p2
  new = new
  dir = dir
  out = out
  Probe = Probe
  Area <- MCFilesAndDir
  Path <- MCFiles
  Outside <- MCNone
  Sources <- MCFiles
  Faults = {}
  Covers <- MCBelowDir
  Garbled <- MCNone
  Apply = FALSE
  MaxDirections = 2
  MaxEdits = 1
  MaxIterations = 2
  MaxCandidates = 2
SPECIFICATION Spec
PROPERTIES
  LeadsFollowed
  ImplementsExploration
  Terminates
