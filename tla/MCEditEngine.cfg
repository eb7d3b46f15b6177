CONSTANTS
  p1 = p1
  p2 = p2
  new = new
  dir = dir
  out = out
  Probe = Probe
  Area <- MCFilesAndNew
  Path <- MCFilesAndNew
  Outside <- MCOut
  Sources <- MCFiles
  Faults = {"resolve", "open", "write", "close"}
  Covers <- MCNoDirs
  Garbled <- MCSecond
  Apply = TRUE
  MaxDirections = 1
  MaxEdits = 2
  MaxIterations = 2
  MaxCandidates = 1
SPECIFICATION Spec
INVARIANTS
  TypeOK
  ReportedUnlessAborted
  OnlyFlushesAreMissed
  OnlyVouched
  BuildsOnLatest
PROPERTIES
  EveryEditReported
