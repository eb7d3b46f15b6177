CONSTANTS
  t1 = t1
  t2 = t2
  ann = ann
  dots = dots
  NoThread = NoThread
  NoMatch = NoMatch
  Blank = Blank
  Thread <- MCThread
  Name <- MCName
  Word <- MCWord
  Kept <- MCKept
  Typed <- MCTyped
  Said <- MCSaid
  Faults = {"open", "write"}
  MaxRequests = 3
  MaxCrashes = 1
SPECIFICATION Spec
INVARIANTS
  TypeOK
  StaysTidy
  FileInStep
  OwnChangesListed
PROPERTIES
  ImplementsMemory
  Answered
CHECK_DEADLOCK FALSE
