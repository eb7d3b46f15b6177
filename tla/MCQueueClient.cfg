CONSTANTS
  a1 = a1
  a2 = a2
  a3 = a3
  Probe = Probe
  Area <- MCArea
  Offers <- MCOffers
SPECIFICATION Spec
INVARIANTS
  QueuedAreasExact
  DistinctAreas
PROPERTIES
  VisitedStayOut
  Served
