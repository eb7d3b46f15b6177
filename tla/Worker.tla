-------------------------------- MODULE Worker --------------------------------
(***************************************************************************)
(* What a worker may report on an area and how the reports of the seed's   *)
(* sub-areas are merged (src/Worker.cpp).  The model's text is arbitrary,  *)
(* so a reply is any member of a set; only what the parser can let through *)
(* is in it.                                                               *)
(***************************************************************************)
EXTENDS Tasks

CONSTANT MaxDirections    \* bound: directions in one reply

ASSUME MaxDirectionsAssumption == MaxDirections \in Nat

\* The directions parsed from one reply, numbered from the task counter on.
\* A direction with a blank area or goal is dropped after taking a number:
\* numbers may have gaps, which nothing can tell.
Numbered(n, areas) == [i \in 1..Len(areas) |-> Direction(n + i, areas[i])]

AreaLists == UNION {[1..k -> Area] : k \in 0..MaxDirections}

\* ParseWorkerResponse.  A reply that is no JSON object, whose outcome is
\* unknown or that throws half way is a "no_information"; what it may carry
\* besides is read by nobody, so NoFinding stands for all of these.
Parsed(n) ==
  {NoFinding} \cup
  {[outcome |-> o, summary |-> s, dirs |-> Numbered(n, areas)] :
     o \in {"success", "partial"}, s \in BOOLEAN, areas \in AreaLists}

\* Whether the report of a sub-area says anything.
Counts(f) == f.outcome # "no_information"

BetterOutcome(old, new) ==
  IF new = "success" THEN "success"
  ELSE IF new = "partial" /\ old = "no_information" THEN "partial"
  ELSE old

\* One turn of the loop of Execute.  Merging into NoFinding returns the
\* report itself, so a task with a single area is merged the same way.
Merge(merged, sub) ==
  IF Counts(sub)
    THEN [outcome |-> BetterOutcome(merged.outcome, sub.outcome),
          summary |-> merged.summary \/ sub.summary,
          dirs    |-> merged.dirs \o sub.dirs]
    ELSE merged

\* The areas ExecuteSingleArea is called on, in order.
SubAreas(t) == IF Repeatable(t) THEN t.targets ELSE <<t.area>>
==============================================================================
