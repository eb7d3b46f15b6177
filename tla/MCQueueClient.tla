---------------------------- MODULE MCQueueClient ----------------------------
(***************************************************************************)
(* Three files and the umbrella area; one task for each, and a second task *)
(* for one of the files, so that a push can meet an area queued by another *)
(* task.                                                                   *)
(***************************************************************************)
EXTENDS QueueClient

CONSTANTS a1, a2, a3

MCArea == {a1, a2, a3}

MCOffers ==
  {Direction(i, a) : i \in {1}, a \in MCArea}
    \cup {Direction(2, a1)}
    \cup {[Direction(SeedId, Probe) EXCEPT !.targets = <<a1, a2>>]}
==============================================================================
