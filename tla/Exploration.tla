----------------------------- MODULE Exploration -----------------------------
(***************************************************************************)
(* What a run of an engine promises, whatever its queue, worker and judge  *)
(* do: a worklist exploration of places.  A place is found, waits on the   *)
(* frontier, is explored once and never waits again; the run ends drained, *)
(* with nothing left to explore, or is cut off by a limit with work left.  *)
(***************************************************************************)
EXTENDS Integers, FiniteSets

CONSTANTS Location,   \* the places that can be explored
          Budget      \* how many may be explored

VARIABLES frontier, explored, spent, status

evars == <<frontier, explored, spent, status>>

Init ==
  /\ frontier = {}
  /\ explored = {}
  /\ spent = 0
  /\ status = "running"

Find(p) ==
  /\ status = "running"
  /\ p \notin explored
  /\ frontier' = frontier \cup {p}
  /\ UNCHANGED <<explored, spent, status>>

Explore(p) ==
  /\ status = "running"
  /\ p \in frontier
  /\ spent < Budget
  /\ frontier' = frontier \ {p}
  /\ explored' = explored \cup {p}
  /\ spent' = spent + 1
  /\ UNCHANGED status

Drain ==
  /\ status = "running"
  /\ frontier = {}
  /\ status' = "drained"
  /\ UNCHANGED <<frontier, explored, spent>>

CutOff ==
  /\ status = "running"
  /\ frontier # {}
  /\ status' = "cutoff"
  /\ UNCHANGED <<frontier, explored, spent>>

Next ==
  \/ \E p \in Location : Find(p) \/ Explore(p)
  \/ Drain
  \/ CutOff

Spec == Init /\ [][Next]_evars

-----------------------------------------------------------------------------
\* The books of an exploration: nothing explored waits again, each place that
\* was explored is paid for once and within the budget, and the end that is
\* given is the true one: drained with nothing left, cut off with work left.
WorkAddsUp ==
  /\ frontier \cap explored = {}
  /\ IsFiniteSet(explored) /\ Cardinality(explored) = spent
  /\ spent = 0 \/ spent <= Budget
  /\ status = "drained" => frontier = {}
  /\ status = "cutoff" => frontier # {}
==============================================================================
