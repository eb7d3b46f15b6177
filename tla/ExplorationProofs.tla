--------------------------- MODULE ExplorationProofs ---------------------------
(***************************************************************************)
(* What every worklist exploration keeps, for any places and budget.  The  *)
(* engines get it by implementing Exploration.                             *)
(***************************************************************************)
EXTENDS Exploration, FiniteSetTheorems, TLAPS

LEMMA ExploreAddsUp ==
  ASSUME WorkAddsUp, NEW p, Explore(p), Budget \in Int
  PROVE  WorkAddsUp'
<1>1. /\ p \in frontier /\ frontier' = frontier \ {p} /\ status = "running"
      /\ explored' = explored \cup {p} /\ spent' = spent + 1
      /\ status' = status /\ spent < Budget
  BY DEF Explore
<1>2. p \notin explored /\ IsFiniteSet(explored) /\ Cardinality(explored) = spent
  BY <1>1 DEF WorkAddsUp
<1>3. IsFiniteSet(explored') /\ Cardinality(explored') = spent + 1
  BY <1>1, <1>2, FS_AddElement
<1>4. spent \in Nat
  BY <1>2, FS_CardinalityType
<1>5. spent' <= Budget
  BY <1>1, <1>4
<1> QED
  BY <1>1, <1>2, <1>3, <1>5 DEF WorkAddsUp

\* No place is explored twice or beyond the budget, and the end that a run
\* gives is the true one (ResearchEngine.cpp:203-270, EditEngine.cpp:162-252).
THEOREM ExplorationAddsUp ==
  ASSUME Budget \in Int
  PROVE  Spec => []WorkAddsUp
<1>1. Init => WorkAddsUp
  BY FS_EmptySet DEF Init, WorkAddsUp
<1>2. WorkAddsUp /\ [Next]_evars => WorkAddsUp'
  <2> SUFFICES ASSUME WorkAddsUp, [Next]_evars
               PROVE  WorkAddsUp'
    OBVIOUS
  <2>1. ASSUME NEW p \in Location, Find(p)
        PROVE  WorkAddsUp'
    BY <2>1 DEF Find, WorkAddsUp
  <2>2. ASSUME NEW p \in Location, Explore(p)
        PROVE  WorkAddsUp'
    BY <2>2, ExploreAddsUp
  <2>3. CASE Drain
    BY <2>3 DEF Drain, WorkAddsUp
  <2>4. CASE CutOff
    BY <2>4 DEF CutOff, WorkAddsUp
  <2>5. CASE UNCHANGED evars
    BY <2>5 DEF evars, WorkAddsUp
  <2> QED
    BY <2>1, <2>2, <2>3, <2>4, <2>5 DEF Next
<1> QED
  BY <1>1, <1>2, PTL DEF Spec

\* A place stays found.
Found(p) == p \in frontier \cup explored

DoneWith(p) == status = "drained" => p \in explored

LEMMA FoundStays ==
  ASSUME NEW p
  PROVE  Found(p) /\ [Next]_evars => Found(p)'
BY DEF Found, Next, Find, Explore, Drain, CutOff, evars

LEMMA FoundIsExplored ==
  ASSUME NEW p
  PROVE  Found(p) /\ WorkAddsUp => DoneWith(p)
BY DEF Found, WorkAddsUp, DoneWith

\* A run that ends drained has explored every place it ever found: none was
\* lost on the way.
THEOREM DrainedExploredAll ==
  ASSUME NEW p, Budget \in Int
  PROVE  Spec => [](Found(p) => []DoneWith(p))
BY FoundStays, FoundIsExplored, ExplorationAddsUp, PTL DEF Spec
==============================================================================
