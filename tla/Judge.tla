-------------------------------- MODULE Judge --------------------------------
(***************************************************************************)
(* What the judge may make of a worker's finding (src/Judge.cpp).  Its     *)
(* reply is arbitrary text, so the indices it keeps are any list, repeats  *)
(* included; entries that are out of range or no integer are skipped.      *)
(***************************************************************************)
EXTENDS Tasks

CONSTANT MaxKept    \* bound: indices in one reply

ASSUME MaxKeptAssumption == MaxKept \in Nat

IndexLists(n) == UNION {[1..k -> 1..n] : k \in 0..MaxKept}

\* ApplyJudgeResponse for a reply that keeps the directions at "indices" and
\* leaves a summary, or none.
Pruned(f, summary, indices) ==
  [outcome |-> IF f.outcome = "partial" /\ ~summary /\ indices = <<>>
                 THEN "no_information" ELSE f.outcome,
   summary |-> summary,
   dirs    |-> [k \in 1..Len(indices) |-> f.dirs[indices[k]]]]

\* A failed call or a reply that does not parse passes the finding unchanged.
Reviewed(f) ==
  IF f.outcome = "no_information"
    THEN {f}
    ELSE {f} \cup {Pruned(f, s, ks) :
                     s \in BOOLEAN, ks \in IndexLists(Len(f.dirs))}
==============================================================================
