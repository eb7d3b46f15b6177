-------------------------------- MODULE Editor --------------------------------
(***************************************************************************)
(* What an editor may propose for an area and how the proposals for the    *)
(* seed's files are merged (src/Editor.cpp).  An edit replaces the whole   *)
(* of a file: of its text only the version of the file that the model was  *)
(* shown is kept, and the outcome of the reply it came in.                 *)
(***************************************************************************)
EXTENDS Tasks, PatchApplier

CONSTANTS MaxDirections,   \* bound: directions in one reply
          MaxEdits         \* bound: edits in one reply

ASSUME EditBoundsAssumption == MaxDirections \in Nat /\ MaxEdits \in Nat

EditOutcome == {"success", "no_change", "partial"}

Unseen == -1    \* the file was not in the prompt

Edit == [path : Path \cup Outside,
         seen : Nat \cup {Unseen},
         from : EditOutcome]        \* history: the outcome of its reply

EditFinding == [outcome : EditOutcome, edits : Seq(Edit), dirs : Seq(Task)]

NoChange == [outcome |-> "no_change", edits |-> <<>>, dirs |-> <<>>]

ListsUpTo(S, n) == UNION {[1..k -> S] : k \in 0..n}

\* Slip: the text shown is that of the first scan.
ProposedOnCache(p, shown, outcome) ==
  [path |-> p, from |-> outcome, seen |-> IF p \in shown THEN 0 ELSE Unseen]

\* An edit of path p by a model that was shown the files "shown".
Proposed(p, shown, outcome) ==
  [path |-> p, from |-> outcome,
   seen |-> IF p \in shown THEN disk[p].writes ELSE Unseen]

Numbered(n, areas) == [i \in 1..Len(areas) |-> Direction(n + i, areas[i])]

\* The edits of one reply, of the paths ps.
EditsOf(ps, shown, outcome) ==
  [i \in 1..Len(ps) |-> Proposed(ps[i], shown, outcome)]

PathLists == ListsUpTo(Path \cup Outside, MaxEdits)

\* ParseEditResponse.  A reply that throws half way becomes "no_change" but
\* keeps the edits parsed until then, as does one that says "no_change" and
\* lists edits; the directions of such a reply are read by nobody.
Parsed(n, shown) ==
  {[outcome |-> o, edits |-> EditsOf(ps, shown, o), dirs |-> Numbered(n, areas)] :
      o \in {"success", "partial"}, ps \in PathLists,
      areas \in ListsUpTo(Area, MaxDirections)}
  \cup
  {[outcome |-> "no_change", edits |-> EditsOf(ps, shown, "no_change"),
    dirs    |-> <<>>] : ps \in PathLists}

\* Slip: what counts is whether there are edits.
CountsByEdits(f) == f.edits # <<>>

Counts(f) == f.outcome # "no_change"

BetterOutcome(old, new) ==
  IF new = "success" THEN "success"
  ELSE IF new = "partial" /\ old = "no_change" THEN "partial"
  ELSE old

Joined(merged, f) ==
  [outcome |-> BetterOutcome(merged.outcome, f.outcome),
   edits   |-> merged.edits \o f.edits,
   dirs    |-> merged.dirs \o f.dirs]

\* One turn of the loop of Execute.
Merge(merged, f) == IF Counts(f) THEN Joined(merged, f) ELSE merged

\* A task with one area returns the reply as it is.
Combine(t, merged, f) == IF Repeatable(t) THEN Merge(merged, f) ELSE f

\* The areas ExecuteSingleArea is called on, in order.
SubAreas(t) == IF Repeatable(t) THEN t.targets ELSE <<t.area>>
==============================================================================
