-------------------------------- MODULE Tasks --------------------------------
(***************************************************************************)
(* The values that travel between the queue, the workers, the judge and   *)
(* the engines (include/cppcoder/Types.h).                                 *)
(*                                                                         *)
(* Texts are abstracted: an area is a member of a set, a goal and its      *)
(* criteria are left out (nothing branches on them once the direction has  *)
(* been parsed), and of a summary only "is it empty" is kept.              *)
(***************************************************************************)
EXTENDS Integers, Sequences, FiniteSets

CONSTANTS Area,   \* files, directories and globs a task may aim at
          Probe   \* the umbrella area "(keyword probe: N files)" of the seed

\* The umbrella text is not the path of anything in the code base.
ASSUME ProbeAssumption == Probe \notin Area

Place == Area \cup {Probe}

\* id 0 is "seed", id n > 0 is "task-n", NoParent is the empty parentId.
SeedId   == 0
NoParent == -1

Task == [id      : Nat,
         area    : Place,
         depth   : Nat,
         parent  : Nat \cup {NoParent},
         targets : Seq(Area)]

\* task.repeatable /\ ~task.repeatTargets.empty(): only the seed is made
\* repeatable, and never without targets.
Repeatable(t) == t.targets # <<>>

Outcome == {"success", "no_information", "partial"}

Finding == [outcome : Outcome,
            summary : BOOLEAN,      \* the summary is not empty
            dirs    : Seq(Task)]    \* suggestedDirections

NoFinding == [outcome |-> "no_information", summary |-> FALSE, dirs |-> <<>>]

\* A direction as it is parsed from a reply: depth 0 and no parent until the
\* engine queues it.
Direction(i, a) ==
  [id |-> i, area |-> a, depth |-> 0, parent |-> NoParent, targets |-> <<>>]

\* The areas of a sequence of tasks.
AreasOf(ts) == {ts[i].area : i \in 1..Len(ts)}
==============================================================================
