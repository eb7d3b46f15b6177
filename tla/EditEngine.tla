------------------------------ MODULE EditEngine ------------------------------
(***************************************************************************)
(* A run of the edit engine (src/EditEngine.cpp): the seed, the loop over  *)
(* the queue with its limits, the editor's proposals and, with "apply",    *)
(* the files they are written to.  There is no judge.  The steps are cut   *)
(* at the calls to the model and at every file written.                    *)
(***************************************************************************)
EXTENDS TaskQueue, Editor

CONSTANTS
  Covers,          \* the files below each area that is no file itself
  Garbled,         \* files whose original text is not UTF-8
  Apply,           \* EditEngineConfig::apply
  MaxIterations,   \* EditEngineConfig::maxIterations
  MaxCandidates    \* the cut of SeedInitialTasks (25 in the code)

ASSUME EditEngineAssumption ==
  /\ Path \subseteq Area
  /\ Covers \in [Area \ Path -> SUBSET Path]
  /\ Garbled \subseteq Sources
  /\ Apply \in BOOLEAN
  /\ MaxIterations \in Int
  /\ MaxCandidates \in Nat \ {0}

VARIABLES
  pc,
  current,      \* task
  sub,          \* index of the sub-area Execute is at
  finding,
  next,         \* index into finding's edits, then into its directions
  iterations,
  late,         \* the wall clock budget is used up
  counter,      \* TaskCounter of Editor.cpp
  proposed,     \* proposedEdits
  reason        \* result.terminationReason, "" while unset

locals == <<current, sub, finding, next>>
vars == <<qvars, pvars, pc, locals, iterations, late, counter, proposed,
          reason>>

NoTask == Direction(SeedId, Probe)

ClearLocals ==
  /\ current' = NoTask
  /\ sub' = 1
  /\ finding' = NoChange
  /\ next' = 1

\* A budget of no minutes is used up at once.
Init ==
  /\ QInit
  /\ PInit
  /\ pc = "start"
  /\ current = NoTask
  /\ sub = 1
  /\ finding = NoChange
  /\ next = 1
  /\ iterations = 0
  /\ late \in BOOLEAN
  /\ counter = 0
  /\ proposed = <<>>
  /\ reason = ""

\* A call to the model takes its time.
Generate == late' \in {late, TRUE}

-----------------------------------------------------------------------------
\* The files the keywords match: sorted, without repetition, cut.
CandidateLists ==
  {s \in ListsUpTo(Sources, MaxCandidates) :
     \A i, j \in DOMAIN s : s[i] = s[j] => i = j}

Seed(candidates) ==
  [id |-> SeedId, area |-> Probe, depth |-> 0, parent |-> NoParent,
   targets |-> candidates]

Return(why) ==
  /\ reason' = why
  /\ pc' = "done"
  /\ UNCHANGED <<qvars, pvars, locals, iterations, counter, proposed>>

NoTarget == pc = "start" /\ Generate /\ Return("no target")

PushSeed(candidates) ==
  /\ pc = "start"
  /\ candidates # <<>>
  /\ Generate
  /\ Push(Seed(candidates))
  /\ pc' = "loop"
  /\ UNCHANGED <<pvars, locals, iterations, counter, proposed, reason>>

-----------------------------------------------------------------------------
\* Slip: the limit is off by one.
LoopOneMore ==
  pc = "loop" /\ queue # <<>> /\ iterations <= MaxIterations /\ ~late

LoopMayRun ==
  pc = "loop" /\ queue # <<>> /\ iterations < MaxIterations /\ ~late

QueueDrained ==
  pc = "loop" /\ queue = <<>> /\ Return("drained") /\ UNCHANGED late

IterationsReached ==
  /\ pc = "loop"
  /\ queue # <<>>
  /\ iterations >= MaxIterations
  /\ Return("iterations")
  /\ UNCHANGED late

ClockExhausted ==
  /\ pc = "loop"
  /\ queue # <<>>
  /\ iterations < MaxIterations
  /\ late
  /\ Return("clock")
  /\ UNCHANGED late

StartTask ==
  /\ LoopMayRun
  /\ Pop
  /\ current' = Head(queue)
  /\ pc' = "work"
  /\ UNCHANGED <<pvars, sub, finding, next, iterations, late, counter,
                 proposed, reason>>

-----------------------------------------------------------------------------
\* The files Scan finds at an area, as the disk is now.
FilesAt(a) ==
  {p \in Path : disk[p].exists /\ IF a \in Path THEN p = a ELSE p \in Covers[a]}

\* After a sub-area: the next one, or the end of Execute.
NextSubArea ==
  IF sub = Len(SubAreas(current))
    THEN pc' = "record" /\ sub' = 1
    ELSE pc' = pc /\ sub' = sub + 1

\* Nothing of the area can be read within the token budget, or the call to
\* the model fails.
NoReply ==
  /\ pc = "work"
  /\ Generate
  /\ finding' = Combine(current, finding, NoChange)
  /\ NextSubArea
  /\ UNCHANGED <<qvars, pvars, current, next, iterations, counter, proposed,
                 reason>>

\* The text of a file is no UTF-8 for certain, or for all one knows: a write
\* that was cut may have been cut within a character.
Garbles(p) == p \in Garbled /\ disk[p].writes = 0

MayGarble(p) == Garbles(p) \/ disk[p].text # "whole"

\* The model is shown the files that fit the token budget, and replies.
Investigate(shown, f) ==
  /\ pc = "work"
  /\ ~\E p \in shown : Garbles(p)
  /\ Generate
  /\ counter' = counter + Len(f.dirs)
  /\ finding' = Combine(current, finding, f)
  /\ NextSubArea
  /\ UNCHANGED <<qvars, pvars, current, next, iterations, proposed, reason>>

\* An exception that nobody up to main catches: what Apply and Run were going
\* to report is unwound with their locals.
Unwind ==
  /\ pc' = "aborted"
  /\ LoseReports
  /\ proposed' = <<>>
  /\ UNCHANGED <<qvars, locals, iterations, late, counter, reason>>

\* The request with these files cannot be serialized.
Abort(shown) == pc = "work" /\ (\E p \in shown : MayGarble(p)) /\ Unwind

\* Where the body of the loop goes on once the edits are dealt with: only a
\* partial finding has its directions queued.
Follow ==
  IF finding.outcome = "partial" /\ finding.dirs # <<>>
    THEN pc' = "dispatch" /\ next' = 1 /\ UNCHANGED <<current, sub, finding>>
    ELSE pc' = "loop" /\ ClearLocals

Writes == Counts(finding) /\ finding.edits # <<>> /\ Apply

\* MarkVisited and ++iterations, then the branch on the edits: written one
\* by one, or kept for the report.
Record ==
  /\ pc = "record"
  /\ MarkVisited(current.area)
  /\ iterations' = iterations + 1
  /\ IF Writes
       THEN pc' = "apply" /\ UNCHANGED <<locals, proposed>>
       ELSE /\ proposed' = IF Counts(finding) THEN proposed \o finding.edits
                                              ELSE proposed
            /\ Follow
  /\ UNCHANGED <<pvars, late, counter, reason>>

\* Slip: the batch ends at an edit that is turned down.
LastOrRejected ==
  next = Len(finding.edits) \/ finding.edits[next].path \in Outside

LastEdit == next = Len(finding.edits)

WriteNext ==
  /\ pc = "apply"
  /\ ApplyEdit(finding.edits[next].path)
  /\ IF LastEdit
       THEN Follow
       ELSE pc' = pc /\ next' = next + 1 /\ UNCHANGED <<current, sub, finding>>
  /\ UNCHANGED <<qvars, iterations, late, counter, proposed, reason>>

\* IsPathSafe resolves the path with calls that throw, on a name that is too
\* long for one, also when the batch has changed files already.
AbortApply == pc = "apply" /\ "resolve" \in Faults /\ Unwind

Child(dir) == [dir EXCEPT !.depth = current.depth + 1, !.parent = current.id]

\* Slips: the loop breaks at a direction Push refuses, or tries it again.
LastOrRefused ==
  next = Len(finding.dirs) \/ ~Fresh(finding.dirs[next].area)

SameIfRefused == IF Fresh(finding.dirs[next].area) THEN next + 1 ELSE next

LastDirection == next = Len(finding.dirs)

NextDirection == next + 1

Dispatch ==
  /\ pc = "dispatch"
  /\ Push(Child(finding.dirs[next]))
  /\ IF LastDirection
       THEN pc' = "loop" /\ ClearLocals
       ELSE pc' = pc /\ next' = NextDirection
            /\ UNCHANGED <<current, sub, finding>>
  /\ UNCHANGED <<pvars, iterations, late, counter, proposed, reason>>

\* The run is over: Run has returned, or the program is gone.
Over == pc \in {"done", "aborted"} /\ UNCHANGED vars

\* Scan at the sub-area in hand: any part of it may exceed the budget.
Shown == SUBSET FilesAt(SubAreas(current)[sub]) \ {{}}

Next ==
  \/ NoTarget
  \/ \E candidates \in CandidateLists : PushSeed(candidates)
  \/ QueueDrained \/ IterationsReached \/ ClockExhausted
  \/ StartTask
  \/ NoReply
  \/ pc = "work" /\ \E shown \in Shown :
       Abort(shown) \/ \E f \in Parsed(counter, shown) : Investigate(shown, f)
  \/ Record
  \/ WriteNext \/ AbortApply
  \/ Dispatch
  \/ Over

\* The thread keeps running: calls to the model have a timeout.
Spec == Init /\ [][Next]_vars /\ WF_vars(Next)

-----------------------------------------------------------------------------
TypeOK ==
  /\ QTypeOK
  /\ PTypeOK
  /\ pc \in {"start", "loop", "work", "record", "apply", "dispatch", "done",
             "aborted"}
  /\ current \in Task
  /\ sub \in Nat \ {0}
  /\ finding \in EditFinding
  /\ next \in Nat \ {0}
  /\ iterations \in Nat
  /\ late \in BOOLEAN
  /\ counter \in Nat
  /\ proposed \in Seq(Edit)
  /\ reason \in {"", "no target", "drained", "iterations", "clock"}

InReport(p) == p \in Entries(written) \cup Entries(errors)

\* README.md:331 "Nothing is written to disk unless you pass --apply", and a
\* file the run touched, or only cut, is in the lists the report is made of
\* for as long as there is to be a report (PatchApplier.cpp:64-76,
\* EditEngine.cpp:201-221).
ReportedUnlessAborted ==
  \A p \in Path : disk[p] # Original[p] =>
    Apply /\ (pc # "aborted" => InReport(p))

\* README.md:335-336 "the run report lists what was written, rejected ..., or
\* hit an I/O error": a file the run touched is listed, whatever ends the run.
TouchedIsReported == \A p \in Path : disk[p] # Original[p] => InReport(p)

\* Of a file reported written, and not also as an error, nothing is missing
\* but what was lost when the file was closed: a write that failed before is
\* an error, whatever was written to the file before or after it
\* (PatchApplier.cpp:64-75).
OnlyFlushesAreMissed ==
  \A p \in Entries(written) \ Entries(errors) :
    disk[p].exists /\ disk[p].text # "cut"

\* README.md:335-336 "lists what was written ..., or hit an I/O error": a file
\* reported written, and not also as an error, is there as a whole.
WrittenIsWhole ==
  \A p \in Entries(written) \ Entries(errors) :
    disk[p].exists /\ disk[p].text = "whole"

\* Only edits of replies that stand by them are written or proposed: a reply
\* that is broken off, or says that nothing need change, leaves no edits
\* behind, neither on its own nor merged with others (Editor.cpp:204, 213;
\* EditEngine.cpp:197-199).
OnlyVouched ==
  /\ pc = "apply" =>
       \A i \in 1..Len(finding.edits) : finding.edits[i].from # "no_change"
  /\ \A i \in 1..Len(proposed) : proposed[i].from # "no_change"

\* The edit rests on an older text of its file than the one it would replace.
Stale(e) == e.seen # Unseen /\ e.path \in Path /\ e.seen # disk[e.path].writes

\* The edit in hand is the first of its finding for its file.
FirstOfFinding ==
  \A j \in 1..next - 1 : finding.edits[j].path # finding.edits[next].path

\* A task builds on what the tasks before it wrote (EditEngine.h:35-38 "so
\* later tasks in the same run see already-written content").
BuildsOnLatest ==
  pc = "apply" /\ FirstOfFinding => ~Stale(finding.edits[next])

\* README.md:332-335 "each edit is applied via PatchApplier as soon as it's
\* produced (so a multi-file task sees its own earlier edits when it re-scans
\* later areas)": no edit undoes one it has not seen.
NothingOverwritten == pc = "apply" => ~Stale(finding.edits[next])

IterationEnds == pc \in {"record", "apply", "dispatch"} /\ pc' = "loop"

Paths(edits) == {edits[i].path : i \in 1..Len(edits)}

\* When an iteration ends, each edit of a finding that counts has been
\* written, rejected, failed or proposed: an edit that cannot be applied does
\* not take the others with it.
EveryEditReported ==
  [][IterationEnds /\ Counts(finding) =>
       Paths(finding.edits) \subseteq Reported' \cup Paths(proposed')]_vars

\* When the iteration of a partial finding ends, each of its directions is
\* queued, or its area has been visited before.
LeadsFollowed ==
  [][IterationEnds /\ finding.outcome = "partial" =>
       AreasOf(finding.dirs) \subseteq visited' \cup queuedAreas']_vars

\* The run ends, whatever the model answers.
Terminates == <>(pc \in {"done", "aborted"})

-----------------------------------------------------------------------------
\* How far the run is from its end at most: the iterations that are left,
\* the stages of the iteration, the turns of the loop the run is in.
IterationsLeft ==
  IF iterations < MaxIterations THEN MaxIterations - iterations ELSE 0

StagesLeft ==
  CASE pc = "start" -> 7 [] pc = "apply" -> 6 [] pc = "dispatch" -> 5
    [] pc = "loop" -> 4 [] pc = "work" -> 3 [] pc = "record" -> 2
    [] pc \in {"done", "aborted"} -> 0

TurnsLeft ==
  CASE pc = "work" -> Len(SubAreas(current)) - sub
    [] pc = "apply" -> Len(finding.edits) - next
    [] pc = "dispatch" -> Len(finding.dirs) - next
    [] OTHER -> 0

\* Every step brings the run nearer to its end, also one that fails to write
\* a file or has a direction refused (EditEngine.cpp:162, 201, 235;
\* Editor.cpp:201).
Nearer ==
  /\ TurnsLeft' \in Nat
  /\ \/ IterationsLeft' < IterationsLeft
     \/ /\ IterationsLeft' = IterationsLeft
        /\ \/ StagesLeft' < StagesLeft
           \/ StagesLeft' = StagesLeft /\ TurnsLeft' < TurnsLeft

Advances == [][Nearer]_vars

-----------------------------------------------------------------------------
\* No two tasks on the queue, nor one of them and the task in hand, carry the
\* same id, which is how the event log names them: the counter goes up over
\* all sub-areas and all replies (Editor.cpp:134-143).
UniqueIds ==
  /\ \A i, j \in 1..Len(queue) : queue[i].id = queue[j].id => i = j
  /\ pc \in {"work", "record", "apply", "dispatch"} =>
       \A i \in 1..Len(queue) : queue[i].id # current.id

-----------------------------------------------------------------------------
\* The area taken off the queue and not yet marked visited.
InFlight ==
  IF pc \in {"work", "record", "aborted"} THEN {current.area} \ visited ELSE {}

Status ==
  IF pc = "done"
    THEN IF reason \in {"iterations", "clock"} THEN "cutoff" ELSE "drained"
    ELSE "running"

Abstract == INSTANCE Exploration
  WITH Location <- Place,
       Budget   <- MaxIterations,
       frontier <- queuedAreas \cup InFlight,
       explored <- visited,
       spent    <- iterations,
       status   <- Status

\* The edit loop, like the research loop, implements a worklist exploration.
ImplementsExploration == Abstract!Spec
==============================================================================
