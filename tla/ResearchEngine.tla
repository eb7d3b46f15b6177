---------------------------- MODULE ResearchEngine ----------------------------
(***************************************************************************)
(* One run of ResearchEngine::Research (src/ResearchEngine.cpp) with its   *)
(* task queue, worker and judge.  The run is a single thread; its steps    *)
(* are cut at the calls to the model, the only places where time passes    *)
(* and where the outcome is not the program's own.                         *)
(*                                                                         *)
(*   start -> loop -> work -> review -> record -> dispatch -> loop ...     *)
(*   loop -> finish -> done, start -> done, work -> aborted                *)
(*                                                                         *)
(* Time is counted in whole minutes, as the loop's own test does.          *)
(***************************************************************************)
EXTENDS TaskQueue, Worker, Judge

CONSTANTS
  Readable,        \* the areas of which Scan includes at least one file
  Garbled,         \* those among them with a path or text that is not UTF-8
  MaxIterations,   \* EngineConfig::maxIterations
  MaxWallClock,    \* EngineConfig::maxWallClock, in minutes
  MaxCandidates,   \* the cut of SeedInitialTasks (25 in the code)
  CallMinutes      \* the longest call to the model, in minutes (its sockets
                   \* time out after OllamaConfig::timeoutSeconds)

ASSUME EngineAssumption ==
  /\ Readable \subseteq Area
  /\ Garbled \subseteq Readable
  /\ MaxIterations \in Int
  /\ MaxWallClock \in Int
  /\ MaxCandidates \in Nat \ {0}
  /\ CallMinutes \in Nat

VARIABLES
  pc,
  current,      \* task
  sub,          \* index of the sub-area Execute is at
  raw,          \* rawFinding
  finding,      \* finding, after the judge
  next,         \* index into finding's directions
  iterations,
  clock,        \* minutes since engineStart
  counter,      \* TaskCounter of Worker.cpp
  successes,    \* successfulFindings
  answered,     \* result.answered
  reason,       \* result.terminationReason, "" while unset
  probed,       \* history: the areas the seed covers
  scans         \* history: how often each area was investigated

locals == <<current, sub, raw, finding, next>>
result == <<answered, reason>>
history == <<probed, scans>>
vars == <<qvars, pc, locals, iterations, clock, counter, successes, result,
          history>>

\* The locals of the loop body outside of it.
NoTask == Direction(SeedId, Probe)

ClearLocals ==
  /\ current' = NoTask
  /\ sub' = 1
  /\ raw' = NoFinding
  /\ finding' = NoFinding
  /\ next' = 1

Init ==
  /\ QInit
  /\ pc = "start"
  /\ current = NoTask
  /\ sub = 1
  /\ raw = NoFinding
  /\ finding = NoFinding
  /\ next = 1
  /\ iterations = 0
  /\ clock = 0
  /\ counter = 0
  /\ successes = {}
  /\ answered = FALSE
  /\ reason = ""
  /\ probed = {}
  /\ scans = [p \in Place |-> 0]

\* A call to the model, answered or timed out.
Generate == clock' \in clock .. clock + CallMinutes

-----------------------------------------------------------------------------
\* The files the keywords match: sorted, without repetition, cut.  A sorted
\* list is any injective one, as the areas have no order here.
CandidateLists ==
  {s \in UNION {[1..k -> Area] : k \in 0..MaxCandidates} :
     \A i, j \in DOMAIN s : s[i] = s[j] => i = j}

Seed(candidates) ==
  [id |-> SeedId, area |-> Probe, depth |-> 0, parent |-> NoParent,
   targets |-> candidates]

\* ExtractKeywords and SeedInitialTasks find nothing to start from.
NoDirection ==
  /\ pc = "start"
  /\ Generate
  /\ reason' = "no direction"
  /\ pc' = "done"
  /\ UNCHANGED <<qvars, locals, iterations, counter, successes, answered,
                 history>>

PushSeed(candidates) ==
  /\ pc = "start"
  /\ candidates # <<>>
  /\ Generate
  /\ Push(Seed(candidates))
  /\ probed' = {candidates[i] : i \in DOMAIN candidates}
  /\ pc' = "loop"
  /\ UNCHANGED <<locals, iterations, counter, successes, result, scans>>

-----------------------------------------------------------------------------
\* Slips: the limit is not tested, is off by one, the clock is off by one.
LoopIgnoresIterations ==
  pc = "loop" /\ queue # <<>> /\ clock < MaxWallClock

LoopOneMore ==
  LoopIgnoresIterations /\ iterations <= MaxIterations

LoopOneMinuteMore ==
  pc = "loop" /\ queue # <<>> /\ iterations < MaxIterations
    /\ clock <= MaxWallClock

\* The tests at the head of the loop, in their order.
LoopMayRun ==
  /\ pc = "loop"
  /\ queue # <<>>
  /\ iterations < MaxIterations
  /\ clock < MaxWallClock

Leave(why) ==
  /\ reason' = why
  /\ pc' = "finish"
  /\ UNCHANGED <<qvars, locals, iterations, clock, counter, successes,
                 answered, history>>

QueueDrained == pc = "loop" /\ queue = <<>> /\ Leave("")

IterationsReached ==
  /\ pc = "loop"
  /\ queue # <<>>
  /\ iterations >= MaxIterations
  /\ Leave("iterations")

ClockExhausted ==
  /\ pc = "loop"
  /\ queue # <<>>
  /\ iterations < MaxIterations
  /\ clock >= MaxWallClock
  /\ Leave("clock")

StartTask ==
  /\ LoopMayRun
  /\ Pop
  /\ current' = Head(queue)
  /\ pc' = "work"
  /\ UNCHANGED <<sub, raw, finding, next, iterations, clock, counter,
                 successes, result, history>>

-----------------------------------------------------------------------------
\* After the report of a sub-area: the next one, or the judge.
NextSubArea ==
  IF sub = Len(SubAreas(current))
    THEN pc' = "review" /\ sub' = 1
    ELSE pc' = pc /\ sub' = sub + 1

\* ExecuteSingleArea finds no file to read: the model is not asked.
SkipUnreadable ==
  /\ pc = "work"
  /\ SubAreas(current)[sub] \notin Readable
  /\ raw' = Merge(raw, NoFinding)
  /\ NextSubArea
  /\ UNCHANGED <<qvars, current, finding, next, iterations, clock, counter,
                 successes, result, history>>

\* ExecuteSingleArea asks the model about the next sub-area; f is what its
\* reply, or its silence, comes to.
Investigate(f) ==
  /\ pc = "work"
  /\ SubAreas(current)[sub] \in Readable \ Garbled
  /\ Generate
  /\ counter' = counter + Len(f.dirs)
  /\ raw' = Merge(raw, f)
  /\ scans' = [scans EXCEPT ![SubAreas(current)[sub]] = @ + 1]
  /\ NextSubArea
  /\ UNCHANGED <<qvars, current, finding, next, iterations, successes,
                 result, probed>>

\* The prompt holds the text of the files as it is.  Where that is no UTF-8
\* the dump of the request throws, outside of Generate's try block, and no
\* caller up to main catches it.
Abort ==
  /\ pc = "work"
  /\ SubAreas(current)[sub] \in Garbled
  /\ pc' = "aborted"
  /\ UNCHANGED <<qvars, locals, iterations, clock, counter, successes, result,
                 history>>

\* judge_.Review: a finding without information is not sent to the model.
Review(f) ==
  /\ pc = "review"
  /\ f \in Reviewed(raw)
  /\ finding' = f
  /\ IF raw.outcome = "no_information" THEN UNCHANGED clock ELSE Generate
  /\ pc' = "record"
  /\ UNCHANGED <<qvars, current, sub, raw, next, iterations, counter,
                 successes, result, history>>

\* MarkVisited and ++iterations, then the branch on the outcome: only a
\* partial finding has its directions queued.
Record ==
  /\ pc = "record"
  /\ MarkVisited(current.area)
  /\ iterations' = iterations + 1
  /\ successes' = IF finding.outcome = "success"
                    THEN successes \cup {[area    |-> current.area,
                                          summary |-> finding.summary]}
                    ELSE successes
  /\ IF finding.outcome = "partial" /\ finding.dirs # <<>>
       THEN pc' = "dispatch" /\ UNCHANGED locals
       ELSE pc' = "loop" /\ ClearLocals
  /\ UNCHANGED <<clock, counter, result, history>>

\* Slips: the depth counts iterations, or goes the wrong way.
ChildByIteration(dir) ==
  [dir EXCEPT !.depth = iterations, !.parent = current.id]

ChildAbove(dir) ==
  [dir EXCEPT !.depth = current.depth - 1, !.parent = current.id]

\* The direction as it is queued.
Child(dir) == [dir EXCEPT !.depth = current.depth + 1, !.parent = current.id]

\* Slips: the loop breaks at a direction Push refuses, or tries it again.
LastOrRefused ==
  next = Len(finding.dirs) \/ ~Fresh(finding.dirs[next].area)

SameIfRefused == IF Fresh(finding.dirs[next].area) THEN next + 1 ELSE next

LastDirection == next = Len(finding.dirs)

NextDirection == next + 1

Dispatch ==
  /\ pc = "dispatch"
  /\ Push(Child(finding.dirs[next]))
  /\ IF LastDirection
       THEN pc' = "loop" /\ ClearLocals
       ELSE pc' = pc /\ next' = NextDirection
            /\ UNCHANGED <<current, sub, raw, finding>>
  /\ UNCHANGED <<iterations, clock, counter, successes, result, history>>

-----------------------------------------------------------------------------
\* Slip: the reason is overwritten.
AnswerDrained ==
  /\ pc = "finish"
  /\ successes # {}
  /\ Generate
  /\ answered' = TRUE
  /\ reason' = "drained"
  /\ pc' = "done"
  /\ UNCHANGED <<qvars, locals, iterations, counter, successes, history>>

\* After the loop.  With a successful finding the model is asked once more;
\* a failed call is answered with the raw findings.
Answer ==
  /\ pc = "finish"
  /\ successes # {}
  /\ Generate
  /\ answered' = TRUE
  /\ reason' = IF reason = "" THEN "drained" ELSE reason
  /\ pc' = "done"
  /\ UNCHANGED <<qvars, locals, iterations, counter, successes, history>>

\* Slip: a run that a limit ended is not answered.
GiveUpOnLimit ==
  /\ pc = "finish"
  /\ successes = {} \/ reason # ""
  /\ reason' = IF reason = "" THEN "drained without success" ELSE reason
  /\ pc' = "done"
  /\ UNCHANGED <<qvars, locals, iterations, clock, counter, successes,
                 answered, history>>

GiveUp ==
  /\ pc = "finish"
  /\ successes = {}
  /\ reason' = IF reason = "" THEN "drained without success" ELSE reason
  /\ pc' = "done"
  /\ UNCHANGED <<qvars, locals, iterations, clock, counter, successes,
                 answered, history>>

\* The run is over: Research has returned, or the program is gone.
Over == pc \in {"done", "aborted"} /\ UNCHANGED vars

Next ==
  \/ NoDirection
  \/ \E candidates \in CandidateLists : PushSeed(candidates)
  \/ QueueDrained \/ IterationsReached \/ ClockExhausted
  \/ StartTask
  \/ SkipUnreadable
  \/ \E f \in Parsed(counter) : Investigate(f)
  \/ Abort
  \/ \E f \in Reviewed(raw) : Review(f)
  \/ Record
  \/ Dispatch
  \/ Answer \/ GiveUp
  \/ Over

\* The thread keeps running and every call to the model returns: it has a
\* timeout (OllamaClient.cpp).
Spec == Init /\ [][Next]_vars /\ WF_vars(Next)

-----------------------------------------------------------------------------
Reasons == {"", "no direction", "iterations", "clock", "drained",
            "drained without success"}

TypeOK ==
  /\ QTypeOK
  /\ pc \in {"start", "loop", "work", "review", "record", "dispatch",
             "finish", "done", "aborted"}
  /\ current \in Task
  /\ sub \in Nat \ {0}
  /\ raw \in Finding
  /\ finding \in Finding
  /\ next \in Nat \ {0}
  /\ iterations \in Nat
  /\ clock \in Nat
  /\ counter \in Nat
  /\ successes \subseteq [area : Place, summary : BOOLEAN]
  /\ answered \in BOOLEAN
  /\ reason \in Reasons
  /\ probed \subseteq Area
  /\ scans \in [Place -> Nat]

\* The area taken off the queue and not yet marked visited.
InFlight ==
  IF pc \in {"work", "review", "record", "aborted"} THEN {current.area} ELSE {}

\* Every area the run has ever accepted.
Known == visited \cup queuedAreas \cup InFlight

\* No area is taken up again: what is visited or in flight is not queued, and
\* what is in flight is not visited (ResearchEngine.h:41 "never revisiting an
\* area").  TaskQueue alone does not give this, as an area may be pushed
\* again between Pop and MarkVisited: it rests on the loop marking the area
\* before it pushes a direction (ResearchEngine.cpp:240 before 253).
NoRevisit ==
  /\ queuedAreas \cap visited = {}
  /\ InFlight \cap (queuedAreas \cup visited) = {}

\* The search is breadth first: the queue is sorted by depth and spans at
\* most two levels, those of the task in hand and of its directions, so an
\* area is explored at the depth of the first task that proposes it.
BreadthFirst ==
  /\ \A i, j \in 1..Len(queue) : i <= j =>
       /\ queue[i].depth <= queue[j].depth
       /\ queue[j].depth <= queue[i].depth + 1
  /\ pc \in {"work", "review", "record", "dispatch"} =>
       \A i \in 1..Len(queue) :
         queue[i].depth \in current.depth .. current.depth + 1

\* The iteration count the limit is put on is the number of areas explored,
\* and the limit holds (ResearchEngine.cpp:205, 240-241).
IterationBudget ==
  /\ iterations = Cardinality(visited)
  /\ iterations > 0 => iterations <= MaxIterations

\* No two tasks on the queue, nor one of them and the task in hand, carry the
\* same id, which is how the event log names them.  The judge may repeat an
\* index and so hand over one direction twice: only the queue's test on the
\* area keeps the second one out.
UniqueIds ==
  /\ \A i, j \in 1..Len(queue) : queue[i].id = queue[j].id => i = j
  /\ pc \in {"work", "review", "record", "dispatch"} =>
       \A i \in 1..Len(queue) : queue[i].id # current.id

\* The reason that is reported is the one that ended the run, and a run that
\* was answered or drained is reported as such.
HonestReason ==
  pc = "done" =>
    /\ answered <=> successes # {}
    /\ reason \in {"drained", "drained without success", "no direction"}
         <=> queue = <<>>
    /\ reason = "no direction" <=> probed = {}
    /\ reason = "drained" => answered
    /\ reason = "drained without success" => ~answered
    /\ reason = "iterations" => iterations >= MaxIterations
    /\ reason = "clock" =>
         clock >= MaxWallClock /\ iterations < MaxIterations

\* The wall clock is read between tasks only, so the budget is overrun, by
\* no more than one task (each seed area, then the judge) and the synthesis.
BoundedOverrun ==
  clock <= CallMinutes \/ clock < MaxWallClock + (MaxCandidates + 2) * CallMinutes

\* An area is investigated once, and once more if the seed covered it: the
\* seed's areas are never marked visited, only its umbrella is.
ScannedTwiceAtMost ==
  \A p \in Place : scans[p] <= IF p \in probed THEN 2 ELSE 1

\* An iteration is over.
IterationEnds == pc \in {"record", "dispatch"} /\ pc' = "loop"

\* When the iteration of a partial finding ends, each of its directions is
\* queued, or its area has been visited before.
LeadsFollowed ==
  [][IterationEnds /\ finding.outcome = "partial" =>
       AreasOf(finding.dirs) \subseteq visited' \cup queuedAreas']_vars

\* No accepted area is ever lost on its way from the queue through the hands
\* of the worker and the judge to the visited set.
NothingForgotten == [][Known \subseteq Known']_vars

\* The run ends, whatever the model answers.
Terminates == <>(pc \in {"done", "aborted"})

\* What is left of a run: iterations, stages of the one at hand, and turns of
\* the loop that its stage is.
IterationsLeft ==
  IF iterations < MaxIterations THEN MaxIterations - iterations ELSE 0

StagesLeft ==
  CASE pc = "start" -> 7 [] pc = "dispatch" -> 6 [] pc = "loop" -> 5
    [] pc = "work" -> 4 [] pc = "review" -> 3 [] pc = "record" -> 2
    [] pc = "finish" -> 1 [] pc \in {"done", "aborted"} -> 0

TurnsLeft ==
  CASE pc = "work" -> Len(SubAreas(current)) - sub
    [] pc = "dispatch" -> Len(finding.dirs) - next
    [] OTHER -> 0

\* Every step brings the run nearer to its end, whatever the model answers
\* and whether the queue takes a direction or not: the loops over the queue,
\* over the sub-areas of a task and over its directions count down together
\* (ResearchEngine.cpp:203, 253; Worker.cpp:158).
Nearer ==
  /\ TurnsLeft' \in Nat
  /\ \/ IterationsLeft' < IterationsLeft
     \/ /\ IterationsLeft' = IterationsLeft
        /\ \/ StagesLeft' < StagesLeft
           \/ StagesLeft' = StagesLeft /\ TurnsLeft' < TurnsLeft

Advances == [][Nearer]_vars

\* One success is enough for an answer, also where a limit ends the run, but
\* for the program's own end (ResearchEngine.cpp:264-291).
AnsweredUnlessAborted == successes # {} ~> answered \/ pc = "aborted"

\* README.md:43-44 "Once at least one task succeeds, the accumulated findings
\* are synthesized into a final answer".
SuccessIsAnswered == successes # {} ~> answered

-----------------------------------------------------------------------------
Status ==
  IF pc \in {"finish", "done"}
    THEN IF reason \in {"iterations", "clock"} THEN "cutoff" ELSE "drained"
    ELSE "running"

Abstract == INSTANCE Exploration
  WITH Location <- Place,
       Budget   <- MaxIterations,
       frontier <- queuedAreas \cup InFlight,
       explored <- visited,
       spent    <- iterations,
       status   <- Status

\* The loop, its queue and its limits implement a worklist exploration.
ImplementsExploration == Abstract!Spec
==============================================================================
