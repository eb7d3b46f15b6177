------------------------- MODULE ResearchEngineProofs -------------------------
(***************************************************************************)
(* Theorems about ResearchEngine, for every code base, every reply of the  *)
(* model and every limit.                                                  *)
(***************************************************************************)
EXTENDS ResearchEngine, TaskQueueProofs, SequenceTheorems, FiniteSetTheorems

-----------------------------------------------------------------------------
\* What the worker's parsing and merging and the judge's pruning preserve, for
\* replies of any length.

\* The directions of a reply are fresh tasks: numbered from n on, with no
\* sub-areas of their own, aimed at paths.
LEMMA ParsedFindings ==
  ASSUME NEW n \in Nat, NEW f \in Parsed(n)
  PROVE  /\ f \in Finding
         /\ \A i \in 1..Len(f.dirs) :
              /\ f.dirs[i].id = n + i
              /\ f.dirs[i].area \in Area
              /\ f.dirs[i].targets = <<>>
<1>1. CASE f = NoFinding
  BY <1>1 DEF NoFinding, Finding, Outcome
<1>2. ASSUME NEW o \in {"success", "partial"}, NEW s \in BOOLEAN,
             NEW areas \in AreaLists,
             f = [outcome |-> o, summary |-> s, dirs |-> Numbered(n, areas)]
      PROVE  /\ f \in Finding
             /\ \A i \in 1..Len(f.dirs) :
                  /\ f.dirs[i].id = n + i
                  /\ f.dirs[i].area \in Area
                  /\ f.dirs[i].targets = <<>>
  <2>1. PICK k \in Nat : areas \in [1..k -> Area]
    BY MaxDirectionsAssumption DEF AreaLists
  <2>2. areas \in Seq(Area) /\ Len(areas) = k
    BY <2>1, SeqDef
  <2>3. \A i \in 1..k : Direction(n + i, areas[i]) \in Task
    BY <2>1, EmptySeq DEF Direction, Task, Place
  <2>4. Numbered(n, areas) \in [1..k -> Task]
    BY <2>2, <2>3 DEF Numbered
  <2>5. Numbered(n, areas) \in Seq(Task) /\ Len(Numbered(n, areas)) = k
    BY <2>4, SeqDef
  <2>6. f \in Finding
    BY <1>2, <2>5 DEF Finding, Outcome
  <2>7. ASSUME NEW i \in 1..k
        PROVE  /\ Numbered(n, areas)[i].id = n + i
               /\ Numbered(n, areas)[i].area \in Area
               /\ Numbered(n, areas)[i].targets = <<>>
    BY <2>1, <2>2 DEF Numbered, Direction
  <2> QED
    BY <1>2, <2>5, <2>6, <2>7
<1> QED
  BY <1>1, <1>2 DEF Parsed

\* Merging appends the directions of a report, or leaves it out.
LEMMA MergedFindings ==
  ASSUME NEW m \in Finding, NEW f \in Finding
  PROVE  /\ Merge(m, f) \in Finding
         /\ \/ Merge(m, f).dirs = m.dirs
            \/ Merge(m, f).dirs = m.dirs \o f.dirs
<1>1. m.dirs \o f.dirs \in Seq(Task)
  BY ConcatProperties DEF Finding
<1>2. BetterOutcome(m.outcome, f.outcome) \in Outcome
  BY DEF BetterOutcome, Finding, Outcome
<1>3. (m.summary \/ f.summary) \in BOOLEAN
  OBVIOUS
<1> QED
  BY <1>1, <1>2, <1>3 DEF Merge, Finding

\* The judge hands on directions of the finding it was given and no other.
LEMMA ReviewedFindings ==
  ASSUME NEW f \in Finding, NEW g \in Reviewed(f)
  PROVE  /\ g \in Finding
         /\ \A i \in 1..Len(g.dirs) :
              \E k \in 1..Len(f.dirs) : g.dirs[i] = f.dirs[k]
<1>1. CASE g = f
  BY <1>1
<1>2. ASSUME NEW s \in BOOLEAN, NEW ks \in IndexLists(Len(f.dirs)),
             g = Pruned(f, s, ks)
      PROVE  /\ g \in Finding
             /\ \A i \in 1..Len(g.dirs) :
                  \E k \in 1..Len(f.dirs) : g.dirs[i] = f.dirs[k]
  <2>1. PICK k \in Nat : ks \in [1..k -> 1..Len(f.dirs)]
    BY MaxKeptAssumption DEF IndexLists
  <2>2. Len(ks) = k
    BY <2>1, SeqDef
  <2>3. g.dirs = [i \in 1..k |-> f.dirs[ks[i]]]
    BY <1>2, <2>2 DEF Pruned
  <2>4. \A i \in 1..Len(f.dirs) : f.dirs[i] \in Task
    BY DEF Finding
  <2>5. g.dirs \in [1..k -> Task]
    BY <2>1, <2>3, <2>4
  <2>6. g.dirs \in Seq(Task) /\ Len(g.dirs) = k
    BY <2>5, SeqDef
  <2>7. g \in Finding
    BY <1>2, <2>6 DEF Pruned, Finding, Outcome
  <2> QED
    BY <2>1, <2>3, <2>6, <2>7
<1> QED
  BY <1>1, <1>2 DEF Reviewed

-----------------------------------------------------------------------------

\* Where the loop's indices stand.
Positions ==
  /\ pc = "start" => queue = <<>> /\ visited = {} /\ queuedAreas = {}
  /\ pc = "work" => sub <= Len(SubAreas(current))
  /\ pc \notin {"work", "aborted"} => sub = 1
  /\ pc = "dispatch" => next <= Len(finding.dirs)
  /\ pc # "dispatch" => next = 1

Base == TypeOK /\ QueuedAreasExact /\ DistinctAreas /\ Positions

InTask == {"work", "review", "record", "dispatch"}

LEMMA NoTaskType == NoTask \in Task /\ NoFinding \in Finding
BY EmptySeq DEF NoTask, Direction, Task, Place, SeedId, NoParent, NoFinding,
   Finding, Outcome

\* The seed is a task, whichever files it covers.
LEMMA SeedType ==
  ASSUME NEW c \in CandidateLists
  PROVE  /\ Seed(c) \in Task
         /\ {c[i] : i \in DOMAIN c} \subseteq Area
<1>1. PICK k \in 0..MaxCandidates : c \in [1..k -> Area]
  BY DEF CandidateLists
<1>2. c \in Seq(Area)
  BY <1>1, SeqDef, EngineAssumption
<1> QED
  BY <1>1, <1>2 DEF Seed, Task, Place, SeedId, NoParent

\* A task always has a sub-area, and all of them are places.
LEMMA SubAreasType ==
  ASSUME NEW t \in Task
  PROVE  /\ SubAreas(t) \in Seq(Place)
         /\ Len(SubAreas(t)) \in Nat \ {0}
<1>1. CASE Repeatable(t)
  <2>1. t.targets \in Seq(Area) /\ t.targets # <<>>
    BY <1>1 DEF Repeatable, Task
  <2>2. t.targets \in Seq(Place)
    BY <2>1, SeqMonotonic DEF Place
  <2> QED
    BY <1>1, <2>1, <2>2, EmptySeq DEF SubAreas
<1>2. CASE ~Repeatable(t)
  <2>1. t.area \in Place
    BY DEF Task
  <2> QED
    BY <1>2, <2>1 DEF SubAreas
<1> QED
  BY <1>1, <1>2

\* A direction stays a task when it is given its depth and parent.
LEMMA ChildType ==
  ASSUME current \in Task, NEW d \in Task
  PROVE  /\ Child(d) \in Task
         /\ Child(d).area = d.area
         /\ Child(d).id = d.id
         /\ Child(d).targets = d.targets
         /\ Child(d).depth = current.depth + 1
<1> DEFINE deeper == [d EXCEPT !.depth = current.depth + 1]
<1>0. current.depth + 1 \in Nat
  BY DEF Task
<1>1. /\ deeper \in Task
      /\ deeper.area = d.area /\ deeper.id = d.id
      /\ deeper.targets = d.targets /\ deeper.depth = current.depth + 1
  BY <1>0 DEF Task
<1>2. Child(d) = [deeper EXCEPT !.parent = current.id]
  BY DEF Child
<1>3. current.id \in Nat
  BY DEF Task
<1> HIDE DEF deeper
<1> QED
  BY <1>1, <1>2, <1>3 DEF Task

LEMMA GenerateType ==
  ASSUME clock \in Nat, Generate
  PROVE  clock' \in Nat /\ clock <= clock' /\ clock' <= clock + CallMinutes
BY EngineAssumption DEF Generate

-----------------------------------------------------------------------------
\* Every step keeps the types, the queue's invariants and the positions.
LEMMA BaseStep == Base /\ [Next]_vars => Base'
<1> SUFFICES ASSUME Base, [Next]_vars
             PROVE  Base'
  OBVIOUS
<1> USE DEF Base, TypeOK
<1>q. QInv
  BY DEF QInv
<1>1. ASSUME \/ pc \in {"start", "loop", "finish"} /\ pc' \in {"finish", "done"}
             \/ pc = "work" /\ pc' = "aborted",
             reason' \in Reasons,
             clock' \in Nat, answered' \in BOOLEAN,
             UNCHANGED <<qvars, locals, iterations, counter, successes,
                         history>>
      PROVE  Base'
  <2>1. Positions'
    BY <1>1 DEF locals, qvars, Positions
  <2>2. QTypeOK' /\ QueuedAreasExact' /\ DistinctAreas'
    BY <1>1, <1>q DEF qvars, QTypeOK, QueuedAreasExact, DistinctAreas, AreasOf
  <2> QED
    BY <1>1, <2>1, <2>2 DEF locals, history
<1>2. ASSUME NEW c \in CandidateLists, PushSeed(c)
      PROVE  Base'
  <2>1. QInv'
    BY <1>2, <1>q, SeedType, PushKeepsQInv DEF PushSeed
  <2>2. probed' \subseteq Area
    BY <1>2, SeedType DEF PushSeed
  <2> QED
    BY <1>2, <2>1, <2>2, EngineAssumption
    DEF PushSeed, locals, result, Generate, QInv, Positions
<1>3. CASE NoDirection \/ QueueDrained \/ IterationsReached
             \/ ClockExhausted \/ Answer \/ GiveUp
  <2>1. clock' \in Nat
    BY <1>3, GenerateType DEF NoDirection, QueueDrained, IterationsReached,
       ClockExhausted, Leave, Answer, GiveUp
  <2>2. reason' \in Reasons
    BY <1>3 DEF NoDirection, QueueDrained, IterationsReached, ClockExhausted,
       Leave, Answer, GiveUp, Reasons
  <2>3. answered' \in BOOLEAN
    BY <1>3 DEF NoDirection, QueueDrained, IterationsReached, ClockExhausted,
       Leave, Answer, GiveUp
  <2> QED
    BY <1>1, <1>3, <2>1, <2>2, <2>3 DEF NoDirection, QueueDrained,
       IterationsReached, ClockExhausted, Leave, Answer, GiveUp
<1>4. CASE StartTask
  <2>1. QInv' /\ Head(queue) \in Task
    BY <1>4, <1>q, PopKeepsQInv DEF StartTask
  <2>2. Len(SubAreas(Head(queue))) \in Nat \ {0}
    BY <2>1, SubAreasType
  <2> QED
    BY <1>4, <2>1, <2>2
    DEF StartTask, LoopMayRun, result, history, QInv, Positions
<1>5. ASSUME NEW f \in Finding, pc = "work", raw' = Merge(raw, f),
             scans' \in [Place -> Nat], counter' \in Nat, clock' \in Nat,
             NextSubArea,
             UNCHANGED <<qvars, current, finding, next, iterations, successes,
                         result, probed>>
      PROVE  Base'
  <2>1. raw' \in Finding
    BY <1>5, MergedFindings
  <2>2. Len(SubAreas(current)) \in Nat
    BY SubAreasType
  <2>3. Positions'
    BY <1>5, <2>2 DEF NextSubArea, Positions, qvars
  <2> QED
    BY <1>5, <1>q, <2>1, <2>3 DEF NextSubArea, qvars, result, QTypeOK,
       QueuedAreasExact, DistinctAreas, AreasOf
<1>6. CASE SkipUnreadable
  BY <1>5, <1>6, NoTaskType DEF SkipUnreadable, history
<1>7. ASSUME NEW f \in Parsed(counter), Investigate(f)
      PROVE  Base'
  <2>1. f \in Finding /\ Len(f.dirs) \in Nat
    <3>1. f \in Finding
      BY ParsedFindings
    <3>2. f.dirs \in Seq(Task)
      BY <3>1 DEF Finding
    <3> QED
      BY <3>1, <3>2, LenProperties
  <2>2. SubAreas(current)[sub] \in Place
    BY <1>7, SubAreasType DEF Investigate, Positions
  <2>3. scans' \in [Place -> Nat]
    BY <1>7, <2>2 DEF Investigate
  <2>4. counter' \in Nat /\ clock' \in Nat
    BY <1>7, <2>1, GenerateType DEF Investigate
  <2> QED
    BY <1>5, <1>7, <2>1, <2>3, <2>4 DEF Investigate
<1>8. ASSUME NEW f \in Reviewed(raw), Review(f)
      PROVE  Base'
  <2>1. f \in Finding
    BY ReviewedFindings
  <2>2. clock' \in Nat
    BY <1>8, GenerateType DEF Review
  <2> QED
    BY <1>8, <1>q, <2>1, <2>2 DEF Review, qvars, result, history, QTypeOK,
       QueuedAreasExact, DistinctAreas, AreasOf, Positions
<1>9. CASE Record
  <2>1. current.area \in Place
    BY DEF Task
  <2>2. QInv'
    BY <1>9, <1>q, <2>1, MarkVisitedKeepsQInv DEF Record
  <2>3. successes' \subseteq [area : Place, summary : BOOLEAN]
    BY <1>9, <2>1 DEF Record, Finding
  <2>4. /\ Len(finding.dirs) \in Nat
        /\ finding.dirs # <<>> => Len(finding.dirs) >= 1
    BY EmptySeq DEF Finding
  <2>5. CASE finding.outcome = "partial" /\ finding.dirs # <<>>
    BY <1>9, <2>2, <2>3, <2>4, <2>5
    DEF Record, locals, result, history, QInv, Positions
  <2>6. CASE ~(finding.outcome = "partial" /\ finding.dirs # <<>>)
    BY <1>9, <2>2, <2>3, <2>6, NoTaskType
    DEF Record, ClearLocals, result, history, QInv, Positions
  <2> QED
    BY <2>5, <2>6
<1>10. CASE Dispatch
  <2>1. finding.dirs \in Seq(Task) /\ next \in 1..Len(finding.dirs)
    BY <1>10 DEF Dispatch, Finding, Positions
  <2>2. Child(finding.dirs[next]) \in Task
    BY <2>1, ChildType
  <2>3. QInv'
    BY <1>10, <1>q, <2>2, PushKeepsQInv DEF Dispatch
  <2>4. CASE next = Len(finding.dirs)
    BY <1>10, <2>3, <2>4, NoTaskType
    DEF Dispatch, LastDirection, ClearLocals, result, history, QInv, Positions
  <2>5. CASE next # Len(finding.dirs)
    BY <1>10, <2>1, <2>3, <2>5
    DEF Dispatch, LastDirection, NextDirection, result, history, QInv, Positions
  <2> QED
    BY <2>4, <2>5
<1>12. CASE Abort
  BY <1>1, <1>12 DEF Abort, result
<1>11. CASE UNCHANGED vars
  BY <1>11, <1>q DEF vars, qvars, locals, result, history, QTypeOK,
     QueuedAreasExact, DistinctAreas, AreasOf, Positions
<1> QED
  BY <1>2, <1>3, <1>4, <1>6, <1>7, <1>8, <1>9, <1>10, <1>11, <1>12
  DEF Next, Over

LEMMA BaseInit == Init => Base
<1> SUFFICES ASSUME Init
             PROVE  Base
  OBVIOUS
<1>1. QTypeOK /\ QueuedAreasExact /\ DistinctAreas
  <2>1. queue = <<>> /\ visited = {} /\ queuedAreas = {}
    BY DEF Init, QInit
  <2>2. queue \in Seq(Task) /\ 1..Len(queue) = {}
    BY <2>1, EmptySeq
  <2> QED
    BY <2>1, <2>2 DEF QTypeOK, QueuedAreasExact, DistinctAreas, AreasOf
<1>2. current \in Task /\ raw \in Finding /\ finding \in Finding
  BY NoTaskType DEF Init
<1>3. answered \in BOOLEAN
  BY DEF Init
<1>4. reason \in Reasons
  BY DEF Init, Reasons
<1>5. scans \in [Place -> Nat]
  BY DEF Init
<1>6. Positions
  BY DEF Init, QInit, Positions
<1>7. /\ pc = "start" /\ sub = 1 /\ next = 1 /\ iterations = 0 /\ clock = 0
      /\ counter = 0 /\ successes = {} /\ probed = {}
  BY DEF Init
<1> QED
  BY <1>1, <1>2, <1>3, <1>4, <1>5, <1>6, <1>7 DEF Base, TypeOK

LEMMA BaseInvariant == Spec => []Base
BY BaseInit, BaseStep, PTL DEF Spec

\* Every variable keeps its type.
THEOREM TypeCorrect == Spec => []TypeOK
BY BaseInvariant, PTL DEF Base

\* The queue is used as its class promises.
THEOREM QueueStaysExact == Spec => [](QueuedAreasExact /\ DistinctAreas)
BY BaseInvariant, PTL DEF Base

-----------------------------------------------------------------------------
\* NoRevisit and IterationBudget go together: an area that is recorded is
\* counted because it was not visited before.  The limit is tested when a
\* task is taken off the queue, so below it while the task is in hand.
Explored ==
  /\ NoRevisit
  /\ IsFiniteSet(visited)
  /\ IterationBudget
  /\ pc \in {"work", "review", "record", "aborted"} => iterations < MaxIterations

LEMMA ExploredInit == Init => Explored
<1> SUFFICES ASSUME Init
             PROVE  Explored
  OBVIOUS
<1>1. visited = {} /\ queuedAreas = {} /\ iterations = 0 /\ pc = "start"
  BY DEF Init, QInit
<1>2. IsFiniteSet(visited) /\ Cardinality(visited) = 0
  BY <1>1, FS_EmptySet
<1> QED
  BY <1>1, <1>2 DEF Explored, NoRevisit, InFlight, IterationBudget

LEMMA ExploredStep == Base /\ Explored /\ [Next]_vars => Explored'
<1> SUFFICES ASSUME Base, Explored, [Next]_vars
             PROVE  Explored'
  OBVIOUS
<1> USE DEF Explored
<1>1. ASSUME UNCHANGED <<visited, queuedAreas, current, iterations>>,
             pc' \in {"work", "review", "record", "aborted"}
               <=> pc \in {"work", "review", "record", "aborted"}
      PROVE  Explored'
  BY <1>1 DEF NoRevisit, InFlight, IterationBudget
<1>2. ASSUME UNCHANGED <<visited, queuedAreas, iterations>>,
             pc \notin {"work", "review", "record", "aborted"},
             pc' \notin {"work", "review", "record", "aborted"}
      PROVE  Explored'
  BY <1>2 DEF NoRevisit, InFlight, IterationBudget
<1>3. ASSUME NEW c \in CandidateLists, PushSeed(c)
      PROVE  Explored'
  BY <1>3 DEF PushSeed, Push, Accept, Refuse, Fresh, Base, Positions, NoRevisit,
     InFlight, IterationBudget, qvars
<1>4. CASE StartTask
  <2>1. /\ queuedAreas' = queuedAreas \ {Head(queue).area}
        /\ visited' = visited /\ current' = Head(queue)
        /\ iterations' = iterations /\ pc = "loop" /\ pc' = "work"
        /\ iterations < MaxIterations
    BY <1>4 DEF StartTask, LoopMayRun, Pop
  <2>2. Head(queue).area \in queuedAreas
    <3>1. Head(queue) = queue[1] /\ 1 \in 1..Len(queue)
      BY <1>4 DEF StartTask, LoopMayRun, Base, TypeOK, QTypeOK
    <3> QED
      BY <3>1 DEF Base, QueuedAreasExact, AreasOf
  <2> QED
    BY <2>1, <2>2 DEF NoRevisit, InFlight, IterationBudget
<1>5. CASE Record
  <2>1. /\ pc = "record" /\ pc' \in {"loop", "dispatch"}
        /\ visited' = visited \cup {current.area}
        /\ queuedAreas' = queuedAreas /\ iterations' = iterations + 1
    BY <1>5 DEF Record, MarkVisited
  <2>2. current.area \notin visited \cup queuedAreas
    BY <2>1 DEF NoRevisit, InFlight
  <2>3. iterations \in Nat /\ MaxIterations \in Int
    BY EngineAssumption DEF Base, TypeOK
  <2>4. /\ IsFiniteSet(visited')
        /\ Cardinality(visited') = Cardinality(visited) + 1
    BY <2>1, <2>2, FS_AddElement
  <2>5. IterationBudget'
    BY <2>1, <2>3, <2>4 DEF IterationBudget
  <2> QED
    BY <2>1, <2>2, <2>4, <2>5 DEF NoRevisit, InFlight
<1>6. CASE Dispatch
  BY <1>6 DEF Dispatch, Push, Accept, Refuse, Fresh, qvars, NoRevisit,
     InFlight, IterationBudget, ClearLocals
<1> QED
  BY <1>1, <1>2, <1>3, <1>4, <1>5, <1>6
  DEF Next, NoDirection, QueueDrained, IterationsReached, ClockExhausted,
      Leave, SkipUnreadable, Investigate, NextSubArea, Abort, Review, Answer,
      GiveUp, Over, vars, qvars, locals

LEMMA ExploredInvariant == Spec => []Explored
BY ExploredInit, ExploredStep, BaseInvariant, PTL DEF Spec

\* No area is queued again once it is in hand or visited, and none is in hand
\* that was visited before (ResearchEngine.h:41).
THEOREM NeverRevisits == Spec => []NoRevisit
BY ExploredInvariant, PTL DEF Explored

\* The number of areas explored is the number the limit is put on, and the
\* limit holds (ResearchEngine.cpp:205, 240-241).
THEOREM WithinIterations == Spec => []IterationBudget
BY ExploredInvariant, PTL DEF Explored

-----------------------------------------------------------------------------
\* The steps that neither touch the queue nor change the task in hand.
QuietStep ==
  /\ UNCHANGED queue
  /\ pc' \in InTask => pc \in InTask /\ current' = current

\* Every step is quiet, or one of the four that move tasks.
LEMMA StepKinds ==
  ASSUME Base, [Next]_vars
  PROVE  \/ QuietStep
         \/ \E c \in CandidateLists : PushSeed(c)
         \/ StartTask
         \/ Dispatch
<1>1. CASE Record
  BY <1>1 DEF Record, MarkVisited, locals, QuietStep, InTask
<1>2. CASE UNCHANGED vars
  BY <1>2 DEF vars, qvars, locals, QuietStep
<1>3. CASE NoDirection \/ QueueDrained \/ IterationsReached
             \/ ClockExhausted \/ Answer \/ GiveUp
  BY <1>3 DEF NoDirection, QueueDrained, IterationsReached, ClockExhausted,
     Leave, Answer, GiveUp, qvars, QuietStep, InTask
<1>4. CASE SkipUnreadable
  BY <1>4 DEF SkipUnreadable, NextSubArea, qvars, QuietStep, InTask
<1>7. CASE Abort
  BY <1>7 DEF Abort, qvars, QuietStep, InTask
<1>5. ASSUME NEW f \in Parsed(counter), Investigate(f)
      PROVE  QuietStep
  BY <1>5 DEF Investigate, NextSubArea, qvars, QuietStep, InTask
<1>6. ASSUME NEW f \in Reviewed(raw), Review(f)
      PROVE  QuietStep
  BY <1>6 DEF Review, qvars, QuietStep, InTask
<1> QED
  BY <1>1, <1>2, <1>3, <1>4, <1>5, <1>6, <1>7 DEF Next, Over

\* The direction being dispatched.
LEMMA Dispatched ==
  ASSUME Base, pc = "dispatch"
  PROVE  /\ finding.dirs \in Seq(Task) /\ next \in 1..Len(finding.dirs)
         /\ finding.dirs[next] \in Task /\ current \in Task
<1>1. finding.dirs \in Seq(Task) /\ current \in Task
  BY DEF Base, TypeOK, Finding
<1>2. next \in 1..Len(finding.dirs)
  BY <1>1 DEF Base, TypeOK, Positions
<1> QED
  BY <1>1, <1>2, ElementOfSeq

LEMMA BreadthFirstStep == Base /\ BreadthFirst /\ [Next]_vars => BreadthFirst'
<1> SUFFICES ASSUME Base, BreadthFirst, [Next]_vars
             PROVE  BreadthFirst'
  OBVIOUS
<1>q. queue \in Seq(Task) /\ \A i \in 1..Len(queue) : queue[i].depth \in Nat
  <2>1. queue \in Seq(Task)
    BY DEF Base, TypeOK, QTypeOK
  <2>2. \A t \in Task : t.depth \in Nat
    BY DEF Task
  <2> QED
    BY <2>1, <2>2, ElementOfSeq
<1>1. CASE QuietStep
  BY <1>1 DEF QuietStep, BreadthFirst, InTask
<1>2. ASSUME NEW c \in CandidateLists, PushSeed(c)
      PROVE  BreadthFirst'
  <2>1. pc' = "loop" /\ queue = <<>>
    BY <1>2 DEF PushSeed, Base, Positions
  <2>2. CASE queue' = queue
    BY <2>1, <2>2 DEF BreadthFirst
  <2>3. CASE queue' = Append(queue, Seed(c))
    <3>1. Len(queue') = 1 /\ queue'[1].depth = 0
      BY <2>1, <2>3 DEF Seed
    <3> QED
      BY <2>1, <3>1 DEF BreadthFirst
  <2> QED
    BY <1>2, <2>2, <2>3 DEF PushSeed, Push, Accept, Refuse, qvars
<1>3. CASE StartTask
  <2>1. /\ queue # <<>> /\ queue' = Tail(queue) /\ current' = Head(queue)
    BY <1>3 DEF StartTask, LoopMayRun, Pop
  <2>2. /\ Len(queue') = Len(queue) - 1
        /\ \A i \in 1..Len(queue') : queue'[i] = queue[i + 1]
        /\ current' = queue[1] /\ 1 \in 1..Len(queue)
        /\ \A i \in 1..Len(queue') : i + 1 \in 1..Len(queue)
    BY <1>q, <2>1
  <2>3. \A i, j \in 1..Len(queue) : i <= j =>
          /\ queue[i].depth <= queue[j].depth
          /\ queue[j].depth <= queue[i].depth + 1
    BY DEF BreadthFirst
  <2>4. ASSUME NEW i \in 1..Len(queue')
        PROVE  queue'[i].depth \in current'.depth .. current'.depth + 1
    <3>1. i + 1 \in 1..Len(queue) /\ 1 <= i + 1
      BY <2>2
    <3>2. /\ queue[1].depth <= queue[i + 1].depth
          /\ queue[i + 1].depth <= queue[1].depth + 1
          /\ queue[1].depth \in Nat /\ queue[i + 1].depth \in Nat
      BY <1>q, <2>2, <2>3, <3>1
    <3>3. queue'[i] = queue[i + 1] /\ current' = queue[1]
      BY <2>2
    <3> QED
      BY <3>2, <3>3
  <2>5. ASSUME NEW i \in 1..Len(queue'), NEW j \in 1..Len(queue'), i <= j
        PROVE  /\ queue'[i].depth <= queue'[j].depth
               /\ queue'[j].depth <= queue'[i].depth + 1
    <3>1. i + 1 \in 1..Len(queue) /\ j + 1 \in 1..Len(queue) /\ i + 1 <= j + 1
      BY <2>2, <2>5
    <3> QED
      BY <2>2, <2>3, <3>1
  <2> QED
    BY <2>4, <2>5 DEF BreadthFirst
<1>4. CASE Dispatch
  <2>1. CASE queue' = queue
    BY <1>4, <2>1 DEF Dispatch, ClearLocals, BreadthFirst
  <2>2. CASE queue' = Append(queue, Child(finding.dirs[next]))
    <3>1. finding.dirs[next] \in Task /\ current.depth \in Nat
      BY <1>4, Dispatched DEF Dispatch, Task
    <3>2. Child(finding.dirs[next]).depth = current.depth + 1
      BY <3>1, ChildType DEF Base, TypeOK
    <3>3. /\ Len(queue') = Len(queue) + 1
          /\ \A i \in 1..Len(queue) : queue'[i] = queue[i]
          /\ queue'[Len(queue) + 1].depth = current.depth + 1
      BY <1>q, <2>2, <3>2
    <3>4. \A i \in 1..Len(queue) :
            queue[i].depth \in current.depth .. current.depth + 1
      BY <1>4 DEF Dispatch, BreadthFirst
    <3>5. \A i \in 1..Len(queue') :
            queue'[i].depth \in current.depth .. current.depth + 1
      BY <1>q, <3>1, <3>3, <3>4
    <3>6. ASSUME NEW i \in 1..Len(queue'), NEW j \in 1..Len(queue'), i <= j
          PROVE  /\ queue'[i].depth <= queue'[j].depth
                 /\ queue'[j].depth <= queue'[i].depth + 1
      <4>1. \A k \in 1..Len(queue') : queue'[k].depth \in Nat
        BY <3>1, <3>5
      <4>2. CASE j \in 1..Len(queue)
        <5>1. i \in 1..Len(queue)
          BY <1>q, <3>6, <4>2
        <5> QED
          BY <3>3, <3>6, <4>2, <5>1 DEF BreadthFirst
      <4>3. CASE j = Len(queue) + 1
        <5>1. queue'[j].depth = current.depth + 1
          BY <3>3, <4>3
        <5>2. queue'[i].depth \in current.depth .. current.depth + 1
          BY <3>5
        <5> QED
          BY <3>1, <5>1, <5>2
      <4> QED
        BY <1>q, <3>3, <4>2, <4>3
    <3>7. pc' \in InTask => current' = current
      BY <1>4 DEF Dispatch, InTask
    <3> QED
      BY <3>5, <3>6, <3>7 DEF BreadthFirst, InTask
  <2> QED
    BY <1>4, <2>1, <2>2 DEF Dispatch, Push, Accept, Refuse, qvars
<1> QED
  BY <1>1, <1>2, <1>3, <1>4, StepKinds

\* Areas are explored in the order of their distance from the question: the
\* queue is sorted by depth and spans two levels (ResearchEngine.cpp:253-256,
\* and the deque's two ends).
THEOREM ExploresBreadthFirst == Spec => []BreadthFirst
<1>1. Init => BreadthFirst
  <2>1. ASSUME Init PROVE pc = "start" /\ queue = <<>>
    BY <2>1 DEF Init, QInit
  <2> QED
    BY <2>1, EmptySeq DEF BreadthFirst
<1> QED
  BY <1>1, BreadthFirstStep, BaseInvariant, PTL DEF Spec

-----------------------------------------------------------------------------
\* The area of the task taken off the queue passes to the hand.
LEMMA StartedArea ==
  ASSUME Base, StartTask
  PROVE  /\ Head(queue).area \in queuedAreas
         /\ queuedAreas' = queuedAreas \ {Head(queue).area}
         /\ InFlight = {} /\ InFlight' = {Head(queue).area}
         /\ visited' = visited
<1>1. Head(queue) = queue[1] /\ 1 \in 1..Len(queue)
  BY DEF StartTask, LoopMayRun, Base, TypeOK, QTypeOK
<1>2. Head(queue).area \in queuedAreas
  BY <1>1 DEF Base, QueuedAreasExact, AreasOf
<1> QED
  BY <1>2 DEF StartTask, LoopMayRun, Pop, InFlight

\* What the other steps do to the three places an area can be in.
LEMMA AreaMoves ==
  ASSUME Base, [Next]_vars
  PROVE  \/ UNCHANGED <<visited, queuedAreas, InFlight>>
         \/ /\ UNCHANGED <<visited, InFlight>> /\ pc \in {"start", "dispatch"}
            /\ \E a \in Place : a \notin visited
                                /\ queuedAreas' = queuedAreas \cup {a}
            /\ pc' \in {"loop", "dispatch"} /\ InFlight = {}
         \/ StartTask
         \/ Record
<1>1. ASSUME NEW t \in Task, Push(t), pc \in {"start", "dispatch"},
             pc' \in {"loop", "dispatch"}
      PROVE  \/ UNCHANGED <<visited, queuedAreas, InFlight>>
             \/ /\ UNCHANGED <<visited, InFlight>>
                /\ \E a \in Place : a \notin visited
                                    /\ queuedAreas' = queuedAreas \cup {a}
                /\ pc' \in {"loop", "dispatch"} /\ InFlight = {}
  <2>1. t.area \in Place
    BY DEF Task
  <2> QED
    BY <1>1, <2>1 DEF Push, Accept, Refuse, Fresh, qvars, InFlight
<1>2. ASSUME NEW c \in CandidateLists, PushSeed(c)
      PROVE  Push(Seed(c)) /\ Seed(c) \in Task /\ pc = "start" /\ pc' = "loop"
  BY <1>2, SeedType DEF PushSeed
<1>3. CASE Dispatch
  <2>1. Push(Child(finding.dirs[next])) /\ Child(finding.dirs[next]) \in Task
    BY <1>3, Dispatched, ChildType DEF Dispatch, Base, TypeOK
  <2>2. pc = "dispatch" /\ pc' \in {"loop", "dispatch"}
    BY <1>3 DEF Dispatch
  <2> QED
    BY <1>1, <2>1, <2>2
<1>4. CASE NoDirection \/ QueueDrained \/ IterationsReached
             \/ ClockExhausted \/ Answer \/ GiveUp
  BY <1>4 DEF NoDirection, QueueDrained, IterationsReached, ClockExhausted,
     Leave, Answer, GiveUp, qvars, InFlight
<1>5. CASE SkipUnreadable \/ Abort
  BY <1>5 DEF SkipUnreadable, Abort, NextSubArea, qvars, locals, InFlight
<1>6. ASSUME NEW f \in Parsed(counter), Investigate(f)
      PROVE  UNCHANGED <<visited, queuedAreas, InFlight>>
  BY <1>6 DEF Investigate, NextSubArea, qvars, InFlight
<1>7. ASSUME NEW f \in Reviewed(raw), Review(f)
      PROVE  UNCHANGED <<visited, queuedAreas, InFlight>>
  BY <1>7 DEF Review, qvars, InFlight
<1>8. CASE UNCHANGED vars
  BY <1>8 DEF vars, qvars, locals, InFlight
<1> QED
  BY <1>1, <1>2, <1>3, <1>4, <1>5, <1>6, <1>7, <1>8 DEF Next, Over

\* Recording moves the area in hand to the visited ones.
LEMMA RecordedArea ==
  ASSUME Record
  PROVE  /\ pc = "record" /\ pc' \in {"loop", "dispatch"}
         /\ InFlight = {current.area} /\ InFlight' = {}
         /\ visited' = visited \cup {current.area}
         /\ queuedAreas' = queuedAreas
BY DEF Record, MarkVisited, InFlight

\* An area the run has accepted stays queued, in hand or visited: no step
\* drops it on the way (ResearchEngine.cpp:214-241).
THEOREM ForgetsNothing == Spec => NothingForgotten
<1>1. Base /\ [Next]_vars => [Known \subseteq Known']_vars
  BY AreaMoves, StartedArea, RecordedArea DEF Known
<1> QED
  BY <1>1, BaseInvariant, PTL DEF Spec, NothingForgotten

-----------------------------------------------------------------------------
\* The directions already dispatched are queued or were visited.
Dispatching ==
  pc = "dispatch" =>
    \A i \in 1..(next - 1) : finding.dirs[i].area \in visited \cup queuedAreas

\* The direction that Dispatch pushes is queued or visited afterwards, and
\* what was so before stays so.
LEMMA DispatchCovers ==
  ASSUME Base, Dispatch
  PROVE  /\ finding.dirs[next].area \in visited' \cup queuedAreas'
         /\ visited \cup queuedAreas \subseteq visited' \cup queuedAreas'
<1>1. Child(finding.dirs[next]).area = finding.dirs[next].area
  BY Dispatched, ChildType DEF Dispatch
<1> QED
  BY <1>1 DEF Dispatch, Push, Accept, Refuse, Fresh, qvars

LEMMA DispatchingStep == Base /\ Dispatching /\ [Next]_vars => Dispatching'
<1> SUFFICES ASSUME Base, Dispatching, [Next]_vars, pc' = "dispatch"
             PROVE  \A i \in 1..(next' - 1) :
                      finding'.dirs[i].area \in visited' \cup queuedAreas'
  BY DEF Dispatching
<1>1. CASE Record
  <2>1. next' = 1
    BY <1>1 DEF Record, locals, Base, Positions
  <2> QED
    BY <2>1
<1>2. CASE Dispatch
  <2>1. next' = next + 1 /\ finding' = finding /\ pc = "dispatch"
    BY <1>2 DEF Dispatch, NextDirection
  <2>2. next \in Nat
    BY DEF Base, TypeOK
  <2>3. ASSUME NEW i \in 1..(next' - 1)
        PROVE  finding.dirs[i].area \in visited' \cup queuedAreas'
    <3>1. CASE i = next
      BY <1>2, <3>1, DispatchCovers
    <3>2. CASE i # next
      <4>1. i \in 1..(next - 1)
        BY <2>1, <2>2, <3>2
      <4> QED
        BY <1>2, <2>1, <4>1, DispatchCovers DEF Dispatching
    <3> QED
      BY <3>1, <3>2
  <2> QED
    BY <2>1, <2>3
<1>3. CASE UNCHANGED vars
  BY <1>3 DEF vars, qvars, locals, Dispatching
<1> QED
  BY <1>1, <1>2, <1>3 DEF Next, NoDirection, PushSeed, QueueDrained,
     IterationsReached, ClockExhausted, Leave, StartTask, SkipUnreadable,
     Investigate, NextSubArea, Abort, Review, Answer, GiveUp, Over

\* When a partial finding has been dealt with, the area of each direction the
\* judge left is queued or visited (ResearchEngine.cpp:253-268).
THEOREM FollowsLeads == Spec => LeadsFollowed
<1>1. Init => Dispatching
  <2>1. ASSUME Init PROVE pc = "start"
    BY <2>1 DEF Init
  <2> QED
    BY <2>1 DEF Dispatching
<1>2. Base /\ Dispatching /\ [Next]_vars =>
        [IterationEnds /\ finding.outcome = "partial" =>
           AreasOf(finding.dirs) \subseteq visited' \cup queuedAreas']_vars
  <2> SUFFICES ASSUME Base, Dispatching, Next, IterationEnds,
                      finding.outcome = "partial",
                      NEW a \in AreasOf(finding.dirs)
               PROVE  a \in visited' \cup queuedAreas'
    OBVIOUS
  <2>0. PICK i \in 1..Len(finding.dirs) : a = finding.dirs[i].area
    BY DEF AreasOf
  <2>1. CASE Record
    <3>1. finding.dirs = <<>>
      BY <2>1 DEF Record, IterationEnds
    <3> QED
      BY <2>0, <3>1, EmptySeq
  <2>2. CASE Dispatch
    <3>1. next = Len(finding.dirs) /\ next \in Nat /\ pc = "dispatch"
      BY <2>2 DEF Dispatch, LastDirection, IterationEnds, Base, TypeOK
    <3>2. CASE i = next
      BY <2>0, <2>2, <3>2, DispatchCovers
    <3>3. CASE i # next
      <4>1. i \in 1..(next - 1)
        BY <2>0, <3>1, <3>3
      <4> QED
        BY <2>0, <2>2, <3>1, <4>1, DispatchCovers DEF Dispatching
    <3> QED
      BY <3>2, <3>3
  <2> QED
    BY <2>1, <2>2 DEF Next, NoDirection, PushSeed, QueueDrained,
       IterationsReached, ClockExhausted, Leave, StartTask, SkipUnreadable,
       Investigate, NextSubArea, Abort, Review, Answer, GiveUp, Over, vars,
       IterationEnds
<1> QED
  BY <1>1, <1>2, DispatchingStep, BaseInvariant, PTL DEF Spec, LeadsFollowed

-----------------------------------------------------------------------------
\* There are turns left, or none, of the loop the run is in.
LEMMA TurnsAreNatural == Base => TurnsLeft \in Nat
<1> SUFFICES ASSUME Base PROVE TurnsLeft \in Nat
  OBVIOUS
<1>1. CASE pc = "work"
  <2>1. Len(SubAreas(current)) \in Nat /\ sub \in Nat /\ sub <= Len(SubAreas(current))
    BY <1>1, SubAreasType DEF Base, TypeOK, Positions
  <2>2. Len(SubAreas(current)) - sub \in Nat
    BY <2>1
  <2> QED
    BY <1>1, <2>2 DEF TurnsLeft
<1>2. CASE pc = "dispatch"
  <2>1. finding.dirs \in Seq(Task)
    BY DEF Base, TypeOK, Finding
  <2>2. Len(finding.dirs) \in Nat /\ next \in Nat /\ next <= Len(finding.dirs)
    BY <1>2, <2>1 DEF Base, TypeOK, Positions
  <2>3. Len(finding.dirs) - next \in Nat
    BY <2>2
  <2> QED
    BY <1>2, <2>3 DEF TurnsLeft
<1>3. CASE pc \notin {"work", "dispatch"}
  BY <1>3 DEF TurnsLeft
<1> QED
  BY <1>1, <1>2, <1>3

\* A sub-area that is done leaves one turn less, or the task to the judge.
LEMMA SubAreaDone ==
  ASSUME Base, pc = "work", NextSubArea, UNCHANGED <<current, iterations>>
  PROVE  /\ IterationsLeft' = IterationsLeft
         /\ \/ StagesLeft' < StagesLeft
            \/ StagesLeft' = StagesLeft /\ TurnsLeft' < TurnsLeft
<1>1. IterationsLeft' = IterationsLeft
  BY DEF IterationsLeft
<1>2. CASE sub = Len(SubAreas(current))
  <2>1. pc' = "review"
    BY <1>2 DEF NextSubArea
  <2> QED
    BY <1>1, <2>1 DEF StagesLeft
<1>3. CASE sub # Len(SubAreas(current))
  <2>1. pc' = "work" /\ sub' = sub + 1
    BY <1>3 DEF NextSubArea
  <2>2. SubAreas(current') = SubAreas(current)
    OBVIOUS
  <2>3. Len(SubAreas(current)) \in Nat /\ sub \in Nat
    BY SubAreasType DEF Base, TypeOK
  <2>4. /\ TurnsLeft = Len(SubAreas(current)) - sub
        /\ TurnsLeft' = Len(SubAreas(current)) - (sub + 1)
    BY <2>1, <2>2 DEF TurnsLeft
  <2>5. TurnsLeft' < TurnsLeft
    BY <2>3, <2>4
  <2> QED
    BY <1>1, <2>1, <2>5 DEF StagesLeft
<1> QED
  BY <1>2, <1>3

LEMMA NearerStep == Base /\ Explored /\ [Next]_vars => [Nearer]_vars
<1> SUFFICES ASSUME Base, Explored, [Next]_vars
             PROVE  [Nearer]_vars
  OBVIOUS
<1>1. TurnsLeft' \in Nat
  <2>1. Base'
    BY BaseStep
  <2>2. (TurnsLeft \in Nat)'
    BY <2>1, TurnsAreNatural, PTL
  <2> QED
    BY <2>2
<1>2. ASSUME iterations' = iterations, StagesLeft' < StagesLeft
      PROVE  Nearer
  BY <1>1, <1>2 DEF Nearer, IterationsLeft
<1>3. CASE \/ NoDirection \/ QueueDrained \/ IterationsReached \/ ClockExhausted
           \/ StartTask \/ Abort \/ Answer \/ GiveUp
           \/ \E c \in CandidateLists : PushSeed(c)
           \/ \E f \in Reviewed(raw) : Review(f)
  <2>1. /\ iterations' = iterations
        /\ \/ pc = "start" /\ pc' \in {"done", "loop"}
           \/ pc = "loop" /\ pc' \in {"finish", "work"}
           \/ pc = "work" /\ pc' = "aborted"
           \/ pc = "review" /\ pc' = "record"
           \/ pc = "finish" /\ pc' = "done"
    BY <1>3 DEF NoDirection, QueueDrained, IterationsReached, ClockExhausted,
       Leave, StartTask, LoopMayRun, Abort, Answer, GiveUp, PushSeed, Review
  <2>2. StagesLeft' < StagesLeft
    BY <2>1 DEF StagesLeft
  <2> QED
    BY <1>2, <2>1, <2>2
<1>4. CASE SkipUnreadable \/ \E f \in Parsed(counter) : Investigate(f)
  <2>1. pc = "work" /\ NextSubArea /\ UNCHANGED <<current, iterations>>
    BY <1>4 DEF SkipUnreadable, Investigate
  <2> QED
    BY <1>1, <2>1, SubAreaDone DEF Nearer
<1>5. CASE Record
  <2>1. pc = "record" /\ iterations' = iterations + 1
    BY <1>5 DEF Record
  <2>2. iterations \in Nat /\ MaxIterations \in Int /\ iterations < MaxIterations
    BY <2>1, EngineAssumption DEF Base, TypeOK, Explored
  <2>3. IterationsLeft' < IterationsLeft
    BY <2>1, <2>2 DEF IterationsLeft
  <2> QED
    BY <1>1, <2>3 DEF Nearer
<1>6. CASE Dispatch
  <2>1. CASE next = Len(finding.dirs)
    <3>1. pc = "dispatch" /\ pc' = "loop" /\ iterations' = iterations
      BY <1>6, <2>1 DEF Dispatch, LastDirection
    <3>2. StagesLeft' < StagesLeft
      BY <3>1 DEF StagesLeft
    <3> QED
      BY <1>2, <3>1, <3>2
  <2>2. CASE next # Len(finding.dirs)
    <3>1. /\ pc = "dispatch" /\ pc' = "dispatch" /\ iterations' = iterations
          /\ next' = next + 1 /\ finding' = finding
      BY <1>6, <2>2 DEF Dispatch, LastDirection, NextDirection
    <3>2. finding.dirs \in Seq(Task) /\ next \in Nat
      BY DEF Base, TypeOK, Finding
    <3>3. Len(finding.dirs) \in Nat
      BY <3>2
    <3>4. /\ TurnsLeft = Len(finding.dirs) - next
          /\ TurnsLeft' = Len(finding.dirs) - (next + 1)
      BY <3>1 DEF TurnsLeft
    <3>5. TurnsLeft' < TurnsLeft
      BY <3>2, <3>3, <3>4
    <3>6. IterationsLeft' = IterationsLeft /\ StagesLeft' = StagesLeft
      BY <3>1 DEF IterationsLeft, StagesLeft
    <3> QED
      BY <1>1, <3>5, <3>6 DEF Nearer
  <2> QED
    BY <2>1, <2>2
<1> QED
  BY <1>3, <1>4, <1>5, <1>6 DEF Next, Over

\* Every step of a run counts it down, so that a run has only finitely many:
\* the part of Terminates that needs no fairness (ResearchEngine.cpp:203-262).
THEOREM RunAdvances == Spec => Advances
BY NearerStep, BaseInvariant, ExploredInvariant, PTL DEF Spec, Advances

-----------------------------------------------------------------------------
\* The run implements the worklist exploration: taking a task off the queue
\* and asking about it change nothing there, recording it explores its place,
\* queuing a direction finds one, and the ends of the loop are its two ends
\* (ResearchEngine.cpp:203-270).
THEOREM Implements == Spec => ImplementsExploration
<1>1. Init => Abstract!Init
  <2>1. ASSUME Init
        PROVE  /\ visited = {} /\ queuedAreas = {} /\ pc = "start"
               /\ iterations = 0
    BY <2>1 DEF Init, QInit
  <2> QED
    BY <2>1 DEF Abstract!Init, InFlight, Status
<1>2. Base /\ Explored /\ [Next]_vars => [Abstract!Next]_(Abstract!evars)
  <2> SUFFICES ASSUME Base, Explored, [Next]_vars
               PROVE  [Abstract!Next]_(Abstract!evars)
    OBVIOUS
  <2>1. CASE NoDirection \/ QueueDrained
    <3>1. queuedAreas \cup InFlight = {} /\ Status = "running"
      <4>1. CASE NoDirection
        <5>1. pc = "start" /\ queuedAreas = {}
          BY <4>1 DEF NoDirection, Base, Positions
        <5> QED
          BY <5>1 DEF InFlight, Status
      <4>2. CASE QueueDrained
        <5>1. queue = <<>> /\ pc = "loop"
          BY <4>2 DEF QueueDrained
        <5>2. queuedAreas = {}
          BY <5>1, EmptySeq DEF Base, QueuedAreasExact, AreasOf
        <5> QED
          BY <5>1, <5>2 DEF InFlight, Status
      <4> QED
        BY <2>1, <4>1, <4>2
    <3>2. /\ Status' = "drained" /\ queuedAreas' = queuedAreas
          /\ visited' = visited /\ InFlight' = {} /\ iterations' = iterations
      BY <2>1 DEF NoDirection, QueueDrained, Leave, qvars, Status, InFlight
    <3> QED
      BY <3>1, <3>2 DEF Abstract!Next, Abstract!Drain
  <2>2. CASE IterationsReached \/ ClockExhausted
    <3>1. 1 \in 1..Len(queue)
      BY <2>2 DEF IterationsReached, ClockExhausted, Base, TypeOK, QTypeOK
    <3>2. queuedAreas # {} /\ Status = "running" /\ InFlight = {}
      BY <2>2, <3>1 DEF IterationsReached, ClockExhausted, Base,
         QueuedAreasExact, AreasOf, InFlight, Status
    <3>3. /\ Status' = "cutoff" /\ queuedAreas' = queuedAreas
          /\ visited' = visited /\ InFlight' = {} /\ iterations' = iterations
      BY <2>2 DEF IterationsReached, ClockExhausted, Leave, qvars, Status,
         InFlight
    <3> QED
      BY <3>2, <3>3 DEF Abstract!Next, Abstract!CutOff
  <2>3. CASE Answer \/ GiveUp
    BY <2>3 DEF Answer, GiveUp, qvars, Abstract!evars, InFlight, Status
  <2>4. CASE UNCHANGED vars
    BY <2>4 DEF vars, qvars, locals, result, Abstract!evars, InFlight, Status
  <2>5. CASE Record
    <3>1. /\ current.area \in Place
          /\ iterations < MaxIterations /\ iterations' = iterations + 1
      BY <2>5, RecordedArea DEF Record, Base, TypeOK, Task, Explored
    <3>2. current.area \notin queuedAreas
      BY <2>5, RecordedArea DEF Explored, NoRevisit
    <3>3. Status = "running" /\ Status' = "running"
      BY <2>5, RecordedArea DEF Status
    <3>4. /\ current.area \in queuedAreas \cup InFlight
          /\ queuedAreas' \cup InFlight'
               = (queuedAreas \cup InFlight) \ {current.area}
          /\ visited' = visited \cup {current.area}
      BY <2>5, RecordedArea, <3>2
    <3>5. Abstract!Explore(current.area)
      BY <3>1, <3>3, <3>4 DEF Abstract!Explore
    <3> QED
      BY <3>1, <3>5 DEF Abstract!Next
  <2>6. CASE StartTask
    <3>1. /\ Status = "running" /\ Status' = "running"
          /\ iterations' = iterations
      BY <2>6 DEF StartTask, LoopMayRun, Status
    <3> QED
      BY <2>6, StartedArea, <3>1 DEF Abstract!evars
  <2>7. CASE \/ Dispatch
             \/ \E c \in CandidateLists : PushSeed(c)
    <3>1. /\ Status = "running" /\ Status' = "running"
          /\ iterations' = iterations
      BY <2>7 DEF Dispatch, PushSeed, Status
    <3>2. ~Record /\ ~StartTask
      BY <2>7 DEF Dispatch, PushSeed, Record, StartTask, LoopMayRun
    <3> QED
      BY AreaMoves, <3>1, <3>2 DEF Abstract!Next, Abstract!Find, Abstract!evars
  <2>8. CASE \/ SkipUnreadable \/ Abort
             \/ \E f \in Parsed(counter) : Investigate(f)
             \/ \E f \in Reviewed(raw) : Review(f)
    BY <2>8 DEF SkipUnreadable, Abort, Investigate, Review, NextSubArea,
       qvars, locals, InFlight, Status, Abstract!evars
  <2> QED
    BY <2>1, <2>2, <2>3, <2>4, <2>5, <2>6, <2>7, <2>8 DEF Next, Over
<1> QED
  BY <1>1, <1>2, BaseInvariant, ExploredInvariant, PTL
  DEF Spec, ImplementsExploration, Abstract!Spec

Work == INSTANCE ExplorationProofs
  WITH Location <- Place,
       Budget   <- MaxIterations,
       frontier <- queuedAreas \cup InFlight,
       explored <- visited,
       spent    <- iterations,
       status   <- Status

LEMMA IsWork == ImplementsExploration => Work!Spec
BY DEF ImplementsExploration, Abstract!Spec, Abstract!Init, Abstract!Next,
   Abstract!Find, Abstract!Explore, Abstract!Drain, Abstract!CutOff,
   Abstract!evars, Work!Spec, Work!Init, Work!Next, Work!Find, Work!Explore,
   Work!Drain, Work!CutOff, Work!evars

\* What every exploration keeps: no area is investigated twice, each one
\* is counted once and within the limit, and the reason given at the end is
\* the true one (ResearchEngine.cpp:203-270).
THEOREM WorkAddsUp == Spec => []Abstract!WorkAddsUp
<1>1. MaxIterations \in Int
  BY EngineAssumption DEF EngineAssumption
<1>2. Work!Spec => []Work!WorkAddsUp
  BY <1>1, Work!ExplorationAddsUp
<1>3. Work!WorkAddsUp => Abstract!WorkAddsUp
  BY DEF Work!WorkAddsUp, Abstract!WorkAddsUp, Work!Cardinality,
         Abstract!Cardinality, Work!IsFiniteSet, Abstract!IsFiniteSet
<1> QED
  BY <1>2, <1>3, Implements, IsWork, PTL

\* An area that is in the queue at any time has been visited when the run
\* says that the queue is drained, whatever else was queued, refused or judged
\* in between (ResearchEngine.cpp:203-270).
THEOREM DrainedVisitedAll ==
  ASSUME NEW a
  PROVE  Spec => [](a \in queuedAreas =>
                      [](Status = "drained" => a \in visited))
<1> DEFINE Queued == a \in queuedAreas
           Visited == Status = "drained" => a \in visited
<1>1. MaxIterations \in Int
  BY EngineAssumption DEF EngineAssumption
<1>2. Work!Spec => []Work!WorkAddsUp
  BY <1>1, Work!ExplorationAddsUp
<1>3. Queued => Work!Found(a)
  BY DEF Work!Found
<1>4. Work!Found(a) /\ [Work!Next]_(Work!evars) => Work!Found(a)'
  BY Work!FoundStays
<1>5. Work!Found(a) /\ Work!WorkAddsUp => Visited
  BY Work!FoundIsExplored DEF Work!DoneWith
<1> HIDE DEF Queued, Visited
<1>6. Spec => [](Queued => []Visited)
  BY <1>2, <1>3, <1>4, <1>5, Implements, IsWork, PTL DEF Work!Spec
<1> QED
  BY <1>6 DEF Queued, Visited

-----------------------------------------------------------------------------
\* UniqueIds needs to know how ids are handed out.  Those of a reply are
\* larger than any given before, so the worker's directions differ from each
\* other, from the queue and from the task in hand.  The judge may repeat a
\* direction; then, and while the directions are queued one by one, equal ids
\* still mean equal areas.
IdsCounted ==
  /\ \A i \in 1..Len(queue) : queue[i].id <= counter
  /\ \A i \in 1..Len(raw.dirs) : raw.dirs[i].id <= counter
  /\ current.id <= counter

RawIds ==
  /\ \A i, j \in 1..Len(raw.dirs) : raw.dirs[i].id = raw.dirs[j].id => i = j
  /\ pc \in {"work", "review"} =>
       \A j \in 1..Len(raw.dirs) :
         /\ current.id < raw.dirs[j].id
         /\ \A i \in 1..Len(queue) : queue[i].id < raw.dirs[j].id
  /\ pc \in {"start", "loop"} => raw.dirs = <<>>

FindingIds ==
  pc \in {"record", "dispatch"} =>
    /\ \A i, j \in 1..Len(finding.dirs) :
         finding.dirs[i].id = finding.dirs[j].id
           => finding.dirs[i].area = finding.dirs[j].area
    /\ \A j \in 1..Len(finding.dirs) :
         /\ current.id < finding.dirs[j].id
         /\ finding.dirs[j].id <= counter
    /\ \A i \in 1..Len(queue), j \in 1..Len(finding.dirs) :
         queue[i].id = finding.dirs[j].id
           => queue[i].area = finding.dirs[j].area

Ids == IdsCounted /\ RawIds /\ FindingIds /\ UniqueIds

\* Ids are natural numbers.
LEMMA IdTypes ==
  ASSUME Base
  PROVE  /\ \A i \in 1..Len(queue) : queue[i].id \in Nat
         /\ \A i \in 1..Len(raw.dirs) : raw.dirs[i].id \in Nat
         /\ \A i \in 1..Len(finding.dirs) : finding.dirs[i].id \in Nat
         /\ current.id \in Nat /\ counter \in Nat
         /\ queue \in Seq(Task) /\ raw.dirs \in Seq(Task)
         /\ finding.dirs \in Seq(Task)
<1>1. \A t \in Task : t.id \in Nat
  BY DEF Task
<1>2. /\ queue \in Seq(Task) /\ raw.dirs \in Seq(Task)
      /\ finding.dirs \in Seq(Task) /\ current \in Task /\ counter \in Nat
  BY DEF Base, TypeOK, QTypeOK, Finding
<1> QED
  BY <1>1, <1>2, ElementOfSeq

LEMMA IdsAfterReply ==
  ASSUME Base, Ids, NEW f \in Parsed(counter), Investigate(f)
  PROVE  Ids'
<1>1. /\ f \in Finding /\ f.dirs \in Seq(Task) /\ Len(f.dirs) \in Nat
      /\ \A i \in 1..Len(f.dirs) : f.dirs[i].id = counter + i
  <2>1. counter \in Nat
    BY IdTypes
  <2>2. f \in Finding /\ \A i \in 1..Len(f.dirs) : f.dirs[i].id = counter + i
    BY <2>1, ParsedFindings
  <2>3. f.dirs \in Seq(Task)
    BY <2>2 DEF Finding
  <2> QED
    BY <2>2, <2>3, LenProperties
<1>2. /\ queue' = queue /\ current' = current /\ finding' = finding
      /\ counter' = counter + Len(f.dirs) /\ raw' = Merge(raw, f)
      /\ pc = "work" /\ pc' \in {"work", "review"}
  BY DEF Investigate, NextSubArea, qvars
<1>3. raw'.dirs = raw.dirs \/ raw'.dirs = raw.dirs \o f.dirs
  BY <1>1, <1>2, MergedFindings DEF Base, TypeOK
<1>4. IdsCounted /\ RawIds /\ UniqueIds
  BY DEF Ids
<1>5. CASE raw'.dirs = raw.dirs
  <2>1. IdsCounted'
    <3>1. counter \in Nat /\ counter' \in Nat /\ counter <= counter'
      BY <1>1, <1>2, IdTypes
    <3>2. \A n \in Nat : n <= counter => n <= counter'
      BY <3>1
    <3>3. \A i \in 1..Len(queue) : queue[i].id <= counter'
      BY <1>4, <3>2, IdTypes DEF IdsCounted
    <3>4. \A i \in 1..Len(raw.dirs) : raw.dirs[i].id <= counter'
      BY <1>4, <3>2, IdTypes DEF IdsCounted
    <3>5. current.id <= counter'
      BY <1>4, <3>2, IdTypes DEF IdsCounted
    <3> QED
      BY <1>2, <1>5, <3>3, <3>4, <3>5 DEF IdsCounted
  <2>2. RawIds'
    BY <1>2, <1>4, <1>5 DEF RawIds
  <2> QED
    BY <1>2, <1>4, <2>1, <2>2 DEF Ids, FindingIds, UniqueIds
<1>6. CASE raw'.dirs = raw.dirs \o f.dirs
  <2> DEFINE n == Len(raw.dirs)
             m == Len(f.dirs)
  <2>1. /\ n \in Nat /\ m \in Nat /\ Len(raw'.dirs) = n + m
        /\ \A i \in 1..(n + m) :
             raw'.dirs[i] = IF i <= n THEN raw.dirs[i] ELSE f.dirs[i - n]
    <3>1. raw.dirs \in Seq(Task) /\ f.dirs \in Seq(Task)
      BY <1>1, IdTypes
    <3>2. n \in Nat /\ m \in Nat
      BY <3>1, LenProperties
    <3>3. /\ Len(raw.dirs \o f.dirs) = Len(raw.dirs) + Len(f.dirs)
          /\ \A i \in 1..(Len(raw.dirs) + Len(f.dirs)) :
               (raw.dirs \o f.dirs)[i] =
                 IF i <= Len(raw.dirs) THEN raw.dirs[i]
                                       ELSE f.dirs[i - Len(raw.dirs)]
      BY <3>1, ConcatProperties
    <3> QED
      BY <1>6, <3>2, <3>3
  <2>10. \A i \in 1..m : f.dirs[i].id = counter + i
    BY <1>1
  <2>11. \A i \in 1..n : raw.dirs[i].id <= counter
    BY <1>4 DEF IdsCounted
  <2> HIDE DEF n, m
  <2>2. \A i \in 1..n : raw'.dirs[i].id = raw.dirs[i].id /\ raw.dirs[i].id <= counter
    BY <2>1, <2>11
  <2>3. \A i \in (n + 1)..(n + m) : raw'.dirs[i].id = counter + (i - n)
    <3> SUFFICES ASSUME NEW i \in (n + 1)..(n + m)
                 PROVE  raw'.dirs[i].id = counter + (i - n)
      OBVIOUS
    <3>1. i - n \in 1..m /\ i \in 1..(n + m) /\ ~(i <= n)
      BY <2>1
    <3>2. raw'.dirs[i] = f.dirs[i - n]
      BY <2>1, <3>1
    <3> QED
      BY <2>10, <3>1, <3>2
  <2>4. \A i \in 1..(n + m) : i \in 1..n \/ i \in (n + 1)..(n + m)
    BY <2>1
  <2>5. ASSUME NEW i \in 1..(n + m)
        PROVE  /\ raw'.dirs[i].id <= counter + m
               /\ current.id < raw'.dirs[i].id
               /\ \A k \in 1..Len(queue) : queue[k].id < raw'.dirs[i].id
    <3>1. CASE i \in 1..n
      <4>1. raw.dirs[i].id \in Nat /\ raw'.dirs[i].id = raw.dirs[i].id
        BY <2>2, <3>1, IdTypes DEF n
      <4>2. /\ current.id < raw.dirs[i].id
            /\ \A k \in 1..Len(queue) : queue[k].id < raw.dirs[i].id
        BY <1>2, <1>4, <3>1 DEF RawIds, n
      <4>3. raw.dirs[i].id <= counter
        BY <2>2, <3>1
      <4> QED
        BY <2>1, <4>1, <4>2, <4>3, IdTypes
    <3>2. CASE i \in (n + 1)..(n + m)
      <4>1. raw'.dirs[i].id = counter + (i - n)
        BY <2>3, <3>2
      <4>2. counter + (i - n) > counter /\ counter + (i - n) <= counter + m
        BY <2>1, <3>2, IdTypes
      <4>3. current.id <= counter /\ \A k \in 1..Len(queue) : queue[k].id <= counter
        BY <1>4 DEF IdsCounted
      <4>4. current.id < counter + (i - n)
        BY <2>1, <3>2, <4>2, <4>3, IdTypes
      <4>5. \A k \in 1..Len(queue) : queue[k].id < counter + (i - n)
        BY <2>1, <3>2, <4>2, <4>3, IdTypes
      <4> QED
        BY <4>1, <4>2, <4>4, <4>5
    <3> QED
      BY <2>4, <3>1, <3>2
  <2>6. ASSUME NEW i \in 1..(n + m), NEW j \in 1..(n + m),
               raw'.dirs[i].id = raw'.dirs[j].id
        PROVE  i = j
    <3>1. CASE i \in 1..n /\ j \in 1..n
      BY <1>4, <2>2, <2>6, <3>1 DEF RawIds, n
    <3>2. CASE i \in (n + 1)..(n + m) /\ j \in (n + 1)..(n + m)
      BY <2>1, <2>3, <2>6, <3>2, IdTypes
    <3>3. ASSUME NEW k \in 1..n, NEW l \in (n + 1)..(n + m)
          PROVE  raw'.dirs[k].id # raw'.dirs[l].id
      <4>1. raw'.dirs[k].id <= counter /\ raw'.dirs[k].id \in Nat
        BY <2>2, IdTypes DEF n
      <4>2. raw'.dirs[l].id > counter
        <5>1. raw'.dirs[l].id = counter + (l - n)
          BY <2>3
        <5>2. l - n > 0 /\ l - n \in Nat
          BY <2>1
        <5>3. counter \in Nat
          BY IdTypes
        <5> QED
          BY <5>1, <5>2, <5>3
      <4> QED
        BY <4>1, <4>2, IdTypes
    <3> QED
      BY <2>4, <2>6, <3>1, <3>2, <3>3
  <2>7. IdsCounted'
    <3>1. \A i \in 1..Len(queue) : queue[i].id <= counter + m
      BY <1>4, <2>1, IdTypes DEF IdsCounted
    <3>2. current.id <= counter + m
      BY <1>4, <2>1, IdTypes DEF IdsCounted
    <3> QED
      BY <1>2, <2>1, <2>5, <3>1, <3>2 DEF IdsCounted, m
  <2>8. RawIds'
    BY <1>2, <2>1, <2>5, <2>6 DEF RawIds
  <2> QED
    BY <1>2, <1>4, <2>7, <2>8 DEF Ids, FindingIds, UniqueIds
<1> QED
  BY <1>3, <1>5, <1>6

LEMMA IdsAfterReview ==
  ASSUME Base, Ids, NEW f \in Reviewed(raw), Review(f)
  PROVE  Ids'
<1>1. /\ queue' = queue /\ current' = current /\ raw' = raw
      /\ counter' = counter /\ finding' = f
      /\ pc = "review" /\ pc' = "record"
  BY DEF Review, qvars
<1>2. \A i \in 1..Len(f.dirs) : \E k \in 1..Len(raw.dirs) : f.dirs[i] = raw.dirs[k]
  BY ReviewedFindings DEF Base, TypeOK
<1>3. IdsCounted /\ RawIds /\ UniqueIds
  BY DEF Ids
<1>4. IdsCounted' /\ RawIds' /\ UniqueIds'
  BY <1>1, <1>3 DEF IdsCounted, RawIds, UniqueIds
<1>5. ASSUME NEW i \in 1..Len(f.dirs), NEW j \in 1..Len(f.dirs),
             f.dirs[i].id = f.dirs[j].id
      PROVE  f.dirs[i].area = f.dirs[j].area
  <2>1. PICK k \in 1..Len(raw.dirs) : f.dirs[i] = raw.dirs[k]
    BY <1>2
  <2>2. PICK l \in 1..Len(raw.dirs) : f.dirs[j] = raw.dirs[l]
    BY <1>2
  <2>3. k = l
    BY <1>3, <1>5, <2>1, <2>2 DEF RawIds
  <2> QED
    BY <2>1, <2>2, <2>3
<1>6. ASSUME NEW j \in 1..Len(f.dirs)
      PROVE  /\ current.id < f.dirs[j].id
             /\ f.dirs[j].id <= counter
             /\ \A i \in 1..Len(queue) : queue[i].id # f.dirs[j].id
  <2>1. PICK k \in 1..Len(raw.dirs) : f.dirs[j] = raw.dirs[k]
    BY <1>2
  <2>2. /\ current.id < raw.dirs[k].id
        /\ raw.dirs[k].id <= counter
        /\ \A i \in 1..Len(queue) : queue[i].id < raw.dirs[k].id
    BY <1>1, <1>3 DEF RawIds, IdsCounted
  <2> QED
    BY <2>1, <2>2, IdTypes
<1>7. FindingIds'
  BY <1>1, <1>5, <1>6 DEF FindingIds
<1> QED
  BY <1>4, <1>7 DEF Ids

LEMMA IdsAfterDispatch ==
  ASSUME Base, Ids, Dispatch
  PROVE  Ids'
<1> DEFINE d == finding.dirs[next]
<1>1. /\ finding.dirs \in Seq(Task) /\ next \in 1..Len(finding.dirs)
      /\ d \in Task /\ Child(d).id = d.id /\ Child(d).area = d.area
      /\ pc = "dispatch"
  BY Dispatched, ChildType DEF Dispatch
<1>2. counter' = counter /\ pc' \in {"loop", "dispatch"}
  BY DEF Dispatch
<1>3. IdsCounted /\ RawIds /\ FindingIds /\ UniqueIds
  BY DEF Ids
<1>4. /\ d.id <= counter /\ current.id < d.id
      /\ \A i \in 1..Len(queue) : queue[i].id = d.id => queue[i].area = d.area
      /\ \A j \in 1..Len(finding.dirs) :
           finding.dirs[j].id = d.id => finding.dirs[j].area = d.area
  BY <1>1, <1>3 DEF FindingIds
<1>5. \/ queue' = queue
      \/ /\ queue' = Append(queue, Child(d))
         /\ \A i \in 1..Len(queue) : queue[i].area # d.area
  BY <1>1 DEF Dispatch, Push, Accept, Refuse, Fresh, qvars, Base,
     QueuedAreasExact, AreasOf
<1> HIDE DEF d
<1>6. /\ \A i \in 1..Len(queue') : queue'[i].id <= counter
      /\ \A i, j \in 1..Len(queue') : queue'[i].id = queue'[j].id => i = j
      /\ \A i \in 1..Len(queue') : queue'[i].id # current.id
      /\ \A i \in 1..Len(queue'), j \in 1..Len(finding.dirs) :
           queue'[i].id = finding.dirs[j].id
             => queue'[i].area = finding.dirs[j].area
  <2>1. CASE queue' = queue
    BY <1>1, <1>3, <2>1 DEF IdsCounted, UniqueIds, FindingIds
  <2>2. CASE /\ queue' = Append(queue, Child(d))
             /\ \A i \in 1..Len(queue) : queue[i].area # d.area
    <3> DEFINE n == Len(queue)
    <3>1. /\ n \in Nat /\ Len(queue') = n + 1
          /\ \A i \in 1..n : queue'[i] = queue[i]
          /\ queue'[n + 1].id = d.id /\ queue'[n + 1].area = d.area
      BY <1>1, <2>2, IdTypes
    <3>2. \A i \in 1..n : queue[i].id # d.id
      BY <1>4, <2>2
    <3>3. \A i \in 1..(n + 1) : i \in 1..n \/ i = n + 1
      BY <3>1
    <3>4. /\ \A i \in 1..n : queue[i].id <= counter
          /\ \A i, j \in 1..n : queue[i].id = queue[j].id => i = j
          /\ \A i \in 1..n : queue[i].id # current.id
          /\ \A i \in 1..n, j \in 1..Len(finding.dirs) :
               queue[i].id = finding.dirs[j].id
                 => queue[i].area = finding.dirs[j].area
      BY <1>1, <1>3 DEF IdsCounted, UniqueIds, FindingIds
    <3>5. d.id # current.id
      BY <1>1, <1>4, IdTypes DEF Task
    <3> HIDE DEF n
    <3>6. \A i \in 1..(n + 1) : queue'[i].id <= counter
      BY <1>4, <3>1, <3>3, <3>4
    <3>7. \A i, j \in 1..(n + 1) : queue'[i].id = queue'[j].id => i = j
      BY <3>1, <3>2, <3>3, <3>4
    <3>8. \A i \in 1..(n + 1) : queue'[i].id # current.id
      BY <3>1, <3>3, <3>4, <3>5
    <3>9. \A i \in 1..(n + 1), j \in 1..Len(finding.dirs) :
            queue'[i].id = finding.dirs[j].id
              => queue'[i].area = finding.dirs[j].area
      BY <1>4, <3>1, <3>3, <3>4
    <3> QED
      BY <3>1, <3>6, <3>7, <3>8, <3>9
  <2> QED
    BY <1>5, <2>1, <2>2
<1>7. CASE pc' = "dispatch"
  <2>1. current' = current /\ raw' = raw /\ finding' = finding
    BY <1>7 DEF Dispatch
  <2> QED
    BY <1>1, <1>2, <1>3, <1>6, <1>7, <2>1
    DEF Ids, IdsCounted, RawIds, FindingIds, UniqueIds
<1>8. CASE pc' = "loop"
  <2>1. current'.id = 0 /\ raw'.dirs = <<>>
    BY <1>1, <1>8 DEF Dispatch, ClearLocals, NoTask, Direction, SeedId, NoFinding
  <2>2. Len(raw'.dirs) = 0 /\ counter \in Nat
    BY <2>1, IdTypes
  <2> QED
    BY <1>2, <1>6, <1>8, <2>1, <2>2
    DEF Ids, IdsCounted, RawIds, FindingIds, UniqueIds
<1> QED
  BY <1>2, <1>7, <1>8

LEMMA IdsStep == Base /\ Ids /\ [Next]_vars => Ids'
<1> SUFFICES ASSUME Base, Ids, [Next]_vars
             PROVE  Ids'
  OBVIOUS
<1>q. IdsCounted /\ RawIds /\ FindingIds /\ UniqueIds
  BY DEF Ids
<1>1. ASSUME UNCHANGED <<queue, current, raw, counter>>,
             pc' \in {"work", "review"} => pc \in {"work", "review"},
             pc' \in {"loop"} => pc = "loop",
             pc' \notin {"start", "record", "dispatch"}
      PROVE  Ids'
  BY <1>q, <1>1 DEF Ids, IdsCounted, RawIds, FindingIds, UniqueIds
<1>2. ASSUME NEW c \in CandidateLists, PushSeed(c)
      PROVE  Ids'
  <2>1. /\ pc = "start" /\ pc' = "loop" /\ queue = <<>> /\ current' = current
        /\ raw' = raw /\ counter' = counter
    BY <1>2 DEF PushSeed, locals, Base, Positions
  <2>2. queue' = <<>> \/ queue' = <<Seed(c)>>
    BY <1>2, <2>1 DEF PushSeed, Push, Accept, Refuse, qvars
  <2>3. /\ \A i \in 1..Len(queue') : queue'[i].id <= counter
        /\ \A i, j \in 1..Len(queue') : i = j
    <3>1. Seed(c).id = 0 /\ counter \in Nat
      BY IdTypes DEF Seed, SeedId
    <3> DEFINE t == Seed(c)
    <3> HIDE DEF t
    <3>2. CASE queue' = <<>>
      BY <3>2
    <3>3. CASE queue' = <<t>>
      <4>1. Len(queue') = 1 /\ queue'[1] = t
        BY <3>3
      <4> QED
        BY <3>1, <4>1 DEF t
    <3> QED
      BY <2>2, <3>2, <3>3 DEF t
  <2> QED
    BY <1>q, <2>1, <2>3 DEF Ids, IdsCounted, RawIds, FindingIds, UniqueIds
<1>3. CASE StartTask
  <2>1. /\ pc = "loop" /\ pc' = "work" /\ queue # <<>> /\ queue' = Tail(queue)
        /\ current' = Head(queue) /\ raw' = raw /\ counter' = counter
    BY <1>3 DEF StartTask, LoopMayRun, Pop
  <2>2. raw.dirs = <<>> /\ Len(raw.dirs) = 0
    BY <1>q, <2>1, EmptySeq DEF RawIds
  <2>3. /\ Len(queue') = Len(queue) - 1 /\ Len(queue) \in Nat
        /\ \A i \in 1..Len(queue') : queue'[i] = queue[i + 1]
                                     /\ i + 1 \in 1..Len(queue)
                                     /\ i + 1 # 1
        /\ current' = queue[1] /\ 1 \in 1..Len(queue)
    BY <2>1, IdTypes
  <2>4. IdsCounted'
    BY <1>q, <2>1, <2>2, <2>3 DEF IdsCounted
  <2>5. UniqueIds'
    BY <1>q, <2>1, <2>3 DEF UniqueIds
  <2> QED
    BY <2>1, <2>2, <2>4, <2>5 DEF Ids, RawIds, FindingIds
<1>4. CASE SkipUnreadable
  <2>1. raw' = raw
    BY <1>4 DEF SkipUnreadable, Merge, Counts, NoFinding
  <2> QED
    BY <1>1, <1>4, <2>1 DEF SkipUnreadable, NextSubArea, qvars
<1>5. CASE Record
  <2>1. /\ queue' = queue /\ counter' = counter
        /\ pc = "record" /\ pc' \in {"loop", "dispatch"}
    BY <1>5 DEF Record, MarkVisited
  <2>2. CASE pc' = "dispatch"
    <3>1. raw' = raw /\ finding' = finding /\ current' = current
      BY <1>5, <2>2 DEF Record, locals
    <3> QED
      BY <1>q, <2>1, <2>2, <3>1
      DEF Ids, IdsCounted, RawIds, FindingIds, UniqueIds
  <2>3. CASE pc' = "loop"
    <3>1. raw'.dirs = <<>> /\ current'.id = 0
      BY <1>5, <2>3
      DEF Record, ClearLocals, NoTask, Direction, SeedId, NoFinding
    <3>2. Len(raw'.dirs) = 0 /\ counter \in Nat
      BY <3>1, IdTypes
    <3> QED
      BY <1>q, <2>1, <2>3, <3>1, <3>2
      DEF Ids, IdsCounted, RawIds, FindingIds, UniqueIds
  <2> QED
    BY <2>1, <2>2, <2>3
<1>6. CASE NoDirection \/ QueueDrained \/ IterationsReached
             \/ ClockExhausted \/ Abort \/ Answer \/ GiveUp
  BY <1>1, <1>6 DEF NoDirection, QueueDrained, IterationsReached,
     ClockExhausted, Leave, Abort, Answer, GiveUp, qvars, locals
<1>7. CASE UNCHANGED vars
  BY <1>q, <1>7 DEF vars, qvars, locals, Ids, IdsCounted, RawIds, FindingIds,
     UniqueIds
<1> QED
  BY <1>2, <1>3, <1>4, <1>5, <1>6, <1>7, IdsAfterReply, IdsAfterReview,
     IdsAfterDispatch DEF Next, Over

\* No two tasks on the queue or in hand share an id, although the judge may
\* hand one direction over twice (Judge.cpp:61-67, TaskQueue.cpp:16).
THEOREM IdsAreUnique == Spec => []UniqueIds
<1>1. Init => Ids
  <2> SUFFICES ASSUME Init
               PROVE  Ids
    OBVIOUS
  <2>1. /\ queue = <<>> /\ raw = NoFinding /\ current = NoTask /\ counter = 0
        /\ pc = "start"
    BY DEF Init, QInit
  <2>2. Len(queue) = 0 /\ raw.dirs = <<>> /\ Len(raw.dirs) = 0 /\ current.id = 0
    BY <2>1 DEF NoFinding, NoTask, Direction, SeedId
  <2> QED
    BY <2>1, <2>2 DEF Ids, IdsCounted, RawIds, FindingIds, UniqueIds
<1> QED
  BY <1>1, IdsStep, BaseInvariant, PTL DEF Spec, Ids
==============================================================================
