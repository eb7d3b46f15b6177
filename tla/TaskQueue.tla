------------------------------ MODULE TaskQueue ------------------------------
(***************************************************************************)
(* The pending-task queue shared by both engines (src/TaskQueue.cpp): a    *)
(* FIFO of tasks beside two sets of areas, those queued and those visited. *)
(* This module gives the class; QueueClient lets an arbitrary caller use   *)
(* it, ResearchEngine uses it the way the research loop does.              *)
(***************************************************************************)
EXTENDS Tasks

VARIABLES
  queue,         \* queue_
  visited,       \* visited_
  queuedAreas    \* queuedAreas_

qvars == <<queue, visited, queuedAreas>>

QInit ==
  /\ queue = <<>>
  /\ visited = {}
  /\ queuedAreas = {}

\* Slips: one of the two tests is missing.
FreshIgnoresVisited(a) == a \notin queuedAreas

FreshIgnoresQueued(a) == a \notin visited

\* Both branches of Push, repeatable or not, make this same test.
Fresh(a) ==
  /\ a \notin visited
  /\ a \notin queuedAreas

\* Push returns true.
Accept(t) ==
  /\ Fresh(t.area)
  /\ queuedAreas' = queuedAreas \cup {t.area}
  /\ queue' = Append(queue, t)
  /\ UNCHANGED visited

\* Push returns false.
Refuse(t) ==
  /\ ~Fresh(t.area)
  /\ UNCHANGED qvars

Push(t) == Accept(t) \/ Refuse(t)

\* Slips: the newest task is taken, or the area is not released.
PopNewest ==
  /\ queue # <<>>
  /\ queue' = SubSeq(queue, 1, Len(queue) - 1)
  /\ queuedAreas' = queuedAreas \ {queue[Len(queue)].area}
  /\ UNCHANGED visited

PopKeepsArea ==
  /\ queue # <<>>
  /\ queue' = Tail(queue)
  /\ UNCHANGED <<queuedAreas, visited>>

\* Pop has no test of its own: calling it on an empty deque is undefined, and
\* every caller asks Empty() first.
Pop ==
  /\ queue # <<>>
  /\ queue' = Tail(queue)
  /\ queuedAreas' = queuedAreas \ {Head(queue).area}
  /\ UNCHANGED visited

\* Slip: nothing is marked.
MarkNothing(a) == UNCHANGED qvars

MarkVisited(a) ==
  /\ visited' = visited \cup {a}
  /\ UNCHANGED <<queue, queuedAreas>>

-----------------------------------------------------------------------------
QTypeOK ==
  /\ queue \in Seq(Task)
  /\ visited \subseteq Place
  /\ queuedAreas \subseteq Place

\* The set beside the queue names the areas of the queued tasks and no other
\* (TaskQueue::Push and Pop update the two separately): a leftover would bar
\* an area for good, a missing one would let it in twice.
QueuedAreasExact == queuedAreas = AreasOf(queue)

\* No two queued tasks aim at the same area (TaskQueue.h:18-19).
DistinctAreas ==
  \A i, j \in 1..Len(queue) : queue[i].area = queue[j].area => i = j
==============================================================================
