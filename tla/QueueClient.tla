----------------------------- MODULE QueueClient -----------------------------
(***************************************************************************)
(* TaskQueue in the hands of an arbitrary caller, as in TaskQueueTests: it *)
(* pushes, pops and marks areas visited in any order, so an area may be    *)
(* marked while it is queued, or queued again between Pop and MarkVisited. *)
(***************************************************************************)
EXTENDS TaskQueue

CONSTANT Offers    \* the tasks the caller may push

ASSUME OffersAssumption == Offers \subseteq Task

Next ==
  \/ \E t \in Offers : Push(t)
  \/ Pop
  \/ \E a \in Place : MarkVisited(a)

\* The caller keeps popping; it need not push or mark anything.
Spec == QInit /\ [][Next]_qvars /\ WF_qvars(Pop)

-----------------------------------------------------------------------------
\* Once an area is visited and out of the queue, no later Push brings it back
\* (TaskQueue.cpp:16: the visited_ test comes before anything is inserted).
VisitedStayOut ==
  [][\A a \in visited : a \notin queuedAreas => a \notin queuedAreas']_qvars

\* No task waits forever behind later arrivals: the deque is served from the
\* front while Push appends at the back.
Served == \A a \in Place : a \in queuedAreas ~> a \notin queuedAreas

\* The areas that are served before a.
Before(q, a) ==
  {q[i].area : i \in {n \in 1..Len(q) : \A j \in 1..n : q[j].area # a}}

\* A queued area is never overtaken, and whatever is served in its stead stood
\* before it: it waits for no more than what was there when it came
\* (TaskQueue.cpp:20, 26-28).
NeverOvertaken ==
  [][\A a \in queuedAreas \cap queuedAreas' :
       /\ Before(queue', a) \subseteq Before(queue, a)
       /\ Len(queue') < Len(queue) => Before(queue', a) # Before(queue, a)]_qvars
==============================================================================
