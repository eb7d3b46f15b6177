--------------------------- MODULE QueueClientProofs ---------------------------
(***************************************************************************)
(* TaskQueue is correct in the hands of any caller, however many tasks and *)
(* areas there are.                                                        *)
(***************************************************************************)
EXTENDS QueueClient, TaskQueueProofs

\* The queue's set of areas is exact and its areas are distinct whatever the
\* caller does (TaskQueue.cpp).
THEOREM QueueCorrect == Spec => [](QTypeOK /\ QueuedAreasExact /\ DistinctAreas)
<1>1. QInit => QInv
  BY DEF QInit, QInv, QTypeOK, QueuedAreasExact, DistinctAreas, AreasOf
<1>2. QInv /\ [Next]_qvars => QInv'
  <2> SUFFICES ASSUME QInv, [Next]_qvars
               PROVE  QInv'
    OBVIOUS
  <2>1. ASSUME NEW t \in Offers, Push(t) PROVE QInv'
    BY <2>1, PushKeepsQInv, OffersAssumption
  <2>2. CASE Pop
    BY <2>2, PopKeepsQInv
  <2>3. ASSUME NEW a \in Place, MarkVisited(a) PROVE QInv'
    BY <2>3, MarkVisitedKeepsQInv
  <2>4. CASE UNCHANGED qvars
    BY <2>4 DEF qvars, QInv, QTypeOK, QueuedAreasExact, DistinctAreas, AreasOf
  <2> QED
    BY <2>1, <2>2, <2>3, <2>4 DEF Next
<1> QED
  BY <1>1, <1>2, PTL DEF Spec, QInv

\* No area is queued twice, also where the two branches of Push mix
\* (TaskQueue.cpp:9-22).
THEOREM AreasStayDistinct == Spec => []DistinctAreas
  BY QueueCorrect, PTL

\* A visited area that is out of the queue stays out of it, for any caller.
THEOREM VisitedNeverQueuedAgain == Spec => VisitedStayOut
<1>1. [Next]_qvars =>
        [\A a \in visited : a \notin queuedAreas => a \notin queuedAreas']_qvars
  BY DEF Next, Push, Accept, Refuse, Fresh, Pop, MarkVisited, qvars
<1> QED
  BY <1>1, PTL DEF Spec, VisitedStayOut

-----------------------------------------------------------------------------
\* Who joins the queue joins it behind every area that is there.
LEMMA BeforeAppended ==
  ASSUME NEW q \in Seq(Task), NEW t \in Task, NEW a \in AreasOf(q)
  PROVE  Before(Append(q, t), a) \subseteq Before(q, a)
<1> DEFINE p == Append(q, t)
<1> SUFFICES ASSUME NEW i \in 1..Len(p), \A j \in 1..i : p[j].area # a
             PROVE  p[i].area \in Before(q, a)
  BY DEF Before
<1>1. /\ Len(q) \in Nat /\ Len(p) = Len(q) + 1
      /\ \A j \in 1..Len(q) : p[j] = q[j]
  OBVIOUS
<1>2. PICK k \in 1..Len(q) : q[k].area = a
  BY DEF AreasOf
<1> HIDE DEF p
<1>3. i < k
  <2>1. k \in 1..i => FALSE
    BY <1>1, <1>2
  <2> QED
    BY <1>1, <2>1
<1>4. i \in 1..Len(q) /\ \A j \in 1..i : q[j].area # a
  BY <1>1, <1>3
<1> QED
  BY <1>1, <1>4 DEF Before

\* Once the front is served, an area that stays has one area less before it.
LEMMA BeforeTail ==
  ASSUME NEW q \in Seq(Task), q # <<>>, NEW a, Head(q).area # a,
         \A i, j \in 1..Len(q) : q[i].area = q[j].area => i = j
  PROVE  /\ Before(Tail(q), a) \subseteq Before(q, a)
         /\ Head(q).area \in Before(q, a) \ Before(Tail(q), a)
<1> DEFINE p == Tail(q)
<1>1. /\ Len(q) \in Nat \ {0} /\ Len(p) = Len(q) - 1
      /\ \A i \in 1..Len(p) : p[i] = q[i + 1]
      /\ Head(q) = q[1]
  OBVIOUS
<1> HIDE DEF p
<1>2. ASSUME NEW i \in 1..Len(p), \A j \in 1..i : p[j].area # a
      PROVE  p[i].area \in Before(q, a) /\ p[i].area # q[1].area
  <2>1. i + 1 \in 1..Len(q) /\ 1 \in 1..Len(q) /\ i + 1 # 1
    BY <1>1
  <2>2. ASSUME NEW j \in 1..(i + 1)
        PROVE  q[j].area # a
    <3>1. CASE j = 1
      BY <1>1, <3>1
    <3>2. CASE j # 1
      <4>1. j - 1 \in 1..i /\ j - 1 \in 1..Len(p) /\ (j - 1) + 1 = j
        BY <1>1, <3>2
      <4> QED
        BY <1>1, <1>2, <4>1
    <3> QED
      BY <3>1, <3>2
  <2>3. p[i].area = q[i + 1].area
    BY <1>1
  <2> QED
    BY <2>1, <2>2, <2>3 DEF Before
<1>3. q[1].area \in Before(q, a)
  <2>1. 1 \in 1..Len(q) /\ \A j \in 1..1 : q[j].area # a
    BY <1>1
  <2> QED
    BY <2>1 DEF Before
<1>4. Before(p, a) \subseteq Before(q, a) /\ q[1].area \notin Before(p, a)
  BY <1>2 DEF Before
<1> QED
  BY <1>1, <1>3, <1>4 DEF p

\* No area is overtaken while it waits, for any caller and any mix of tasks:
\* the part of Served that needs no fairness (TaskQueue.cpp:20, 26-28).
THEOREM NoAreaIsOvertaken == Spec => NeverOvertaken
<1>1. QInv /\ [Next]_qvars =>
        [\A a \in queuedAreas \cap queuedAreas' :
           /\ Before(queue', a) \subseteq Before(queue, a)
           /\ Len(queue') < Len(queue)
                => Before(queue', a) # Before(queue, a)]_qvars
  <2> SUFFICES ASSUME QInv, Next, NEW a \in queuedAreas \cap queuedAreas'
               PROVE  /\ Before(queue', a) \subseteq Before(queue, a)
                      /\ Len(queue') < Len(queue)
                           => Before(queue', a) # Before(queue, a)
    OBVIOUS
  <2>1. /\ queue \in Seq(Task) /\ Len(queue) \in Nat
        /\ queuedAreas = AreasOf(queue)
        /\ \A i, j \in 1..Len(queue) : queue[i].area = queue[j].area => i = j
    BY DEF QInv, QTypeOK, QueuedAreasExact, DistinctAreas
  <2>2. CASE queue' = queue
    BY <2>1, <2>2
  <2>3. ASSUME NEW t \in Offers, Accept(t)
        PROVE  /\ Before(queue', a) \subseteq Before(queue, a)
               /\ ~(Len(queue') < Len(queue))
    <3>1. t \in Task /\ queue' = Append(queue, t)
      BY <2>3, OffersAssumption DEF Accept
    <3>2. Len(queue') = Len(queue) + 1
      BY <2>1, <3>1
    <3> QED
      BY <2>1, <3>1, <3>2, BeforeAppended
  <2>4. CASE Pop
    <3>1. queue # <<>> /\ queue' = Tail(queue) /\ Head(queue).area # a
      BY <2>4 DEF Pop
    <3> QED
      BY <2>1, <3>1, BeforeTail
  <2> QED
    BY <2>2, <2>3, <2>4 DEF Next, Push, Refuse, MarkVisited, qvars
<1>2. Spec => []QInv
  BY QueueCorrect, PTL DEF QInv
<1> QED
  BY <1>1, <1>2, PTL DEF Spec, NeverOvertaken
==============================================================================
