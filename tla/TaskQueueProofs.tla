--------------------------- MODULE TaskQueueProofs ---------------------------
(***************************************************************************)
(* What the operations of TaskQueue preserve, for any caller.  The engines'*)
(* proofs and QueueClientProofs cite these lemmas.                         *)
(***************************************************************************)
EXTENDS TaskQueue, TLAPS

QInv == QTypeOK /\ QueuedAreasExact /\ DistinctAreas

\* Appending a task adds its area.
LEMMA AreasOfAppend ==
  ASSUME NEW q \in Seq(Task), NEW t \in Task
  PROVE  AreasOf(Append(q, t)) = AreasOf(q) \cup {t.area}
<1>1. Len(Append(q, t)) = Len(q) + 1 /\ Len(q) \in Nat
  OBVIOUS
<1>2. \A i \in 1..Len(q) : Append(q, t)[i] = q[i]
  OBVIOUS
<1>3. Append(q, t)[Len(q) + 1] = t
  OBVIOUS
<1>4. 1..(Len(q) + 1) = 1..Len(q) \cup {Len(q) + 1}
  BY <1>1
<1> QED
  BY <1>1, <1>2, <1>3, <1>4 DEF AreasOf

\* Taking the first task off removes its area, if no other task shares it.
LEMMA AreasOfTail ==
  ASSUME NEW q \in Seq(Task), q # <<>>,
         \A i, j \in 1..Len(q) : q[i].area = q[j].area => i = j
  PROVE  AreasOf(Tail(q)) = AreasOf(q) \ {Head(q).area}
<1>1. Len(q) \in Nat \ {0} /\ Len(Tail(q)) = Len(q) - 1 /\ Head(q) = q[1]
  OBVIOUS
<1>2. \A i \in 1..(Len(q) - 1) : Tail(q)[i] = q[i + 1]
  OBVIOUS
<1>3. ASSUME NEW a \in AreasOf(Tail(q))
      PROVE  a \in AreasOf(q) \ {Head(q).area}
  <2>1. PICK i \in 1..(Len(q) - 1) : a = q[i + 1].area
    BY <1>1, <1>2, <1>3 DEF AreasOf
  <2>2. i + 1 \in 1..Len(q) /\ i + 1 # 1
    BY <1>1
  <2> QED
    BY <1>1, <2>1, <2>2 DEF AreasOf
<1>4. ASSUME NEW a \in AreasOf(q) \ {Head(q).area}
      PROVE  a \in AreasOf(Tail(q))
  <2>1. PICK i \in 1..Len(q) : a = q[i].area
    BY DEF AreasOf
  <2>2. i # 1
    BY <1>1, <2>1
  <2>3. i - 1 \in 1..(Len(q) - 1) /\ (i - 1) + 1 = i
    BY <1>1, <2>2
  <2>4. Tail(q)[i - 1] = q[i]
    BY <1>2, <2>3
  <2>5. a = Tail(q)[i - 1].area /\ i - 1 \in 1..Len(Tail(q))
    BY <1>1, <2>1, <2>3, <2>4
  <2> QED
    BY <2>5 DEF AreasOf
<1> QED
  BY <1>3, <1>4

\* Push keeps the queue, its set of areas and the absence of duplicates.
LEMMA PushKeepsQInv ==
  ASSUME QInv, NEW t \in Task, Push(t)
  PROVE  QInv'
<1> USE DEF QInv, QTypeOK
<1>1. CASE Refuse(t)
  BY <1>1 DEF Refuse, qvars, QueuedAreasExact, DistinctAreas, AreasOf
<1>2. CASE Accept(t)
  <2>1. queue' \in Seq(Task) /\ t.area \in Place
    BY <1>2 DEF Accept, Task
  <2>2. QueuedAreasExact'
    <3>1. AreasOf(queue') = AreasOf(queue) \cup {t.area}
      BY <1>2, AreasOfAppend DEF Accept
    <3> QED
      BY <1>2, <3>1 DEF Accept, QueuedAreasExact, AreasOf
  <2>3. DistinctAreas'
    <3>1. \A i \in 1..Len(queue) : queue[i].area # t.area
      BY <1>2 DEF Accept, Fresh, QueuedAreasExact, AreasOf
    <3>2. /\ Len(queue') = Len(queue) + 1
          /\ queue'[Len(queue) + 1] = t
          /\ \A i \in 1..Len(queue) : queue'[i] = queue[i]
      BY <1>2 DEF Accept
    <3> QED
      BY <3>1, <3>2 DEF DistinctAreas
  <2> QED
    BY <1>2, <2>1, <2>2, <2>3 DEF Accept
<1> QED
  BY <1>1, <1>2 DEF Push

\* Pop keeps them as well.
LEMMA PopKeepsQInv ==
  ASSUME QInv, Pop
  PROVE  QInv' /\ Head(queue) \in Task
<1> USE DEF QInv, QTypeOK, Pop
<1>1. /\ queue' \in Seq(Task) /\ Head(queue) \in Task
      /\ Len(queue') = Len(queue) - 1
      /\ \A i \in 1..(Len(queue) - 1) : queue'[i] = queue[i + 1]
  OBVIOUS
<1>2. QueuedAreasExact'
  <2>1. AreasOf(queue') = AreasOf(queue) \ {Head(queue).area}
    BY AreasOfTail DEF DistinctAreas
  <2> QED
    BY <2>1 DEF QueuedAreasExact, AreasOf
<1>3. DistinctAreas'
  <2>1. SUFFICES ASSUME NEW i \in 1..(Len(queue) - 1),
                        NEW j \in 1..(Len(queue) - 1),
                        queue[i + 1].area = queue[j + 1].area
                 PROVE  i = j
    BY <1>1 DEF DistinctAreas
  <2>2. i + 1 \in 1..Len(queue) /\ j + 1 \in 1..Len(queue)
    OBVIOUS
  <2> QED
    BY <2>1, <2>2 DEF DistinctAreas
<1> QED
  BY <1>1, <1>2, <1>3

\* MarkVisited touches neither the queue nor its areas.
LEMMA MarkVisitedKeepsQInv ==
  ASSUME QInv, NEW a \in Place, MarkVisited(a)
  PROVE  QInv'
BY DEF QInv, QTypeOK, QueuedAreasExact, DistinctAreas, AreasOf, MarkVisited
==============================================================================
