------------------------ MODULE ResearchLimitsProofs ------------------------
(***************************************************************************)
(* What a run of the research loop costs and what it reports, for every    *)
(* instance: how often an area is investigated, how far the wall clock is  *)
(* overrun, and that the reason given is the one that ended the run.       *)
(***************************************************************************)
EXTENDS ResearchEngineProofs

Plain(t) == t.targets = <<>>

SeedLike(t, files) ==
  /\ Len(t.targets) <= MaxCandidates
  /\ \A i, j \in 1..Len(t.targets) : t.targets[i] = t.targets[j] => i = j
  /\ \A i \in 1..Len(t.targets) : t.targets[i] \in files

Unscanned == \A p \in Place : scans[p] = 0

\* Only the seed has sub-areas; while it waits nothing else has happened.
Shape ==
  /\ \A i \in 1..Len(raw.dirs) : Plain(raw.dirs[i])
  /\ \A i \in 1..Len(finding.dirs) : Plain(finding.dirs[i])
  /\ \A i \in 1..Len(queue) : ~Plain(queue[i]) =>
       /\ pc \in {"loop", "finish", "done"}
       /\ Len(queue) = 1
       /\ SeedLike(queue[i], probed)
       /\ Unscanned
  /\ ~Plain(current) => pc \notin {"start", "loop"} /\ SeedLike(current, probed)
  /\ pc = "start" => Unscanned

\* A seed covers distinct files, no more than the cut.
LEMMA SeedShape ==
  ASSUME NEW c \in CandidateLists, c # <<>>,
         probed' = {c[i] : i \in DOMAIN c}
  PROVE  SeedLike(Seed(c), probed') /\ probed' # {}
<1>1. PICK k \in 0..MaxCandidates : c \in [1..k -> Area]
  BY DEF CandidateLists
<1>2. k \in Nat /\ MaxCandidates \in Nat
  BY EngineAssumption
<1>3. c \in Seq(Area) /\ Len(c) = k /\ DOMAIN c = 1..k
  BY <1>1, <1>2, SeqDef
<1>4. k # 0
  BY <1>3, EmptySeq
<1>5. \A i, j \in 1..k : c[i] = c[j] => i = j
  BY <1>3 DEF CandidateLists
<1>6. probed' # {}
  <2>1. 1 \in DOMAIN c
    BY <1>2, <1>3, <1>4
  <2> QED
    BY <2>1
<1> QED
  BY <1>2, <1>3, <1>5, <1>6 DEF SeedLike, Seed

\* A report's directions are appended to those before; all are plain.
LEMMA PlainReports ==
  ASSUME Base, Shape, NEW f \in Parsed(counter), raw' = Merge(raw, f)
  PROVE  \A i \in 1..Len(raw'.dirs) : Plain(raw'.dirs[i])
<1>1. counter \in Nat /\ raw \in Finding
  BY DEF Base, TypeOK
<1>2. /\ f \in Finding /\ \A i \in 1..Len(f.dirs) : Plain(f.dirs[i])
  BY <1>1, ParsedFindings DEF Plain
<1>3. raw.dirs \in Seq(Task) /\ f.dirs \in Seq(Task)
  BY <1>1, <1>2 DEF Finding
<1>4. \A i \in 1..Len(raw.dirs) : Plain(raw.dirs[i])
  BY DEF Shape
<1>5. CASE raw'.dirs = raw.dirs
  BY <1>4, <1>5
<1>6. CASE raw'.dirs = raw.dirs \o f.dirs
  <2> DEFINE n == Len(raw.dirs)
             m == Len(f.dirs)
  <2>1. /\ n \in Nat /\ m \in Nat /\ Len(raw'.dirs) = n + m
        /\ \A i \in 1..(n + m) :
             raw'.dirs[i] = IF i <= n THEN raw.dirs[i] ELSE f.dirs[i - n]
    <3>1. n \in Nat /\ m \in Nat
      BY <1>3, LenProperties
    <3>2. /\ Len(raw.dirs \o f.dirs) = Len(raw.dirs) + Len(f.dirs)
          /\ \A i \in 1..(Len(raw.dirs) + Len(f.dirs)) :
               (raw.dirs \o f.dirs)[i] =
                 IF i <= Len(raw.dirs) THEN raw.dirs[i]
                                       ELSE f.dirs[i - Len(raw.dirs)]
      BY <1>3, ConcatProperties
    <3> QED
      BY <1>6, <3>1, <3>2
  <2>2. \A i \in 1..n : Plain(raw.dirs[i])
    BY <1>4
  <2>3. \A i \in 1..m : Plain(f.dirs[i])
    BY <1>2
  <2> HIDE DEF n, m
  <2> SUFFICES ASSUME NEW i \in 1..(n + m)
               PROVE  Plain(raw'.dirs[i])
    BY <2>1
  <2>4. CASE i <= n
    BY <2>1, <2>2, <2>4
  <2>5. CASE ~(i <= n)
    <3>1. i - n \in 1..m
      BY <2>1, <2>5
    <3> QED
      BY <2>1, <2>3, <2>5, <3>1
  <2> QED
    BY <2>4, <2>5
<1> QED
  BY <1>1, <1>2, <1>5, <1>6, MergedFindings

LEMMA ShapeStep == Base /\ Shape /\ [Next]_vars => Shape'
<1> SUFFICES ASSUME Base, Shape, [Next]_vars
             PROVE  Shape'
  OBVIOUS
<1>1. ASSUME UNCHANGED <<queue, current, raw, finding, probed, scans>>,
             pc \in {"loop", "finish", "done"} => pc' \in {"loop", "finish", "done"},
             pc' \in {"start", "loop"} => pc = pc'
      PROVE  Shape'
  BY <1>1 DEF Shape, Plain, SeedLike, Unscanned
<1>2. ASSUME NEW c \in CandidateLists, PushSeed(c)
      PROVE  Shape'
  <2>1. /\ pc = "start" /\ pc' = "loop" /\ queue = <<>> /\ c # <<>>
        /\ probed' = {c[i] : i \in DOMAIN c}
        /\ UNCHANGED <<current, raw, finding, scans>>
    BY <1>2 DEF PushSeed, locals, Base, Positions
  <2>2. queue' = <<>> \/ queue' = <<Seed(c)>>
    BY <1>2, <2>1 DEF PushSeed, Push, Accept, Refuse, qvars
  <2>3. SeedLike(Seed(c), probed')
    BY <2>1, SeedShape
  <2>4. Unscanned' /\ Plain(current')
    BY <2>1 DEF Shape, Unscanned
  <2>5. ASSUME NEW i \in 1..Len(queue')
        PROVE  Len(queue') = 1 /\ SeedLike(queue'[i], probed')
    <3>1. CASE queue' = <<>>
      BY <3>1, <2>5
    <3>2. CASE queue' = <<Seed(c)>>
      <4> DEFINE s == Seed(c)
      <4>1. SeedLike(s, probed') /\ queue' = <<s>>
        BY <2>3, <3>2
      <4> HIDE DEF s
      <4>2. Len(queue') = 1 /\ queue'[1] = s /\ i = 1
        BY <4>1, <2>5
      <4> QED
        BY <4>1, <4>2
    <3> QED
      BY <2>2, <3>1, <3>2
  <2> QED
    BY <2>1, <2>4, <2>5 DEF Shape, Plain
<1>3. CASE StartTask
  <2>1. /\ pc = "loop" /\ pc' = "work" /\ queue # <<>> /\ queue' = Tail(queue)
        /\ current' = Head(queue)
        /\ UNCHANGED <<raw, finding, probed, scans>>
    BY <1>3 DEF StartTask, LoopMayRun, Pop, history
  <2>2. /\ Len(queue') = Len(queue) - 1 /\ Len(queue) \in Nat
        /\ \A i \in 1..Len(queue') : queue'[i] = queue[i + 1]
                                     /\ i + 1 \in 1..Len(queue)
        /\ current' = queue[1] /\ 1 \in 1..Len(queue)
    BY <2>1 DEF Base, TypeOK, QTypeOK
  <2>3. \A i \in 1..Len(queue) : ~Plain(queue[i]) => Len(queue) = 1
    BY DEF Shape
  <2>4. \A i \in 1..Len(queue') : Plain(queue'[i])
    BY <2>2, <2>3
  <2>5. ~Plain(current') => SeedLike(current', probed')
    <3>1. ~Plain(queue[1]) => SeedLike(queue[1], probed)
      BY <2>2 DEF Shape
    <3> QED
      BY <2>1, <2>2, <3>1
  <2> QED
    BY <2>1, <2>4, <2>5 DEF Shape, Plain
<1>4. CASE SkipUnreadable
  <2>1. raw' = raw
    BY <1>4 DEF SkipUnreadable, Merge, Counts, NoFinding
  <2> QED
    BY <1>1, <1>4, <2>1 DEF SkipUnreadable, NextSubArea, qvars, history
<1>5. ASSUME NEW f \in Parsed(counter), Investigate(f)
      PROVE  Shape'
  <2>1. /\ pc = "work" /\ pc' \in {"work", "review"} /\ raw' = Merge(raw, f)
        /\ UNCHANGED <<queue, current, finding, probed>>
    BY <1>5 DEF Investigate, NextSubArea, qvars
  <2>2. \A i \in 1..Len(raw'.dirs) : Plain(raw'.dirs[i])
    BY <2>1, PlainReports
  <2>3. \A i \in 1..Len(queue) : Plain(queue[i])
    BY <2>1 DEF Shape
  <2> QED
    BY <2>1, <2>2, <2>3 DEF Shape, Plain, SeedLike
<1>6. ASSUME NEW f \in Reviewed(raw), Review(f)
      PROVE  Shape'
  <2>1. /\ pc = "review" /\ pc' = "record" /\ finding' = f
        /\ UNCHANGED <<queue, current, raw, probed, scans>>
    BY <1>6 DEF Review, qvars, history
  <2>2. \A i \in 1..Len(f.dirs) : \E k \in 1..Len(raw.dirs) : f.dirs[i] = raw.dirs[k]
    BY ReviewedFindings DEF Base, TypeOK
  <2>3. \A i \in 1..Len(f.dirs) : Plain(f.dirs[i])
    BY <2>2 DEF Shape
  <2> QED
    BY <2>1, <2>3 DEF Shape, Plain, SeedLike
<1>7. ASSUME UNCHANGED <<queue, probed, scans>>, pc \in {"record", "dispatch"},
             \/ pc' = "dispatch" /\ UNCHANGED <<current, raw, finding>>
             \/ pc' = "loop" /\ ClearLocals
      PROVE  Shape'
  <2>1. \A i \in 1..Len(queue) : Plain(queue[i])
    BY <1>7 DEF Shape
  <2>2. CASE pc' = "dispatch" /\ UNCHANGED <<current, raw, finding>>
    BY <1>7, <2>1, <2>2 DEF Shape, Plain, SeedLike
  <2>3. CASE pc' = "loop" /\ ClearLocals
    <3>1. Plain(current') /\ raw'.dirs = <<>> /\ finding'.dirs = <<>>
      BY <2>3 DEF ClearLocals, NoTask, NoFinding, Direction, Plain
    <3>2. Len(raw'.dirs) = 0 /\ Len(finding'.dirs) = 0
      BY <3>1
    <3> QED
      BY <1>7, <2>1, <2>3, <3>1, <3>2 DEF Shape, Plain
  <2> QED
    BY <1>7, <2>2, <2>3
<1>8. CASE Record
  <2>1. /\ queue' = queue /\ probed' = probed /\ scans' = scans /\ pc = "record"
    BY <1>8 DEF Record, MarkVisited, history
  <2>2. \/ pc' = "dispatch" /\ UNCHANGED <<current, raw, finding>>
        \/ pc' = "loop" /\ ClearLocals
    BY <1>8 DEF Record, locals
  <2> QED
    BY <1>7, <2>1, <2>2
<1>9. CASE Dispatch
  <2>1. pc = "dispatch" /\ probed' = probed /\ scans' = scans
    BY <1>9 DEF Dispatch, history
  <2>2. \A i \in 1..Len(queue) : Plain(queue[i])
    BY <2>1 DEF Shape
  <2>3. Plain(Child(finding.dirs[next]))
    <3>1. next \in 1..Len(finding.dirs)
      BY <2>1, Dispatched
    <3>2. Plain(finding.dirs[next])
      BY <3>1 DEF Shape
    <3> QED
      BY <2>1, <3>2, Dispatched, ChildType DEF Plain
  <2>4. \A i \in 1..Len(queue') : Plain(queue'[i])
    <3>1. CASE queue' = queue
      BY <2>2, <3>1
    <3>2. CASE queue' = Append(queue, Child(finding.dirs[next]))
      <4> DEFINE d == Child(finding.dirs[next])
      <4>1. queue' = Append(queue, d) /\ Plain(d) /\ queue \in Seq(Task)
        BY <2>3, <3>2 DEF Base, TypeOK, QTypeOK
      <4> HIDE DEF d
      <4> QED
        BY <2>2, <4>1
    <3> QED
      BY <1>9, <3>1, <3>2 DEF Dispatch, Push, Accept, Refuse, qvars
  <2>5. CASE pc' = "dispatch"
    <3>1. UNCHANGED <<current, raw, finding>>
      BY <1>9, <2>5 DEF Dispatch
    <3> QED
      BY <2>1, <2>4, <2>5, <3>1 DEF Shape, Plain, SeedLike
  <2>6. CASE pc' = "loop"
    <3>1. Plain(current') /\ raw'.dirs = <<>> /\ finding'.dirs = <<>>
      BY <1>9, <2>1, <2>6
      DEF Dispatch, ClearLocals, NoTask, NoFinding, Direction, Plain
    <3>2. Len(raw'.dirs) = 0 /\ Len(finding'.dirs) = 0
      BY <3>1
    <3> QED
      BY <2>1, <2>4, <2>6, <3>1, <3>2 DEF Shape, Plain
  <2> QED
    BY <1>9, <2>5, <2>6 DEF Dispatch
<1>10. CASE NoDirection \/ QueueDrained \/ IterationsReached
              \/ ClockExhausted \/ Answer \/ GiveUp
  BY <1>1, <1>10 DEF NoDirection, QueueDrained, IterationsReached,
     ClockExhausted, Leave, Answer, GiveUp, qvars, locals, history
<1>11. CASE Abort \/ UNCHANGED vars
  BY <1>1, <1>11 DEF Abort, vars, qvars, locals, history
<1> QED
  BY <1>2, <1>3, <1>4, <1>5, <1>6, <1>8, <1>9, <1>10, <1>11 DEF Next, Over

LEMMA ShapeInvariant == Spec => []Shape
<1>1. Init => Shape
  <2> SUFFICES ASSUME Init
               PROVE  Shape
    OBVIOUS
  <2>1. queue = <<>> /\ raw.dirs = <<>> /\ finding.dirs = <<>>
    BY DEF Init, QInit, NoFinding
  <2>2. Len(queue) = 0 /\ Len(raw.dirs) = 0 /\ Len(finding.dirs) = 0
    BY <2>1
  <2>3. Plain(current) /\ Unscanned
    BY DEF Init, NoTask, Direction, Plain, Unscanned
  <2> QED
    BY <2>2, <2>3 DEF Shape
<1> QED
  BY <1>1, ShapeStep, BaseInvariant, PTL DEF Spec

-----------------------------------------------------------------------------
\* The area is visited, or will be once the task in hand is recorded.
Settled(p) ==
  \/ p \in visited
  \/ pc \in {"review", "record"} /\ Plain(current) /\ p = current.area

\* An area is investigated once for the seed and once for itself.
ScanCount ==
  /\ pc = "start" => Unscanned
  /\ \A p \in Place :
       /\ scans[p] <= 2
       /\ scans[p] = 2 => p \in probed /\ Settled(p)
       /\ scans[p] = 1 => p \in probed \/ Settled(p)
  /\ pc = "work" /\ ~Plain(current) =>
       \A i \in 1..Len(current.targets) :
         sub <= i => scans[current.targets[i]] = 0

LEMMA PlainScan ==
  ASSUME Base, Explored, ScanCount, Plain(current),
         NEW f \in Parsed(counter), Investigate(f)
  PROVE  ScanCount'
<1>1. SubAreas(current) = <<current.area>>
  BY DEF SubAreas, Repeatable, Plain
<1>2. pc = "work" /\ sub = 1
  BY <1>1 DEF Investigate, Base, TypeOK, Positions
<1>3. /\ pc' = "review" /\ current' = current /\ visited' = visited
      /\ probed' = probed
      /\ scans' = [scans EXCEPT ![current.area] = @ + 1]
  BY <1>1, <1>2 DEF Investigate, NextSubArea, qvars
<1>4. current.area \in Place /\ scans \in [Place -> Nat]
  BY DEF Base, TypeOK, Task
<1>5. current.area \notin visited
  BY <1>2 DEF Explored, NoRevisit, InFlight
<1>6. \/ scans[current.area] = 0
      \/ scans[current.area] = 1 /\ current.area \in probed
  <2> DEFINE count == scans[current.area]
  <2>1. ~Settled(current.area)
    BY <1>2, <1>5 DEF Settled
  <2>2. /\ count <= 2 /\ count # 2
        /\ count = 1 => current.area \in probed
    BY <1>4, <2>1 DEF ScanCount
  <2>3. count \in Nat
    BY <1>4
  <2> HIDE DEF count
  <2>4. count = 0 \/ count = 1
    BY <2>2, <2>3
  <2> QED
    BY <2>2, <2>4 DEF count
<1>7. \A p \in Place : Settled(p) => Settled(p)'
  BY <1>2, <1>3 DEF Settled
<1>9. ASSUME NEW p \in Place
      PROVE  /\ scans'[p] <= 2
             /\ scans'[p] = 2 => p \in probed' /\ Settled(p)'
             /\ scans'[p] = 1 => p \in probed' \/ Settled(p)'
  <2>1. CASE p = current.area
    <3>1. scans'[p] = scans[p] + 1
      BY <1>3, <1>4, <2>1
    <3>2. Settled(p)'
      BY <1>3, <2>1 DEF Settled, Plain
    <3> QED
      BY <1>3, <1>6, <2>1, <3>1, <3>2
  <2>2. CASE p # current.area
    <3>1. scans'[p] = scans[p]
      BY <1>3, <1>4, <2>2
    <3> QED
      BY <1>3, <1>7, <3>1 DEF ScanCount
  <2> QED
    BY <2>1, <2>2
<1> QED
  BY <1>3, <1>9 DEF ScanCount

LEMMA SeedScan ==
  ASSUME Base, Shape, ScanCount, ~Plain(current),
         NEW f \in Parsed(counter), Investigate(f)
  PROVE  ScanCount'
<1> DEFINE a == current.targets[sub]
<1>1. SubAreas(current) = current.targets
  BY DEF SubAreas, Repeatable, Plain
<1>2. pc = "work" /\ sub \in 1..Len(current.targets)
  <2>1. pc = "work" /\ sub \in Nat \ {0} /\ sub <= Len(current.targets)
    BY <1>1 DEF Investigate, Base, TypeOK, Positions
  <2>2. Len(current.targets) \in Nat
    BY <1>1, SubAreasType DEF Base, TypeOK
  <2> QED
    BY <2>1, <2>2
<1>3. /\ current' = current /\ visited' = visited /\ probed' = probed
      /\ scans' = [scans EXCEPT ![a] = @ + 1]
  BY <1>1 DEF Investigate, qvars
<1>4. pc' = "review" \/ (pc' = "work" /\ sub' = sub + 1)
  BY <1>2 DEF Investigate, NextSubArea
<1>5. SeedLike(current, probed)
  BY DEF Shape
<1>6. a \in probed /\ scans[a] = 0
  BY <1>2, <1>5 DEF SeedLike, ScanCount, Base, TypeOK
<1>7. a \in Place /\ scans \in [Place -> Nat]
  BY <1>6 DEF Base, TypeOK, Place
<1>8. \A p \in Place : Settled(p) => Settled(p)'
  BY <1>2, <1>3 DEF Settled
<1>9. ASSUME NEW p \in Place
      PROVE  /\ scans'[p] <= 2
             /\ scans'[p] = 2 => p \in probed' /\ Settled(p)'
             /\ scans'[p] = 1 => p \in probed' \/ Settled(p)'
  <2>1. CASE p = a
    <3>1. scans'[p] = 1
      BY <1>3, <1>6, <1>7, <2>1
    <3> QED
      BY <1>3, <1>6, <2>1, <3>1
  <2>2. CASE p # a
    <3>1. scans'[p] = scans[p]
      BY <1>3, <1>7, <2>2
    <3> QED
      BY <1>3, <1>8, <3>1 DEF ScanCount
  <2> QED
    BY <2>1, <2>2
<1>10. ASSUME pc' = "work", NEW i \in 1..Len(current.targets), sub' <= i
       PROVE  scans'[current.targets[i]] = 0
  <2>1. sub' = sub + 1 /\ sub \in Nat
    BY <1>2, <1>4, <1>10
  <2>2. sub <= i /\ sub # i
    BY <1>10, <2>1
  <2>3. current.targets[i] # a
    BY <1>2, <1>5, <2>2 DEF SeedLike
  <2>4. scans[current.targets[i]] = 0
    BY <1>2, <2>2 DEF ScanCount
  <2>5. current.targets[i] \in Place
    BY <1>5 DEF SeedLike, Base, TypeOK, Place
  <2> QED
    BY <1>3, <1>7, <2>3, <2>4, <2>5
<1> QED
  <2>1. pc' # "start"
    BY <1>4
  <2> QED
    BY <1>3, <1>9, <1>10, <2>1 DEF ScanCount

LEMMA ScanCountStep ==
  Base /\ Explored /\ Shape /\ ScanCount /\ [Next]_vars => ScanCount'
<1> SUFFICES ASSUME Base, Explored, Shape, ScanCount, [Next]_vars
             PROVE  ScanCount'
  OBVIOUS
<1>1. ASSUME UNCHANGED <<scans, probed>>, pc' = "start" => pc = "start",
             \A p \in Place : Settled(p) => Settled(p)',
             pc' = "work" => pc = "work" /\ current' = current /\ sub <= sub'
                             /\ sub' \in Nat
      PROVE  ScanCount'
  <2>1. pc' = "start" => Unscanned'
    BY <1>1 DEF ScanCount, Unscanned
  <2>2. \A p \in Place :
          /\ scans'[p] <= 2
          /\ scans'[p] = 2 => p \in probed' /\ Settled(p)'
          /\ scans'[p] = 1 => p \in probed' \/ Settled(p)'
    BY <1>1 DEF ScanCount
  <2>3. ASSUME pc' = "work", ~Plain(current'),
               NEW i \in 1..Len(current'.targets), sub' <= i
        PROVE  scans'[current'.targets[i]] = 0
    <3>1. /\ pc = "work" /\ current' = current /\ sub <= sub'
          /\ sub \in Nat /\ sub' \in Nat
      BY <1>1, <2>3 DEF Base, TypeOK
    <3>2. sub <= i /\ i \in 1..Len(current.targets) /\ ~Plain(current)
      BY <2>3, <3>1
    <3> QED
      BY <1>1, <3>1, <3>2 DEF ScanCount
  <2> QED
    BY <2>1, <2>2, <2>3 DEF ScanCount
<1>2. ASSUME NEW c \in CandidateLists, PushSeed(c)
      PROVE  ScanCount'
  BY <1>2 DEF PushSeed, ScanCount, Unscanned
<1>3. CASE StartTask
  <2>1. /\ pc = "loop" /\ pc' = "work" /\ queue # <<>>
        /\ current' = Head(queue)
        /\ UNCHANGED <<visited, probed, scans>>
    BY <1>3 DEF StartTask, LoopMayRun, Pop, history
  <2>2. current' = queue[1] /\ 1 \in 1..Len(queue)
    BY <2>1 DEF Base, TypeOK, QTypeOK
  <2>3. ASSUME ~Plain(current'), NEW i \in 1..Len(current'.targets)
        PROVE  scans'[current'.targets[i]] = 0
    <3>1. SeedLike(current', probed) /\ Unscanned
      BY <2>2, <2>3 DEF Shape
    <3>2. current'.targets[i] \in Place
      BY <3>1, <2>3 DEF SeedLike, Base, TypeOK, Place
    <3> QED
      BY <2>1, <3>1, <3>2 DEF Unscanned
  <2>4. \A p \in Place : Settled(p) => Settled(p)'
    BY <2>1 DEF Settled
  <2> QED
    BY <2>1, <2>3, <2>4 DEF ScanCount
<1>4. CASE SkipUnreadable
  <2>1. /\ pc = "work" /\ UNCHANGED <<visited, current, scans, probed>>
        /\ \/ pc' = "review"
           \/ pc' = "work" /\ sub' = sub + 1
    BY <1>4 DEF SkipUnreadable, NextSubArea, qvars, history
  <2>2. \A p \in Place : Settled(p) => Settled(p)'
    BY <2>1 DEF Settled
  <2> QED
    BY <1>1, <2>1, <2>2 DEF Base, TypeOK
<1>5. ASSUME NEW f \in Parsed(counter), Investigate(f)
      PROVE  ScanCount'
  BY <1>5, PlainScan, SeedScan
<1>6. CASE \E f \in Reviewed(raw) : Review(f)
  <2>1. /\ pc = "review" /\ pc' = "record"
        /\ UNCHANGED <<visited, current, scans, probed>>
    BY <1>6 DEF Review, qvars, history
  <2> QED
    BY <1>1, <2>1 DEF Settled
<1>7. CASE Record
  <2>1. /\ pc = "record" /\ pc' \in {"loop", "dispatch"}
        /\ visited' = visited \cup {current.area}
        /\ UNCHANGED <<scans, probed>>
    BY <1>7 DEF Record, MarkVisited, history
  <2> QED
    BY <1>1, <2>1 DEF Settled
<1>8. CASE Dispatch
  <2>1. /\ pc = "dispatch" /\ pc' \in {"loop", "dispatch"}
        /\ UNCHANGED <<visited, scans, probed>>
    BY <1>8 DEF Dispatch, Push, Accept, Refuse, qvars, history
  <2> QED
    BY <1>1, <2>1 DEF Settled
<1>9. CASE NoDirection \/ QueueDrained \/ IterationsReached
             \/ ClockExhausted \/ Answer \/ GiveUp \/ Abort
  <2>1. /\ pc \in {"start", "loop", "work", "finish"}
        /\ pc' \in {"finish", "done", "aborted"}
        /\ UNCHANGED <<visited, scans, probed>>
    BY <1>9 DEF NoDirection, QueueDrained, IterationsReached, ClockExhausted,
       Leave, Answer, GiveUp, Abort, qvars, history
  <2> QED
    BY <1>1, <2>1 DEF Settled
<1>10. CASE UNCHANGED vars
  <2>1. UNCHANGED <<pc, visited, current, sub, scans, probed>>
    BY <1>10 DEF vars, qvars, locals, history
  <2> QED
    BY <1>1, <2>1 DEF Settled, Plain, Base, TypeOK
<1> QED
  BY <1>2, <1>3, <1>4, <1>5, <1>6, <1>7, <1>8, <1>9, <1>10 DEF Next, Over

\* No reply makes the run investigate an area more than once beyond the
\* seed's pass over it (Worker.cpp:158, ResearchEngine.cpp:240, 257).
THEOREM ScannedAtMostTwice == Spec => []ScannedTwiceAtMost
<1>1. Init => ScanCount
  <2> SUFFICES ASSUME Init
               PROVE  ScanCount
    OBVIOUS
  <2>1. pc = "start" /\ \A p \in Place : scans[p] = 0
    BY DEF Init
  <2> QED
    BY <2>1 DEF ScanCount, Unscanned
<1>2. Base /\ ScanCount => ScannedTwiceAtMost
  <2> SUFFICES ASSUME Base, ScanCount, NEW p \in Place
               PROVE  scans[p] <= IF p \in probed THEN 2 ELSE 1
    BY DEF ScannedTwiceAtMost
  <2>1. scans[p] \in Nat
    BY DEF Base, TypeOK
  <2>2. scans[p] <= 2 /\ (scans[p] = 2 => p \in probed)
    BY DEF ScanCount
  <2> QED
    BY <2>1, <2>2
<1> QED
  BY <1>1, <1>2, ScanCountStep, BaseInvariant, ExploredInvariant,
     ShapeInvariant, PTL DEF Spec

-----------------------------------------------------------------------------
\* The reason is open until the loop is left, and only an empty queue leaves
\* it open then.
Told ==
  /\ pc \notin {"finish", "done"} => reason = ""
  /\ pc # "done" => answered = FALSE
  /\ pc = "start" => probed = {} /\ successes = {}
  /\ pc \notin {"start", "done"} => probed # {}
  /\ pc = "finish" =>
       /\ reason \in {"", "iterations", "clock"}
       /\ reason = "" <=> queue = <<>>
       /\ reason = "iterations" => iterations >= MaxIterations
       /\ reason = "clock" =>
            clock >= MaxWallClock /\ iterations < MaxIterations
  /\ HonestReason

LEMMA ToldStep == Base /\ Told /\ [Next]_vars => Told'
<1> SUFFICES ASSUME Base, Told, [Next]_vars
             PROVE  Told'
  OBVIOUS
<1>1. ASSUME UNCHANGED <<reason, answered, probed>>,
             pc \notin {"start", "finish", "done"},
             pc' \notin {"start", "finish", "done"}
      PROVE  Told'
  BY <1>1 DEF Told, HonestReason
<1>2. CASE NoDirection
  <2>1. /\ pc = "start" /\ pc' = "done" /\ reason' = "no direction"
        /\ UNCHANGED <<queue, answered, successes, probed>>
    BY <1>2 DEF NoDirection, qvars, history
  <2>2. queue = <<>> /\ probed = {} /\ successes = {} /\ answered = FALSE
    BY <2>1 DEF Told, Base, Positions
  <2> QED
    BY <2>1, <2>2 DEF Told, HonestReason
<1>3. ASSUME NEW c \in CandidateLists, PushSeed(c)
      PROVE  Told'
  <2>1. /\ pc = "start" /\ pc' = "loop" /\ c # <<>>
        /\ probed' = {c[i] : i \in DOMAIN c}
        /\ UNCHANGED <<reason, answered>>
    BY <1>3 DEF PushSeed, result
  <2>2. probed' # {}
    BY <2>1, SeedShape
  <2>3. reason = "" /\ answered = FALSE
    BY <2>1 DEF Told
  <2> QED
    BY <2>1, <2>2, <2>3 DEF Told, HonestReason
<1>4. ASSUME NEW why \in {"", "iterations", "clock"}, pc = "loop", Leave(why),
             why = "" <=> queue = <<>>,
             why = "iterations" => iterations >= MaxIterations,
             why = "clock" =>
               clock >= MaxWallClock /\ iterations < MaxIterations
      PROVE  Told'
  <2>1. /\ pc' = "finish" /\ reason' = why
        /\ UNCHANGED <<queue, iterations, clock, answered, probed>>
    BY <1>4 DEF Leave, qvars, history
  <2>2. answered = FALSE /\ probed # {}
    BY <1>4 DEF Told
  <2> QED
    BY <1>4, <2>1, <2>2 DEF Told, HonestReason
<1>5. CASE QueueDrained \/ IterationsReached \/ ClockExhausted
  BY <1>4, <1>5 DEF QueueDrained, IterationsReached, ClockExhausted
<1>6. CASE Answer \/ GiveUp
  <2>0. clock' >= clock /\ clock' \in Nat
    <3>1. clock \in Nat
      BY DEF Base, TypeOK
    <3>2. Generate \/ clock' = clock
      BY <1>6 DEF Answer, GiveUp
    <3> QED
      BY <3>1, <3>2, GenerateType
  <2>1. /\ pc = "finish" /\ pc' = "done"
        /\ UNCHANGED <<queue, iterations, successes, probed>>
        /\ clock' >= clock /\ clock' \in Nat
    BY <1>6, <2>0 DEF Answer, GiveUp, qvars, history
  <2>2. /\ reason \in {"", "iterations", "clock"}
        /\ reason = "" <=> queue = <<>>
        /\ reason = "iterations" => iterations >= MaxIterations
        /\ reason = "clock" =>
             clock >= MaxWallClock /\ iterations < MaxIterations
        /\ probed # {} /\ answered = FALSE
    BY <2>1 DEF Told
  <2>3. reason = "clock" => clock' >= MaxWallClock
    BY <2>1, <2>2, EngineAssumption DEF Base, TypeOK
  <2>4. CASE Answer
    <3>1. /\ successes # {} /\ answered' = TRUE
          /\ reason' = IF reason = "" THEN "drained" ELSE reason
      BY <2>4 DEF Answer
    <3>2. CASE reason = ""
      BY <2>1, <2>2, <3>1, <3>2 DEF Told, HonestReason
    <3>3. CASE reason # ""
      BY <2>1, <2>2, <2>3, <3>1, <3>3 DEF Told, HonestReason
    <3> QED
      BY <3>2, <3>3
  <2>5. CASE GiveUp
    <3>1. /\ successes = {} /\ answered' = answered
          /\ reason' = IF reason = "" THEN "drained without success"
                                     ELSE reason
      BY <2>5 DEF GiveUp
    <3>2. CASE reason = ""
      BY <2>1, <2>2, <3>1, <3>2 DEF Told, HonestReason
    <3>3. CASE reason # ""
      BY <2>1, <2>2, <2>3, <3>1, <3>3 DEF Told, HonestReason
    <3> QED
      BY <3>2, <3>3
  <2> QED
    BY <1>6, <2>4, <2>5
<1>7. CASE StartTask
  BY <1>1, <1>7 DEF StartTask, LoopMayRun, result, history
<1>8. CASE SkipUnreadable \/ Abort
  BY <1>1, <1>8 DEF SkipUnreadable, NextSubArea, Abort, result, history
<1>9. ASSUME NEW f \in Parsed(counter), Investigate(f)
      PROVE  Told'
  BY <1>1, <1>9 DEF Investigate, NextSubArea, result
<1>10. ASSUME NEW f \in Reviewed(raw), Review(f)
       PROVE  Told'
  BY <1>1, <1>10 DEF Review, result, history
<1>11. CASE Record
  <2>1. /\ pc = "record" /\ pc' \in {"loop", "dispatch"}
        /\ UNCHANGED <<reason, answered, probed>>
    BY <1>11 DEF Record, result, history
  <2> QED
    BY <1>1, <2>1
<1>12. CASE Dispatch
  <2>1. /\ pc = "dispatch" /\ pc' \in {"loop", "dispatch"}
        /\ UNCHANGED <<reason, answered, probed>>
    BY <1>12 DEF Dispatch, result, history
  <2> QED
    BY <1>1, <2>1
<1>13. CASE UNCHANGED vars
  BY <1>13 DEF vars, qvars, result, history, Told, HonestReason
<1> QED
  BY <1>2, <1>3, <1>5, <1>6, <1>7, <1>8, <1>9, <1>10, <1>11, <1>12, <1>13
  DEF Next, Over

\* The reported reason is the one that ended the run, and a run is answered
\* just if a task succeeded (ResearchEngine.cpp:174-187, 205-212, 277-284).
THEOREM ReasonIsHonest == Spec => []HonestReason
<1>1. Init => Told
  <2> SUFFICES ASSUME Init
               PROVE  Told
    OBVIOUS
  <2>1. pc = "start" /\ answered = FALSE /\ probed = {} /\ successes = {}
    BY DEF Init
  <2>2. reason = ""
    BY DEF Init
  <2> QED
    BY <2>1, <2>2 DEF Told, HonestReason
<1>2. Told => HonestReason
  BY DEF Told
<1> QED
  BY <1>1, <1>2, ToldStep, BaseInvariant, PTL DEF Spec

-----------------------------------------------------------------------------
\* How late it may be at each point of the loop.
Overrun ==
  /\ pc = "start" => clock = 0
  /\ pc \in {"loop", "finish"} =>
       \/ clock <= CallMinutes
       \/ clock < MaxWallClock + (MaxCandidates + 1) * CallMinutes
  /\ pc \in {"work", "aborted"} =>
       clock < MaxWallClock + (sub - 1) * CallMinutes
  /\ pc = "review" => clock < MaxWallClock + MaxCandidates * CallMinutes
  /\ pc \in {"record", "dispatch"} =>
       clock < MaxWallClock + (MaxCandidates + 1) * CallMinutes
  /\ BoundedOverrun

\* The arithmetic of one more call, and of fewer calls than the limit.
LEMMA MoreCalls ==
  ASSUME NEW m \in Int, NEW k \in Int, m <= k, NEW c \in Nat
  PROVE  /\ m * c \in Int /\ (m + 1) * c = m * c + c
         /\ m * c <= k * c
<1>1. m * c \in Int /\ (m + 1) * c = m * c + c
  OBVIOUS
<1>2. k * c = m * c + (k - m) * c
  OBVIOUS
<1>3. k - m \in Nat
  OBVIOUS
<1>4. \A d \in Nat : d * c >= 0
  OBVIOUS
<1>5. (k - m) * c >= 0
  BY <1>3, <1>4
<1> QED
  BY <1>1, <1>2, <1>5

\* No task has more sub-areas than the seed's cut.
LEMMA FewSubAreas ==
  ASSUME Base, Shape
  PROVE  Len(SubAreas(current)) <= MaxCandidates
<1>1. CASE Plain(current)
  <2>1. Len(SubAreas(current)) = 1
    BY <1>1 DEF SubAreas, Repeatable, Plain
  <2> QED
    BY <2>1, EngineAssumption
<1>2. CASE ~Plain(current)
  BY <1>2 DEF Shape, SeedLike, SubAreas, Repeatable, Plain
<1> QED
  BY <1>1, <1>2

\* A task, and so a success, takes a budget of at least a minute.
Started ==
  pc \in {"work", "review", "record", "dispatch"} \/ successes # {} =>
    MaxWallClock > 0

LEMMA StartedStep == Base /\ Started /\ [Next]_vars => Started'
<1> SUFFICES ASSUME Base, Started, [Next]_vars
             PROVE  Started'
  OBVIOUS
<1>1. CASE StartTask
  BY <1>1, EngineAssumption DEF StartTask, LoopMayRun, Started, Base, TypeOK
<1>2. CASE SkipUnreadable \/ \E f \in Parsed(counter) : Investigate(f)
  BY <1>2 DEF SkipUnreadable, Investigate, Started
<1>3. CASE \E f \in Reviewed(raw) : Review(f)
  BY <1>3 DEF Review, Started
<1>4. CASE Record
  BY <1>4 DEF Record, Started
<1>5. CASE Dispatch
  BY <1>5 DEF Dispatch, Started
<1>6. ASSUME successes' = successes,
             pc' \in {"start", "loop", "finish", "done", "aborted"}
      PROVE  Started'
  BY <1>6 DEF Started
<1>7. CASE NoDirection \/ \E c \in CandidateLists : PushSeed(c)
  BY <1>6, <1>7 DEF NoDirection, PushSeed
<1>8. CASE QueueDrained \/ IterationsReached \/ ClockExhausted
  BY <1>6, <1>8 DEF QueueDrained, IterationsReached, ClockExhausted, Leave
<1>9. CASE Answer \/ GiveUp \/ Abort
  BY <1>6, <1>9 DEF Answer, GiveUp, Abort
<1>10. CASE UNCHANGED vars
  BY <1>10 DEF vars, Started
<1> QED
  BY <1>1, <1>2, <1>3, <1>4, <1>5, <1>7, <1>8, <1>9, <1>10 DEF Next, Over

LEMMA OverrunStep ==
  Base /\ Shape /\ Started /\ Overrun /\ [Next]_vars => Overrun'
<1> SUFFICES ASSUME Base, Shape, Started, Overrun, [Next]_vars
             PROVE  Overrun'
  OBVIOUS
<1> DEFINE M == MaxCandidates
           C == CallMinutes
           W == MaxWallClock
<1>q. /\ clock \in Nat /\ sub \in Nat \ {0} /\ C \in Nat /\ W \in Int
      /\ M \in Nat \ {0} /\ M * C \in Nat
      /\ (M + 1) * C = M * C + C /\ (M + 2) * C = M * C + 2 * C
      /\ Len(SubAreas(current)) \in Nat
  BY EngineAssumption, SubAreasType DEF Base, TypeOK
<1>0. BoundedOverrun' <=> (clock' <= C \/ clock' < W + (M + 2) * C)
  BY DEF BoundedOverrun
<1>1. ASSUME clock' = clock, pc' # "work", pc' # "aborted", pc' # "review",
             pc' # "start",
             pc' \in {"record", "dispatch"} => pc \in {"record", "dispatch"},
             pc \in {"loop", "finish", "record", "dispatch"}
      PROVE  Overrun'
  <2>1. clock <= C \/ clock < W + (M + 1) * C
    BY <1>1 DEF Overrun
  <2>2. BoundedOverrun'
    BY <1>0, <1>1, <1>q, <2>1
  <2> QED
    BY <1>1, <2>1, <2>2 DEF Overrun
<1>2. ASSUME pc = "start", Generate, pc' \in {"loop", "done"}
      PROVE  Overrun'
  <2>1. clock' <= C
    BY <1>2, <1>q, GenerateType DEF Overrun
  <2> QED
    BY <1>0, <1>2, <2>1 DEF Overrun
<1>3. CASE StartTask
  <2>1. pc = "loop" /\ pc' = "work" /\ clock' = clock /\ clock < W /\ sub' = 1
    BY <1>3 DEF StartTask, LoopMayRun, Base, Positions
  <2>2. (sub' - 1) * C = 0
    BY <1>q, <2>1
  <2>3. BoundedOverrun'
    BY <1>0, <1>q, <2>1
  <2> QED
    BY <1>q, <2>1, <2>2, <2>3 DEF Overrun
<1>4. ASSUME pc = "work", clock' \in Nat, clock' <= clock + C, NextSubArea
      PROVE  Overrun'
  <2>1. sub <= Len(SubAreas(current)) /\ Len(SubAreas(current)) <= M
    BY <1>4, FewSubAreas DEF Base, Positions
  <2>2. clock < W + (sub - 1) * C
    BY <1>4 DEF Overrun
  <2>3. /\ (sub - 1) * C \in Int /\ sub * C = (sub - 1) * C + C
        /\ sub * C \in Int /\ sub * C <= M * C
    <3>1. sub - 1 \in Int /\ sub \in Int /\ M \in Int /\ sub <= M
          /\ (sub - 1) + 1 = sub
      BY <1>q, <2>1
    <3>2. /\ (sub - 1) * C \in Int
          /\ ((sub - 1) + 1) * C = (sub - 1) * C + C
      BY <1>q, <3>1, MoreCalls
    <3>3. sub * C \in Int /\ sub * C <= M * C
      BY <1>q, <3>1, MoreCalls
    <3> QED
      BY <3>1, <3>2, <3>3
  <2>4. clock' < W + sub * C
    BY <1>4, <1>q, <2>2, <2>3
  <2>5. clock' < W + M * C
    BY <1>4, <1>q, <2>3, <2>4
  <2>6. BoundedOverrun'
    BY <1>0, <1>4, <1>q, <2>5
  <2>7. CASE pc' = "review"
    BY <2>5, <2>6, <2>7 DEF Overrun
  <2>8. CASE pc' = "work" /\ sub' = sub + 1
    <3>1. sub' - 1 = sub
      BY <1>q, <2>8
    <3> QED
      BY <2>4, <2>6, <2>8, <3>1 DEF Overrun
  <2> QED
    BY <1>4, <2>7, <2>8 DEF NextSubArea
<1>5. ASSUME pc = "review", pc' = "record", clock' \in Nat,
             clock' <= clock + C
      PROVE  Overrun'
  <2>1. clock < W + M * C
    BY <1>5 DEF Overrun
  <2>2. clock' < W + (M + 1) * C
    BY <1>5, <1>q, <2>1
  <2>3. BoundedOverrun'
    BY <1>0, <1>5, <1>q, <2>2
  <2> QED
    BY <1>5, <2>2, <2>3 DEF Overrun
<1>6. CASE Abort \/ UNCHANGED vars
  BY <1>6 DEF Abort, vars, locals, Overrun, BoundedOverrun
<1>7. CASE Answer
  <2>1. /\ pc = "finish" /\ pc' = "done"
        /\ clock' \in Nat /\ clock' <= clock + C
    BY <1>7, GenerateType DEF Answer, Base, TypeOK
  <2>2. clock <= C \/ clock < W + (M + 1) * C
    <3>1. pc \in {"loop", "finish"}
      BY <1>7 DEF Answer
    <3> QED
      BY <3>1 DEF Overrun
  <2>3. W > 0
    BY <1>7 DEF Answer, Started
  <2>4. 2 * C < W + (M + 2) * C
    BY <1>q, <2>3
  <2>5. clock' < W + (M + 2) * C
    BY <1>q, <2>1, <2>2, <2>4
  <2> QED
    BY <1>0, <2>1, <2>5 DEF Overrun
<1>8. CASE NoDirection \/ \E c \in CandidateLists : PushSeed(c)
  BY <1>2, <1>8 DEF NoDirection, PushSeed
<1>9. CASE SkipUnreadable
  <2>1. pc = "work" /\ clock' = clock /\ NextSubArea
    BY <1>9 DEF SkipUnreadable
  <2> QED
    BY <1>4, <1>q, <2>1
<1>10. ASSUME NEW f \in Parsed(counter), Investigate(f)
       PROVE  Overrun'
  <2>1. pc = "work" /\ Generate /\ NextSubArea
    BY <1>10 DEF Investigate
  <2> QED
    BY <1>4, <1>q, <2>1, GenerateType
<1>11. ASSUME NEW f \in Reviewed(raw), Review(f)
       PROVE  Overrun'
  <2>1. pc = "review" /\ pc' = "record" /\ (clock' = clock \/ Generate)
    BY <1>11 DEF Review
  <2> QED
    BY <1>5, <1>q, <2>1, GenerateType
<1>12. CASE Record \/ Dispatch
  <2>1. /\ pc \in {"record", "dispatch"} /\ pc' \in {"loop", "dispatch"}
        /\ clock' = clock
    BY <1>12 DEF Record, Dispatch
  <2> QED
    BY <1>1, <2>1
<1>13. CASE QueueDrained \/ IterationsReached \/ ClockExhausted \/ GiveUp
  <2>1. /\ pc \in {"loop", "finish"} /\ pc' \in {"finish", "done"}
        /\ clock' = clock
    BY <1>13 DEF QueueDrained, IterationsReached, ClockExhausted, GiveUp, Leave
  <2> QED
    BY <1>1, <2>1
<1> QED
  BY <1>3, <1>6, <1>7, <1>8, <1>9, <1>10, <1>11, <1>12, <1>13 DEF Next, Over

\* A run overruns its wall clock by no more than the calls of one task and
\* the synthesis (ResearchEngine.cpp:204, 221, 230, 279).
THEOREM OverrunIsBounded == Spec => []BoundedOverrun
<1>1. Init => Overrun
  <2> SUFFICES ASSUME Init
               PROVE  Overrun
    OBVIOUS
  <2>1. pc = "start" /\ clock = 0
    BY DEF Init
  <2> QED
    BY <2>1, EngineAssumption DEF Overrun, BoundedOverrun
<1>2. Overrun => BoundedOverrun
  BY DEF Overrun
<1>3. Init => Started
  BY DEF Init, Started
<1> QED
  BY <1>1, <1>2, <1>3, OverrunStep, StartedStep, BaseInvariant,
     ShapeInvariant, PTL DEF Spec

-----------------------------------------------------------------------------
\* Short of the exception that takes all the findings with it, no step drops a
\* success, and the run that ends on its own answers just if it has one: with RunAdvances, all of AnsweredUnlessAborted but the
\* fairness (ResearchEngine.cpp:242-244, 272-291).
THEOREM SuccessesAreKept ==
  Spec => [][/\ pc' # "aborted" => successes \subseteq successes'
             /\ pc # "done" /\ pc' = "done"
                  => (answered' <=> successes' # {})]_vars
<1>1. Told' /\ [Next]_vars =>
        [/\ pc' # "aborted" => successes \subseteq successes'
         /\ pc # "done" /\ pc' = "done"
              => (answered' <=> successes' # {})]_vars
  <2> SUFFICES ASSUME Told', Next
               PROVE  /\ pc' # "aborted" => successes \subseteq successes'
                      /\ pc' = "done" => (answered' <=> successes' # {})
    OBVIOUS
  <2>1. pc' # "aborted" => successes \subseteq successes'
    BY DEF Next, NoDirection, PushSeed, QueueDrained, IterationsReached,
       ClockExhausted, Leave, StartTask, SkipUnreadable, Investigate, Abort,
       Review, Record, Dispatch, Answer, GiveUp, Over, vars
  <2>2. pc' = "done" => (answered' <=> successes' # {})
    BY DEF Told, HonestReason
  <2> QED
    BY <2>1, <2>2
<1>2. Init => Told
  <2> SUFFICES ASSUME Init
               PROVE  Told
    OBVIOUS
  <2>1. pc = "start" /\ answered = FALSE /\ probed = {} /\ successes = {}
        /\ reason = ""
    BY DEF Init
  <2> QED
    BY <2>1 DEF Told, HonestReason
<1> QED
  BY <1>1, <1>2, ToldStep, BaseInvariant, PTL DEF Spec
==============================================================================
