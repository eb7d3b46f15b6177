--------------------------- MODULE EditEngineProofs ---------------------------
(***************************************************************************)
(* Theorems about EditEngine, for every code base, reply, fault and limit: *)
(* which files a run touches and reports, on which texts its edits rest,   *)
(* what becomes of edits and leads, and that its loop is an exploration.   *)
(***************************************************************************)
EXTENDS EditEngine, TaskQueueProofs, SequenceTheorems, TLAPS

FileState == [exists : BOOLEAN, writes : Nat, text : TextState]

Ledger ==
  /\ disk \in [Path -> FileState]
  /\ written \in Seq(Path)
  /\ errors \in Seq(Path)
  /\ pc = "apply" => Apply
  /\ ReportedUnlessAborted

\* What is appended is an entry, and the others stay.
LEMMA EntriesOfAppend ==
  ASSUME NEW S, NEW s \in Seq(S), NEW e \in S
  PROVE  /\ Append(s, e) \in Seq(S)
         /\ Entries(Append(s, e)) = Entries(s) \cup {e}
<1>1. Len(Append(s, e)) = Len(s) + 1 /\ Len(s) \in Nat
  OBVIOUS
<1>2. \A i \in 1..Len(s) : Append(s, e)[i] = s[i]
  OBVIOUS
<1>3. Append(s, e)[Len(s) + 1] = e
  OBVIOUS
<1>4. 1..(Len(s) + 1) = 1..Len(s) \cup {Len(s) + 1}
  BY <1>1
<1> QED
  BY <1>1, <1>2, <1>3, <1>4 DEF Entries

\* An edit changes the file it names and no other.
LEMMA OverwriteOne ==
  ASSUME disk \in [Path -> FileState], NEW p \in Path, NEW t \in TextState,
         Overwrite(p, t)
  PROVE  /\ disk' \in [Path -> FileState]
         /\ disk'[p].exists /\ disk'[p].text = t
         /\ \A q \in Path : q # p => disk'[q] = disk[q]
BY DEF Overwrite, FileState

\* With "apply" on, an edit that is applied is entered, whatever becomes of it.
LEMMA ApplyEditLedger ==
  ASSUME Ledger, Apply, pc # "aborted", NEW p, ApplyEdit(p)
  PROVE  /\ disk' \in [Path -> FileState]
         /\ written' \in Seq(Path) /\ errors' \in Seq(Path)
         /\ ReportedUnlessAborted'
<1>1. \A q \in Path : disk[q] # Original[q] => InReport(q)
  BY DEF Ledger, ReportedUnlessAborted
<1>2. ASSUME \A q \in Path : disk'[q] # Original[q] => InReport(q)'
      PROVE  ReportedUnlessAborted'
  BY <1>2 DEF ReportedUnlessAborted
<1>3. CASE Reject(p)
  BY <1>1, <1>2, <1>3 DEF Reject, Ledger, InReport
<1>4. CASE FailToOpen(p) \/ FailToWrite(p)
  <2>0. p \in Path /\ errors' = Append(errors, p) /\ written' = written
    BY <1>4 DEF FailToOpen, FailToWrite
  <2>1. /\ errors' \in Seq(Path)
        /\ Entries(errors') = Entries(errors) \cup {p}
    BY <2>0, EntriesOfAppend DEF Ledger
  <2>2. /\ disk' \in [Path -> FileState]
        /\ \A q \in Path : q # p => disk'[q] = disk[q]
    BY <1>4, OverwriteOne DEF FailToOpen, FailToWrite, Ledger, TextState
  <2> QED
    BY <1>1, <1>2, <2>0, <2>1, <2>2 DEF Ledger, InReport
<1>5. CASE Write(p) \/ FailToFlush(p)
  <2>0. p \in Path /\ written' = Append(written, p) /\ errors' = errors
    BY <1>5 DEF Write, FailToFlush
  <2>1. /\ written' \in Seq(Path)
        /\ Entries(written') = Entries(written) \cup {p}
    BY <2>0, EntriesOfAppend DEF Ledger
  <2>2. /\ disk' \in [Path -> FileState]
        /\ \A q \in Path : q # p => disk'[q] = disk[q]
    BY <1>5, OverwriteOne DEF Write, FailToFlush, Ledger, TextState
  <2> QED
    BY <1>1, <1>2, <2>0, <2>1, <2>2 DEF Ledger, InReport
<1> QED
  BY <1>3, <1>4, <1>5 DEF ApplyEdit

\* An exception leaves the files as they are, and nothing in the lists.
LEMMA Unwound ==
  ASSUME Unwind
  PROVE  /\ disk' = disk /\ pc' = "aborted" /\ proposed' = <<>>
         /\ written' = <<>> /\ rejected' = <<>> /\ errors' = <<>>
         /\ \A S : /\ proposed' \in Seq(S) /\ written' \in Seq(S)
                   /\ rejected' \in Seq(S) /\ errors' \in Seq(S)
BY EmptySeq DEF Unwind, LoseReports

LEMMA LedgerStep == Ledger /\ [Next]_vars => Ledger'
<1> SUFFICES ASSUME Ledger, [Next]_vars
             PROVE  Ledger'
  OBVIOUS
<1>1. ASSUME UNCHANGED pvars, pc # "aborted", pc' = "apply" => Apply
      PROVE  Ledger'
  BY <1>1 DEF pvars, reports, Ledger, ReportedUnlessAborted, InReport
<1>a. ASSUME Unwind
      PROVE  Ledger'
  BY <1>a, Unwound DEF Ledger, ReportedUnlessAborted
<1>2. CASE NoTarget \/ QueueDrained \/ IterationsReached \/ ClockExhausted
  BY <1>1, <1>2
  DEF NoTarget, QueueDrained, IterationsReached, ClockExhausted, Return
<1>3. CASE \E c \in CandidateLists : PushSeed(c)
  BY <1>1, <1>3 DEF PushSeed
<1>4. CASE StartTask
  BY <1>1, <1>4 DEF StartTask, LoopMayRun
<1>5. CASE NoReply
  BY <1>1, <1>5 DEF NoReply, NextSubArea
<1>6. ASSUME NEW shown \in Shown,
             Abort(shown) \/ \E f \in Parsed(counter, shown) :
                               Investigate(shown, f)
      PROVE  Ledger'
  BY <1>1, <1>a, <1>6 DEF Abort, Investigate, NextSubArea
<1>7. CASE Record
  <2>1. UNCHANGED pvars /\ pc = "record" /\ (pc' = "apply" => Apply)
    BY <1>7 DEF Record, Writes, Follow
  <2> QED
    BY <1>1, <2>1
<1>8. CASE WriteNext
  <2>1. pc = "apply" /\ ApplyEdit(finding.edits[next].path)
    BY <1>8 DEF WriteNext
  <2>2. Apply
    BY <2>1 DEF Ledger
  <2>3. pc' = "apply" => Apply
    BY <2>2
  <2> QED
    BY <2>1, <2>2, <2>3, ApplyEditLedger DEF Ledger
<1>9. CASE Dispatch
  BY <1>1, <1>9 DEF Dispatch
<1>10. CASE AbortApply
  BY <1>a, <1>10 DEF AbortApply
<1>11. CASE UNCHANGED vars
  BY <1>11 DEF vars, pvars, reports, Ledger, ReportedUnlessAborted, InReport
<1> QED
  BY <1>2, <1>3, <1>4, <1>5, <1>6, <1>7, <1>8, <1>9, <1>10, <1>11
  DEF Next, Over

\* Without "apply" no file differs from the original (README.md:331), and with
\* it, one that does is named in the lists the run still has, which is until an
\* exception unwinds them (PatchApplier.cpp:28-76, EditEngine.cpp:201-221).
THEOREM TouchesAreReported == Spec => []ReportedUnlessAborted
<1>1. Init => Ledger
  <2> SUFFICES ASSUME Init
               PROVE  Ledger
    OBVIOUS
  <2>1. disk = Original /\ written = <<>> /\ errors = <<>> /\ pc = "start"
    BY DEF Init, PInit
  <2>2. Original \in [Path -> FileState]
    BY DEF Original, FileState, TextState
  <2> QED
    BY <2>1, <2>2, EmptySeq DEF Ledger, ReportedUnlessAborted
<1>2. Ledger => ReportedUnlessAborted
  BY DEF Ledger
<1> QED
  BY <1>1, <1>2, LedgerStep, PTL DEF Spec

-----------------------------------------------------------------------------
Vouched(edits) == \A i \in 1..Len(edits) : edits[i].from # "no_change"

\* What Execute has gathered is vouched for, except in the one reply of a
\* task with one area, which Record looks at.
Standing ==
  /\ finding.edits \in Seq(Edit)
  /\ proposed \in Seq(Edit)
  /\ Counts(finding) \/ Repeatable(current) => Vouched(finding.edits)
  /\ Vouched(proposed)
  /\ pc \in {"start", "loop"} => finding = NoChange
  /\ pc = "apply" => Counts(finding)

\* The edits of a reply are edits, and bear its outcome.
LEMMA ParsedEdits ==
  ASSUME disk \in [Path -> FileState], NEW shown \in SUBSET Path, NEW n,
         NEW f \in Parsed(n, shown)
  PROVE  /\ f.edits \in Seq(Edit)
         /\ \A i \in 1..Len(f.edits) : f.edits[i].from = f.outcome
<1>1. PICK o \in EditOutcome, ps \in PathLists :
        f.outcome = o /\ f.edits = EditsOf(ps, shown, o)
  BY DEF Parsed, EditOutcome
<1>2. PICK k \in Nat : ps \in [1..k -> Path \cup Outside]
  BY EditBoundsAssumption DEF PathLists, ListsUpTo
<1>3. Len(ps) = k
  BY <1>2, SeqDef
<1>4. ASSUME NEW i \in 1..k
      PROVE  /\ Proposed(ps[i], shown, o) \in Edit
             /\ Proposed(ps[i], shown, o).from = o
  <2>1. ps[i] \in Path \cup Outside
    BY <1>2
  <2>2. CASE ps[i] \in shown
    <3>1. disk[ps[i]].writes \in Nat
      BY <2>2 DEF FileState
    <3> QED
      BY <2>1, <2>2, <3>1 DEF Proposed, Edit
  <2>3. CASE ps[i] \notin shown
    BY <2>1, <2>3 DEF Proposed, Edit
  <2> QED
    BY <2>2, <2>3
<1>5. f.edits = [i \in 1..k |-> Proposed(ps[i], shown, o)]
  BY <1>1, <1>3 DEF EditsOf
<1>6. f.edits \in [1..k -> Edit]
  BY <1>4, <1>5
<1>7. f.edits \in Seq(Edit) /\ Len(f.edits) = k
  BY <1>6, SeqDef
<1> QED
  BY <1>1, <1>4, <1>5, <1>7

LEMMA VouchedConcat ==
  ASSUME NEW s \in Seq(Edit), NEW t \in Seq(Edit), Vouched(s), Vouched(t)
  PROVE  s \o t \in Seq(Edit) /\ Vouched(s \o t)
BY ConcatProperties DEF Vouched

\* Executing one more sub-area.
LEMMA CombinedEdits ==
  ASSUME Standing, NEW f, f.edits \in Seq(Edit),
         \A i \in 1..Len(f.edits) : f.edits[i].from = f.outcome
  PROVE  LET g == Combine(current, finding, f)
         IN  /\ g.edits \in Seq(Edit)
             /\ Counts(g) \/ Repeatable(current) => Vouched(g.edits)
<1>1. Counts(f) => Vouched(f.edits)
  BY DEF Counts, Vouched
<1>2. CASE ~Repeatable(current)
  BY <1>1, <1>2 DEF Combine
<1>3. CASE Repeatable(current) /\ ~Counts(f)
  BY <1>3 DEF Combine, Merge, Standing
<1>4. CASE Repeatable(current) /\ Counts(f)
  <2>1. Combine(current, finding, f).edits = finding.edits \o f.edits
    BY <1>4 DEF Combine, Merge, Joined
  <2>2. finding.edits \in Seq(Edit) /\ Vouched(finding.edits)
    BY <1>4 DEF Standing
  <2> QED
    BY <1>1, <1>4, <2>1, <2>2, VouchedConcat
<1> QED
  BY <1>2, <1>3, <1>4

LEMMA NoChangeStands ==
  /\ NoChange.edits \in Seq(Edit) /\ Vouched(NoChange.edits)
  /\ \A i \in 1..Len(NoChange.edits) :
       NoChange.edits[i].from = NoChange.outcome
  /\ ~Repeatable(NoTask)
BY EmptySeq DEF NoChange, Vouched, Repeatable, NoTask, Direction

LEMMA StandingStep == Ledger /\ Standing /\ [Next]_vars => Standing'
<1> SUFFICES ASSUME Ledger, Standing, [Next]_vars
             PROVE  Standing'
  OBVIOUS
<1>1. ASSUME UNCHANGED <<finding, current, proposed>>,
             pc' \notin {"start", "loop", "apply"}
      PROVE  Standing'
  BY <1>1 DEF Standing
<1>a. ASSUME Unwind
      PROVE  Standing'
  BY <1>a, Unwound DEF Unwind, locals, Standing, Vouched
<1>2. ASSUME finding' = NoChange, proposed' \in Seq(Edit), Vouched(proposed'),
             pc' # "apply"
      PROVE  Standing'
  BY <1>2, NoChangeStands DEF Standing
<1>3. CASE NoTarget \/ QueueDrained \/ IterationsReached \/ ClockExhausted
  BY <1>1, <1>3 DEF NoTarget, QueueDrained, IterationsReached, ClockExhausted,
                    Return, locals
<1>4. CASE \E c \in CandidateLists : PushSeed(c)
  <2>1. /\ pc = "start" /\ pc' = "loop"
        /\ UNCHANGED <<finding, proposed>>
    BY <1>4 DEF PushSeed, locals
  <2>2. finding' = NoChange /\ proposed' \in Seq(Edit) /\ Vouched(proposed')
    BY <2>1 DEF Standing
  <2> QED
    BY <1>2, <2>1, <2>2
<1>5. CASE StartTask
  <2>1. /\ pc = "loop" /\ pc' = "work"
        /\ UNCHANGED <<finding, proposed>>
    BY <1>5 DEF StartTask, LoopMayRun
  <2>2. finding' = NoChange /\ proposed' \in Seq(Edit) /\ Vouched(proposed')
    BY <2>1 DEF Standing
  <2> QED
    BY <1>2, <2>1, <2>2
<1>6. ASSUME NEW f, f.edits \in Seq(Edit),
             \A i \in 1..Len(f.edits) : f.edits[i].from = f.outcome,
             finding' = Combine(current, finding, f),
             UNCHANGED <<current, proposed>>, pc' \in {"work", "record"}
      PROVE  Standing'
  BY <1>6, CombinedEdits DEF Standing
<1>7. CASE NoReply
  <2>1. /\ finding' = Combine(current, finding, NoChange)
        /\ UNCHANGED <<current, proposed>> /\ pc' \in {"work", "record"}
    BY <1>7 DEF NoReply, NextSubArea
  <2> QED
    BY <1>6, <2>1, NoChangeStands
<1>8. ASSUME NEW shown \in Shown, Abort(shown)
      PROVE  Standing'
  BY <1>a, <1>8 DEF Abort
<1>9. ASSUME NEW shown \in Shown, NEW f \in Parsed(counter, shown),
             Investigate(shown, f)
      PROVE  Standing'
  <2>1. /\ finding' = Combine(current, finding, f)
        /\ UNCHANGED <<current, proposed>> /\ pc' \in {"work", "record"}
    BY <1>9 DEF Investigate, NextSubArea
  <2>2. /\ f.edits \in Seq(Edit)
        /\ \A i \in 1..Len(f.edits) : f.edits[i].from = f.outcome
    BY ParsedEdits DEF Ledger, Shown, FilesAt
  <2> QED
    BY <1>6, <2>1, <2>2
<1>10. ASSUME Follow, proposed' \in Seq(Edit), Vouched(proposed')
       PROVE  Standing'
  <2>1. CASE pc' = "loop" /\ ClearLocals
    BY <1>2, <1>10, <2>1 DEF ClearLocals
  <2>2. CASE pc' = "dispatch" /\ UNCHANGED <<current, sub, finding>>
    BY <1>10, <2>2 DEF Standing
  <2> QED
    BY <1>10, <2>1, <2>2 DEF Follow
<1>11. CASE Record
  <2>1. CASE Writes
    <3>1. pc' = "apply" /\ UNCHANGED <<finding, current, proposed>>
      BY <1>11, <2>1 DEF Record, locals
    <3> QED
      BY <2>1, <3>1 DEF Standing, Writes
  <2>2. CASE ~Writes
    <3>1. /\ proposed' = IF Counts(finding) THEN proposed \o finding.edits
                                            ELSE proposed
          /\ Follow
      BY <1>11, <2>2 DEF Record
    <3>2. proposed \in Seq(Edit) /\ Vouched(proposed)
          /\ finding.edits \in Seq(Edit)
          /\ (Counts(finding) => Vouched(finding.edits))
      BY DEF Standing
    <3>3. proposed' \in Seq(Edit) /\ Vouched(proposed')
      BY <3>1, <3>2, VouchedConcat
    <3> QED
      BY <1>10, <3>1, <3>3
  <2> QED
    BY <2>1, <2>2
<1>12. CASE WriteNext
  <2>1. proposed' = proposed /\ pc = "apply"
    BY <1>12 DEF WriteNext
  <2>2. CASE LastEdit
    <3>1. Follow
      BY <1>12, <2>2 DEF WriteNext
    <3>2. proposed' \in Seq(Edit) /\ Vouched(proposed')
      BY <2>1 DEF Standing
    <3> QED
      BY <1>10, <3>1, <3>2
  <2>3. CASE ~LastEdit
    <3>1. pc' = "apply" /\ UNCHANGED <<finding, current, proposed>>
      BY <1>12, <2>1, <2>3 DEF WriteNext
    <3> QED
      BY <2>1, <3>1 DEF Standing
  <2> QED
    BY <2>2, <2>3
<1>13. CASE Dispatch
  <2>1. pc = "dispatch" /\ proposed' = proposed
    BY <1>13 DEF Dispatch
  <2>2. proposed' \in Seq(Edit) /\ Vouched(proposed')
    BY <2>1 DEF Standing
  <2>3. CASE LastDirection
    <3>1. pc' = "loop" /\ finding' = NoChange
      BY <1>13, <2>3 DEF Dispatch, ClearLocals
    <3> QED
      BY <1>2, <2>2, <3>1
  <2>4. CASE ~LastDirection
    <3>1. pc' = "dispatch" /\ UNCHANGED <<finding, current, proposed>>
      BY <1>13, <2>1, <2>4 DEF Dispatch
    <3> QED
      BY <1>1, <3>1
  <2> QED
    BY <2>3, <2>4
<1>14. CASE AbortApply
  BY <1>a, <1>14 DEF AbortApply
<1>15. CASE UNCHANGED vars
  BY <1>15 DEF vars, locals, Standing
<1> QED
  BY <1>3, <1>4, <1>5, <1>7, <1>8, <1>9, <1>11, <1>12, <1>13, <1>14, <1>15
  DEF Next, Over

\* No edit of a reply that is broken off or reports no change is written or
\* proposed (Editor.cpp:204, 213; EditEngine.cpp:197-199).
THEOREM OnlyVouchedEdits == Spec => []OnlyVouched
<1>1. Init => Ledger /\ Standing
  <2> SUFFICES ASSUME Init
               PROVE  Ledger /\ Standing
    OBVIOUS
  <2>1. /\ disk = Original /\ written = <<>> /\ errors = <<>> /\ pc = "start"
        /\ finding = NoChange /\ proposed = <<>>
    BY DEF Init, PInit
  <2>2. Original \in [Path -> FileState]
    BY DEF Original, FileState, TextState
  <2>3. Ledger
    BY <2>1, <2>2, EmptySeq DEF Ledger, ReportedUnlessAborted
  <2>4. Standing
    BY <2>1, NoChangeStands, EmptySeq DEF Standing, Vouched
  <2> QED
    BY <2>3, <2>4
<1>2. Standing => OnlyVouched
  BY DEF Standing, OnlyVouched, Vouched
<1> QED
  BY <1>1, <1>2, LedgerStep, StandingStep, PTL DEF Spec

-----------------------------------------------------------------------------
LEMMA ApplyEditMisses ==
  ASSUME Ledger, OnlyFlushesAreMissed, NEW p, ApplyEdit(p)
  PROVE  OnlyFlushesAreMissed'
<1>1. CASE Reject(p)
  BY <1>1 DEF Reject, OnlyFlushesAreMissed
<1>2. CASE FailToOpen(p)
  <2>1. Entries(errors') = Entries(errors) \cup {p}
    BY <1>2, EntriesOfAppend DEF FailToOpen, Ledger
  <2> QED
    BY <1>2, <2>1 DEF FailToOpen, OnlyFlushesAreMissed
<1>3. CASE FailToWrite(p)
  <2>1. p \in Path /\ Overwrite(p, "cut") /\ written' = written
    BY <1>3 DEF FailToWrite
  <2>2. Entries(errors') = Entries(errors) \cup {p}
    BY <1>3, EntriesOfAppend DEF FailToWrite, Ledger
  <2>3. \A q \in Path : q # p => disk'[q] = disk[q]
    BY <2>1, OverwriteOne DEF Ledger, TextState
  <2>4. Entries(written) \subseteq Path
    BY DEF Entries, Ledger
  <2> QED
    BY <2>1, <2>2, <2>3, <2>4 DEF OnlyFlushesAreMissed
<1>4. CASE Write(p) \/ FailToFlush(p)
  <2>0. p \in Path /\ written' = Append(written, p) /\ errors' = errors
    BY <1>4 DEF Write, FailToFlush
  <2>1. PICK t \in {"whole", "unflushed"} : Overwrite(p, t)
    BY <1>4 DEF Write, FailToFlush
  <2>2. Entries(written') = Entries(written) \cup {p}
    BY <2>0, EntriesOfAppend DEF Ledger
  <2>3. /\ disk'[p].exists /\ disk'[p].text # "cut"
        /\ \A q \in Path : q # p => disk'[q] = disk[q]
    BY <2>0, <2>1, OverwriteOne DEF Ledger, TextState
  <2>4. Entries(written) \subseteq Path
    BY DEF Entries, Ledger
  <2> QED
    BY <2>0, <2>2, <2>3, <2>4 DEF OnlyFlushesAreMissed
<1> QED
  BY <1>1, <1>2, <1>3, <1>4 DEF ApplyEdit

\* Whatever fails, and however often a file is written, one that is reported
\* written and not as an error lacks at most what was lost as it was closed:
\* no write that failed on the open stream is passed over
\* (PatchApplier.cpp:64-75).
THEOREM CutsAreErrors == Spec => []OnlyFlushesAreMissed
<1>1. Init => Ledger /\ OnlyFlushesAreMissed
  <2> SUFFICES ASSUME Init
               PROVE  Ledger /\ OnlyFlushesAreMissed
    OBVIOUS
  <2>1. disk = Original /\ written = <<>> /\ errors = <<>> /\ pc = "start"
    BY DEF Init, PInit
  <2>2. Original \in [Path -> FileState]
    BY DEF Original, FileState, TextState
  <2>3. Ledger
    BY <2>1, <2>2, EmptySeq DEF Ledger, ReportedUnlessAborted
  <2>4. OnlyFlushesAreMissed
    BY <2>1, EmptySeq DEF OnlyFlushesAreMissed, Entries
  <2> QED
    BY <2>3, <2>4
<1>2. Ledger /\ OnlyFlushesAreMissed /\ [Next]_vars => OnlyFlushesAreMissed'
  <2> SUFFICES ASSUME Ledger, OnlyFlushesAreMissed, [Next]_vars
               PROVE  OnlyFlushesAreMissed'
    OBVIOUS
  <2>1. ASSUME UNCHANGED pvars
        PROVE  OnlyFlushesAreMissed'
    BY <2>1 DEF pvars, reports, OnlyFlushesAreMissed
  <2>a. ASSUME Unwind
        PROVE  OnlyFlushesAreMissed'
    BY <2>a, Unwound DEF OnlyFlushesAreMissed, Entries
  <2>2. CASE WriteNext
    BY <2>2, ApplyEditMisses DEF WriteNext
  <2>3. CASE NoTarget \/ QueueDrained \/ IterationsReached \/ ClockExhausted
    BY <2>1, <2>3
    DEF NoTarget, QueueDrained, IterationsReached, ClockExhausted, Return
  <2>4. CASE StartTask \/ NoReply \/ Record \/ Dispatch \/ Over
    BY <2>1, <2>4 DEF StartTask, NoReply, Record, Dispatch, Over, vars
  <2>5. CASE \E c \in CandidateLists : PushSeed(c)
    BY <2>1, <2>5 DEF PushSeed
  <2>6. ASSUME NEW shown \in Shown,
               Abort(shown) \/ \E f \in Parsed(counter, shown) :
                                 Investigate(shown, f)
        PROVE  OnlyFlushesAreMissed'
    BY <2>1, <2>a, <2>6 DEF Abort, Investigate
  <2>7. CASE AbortApply
    BY <2>a, <2>7 DEF AbortApply
  <2>8. CASE UNCHANGED vars
    BY <2>1, <2>8 DEF vars
  <2> QED
    BY <2>2, <2>3, <2>4, <2>5, <2>6, <2>7, <2>8 DEF Next
<1> QED
  BY <1>1, <1>2, LedgerStep, PTL DEF Spec

-----------------------------------------------------------------------------
\* Where the loop's index stands.
Positions ==
  /\ pc \notin {"apply", "dispatch", "aborted"} => next = 1
  /\ pc = "apply" => next <= Len(finding.edits)
  /\ pc = "dispatch" => next <= Len(finding.dirs)

Base == TypeOK /\ QueuedAreasExact /\ DistinctAreas /\ Positions

LEMMA NoTaskType == NoTask \in Task /\ NoChange \in EditFinding
BY EmptySeq DEF NoTask, Direction, Task, Place, SeedId, NoParent, NoChange,
   EditFinding, EditOutcome

LEMMA FindingParts ==
  ASSUME NEW f \in EditFinding
  PROVE  /\ f.edits \in Seq(Edit) /\ Len(f.edits) \in Nat
         /\ f.dirs \in Seq(Task) /\ Len(f.dirs) \in Nat
         /\ f.edits # <<>> => Len(f.edits) >= 1
         /\ f.dirs # <<>> => Len(f.dirs) >= 1
<1>1. f.edits \in Seq(Edit) /\ f.dirs \in Seq(Task)
  BY DEF EditFinding
<1>2. /\ Len(f.edits) \in Nat /\ Len(f.dirs) \in Nat
      /\ f.edits # <<>> => Len(f.edits) >= 1
      /\ f.dirs # <<>> => Len(f.dirs) >= 1
  BY <1>1, EmptySeq
<1> QED
  BY <1>1, <1>2

\* The seed is a task, whichever files it covers.
LEMMA SeedType ==
  ASSUME NEW c \in CandidateLists
  PROVE  Seed(c) \in Task
<1>1. PICK k \in 0..MaxCandidates : c \in [1..k -> Sources]
  BY DEF CandidateLists, ListsUpTo
<1>2. Sources \subseteq Area
  BY PathAssumption, EditEngineAssumption
<1>3. c \in Seq(Area)
  BY <1>1, <1>2, SeqDef, EditEngineAssumption
<1> QED
  BY <1>3 DEF Seed, Task, Place, SeedId, NoParent

\* A direction stays a task when it is given its depth and parent.
LEMMA ChildType ==
  ASSUME current \in Task, NEW d \in Task
  PROVE  Child(d) \in Task
<1> DEFINE deeper == [d EXCEPT !.depth = current.depth + 1]
<1>1. current.depth + 1 \in Nat /\ current.id \in Nat
  BY DEF Task
<1>2. deeper \in Task
  BY <1>1 DEF Task
<1>3. Child(d) = [deeper EXCEPT !.parent = current.id]
  BY DEF Child
<1> HIDE DEF deeper
<1> QED
  BY <1>1, <1>2, <1>3 DEF Task

\* A reply is a finding, and its directions are counted.
LEMMA ParsedType ==
  ASSUME disk \in [Path -> FileState], NEW shown \in SUBSET Path,
         NEW n \in Nat, NEW f \in Parsed(n, shown)
  PROVE  f \in EditFinding /\ Len(f.dirs) \in Nat
<1>1. f.edits \in Seq(Edit)
  BY ParsedEdits
<1>2. ASSUME NEW o \in {"success", "partial"}, NEW ps \in PathLists,
             NEW areas \in ListsUpTo(Area, MaxDirections),
             f = [outcome |-> o, edits |-> EditsOf(ps, shown, o),
                  dirs |-> Numbered(n, areas)]
      PROVE  f \in EditFinding /\ Len(f.dirs) \in Nat
  <2>1. PICK k \in Nat : areas \in [1..k -> Area]
    BY EditBoundsAssumption DEF ListsUpTo
  <2>2. Len(areas) = k
    BY <2>1, SeqDef
  <2>3. \A i \in 1..k : Direction(n + i, areas[i]) \in Task
    BY <2>1, EmptySeq DEF Direction, Task, Place
  <2>4. Numbered(n, areas) \in [1..k -> Task]
    BY <2>2, <2>3 DEF Numbered
  <2>5. Numbered(n, areas) \in Seq(Task) /\ Len(Numbered(n, areas)) = k
    BY <2>4, SeqDef
  <2> QED
    BY <1>1, <1>2, <2>5 DEF EditFinding, EditOutcome
<1>3. ASSUME NEW ps \in PathLists,
             f = [outcome |-> "no_change",
                  edits |-> EditsOf(ps, shown, "no_change"), dirs |-> <<>>]
      PROVE  f \in EditFinding /\ Len(f.dirs) \in Nat
  BY <1>1, <1>3, EmptySeq DEF EditFinding, EditOutcome
<1> QED
  BY <1>2, <1>3 DEF Parsed

\* The merge of two findings is one.
LEMMA CombinedType ==
  ASSUME NEW t, NEW m \in EditFinding, NEW f \in EditFinding
  PROVE  Combine(t, m, f) \in EditFinding
<1>1. m.edits \o f.edits \in Seq(Edit) /\ m.dirs \o f.dirs \in Seq(Task)
  BY ConcatProperties DEF EditFinding
<1>2. BetterOutcome(m.outcome, f.outcome) \in EditOutcome
  BY DEF BetterOutcome, EditFinding, EditOutcome
<1>3. Joined(m, f) \in EditFinding
  BY <1>1, <1>2 DEF Joined, EditFinding
<1> QED
  BY <1>3 DEF Combine, Merge

LEMMA ApplyEditType ==
  ASSUME PTypeOK, NEW p, ApplyEdit(p)
  PROVE  PTypeOK'
<1> USE DEF PTypeOK, FileState
<1>1. CASE Reject(p)
  BY <1>1 DEF Reject
<1>2. CASE FailToOpen(p)
  BY <1>2 DEF FailToOpen
<1>3. CASE FailToWrite(p)
  <2>1. disk' \in [Path -> FileState]
    BY <1>3, OverwriteOne DEF FailToWrite, TextState
  <2> QED
    BY <1>3, <2>1 DEF FailToWrite
<1>4. CASE Write(p) \/ FailToFlush(p)
  <2>1. disk' \in [Path -> FileState]
    BY <1>4, OverwriteOne DEF Write, FailToFlush, TextState
  <2>2. /\ p \in Path /\ written' = Append(written, p)
        /\ UNCHANGED <<rejected, errors>>
    BY <1>4 DEF Write, FailToFlush
  <2> QED
    BY <2>1, <2>2
<1> QED
  BY <1>1, <1>2, <1>3, <1>4 DEF ApplyEdit

\* Every step keeps the types, the queue's invariants and the index.
LEMMA BaseStep == Base /\ [Next]_vars => Base'
<1> SUFFICES ASSUME Base, [Next]_vars
             PROVE  Base'
  OBVIOUS
<1>t. /\ QInv /\ PTypeOK /\ Positions
      /\ pc \in {"start", "loop", "work", "record", "apply", "dispatch",
                 "done", "aborted"}
      /\ current \in Task /\ sub \in Nat \ {0} /\ finding \in EditFinding
      /\ next \in Nat \ {0} /\ iterations \in Nat /\ late \in BOOLEAN
      /\ counter \in Nat /\ proposed \in Seq(Edit)
      /\ reason \in {"", "no target", "drained", "iterations", "clock"}
  BY DEF Base, TypeOK, QInv
<1>i. /\ sub + 1 \in Nat \ {0} /\ next + 1 \in Nat \ {0}
      /\ iterations + 1 \in Nat /\ next \in Nat \ {0} /\ counter \in Nat
  <2>1. /\ sub \in Nat \ {0} /\ next \in Nat \ {0}
        /\ iterations \in Nat /\ counter \in Nat
    BY DEF Base, TypeOK
  <2> QED
    BY <2>1
<1>d. disk \in [Path -> FileState]
  BY <1>t DEF PTypeOK, FileState
<1>u. Base' <=>
      /\ QInv' /\ PTypeOK' /\ Positions'
      /\ pc' \in {"start", "loop", "work", "record", "apply", "dispatch",
                  "done", "aborted"}
      /\ current' \in Task /\ sub' \in Nat \ {0} /\ finding' \in EditFinding
      /\ next' \in Nat \ {0} /\ iterations' \in Nat /\ late' \in BOOLEAN
      /\ counter' \in Nat /\ proposed' \in Seq(Edit)
      /\ reason' \in {"", "no target", "drained", "iterations", "clock"}
  BY DEF Base, TypeOK, QInv
<1>e. UNCHANGED qvars => QInv'
  BY <1>t DEF qvars, QInv, QTypeOK, QueuedAreasExact, DistinctAreas, AreasOf
<1>f. UNCHANGED pvars => PTypeOK'
  BY <1>t DEF pvars, reports, PTypeOK
<1>p. UNCHANGED <<pc, next, finding>> \/ pc' = "aborted" => Positions'
  BY <1>t DEF Positions
<1>w. ASSUME Unwind
      PROVE  Base'
  <2>1. PTypeOK'
    BY <1>w, <1>t, Unwound DEF PTypeOK
  <2>2. proposed' \in Seq(Edit) /\ pc' = "aborted"
    BY <1>w, Unwound
  <2> QED
    BY <1>w, <1>t, <1>u, <1>e, <1>p, <2>1, <2>2 DEF Unwind, locals
<1>n. next' = 1 /\ pc' \notin {"apply", "dispatch"} => Positions'
  BY DEF Positions
<1>c. ClearLocals => /\ current' \in Task /\ sub' \in Nat \ {0}
                     /\ finding' \in EditFinding
                     /\ next' \in Nat \ {0} /\ next' = 1
  <2>1. 1 \in Nat \ {0}
    OBVIOUS
  <2> QED
    BY <2>1, NoTaskType DEF ClearLocals
<1>1. CASE NoTarget \/ QueueDrained \/ IterationsReached \/ ClockExhausted
  <2>1. next = 1
    BY <1>1, <1>t DEF NoTarget, QueueDrained, IterationsReached,
       ClockExhausted, Positions
  <2> QED
    BY <1>1, <1>t, <1>u, <1>e, <1>f, <1>n, <2>1 DEF NoTarget, QueueDrained,
       IterationsReached, ClockExhausted, Return, Generate, locals
<1>2. ASSUME NEW c \in CandidateLists, PushSeed(c)
      PROVE  Base'
  <2>1. QInv'
    BY <1>2, <1>t, SeedType, PushKeepsQInv DEF PushSeed
  <2>2. Positions'
    BY <1>2, <1>t, <1>n DEF PushSeed, locals, Positions
  <2> QED
    BY <1>2, <1>t, <1>u, <1>f, <2>1, <2>2 DEF PushSeed, Generate, locals
<1>3. CASE StartTask
  <2>1. QInv' /\ Head(queue) \in Task
    BY <1>3, <1>t, PopKeepsQInv DEF StartTask
  <2>2. Positions'
    BY <1>3, <1>t, <1>n DEF StartTask, LoopMayRun, Positions
  <2> QED
    BY <1>3, <1>t, <1>u, <1>f, <2>1, <2>2 DEF StartTask
<1>4. ASSUME NEW f \in EditFinding, pc = "work", NextSubArea, Generate,
             finding' = Combine(current, finding, f), counter' \in Nat,
             UNCHANGED <<qvars, pvars, current, next, iterations, proposed,
                         reason>>
      PROVE  Base'
  <2>1. finding' \in EditFinding
    BY <1>4, <1>t, CombinedType
  <2>2. pc' \in {"work", "record"} /\ sub' \in Nat \ {0}
    BY <1>4, <1>i DEF NextSubArea
  <2>3. late' \in BOOLEAN
    BY <1>4, <1>t DEF Generate
  <2>4. Positions'
    BY <1>4, <1>t, <1>n, <2>2 DEF Positions
  <2> QED
    BY <1>4, <1>t, <1>u, <1>e, <1>f, <2>1, <2>2, <2>3, <2>4
<1>5. CASE NoReply
  BY <1>4, <1>5, <1>t, NoTaskType DEF NoReply
<1>6. ASSUME NEW shown \in Shown, Abort(shown)
      PROVE  Base'
  BY <1>6, <1>w DEF Abort
<1>7. ASSUME NEW shown \in Shown, NEW f \in Parsed(counter, shown),
             Investigate(shown, f)
      PROVE  Base'
  <2>1. f \in EditFinding /\ Len(f.dirs) \in Nat
    BY <1>t, <1>d, ParsedType DEF Shown, FilesAt
  <2>2. counter + Len(f.dirs) \in Nat
    BY <1>i, <2>1
  <2> QED
    BY <1>4, <1>7, <2>1, <2>2 DEF Investigate
<1>8. ASSUME Follow
      PROVE  /\ pc' \in {"loop", "dispatch"}
             /\ current' \in Task /\ sub' \in Nat \ {0}
             /\ finding' \in EditFinding /\ next' \in Nat \ {0}
             /\ Positions'
  <2>1. CASE pc' = "loop" /\ ClearLocals
    BY <1>c, <1>n, <2>1
  <2>2. CASE /\ finding.dirs # <<>> /\ pc' = "dispatch" /\ next' = 1
             /\ UNCHANGED <<current, sub, finding>>
    <3>1. Len(finding.dirs) >= 1
      BY <1>t, <2>2, FindingParts
    <3>2. Positions'
      BY <2>2, <3>1 DEF Positions
    <3>3. next' \in Nat \ {0}
      BY <2>2
    <3> QED
      BY <1>t, <2>2, <3>2, <3>3
  <2> QED
    BY <1>8, <2>1, <2>2 DEF Follow
<1>9. CASE Record
  <2>1. QInv'
    BY <1>9, <1>t, MarkVisitedKeepsQInv DEF Record, Task
  <2>2. UNCHANGED <<pvars, late, counter, reason>> /\ iterations' \in Nat
    BY <1>9, <1>i DEF Record
  <2>3. CASE Writes
    <3>1. pc = "record" /\ pc' = "apply" /\ UNCHANGED <<locals, proposed>>
      BY <1>9, <2>3 DEF Record
    <3>2. Len(finding.edits) >= 1
      BY <1>t, <2>3, FindingParts DEF Writes
    <3>3. Positions'
      BY <1>t, <3>1, <3>2 DEF Positions, locals
    <3> QED
      BY <1>t, <1>u, <1>f, <2>1, <2>2, <3>1, <3>3 DEF locals
  <2>4. CASE ~Writes
    <3>1. /\ proposed' = IF Counts(finding) THEN proposed \o finding.edits
                                            ELSE proposed
          /\ Follow
      BY <1>9, <2>4 DEF Record
    <3>2. proposed \o finding.edits \in Seq(Edit)
      BY <1>t, FindingParts, ConcatProperties
    <3>3. proposed' \in Seq(Edit)
      BY <1>t, <3>1, <3>2
    <3> QED
      BY <1>t, <1>u, <1>f, <1>8, <2>1, <2>2, <3>1, <3>3
  <2> QED
    BY <2>3, <2>4
<1>10. CASE WriteNext
  <2>1. PTypeOK'
    BY <1>10, <1>t, ApplyEditType DEF WriteNext
  <2>2. pc = "apply" /\ UNCHANGED <<qvars, iterations, late, counter, proposed,
                                    reason>>
    BY <1>10 DEF WriteNext
  <2>3. CASE LastEdit
    <3>1. Follow
      BY <1>10, <2>3 DEF WriteNext
    <3> QED
      BY <1>t, <1>u, <1>e, <1>8, <2>1, <2>2, <3>1
  <2>4. CASE ~LastEdit
    <3>1. pc' = pc /\ next' = next + 1 /\ UNCHANGED <<current, sub, finding>>
      BY <1>10, <2>4 DEF WriteNext
    <3>2. next <= Len(finding.edits) /\ Len(finding.edits) \in Nat
      BY <1>t, <2>2, FindingParts DEF Positions
    <3>3. next' \in Nat \ {0} /\ next' <= Len(finding.edits)
      BY <1>i, <2>4, <3>1, <3>2 DEF LastEdit
    <3>4. Positions'
      BY <2>2, <3>1, <3>3 DEF Positions
    <3> QED
      BY <1>t, <1>u, <1>e, <2>1, <2>2, <3>1, <3>3, <3>4
  <2> QED
    BY <2>3, <2>4
<1>11. CASE AbortApply
  BY <1>11, <1>w DEF AbortApply
<1>12. CASE Dispatch
  <2>1. /\ pc = "dispatch" /\ Push(Child(finding.dirs[next]))
        /\ UNCHANGED <<pvars, iterations, late, counter, proposed, reason>>
    BY <1>12 DEF Dispatch
  <2>2. next <= Len(finding.dirs) /\ Len(finding.dirs) \in Nat
    BY <1>t, <2>1, FindingParts DEF Positions
  <2>3. finding.dirs[next] \in Task
    <3>1. finding.dirs \in Seq(Task)
      BY <1>t, FindingParts
    <3> QED
      BY <1>i, <2>2, <3>1
  <2>4. QInv'
    BY <1>t, <2>1, <2>3, ChildType, PushKeepsQInv
  <2>5. CASE LastDirection
    <3>1. pc' = "loop" /\ ClearLocals
      BY <1>12, <2>5 DEF Dispatch
    <3> QED
      BY <1>t, <1>u, <1>c, <1>f, <1>n, <2>1, <2>4, <3>1
  <2>6. CASE ~LastDirection
    <3>1. pc' = pc /\ next' = next + 1 /\ UNCHANGED <<current, sub, finding>>
      BY <1>12, <2>6 DEF Dispatch, NextDirection
    <3>2. next' \in Nat \ {0} /\ next' <= Len(finding.dirs)
      BY <1>i, <2>2, <2>6, <3>1 DEF LastDirection
    <3>3. Positions'
      BY <2>1, <3>1, <3>2 DEF Positions
    <3> QED
      BY <1>t, <1>u, <1>f, <2>1, <2>4, <3>1, <3>2, <3>3
  <2> QED
    BY <2>5, <2>6
<1>13. CASE UNCHANGED vars
  BY <1>13, <1>t, <1>u, <1>e, <1>f, <1>p DEF vars, locals
<1> QED
  BY <1>1, <1>2, <1>3, <1>5, <1>6, <1>7, <1>9, <1>10, <1>11, <1>12, <1>13
  DEF Next, Over

LEMMA BaseInit == Init => Base
<1> SUFFICES ASSUME Init
             PROVE  Base
  OBVIOUS
<1>1. QTypeOK /\ QueuedAreasExact /\ DistinctAreas
  <2>1. queue = <<>> /\ visited = {} /\ queuedAreas = {}
    BY DEF Init, QInit
  <2>2. queue \in Seq(Task) /\ 1..Len(queue) = {}
    BY <2>1, EmptySeq
  <2> QED
    BY <2>1, <2>2 DEF QTypeOK, QueuedAreasExact, DistinctAreas, AreasOf
<1>2. PTypeOK
  <2>1. disk = Original /\ written = <<>> /\ rejected = <<>> /\ errors = <<>>
    BY DEF Init, PInit
  <2> QED
    BY <2>1, EmptySeq DEF PTypeOK, Original, TextState
<1>3. current \in Task /\ finding \in EditFinding /\ proposed \in Seq(Edit)
  BY NoTaskType, EmptySeq DEF Init
<1>4. Positions
  BY DEF Init, Positions
<1>5. /\ pc = "start" /\ late \in BOOLEAN /\ reason = ""
  BY DEF Init
<1>6. /\ sub \in Nat \ {0} /\ next \in Nat \ {0} /\ iterations \in Nat
      /\ counter \in Nat
  <2>1. sub = 1 /\ next = 1 /\ iterations = 0 /\ counter = 0
    BY DEF Init
  <2> QED
    BY <2>1
<1> QED
  BY <1>1, <1>2, <1>3, <1>4, <1>5, <1>6 DEF Base, TypeOK

LEMMA BaseInvariant == Spec => []Base
BY BaseInit, BaseStep, PTL DEF Spec

\* Every variable keeps its type, the lists of the report included: what is
\* rejected lies outside the root, what is written or failed inside
\* (PatchApplier.cpp:28-76).
THEOREM EditTypes == Spec => []TypeOK
BY BaseInvariant, PTL DEF Base

-----------------------------------------------------------------------------
\* What a task has gathered rests on the files as they are, until it writes;
\* from then on that holds of the files it has not come to.
UpToDate ==
  /\ pc \in {"start", "loop"} => finding = NoChange
  /\ pc \in {"work", "record"} =>
       \A i \in 1..Len(finding.edits) : ~Stale(finding.edits[i])
  /\ pc = "apply" =>
       \A i \in 1..Len(finding.edits) :
         (\A j \in 1..next - 1 : finding.edits[j].path # finding.edits[i].path)
           => ~Stale(finding.edits[i])

\* The edits of a reply rest on the files as they are now.
LEMMA ParsedUpToDate ==
  ASSUME disk \in [Path -> FileState], NEW shown \in SUBSET Path, NEW n,
         NEW f \in Parsed(n, shown)
  PROVE  /\ f.edits \in Seq(Edit)
         /\ \A i \in 1..Len(f.edits) : ~Stale(f.edits[i])
<1>1. PICK o \in EditOutcome, ps \in PathLists :
        f.edits = EditsOf(ps, shown, o)
  BY DEF Parsed, EditOutcome
<1>2. Len(ps) \in Nat
  <2>1. PICK k \in Nat : ps \in [1..k -> Path \cup Outside]
    BY EditBoundsAssumption DEF PathLists, ListsUpTo
  <2> QED
    BY <2>1, SeqDef
<1>3. f.edits = [i \in 1..Len(ps) |-> Proposed(ps[i], shown, o)]
  BY <1>1 DEF EditsOf
<1>4. f.edits \in Seq(Edit)
  BY ParsedEdits
<1>5. Len(f.edits) = Len(ps)
  BY <1>2, <1>3, <1>4, LenProperties
<1>6. ASSUME NEW i \in 1..Len(ps)
      PROVE  ~Stale(Proposed(ps[i], shown, o))
  BY DEF Stale, Proposed
<1> QED
  BY <1>3, <1>4, <1>5, <1>6

\* Executing one more sub-area keeps what was gathered up to date.
LEMMA CombinedUpToDate ==
  ASSUME NEW t, NEW m, NEW f, m.edits \in Seq(Edit), f.edits \in Seq(Edit),
         \A i \in 1..Len(m.edits) : ~Stale(m.edits[i]),
         \A i \in 1..Len(f.edits) : ~Stale(f.edits[i])
  PROVE  LET g == Combine(t, m, f)
         IN  \A i \in 1..Len(g.edits) : ~Stale(g.edits[i])
<1>1. \A i \in 1..Len(m.edits \o f.edits) : ~Stale((m.edits \o f.edits)[i])
  <2> SUFFICES ASSUME NEW i \in 1..Len(m.edits \o f.edits)
               PROVE  ~Stale((m.edits \o f.edits)[i])
    OBVIOUS
  <2>1. /\ Len(m.edits) \in Nat /\ Len(f.edits) \in Nat
        /\ Len(m.edits \o f.edits) = Len(m.edits) + Len(f.edits)
    BY ConcatProperties, LenProperties
  <2>2. i \in 1..(Len(m.edits) + Len(f.edits))
    BY <2>1
  <2>3. CASE i <= Len(m.edits)
    BY <2>1, <2>3, ConcatProperties
  <2>4. CASE i > Len(m.edits)
    <3>1. i - Len(m.edits) \in 1..Len(f.edits)
      <4> DEFINE a == Len(m.edits)
                 b == Len(f.edits)
      <4>1. a \in Nat /\ b \in Nat /\ i \in 1..(a + b) /\ i > a
        BY <2>2, <2>1, <2>4
      <4> HIDE DEF a, b
      <4>2. i - a \in 1..b
        BY <4>1
      <4> QED
        BY <4>2 DEF a, b
    <3>2. (m.edits \o f.edits)[i] = f.edits[i - Len(m.edits)]
      BY <2>1, <2>4, ConcatProperties
    <3> QED
      BY <3>1, <3>2
  <2> QED
    BY <2>1, <2>3, <2>4
<1>2. Joined(m, f).edits = m.edits \o f.edits
  BY DEF Joined
<1> QED
  BY <1>1, <1>2 DEF Combine, Merge

LEMMA UpToDateStep == Base /\ UpToDate /\ [Next]_vars => UpToDate'
<1> SUFFICES ASSUME Base, UpToDate, [Next]_vars
             PROVE  UpToDate'
  OBVIOUS
<1>t. /\ disk \in [Path -> FileState] /\ finding \in EditFinding
      /\ next \in Nat \ {0} /\ Positions
  BY DEF Base, TypeOK, PTypeOK, FileState
<1>1. ASSUME pc' \notin {"start", "loop", "work", "record", "apply"}
      PROVE  UpToDate'
  BY <1>1 DEF UpToDate
<1>2. ASSUME finding' = NoChange, pc' # "apply"
      PROVE  UpToDate'
  BY <1>2 DEF UpToDate, NoChange
<1>3. CASE NoTarget \/ QueueDrained \/ IterationsReached \/ ClockExhausted
  BY <1>1, <1>3
  DEF NoTarget, QueueDrained, IterationsReached, ClockExhausted, Return
<1>4. CASE (\E c \in CandidateLists : PushSeed(c)) \/ StartTask
  <2>1. finding' = NoChange /\ pc' # "apply"
    BY <1>4 DEF PushSeed, StartTask, LoopMayRun, locals, UpToDate
  <2> QED
    BY <1>2, <2>1
<1>5. ASSUME NEW f, f.edits \in Seq(Edit), pc = "work", NextSubArea,
             \A i \in 1..Len(f.edits) : ~Stale(f.edits[i]),
             finding' = Combine(current, finding, f), UNCHANGED pvars
      PROVE  UpToDate'
  <2>1. finding.edits \in Seq(Edit)
    BY <1>t DEF EditFinding
  <2>2. \A i \in 1..Len(finding.edits) : ~Stale(finding.edits[i])
    BY <1>5 DEF UpToDate
  <2>3. \A i \in 1..Len(finding'.edits) : ~Stale(finding'.edits[i])
    BY <1>5, <2>1, <2>2, CombinedUpToDate
  <2>4. disk' = disk /\ pc' \in {"work", "record"}
    BY <1>5 DEF pvars, NextSubArea
  <2> QED
    BY <2>3, <2>4 DEF UpToDate, Stale
<1>6. CASE NoReply
  <2>1. NoChange.edits \in Seq(Edit) /\ 1..Len(NoChange.edits) = {}
    BY EmptySeq DEF NoChange
  <2> QED
    BY <1>5, <1>6, <2>1 DEF NoReply
<1>7. ASSUME NEW shown \in Shown, Abort(shown)
      PROVE  UpToDate'
  BY <1>1, <1>7 DEF Abort, Unwind
<1>8. ASSUME NEW shown \in Shown, NEW f \in Parsed(counter, shown),
             Investigate(shown, f)
      PROVE  UpToDate'
  <2>1. shown \in SUBSET Path
    BY DEF Shown, FilesAt
  <2>2. /\ f.edits \in Seq(Edit)
        /\ \A i \in 1..Len(f.edits) : ~Stale(f.edits[i])
    BY <1>t, <2>1, ParsedUpToDate
  <2> QED
    BY <1>5, <1>8, <2>2 DEF Investigate
<1>9. ASSUME Follow
      PROVE  UpToDate'
  BY <1>1, <1>2, <1>9 DEF Follow, ClearLocals
<1>10. CASE Record
  <2>1. CASE Writes
    <3>1. /\ pc = "record" /\ pc' = "apply" /\ next' = next
          /\ finding' = finding /\ disk' = disk
      BY <1>10, <2>1 DEF Record, locals, pvars
    <3> QED
      BY <3>1 DEF UpToDate, Stale
  <2>2. CASE ~Writes
    BY <1>9, <1>10, <2>2 DEF Record
  <2> QED
    BY <2>1, <2>2
<1>11. CASE WriteNext
  <2>1. CASE LastEdit
    BY <1>9, <1>11, <2>1 DEF WriteNext
  <2>2. CASE ~LastEdit
    <3>1. /\ pc = "apply" /\ pc' = "apply" /\ next' = next + 1
          /\ finding' = finding /\ ApplyEdit(finding.edits[next].path)
      BY <1>11, <2>2 DEF WriteNext
    <3>2. ASSUME NEW i \in 1..Len(finding.edits),
                 \A j \in 1..next :
                   finding.edits[j].path # finding.edits[i].path
          PROVE  ~Stale(finding.edits[i])'
      <4>1. finding.edits[i].path # finding.edits[next].path
        BY <1>t, <3>2
      <4>2. ~Stale(finding.edits[i])
        BY <1>t, <3>1, <3>2 DEF UpToDate
      <4>3. \A q \in Path : q # finding.edits[next].path => disk'[q] = disk[q]
        BY <1>t, <3>1, OverwriteOne
        DEF ApplyEdit, Reject, FailToOpen, FailToWrite, Write, FailToFlush,
            TextState
      <4> QED
        BY <3>1, <4>1, <4>2, <4>3 DEF Stale
    <3>3. 1..(next + 1) - 1 = 1..next
      BY <1>t
    <3> QED
      BY <3>1, <3>2, <3>3 DEF UpToDate
  <2> QED
    BY <2>1, <2>2
<1>12. CASE AbortApply
  BY <1>1, <1>12 DEF AbortApply, Unwind
<1>13. CASE Dispatch
  BY <1>1, <1>2, <1>13 DEF Dispatch, ClearLocals
<1>14. CASE UNCHANGED vars
  BY <1>14 DEF vars, locals, pvars, UpToDate, Stale
<1> QED
  BY <1>3, <1>4, <1>6, <1>7, <1>8, <1>10, <1>11, <1>12, <1>13, <1>14
  DEF Next, Over

\* A task builds on what the tasks before it wrote: the first of its edits of
\* a file rests on the text that is there (EditEngine.cpp:180, EditEngine.h:35).
THEOREM TasksBuildOnLatest == Spec => []BuildsOnLatest
<1>1. Init => UpToDate
  <2> SUFFICES ASSUME Init
               PROVE  UpToDate
    OBVIOUS
  <2>1. pc = "start" /\ finding = NoChange
    BY DEF Init
  <2> QED
    BY <2>1 DEF UpToDate
<1>2. Base /\ UpToDate => BuildsOnLatest
  <2> SUFFICES ASSUME Base, UpToDate, pc = "apply", FirstOfFinding
               PROVE  ~Stale(finding.edits[next])
    BY DEF BuildsOnLatest
  <2>1. next \in 1..Len(finding.edits)
    <3>1. Len(finding.edits) \in Nat
      BY FindingParts DEF Base, TypeOK
    <3>2. next \in Nat \ {0} /\ next <= Len(finding.edits)
      BY DEF Base, TypeOK, Positions
    <3> QED
      BY <3>1, <3>2
  <2> QED
    BY <2>1 DEF UpToDate, FirstOfFinding
<1> QED
  BY <1>1, <1>2, BaseInvariant, UpToDateStep, PTL DEF Spec

-----------------------------------------------------------------------------
\* What ApplyEdit is given is reported on, in one list or another, and no
\* list loses an entry.
LEMMA ApplyEditReports ==
  ASSUME PTypeOK, NEW p, ApplyEdit(p)
  PROVE  p \in Reported' /\ Reported \subseteq Reported'
<1> USE DEF PTypeOK, Reported
<1>1. CASE Reject(p)
  <2>1. Entries(rejected') = Entries(rejected) \cup {p}
    BY <1>1, EntriesOfAppend DEF Reject
  <2> QED
    BY <1>1, <2>1 DEF Reject
<1>2. CASE FailToOpen(p) \/ FailToWrite(p)
  <2>1. p \in Path /\ errors' = Append(errors, p) /\ errors \in Seq(Path)
    BY <1>2 DEF FailToOpen, FailToWrite
  <2>2. Entries(errors') = Entries(errors) \cup {p}
    BY <2>1, EntriesOfAppend
  <2> QED
    BY <1>2, <2>2 DEF FailToOpen, FailToWrite
<1>3. CASE Write(p) \/ FailToFlush(p)
  <2>1. p \in Path /\ written' = Append(written, p)
        /\ UNCHANGED <<rejected, errors>>
    BY <1>3 DEF Write, FailToFlush
  <2>2. Entries(written') = Entries(written) \cup {p}
    BY <2>1, EntriesOfAppend
  <2> QED
    BY <2>1, <2>2
<1> QED
  BY <1>1, <1>2, <1>3 DEF ApplyEdit

\* What has become of the edits in hand.
Handled ==
  /\ pc = "apply" =>
       \A i \in 1..(next - 1) : finding.edits[i].path \in Reported
  /\ pc = "dispatch" /\ Counts(finding) =>
       Paths(finding.edits) \subseteq Reported \cup Paths(proposed)

\* The edits of a finding that is not applied are kept, if it counts.
LEMMA KeptEdits ==
  ASSUME Base, Record, ~Writes, Counts(finding)
  PROVE  Paths(finding.edits) \subseteq Paths(proposed')
<1>1. proposed \in Seq(Edit) /\ finding.edits \in Seq(Edit)
  BY FindingParts DEF Base, TypeOK
<1>2. proposed' = proposed \o finding.edits
  BY DEF Record
<1>3. ASSUME NEW i \in 1..Len(finding.edits)
      PROVE  finding.edits[i].path \in Paths(proposed')
  <2>1. /\ Len(proposed) \in Nat /\ Len(finding.edits) \in Nat
        /\ Len(proposed') = Len(proposed) + Len(finding.edits)
    BY <1>1, <1>2, ConcatProperties, LenProperties
  <2>2. Len(proposed) + i \in 1..Len(proposed')
    BY <2>1
  <2>3. proposed'[Len(proposed) + i] = finding.edits[i]
    BY <1>1, <1>2, <2>1, <2>2, ConcatProperties
  <2> QED
    BY <2>2, <2>3 DEF Paths
<1> QED
  BY <1>3 DEF Paths

\* The last edit of a finding completes its report.
LEMMA LastReported ==
  ASSUME Base, Handled, WriteNext, LastEdit
  PROVE  Paths(finding.edits) \subseteq Reported'
<1>1. pc = "apply" /\ ApplyEdit(finding.edits[next].path)
  BY DEF WriteNext
<1>2. finding.edits[next].path \in Reported' /\ Reported \subseteq Reported'
  BY <1>1, ApplyEditReports DEF Base, TypeOK
<1>3. next \in Nat \ {0} /\ next = Len(finding.edits)
  BY DEF Base, TypeOK, LastEdit
<1>4. \A i \in 1..(next - 1) : finding.edits[i].path \in Reported
  BY <1>1 DEF Handled
<1>5. \A i \in 1..Len(finding.edits) : i = next \/ i \in 1..(next - 1)
  BY <1>3
<1> QED
  BY <1>2, <1>4, <1>5 DEF Paths

LEMMA HandledStep == Base /\ Handled /\ [Next]_vars => Handled'
<1> SUFFICES ASSUME Base, Handled, [Next]_vars, pc' \in {"apply", "dispatch"}
             PROVE  Handled'
  BY DEF Handled
<1>1. CASE Record
  <2>1. CASE Writes
    <3>1. pc' = "apply" /\ next' = next /\ pc = "record"
      BY <1>1, <2>1 DEF Record, locals
    <3>2. next = 1
      BY <3>1 DEF Base, Positions
    <3>3. 1..(next' - 1) = {}
      BY <3>1, <3>2
    <3> QED
      BY <3>1, <3>3 DEF Handled
  <2>2. CASE ~Writes
    <3>1. pc' = "dispatch" /\ finding' = finding
      BY <1>1, <2>2 DEF Record, Follow
    <3>2. Counts(finding) => Paths(finding.edits) \subseteq Paths(proposed')
      BY <1>1, <2>2, KeptEdits
    <3> QED
      BY <3>1, <3>2 DEF Handled, Counts, Paths
  <2> QED
    BY <2>1, <2>2
<1>2. CASE WriteNext
  <2>1. CASE LastEdit
    <3>1. pc' = "dispatch" /\ finding' = finding
      BY <1>2, <2>1 DEF WriteNext, Follow
    <3>2. Paths(finding.edits) \subseteq Reported'
      BY <1>2, <2>1, LastReported
    <3> QED
      BY <3>1, <3>2 DEF Handled, Paths
  <2>2. CASE ~LastEdit
    <3>1. /\ pc = "apply" /\ pc' = "apply" /\ next' = next + 1
          /\ finding' = finding /\ ApplyEdit(finding.edits[next].path)
      BY <1>2, <2>2 DEF WriteNext
    <3>2. finding.edits[next].path \in Reported' /\ Reported \subseteq Reported'
      BY <3>1, ApplyEditReports DEF Base, TypeOK
    <3>3. next \in Nat \ {0}
      BY DEF Base, TypeOK
    <3>4. \A i \in 1..(next' - 1) : i = next \/ i \in 1..(next - 1)
      BY <3>1, <3>3
    <3>5. \A i \in 1..(next - 1) : finding.edits[i].path \in Reported
      BY <3>1 DEF Handled
    <3> QED
      BY <3>1, <3>2, <3>4, <3>5 DEF Handled
  <2> QED
    BY <2>1, <2>2
<1>3. CASE Dispatch
  <2>1. /\ pc = "dispatch" /\ pc' = "dispatch" /\ finding' = finding
        /\ proposed' = proposed /\ Reported' = Reported
    BY <1>3 DEF Dispatch, pvars, reports, Reported
  <2> QED
    BY <2>1 DEF Handled, Counts, Paths
<1>4. CASE UNCHANGED vars
  BY <1>4 DEF vars, locals, pvars, reports, Handled, Counts, Paths, Reported
<1> QED
  BY <1>1, <1>2, <1>3, <1>4 DEF Next, NoTarget, PushSeed, QueueDrained,
     IterationsReached, ClockExhausted, Return, StartTask, NoReply,
     NextSubArea, Abort, Unwind, Investigate, AbortApply, Over

\* When an iteration ends each edit of a finding that counts is in the report
\* or among the proposals, whatever became of the others (PatchApplier.cpp:28,
\* EditEngine.cpp:197-232).
THEOREM EditsAreReported == Spec => EveryEditReported
<1>1. Init => Handled
  <2>1. ASSUME Init PROVE pc = "start"
    BY <2>1 DEF Init
  <2> QED
    BY <2>1 DEF Handled
<1>2. Base /\ Handled /\ [Next]_vars =>
        [IterationEnds /\ Counts(finding) =>
           Paths(finding.edits) \subseteq Reported' \cup Paths(proposed')]_vars
  <2> SUFFICES ASSUME Base, Handled, Next, IterationEnds, Counts(finding)
               PROVE  Paths(finding.edits) \subseteq
                        Reported' \cup Paths(proposed')
    OBVIOUS
  <2>1. CASE Record
    <3>1. ~Writes
      BY <2>1 DEF Record, IterationEnds
    <3> QED
      BY <2>1, <3>1, KeptEdits
  <2>2. CASE WriteNext
    <3>1. LastEdit
      BY <2>2 DEF WriteNext, IterationEnds
    <3> QED
      BY <2>2, <3>1, LastReported
  <2>3. CASE Dispatch
    <3>1. /\ pc = "dispatch" /\ proposed' = proposed /\ Reported' = Reported
      BY <2>3 DEF Dispatch, pvars, reports, Reported
    <3> QED
      BY <3>1 DEF Handled, Paths
  <2> QED
    BY <2>1, <2>2, <2>3 DEF Next, NoTarget, PushSeed, QueueDrained,
       IterationsReached, ClockExhausted, Return, StartTask, NoReply,
       NextSubArea, Abort, Unwind, Investigate, AbortApply, Over, vars,
       IterationEnds
<1> QED
  BY <1>1, <1>2, HandledStep, BaseInvariant, PTL DEF Spec, EveryEditReported

-----------------------------------------------------------------------------
\* The direction being dispatched.
LEMMA Dispatched ==
  ASSUME Base, pc = "dispatch"
  PROVE  /\ next \in 1..Len(finding.dirs)
         /\ finding.dirs[next] \in Task /\ current \in Task
<1>1. /\ finding.dirs \in Seq(Task) /\ Len(finding.dirs) \in Nat
      /\ current \in Task
  BY FindingParts DEF Base, TypeOK
<1>2. next \in Nat \ {0} /\ next <= Len(finding.dirs)
  BY DEF Base, TypeOK, Positions
<1>3. next \in 1..Len(finding.dirs)
  BY <1>1, <1>2
<1> QED
  BY <1>1, <1>3, ElementOfSeq

\* The directions already dispatched are queued or were visited.
Dispatching ==
  pc = "dispatch" =>
    \A i \in 1..(next - 1) : finding.dirs[i].area \in visited \cup queuedAreas

\* The direction that Dispatch pushes is queued or visited afterwards, and
\* what was so before stays so.
LEMMA DispatchCovers ==
  ASSUME Base, Dispatch
  PROVE  /\ finding.dirs[next].area \in visited' \cup queuedAreas'
         /\ visited \cup queuedAreas \subseteq visited' \cup queuedAreas'
<1>1. finding.dirs[next] \in Task /\ Push(Child(finding.dirs[next]))
  BY Dispatched DEF Dispatch
<1>2. Child(finding.dirs[next]).area = finding.dirs[next].area
  BY <1>1 DEF Child, Task
<1> QED
  BY <1>1, <1>2 DEF Push, Accept, Refuse, Fresh, qvars

LEMMA DispatchingStep == Base /\ Dispatching /\ [Next]_vars => Dispatching'
<1> SUFFICES ASSUME Base, Dispatching, [Next]_vars, pc' = "dispatch"
             PROVE  \A i \in 1..(next' - 1) :
                      finding'.dirs[i].area \in visited' \cup queuedAreas'
  BY DEF Dispatching
<1>1. CASE Record \/ WriteNext
  <2>1. next' = 1
    BY <1>1 DEF Record, WriteNext, Follow
  <2> QED
    BY <2>1
<1>2. CASE Dispatch
  <2>1. next' = next + 1 /\ finding' = finding /\ pc = "dispatch"
    BY <1>2 DEF Dispatch, NextDirection
  <2>2. next \in Nat
    BY DEF Base, TypeOK
  <2>3. \A i \in 1..(next' - 1) : i = next \/ i \in 1..(next - 1)
    BY <2>1, <2>2
  <2> QED
    BY <1>2, <2>1, <2>3, DispatchCovers DEF Dispatching
<1>3. CASE UNCHANGED vars
  BY <1>3 DEF vars, qvars, locals, Dispatching
<1> QED
  BY <1>1, <1>2, <1>3 DEF Next, NoTarget, PushSeed, QueueDrained,
     IterationsReached, ClockExhausted, Return, StartTask, NoReply,
     NextSubArea, Abort, Unwind, Investigate, AbortApply, Over

\* When a partial finding has been dealt with, the area of each of its
\* directions is queued or visited (EditEngine.cpp:234-249).
THEOREM EditLeadsFollowed == Spec => LeadsFollowed
<1>1. Init => Dispatching
  <2>1. ASSUME Init PROVE pc = "start"
    BY <2>1 DEF Init
  <2> QED
    BY <2>1 DEF Dispatching
<1>2. Base /\ Dispatching /\ [Next]_vars =>
        [IterationEnds /\ finding.outcome = "partial" =>
           AreasOf(finding.dirs) \subseteq visited' \cup queuedAreas']_vars
  <2> SUFFICES ASSUME Base, Dispatching, Next, IterationEnds,
                      finding.outcome = "partial",
                      NEW a \in AreasOf(finding.dirs)
               PROVE  a \in visited' \cup queuedAreas'
    OBVIOUS
  <2>1. PICK i \in 1..Len(finding.dirs) : a = finding.dirs[i].area
    BY DEF AreasOf
  <2>2. CASE Record \/ WriteNext
    <3>1. finding.dirs = <<>>
      BY <2>2 DEF Record, WriteNext, Follow, IterationEnds
    <3> QED
      BY <2>1, <3>1, EmptySeq
  <2>3. CASE Dispatch
    <3>1. next = Len(finding.dirs) /\ next \in Nat /\ pc = "dispatch"
      BY <2>3 DEF Dispatch, LastDirection, IterationEnds, Base, TypeOK
    <3>2. i = next \/ i \in 1..(next - 1)
      BY <2>1, <3>1
    <3> QED
      BY <2>1, <2>3, <3>1, <3>2, DispatchCovers DEF Dispatching
  <2> QED
    BY <2>2, <2>3 DEF Next, NoTarget, PushSeed, QueueDrained,
       IterationsReached, ClockExhausted, Return, StartTask, NoReply,
       NextSubArea, Abort, Unwind, Investigate, AbortApply, Over, vars,
       IterationEnds
<1> QED
  BY <1>1, <1>2, DispatchingStep, BaseInvariant, PTL DEF Spec, LeadsFollowed

-----------------------------------------------------------------------------
\* The task in hand is new until Record marks it, and was taken up with an
\* iteration left.
InHand ==
  /\ pc = "start" => queuedAreas = {}
  /\ pc \in {"work", "record"} =>
       /\ current.area \notin visited \cup queuedAreas
       /\ iterations < MaxIterations
  /\ pc = "apply" => current.area \in visited
  /\ queuedAreas \cap visited = {}

LEMMA StartedTask ==
  ASSUME Base, StartTask
  PROVE  /\ Head(queue).area \in queuedAreas
         /\ queuedAreas' = queuedAreas \ {Head(queue).area}
         /\ visited' = visited /\ current' = Head(queue)
         /\ iterations' = iterations /\ iterations < MaxIterations
         /\ pc = "loop" /\ pc' = "work"
<1>1. Head(queue) = queue[1] /\ 1 \in 1..Len(queue)
  <2>1. queue \in Seq(Task) /\ queue # <<>>
    BY DEF StartTask, LoopMayRun, Base, TypeOK, QTypeOK
  <2> QED
    BY <2>1
<1>2. Head(queue).area \in queuedAreas
  BY <1>1 DEF Base, QueuedAreasExact, AreasOf
<1> QED
  BY <1>2 DEF StartTask, LoopMayRun, Pop

LEMMA RecordedTask ==
  ASSUME Record
  PROVE  /\ pc = "record" /\ pc' \in {"apply", "dispatch", "loop"}
         /\ visited' = visited \cup {current.area} /\ queuedAreas' = queuedAreas
         /\ pc' = "apply" => current' = current
         /\ iterations' = iterations + 1
BY DEF Record, MarkVisited, Follow, locals

LEMMA InHandStep == Base /\ InHand /\ [Next]_vars => InHand'
<1> SUFFICES ASSUME Base, InHand, [Next]_vars
             PROVE  InHand'
  OBVIOUS
<1> USE DEF InHand
<1>1. ASSUME UNCHANGED <<visited, queuedAreas>>,
             pc' \in {"loop", "dispatch", "done", "aborted"}
      PROVE  InHand'
  BY <1>1
<1>2. ASSUME UNCHANGED <<visited, queuedAreas, current, iterations>>,
             pc' = pc \/ (pc = "work" /\ pc' = "record")
      PROVE  InHand'
  BY <1>2
<1>3. ASSUME NEW t, Push(t), pc' \in {"loop", "dispatch"}
      PROVE  InHand'
  BY <1>3 DEF Push, Accept, Refuse, Fresh, qvars
<1>4. CASE NoTarget \/ QueueDrained \/ IterationsReached \/ ClockExhausted
  BY <1>1, <1>4 DEF NoTarget, QueueDrained, IterationsReached,
     ClockExhausted, Return, qvars
<1>5. ASSUME NEW c \in CandidateLists, PushSeed(c)
      PROVE  InHand'
  BY <1>3, <1>5 DEF PushSeed
<1>6. CASE StartTask
  BY <1>6, StartedTask
<1>7. CASE NoReply
  BY <1>2, <1>7 DEF NoReply, NextSubArea, qvars
<1>8. ASSUME NEW shown \in Shown,
             Abort(shown) \/ \E f \in Parsed(counter, shown) :
                               Investigate(shown, f)
      PROVE  InHand'
  BY <1>1, <1>2, <1>8 DEF Abort, Unwind, Investigate, NextSubArea, qvars
<1>9. CASE Record
  BY <1>9, RecordedTask
<1>10. CASE WriteNext
  BY <1>1, <1>2, <1>10 DEF WriteNext, Follow, qvars
<1>11. CASE AbortApply
  BY <1>1, <1>11 DEF AbortApply, Unwind, qvars
<1>12. CASE Dispatch
  BY <1>3, <1>12 DEF Dispatch
<1>13. CASE UNCHANGED vars
  BY <1>2, <1>13 DEF vars, qvars, locals
<1> QED
  BY <1>4, <1>5, <1>6, <1>7, <1>8, <1>9, <1>10, <1>11, <1>12, <1>13
  DEF Next, Over

\* The edit loop implements the worklist exploration: recording a task
\* explores its place, queuing a direction finds one, the ends of the loop
\* are its two ends, and nothing else, the writing included, is seen there
\* (EditEngine.cpp:162-252).
THEOREM EditImplements == Spec => ImplementsExploration
<1>1. Init => Abstract!Init /\ InHand
  <2>1. ASSUME Init
        PROVE  /\ visited = {} /\ queuedAreas = {} /\ pc = "start"
               /\ iterations = 0
    BY <2>1 DEF Init, QInit
  <2> QED
    BY <2>1 DEF Abstract!Init, InFlight, Status, InHand
<1>2. Base /\ InHand /\ [Next]_vars => [Abstract!Next]_(Abstract!evars)
  <2> SUFFICES ASSUME Base, InHand, [Next]_vars
               PROVE  [Abstract!Next]_(Abstract!evars)
    OBVIOUS
  <2>1. ASSUME UNCHANGED <<visited, queuedAreas, InFlight, iterations, Status>>
        PROVE  UNCHANGED Abstract!evars
    BY <2>1 DEF Abstract!evars
  <2>2. ASSUME NEW t \in Task, Push(t), UNCHANGED <<InFlight, iterations, Status>>,
               Status = "running"
        PROVE  [Abstract!Next]_(Abstract!evars)
    <3>1. CASE Accept(t)
      <4>1. t.area \in Place
        BY DEF Task
      <4>2. Abstract!Find(t.area)
        BY <2>2, <3>1 DEF Accept, Fresh, Abstract!Find
      <4> QED
        BY <4>1, <4>2 DEF Abstract!Next
    <3>2. CASE Refuse(t)
      BY <2>1, <2>2, <3>2 DEF Refuse, qvars
    <3> QED
      BY <2>2, <3>1, <3>2 DEF Push
  <2>3. CASE NoTarget \/ QueueDrained
    <3>1. queuedAreas = {}
      <4>1. CASE NoTarget
        BY <4>1 DEF NoTarget, InHand
      <4>2. CASE QueueDrained
        BY <4>2, EmptySeq DEF QueueDrained, Base, QueuedAreasExact, AreasOf
      <4> QED
        BY <2>3, <4>1, <4>2
    <3>2. /\ Status = "running" /\ Status' = "drained" /\ InFlight = {}
          /\ InFlight' = {} /\ UNCHANGED <<visited, queuedAreas, iterations>>
      BY <2>3 DEF NoTarget, QueueDrained, Return, Status, InFlight, qvars
    <3> QED
      BY <3>1, <3>2 DEF Abstract!Drain, Abstract!Next
  <2>4. CASE IterationsReached \/ ClockExhausted
    <3>1. queuedAreas # {}
      <4>1. queue \in Seq(Task) /\ queue # <<>>
        BY <2>4 DEF IterationsReached, ClockExhausted, Base, TypeOK, QTypeOK
      <4>2. 1 \in 1..Len(queue)
        BY <4>1
      <4> QED
        BY <4>2 DEF Base, QueuedAreasExact, AreasOf
    <3>2. /\ Status = "running" /\ Status' = "cutoff" /\ InFlight = {}
          /\ InFlight' = {} /\ UNCHANGED <<visited, queuedAreas, iterations>>
      BY <2>4 DEF IterationsReached, ClockExhausted, Return, Status, InFlight,
         qvars
    <3> QED
      BY <3>1, <3>2 DEF Abstract!CutOff, Abstract!Next
  <2>5. ASSUME NEW c \in CandidateLists, PushSeed(c)
        PROVE  [Abstract!Next]_(Abstract!evars)
    <3>1. /\ Push(Seed(c)) /\ Seed(c) \in Task /\ Status = "running"
          /\ UNCHANGED <<InFlight, iterations, Status>>
      BY <2>5, SeedType DEF PushSeed, Status, InFlight
    <3> QED
      BY <2>2, <3>1
  <2>6. CASE Dispatch
    <3>1. /\ Push(Child(finding.dirs[next])) /\ Child(finding.dirs[next]) \in Task
      BY <2>6, Dispatched, ChildType DEF Dispatch
    <3>2. /\ Status = "running" /\ UNCHANGED <<InFlight, iterations, Status>>
      BY <2>6 DEF Dispatch, Status, InFlight
    <3> QED
      BY <2>2, <3>1, <3>2
  <2>7. CASE StartTask
    <3>1. /\ InFlight = {} /\ InFlight' = {Head(queue).area}
          /\ UNCHANGED Status
      <4>1. Head(queue).area \notin visited
        BY <2>7, StartedTask DEF InHand
      <4> QED
        BY <2>7, <4>1, StartedTask DEF InFlight, Status
    <3>2. UNCHANGED <<queuedAreas \cup InFlight, visited, iterations, Status>>
      BY <2>7, <3>1, StartedTask
    <3> QED
      BY <3>2 DEF Abstract!evars
  <2>8. CASE Record
    <3>1. /\ InFlight = {current.area} /\ InFlight' = {}
          /\ Status = "running" /\ Status' = "running"
          /\ current.area \notin queuedAreas /\ iterations < MaxIterations
      BY <2>8, RecordedTask DEF InFlight, Status, InHand
    <3>2. current.area \in Place
      BY DEF Base, TypeOK, Task
    <3>3. Abstract!Explore(current.area)
      BY <2>8, <3>1, RecordedTask DEF Abstract!Explore
    <3> QED
      BY <3>2, <3>3 DEF Abstract!Next
  <2>9. CASE NoReply
    BY <2>1, <2>9 DEF NoReply, NextSubArea, qvars, InFlight, Status
  <2>10. ASSUME NEW shown \in Shown,
                Abort(shown) \/ \E f \in Parsed(counter, shown) :
                                  Investigate(shown, f)
         PROVE  [Abstract!Next]_(Abstract!evars)
    BY <2>1, <2>10 DEF Abort, Unwind, Investigate, NextSubArea, qvars, locals,
       InFlight, Status
  <2>11. CASE WriteNext
    <3>1. /\ pc = "apply" /\ pc' \in {"apply", "loop", "dispatch"}
          /\ UNCHANGED <<visited, queuedAreas, iterations>>
      BY <2>11 DEF WriteNext, Follow, qvars
    <3> QED
      BY <2>1, <3>1 DEF InFlight, Status
  <2>12. CASE AbortApply
    BY <2>1, <2>12 DEF AbortApply, Unwind, InHand, qvars, locals, InFlight,
       Status
  <2>13. CASE UNCHANGED vars
    BY <2>1, <2>13 DEF vars, qvars, locals, InFlight, Status
  <2> QED
    BY <2>3, <2>4, <2>5, <2>6, <2>7, <2>8, <2>9, <2>10, <2>11, <2>12, <2>13
    DEF Next, Over
<1> QED
  BY <1>1, <1>2, BaseInvariant, InHandStep, PTL
  DEF Spec, ImplementsExploration, Abstract!Spec

Work == INSTANCE ExplorationProofs
  WITH Location <- Place,
       Budget   <- MaxIterations,
       frontier <- queuedAreas \cup InFlight,
       explored <- visited,
       spent    <- iterations,
       status   <- Status

LEMMA IsWork == ImplementsExploration => Work!Spec
BY DEF ImplementsExploration, Abstract!Spec, Abstract!Init, Abstract!Next,
   Abstract!Find, Abstract!Explore, Abstract!Drain, Abstract!CutOff,
   Abstract!evars, Work!Spec, Work!Init, Work!Next, Work!Find, Work!Explore,
   Work!Drain, Work!CutOff, Work!evars

\* What every exploration keeps: no area is edited for twice, each one
\* is counted once and within the limit, and the reason given at the end is
\* the true one (EditEngine.cpp:162-252).
THEOREM EditWorkAddsUp == Spec => []Abstract!WorkAddsUp
<1>1. MaxIterations \in Int
  BY EditEngineAssumption DEF EditEngineAssumption
<1>2. Work!Spec => []Work!WorkAddsUp
  BY <1>1, Work!ExplorationAddsUp
<1>3. Work!WorkAddsUp => Abstract!WorkAddsUp
  BY DEF Work!WorkAddsUp, Abstract!WorkAddsUp, Work!Cardinality,
         Abstract!Cardinality, Work!IsFiniteSet, Abstract!IsFiniteSet
<1> QED
  BY <1>2, <1>3, EditImplements, IsWork, PTL

\* An area that is in the queue at any time has been visited when the run
\* says that the queue is drained, whatever else was queued, refused or written
\* in between (EditEngine.cpp:162-252).
THEOREM EditDrainedVisitedAll ==
  ASSUME NEW a
  PROVE  Spec => [](a \in queuedAreas =>
                      [](Status = "drained" => a \in visited))
<1> DEFINE Queued == a \in queuedAreas
           Visited == Status = "drained" => a \in visited
<1>1. MaxIterations \in Int
  BY EditEngineAssumption DEF EditEngineAssumption
<1>2. Work!Spec => []Work!WorkAddsUp
  BY <1>1, Work!ExplorationAddsUp
<1>3. Queued => Work!Found(a)
  BY DEF Work!Found
<1>4. Work!Found(a) /\ [Work!Next]_(Work!evars) => Work!Found(a)'
  BY Work!FoundStays
<1>5. Work!Found(a) /\ Work!WorkAddsUp => Visited
  BY Work!FoundIsExplored DEF Work!DoneWith
<1> HIDE DEF Queued, Visited
<1>6. Spec => [](Queued => []Visited)
  BY <1>2, <1>3, <1>4, <1>5, EditImplements, IsWork, PTL DEF Work!Spec
<1> QED
  BY <1>6 DEF Queued, Visited
-----------------------------------------------------------------------------
\* Ids go up: each direction of a finding has a larger one than those before
\* it, than the task in hand, and, until it is queued, than every task on the
\* queue.
Rising(ds) == \A i, j \in 1..Len(ds) : i < j => ds[i].id < ds[j].id

IdsCounted ==
  /\ current.id <= counter
  /\ \A i \in 1..Len(queue) : queue[i].id <= counter
  /\ \A j \in 1..Len(finding.dirs) : finding.dirs[j].id <= counter

FirstToCome == IF pc = "dispatch" THEN next ELSE 1

DirectionsAhead ==
  /\ Rising(finding.dirs)
  /\ pc \in {"work", "record", "apply", "dispatch"} =>
       \A j \in 1..Len(finding.dirs) :
         /\ current.id < finding.dirs[j].id
         /\ j >= FirstToCome =>
              \A i \in 1..Len(queue) : queue[i].id < finding.dirs[j].id

NothingYet ==
  /\ pc = "start" => queue = <<>>
  /\ pc \in {"start", "loop"} => finding = NoChange

Ids == IdsCounted /\ DirectionsAhead /\ NothingYet /\ UniqueIds

LEMMA IdTypes ==
  ASSUME Base
  PROVE  /\ \A i \in 1..Len(queue) : queue[i].id \in Nat
         /\ \A i \in 1..Len(finding.dirs) : finding.dirs[i].id \in Nat
         /\ current.id \in Nat /\ counter \in Nat
         /\ queue \in Seq(Task) /\ finding.dirs \in Seq(Task)
         /\ Len(queue) \in Nat /\ Len(finding.dirs) \in Nat
<1>1. \A t \in Task : t.id \in Nat
  BY DEF Task
<1>2. /\ queue \in Seq(Task) /\ finding \in EditFinding
      /\ current \in Task /\ counter \in Nat
  BY DEF Base, TypeOK, QTypeOK
<1>3. finding.dirs \in Seq(Task)
  BY <1>2 DEF EditFinding
<1>4. /\ \A i \in 1..Len(queue) : queue[i] \in Task
      /\ \A i \in 1..Len(finding.dirs) : finding.dirs[i] \in Task
  BY <1>2, <1>3
<1> QED
  BY <1>1, <1>2, <1>3, <1>4, LenProperties

\* Directions that are numbered from n on, behind others up to n.
LEMMA RisingConcat ==
  ASSUME NEW m \in Seq(Task), NEW f \in Seq(Task), NEW n \in Nat, Rising(m),
         \A i \in 1..Len(m) : m[i].id \in Nat /\ m[i].id <= n,
         \A i \in 1..Len(f) : f[i].id = n + i
  PROVE  /\ Rising(m \o f)
         /\ \A i \in 1..Len(m \o f) :
              /\ (m \o f)[i].id \in Nat /\ (m \o f)[i].id <= n + Len(f)
              /\ \/ i \in 1..Len(m) /\ (m \o f)[i] = m[i]
                 \/ (m \o f)[i].id > n
<1> DEFINE a == Len(m)
           b == Len(f)
<1>1. a \in Nat /\ b \in Nat /\ Len(m \o f) = a + b
  BY ConcatProperties, LenProperties
<1>2. \A i \in 1..a : (m \o f)[i] = m[i]
  BY <1>1, ConcatProperties
<1>3. ASSUME NEW i \in (a + 1)..(a + b)
      PROVE  (m \o f)[i].id = n + (i - a)
  <2>1. i - a \in 1..b /\ i \in 1..(a + b) /\ i > a
    BY <1>1
  <2>2. (m \o f)[i] = f[i - a]
    BY <1>1, <2>1, ConcatProperties
  <2> QED
    BY <2>1, <2>2
<1>4. \A i \in 1..a : m[i].id \in Nat /\ m[i].id <= n
  OBVIOUS
<1>5. \A i, j \in 1..a : i < j => m[i].id < m[j].id
  BY DEF Rising
<1>6. Rising(m \o f) <=> \A i, j \in 1..(a + b) :
                           i < j => (m \o f)[i].id < (m \o f)[j].id
  BY <1>1 DEF Rising
<1> HIDE DEF a, b
<1>7. ASSUME NEW i \in 1..(a + b)
      PROVE  i \in 1..a \/ i \in (a + 1)..(a + b)
  BY <1>1
<1>8. ASSUME NEW i \in 1..(a + b)
      PROVE  /\ (m \o f)[i].id \in Nat /\ (m \o f)[i].id <= n + b
             /\ (i \in 1..a /\ (m \o f)[i] = m[i]) \/ (m \o f)[i].id > n
  <2>1. CASE i \in 1..a
    <3>1. (m \o f)[i] = m[i]
      BY <1>2, <2>1
    <3>2. m[i].id \in Nat /\ m[i].id <= n
      BY <1>4, <2>1
    <3>3. \A k \in Nat : k <= n => k <= n + b
      BY <1>1
    <3> QED
      BY <2>1, <3>1, <3>2, <3>3
  <2>2. CASE i \in (a + 1)..(a + b)
    <3>1. (m \o f)[i].id = n + (i - a)
      BY <1>3, <2>2
    <3>2. n + (i - a) \in Nat /\ n + (i - a) <= n + b /\ n + (i - a) > n
      BY <1>1, <2>2
    <3> QED
      BY <3>1, <3>2
  <2> QED
    BY <1>7, <2>1, <2>2
<1>9. ASSUME NEW i \in 1..(a + b), NEW j \in 1..(a + b), i < j
      PROVE  (m \o f)[i].id < (m \o f)[j].id
  <2>1. CASE i \in 1..a /\ j \in 1..a
    <3>1. (m \o f)[i] = m[i] /\ (m \o f)[j] = m[j]
      BY <1>2, <2>1
    <3>2. m[i].id < m[j].id
      BY <1>5, <1>9, <2>1
    <3> QED
      BY <3>1, <3>2
  <2>2. CASE i \in 1..a /\ j \in (a + 1)..(a + b)
    <3>1. (m \o f)[i] = m[i] /\ m[i].id \in Nat /\ m[i].id <= n
      BY <1>2, <1>4, <2>2
    <3>2. (m \o f)[j].id = n + (j - a) /\ j > a
      BY <1>1, <1>3, <2>2
    <3> QED
      BY <1>1, <3>1, <3>2
  <2>3. CASE i \in (a + 1)..(a + b) /\ j \in (a + 1)..(a + b)
    <3>1. (m \o f)[i].id = n + (i - a) /\ (m \o f)[j].id = n + (j - a)
      BY <1>3, <2>3
    <3> QED
      BY <1>1, <1>9, <3>1
  <2>4. ~(i \in (a + 1)..(a + b) /\ j \in 1..a)
    BY <1>1, <1>9
  <2> QED
    BY <1>7, <2>1, <2>2, <2>3, <2>4
<1> QED
  BY <1>1, <1>6, <1>8, <1>9 DEF a, b

\* The directions of a reply are numbered from the counter on.
LEMMA ParsedIds ==
  ASSUME NEW shown, NEW n \in Nat, NEW f \in Parsed(n, shown)
  PROVE  \A i \in 1..Len(f.dirs) : f.dirs[i].id = n + i
<1>1. CASE f.dirs = <<>>
  BY <1>1
<1>2. ASSUME NEW areas \in ListsUpTo(Area, MaxDirections),
             f.dirs = Numbered(n, areas)
      PROVE  \A i \in 1..Len(f.dirs) : f.dirs[i].id = n + i
  <2>1. PICK k \in Nat : areas \in [1..k -> Area]
    BY EditBoundsAssumption DEF ListsUpTo
  <2>2. Len(areas) = k
    BY <2>1, SeqDef
  <2>3. f.dirs = [i \in 1..k |-> Direction(n + i, areas[i])]
    BY <1>2, <2>2 DEF Numbered
  <2>4. Len(f.dirs) = k
    BY <2>3
  <2> QED
    BY <2>3, <2>4 DEF Direction
<1> QED
  BY <1>1, <1>2 DEF Parsed

\* A reply to the task in hand, at one of its sub-areas.
LEMMA IdsAfterReply ==
  ASSUME Base, Ids, pc = "work", NEW f, f.dirs \in Seq(Task),
         \A i \in 1..Len(f.dirs) : f.dirs[i].id = counter + i,
         finding' = Combine(current, finding, f),
         counter' = counter + Len(f.dirs), NextSubArea,
         UNCHANGED <<qvars, current>>
  PROVE  Ids'
<1>t. /\ \A i \in 1..Len(queue) : queue[i].id \in Nat
      /\ \A i \in 1..Len(finding.dirs) : finding.dirs[i].id \in Nat
      /\ current.id \in Nat /\ counter \in Nat
      /\ finding.dirs \in Seq(Task) /\ Len(f.dirs) \in Nat
  BY IdTypes, LenProperties
<1>1. /\ queue' = queue /\ current' = current /\ pc' \in {"work", "record"}
      /\ FirstToCome = 1 /\ FirstToCome' = 1
  BY DEF qvars, NextSubArea, FirstToCome
<1>2. /\ Rising(finding.dirs) /\ current.id <= counter
      /\ \A i \in 1..Len(queue) : queue[i].id <= counter
      /\ \A j \in 1..Len(finding.dirs) :
           /\ finding.dirs[j].id <= counter
           /\ current.id < finding.dirs[j].id
           /\ \A i \in 1..Len(queue) : queue[i].id < finding.dirs[j].id
  BY <1>1 DEF Ids, IdsCounted, DirectionsAhead
<1>3. /\ Rising(finding'.dirs)
      /\ \A j \in 1..Len(finding'.dirs) :
           /\ finding'.dirs[j].id \in Nat /\ finding'.dirs[j].id <= counter'
           /\ \/ j \in 1..Len(finding.dirs) /\ finding'.dirs[j] = finding.dirs[j]
              \/ finding'.dirs[j].id > counter
  <2>1. CASE finding'.dirs = finding.dirs
    BY <1>t, <1>2, <2>1
  <2>2. CASE finding'.dirs = finding.dirs \o f.dirs
    BY <1>t, <1>2, <2>2, RisingConcat
  <2>3. CASE finding'.dirs = f.dirs
    <3>1. ASSUME NEW j \in 1..Len(f.dirs)
          PROVE  /\ f.dirs[j].id \in Nat /\ f.dirs[j].id <= counter'
                 /\ f.dirs[j].id > counter
      <4>1. f.dirs[j].id = counter + j
        OBVIOUS
      <4> QED
        BY <1>t, <4>1
    <3>2. Rising(f.dirs)
      BY <1>t DEF Rising
    <3> QED
      BY <2>3, <3>1, <3>2
  <2> QED
    BY <2>1, <2>2, <2>3 DEF Combine, Merge, Joined
<1>4. IdsCounted'
  <2>1. counter <= counter'
    BY <1>t
  <2>2. current.id <= counter'
    BY <1>t, <1>2, <2>1
  <2>3. \A i \in 1..Len(queue) : queue[i].id <= counter'
    BY <1>t, <1>2, <2>1
  <2> QED
    BY <1>1, <1>3, <2>2, <2>3 DEF IdsCounted
<1>5. DirectionsAhead'
  <2>1. ASSUME NEW j \in 1..Len(finding'.dirs)
        PROVE  /\ current.id < finding'.dirs[j].id
               /\ \A i \in 1..Len(queue) : queue[i].id < finding'.dirs[j].id
    <3>1. CASE j \in 1..Len(finding.dirs) /\ finding'.dirs[j] = finding.dirs[j]
      BY <1>2, <3>1
    <3>2. CASE finding'.dirs[j].id > counter
      <4>1. finding'.dirs[j].id \in Nat
        BY <1>3
      <4>2. ASSUME NEW k \in Nat, k <= counter
            PROVE  k < finding'.dirs[j].id
        BY <1>t, <3>2, <4>1, <4>2
      <4>3. current.id < finding'.dirs[j].id
        BY <1>t, <1>2, <4>2
      <4>4. \A i \in 1..Len(queue) : queue[i].id < finding'.dirs[j].id
        BY <1>t, <1>2, <4>2
      <4> QED
        BY <4>3, <4>4
    <3> QED
      BY <1>3, <3>1, <3>2
  <2> QED
    BY <1>1, <1>3, <2>1 DEF DirectionsAhead
<1>6. NothingYet' /\ UniqueIds'
  BY <1>1 DEF Ids, NothingYet, UniqueIds
<1> QED
  BY <1>4, <1>5, <1>6 DEF Ids

\* The seed is pushed on the empty queue.
LEMMA IdsAfterSeed ==
  ASSUME Base, Ids, NEW c \in CandidateLists, PushSeed(c)
  PROVE  Ids'
<1>1. /\ queue = <<>> /\ finding = NoChange /\ finding' = NoChange
      /\ current' = current /\ counter' = counter /\ pc' = "loop"
  BY DEF PushSeed, locals, Ids, NothingYet
<1>2. counter \in Nat /\ current.id <= counter
  BY IdTypes DEF Ids, IdsCounted
<1>3. /\ \A i \in 1..Len(queue') : queue'[i].id = 0
      /\ \A i, j \in 1..Len(queue') : i = j
  <2>1. queue' = <<>> \/ queue' = <<Seed(c)>>
    BY <1>1 DEF PushSeed, Push, Accept, Refuse, qvars
  <2>2. Seed(c).id = 0
    BY DEF Seed, SeedId
  <2>3. ASSUME NEW s, s.id = 0, queue' = <<s>>
        PROVE  /\ \A i \in 1..Len(queue') : queue'[i].id = 0
               /\ \A i, j \in 1..Len(queue') : i = j
    BY <2>3
  <2>4. CASE queue' = <<>>
    BY <2>4
  <2> QED
    BY <2>1, <2>2, <2>3, <2>4
<1>4. NoChange.dirs = <<>>
  BY DEF NoChange
<1> QED
  BY <1>1, <1>2, <1>3, <1>4 DEF Ids, IdsCounted, DirectionsAhead, Rising,
     NothingYet, UniqueIds

\* The task taken up is one of the queue, and has no directions yet.
LEMMA IdsAfterStart ==
  ASSUME Base, Ids, StartTask
  PROVE  Ids'
<1>1. /\ queue # <<>> /\ queue' = Tail(queue) /\ current' = Head(queue)
      /\ finding' = NoChange /\ counter' = counter /\ pc' = "work"
  BY DEF StartTask, LoopMayRun, Pop, Ids, NothingYet
<1>2. queue \in Seq(Task) /\ Len(queue) \in Nat /\ Len(queue) > 0
  BY <1>1, IdTypes, EmptySeq, LenProperties
<1>3. /\ Head(queue) = queue[1] /\ Len(Tail(queue)) = Len(queue) - 1
      /\ \A i \in 1..Len(queue) - 1 : Tail(queue)[i] = queue[i + 1]
  BY <1>1, <1>2
<1>4. \A i \in 1..Len(queue) - 1 :
        i + 1 \in 1..Len(queue) /\ 1 \in 1..Len(queue) /\ i + 1 # 1
  BY <1>2
<1>5. 1 \in 1..Len(queue)
  BY <1>2
<1>6. NoChange.dirs = <<>>
  BY DEF NoChange
<1>7. IdsCounted'
  BY <1>1, <1>3, <1>4, <1>5, <1>6 DEF Ids, IdsCounted
<1>8. UniqueIds'
  <2>1. ASSUME NEW i \in 1..Len(queue) - 1, NEW j \in 1..Len(queue) - 1,
               queue[i + 1].id = queue[j + 1].id
        PROVE  i = j
    <3>1. i + 1 = j + 1
      BY <1>4, <2>1 DEF Ids, UniqueIds
    <3> QED
      BY <1>2, <3>1
  <2>2. ASSUME NEW i \in 1..Len(queue) - 1
        PROVE  queue[i + 1].id # queue[1].id
    BY <1>4, <2>2 DEF Ids, UniqueIds
  <2> QED
    BY <1>1, <1>3, <2>1, <2>2 DEF UniqueIds
<1> QED
  BY <1>1, <1>6, <1>7, <1>8 DEF Ids, DirectionsAhead, Rising, NothingYet

\* A direction that is queued comes behind all ids of the queue, and those
\* still to come are larger.
LEMMA IdsAfterDispatch ==
  ASSUME Base, Ids, Dispatch
  PROVE  Ids'
<1> DEFINE d == finding.dirs[next]
<1>t. /\ \A i \in 1..Len(queue) : queue[i].id \in Nat
      /\ \A i \in 1..Len(finding.dirs) : finding.dirs[i].id \in Nat
      /\ current.id \in Nat /\ counter \in Nat
      /\ queue \in Seq(Task) /\ Len(finding.dirs) \in Nat /\ Len(queue) \in Nat
  BY IdTypes
<1>1. /\ pc = "dispatch" /\ Push(Child(d)) /\ counter' = counter
      /\ FirstToCome = next
  BY DEF Dispatch, FirstToCome
<1>2. next \in 1..Len(finding.dirs) /\ next \in Nat
  <2>1. next \in Nat \ {0} /\ next <= Len(finding.dirs)
    BY <1>1 DEF Base, TypeOK, Positions
  <2> QED
    BY <1>t, <2>1
<1>3. /\ Child(d).id = d.id /\ Child(d) \in Task
  <2>1. finding.dirs \in Seq(Task)
    BY IdTypes
  <2>2. d \in Task
    BY <1>2, <2>1
  <2> QED
    BY <2>2, ChildType DEF Base, TypeOK, Child, Task
<1>4. /\ Rising(finding.dirs) /\ current.id <= counter
      /\ \A i \in 1..Len(queue) :
           queue[i].id <= counter /\ queue[i].id # current.id
      /\ \A i, j \in 1..Len(queue) : queue[i].id = queue[j].id => i = j
      /\ \A j \in 1..Len(finding.dirs) :
           /\ finding.dirs[j].id <= counter /\ current.id < finding.dirs[j].id
           /\ j >= next =>
                \A i \in 1..Len(queue) : queue[i].id < finding.dirs[j].id
  BY <1>1 DEF Ids, IdsCounted, DirectionsAhead, UniqueIds
<1>5. d.id \in Nat /\ d.id <= counter /\ current.id < d.id
  BY <1>t, <1>2, <1>4
<1>6. \A i \in 1..Len(queue) : queue[i].id < d.id
  BY <1>2, <1>4
<1>7. /\ Len(queue') \in Nat
      /\ \A i \in 1..Len(queue') :
           \/ i \in 1..Len(queue) /\ queue'[i] = queue[i]
           \/ i = Len(queue) + 1 /\ queue'[i].id = d.id
  <2>1. CASE queue' = queue
    BY <1>t, <2>1
  <2>2. CASE queue' = Append(queue, Child(d))
    <3>1. Len(queue') = Len(queue) + 1
      BY <1>t, <1>3, <2>2
    <3>2. \A i \in 1..Len(queue) : queue'[i] = queue[i]
      BY <1>t, <1>3, <2>2
    <3>3. queue'[Len(queue) + 1].id = d.id
      BY <1>t, <1>3, <2>2
    <3> QED
      BY <1>t, <3>1, <3>2, <3>3
  <2> QED
    BY <1>1, <2>1, <2>2 DEF Push, Accept, Refuse, qvars
<1>8. \A i \in 1..Len(queue') :
        /\ queue'[i].id \in Nat /\ queue'[i].id <= counter
        /\ queue'[i].id # current.id /\ queue'[i].id <= d.id
  <2> SUFFICES ASSUME NEW i \in 1..Len(queue')
               PROVE  /\ queue'[i].id \in Nat /\ queue'[i].id <= counter
                      /\ queue'[i].id # current.id /\ queue'[i].id <= d.id
    OBVIOUS
  <2> HIDE DEF d
  <2>1. CASE i \in 1..Len(queue) /\ queue'[i] = queue[i]
    <3>1. queue[i].id \in Nat /\ queue[i].id < d.id
      BY <1>t, <1>6, <2>1
    <3>2. queue[i].id <= counter /\ queue[i].id # current.id
      BY <1>4, <2>1
    <3> QED
      BY <1>5, <2>1, <3>1, <3>2
  <2>2. CASE queue'[i].id = d.id
    BY <1>t, <1>5, <2>2
  <2> QED
    BY <1>7, <2>1, <2>2
<1> HIDE DEF d
<1>9. \A i, j \in 1..Len(queue') : queue'[i].id = queue'[j].id => i = j
  <2> SUFFICES ASSUME NEW i \in 1..Len(queue'), NEW j \in 1..Len(queue'),
                      queue'[i].id = queue'[j].id
               PROVE  i = j
    OBVIOUS
  <2>1. ASSUME NEW k \in 1..Len(queue')
        PROVE  \/ /\ k \in 1..Len(queue) /\ queue'[k].id = queue[k].id
                  /\ queue'[k].id # d.id
               \/ k = Len(queue) + 1 /\ queue'[k].id = d.id
    <3>1. CASE k \in 1..Len(queue) /\ queue'[k] = queue[k]
      BY <1>t, <1>5, <1>6, <3>1
    <3> QED
      BY <1>7, <3>1
  <2>2. CASE i \in 1..Len(queue) /\ j \in 1..Len(queue)
    <3>1. \A k \in 1..Len(queue) : k # Len(queue) + 1
      BY <1>t
    <3>2. queue[i].id = queue[j].id
      BY <2>1, <2>2, <3>1
    <3> QED
      BY <1>4, <2>2, <3>2
  <2> QED
    BY <2>1, <2>2
<1>10. CASE LastDirection
  <2>1. /\ pc' = "loop" /\ finding' = NoChange /\ current'.id = 0
    BY <1>10 DEF Dispatch, ClearLocals, NoTask, Direction, SeedId
  <2>2. NoChange.dirs = <<>>
    BY DEF NoChange
  <2> QED
    BY <1>t, <1>1, <1>8, <1>9, <2>1, <2>2 DEF Ids, IdsCounted,
       DirectionsAhead, Rising, NothingYet, UniqueIds
<1>11. CASE ~LastDirection
  <2>1. /\ pc' = "dispatch" /\ finding' = finding /\ current' = current
        /\ FirstToCome' = next + 1
    BY <1>1, <1>11 DEF Dispatch, NextDirection, FirstToCome
  <2>2. ASSUME NEW j \in 1..Len(finding.dirs), j >= next + 1
        PROVE  \A i \in 1..Len(queue') : queue'[i].id < finding.dirs[j].id
    <3>1. d.id < finding.dirs[j].id
      BY <1>2, <1>4, <2>2 DEF Rising, d
    <3> QED
      BY <1>t, <1>5, <1>8, <3>1
  <2> QED
    BY <1>1, <1>4, <1>8, <1>9, <2>1, <2>2 DEF Ids, IdsCounted,
       DirectionsAhead, NothingYet, UniqueIds
<1> QED
  BY <1>10, <1>11

LEMMA IdsStep == Base /\ Ids /\ [Next]_vars => Ids'
<1> SUFFICES ASSUME Base, Ids, [Next]_vars
             PROVE  Ids'
  OBVIOUS
<1>1. ASSUME UNCHANGED <<queue, current, finding, next, counter>>,
             pc' = pc \/ pc' \in {"done", "aborted"}
      PROVE  Ids'
  BY <1>1 DEF Ids, IdsCounted, DirectionsAhead, Rising, FirstToCome,
     NothingYet, UniqueIds
<1>2. ASSUME pc \in {"work", "record", "apply"}, pc' = "apply",
             UNCHANGED <<queue, current, finding, counter>>
      PROVE  Ids'
  BY <1>2 DEF Ids, IdsCounted, DirectionsAhead, Rising, FirstToCome,
     NothingYet, UniqueIds
<1>3. ASSUME pc \in {"record", "apply"}, Follow, UNCHANGED <<queue, counter>>
      PROVE  Ids'
  <2>1. CASE pc' = "dispatch" /\ next' = 1 /\ UNCHANGED <<current, finding>>
    BY <1>3, <2>1 DEF Ids, IdsCounted, DirectionsAhead, Rising, FirstToCome,
       NothingYet, UniqueIds
  <2>2. CASE pc' = "loop" /\ ClearLocals
    <3>1. finding' = NoChange /\ current'.id = 0 /\ counter \in Nat
      BY <2>2, IdTypes DEF ClearLocals, NoTask, Direction, SeedId
    <3>2. NoChange.dirs = <<>>
      BY DEF NoChange
    <3> QED
      BY <1>3, <2>2, <3>1, <3>2 DEF Ids, IdsCounted, DirectionsAhead, Rising,
         NothingYet, UniqueIds
  <2> QED
    BY <1>3, <2>1, <2>2 DEF Follow
<1>4. CASE NoTarget \/ QueueDrained \/ IterationsReached \/ ClockExhausted
  BY <1>1, <1>4 DEF NoTarget, QueueDrained, IterationsReached,
     ClockExhausted, Return, qvars, locals
<1>5. CASE NoReply
  <2>1. NoChange.dirs = <<>> /\ counter \in Nat
    BY IdTypes DEF NoChange
  <2>2. /\ NoChange.dirs \in Seq(Task) /\ Len(NoChange.dirs) = 0
        /\ \A i \in 1..Len(NoChange.dirs) :
             NoChange.dirs[i].id = counter + i
    BY <2>1, EmptySeq
  <2>3. counter' = counter + Len(NoChange.dirs)
    BY <1>5, <2>1, <2>2 DEF NoReply
  <2> QED
    BY <1>5, <2>2, <2>3, IdsAfterReply DEF NoReply
<1>6. ASSUME NEW shown \in Shown, Abort(shown)
      PROVE  Ids'
  BY <1>1, <1>6 DEF Abort, Unwind, qvars, locals
<1>7. ASSUME NEW shown \in Shown, NEW f \in Parsed(counter, shown),
             Investigate(shown, f)
      PROVE  Ids'
  <2>1. counter \in Nat /\ disk \in [Path -> FileState]
    BY DEF Base, TypeOK, PTypeOK, FileState
  <2>2. f \in EditFinding
    BY <2>1, ParsedType DEF Shown, FilesAt
  <2>3. f.dirs \in Seq(Task)
    BY <2>2 DEF EditFinding
  <2>4. \A i \in 1..Len(f.dirs) : f.dirs[i].id = counter + i
    BY <2>1, ParsedIds
  <2> QED
    BY <1>7, <2>3, <2>4, IdsAfterReply DEF Investigate
<1>8. CASE Record
  BY <1>2, <1>3, <1>8 DEF Record, MarkVisited, locals
<1>9. CASE WriteNext
  BY <1>2, <1>3, <1>9 DEF WriteNext, qvars
<1>10. CASE AbortApply
  BY <1>1, <1>10 DEF AbortApply, Unwind, qvars, locals
<1>11. CASE UNCHANGED vars
  BY <1>1, <1>11 DEF vars, qvars, locals
<1> QED
  BY <1>4, <1>5, <1>6, <1>7, <1>8, <1>9, <1>10, <1>11, IdsAfterSeed,
     IdsAfterStart, IdsAfterDispatch DEF Next, Over

\* In the edit loop too, a task is alone with its id, in hand and on the
\* queue, however many replies and sub-areas have been numbered (Editor.cpp:
\* 134-143, EditEngine.cpp:234-249).
THEOREM EditIdsAreUnique == Spec => []UniqueIds
<1>1. Init => Ids
  <2> SUFFICES ASSUME Init
               PROVE  Ids
    OBVIOUS
  <2>1. /\ queue = <<>> /\ finding = NoChange /\ current.id = 0
        /\ counter = 0 /\ pc = "start"
    BY DEF Init, QInit, NoTask, Direction, SeedId
  <2>2. NoChange.dirs = <<>>
    BY DEF NoChange
  <2> QED
    BY <2>1, <2>2 DEF Ids, IdsCounted, DirectionsAhead, Rising, NothingYet,
       UniqueIds
<1>2. Ids => UniqueIds
  BY DEF Ids
<1> QED
  BY <1>1, <1>2, IdsStep, BaseInvariant, PTL DEF Spec

-----------------------------------------------------------------------------
\* While Execute works it stands at one of the task's sub-areas.
AtSubArea ==
  /\ pc \notin {"work", "aborted"} => sub = 1
  /\ pc = "work" => sub <= Len(SubAreas(current))

LEMMA SubAreasCount ==
  ASSUME NEW t \in Task
  PROVE  Len(SubAreas(t)) \in Nat \ {0}
<1>1. CASE Repeatable(t)
  <2>1. t.targets \in Seq(Area) /\ t.targets # <<>>
    BY <1>1 DEF Repeatable, Task
  <2> QED
    BY <1>1, <2>1, EmptySeq DEF SubAreas
<1>2. CASE ~Repeatable(t)
  BY <1>2 DEF SubAreas
<1> QED
  BY <1>1, <1>2

LEMMA AtSubAreaStep == Base /\ AtSubArea /\ [Next]_vars => AtSubArea'
<1> SUFFICES ASSUME Base, AtSubArea, [Next]_vars
             PROVE  AtSubArea'
  OBVIOUS
<1>1. ASSUME pc' = "aborted" \/ (pc' # "work" /\ sub' = 1)
      PROVE  AtSubArea'
  BY <1>1 DEF AtSubArea
<1>2. CASE NoTarget \/ QueueDrained \/ IterationsReached \/ ClockExhausted
  BY <1>1, <1>2 DEF NoTarget, QueueDrained, IterationsReached,
     ClockExhausted, Return, locals, AtSubArea
<1>3. CASE \E c \in CandidateLists : PushSeed(c)
  BY <1>1, <1>3 DEF PushSeed, locals, AtSubArea
<1>4. CASE StartTask
  <2>1. current' \in Task
    <3>1. Base'
      BY BaseStep
    <3> QED
      BY <3>1 DEF Base, TypeOK
  <2>2. Len(SubAreas(current')) \in Nat \ {0}
    BY <2>1, SubAreasCount
  <2>3. pc' = "work" /\ sub' = 1
    BY <1>4 DEF StartTask, LoopMayRun, AtSubArea
  <2>4. sub' <= Len(SubAreas(current'))
    BY <2>2, <2>3
  <2> QED
    BY <2>3, <2>4 DEF AtSubArea
<1>5. ASSUME NextSubArea, pc = "work", current' = current
      PROVE  AtSubArea'
  <2>1. sub \in Nat /\ Len(SubAreas(current)) \in Nat
        /\ sub <= Len(SubAreas(current))
    BY <1>5, SubAreasCount DEF Base, TypeOK, AtSubArea
  <2>2. CASE sub = Len(SubAreas(current))
    BY <1>1, <1>5, <2>2 DEF NextSubArea
  <2>3. CASE sub # Len(SubAreas(current))
    <3>1. pc' = "work" /\ sub' = sub + 1
      BY <1>5, <2>3 DEF NextSubArea
    <3>2. sub + 1 <= Len(SubAreas(current))
      BY <2>1, <2>3
    <3>3. SubAreas(current') = SubAreas(current)
      BY <1>5
    <3> QED
      BY <3>1, <3>2, <3>3 DEF AtSubArea
  <2> QED
    BY <2>2, <2>3
<1>6. CASE NoReply
  BY <1>5, <1>6 DEF NoReply
<1>7. ASSUME NEW shown \in Shown,
             Abort(shown) \/ \E f \in Parsed(counter, shown) :
                               Investigate(shown, f)
      PROVE  AtSubArea'
  BY <1>1, <1>5, <1>7 DEF Abort, Unwind, Investigate
<1>8. CASE Record \/ WriteNext
  BY <1>1, <1>8 DEF Record, WriteNext, Follow, ClearLocals, locals, AtSubArea
<1>9. CASE AbortApply
  BY <1>1, <1>9 DEF AbortApply, Unwind
<1>10. CASE Dispatch
  BY <1>1, <1>10 DEF Dispatch, ClearLocals, AtSubArea
<1>11. CASE UNCHANGED vars
  BY <1>11 DEF vars, locals, AtSubArea
<1> QED
  BY <1>2, <1>3, <1>4, <1>6, <1>7, <1>8, <1>9, <1>10, <1>11 DEF Next, Over

LEMMA TurnsAreNatural == Base /\ AtSubArea => TurnsLeft \in Nat
<1> SUFFICES ASSUME Base, AtSubArea
             PROVE  TurnsLeft \in Nat
  OBVIOUS
<1>1. /\ sub \in Nat /\ next \in Nat /\ Len(SubAreas(current)) \in Nat
      /\ Len(finding.edits) \in Nat /\ Len(finding.dirs) \in Nat
  BY SubAreasCount, FindingParts DEF Base, TypeOK
<1>2. CASE pc = "work"
  <2>1. Len(SubAreas(current)) - sub \in Nat
    BY <1>1, <1>2 DEF AtSubArea
  <2> QED
    BY <1>2, <2>1 DEF TurnsLeft
<1>3. CASE pc = "apply"
  <2>1. Len(finding.edits) - next \in Nat
    BY <1>1, <1>3 DEF Base, Positions
  <2> QED
    BY <1>3, <2>1 DEF TurnsLeft
<1>4. CASE pc = "dispatch"
  <2>1. Len(finding.dirs) - next \in Nat
    BY <1>1, <1>4 DEF Base, Positions
  <2> QED
    BY <1>4, <2>1 DEF TurnsLeft
<1>5. CASE pc \notin {"work", "apply", "dispatch"}
  BY <1>5 DEF TurnsLeft
<1> QED
  BY <1>2, <1>3, <1>4, <1>5

\* A turn of one of the three inner loops that is not the last.
LEMMA TurnTaken ==
  ASSUME Base, iterations' = iterations, pc' = pc,
         \/ /\ pc = "work" /\ sub' = sub + 1 /\ current' = current
         \/ /\ pc \in {"apply", "dispatch"} /\ next' = next + 1
            /\ finding' = finding
  PROVE  /\ IterationsLeft' = IterationsLeft
         /\ StagesLeft' = StagesLeft /\ TurnsLeft' < TurnsLeft
<1>1. IterationsLeft' = IterationsLeft /\ StagesLeft' = StagesLeft
  BY DEF IterationsLeft, StagesLeft
<1>2. /\ sub \in Nat /\ next \in Nat /\ Len(SubAreas(current)) \in Nat
      /\ Len(finding.edits) \in Nat /\ Len(finding.dirs) \in Nat
  BY SubAreasCount, FindingParts DEF Base, TypeOK
<1>3. CASE pc = "work"
  <2>1. SubAreas(current') = SubAreas(current)
    BY <1>3
  <2>2. /\ TurnsLeft = Len(SubAreas(current)) - sub
        /\ TurnsLeft' = Len(SubAreas(current)) - (sub + 1)
    BY <1>3, <2>1 DEF TurnsLeft
  <2> QED
    BY <1>1, <1>2, <2>2
<1>4. CASE pc = "apply"
  <2>1. /\ TurnsLeft = Len(finding.edits) - next
        /\ TurnsLeft' = Len(finding.edits) - (next + 1)
    BY <1>4 DEF TurnsLeft
  <2> QED
    BY <1>1, <1>2, <2>1
<1>5. CASE pc = "dispatch"
  <2>1. /\ TurnsLeft = Len(finding.dirs) - next
        /\ TurnsLeft' = Len(finding.dirs) - (next + 1)
    BY <1>5 DEF TurnsLeft
  <2> QED
    BY <1>1, <1>2, <2>1
<1> QED
  BY <1>3, <1>4, <1>5

LEMMA NearerStep == Base /\ InHand /\ AtSubArea /\ [Next]_vars => [Nearer]_vars
<1> SUFFICES ASSUME Base, InHand, AtSubArea, [Next]_vars
             PROVE  [Nearer]_vars
  OBVIOUS
<1>1. TurnsLeft' \in Nat
  <2>1. Base' /\ AtSubArea'
    BY BaseStep, AtSubAreaStep
  <2>2. (TurnsLeft \in Nat)'
    BY <2>1, TurnsAreNatural, PTL
  <2> QED
    BY <2>2
<1>2. ASSUME iterations' = iterations, StagesLeft' < StagesLeft
      PROVE  Nearer
  BY <1>1, <1>2 DEF Nearer, IterationsLeft
<1>3. ASSUME iterations' = iterations, pc' = pc,
             \/ /\ pc = "work" /\ sub' = sub + 1 /\ current' = current
             \/ /\ pc \in {"apply", "dispatch"} /\ next' = next + 1
                /\ finding' = finding
      PROVE  Nearer
  BY <1>1, <1>3, TurnTaken DEF Nearer
<1>4. CASE \/ NoTarget \/ QueueDrained \/ IterationsReached \/ ClockExhausted
           \/ StartTask \/ AbortApply
           \/ \E c \in CandidateLists : PushSeed(c)
           \/ \E shown \in Shown : Abort(shown)
  <2>1. /\ iterations' = iterations
        /\ \/ pc = "start" /\ pc' \in {"done", "loop"}
           \/ pc = "loop" /\ pc' \in {"done", "work"}
           \/ pc \in {"work", "apply"} /\ pc' = "aborted"
    BY <1>4 DEF NoTarget, QueueDrained, IterationsReached, ClockExhausted,
       Return, StartTask, LoopMayRun, AbortApply, PushSeed, Abort, Unwind
  <2>2. StagesLeft' < StagesLeft
    BY <2>1 DEF StagesLeft
  <2> QED
    BY <1>2, <2>1, <2>2
<1>5. CASE NoReply \/ \E shown \in Shown : \E f \in Parsed(counter, shown) :
                        Investigate(shown, f)
  <2>1. /\ pc = "work" /\ NextSubArea /\ UNCHANGED <<current, iterations>>
    BY <1>5 DEF NoReply, Investigate
  <2>2. CASE pc' = "record"
    <3>1. StagesLeft' < StagesLeft
      BY <2>1, <2>2 DEF StagesLeft
    <3> QED
      BY <1>2, <2>1, <3>1
  <2>3. CASE pc' = pc /\ sub' = sub + 1
    BY <1>3, <2>1, <2>3
  <2> QED
    BY <2>1, <2>2, <2>3 DEF NextSubArea
<1>6. CASE Record
  <2>1. pc = "record" /\ iterations' = iterations + 1
    BY <1>6 DEF Record
  <2>2. iterations \in Nat /\ MaxIterations \in Int /\ iterations < MaxIterations
    BY <2>1, EditEngineAssumption DEF Base, TypeOK, InHand
  <2>3. IterationsLeft' < IterationsLeft
    BY <2>1, <2>2 DEF IterationsLeft
  <2> QED
    BY <1>1, <2>3 DEF Nearer
<1>7. CASE WriteNext
  <2>1. pc = "apply" /\ iterations' = iterations
    BY <1>7 DEF WriteNext
  <2>2. CASE LastEdit
    <3>1. pc' \in {"dispatch", "loop"}
      BY <1>7, <2>2 DEF WriteNext, Follow
    <3>2. StagesLeft' < StagesLeft
      BY <2>1, <3>1 DEF StagesLeft
    <3> QED
      BY <1>2, <2>1, <3>2
  <2>3. CASE ~LastEdit
    BY <1>3, <1>7, <2>1, <2>3 DEF WriteNext
  <2> QED
    BY <2>2, <2>3
<1>8. CASE Dispatch
  <2>1. pc = "dispatch" /\ iterations' = iterations
    BY <1>8 DEF Dispatch
  <2>2. CASE LastDirection
    <3>1. pc' = "loop"
      BY <1>8, <2>2 DEF Dispatch
    <3>2. StagesLeft' < StagesLeft
      BY <2>1, <3>1 DEF StagesLeft
    <3> QED
      BY <1>2, <2>1, <3>2
  <2>3. CASE ~LastDirection
    BY <1>3, <1>8, <2>1, <2>3 DEF Dispatch, NextDirection
  <2> QED
    BY <2>2, <2>3
<1> QED
  BY <1>4, <1>5, <1>6, <1>7, <1>8 DEF Next, Over

\* Every step of a run counts it down, so that a run has only finitely many,
\* whatever the model proposes and the disk refuses: the part of Terminates
\* that needs no fairness (EditEngine.cpp:162-251).
THEOREM EditRunAdvances == Spec => Advances
<1>1. Init => AtSubArea /\ InHand
  <2> SUFFICES ASSUME Init
               PROVE  AtSubArea /\ InHand
    OBVIOUS
  <2>1. /\ visited = {} /\ queuedAreas = {} /\ pc = "start" /\ sub = 1
    BY DEF Init, QInit
  <2> QED
    BY <2>1 DEF AtSubArea, InHand
<1> QED
  BY <1>1, AtSubAreaStep, InHandStep, NearerStep, BaseInvariant, PTL
  DEF Spec, Advances

-----------------------------------------------------------------------------
AllWhole == \A p \in Path : disk[p].text = "whole"

Survives == pc # "aborted"

\* Files that were whole are whole after an edit, if writes cannot fail.
LEMMA ApplyEditAllWhole ==
  ASSUME Faults \subseteq {"open"}, PTypeOK, AllWhole, NEW p, ApplyEdit(p)
  PROVE  AllWhole'
<1>1. CASE Reject(p) \/ FailToOpen(p)
  BY <1>1 DEF Reject, FailToOpen, AllWhole
<1>2. ~FailToWrite(p) /\ ~FailToFlush(p)
  BY DEF FailToWrite, FailToFlush
<1>3. CASE Write(p)
  <2>1. p \in Path /\ Overwrite(p, "whole")
    BY <1>3 DEF Write
  <2>2. disk \in [Path -> FileState]
    BY DEF PTypeOK, FileState
  <2>3. /\ disk'[p].text = "whole"
        /\ \A q \in Path : q # p => disk'[q] = disk[q]
    BY <2>1, <2>2, OverwriteOne DEF TextState
  <2> QED
    BY <2>3 DEF AllWhole
<1> QED
  BY <1>1, <1>2, <1>3 DEF ApplyEdit

\* Of the two ways the model has to abort a run, text that is not UTF-8 and a
\* path that cannot be resolved, the first may come from the run's own writes:
\* not while files are whole at first and a disk only refuses to open them
\* (OllamaClient.cpp:20-30, PatchApplier.cpp:13-25, 64-69).
THEOREM EditRunSurvives ==
  ASSUME Garbled = {}, Faults \subseteq {"open"}
  PROVE  Spec => []Survives
<1>1. Init => AllWhole /\ Survives
  <2> SUFFICES ASSUME Init
               PROVE  AllWhole /\ Survives
    OBVIOUS
  <2>1. disk = Original /\ pc = "start"
    BY DEF Init, PInit
  <2>2. \A p \in Path : Original[p].text = "whole"
    BY DEF Original
  <2> QED
    BY <2>1, <2>2 DEF AllWhole, Survives
<1>2. Base /\ AllWhole /\ Survives /\ [Next]_vars => AllWhole' /\ Survives'
  <2> SUFFICES ASSUME Base, AllWhole, pc # "aborted", [Next]_vars
               PROVE  AllWhole' /\ pc' # "aborted"
    BY DEF Survives
  <2>1. ASSUME UNCHANGED pvars
        PROVE  AllWhole'
    BY <2>1 DEF pvars, AllWhole
  <2>2. CASE NoTarget \/ QueueDrained \/ IterationsReached \/ ClockExhausted
    BY <2>1, <2>2
    DEF NoTarget, QueueDrained, IterationsReached, ClockExhausted, Return
  <2>3. CASE StartTask \/ NoReply \/ Record \/ Dispatch
    BY <2>1, <2>3 DEF StartTask, NoReply, NextSubArea, Record, Follow, Dispatch
  <2>4. CASE \E c \in CandidateLists : PushSeed(c)
    BY <2>1, <2>4 DEF PushSeed
  <2>5. ASSUME NEW shown \in Shown, NEW f, Investigate(shown, f)
        PROVE  AllWhole' /\ pc' # "aborted"
    BY <2>1, <2>5 DEF Investigate, NextSubArea
  <2>6. ASSUME NEW shown \in Shown, Abort(shown)
        PROVE  FALSE
    BY <2>6 DEF Abort, Shown, FilesAt, MayGarble, Garbles, AllWhole
  <2>7. CASE WriteNext
    <3>1. AllWhole'
      BY <2>7, ApplyEditAllWhole DEF WriteNext, Base, TypeOK
    <3>2. pc' # "aborted"
      BY <2>7 DEF WriteNext, Follow
    <3> QED
      BY <3>1, <3>2
  <2>8. ~AbortApply
    BY DEF AbortApply
  <2>9. CASE UNCHANGED vars
    BY <2>1, <2>9 DEF vars
  <2> QED
    BY <2>2, <2>3, <2>4, <2>5, <2>6, <2>7, <2>8, <2>9 DEF Next, Over
<1> QED
  BY <1>1, <1>2, BaseInvariant, PTL DEF Spec
==============================================================================
