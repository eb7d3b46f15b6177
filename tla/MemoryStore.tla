----------------------------- MODULE MemoryStore -----------------------------
(***************************************************************************)
(* The list of remembered facts and the file it is kept in                 *)
(* (src/MemoryStore.cpp).  Every method takes the mutex; saving is cut     *)
(* where the file is truncated and where it is written, as the process may *)
(* end in between.  Of a text only its words, its case and whether it has  *)
(* blanks around it are kept.                                              *)
(***************************************************************************)
EXTENDS Integers, Sequences

CONSTANTS
  Thread,     \* the threads that may call the store
  NoThread,
  Word,       \* what texts say, up to the case of ASCII letters
  Blank,      \* of a text with nothing but blanks
  Kept,       \* the lists an earlier run may have left in the file
  Faults      \* what the file system may fail at

ASSUME StoreAssumption ==
  /\ NoThread \notin Thread
  /\ Blank \in Word
  /\ Faults \subseteq {"open", "write"}

Text == [word : Word, upper : BOOLEAN, padded : BOOLEAN]

Trim(t) == [t EXCEPT !.padded = FALSE]

\* Byte by byte: ASCII letters are folded and no others, so that texts which
\* differ in the case of another letter are different words.
ToLower(t) == [t EXCEPT !.upper = FALSE]

WordsOf(s) == {s[i].word : i \in 1..Len(s)}

\* The lists the store itself keeps: trimmed, and distinct up to the case
\* of ASCII letters.
Tidy(s) ==
  /\ \A i \in 1..Len(s) : ~s[i].padded /\ s[i].word # Blank
  /\ \A i, j \in 1..Len(s) : s[i].word = s[j].word => i = j

ASSUME KeptAssumption == Kept \subseteq {s \in Seq(Text) : Tidy(s)}

VARIABLES
  facts,      \* facts_
  file,       \* the file at path_
  lock,       \* who holds mutex_
  unsaved     \* history: a save has failed since the last that worked

mvars == <<facts, file, lock, unsaved>>

Missing == [state |-> "missing", facts |-> <<>>]
Torn == [state |-> "torn", facts |-> <<>>]     \* empty, or cut: no JSON
Whole(s) == [state |-> "whole", facts |-> s]

\* Load: what is no JSON is taken for an empty list.
Load ==
  /\ facts' = file.facts
  /\ unsaved' = (file.state = "torn")
  /\ UNCHANGED file

MInit ==
  /\ file \in {Missing, Torn} \cup {Whole(s) : s \in Kept}
  /\ facts = file.facts
  /\ lock = NoThread
  /\ unsaved = (file.state = "torn")

-----------------------------------------------------------------------------
\* Slips: no mutex; the case is heeded; the argument is not trimmed.
FreeAlways == TRUE

Free == lock = NoThread

SameExactly(existing, t) == existing = Trim(t)

SameUntrimmed(existing, t) == ToLower(existing) = ToLower(t)

Same(existing, t) == ToLower(existing) = ToLower(Trim(t))

Matches(t) == {i \in 1..Len(facts) : Same(facts[i], t)}

\* Slip: all facts from the match on are erased.
WithoutRest(s, i) == SubSeq(s, 1, i - 1)

Without(s, i) == SubSeq(s, 1, i - 1) \o SubSeq(s, i + 1, Len(s))

\* AddFact up to the save, of a fact that is new.
Remember(t, f) ==
  /\ Free
  /\ f.word # Blank
  /\ Matches(f) = {}
  /\ facts' = Append(facts, Trim(f))
  /\ lock' = t
  /\ UNCHANGED <<file, unsaved>>

\* AddFact of a blank fact, which is dropped before the mutex is taken, or of
\* one that is known.
PassOver(f) ==
  /\ f.word = Blank \/ (Free /\ Matches(f) # {})
  /\ UNCHANGED mvars

\* RemoveFact up to the save: the first fact that matches.
Forget(t, f) ==
  /\ Free
  /\ f.word # Blank
  /\ \E i \in Matches(f) :
       /\ \A j \in Matches(f) : i <= j
       /\ facts' = Without(facts, i)
  /\ lock' = t
  /\ UNCHANGED <<file, unsaved>>

NotFound(f) ==
  /\ f.word = Blank \/ (Free /\ Matches(f) = {})
  /\ UNCHANGED mvars

-----------------------------------------------------------------------------
\* Slip: the return on an error leaves the mutex taken.
FailLocked ==
  /\ "open" \in Faults
  /\ unsaved' = TRUE
  /\ UNCHANGED <<facts, file, lock>>

\* SaveLocked.  The directory cannot be made, or the file not be opened.
FailToOpen ==
  /\ "open" \in Faults
  /\ lock' = NoThread
  /\ unsaved' = TRUE
  /\ UNCHANGED <<facts, file>>

\* Slip: the mutex is let go before the list is written.
TruncateUnlocked ==
  /\ file' = Torn
  /\ lock' = NoThread
  /\ UNCHANGED <<facts, unsaved>>

Truncate ==
  /\ file' = Torn
  /\ UNCHANGED <<facts, lock, unsaved>>

FailToWrite ==
  /\ "write" \in Faults
  /\ lock' = NoThread
  /\ unsaved' = TRUE
  /\ UNCHANGED <<facts, file>>

Write ==
  /\ file' = Whole(facts)
  /\ lock' = NoThread
  /\ unsaved' = FALSE
  /\ UNCHANGED facts

\* The process ends.  The list of the dead process is kept to compare.
Die ==
  /\ lock' = NoThread
  /\ unsaved' = (unsaved \/ lock # NoThread)
  /\ UNCHANGED <<facts, file>>

MTypeOK ==
  /\ facts \in Seq(Text)
  /\ file \in [state : {"missing", "torn", "whole"}, facts : Seq(Text)]
  /\ lock \in Thread \cup {NoThread}
  /\ unsaved \in BOOLEAN

\* No fact is stored twice up to the case of ASCII letters, none is blank or
\* has blanks around it, if the file loaded was so:
\* MemoryStore.h:34-36 "if it isn't already present (case-insensitive
\* comparison)".
StaysTidy == Tidy(facts)

\* Whenever no save is under way, the file holds the list, in its order,
\* unless the last save has failed (MemoryStore.h:35 "persists to disk
\* immediately").
FileInStep ==
  lock = NoThread /\ ~unsaved => file.state # "torn" /\ file.facts = facts
==============================================================================
