----------------------------- MODULE PatchApplier -----------------------------
(***************************************************************************)
(* The files of a code base and the edits written over them                *)
(* (src/PatchApplier.cpp).  Of a file's content only its history is kept:  *)
(* how many times the run has written it and whether the last write is     *)
(* there as a whole, was cut, or was lost when the file was closed.        *)
(***************************************************************************)
EXTENDS Integers, Sequences

CONSTANTS
  Path,      \* files of the code base, and those an edit may create
  Outside,   \* paths an edit may name that are absolute or leave the root
  Sources,   \* the files there at the start
  Faults     \* what the file system may fail at

ASSUME PathAssumption ==
  /\ Outside \cap Path = {}
  /\ Sources \subseteq Path
  /\ Faults \subseteq {"resolve", "open", "write", "close"}

VARIABLES
  disk,       \* the code base
  written,    \* ApplyOutcome::writtenPaths
  rejected,   \* ApplyOutcome::rejectedPaths
  errors      \* the paths of ApplyOutcome::errors

reports == <<written, rejected, errors>>
pvars == <<disk, reports>>

TextState == {"whole", "cut", "unflushed"}

Original ==
  [p \in Path |-> [exists |-> p \in Sources, writes |-> 0, text |-> "whole"]]

PInit ==
  /\ disk = Original
  /\ written = <<>>
  /\ rejected = <<>>
  /\ errors = <<>>

Overwrite(p, text) ==
  disk' = [disk EXCEPT ![p] = [exists |-> TRUE, writes |-> @.writes + 1,
                               text |-> text]]

\* Slip: the refusal is reported among the I/O errors.
RejectAsError(p) ==
  /\ p \in Outside
  /\ errors' = Append(errors, p)
  /\ UNCHANGED <<disk, written, rejected>>

\* The path is absolute or resolves to a place outside the root.
Reject(p) ==
  /\ p \in Outside
  /\ rejected' = Append(rejected, p)
  /\ UNCHANGED <<disk, written, errors>>

\* Its directory cannot be made, or the file not be opened.
FailToOpen(p) ==
  /\ p \in Path
  /\ "open" \in Faults
  /\ errors' = Append(errors, p)
  /\ UNCHANGED <<disk, written, rejected>>

\* Slips: the stream is not tested after the write, or its failure is passed
\* over in silence.
FailUnchecked(p) ==
  /\ p \in Path
  /\ "write" \in Faults
  /\ Overwrite(p, "cut")
  /\ written' = Append(written, p)
  /\ UNCHANGED <<rejected, errors>>

FailSilently(p) ==
  /\ p \in Path
  /\ "write" \in Faults
  /\ Overwrite(p, "cut")
  /\ UNCHANGED reports

\* The file has been truncated, and the write fails while the stream is open.
FailToWrite(p) ==
  /\ p \in Path
  /\ "write" \in Faults
  /\ Overwrite(p, "cut")
  /\ errors' = Append(errors, p)
  /\ UNCHANGED <<written, rejected>>

Write(p) ==
  /\ p \in Path
  /\ Overwrite(p, "whole")
  /\ written' = Append(written, p)
  /\ UNCHANGED <<rejected, errors>>

\* The write is reported done while the text is still in the stream's buffer:
\* what fails when the destructor flushes it is seen by nobody.
FailToFlush(p) ==
  /\ p \in Path
  /\ "close" \in Faults
  /\ Overwrite(p, "unflushed")
  /\ written' = Append(written, p)
  /\ UNCHANGED <<rejected, errors>>

\* One turn of the loop of Apply.
ApplyEdit(p) ==
  Reject(p) \/ FailToOpen(p) \/ FailToWrite(p) \/ Write(p) \/ FailToFlush(p)

\* An exception takes the lists with it; what has been written stays.
LoseReports ==
  /\ written' = <<>>
  /\ rejected' = <<>>
  /\ errors' = <<>>
  /\ UNCHANGED disk

PTypeOK ==
  /\ disk \in [Path -> [exists : BOOLEAN, writes : Nat, text : TextState]]
  /\ written \in Seq(Path)
  /\ rejected \in Seq(Outside)
  /\ errors \in Seq(Path)

Entries(s) == {s[i] : i \in 1..Len(s)}

\* The paths an edit has been reported on, in one way or another.
Reported == Entries(written) \cup Entries(rejected) \cup Entries(errors)
==============================================================================
