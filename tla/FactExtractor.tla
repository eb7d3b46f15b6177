---------------------------- MODULE FactExtractor ----------------------------
(***************************************************************************)
(* The facts a chat message gives away (src/FactExtractor.cpp).  Of a      *)
(* message only this is kept: what the first match of each pattern         *)
(* captures, if it has one.                                                *)
(***************************************************************************)
EXTENDS Integers, Sequences

CONSTANTS Name,      \* what a pattern may capture, up to case
          NoMatch

ASSUME NoMatchAssumption == NoMatch \notin [name : Name, upper : BOOLEAN]

Patterns == <<"user name", "assistant name", "age">>

Message == [1..3 -> [name : Name, upper : BOOLEAN] \cup {NoMatch}]

\* Slip: the capture is kept without its sentence.
FormatBare(p, capture) ==
  [word |-> capture.name, upper |-> capture.upper, padded |-> FALSE]

\* The sentence a pattern makes of its capture, whose case is kept.
Format(p, capture) ==
  [word   |-> <<Patterns[p], capture.name>>,
   upper  |-> capture.upper,
   padded |-> FALSE]

Found(m, p) == IF m[p] = NoMatch THEN <<>> ELSE <<Format(p, m[p])>>

\* Slip: the search ends with the first pattern that matches.
ExtractFirst(m) ==
  IF m[1] # NoMatch THEN Found(m, 1)
  ELSE IF m[2] # NoMatch THEN Found(m, 2) ELSE Found(m, 3)

\* What a message gives away, by the patterns alone.
Given(m) ==
  {<<Patterns[p], m[p].name>> : p \in {q \in 1..3 : m[q] # NoMatch}}

\* Every pattern is tried against the whole message.
ExtractFacts(m) == Found(m, 1) \o Found(m, 2) \o Found(m, 3)
==============================================================================
