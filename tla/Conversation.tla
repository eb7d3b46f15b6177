----------------------------- MODULE Conversation -----------------------------
(***************************************************************************)
(* What the chat page promises its user, whatever the relay, the stream,   *)
(* the timers and the buttons do: questions are asked one at a time; what  *)
(* is said to a question grows token by token until it ends; the question  *)
(* is then answered with all that was said, in one message, or is given up *)
(* at any time with nothing said in the conversation.  The conversation is *)
(* cleared at any time too, also under a question.                         *)
(***************************************************************************)
EXTENDS Integers, Sequences

CONSTANT Torn     \* may what is said break off as if it had ended?

VARIABLES
  log,      \* the messages of the conversation
  asked,    \* how many questions have been asked: they are numbered
  asking,   \* the number of the open question, 0 where there is none
  said,     \* how many tokens have been said to it
  ending    \* how they ended: "open", "whole" or "torn"

cvars == <<log, asked, asking, said, ending>>

Message(who, q, n) == [role |-> who, turn |-> q, tokens |-> n]

Init ==
  /\ log = <<>>
  /\ asked = 0 /\ asking = 0
  /\ said = 0 /\ ending = "open"

Ask ==
  /\ asking = 0
  /\ asked' = asked + 1
  /\ asking' = asked'
  /\ log' = Append(log, Message("user", asked', 0))
  /\ UNCHANGED <<said, ending>>

Say ==
  /\ asking # 0
  /\ ending = "open"
  /\ said' = said + 1
  /\ UNCHANGED <<log, asked, asking, ending>>

EndSaying ==
  /\ asking # 0
  /\ ending = "open"
  /\ ending' \in IF Torn THEN {"whole", "torn"} ELSE {"whole"}
  /\ UNCHANGED <<log, asked, asking, said>>

CloseQuestion ==
  /\ asking # 0
  /\ asking' = 0 /\ said' = 0 /\ ending' = "open"
  /\ UNCHANGED asked

Answer ==
  /\ ending # "open"
  /\ said > 0
  /\ log' = Append(log, Message("assistant", asking, said))
  /\ CloseQuestion

GiveUp == CloseQuestion /\ UNCHANGED log

Clear == log' = <<>> /\ UNCHANGED <<asked, asking, said, ending>>

Next == Ask \/ Say \/ EndSaying \/ Answer \/ GiveUp \/ Clear

Spec == Init /\ [][Next]_cvars

-----------------------------------------------------------------------------
Earlier(m, n) ==
  \/ m.turn < n.turn
  \/ m.turn = n.turn /\ m.role = "user" /\ n.role = "assistant"

\* Questions and answers stand in the order they were asked in, and each at
\* most once: no answer comes twice, late or before its question, whatever
\* was given up or cleared in between (chat.html:663, 743).
InOrder == \A i, j \in 1..Len(log) : i < j => Earlier(log[i], log[j])
==============================================================================
