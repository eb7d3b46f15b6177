------------------------------ MODULE ChatRelay ------------------------------
(***************************************************************************)
(* The relay of /api/chat (src/ChatServer.cpp): it passes on what Ollama   *)
(* streams, one JSON object a line and one token of the reply in each, as  *)
(* it comes, and ends the stream with an error line of its own when Ollama *)
(* refuses, breaks off or is silent for a minute.  On the wire are         *)
(*                                                                         *)
(*   "line"  a line with a token    "head", "rest"  the two parts of one   *)
(*   "error" an error line                                                 *)
(*                                                                         *)
(* Ollama is free to do what the relay handles, at any time or never.      *)
(***************************************************************************)
EXTENDS Integers, Sequences

CONSTANTS
  MaxTurns,     \* bound: questions
  MaxTokens,    \* bound: tokens of a reply
  Breaks        \* where Ollama's stream may break: between lines, within one

ASSUME RelayAssumption ==
  /\ MaxTurns \in Nat
  /\ MaxTokens \in Nat
  /\ Breaks \subseteq {"between", "within"}

Turn == 1..MaxTurns

VARIABLES
  relay,      \* per question: where its relay is
  wire,       \* per question: what has been sent and not yet been read
  sent        \* history, per question: the tokens Ollama has sent

rvars == <<relay, wire, sent>>

RInit ==
  /\ relay = [t \in Turn |-> "off"]
  /\ wire = [t \in Turn |-> <<>>]
  /\ sent = [t \in Turn |-> 0]

\* The request for question t arrives.
Request(t) ==
  /\ relay' = [relay EXCEPT ![t] = "asking"]
  /\ UNCHANGED <<wire, sent>>

\* The page is gone: the next write fails, and the relay gives up.
Hangup(ts) ==
  /\ relay' = [t \in Turn |-> IF t \in ts THEN "off" ELSE relay[t]]
  /\ wire' = [t \in Turn |-> IF t \in ts THEN <<>> ELSE wire[t]]
  /\ sent' = [t \in Turn |-> IF t \in ts THEN 0 ELSE sent[t]]

Move(t, from, to) ==
  /\ relay[t] \in from
  /\ relay' = [relay EXCEPT ![t] = to]

Say(t, piece) == wire' = [wire EXCEPT ![t] = Append(@, piece)]

\* Slip: a stream that breaks off ends like any other.
SayNothing(t) == UNCHANGED wire

\* WriteNdjsonError.
SayError(t) == Say(t, "error")

\* Ollama cannot be reached, or answers with another status than 2xx.
Refuse(t) ==
  /\ Move(t, {"asking"}, "failed")
  /\ SayError(t)
  /\ UNCHANGED sent

Accept(t) ==
  /\ Move(t, {"asking"}, "between")
  /\ UNCHANGED <<wire, sent>>

\* A line with a token comes in one piece, or in two.
PassLine(t) ==
  /\ sent[t] < MaxTokens
  /\ Move(t, {"between"}, "between")
  /\ Say(t, "line")
  /\ sent' = [sent EXCEPT ![t] = @ + 1]

PassHead(t) ==
  /\ sent[t] < MaxTokens
  /\ Move(t, {"between"}, "within")
  /\ Say(t, "head")
  /\ UNCHANGED sent

PassRest(t) ==
  /\ Move(t, {"within"}, "between")
  /\ Say(t, "rest")
  /\ sent' = [sent EXCEPT ![t] = @ + 1]

\* Ollama reports an error of its own, and ends.
PassError(t) ==
  /\ Move(t, {"between"}, "failed")
  /\ Say(t, "error")
  /\ UNCHANGED sent

Finish(t) ==
  /\ Move(t, {"between"}, "whole")
  /\ UNCHANGED <<wire, sent>>

\* The stream breaks, or nothing comes for 60 seconds.
Break(t) ==
  /\ Move(t, {"between", "within"} \cap Breaks, "failed")
  /\ SayError(t)
  /\ UNCHANGED sent

Relay(t) ==
  \/ Refuse(t) \/ Accept(t)
  \/ PassLine(t) \/ PassHead(t) \/ PassRest(t) \/ PassError(t)
  \/ Finish(t) \/ Break(t)

Ended(t) == relay[t] \in {"failed", "whole"}

RTypeOK ==
  /\ relay \in [Turn -> {"off", "asking", "between", "within", "whole",
                         "failed"}]
  /\ wire \in [Turn -> Seq({"line", "head", "rest", "error"})]
  /\ sent \in [Turn -> Nat]
==============================================================================
