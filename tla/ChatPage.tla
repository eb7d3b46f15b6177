------------------------------- MODULE ChatPage -------------------------------
(***************************************************************************)
(* The chat page (web/chat.html) at work with the relay behind it.  The    *)
(* page is one thread, but its handlers overlap: send() waits for the      *)
(* response and then for every piece of it, and meanwhile the user may     *)
(* stop it, clear the conversation, ask for the models again or reload,    *)
(* and timers go off.  The closure of each call of send() keeps its own    *)
(* variables, here functions of the number of the question.                *)
(***************************************************************************)
EXTENDS ChatRelay

CONSTANTS
  MaxClears,    \* bound: conversations cleared
  MaxLoads,     \* bound: requests for the models under way at a time
  MaxReloads    \* bound: reloads of the page

ASSUME PageAssumption ==
  /\ MaxClears \in Nat
  /\ MaxLoads \in Nat
  /\ MaxReloads \in Nat

NoTurn == 0

VARIABLES
  history,      \* history, saved in localStorage whenever it changes
  sending,
  abortable,    \* whose AbortController currentAbort is
  timers,       \* the 10-minute timers set and not cleared
  stage,        \* per question: what its send() waits for
  content,      \* per question: the tokens of assistantContent
  buffered,     \* per question: buffer holds the first part of a line
  sawError,     \* per question
  listed,       \* modelSelect shows models, not a placeholder
  enabled,      \* modelSelect.disabled is false
  loads,        \* calls of loadModels under way
  turns, clears, reloads,
  asked         \* history: whether models or placeholders were asked

closures == <<stage, content, buffered, sawError>>
models == <<listed, enabled, loads>>
counts == <<turns, clears, reloads>>
vars == <<rvars, history, sending, abortable, timers, closures,
          models, counts, asked>>

Question(t) == [role |-> "user", turn |-> t, tokens |-> 0]
Reply(t, n) == [role |-> "assistant", turn |-> t, tokens |-> n]

\* Of a question whose send() is over, or not yet called.
ForAll(value) == [t \in Turn |-> value]

Init ==
  /\ RInit
  /\ history = <<>>
  /\ sending = FALSE /\ abortable = NoTurn /\ timers = {}
  /\ stage = ForAll("none")
  /\ content = ForAll(0)
  /\ buffered = ForAll(FALSE) /\ sawError = ForAll(FALSE)
  /\ listed = FALSE /\ enabled = FALSE /\ loads = 1
  /\ turns = 0 /\ clears = 0 /\ reloads = 0
  /\ asked = {}

-----------------------------------------------------------------------------
\* loadModels, and the two ways it ends: with models, or with a placeholder
\* that says there are none or why (no answer, a 502, an empty list).  Only
\* the first changes what the start of the call has disabled.
LoadModels ==
  /\ loads < MaxLoads
  /\ loads' = loads + 1
  /\ listed' = FALSE
  /\ enabled' = FALSE
  /\ UNCHANGED <<rvars, history, sending, abortable, timers, closures,
                 counts, asked>>

ModelsListed ==
  /\ loads > 0
  /\ loads' = loads - 1
  /\ listed' = TRUE
  /\ enabled' = TRUE
  /\ UNCHANGED <<rvars, history, sending, abortable, timers, closures,
                 counts, asked>>

NoModels ==
  /\ loads > 0
  /\ loads' = loads - 1
  /\ listed' = FALSE
  /\ UNCHANGED <<rvars, history, sending, abortable, timers, closures,
                 enabled, counts, asked>>

-----------------------------------------------------------------------------
\* Slip: a click while a reply is under way sends the next question.
SendsAnyway == TRUE

MaySend == ~sending

\* send() up to its first await: a new question.
Send ==
  LET t == turns + 1 IN
  /\ MaySend
  /\ enabled
  /\ t \in Turn
  /\ turns' = t
  /\ sending' = TRUE
  /\ history' = Append(history, Question(t))
  /\ abortable' = t
  /\ timers' = timers \cup {t}
  /\ stage' = [stage EXCEPT ![t] = "fetch"]
  /\ asked' = asked \cup {listed}
  /\ Request(t)
  /\ UNCHANGED <<content, buffered, sawError, models, clears, reloads>>

\* Slip: the timer is not cleared.
KeepTimer(t) == timers

ClearTimer(t) == timers \ {t}

\* The finally block of send(), and the closure gone.
Finally(t) ==
  /\ timers' = ClearTimer(t)
  /\ abortable' = NoTurn
  /\ sending' = FALSE
  /\ stage' = [stage EXCEPT ![t] = "none"]
  /\ content' = [content EXCEPT ![t] = 0]
  /\ buffered' = [buffered EXCEPT ![t] = FALSE]
  /\ sawError' = [sawError EXCEPT ![t] = FALSE]
  /\ UNCHANGED <<models, counts, asked>>

\* Slip: the timer is cleared once the response is there.
ClearsEarly(t) == ClearTimer(t)

GoesOn(t) == timers

\* The server sends its headers before it asks Ollama.
Respond(t) ==
  /\ stage[t] = "fetch"
  /\ stage' = [stage EXCEPT ![t] = "read"]
  /\ timers' = GoesOn(t)
  /\ UNCHANGED <<rvars, history, sending, abortable, content, buffered,
                 sawError, models, counts, asked>>

\* The catch block: no response, or another than 200; the connection breaks.
Fail(t) ==
  /\ stage[t] # "none"
  /\ Hangup({t})
  /\ Finally(t)
  /\ UNCHANGED history

\* Slips: what is left of a line is thrown away with the piece it came in, or
\* is left in the buffer when it has been parsed.
ParseUnbuffered(t, piece) == piece

ParseTwice(t, piece) == IF piece = "head" THEN "line"
  ELSE IF piece = "rest" THEN "line" ELSE piece

\* The line that a piece completes: a token, an error, or nothing that can be
\* parsed, as where an error comes on top of half a line.
Parse(t, piece) ==
  IF piece = "rest" /\ buffered[t] THEN "line"
  ELSE IF piece = "error" /\ buffered[t] THEN "garbage"
  ELSE piece

\* reader.read() has a piece, and handleLine gets the lines it completes.
Read(t) ==
  /\ stage[t] = "read"
  /\ wire[t] # <<>>
  /\ LET line == Parse(t, Head(wire[t])) IN
       /\ content' = [content EXCEPT ![t] = IF line = "line" THEN @ + 1 ELSE @]
       /\ sawError' = [sawError EXCEPT ![t] = @ \/ line = "error"]
       /\ buffered' = [buffered EXCEPT ![t] = line = "head"]
  /\ wire' = [wire EXCEPT ![t] = Tail(@)]
  /\ UNCHANGED <<relay, sent, history, sending, abortable, timers,
                 stage, models, counts, asked>>

\* The end of the stream, with nothing to keep: an error was shown, or there
\* was no content, which is an error too.
EndInError(t) ==
  /\ stage[t] = "read" /\ wire[t] = <<>> /\ Ended(t)
  /\ sawError[t] \/ content[t] = 0
  /\ Hangup({t})
  /\ Finally(t)
  /\ UNCHANGED history

EndInReply(t) ==
  /\ stage[t] = "read" /\ wire[t] = <<>> /\ Ended(t)
  /\ ~sawError[t] /\ content[t] > 0
  /\ history' = Append(history, Reply(t, content[t]))
  /\ Finally(t)
  /\ UNCHANGED rvars

-----------------------------------------------------------------------------
\* currentAbort.abort(): the send() it belongs to goes to its catch block.
Abort == abortable # NoTurn /\ Fail(abortable)

\* send() while a reply is under way.
Stop == sending /\ Abort

\* The timer of question t aborts whatever is under way.
TimerFires(t) == t \in timers /\ Abort

\* Slip: the new chat makes the button send again.
FreesButton == FALSE

StaysSending == sending

\* The button for a new chat, confirmed.
NewChat ==
  /\ clears < MaxClears
  /\ clears' = clears + 1
  /\ history' = <<>>
  /\ sending' = StaysSending
  /\ UNCHANGED <<rvars, abortable, timers, closures, models, turns, reloads,
                 asked>>

\* The page is loaded anew, with the conversation that is stored.
Reload ==
  /\ reloads < MaxReloads
  /\ reloads' = reloads + 1
  /\ Hangup({t \in Turn : stage[t] # "none"})
  /\ sending' = FALSE /\ abortable' = NoTurn /\ timers' = {}
  /\ stage' = ForAll("none")
  /\ content' = ForAll(0)
  /\ buffered' = ForAll(FALSE) /\ sawError' = ForAll(FALSE)
  /\ listed' = FALSE /\ enabled' = FALSE /\ loads' = 1
  /\ UNCHANGED <<history, turns, clears, asked>>

Wait(t) == Respond(t) \/ Fail(t) \/ Read(t) \/ EndInError(t) \/ EndInReply(t)

Next ==
  \/ LoadModels \/ ModelsListed \/ NoModels
  \/ Send \/ Stop \/ NewChat \/ Reload
  \/ \E t \in Turn :
       \/ Wait(t) \/ TimerFires(t)
       \/ Relay(t) /\ UNCHANGED <<history, sending, abortable, timers,
                                  closures, models, counts, asked>>

\* A timer that is due fires.  Nothing is asked of the server or of Ollama.
Spec == Init /\ [][Next]_vars /\ \A t \in Turn : WF_vars(TimerFires(t))

-----------------------------------------------------------------------------
TypeOK ==
  /\ RTypeOK
  /\ history \in Seq([role   : {"user", "assistant"},
                      turn   : Turn,
                      tokens : 0..MaxTokens])
  /\ sending \in BOOLEAN
  /\ abortable \in Turn \cup {NoTurn}
  /\ timers \subseteq Turn
  /\ stage \in [Turn -> {"none", "fetch", "read"}]
  /\ content \in [Turn -> Nat]
  /\ buffered \in [Turn -> BOOLEAN]
  /\ sawError \in [Turn -> BOOLEAN]
  /\ listed \in BOOLEAN
  /\ enabled \in BOOLEAN
  /\ loads \in Nat
  /\ turns \in 0..MaxTurns
  /\ clears \in Nat
  /\ reloads \in Nat
  /\ asked \subseteq BOOLEAN

UnderWay == {t \in Turn : stage[t] # "none"}

\* One reply at a time is under way, the button knows of it, and the
\* controller at hand stops that one (chat.html:644-647, 676, 761-762).
OneAtATime == UnderWay = IF sending THEN {abortable} ELSE {}

\* A timer is set for as long as its send() is under way, and aborts that one:
\* none is left to abort a later one, and no question is without
\* (chat.html:677-680, 760).
TimersAreCurrent == timers = UnderWay /\ \A t \in timers : abortable = t

\* A reply stands right behind its own question, whatever was stopped, failed
\* or reloaded in between; only where the conversation was cleared under it
\* has it none (chat.html:663, 743).
ReplyFollowsQuestion ==
  \A i \in 1..Len(history) : history[i].role = "assistant" =>
    i = 1 \/ history[i - 1] = Question(history[i].turn)

\* chat.html:625 "Clear the current conversation?": of a conversation that
\* was cleared nothing turns up in the next.
StaysCleared ==
  \A i \in 1..Len(history) : history[i].role = "assistant" => i > 1

\* web/README.md:43 "streamed NDJSON response forwarded straight through from
\* Ollama's own /api/chat": a reply in the conversation, which the model is
\* shown with the next question, is all of what Ollama had to say.
ReplyIsWhole ==
  \A i \in 1..Len(history) : history[i].role = "assistant" =>
    LET t == history[i].turn IN
    relay[t] = "whole" /\ history[i].tokens = sent[t]

\* chat.html:651-652 "No model selected": no question is sent while the list
\* shows a placeholder.
AsksAModel == FALSE \notin asked

\* Whatever the server and Ollama do, the user gets the button back.
SendEnds == sending ~> ~sending

-----------------------------------------------------------------------------
\* Of the question under way, how what Ollama says has ended.  A break within
\* a line may look like an end.
Ending ==
  IF ~sending THEN "open"
  ELSE IF relay[abortable] = "whole" THEN "whole"
  ELSE IF relay[abortable] = "failed" /\ "within" \in Breaks THEN "torn"
  ELSE "open"

Talk == INSTANCE Conversation
  WITH Torn   <- "within" \in Breaks,
       log    <- history,
       asked  <- turns,
       asking <- IF sending THEN abortable ELSE 0,
       said   <- IF sending THEN sent[abortable] ELSE 0,
       ending <- Ending

\* The page and the relay together keep the promise of a conversation: what
\* goes over the wire in pieces, is buffered, timed, stopped, failed, cleared
\* or reloaded comes to one reply with all that was said, or to none
\* (chat.html:643-764).
ImplementsConversation == Talk!Spec
==============================================================================
