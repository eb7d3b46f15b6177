------------------------------ MODULE ChatServer ------------------------------
(***************************************************************************)
(* The handlers of /api/memory and /api/chat (src/ChatServer.cpp), each    *)
(* run by a thread of the server's pool, on one MemoryStore.  A handler    *)
(* changes the store, lists it, and answers with the list or puts it into  *)
(* the model's prompt; what follows no longer concerns the store.  The     *)
(* process may end at any point and be started again.                      *)
(***************************************************************************)
EXTENDS MemoryStore, FactExtractor

CONSTANTS
  Typed,          \* the texts that clients add or remove
  Said,           \* the messages that users send
  MaxRequests,    \* bound: requests
  MaxCrashes      \* bound: ends of the process

ASSUME ServerAssumption ==
  /\ Typed \subseteq Text
  /\ Said \subseteq Message
  /\ \A p \in 1..3, n \in Name :
       <<Patterns[p], n>> \in Word /\ <<Patterns[p], n>> # Blank
  /\ MaxRequests \in Nat
  /\ MaxCrashes \in Nat

VARIABLES
  up,         \* the process runs
  pc,         \* per thread: where its handler is
  todo,       \* per thread: the facts still to add, or the one to remove
  listed,     \* per thread: what AllFacts returned
  due,        \* history, per thread: words its list has to show
  gone,       \* history, per thread: words its list must not show
  requests,
  crashes

handler == <<pc, todo, listed>>
history == <<due, gone>>
vars == <<mvars, up, handler, history, requests, crashes>>

Init ==
  /\ MInit
  /\ up = TRUE
  /\ pc = [t \in Thread |-> "idle"]
  /\ todo = [t \in Thread |-> <<>>]
  /\ listed = [t \in Thread |-> <<>>]
  /\ due = [t \in Thread |-> {}]
  /\ gone = [t \in Thread |-> {}]
  /\ requests = 0
  /\ crashes = 0

-----------------------------------------------------------------------------
Begin(t, what, texts, said, unsaid) ==
  /\ up
  /\ pc[t] = "idle"
  /\ requests < MaxRequests
  /\ requests' = requests + 1
  /\ pc' = [pc EXCEPT ![t] = what]
  /\ todo' = [todo EXCEPT ![t] = texts]
  /\ due' = [due EXCEPT ![t] = said \ {Blank}]
  /\ gone' = [gone EXCEPT ![t] = unsaid \ {Blank}]
  /\ UNCHANGED <<mvars, up, listed, crashes>>

GetMemory(t) == Begin(t, "add", <<>>, {}, {})

PostMemory(t) == \E f \in Typed : Begin(t, "add", <<f>>, {f.word}, {})

DeleteMemory(t) == \E f \in Typed : Begin(t, "remove", <<f>>, {}, {f.word})

PostChat(t) == \E m \in Said : Begin(t, "add", ExtractFacts(m), Given(m), {})

\* A body that is no JSON, or not of the form expected, changes nothing.
BadRequest(t) == Begin(t, "idle", <<>>, {}, {})

-----------------------------------------------------------------------------
NextFact(t) == Head(todo[t])

\* The word is in the store, or out of it, through this thread's doing: its
\* list shows it so unless another thread comes in between.
Shows(t, w) ==
  /\ due' = [due EXCEPT ![t] = (@ \cup {w}) \ {Blank}]
  /\ gone' = [u \in Thread |-> gone[u] \ {w}]

Hides(t, w) ==
  /\ due' = [u \in Thread |-> due[u] \ {w}]
  /\ gone' = [gone EXCEPT ![t] = (@ \cup {w}) \ {Blank}]

AddNew(t) ==
  /\ pc[t] = "add" /\ todo[t] # <<>>
  /\ Remember(t, NextFact(t))
  /\ Shows(t, NextFact(t).word)
  /\ pc' = [pc EXCEPT ![t] = "save"]
  /\ UNCHANGED <<up, todo, listed, requests, crashes>>

\* Slip: a fact that is known ends the loop over the facts of a message.
NoOtherFacts(t) == <<>>

OtherFacts(t) == Tail(todo[t])

AddKnown(t) ==
  /\ pc[t] = "add" /\ todo[t] # <<>>
  /\ PassOver(NextFact(t))
  /\ Shows(t, NextFact(t).word)
  /\ todo' = [todo EXCEPT ![t] = OtherFacts(t)]
  /\ UNCHANGED <<up, pc, listed, requests, crashes>>

RemoveKnown(t) ==
  /\ pc[t] = "remove"
  /\ Forget(t, NextFact(t))
  /\ Hides(t, NextFact(t).word)
  /\ pc' = [pc EXCEPT ![t] = "save"]
  /\ UNCHANGED <<up, todo, listed, requests, crashes>>

RemoveUnknown(t) ==
  /\ pc[t] = "remove"
  /\ NotFound(NextFact(t))
  /\ Hides(t, NextFact(t).word)
  /\ pc' = [pc EXCEPT ![t] = "add"]
  /\ todo' = [todo EXCEPT ![t] = OtherFacts(t)]
  /\ UNCHANGED <<up, listed, requests, crashes>>

SaveBegins(t) ==
  /\ pc[t] = "save"
  /\ Truncate
  /\ pc' = [pc EXCEPT ![t] = "write"]
  /\ UNCHANGED <<up, todo, listed, history, requests, crashes>>

SaveEnds(t) ==
  /\ \/ pc[t] = "save" /\ FailToOpen
     \/ pc[t] = "write" /\ (FailToWrite \/ Write)
  /\ pc' = [pc EXCEPT ![t] = "add"]
  /\ todo' = [todo EXCEPT ![t] = OtherFacts(t)]
  /\ UNCHANGED <<up, listed, history, requests, crashes>>

\* Slip: the list is taken while facts are still to be added.
MayListEarly(t) == pc[t] = "add"

MayList(t) == pc[t] = "add" /\ todo[t] = <<>>

\* AllFacts, for the answer or the prompt.
List(t) ==
  /\ MayList(t)
  /\ Free
  /\ listed' = [listed EXCEPT ![t] = facts]
  /\ pc' = [pc EXCEPT ![t] = "answer"]
  /\ UNCHANGED <<mvars, up, todo, history, requests, crashes>>

Answer(t) ==
  /\ pc[t] = "answer"
  /\ pc' = [pc EXCEPT ![t] = "idle"]
  /\ listed' = [listed EXCEPT ![t] = <<>>]
  /\ due' = [due EXCEPT ![t] = {}]
  /\ gone' = [gone EXCEPT ![t] = {}]
  /\ UNCHANGED <<mvars, up, todo, requests, crashes>>

Crash ==
  /\ up
  /\ crashes < MaxCrashes
  /\ Die
  /\ up' = FALSE
  /\ crashes' = crashes + 1
  /\ pc' = [t \in Thread |-> "idle"]
  /\ todo' = [t \in Thread |-> <<>>]
  /\ listed' = [t \in Thread |-> <<>>]
  /\ due' = [t \in Thread |-> {}]
  /\ gone' = [t \in Thread |-> {}]
  /\ UNCHANGED requests

Restart ==
  /\ ~up
  /\ Load
  /\ up' = TRUE
  /\ UNCHANGED <<lock, handler, history, requests, crashes>>

Arrive(t) ==
  GetMemory(t) \/ PostMemory(t) \/ DeleteMemory(t) \/ PostChat(t) \/ BadRequest(t)

Handle(t) ==
  \/ AddNew(t) \/ AddKnown(t) \/ RemoveKnown(t) \/ RemoveUnknown(t)
  \/ SaveBegins(t) \/ SaveEnds(t)
  \/ List(t) \/ Answer(t)

Next == Crash \/ Restart \/ \E t \in Thread : Arrive(t) \/ Handle(t)

\* A thread that can go on does.
Spec == Init /\ [][Next]_vars /\ \A t \in Thread : WF_vars(Handle(t))

-----------------------------------------------------------------------------
TypeOK ==
  /\ MTypeOK
  /\ up \in BOOLEAN
  /\ pc \in [Thread -> {"idle", "add", "remove", "save", "write", "answer"}]
  /\ todo \in [Thread -> Seq(Text)]
  /\ listed \in [Thread -> Seq(Text)]
  /\ due \in [Thread -> SUBSET Word]
  /\ gone \in [Thread -> SUBSET Word]
  /\ requests \in Nat
  /\ crashes \in Nat

\* The list a handler answers with, or puts into the prompt, shows the change
\* the handler itself has made, unless another request undid it in between
\* (ChatServer.cpp:88-90, 106-108, 138-143; README.md:372-377).
OwnChangesListed ==
  \A t \in Thread : pc[t] = "answer" =>
    /\ due[t] \subseteq WordsOf(listed[t])
    /\ gone[t] \cap WordsOf(listed[t]) = {}

\* Every request is answered, unless the process ends.
Answered == \A t \in Thread : pc[t] # "idle" ~> pc[t] = "idle"

\* The mutex is held just while a change is being saved, by the thread that
\* made it: whoever waits for it waits for a step that needs nothing else
\* (MemoryStore.cpp:86-111, 124-132, 142-151).
HeldForSave == \A t \in Thread : lock = t <=> pc[t] \in {"save", "write"}

StageLeft(s) ==
  CASE s \in {"add", "remove"} -> 4 [] s = "save" -> 3 [] s = "write" -> 2
    [] s = "answer" -> 1 [] s = "idle" -> 0

\* The thread has fewer facts to deal with, or is further with the one in
\* hand.
Nearer(t) ==
  \/ Len(todo'[t]) < Len(todo[t])
  \/ Len(todo'[t]) = Len(todo[t]) /\ StageLeft(pc'[t]) < StageLeft(pc[t])

\* No handler is ever thrown back, whatever other threads do to the store and
\* whichever save fails, and every step but a new request or a restart brings
\* one nearer to its answer (ChatServer.cpp:78-151).
HandlersAdvance ==
  [][/\ \A t \in Thread : pc[t] # "idle" =>
          Nearer(t) \/ (pc'[t] = pc[t] /\ todo'[t] = todo[t])
     /\ up /\ requests' = requests =>
          ~up' \/ \E t \in Thread : pc[t] # "idle" /\ Nearer(t)]_vars

Abstract == INSTANCE FactMemory
  WITH Fact  <- Word,
       known <- WordsOf(facts),
       saved <- WordsOf(file.facts),
       safe  <- lock = NoThread /\ ~unsaved

\* The store, its file, the threads and the restarts keep the promise.
ImplementsMemory == Abstract!Spec
==============================================================================
