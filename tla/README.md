# Verification of CppCoder

This directory holds TLA+ models of CppCoder, the TLC runs that check them on
small instances and the theorems TLAPS proves about them for all instances.
Paths are relative to the repository root.

## 1. The system

CppCoder explores a C++ code base with a local language model. Two engines
share a task queue; a chat server and two web pages stand beside them.

| Component | State it keeps | Operations | Talks to |
|---|---|---|---|
| `TaskQueue` (`src/TaskQueue.cpp`) | FIFO of tasks, set of queued areas, set of visited areas | `Push`, `Pop`, `MarkVisited` | owned by one engine run |
| `ResearchEngine` (`src/ResearchEngine.cpp`) | a run: queue, iterations, start time, successful findings, result | `Research` | queue, worker, judge, scanner, model, event sink |
| `Worker` (`src/Worker.cpp`) | a process-wide task counter | `Execute`, `ExecuteSingleArea`, `ParseWorkerResponse` | scanner, model |
| `Judge` (`src/Judge.cpp`) | none | `Review`, `ApplyJudgeResponse` | model |
| `OllamaClient` (`src/OllamaClient.cpp`) | configuration | `Generate`, `ChatStream`, model checks | the Ollama server, over HTTP |
| `EditEngine` (`src/EditEngine.cpp`) | a run: queue, iterations, proposed edits, apply outcome | `Run` | queue, editor, patch applier, event sink |
| `Editor` (`src/Editor.cpp`) | a task counter | `Execute`, `ParseEditResponse` | scanner, model |
| `PatchApplier` (`src/PatchApplier.cpp`) | the root directory | `Apply`, `IsPathSafe` | the file system |
| `CodebaseScanner` (`src/CodebaseScanner.cpp`) | root, exclusions | `Scan`, `FindFilesMatchingKeyword` | the file system |
| `JsonUtil` (`src/JsonUtil.cpp`) | none | `ExtractJsonObject`, `ExtractJsonArray` | |
| `MemoryStore` (`src/MemoryStore.cpp`) | list of facts under a mutex, a JSON file | `Load`, `AddFact`, `RemoveFact`, `AllFacts` | the file system |
| `FactExtractor` (`src/FactExtractor.cpp`) | none | `ExtractFacts` | |
| `ChatServer` (`src/ChatServer.cpp`) | none of its own | HTTP handlers for chat, memory, model list | `MemoryStore`, Ollama |
| chat page (`web/chat.html`) | history, pending reply, memory list, local storage | send, new chat, memory edits | `ChatServer` |
| event viewer (`web/index.html`) | task graph built from events | one handler per event | the event log |

Who calls whom in a research run:

    Research -> ExtractKeywords -> model
             -> SeedInitialTasks -> scanner
             -> loop: Pop -> Worker.Execute (scanner, model; once per seed file)
                          -> Judge.Review (model)
                          -> MarkVisited -> Push of each kept direction
             -> SynthesizeAnswer -> model

The engines are single threaded: what makes them hard is not interleaving but
the model's arbitrary replies over a long run, the limits, and the order in
which the loop updates a queue whose own bookkeeping is split over three
containers. The chat server handles requests on a pool of threads that share
one `MemoryStore`; its page is one thread whose handlers overlap at every
`await`. `PatchApplier`, `MemoryStore` and the relay of Ollama's stream are where
a step can fail half way. A turn of the chat:

    send() -> POST /api/chat -> ExtractFacts -> AddFact* -> AllFacts
                             -> POST to Ollama, streamed back piece by piece
           <- pieces -> lines -> tokens -> the reply, pushed to the history

What makes each component correct:

* **TaskQueue**: the area set names exactly the queued areas; no area is queued
  twice; a visited area stays out; the queue is served in order.
* **ResearchEngine**: no area is explored twice and none that was accepted is
  lost; breadth first; the limits hold; the run ends and says truly why.
* **Worker, Judge**: the merged finding keeps every lead of the reports that
  count; the judge only prunes.
* **EditEngine, Editor, PatchApplier**: a dry run writes nothing; a file that
  was changed is reported, and one reported written is there as a whole (both of
  which fail, see below); an edit builds on the content it replaces.
* **MemoryStore**: the fact list is a set up to the case of ASCII letters, which
  is all that `ToLower` folds; file and memory agree after a save that works; a
  restart brings back the list saved last. When the process ends between the
  truncation and the write of a save that list is gone too, and the restart finds
  nothing: everything is lost, not the latest change only.
* **ChatServer**: a handler's list shows what the handler did; every request is
  answered.
* **Chat page**: one reply at a time; a reply is kept whole or not at all, behind
  the question it answers; the button always comes back.
* **Event viewer**: a node's status only moves forward.

## 2. Modules

| Module | Models | Kind |
|---|---|---|
| `Tasks` | `Task`, `Finding` (`include/cppcoder/Types.h`) | values |
| `TaskQueue` | the class `TaskQueue` | state and operations |
| `QueueClient` | any sequence of calls on a `TaskQueue` | specification |
| `Worker` | the replies a worker may report, and their merge | operators |
| `Judge` | what the judge may make of a finding | operators |
| `ResearchEngine` | a run of `Research`, with queue, worker and judge | specification |
| `PatchApplier` | the files, the edits written over them, the report | state and operations |
| `Editor` | the replies an editor may propose, and their merge | operators |
| `EditEngine` | a run of `Run`, with queue, editor and patch applier | specification |
| `Exploration` | a worklist exploration under a budget | abstract specification |
| `FactExtractor` | the facts a message gives away | operators |
| `MemoryStore` | the list of facts, its mutex, its file | state and operations |
| `ChatServer` | the handlers of `/api/memory` and `/api/chat` on threads, crashes | specification |
| `FactMemory` | a store of facts that survives restarts | abstract specification |
| `ChatRelay` | the relay of Ollama's stream, one per question | state and operations |
| `ChatPage` | the page of `web/chat.html`, with its relays | specification |
| `Conversation` | questions, and answers with all that was said | abstract specification |
| `MCQueueClient`, `MCResearchEngine`, `MCEditEngine`, `MCChatServer`, `MCChatPage` | small instances | model checking |
| `TaskQueueProofs` | lemmas on the queue | proofs |
| `ExplorationProofs` | theorems on every worklist exploration | proofs |
| `QueueClientProofs`, `ResearchEngineProofs`, `ResearchLimitsProofs`, `EditEngineProofs`, `ChatServerProofs`, `ChatPageProofs` | theorems | proofs |

### The queue

`TaskQueue` has one variable per member of the class (`queue`, `visited`,
`queuedAreas`) and one operator per method; `Push` is split into `Accept` and
`Refuse`, its two results. Both branches of `Push` in the code, for repeatable
tasks and for the others, make the same test and the same updates, hence one
operator. `Pop` on an empty deque is undefined; every caller asks `Empty` first,
so it is a guard.

### The research engine

`ResearchEngine` cuts `Research` at its calls to the model. `pc` says where the
run is:

| `pc` | Where | Actions |
|---|---|---|
| `start` | before the loop | `NoDirection`, `PushSeed` |
| `loop` | head of the `while` | `QueueDrained`, `IterationsReached`, `ClockExhausted`, `StartTask` |
| `work` | inside `Worker::Execute`, at one sub-area | `SkipUnreadable`, `Investigate`, `Abort` |
| `review` | `Judge::Review` | `Review` |
| `record` | `MarkVisited`, `++iterations`, the branch on the outcome | `Record` |
| `dispatch` | the loop over the directions | `Dispatch` |
| `finish` | after the loop | `Answer`, `GiveUp` |
| `done`, `aborted` | returned; ended by an exception | `Over` |

The locals of the loop body (`current`, `sub`, `raw`, `finding`, `next`) are
reset when the body ends. `counter` is the static counter of `Worker.cpp`.
`probed` and `scans` are history variables: no action reads them.

What is abstracted:

* Texts. An area is a model value, a summary is empty or not, and goals,
  criteria, prompts and events are left out. The umbrella area of the seed,
  `(keyword probe: N files)`, is the separate value `Probe`: it is not a path.
* Encodings. Of a text only this is kept: whether it is UTF-8 (`Garbled` holds
  the areas that are not). The question itself is assumed to be: one that is not
  makes the first event throw (`src/ResearchEngine.cpp:168`).
* Replies. The model may answer anything, so a parsed reply is any member of
  `Parsed` or `Reviewed`. All replies that come to "no information" are one
  value: the engine drops them unread, whatever else they carry.
* Time. `clock` counts whole minutes, as the loop's own test does, and moves at
  model calls only; scanning files is taken to be instantaneous. With
  `duration_cast<minutes>` rounding down, a call of less than `CallMinutes`
  minutes moves the count by at most `CallMinutes`. That a call has a longest
  time is an idealisation: the client's timeouts (`src/OllamaClient.cpp:16-18`)
  are those of single socket operations.
* `Scan` of a directory or glob is reduced to whether it includes any file
  (`Readable`). Its iterators may throw (`src/CodebaseScanner.cpp:52-54, 97-99`), as on
  a directory that goes away under them: the code base is taken to hold still.

### The edit engine

`EditEngine` is cut at its calls to the model and at every file written.

| `pc` | Where | Actions |
|---|---|---|
| `start` | before the loop | `NoTarget`, `PushSeed` |
| `loop` | head of the `while` | `QueueDrained`, `IterationsReached`, `ClockExhausted`, `StartTask` |
| `work` | inside `Editor::Execute`, at one sub-area | `NoReply`, `Investigate`, `Abort` |
| `record` | `MarkVisited`, `++iterations`, the branch on the edits | `Record` |
| `apply` | the loop of `PatchApplier::Apply` | `WriteNext`, `AbortApply` |
| `dispatch` | the loop over the directions | `Dispatch` |
| `done`, `aborted` | returned; ended by an exception | `Over` |

`disk` is the code base, `written`, `rejected` and `errors` are the three
lists of `ApplyOutcome`, `proposed` is the list of a dry run. The code enters a batch
in a local outcome first and merges it when the batch is done; between the two
nothing reads either, so the model keeps one. An exception (`Abort`, `AbortApply`)
takes all four lists with it (`Unwind`), as the locals of `Apply` and `Run` are unwound;
what is on the disk stays. Beyond what the research model abstracts:

* Content. An edit replaces the whole of a file, so of a content only its
  history is kept: how often the run has written the file, and whether the
  last write is there as a whole, was cut, or was lost when the stream was closed
  (`text`). An edit keeps the version its model was
  shown (`seen`, `Unseen` for a file outside the prompt) and the outcome of the
  reply it came in (`from`); no action reads either.
* Areas. An area is a file (`Path`) or covers files (`Covers`); `FilesAt` is what
  `Scan` finds there now, new files included. Any non-empty part of it
  may be what fits the token budget.
* Paths. `Outside` stands for the paths `IsPathSafe` refuses, absolute ones and
  those that resolve to a place outside the root.
* The file system. `Faults` says what it may fail at: `open` (making the
  directory or opening the file), `write` (a write that fails while the stream
  is open, the file being truncated already: `FailToWrite`), `close` (the flush in the
  stream's destructor, after the path has been entered as written: `FailToFlush`),
  `resolve` (`weakly_canonical` throws, as on a name that
  is too long). A fault may or may not happen at each edit.
* Time. The wall clock is one flag, `late`, which only ever rises; the limit's
  amount is studied in the research engine, whose loop has the same test.

### The memory server

`MemoryStore` has a variable for `facts_`, for the file and for the mutex. A method
is atomic up to the save: a method holds the mutex throughout, so nobody can see
it half done, except for the file, which a crash may find at any point. Saving is
therefore cut in two, at the truncation and at the write: `Truncate` leaves the
file `Torn`, `Write` makes it `Whole`. `FailToOpen` is one of the two early returns of
`SaveLocked`, `FailToWrite` a write whose failure nobody tests.

`ChatServer` runs a handler per thread:

| `pc[t]` | Where | Actions |
|---|---|---|
| `idle` | no request | `GetMemory`, `PostMemory`, `DeleteMemory`, `PostChat`, `BadRequest` |
| `add` | before `AddFact` of the next fact in `todo`, or before `AllFacts` | `AddNew`, `AddKnown`, `List` |
| `remove` | before `RemoveFact` | `RemoveKnown`, `RemoveUnknown` |
| `save`, `write` | in `SaveLocked`, before the file is opened and before it is written | `SaveBegins`, `SaveEnds` |
| `answer` | after `AllFacts` | `Answer` |

`Crash` ends the process at any step, all threads with it; `Restart` constructs the
store again. What is abstracted: of a text its words, whether a letter is upper
case and whether it has blanks around it are kept; of a message, what each
pattern captures. `due` and `gone` are history variables: the words a thread's list
has to show, and must not show, because of what the thread itself did. Another
thread that undoes the change takes the word off.

### The chat page

`ChatRelay` is the server's side of one question: whether Ollama accepted it, what it
sent (`sent` counts the tokens) and what is on the `wire`. Ollama's lines come whole or
cut in two, as chunks do. `ChatPage` is the browser's side. Each call of `send()` is a
closure, here functions of the number of the question; `stage[t]` says which `await`
it is at, `fetch` or `read`. Everything between two awaits is one action, as the
browser runs it, and the `catch` and `finally` blocks belong to the action that leads
there (`Fail`, `EndInError`, `EndInReply`, `Stop`, `TimerFires`). `history` and what
`localStorage` holds are one variable: the page stores the history at every change
(that storing may fail, as in a full storage, is left out). The list of models is
reduced to what `send()` reads of it: whether it shows models (`listed`) and whether
it is enabled.

Page and store meet in one place only, the text of a question that is searched for
facts, so `ChatServer` and `ChatPage` are checked apart: to either, the other is an
environment that may send anything at any time.

Operators that no action uses, each under a comment starting with "Slip", are
ways the code could be wrong. They replace the real definitions when
a property is tested for its power to notice a bug.

## 3. Runs

| Run | Instance | States | Question |
|---|---|---|---|
| `queue_client` | 3 areas and the umbrella, 5 tasks of which two share an area | 1824 | does the queue's bookkeeping survive every order of calls? |
| `research` | 4 areas (one unreadable, one not UTF-8), seed of up to 2, 1 direction a reply, 3 kept indices, 3 iterations, calls of up to 1 minute, budget of 1 | 100978 | what a run explores and in which order, with the loop reaching each limit with tasks left and with repeated and refused directions; how often an area is investigated; termination, its reason, the answer, and how far the clock overruns |
| `edit_apply` | 2 files (one not UTF-8), one new, one path outside; 2 edits a reply, 2 iterations, all four faults | 801059 | what is on disk, what is reported, what an edit builds on |
| `edit_dry` | 2 files and a directory over them, seed of up to 2, 1 edit and 2 directions a reply, 2 iterations | 435928 | the loop follows every lead, explores and ends |
| `memory` | 2 threads, 3 requests, 1 crash, 4 texts (two the same up to case and blanks, one blank), messages with 1 or 2 facts, faults `open`, `write`, a file that is missing, torn or whole at first | 134647 | the list, the file, the handlers' answers and the restarts |
| `chat` | 3 questions, 2 tokens a reply, 1 new chat, 2 requests for the models, 1 reload; the stream breaks between lines | 221688 | the page's closures, timers, buttons and history, and the conversation they add up to |
| `answer_lost` | as `research`, calls take no time | | where the research engine departs from its documents |
| `edit_overwritten` | 2 files, seed of up to 2 | | where the edit engine does |
| `edit_report_lost`, `edit_unflushed` | 2 files, seed of 1, 2 edits a reply, 1 iteration; fault `resolve`, or `close` | | where its patch applier does |
| `chat_cut`, `chat_cleared` | 1 or 2 questions; for the first the stream may break within a line | | where the chat page does |

The instances are small but hold every case the code distinguishes. In the
research run four areas let a finding name its own area, a visited one, a
queued one and a new one; a seed of two files with a direction from each gives a
finding with two directions; up to three kept indices of them give siblings, a
reordering, a repetition, a selection and a refused push before an accepted one;
the limits are low enough to be met with tasks queued and high enough for the
queue to drain first. In
`edit_apply` two edits in a reply give two of one file, a rejected one before a
good one and a failed one before a good one; a second iteration sees what the
first wrote, writes that were cut or lost included. `edit_dry` has the merge of two replies,
which `edit_apply` leaves to `edit_overwritten`: with
`Apply` off the disk is constant, which `TouchesAreReported` proves, and the space goes
to the search instead.
In `memory` three requests on two threads give one handler that lists while another
adds, removes or saves, and a third that comes after a crash or a failed save; two
facts in a message give a known one before a new one. In `chat` three questions
give a stopped, a failed and a good one in any order, with the timer of the
first still to go off under the others if it could; two tokens give a whole and
a cut reply and a line in two pieces.
Areas are interchangeable but no symmetry set is used, because temporal
properties are checked in the same runs.

### Properties

* `QueuedAreasExact`, `DistinctAreas`, `VisitedStayOut`, `Served`: the queue.
* `NoRevisit`: what is visited or in hand is not queued. `TaskQueue` alone
  does not give this, since `Pop` releases the area before anything marks it
  visited; it rests on `MarkVisited` coming before the directions are pushed.
* `NothingForgotten`, `LeadsFollowed`: an accepted area is not lost, and at the
  end of a partial finding's iteration each of its directions is queued or
  visited.
* `BreadthFirst`: the queue is sorted by depth and spans two levels.
* `IterationBudget`: the iteration count is the number of areas visited, and
  is limited.
* `UniqueIds`: no two live tasks share an id, although the judge may repeat a
  direction. The event log identifies tasks by id.
* `HonestReason`: the reported reason is the one that ended the run.
* `BoundedOverrun`: the wall clock is read between tasks only, so a run may
  exceed its budget by the seed's files, the judge and the synthesis.
* `ScannedTwiceAtMost`: an area is investigated at most once beyond the seed.
* `AnsweredUnlessAborted`: a task's success leads to an answer, also where a limit
  ends the run, but for the end of the program. `SuccessIsAnswered` leaves that
  exception out, as the documents do, and fails (`answer_lost`).
* `ReportedUnlessAborted`: without `--apply` no file is changed, and with it, one that
  the run changed, or cut, is in the lists the report is made of for as long as the
  run has them. A failed write leaves a truncated file, so this rests on the error
  being recorded. `TouchedIsReported` leaves the exception out, as the documents do,
  and fails (`edit_report_lost`).
* `OnlyFlushesAreMissed`: of a file reported written, and not also as an error, nothing
  is missing but what was lost at its close, whatever was written to it before or
  after. `WrittenIsWhole`, that nothing is missing, fails (`edit_unflushed`).
* `OnlyVouched`: an edit in a reply that is broken off, or that reports no change,
  is neither written nor proposed. The parser leaves such edits in the finding:
  it is the outcome that keeps them back, twice, in the merge and in the loop.
* `BuildsOnLatest`: a task's edit rests on what the tasks before it wrote. Checked
  for one file at a time; `NothingOverwritten` is the stronger claim that fails.
* `EveryEditReported`: an edit that cannot be applied does not take the others of
  its batch with it.
* `ImplementsExploration`: either loop implements `Exploration`, with the area in
  hand as part of the frontier.
* `Terminates`: the run ends.
* `Advances`: every step of a run brings its end nearer: an iteration is used up, or a
  stage of the iteration, or a turn of the stage's own loop (`Nearer`). A run has
  only finitely many steps, whatever the model replies.
* `StaysTidy`: no fact is stored twice up to the case of ASCII letters, none is blank
  or padded, where the file that is loaded first is so.
* `FileInStep`: whenever no save is under way the file holds the list, in its
  order, unless the last save failed. With the process dying between truncation
  and write, this rests on `Load` taking over what the file says.
* `OwnChangesListed`: the handler changes the store under one lock and lists it under
  another; its list shows its own change unless another request undid it.
* `ImplementsMemory`: the server implements `FactMemory`: one fact comes or goes at a
  time, and a restart brings back what was saved last, which a save that is broken
  off has made nothing; while the latest change is saved a restart changes nothing.
* `Answered`: every request is answered unless the process ends, so no path leaves
  the mutex taken.
* `OneAtATime`: one `send()` is under way, the button knows it and the controller at
  hand is its own.
* `TimersAreCurrent`: a timer that goes off finds its own question under way. The
  code aborts whatever is current, so this is what makes that right.
* `ReplyFollowsQuestion`: a reply stands behind its own question, or first in a
  conversation that was cleared under it.
* `ReplyIsWhole`: a reply in the history, which the model is shown with the next
  question, is all that Ollama had to say. It holds where the stream breaks between
  lines only (`chat`) and fails where it breaks within one (`chat_cut`).
* `ImplementsConversation`: page and relay implement `Conversation`: one question at a
  time, to which tokens are said until they end; it is answered with all of them in
  one message, or is given up with nothing said. The pieces, the buffer, the relay's
  failures, the timers and the button are the detail. `Torn` says whether what is said
  may break off as if it had ended, which is so where a stream breaks within a line.
* `SendEnds`: the user gets the button back, whatever the server does or does not.
* `StaysCleared`: of a cleared conversation nothing turns up in the next (fails).

### Fairness

`QueueClient` assumes weak fairness of `Pop` only: an engine keeps popping while
its limits allow, nothing is assumed of pushes. `ResearchEngine` and
`EditEngine` assume weak fairness of the whole `Next`: a run is one thread that
is never blocked for good, since each model call has socket timeouts
(`src/OllamaClient.cpp:16-18`). No reply is assumed to be helpful, and no fault
is assumed to happen or to stay away.

`ChatServer` assumes weak fairness of each thread's handler: a thread of the pool that
can go on does, and nothing in a handler waits but for the mutex, which is held
for one method at a time. Weak fairness is enough for the mutex because the
requests are bounded: a thread cannot be overtaken for ever. Nothing is assumed of
arrivals, crashes and restarts.

`ChatPage` assumes weak fairness of the page's timers only: the browser runs a timer
that is due. Nothing is assumed of the server, of Ollama or of the user.

### Where the code and its documents differ

* `SuccessIsAnswered`: `README.md:43-44` says the findings are synthesized once a task
  has succeeded. A later file that is not UTF-8 makes the serialization of the
  request throw (`src/OllamaClient.cpp:30`), outside of the `try` that guards the
  rest of the call, and nothing up to `main` catches it.
* `NothingOverwritten`: `README.md:332-335` says each edit is applied as soon as it is
  produced, so that a task sees its own earlier edits. The edits of all the
  seed's files are gathered first (`src/EditEngine.cpp:180`), so one may be
  written over another that its model has not seen.
* `TouchedIsReported`: `README.md:335-336` says the run report lists what was written,
  rejected or hit an error. A path that cannot be resolved, say one too long for
  the file system, throws (`src/PatchApplier.cpp:13-25`); the outcome of the batch and
  that of the run are unwound, and files that were written are in no report.
* `WrittenIsWhole`: the same sentence. The stream is tested before it is flushed
  (`src/PatchApplier.cpp:69-75`), and a small file is flushed by the destructor only: on a
  full disk it is reported written and is empty.
* `ReplyIsWhole`: `web/README.md:43` says the stream is forwarded as it comes. When it
  breaks off within a line, the server's error line is appended to half a line
  (`src/ChatServer.cpp:201`), the page cannot parse the two and drops them, and the
  cut reply is kept as a good one.
* `StaysCleared`: `web/chat.html:625` asks "Clear the current conversation?". A reply
  under way at that moment is pushed into the new conversation when it ends.

Seen while modelling, and kept as text because no run asks for them:

* `include/cppcoder/TaskQueue.h:10-12` says an area is never investigated twice; the
  seed's files are not marked visited, so a direction that names one has it
  investigated again. `ScannedTwiceAtMost` is what holds.
* `include/cppcoder/Judge.h:8-9` says the judge only prunes; a reply that repeats an
  index makes the finding longer and `rejected_count` wraps around. `UniqueIds` is
  what holds.
* `web/chat.html:652` says "No model selected" where there is none. With two requests
  for the models under way, the one that fails shows a placeholder in a list that
  the other has enabled (`web/chat.html:533`), and the placeholder's text is sent as the
  model. `AsksAModel` says that this does not happen; with `MaxLoads = 2` it fails, with
  one request at a time it is a theorem (`OneLoadAsksAModel`).
* `include/cppcoder/MemoryStore.h:35` says a change is persisted at once. Saving truncates
  the file before it writes it (`src/MemoryStore.cpp:104`), so the end of the process in
  between loses the whole list, and a file that does not parse is overwritten by
  the next save. `FactMemory` has the step (`Discard`).

## 4. Proofs

The theorems hold for every set of areas and files, every limit and every bound on
replies, under the assumptions next to the constants: `Probe` is no area;
`Readable` is a set of areas; `Garbled` is a part of `Readable`, or of `Sources`;
the limits are integers; the seed is cut at a positive length; call times are
natural numbers; files are areas, the original ones are files, and no path is
both inside and outside; `NoThread` is no thread; the file holds a tidy list at
first; the facts the patterns make are words and not blank.

| Theorem | States |
|---|---|
| `QueueClientProofs!QueueCorrect` | types, `QueuedAreasExact`, `DistinctAreas` |
| `QueueClientProofs!AreasStayDistinct` | `DistinctAreas` |
| `QueueClientProofs!VisitedNeverQueuedAgain` | `VisitedStayOut` |
| `QueueClientProofs!NoAreaIsOvertaken` | `NeverOvertaken`: what is pushed comes behind every queued area |
| `ExplorationProofs!ExplorationAddsUp` | `WorkAddsUp`, of every exploration |
| `ExplorationProofs!DrainedExploredAll` | an exploration that drains has explored all it ever found |
| `ResearchEngineProofs!TypeCorrect` | `TypeOK` |
| `ResearchEngineProofs!QueueStaysExact` | `QueuedAreasExact`, `DistinctAreas` in the loop |
| `ResearchEngineProofs!NeverRevisits` | `NoRevisit` |
| `ResearchEngineProofs!WithinIterations` | `IterationBudget` |
| `ResearchEngineProofs!ExploresBreadthFirst` | `BreadthFirst` |
| `ResearchEngineProofs!ForgetsNothing` | `NothingForgotten` |
| `ResearchEngineProofs!FollowsLeads` | `LeadsFollowed` |
| `ResearchEngineProofs!IdsAreUnique` | `UniqueIds` |
| `ResearchEngineProofs!Implements` | `ImplementsExploration` |
| `ResearchEngineProofs!WorkAddsUp` | `WorkAddsUp`, of the research loop |
| `ResearchEngineProofs!DrainedVisitedAll` | what is ever queued has been visited when the run ends drained |
| `ResearchEngineProofs!RunAdvances` | `Advances` |
| `ResearchLimitsProofs!ScannedAtMostTwice` | `ScannedTwiceAtMost` |
| `ResearchLimitsProofs!ReasonIsHonest` | `HonestReason` |
| `ResearchLimitsProofs!OverrunIsBounded` | `BoundedOverrun` |
| `ResearchLimitsProofs!SuccessesAreKept` | short of an abort no success is dropped; a run that gets done is answered just if it has one |
| `EditEngineProofs!TouchesAreReported` | `ReportedUnlessAborted` |
| `EditEngineProofs!OnlyVouchedEdits` | `OnlyVouched` |
| `EditEngineProofs!CutsAreErrors` | `OnlyFlushesAreMissed` |
| `EditEngineProofs!EditTypes` | `TypeOK` |
| `EditEngineProofs!TasksBuildOnLatest` | `BuildsOnLatest` |
| `EditEngineProofs!EditsAreReported` | `EveryEditReported` |
| `EditEngineProofs!EditLeadsFollowed` | `LeadsFollowed` |
| `EditEngineProofs!EditImplements` | `ImplementsExploration` |
| `EditEngineProofs!EditWorkAddsUp` | `WorkAddsUp`, of the edit loop |
| `EditEngineProofs!EditDrainedVisitedAll` | as `DrainedVisitedAll` |
| `EditEngineProofs!EditIdsAreUnique` | `UniqueIds` of the edit loop |
| `EditEngineProofs!EditRunAdvances` | `Advances`, writes included |
| `EditEngineProofs!EditRunSurvives` | no abort, if `Garbled = {}` and `Faults` is at most `{"open"}` |
| `ChatServerProofs!ServerTypes` | `TypeOK` |
| `ChatServerProofs!StoreStaysTidy` | `StaysTidy` |
| `ChatServerProofs!FileStaysInStep` | `FileInStep` |
| `ChatServerProofs!HandlersListTheirChanges` | `OwnChangesListed` |
| `ChatServerProofs!ServerImplementsMemory` | `ImplementsMemory` |
| `ChatServerProofs!MutexIsForSaving` | `HeldForSave`: who holds the mutex is saving |
| `ChatServerProofs!EveryHandlerAdvances` | `HandlersAdvance`: no handler goes back, and what is not an arrival or a restart takes one forward |
| `ChatPageProofs!PageTypes` | `TypeOK` |
| `ChatPageProofs!PageOneAtATime` | `OneAtATime` |
| `ChatPageProofs!PageTimersAreCurrent` | `TimersAreCurrent` |
| `ChatPageProofs!RepliesStandBehindQuestions` | `ReplyFollowsQuestion` |
| `ChatPageProofs!RepliesAreWhole` | `ReplyIsWhole`, if `"within" \notin Breaks` |
| `ChatPageProofs!PageImplementsConversation` | `ImplementsConversation` |
| `ChatPageProofs!AnswersComeInOrder` | `InOrder`, of every conversation and so of the page |
| `ChatPageProofs!QuestionsAreTimed` | a question under way has its timer set |
| `ChatPageProofs!OneLoadAsksAModel` | `AsksAModel`, if `MaxLoads <= 1` |
| `ChatPageProofs!PatientClearsStay` | `StaysCleared`, if no conversation is cleared under a reply |

The argument, from the bottom:

1. `TaskQueueProofs`: `Push`, `Pop` and `MarkVisited` each keep the queue's types,
   its exact area set and the distinctness of its areas. These need each other:
   `Pop` removes one area from the set, which is exact only if no other queued
   task has that area.
2. First in `ResearchEngineProofs`: what a reply, a merge and a review return is a finding.
3. `Base` in `ResearchEngineProofs` is the type invariant with the queue's
   invariant and the ranges of the two indices, `sub` and `next`.
4. `Explored` adds to `NoRevisit` and `IterationBudget` that `visited` is finite
   and that the loop entered its body with an iteration left. `Record` needs
   `NoRevisit` for the count: the area it marks is new.
5. `BreadthFirst` is inductive on top of `Base`.
6. `LeadsFollowed` needs `Dispatching`: the directions before `next` are queued
   or visited.
7. `UniqueIds` needs `Ids`: every id ever given out is below the counter, a
   direction in hand is newer than every task on the queue, and two directions
   or tasks with one id have one area; the queue's test on the area does the rest.
8. `Implements` maps each action to a step of `Exploration` or a stutter.
9. `ScannedAtMostTwice` needs `Shape`, that only the seed has sub-areas and that
   they are distinct and what `probed` says, and `ScanCount`, which bounds each
   area's count by where it is: once for the seed's pass over it, once more
   only if it is visited or in hand. `NoRevisit` then keeps it from being taken
   up again.
10. `ReasonIsHonest` needs `Told`: what the reason may be at each `pc`, with the
    test that led there still true.
11. `OverrunIsBounded` needs `Overrun`: with a task in hand the clock has passed
    the budget by no more than the calls the task has made so far, of which there
    is one per sub-area and one of the judge. A task is started only below a positive
    budget (`Started`), and the seed has at most `MaxCandidates` files.
12. `EditEngineProofs`: `Ledger` ties the disk to the lists entry by entry (a file
    that differs is in one of them until an exception takes them, and stays changed
    then), `Standing` says
    that the edits gathered so far are vouched for when the finding counts. `Base` is
    the types with the queue's invariant and the range of `next`, from the same queue
    lemmas as the research loop's. `UpToDate` strengthens `BuildsOnLatest`: until the
    task writes, all of its edits rest on the files as they are; while it writes, those
    whose file it has not come to. `Handled` and `Dispatching` say what has become of
    the edits and the directions before `next`, and `InHand` is what `EditImplements`
    needs of the task in hand: new until it is recorded, and taken up with an
    iteration left. Without a judge the ids simply go up (`DirectionsAhead`), which is
    why this proof of `UniqueIds` differs from the research loop's.
13. `ChatServerProofs`: `IInv` adds to the invariants that a thread holds the mutex just
    while it saves (`Holds`), that a change under way has a fact (`HasFact`), that the
    file's list is tidy (what `Restart` takes over), that no handler outlives its
    process (`Alone`), and `Listing`: what a handler's list has to show is in the store
    or among the facts it has yet to add. A step of another thread keeps `Listing`
    because it takes off every word it undoes (`StillListing`). Erasing one fact of a
    tidy list erases its word (`TidyWithout`), which is why `StaysTidy` comes first.
14. `ServerImplementsMemory` maps the words of the list to what is known, those of the
    file to what is saved, and "no save under way and none failed" to safe; the
    truncation is a `Discard`, `Crash` a stutter, `Restart` a stutter when `FileInStep` says
    so and a relapse when the last save failed or was broken off.
15. `ChatPageProofs`: `OneAtATime` and `TimersAreCurrent` need each other and the order of
    the questions. `ReplyIsWhole` rests on a count: the tokens the page has plus those
    on the wire are those Ollama sent (`Counted`, with the pieces counted by their
    cardinality), a line's second part comes right behind its first, and a stream
    that failed has an error line on the wire or seen, which no half line precedes
    if streams break between lines only.
16. `PageImplementsConversation` maps the open question to the one the controller belongs
    to and what is said to it to `sent`, Ollama's own count, not the page's. A reply
    then is an answer with all that was said because `Counted` says so with the wire
    empty, and it comes after the end because, unless streams break within lines, a
    stream that failed shows an error (`AllFramed`); where they do, `Torn` allows it.
    Sending opens a question because nothing was said to it yet, and every way to
    stop one closes it.
17. `ExplorationProofs` and the `Talk` lemmas of `ChatPageProofs` prove invariants of the
    abstract specifications, where they are short: `WorkAddsUp` is inductive as it
    stands, `InOrder` once no message is of a later question and the open one has no
    answer yet (`TalkInv`). The programs have them because they implement these;
    `Work` in the engines' proofs is the instance that carries them over.
    `DrainedVisitedAll` spans a run: a place once found stays found, and a drained
    frontier leaves only the explored.

What is proved of the liveness properties is all but their fairness:

* `Terminates`: `RunAdvances` and `EditRunAdvances` give a variant, three naturals in
  lexicographic order: iterations left, stages left in the iteration, turns left in
  the stage's loop (sub-areas, directions, edits). That the first falls rests on the
  iteration limit (`Explored`, `InHand`), the last on the indices' ranges.
* `AnsweredUnlessAborted`: `SuccessesAreKept`, from `Told`.
* `Served`: `NoAreaIsOvertaken`, so that each `Pop` brings a queued area one place
  forward and nothing brings it back.
* `Answered`: `EveryHandlerAdvances`, and by `MutexIsForSaving` a handler that waits
  waits for a save, which waits for nothing.
* `SendEnds`: `QuestionsAreTimed`: the timer that the fairness is about is set.

And of the runs that end in a violation it is proved what the violation takes:
`PatientClearsStay` (a clear under a reply), `RepliesAreWhole` (a break within a line),
`TasksBuildOnLatest` (for `edit_overwritten`, an earlier edit of the file in the same
finding, where the later one's model was shown the file), `TouchesAreReported`
(for `edit_report_lost`, an exception), `CutsAreErrors` (for `edit_unflushed`, a failure
at the close) and `SuccessesAreKept` (for `answer_lost`, an abort); `OneLoadAsksAModel`
says the same of `AsksAModel`. `EditRunSurvives` is about the model's own two
exceptions, text that is not UTF-8 and a path that is not resolved; the code has
those of section 2 besides.

Only model-checked: `Served`, `Terminates`, `AnsweredUnlessAborted`, `Answered`, `SendEnds`, as
liveness under fairness is out of the prover's reach. Every other property of a
passing run is a theorem.

## 5. Plan

1. Queue, research loop, worker and judge, edit loop, editor and patch applier,
   with their runs and theorems (done).
2. `MemoryStore`, `FactExtractor` and the handlers of `ChatServer`, with crashes and
   failed saves, against `FactMemory`, with its theorems (done).
3. The relay and the chat page, with its theorems (done).
4. The remaining proofs for the edit loop: `TypeOK`, `EveryEditReported`,
   `BuildsOnLatest`, `LeadsFollowed` and the refinement of `Exploration` (done).
5. The refinement of `Conversation`, the variants of both loops, the safety halves of
   the liveness properties and what the violations take (done).
6. The invariants of `FactMemory` by itself, and `BreadthFirst` of the edit loop, which
   queues as the research loop does.
7. The event viewer: node states under the events of a run, composed with
   the events `ResearchEngine` emits.
8. Pure functions: the JSON extraction and the scanner's token budget,
   against reference definitions over bounded inputs.

Not modelled, and why: the command line (straight-line I/O), the replay demo (canned
events), vendored libraries, the contents of prompts, the memory panel of the chat
page (a display that asks again after every change), its rendering, a second tab
(two copies of the page whose last save wins), files of facts edited by hand into
something the store itself never writes (the file is tidy when it is first loaded),
exceptions of directory iterators and of a question that is not UTF-8, and the size of the server's pool.
