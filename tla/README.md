# A TLA+ model of the App Builder team

This directory holds TLA+ specifications of `appbuilder`, a web application in
which a Project Manager (PM) agent delegates work to specialist agents. The
specifications are checked with TLC on small instances; the invariants that
matter most are proved with TLAPS for every value of the constants.

File and line references are to the repository (`app/agent.py:572` is written
`agent.py:572`).

## 1. The system

| Component | State it keeps | Operations | Talks to |
|---|---|---|---|
| PM graph (`agent.py:690-789`) | the LangGraph checkpoint: messages, a paused `ask_user` | `pm` node, `tools` node (all tool calls of a message at once), `assign_task`, `ask_user`, `set_response_language` | specialists (calls), server (stream events, interrupt) |
| Specialists (`agent.py:540-684`) | one message list per agent in `_SPECIALIST_HISTORY[thread_id]`; the chain of callers of each running activation | the tool loop `_run_specialist`, `_run_discussion`, `_trim_history` | each other (nested calls), files, commands, LLMs |
| Delegation budget (`agent.py:329-335`) | `_ASSIGN_BUDGET[thread_id]` | charge, reset | PM, server |
| LLM calls (`agent.py:499-535`) | none | call, classify the error, back off, retry | providers, metrics |
| Command sandbox (`agent.py:185-301`) | a child process group, a container | run, time out, kill, cap the output | specialists |
| File tools and write zones (`agent.py:68-158`, `369-394`) | the session's workspace | read, write, list, ownership check, on tool threads | specialists |
| Session handler (`server.py:154-326`) | per connection: `waiting_for_answer`, `language`, `title_set`, `metrics_base` | connect, replay, receive, run a turn, end a turn, clean up | everything |
| Session store (`session_store.py`) | `meta.json`, `specialists.json`, `events.jsonl` | append, read, merge, atomic replace | handler |
| Language (`language.py`) | a ContextVar, `_PINNED[thread_id]` | detect, resolve, pin, restore, forget | handler, PM |
| Metrics (`metrics.py`) | session totals, request bucket, `runs/` | record, start, finish, drop | handler, LLM calls |
| Browser client (`static/index.html`) | busy flag, panels, `thread_id` in `localStorage` | send, handle an event, reconnect, switch | handler |
| Benchmark harness (`benchmark/run_benchmark.py`) | one run at a time | run a task, answer questions, report | PM graph, metrics |

Everything but the tools runs in one asyncio loop. Code between two awaits is
atomic; the interleavings are those of coroutines at their awaits. Tools run on
threads and interleave at their system calls. The hard behaviours are
nested and concurrent delegation over shared, trimmed histories; a PM that
pauses in the middle of a tools node; connections and processes that break at an
await; and state that is kept in several places (checkpoint, `meta.json`,
handler, registries) and must agree after a reconnect.

What makes each part correct:

- *Delegation*: no agent waits for itself; nesting is bounded; every activation
  and every turn ends; a request never starts more specialists than the budget.
- *Histories*: what an LLM is sent is bounded, non-empty, and pairs every tool
  call with its reply; what is appended is what is kept.
- *Metrics*: every call is counted, in one record, of its own request; a closed
  session leaves nothing behind.
- *Files*: agents meet only in files that are shared; a file holds the last text
  that was reported as written.
- *Store*: whatever fails or dies, the three files of a session never contradict
  each other and lose no more than the failure itself.
- *Commands*: a command that ends, times out or hangs leaves nothing running and
  does not hold up its agent.
- *Client*: what the page shows is what is stored, its input is open exactly
  when the server waits for input, and it always opens again.
- *Session*: a pending question is found again, work and cost are neither lost
  nor invented, a pinned language stays pinned, and what a connection loaded is
  released with it.

## 2. Modules

| Module | What it is |
|---|---|
| `History` | A specialist's message list and `_trim_history`, as pure operators. |
| `SpecialistTeam` | The delegation core for one session: PM graph, tool loops, discussions, budget. EXTENDS `History`. |
| `CallStacks` | The abstract specification of delegation: one stack of distinct agents per task. `SpecialistTeam` implements it (`ImplementsStacks`). |
| `Session` | One saved session: handlers, registries, and what is on disk, with breaks at every await. |
| `RunCommand` | One `run_command` call against the operating system and the Docker daemon. |
| `Client` | The browser page and its connection to a handler, with breaks, reloads and session switches. |
| `RunMetrics` | LLM calls with their retries, the session and request scopes of `METRICS`, the records under `runs/`, and the two programs that open and close requests: a handler and a benchmark run. |
| `SessionStore` | The files of one session under failing reads, torn and failed writes, and a process that dies between any two system calls. |
| `DurableStore` | The abstract specification of a saved session. `SessionStore` implements it (`ImplementsStore`). |
| `FileTools` | `write_code_file` on tool threads: ownership zones, path resolution, and the system calls of a write. |
| `MCSpecialistTeam`, `MCSession`, `MCRunCommand`, `MCClient`, `MCRunMetrics`, `MCSessionStore`, `MCFileTools` | Instances for TLC. |
| `History_proofs`, `SpecialistTeam_proofs`, `Session_proofs`, `RunCommand_proofs`, `FileTools_proofs`, `RunMetrics_proofs`, `SessionStore_proofs`, `Client_proofs` | The theorems. |

The modules meet at narrow interfaces. What `Session` calls a piece of work is
one activation of `SpecialistTeam`; that a turn ends (`TurnsEnd`) is the fairness
of `Client`; that a tool returns (`CommandReturns`) is the fairness of
`SpecialistTeam`. `Client` sees the handler from outside and `Session` from
inside: both clear the pending question when a message is received and set it
when the PM asks. `Session` takes the code between two awaits, with all its file writes,
for one step; `SessionStore` takes those steps apart. The totals of `Session`
are the session scope of `RunMetrics`. That a call to an LLM ends (`CallsEnd`) is
the fairness of `SpecialistTeam`.

Operators whose comment begins with "Mutant" are plausible bugs. No
specification uses them; replacing the definition that follows by one of them
makes a run of section 4 fail, which shows that the property can see the code.

### SpecialistTeam and the code

An *activation* is one call of `_run_specialist`; `frames` holds the live ones.
Its record has the agent, the activation that called `discuss_with` (`parent`, 0
for an assignment), the root of its call stack (`task`), the `chain` argument,
a reference to its message list, the loop counter `steps`, the tool calls still
unanswered (`left`) and where it is suspended (`pc`). `active` is the activation
that holds the event loop: the small actions of one activation follow each other
without interleaving until it awaits an LLM, a tool, or a peer.

`heap` and `bucket` model Python references: `bucket[a]` is the list object
`_SPECIALIST_HISTORY` holds for agent `a`, an activation holds its own
reference, and `_trim_history` creates a new object when it cuts. This is what
`BucketInSync` and `team_nested_failure` are about. A message keeps its type,
the activation that appended it and the number of its tool calls.

| Action | Code |
|---|---|
| `StartStep`, `StepLimit` | the top and the end of the loop, `agent.py:603-620`, `683-684` |
| `LlmAnswers`, `LlmFails` | the outcome of `_invoke_with_retry`, `616-632` |
| `RefuseTool`, `CallTool`, `ToolReturns` | a zone or unknown-tool refusal, an awaited tool, `657-681` |
| `RefuseDiscussion`, `Discuss` | the guards and the nested call of `_run_discussion`, `548-569` |
| `ReplyToPeer`, `ReportToPm` | the return of an activation |
| `RaiseToPeer`, `RaiseToPm` | an exception passing through it; nothing in the loop catches it |
| `PmCallsTools`, `PmEndsTurn`, `ToolsDone` | the two nodes of the graph and its routing, `749-789` |
| `AssignUnknown`, `AssignOverBudget`, `Assign` | `assign_task`, `690-709` |
| `AskUser`, `AnswerUser` | `interrupt()` and `Command(resume)`: the whole tools node runs again |
| `NewRequest` | a message that is not an answer, `server.py:244-249` |

LangGraph's `ToolNode` is external. As used here it starts one task per tool
call of a message, re-raises the first exception without cancelling the other
tasks, and abandons the node on an interrupt.

Left out: prompts and texts, workspaces, stream events, metrics, language.

### Session and the code

`meta`, `saved`, `log` and `ckpt` are on disk, `hist`, `budget`, `pin` and
`totals` in the process, `conn[c]` are the local variables of a handler. `at`
names the await a handler is suspended in: the first events of a connection
(`opening`), `receive_json` (`ready`), the language event (`switching`), the
`working` event of a request or of an answer (`starting`, `resuming`), the
stream (`turn`), the question event (`asking`). One action is the code from one
await to the next. `Leave` is an await that raises; in the stream this means
that the error event raises too, so that neither `save_specialists` nor the
accounting runs. `Crash` is the death of the process. Either may happen at any
await and any number of times. The history variable `broken` remembers at which
of the `Delicate` points something broke, so that a property can say which
breaks may cost what.

One piece of work is one specialist run: a member of its agent's history, of the
log and of the cost. Left out: the window of a history, the PM's own messages,
titles and timestamps, a crash between two file writes of one block, and a
graph that writes on for a moment after its handler has gone (its list objects
are no longer in the registry).

### RunCommand and the code

`pc` is the statement of `run_command` (`agent.py:232-301`) that comes next or
blocks; `sandbox` and `posix` are the two settings it branches on and are chosen
in the initial state. Everything else that moves is external: the shell or
`docker run` client that `Popen` started (`main`), the background processes of a
shell, which may hold its pipes or not and may leave its process group, and the
container, which the daemon starts and ends in its own time, whether the client
that asked for it is still there or not. `docker kill` (`_kill_container`) may
find no container yet, or fail: its errors and its timeout are swallowed.

Calls share nothing, so one call is all of them. Left out: the text of the
result and its cap, and that the number of an ended process group can be given
to another one.

### Client and the code

The page's variables are those of the script (`index.html:252-261`) that have
an effect on others; all panes are one list. `down` is the order of the
handler's sends, `up` that of the page's. Each branch of `handleEvent` that
changes them is an action (`OnOpen` ... `OnDone`), and so are `connect`,
`onclose`, `switchSession`, `send` and a reload of the page.

A handler accepts and sends all its opening events at once (`Open`,
`server.py:154-210`): the page sees them one by one, and a break between them
drops the rest. A break is not noticed on the other side: the handler goes on
alone, logs and stores, until one of its sends or its receive raises (`Leave`);
until then it may still receive what the user had written. The history variable
`early` says that the user wrote before the page had handled all the opening
events, which the page allows.

Assumed: a session has one handler at a time, so that a page that comes back
waits until the last handler has gone. Two at a time are the subject of
`session_two_tabs`. Left out: tabs and badges, the file panel, the clock, the
session list, texts and language.

### RunMetrics and the code

A *worker* is a coroutine that makes LLM calls one after the other: the PM, or
the call stack of one assigned task. Its steps are those of `_invoke_with_retry`
(`agent.py:499-535`): an attempt, the record of its success or of a retry
(`Record`), the backoff, the re-raise of the last attempt, which is recorded
nowhere. What an attempt adds to the counters is an `Entry`; a scope of
`METRICS` is the set of entries added to it since it was made, and a record is
the request scope as `finish_request` found it.

When a question or an exception ends a graph run, the tasks of its tools node
that are not done are not cancelled (`SpecialistTeam` shows where): their workers
become *strays*, which go on calling and recording. `Leave` and `EndRun` close a
graph run with its workers, but cannot reach strays; the death of the process
ends those too.

`driver` chooses the program in the initial state: a handler (`server.py:240-249`,
`305-311`, `321-326`) or one benchmark run (`run_once`), which answers every
question itself, at most `MAX_RESUMES` times, and may be cancelled by its timeout
at any moment. Left out: the length of the backoff, prices and sums, the live
metrics events, tool-call counts (they are recorded like calls), and a failed
append to `runs/`.

### SessionStore and the code

`events` is `events.jsonl` as the sequence of what each `append_event` left
there: a whole line, or one cut before its newline, inside its JSON text, or
inside a multi-byte character. `Replayed` is `read_events`, which stops at the
first line that is not JSON; text is decoded by the chunk, so that half a
character in the middle of the file also takes the earlier lines of its chunk.
`json` holds `meta.json` and `specialists.json`; `_atomic_write` is three steps
(`OpenTmp`, `WriteTmp`, `Replace`), and the process may die before, between and
after them (`Die`). `Load` gives an empty value when a read fails, and
`update_meta` writes that value back with its change. `pc` follows the order in
which `ws_endpoint` calls the store. Two kinds of contents of `meta.json` stand
for all: the pending question, and the accounts, named by the work they cover.

### FileTools and the code

`Refuse` and `CallWrite` are the tool loop's question to `_zone_error` and the
tool's to `_safe_path`. LangChain runs a tool on a thread, so that `OpenFile`
(which truncates) and `WriteText` (which writes from the start of the file) of
two specialists can be interleaved; either may fail. A path is the sequence of
its segments, entered one after the other (`Resolved`), where `.` stays and `..`
goes up. `disk` says which writes have text in a file; `disturbed` are the
files whose last opening overlapped another write, or whose last write failed.
Left out: reading and listing, and what `run_command` does to the workspace.

## 3. Properties that hold

SpecialistTeam:

- `NobodyWaitsForItself`, `CallTree`: the cycle guard looks only at the chain
  argument; it is enough because the chain *is* the stack of callers.
- `BucketInSync`: the list an activation appends to is the list the registry
  keeps. `WindowAtInvoke`, `PairedOrCutOffAtInvoke`: what an LLM is sent is
  bounded, starts with no reply, and answers every tool call before the next
  message, but for the calls of an activation that an exception has cut off.
- `DelegationBudget`: over all PM messages of a request and the re-runs of a
  tools node that a question interrupted.
- `QuietWhenIdle`: a turn is over only when its specialists are.
- `ImplementsStacks`: every step is a step of `CallStacks` or a stutter.
- `ActivationsEnd`, `TurnsEnd` (liveness).

Session, wherever a connection or the process breaks:

- `NoPhantomQuestion`, `MemoryOnDisk`, `LanguageKept`, `CostNotInvented`: the
  copies that a reconnect brings together agree.
- `NothingTakenBack`: no step takes back stored work, cost, or a stored pin.

RunCommand:

- `NothingLeaks`: when the tool returns nothing of the command runs, except a
  process that left the group of an unsandboxed shell, and a container that the
  last `docker kill` missed (`spared`).
- `SecondReadEnds`: the `communicate()` after the kill has no timeout; it blocks
  only on a process out of the reach of that kill, and never in a sandbox.
- `CommandReturns` (liveness): with the same exception the tool always returns,
  although a command may run for ever.

Client, with breaks, reloads and switches at any moment:

- `PanesAreTheLog`: panes and events in transit are `events.jsonl` and messages
  in transit, in the same order.
- `InputLockedInTurns`, `AnswersAreAnswers`: the user can write only while the
  server waits for input, and the server takes a message for an answer exactly
  when the page had asked for one.
- `FooterIsStored`: the sum of the two totals of the footer is the stored total.
- `InputComesBack` (liveness): a connection that lasts unlocks the input again
  and again.

The first three make an exception for a user who wrote `early`. The exception is
needed: without it TLC finds a message erased by the `session` event, a second
message during the turn of the first, and an answer sent as a request. The cause
is that `ws.onopen` unlocks the input (`index.html:583`) before the replay and
`awaiting` or `done` have come.

RunMetrics, over questions, errors, breaks, timeouts and crashes:

- `CountedOnce`: a finished request that made a call has exactly one record, and
  no call is in two.
- `RecordsWhole`: a record has all calls of its request and no other, but for
  calls of strays, and calls dropped with a lost connection.
- `LeftOnlyByStrays`: a closed session leaves in `METRICS` only what strays record
  after it was dropped.
- `CallsEnd` (liveness): every call ends, with an answer or an exception.

SessionStore, under every combination of failures:

- `ImplementsStore`: each kind of failure costs what `DurableStore` allows it to
  and nothing else: without a torn line the replay only grows, without a failed
  read the team's work only grows and `meta.json` changes one entry at a time,
  and no failure ever shows a half-written file.
- `StoresInOrder`: where only the process dies, the accounts cover only work that
  the team remembers, and the team remembers only work that the log shows.

FileTools:

- `OnlySharedFilesMeet`: the paths of two agents lead to one file only if it is
  `README.md`, `.env.example` or the API contract. This is about paths without a
  parent segment, whose first segment names the app folder (a leading `.` would
  shift the segment that the ownership check takes for the zone).
- `LastWriteStands`: a file that no thread is writing has the text of the last
  write reported OK, unless that write overlapped another one or a later one
  failed when it had already emptied the file.

Session: what a break at a delicate point costs, and what only such a break can
cost:

| Property | What is promised | Breaks that end the promise |
|---|---|---|
| `QuestionLostOnlyInTransit` | the input is armed for an answer exactly when the graph waits for one | while the question is sent, or the answer is handed over |
| `WorkLostOnlyInTurns` | the team remembers what the user saw it do | during a turn |
| `LeftOnlyByReplay` | a closed session leaves no entry in the process | a client that leaves during the replay |
| `BudgetLostOnlyWaiting` | a request never delegates more than the budget | a connection lost while a question of the request is open |
| `CostLostOnlyUnfinished` | the stored total is all that was spent | before the request is finished, a question included |

Every one of these breaks does cost what the table says: `session_lost_question`
shows the first, and TLC finds each of the others when the break is left out of
the property.

Seen while modelling, without a run of their own:

- A page closed during a turn makes `save_specialists` and the accounting be
  skipped (the error event raises too): the replay shows work that the team has
  forgotten, against README.md:223-229. This is the break of
  `WorkLostOnlyInTurns`.
- The end of a turn stores the handler's local `language` beside
  `language_pinned=True` (`server.py:312-315`), although `set_response_language`
  has pinned another one during the turn: a reconnect pins the language of
  before (`PinIsWanted` in `Session`, against `language.py:135-136`).
- README.md:110 says that the backend is "the only agent allowed to change"
  `API_CONTRACT.md`; the zone of `ba` is all of `docs/` (`agent.py:370`), so both
  may write it, and `OnlySharedFilesMeet` counts it as shared.
- A zone is judged by the path as it was given, before parent segments and a
  leading `.` are resolved, so `OnlySharedFilesMeet` is about paths without them.
- A result is taken for a failure by how it begins (`protocol.py:39`): so is a
  file read by `read_code_file` whose text begins with `FAILED`.
- The LLM binding without `discuss_with` (`agent.py:584-587`), of which
  README.md:141-151 says that the deepest agent is bound to it, is never used:
  `_run_discussion` refuses (`agent.py:563`) every discussion that would give a
  chain long enough, and the deepest agent is told to stop. `SpecialistTeam`
  therefore has one binding.

## 4. Runs

| Run | Instance | Shows |
|---|---|---|
| `team_serial` | 2 agents, depth 3, window of 4, 3 steps, 2 calls per answer, one tool call per PM message, 2 requests, LLMs may fail | shared and trimmed lists, what LLMs are sent, idleness, and the refinement of `CallStacks`, when exceptions unwind stacks and histories survive into a second request |
| `team_live` | 2 agents, two assignments or an assignment beside a question in one message, failures, 2 PM messages, weak fairness | concurrent stacks over shared histories keep their shape; the budget holds over both messages and the tools nodes that run again; activations and turns end |
| `command` | 2 background processes, both values of both settings, weak fairness of the call | a command leaves nothing behind and its tool returns |
| `client` | 2 sessions, 4 items, any number of breaks, reloads and switches, fairness | page and server agree on content, turn, question and cost; the input comes back |
| `metrics` | 2 workers, 2 attempts, 2 calls, 2 requests, 1 resume, fairness of calls | which record counts which call, and what a closed session leaves |
| `store` | 3 events, every failure at every step | the files keep `DurableStore`, and agree when only the process dies |
| `files` | 2 threads, 4 agents, 10 paths, 3 writes | whose paths meet, and what overlapping and failing writes leave |
| `session_breaks` | 1 connection at a time, breaks anywhere, 4 messages, 3 pieces of work, 2 agents, 2 languages | the session properties of section 3 |

Bounds. A depth of 3 makes room for a chain of two callers, the first length at
which a cycle that skips the direct caller is possible; a window of 3 or 4 is
shorter than one request and its replies, so that every cut the trim can make
occurs; two steps or more let an activation trim between two calls; three
activations fill the deepest stack, four allow two stacks of two. Agents are
symmetric (their prompts are not modelled), so symmetry reduction is sound for
the safety runs, and so are the tool threads of `files`, but not its agents,
whose zones differ; the liveness runs do not use it. For sessions, four messages
allow a question, its answer, a break and a later request; three pieces of work
allow one before, within and after a turn that breaks. Two background
processes let one start the other and outlive it. Two sessions allow a switch
away from a turn and back; four items a request, a question, its answer and one
event more. Two workers are one that ends a graph run and one that outlives it;
two requests let its calls land in the next record; two attempts are one retry.
Three events are one before a torn line, the torn one, and one glued to it. Two
threads and three writes let a write overlap another and a third one heal the
file. Deadlock is not checked in the team, command, client and metrics runs,
since a team whose requests are used up, a call that returned, a page whose
items are used up and a benchmark run that is over may stop; a session can
always be opened again, its store always loses its process, and the file tools
can always refuse.

### Disagreements between the code and its documents

Each has a run that TLC must find violated.

| Run | What happens |
|---|---|
| `team_nested_failure` | an LLM failure in a discussion leaves the caller's tool calls without replies, in a history that is sent again |
| `session_lost_question` | a break while a question is sent, or an answer handed over, leaves a paused graph that no reconnect knows of |
| `session_two_tabs` | two handlers of one session (a second tab, or a page reloaded during a turn): the one that ends releases the histories of both, and the other saves what is left |
| `store_torn_line` | a torn line ends the replay for good, also of what was written in full after it |

`team_live` leaves out `PairedOrCutOffAtInvoke` and `BucketInSync` for a reason:
with two assignments in one message an agent can have two activations, which
interleave their messages in one list and, once one of them trims, keep two
lists of which the bucket holds one.

### Fairness

`FairSpec` of `SpecialistTeam` assumes weak fairness of each activation, of the
start of a message's tasks, and of the PM: the event loop serves every ready
coroutine; an LLM call ends because the clients have a timeout and a bounded
number of attempts (`agent.py:499-535`); a command ends by itself or by its
timeout, but for the case named by `SecondReadEnds`. Nothing is assumed of the
user: `TurnsEnd` allows a turn that stops at a question. `RunCommand` is fair to the call only: its thread
runs and its timeouts expire, and the command may run for ever. `Client` is fair
to the reconnect timer, the page's event loop, the server's accept and receive,
and the end of turns; nothing is assumed of the user, and the connection is
assumed to last only in the premise of `InputComesBack`. `RunMetrics` is fair to
the steps of each worker's call: the provider's client has a timeout, and the
loop serves every timer. The specification of
sessions, of their store and of the file tools have no fairness; their properties
are safety properties.

## 5. Proofs

Assumptions are `MaxHistoryAssumption`, `TeamAssumption`, `SessionAssumption`,
`ClientAssumption`, `MetricsAssumption`, `StoreAssumption` and `FilesAssumption`: limits are naturals, the window and the depth are
positive, messages are typed, `None` is not a language and `NoSession` not a
session. TLC evaluates them in the runs.

- `History_proofs`: `TrimBounds`, `TrimHead`, `TrimKeepsPairs`. The cut of
  `_trim_history` exists (the least number principle gives the first position
  that is not a reply), so the result is a suffix; a suffix that does not begin
  with a reply splits no call from its replies when replies follow their call at
  once.
- `SpecialistTeam_proofs`: `IInv == TypeOK /\ CallTree` is inductive
  (`InitIInv`, `NextIInv`). Neither half is alone: a reply is typed only because
  the caller exists and still has an unanswered call (`AwaitsReply`,
  `ChainOfCaller`), and the stack argument uses types. Actions fall into three
  groups: those that stay within one activation (`LocalActions`,
  `LocalKeepsCallTree`), those that push one (`AssignKeepsCallTree`,
  `DiscussKeepsCallTree`), and those that pop one (`PopKeepsCallTree`, whose
  core is that nothing else refers to the top of a stack, `PoppedPeers`). From
  it follow `TypeCorrect`, `CallTreeAlways`, `NoSelfWait` and, with `started <=
  budget`, `BudgetAlways`.
- The refinement, `TeamImplementsStacks` (`Spec => ImplementsStacks`), for any
  agents, limits and parallel tasks. The three groups are what `CallStacks` sees:
  a step within an activation is a stutter, `Assign` and `Discuss` push, a return
  or an exception that passes through pops. That a task's activations, read off
  the longest chain, *are* a stack is `CallTree`.
- `QuietAlways`: `QuietWhenIdle`, given `QuietPm`: the PM does not ask beside an
  assignment and, where LLM calls may fail for good, assigns one task at a time.
  `QuietInv` says that the tools node waits for every root activation there is,
  and that an exception about to end the node has no sibling to leave behind.
- What agents are sent, given `SerialPm` (one assignment per message, no question
  beside it): `BucketAlwaysInSync`, `PairedOrCutOffAlways`, `PairedAlways` (no
  exceptions when no LLM call fails for good) and `WindowAlways` (when one answer
  has fewer calls than `MAX_HISTORY_MESSAGES`: otherwise the trim may skip
  everything). Their invariant is `SerialInv`. An agent then has one activation
  at a time (`NoSelfWait`), so that the bucket and the activation share one list
  and no two agents share any (`BucketInv`); the list is, but for the calls of
  the running answer that have no reply yet, a list in which replies follow
  their call at once (`HistoryInv`); and an activation that calls the LLM has no
  reply outstanding (`Settled`). A list that a failure cut off stays
  `Abandoned` in the bucket until the agent works again, which is the exception
  that `PairedOrCutOffAtInvoke` makes.
- `Session_proofs`: `SessionTypeCorrect` for any number of connections; the
  rest for one connection at a time (`Conns = {c}`), from `OneInv`, which has one
  part per subject. Four parts hold always (`QuestionInv`, `HistoryInv`,
  `CostInv`, `LanguageInv`) and five until a break at a delicate point
  (`PauseInv`, `ShownInv`, `ResidueInv`, `ChargeInv`, `FinishedInv`). Each says,
  for every await, which copies agree there; one lemma per part shows that every
  step keeps it, from what the step does to the handler (`ConnectEffect`,
  `ReceiveEffect`, `TurnEffect`, `BreakEffect`). All properties of
  `session_breaks` are proved.
- `RunCommand_proofs`: `CommandTypeCorrect`, `NothingIsLeaked` and
  `SecondReadIsOver` for any number of background processes, from `KillInv`:
  what the kills that `pc` has passed have left.
- `FileTools_proofs`: `FilesTypeCorrect` and `TheLastWriteStands` for any threads
  and paths, from `FileInv`: an undisturbed file is being written by one thread
  and empty, or by none and has the last text. Where a path leads does not
  matter there; it does for `OnlySharedMeet` (`OnlySharedFilesMeet`, for any set of
  paths): every write was let through by the ownership check
  (`AuthorInv`), a straight path stays below the folder its first two segments
  name (`StraightPath`), folders belong to one agent, and so a path of two agents
  is the shared file itself (`ZonePath`).
- `RunMetrics_proofs`: `MetricsTypeCorrect`, `CallsAreCountedOnce`,
  `RecordsAreWhole` and `OnlyStraysAreLeft` for any workers, attempts, calls and
  requests. The strengthening has four parts: who may be calling (`WorkerInv`: a
  worker that is no stray works for the running turn), that an attempt never
  records anything twice (`CallInv`), when a request can still go on
  (`RequestInv`: while it can it has no record, and if only a reconnect can
  continue it, it was cut), and what the request scope holds (`ScopeInv`).
- `SessionStore_proofs`: `StoreTypeCorrect`, `StoresStayInOrder`, and the
  refinement itself, `KeepsItsPromise` (`Spec => ImplementsStore`), for any number
  of events. `LastAfterAppend` and `ReplayAfterAppend` say what one more piece,
  whole or torn, does to a replay: it grows by that event only if nothing was
  ever torn, and otherwise stays or is cut shorter. `StoreInv` adds what the log
  tells about faults (`LogInv`), that no file is half written and each write
  goes on from what the files hold (`FileInv`), and the order of the accounts
  and the histories (`OrderInv`).
- `Client_proofs`: `ClientTypeCorrect`, `InputIsLocked`, `AnswersStayAnswers` and
  `FooterStaysStored` for any sessions and any number of items. None of the
  properties is inductive: what the page believes is decided by events that are
  still under way. `ClientInv` says what they will do: the last opening event
  tells what the handler waits for (`OpeningInv`); after the opening, nothing is
  under way, or one message is, or a turn, or the end of one, whose last event is
  the only one that unlocks (`TurnInv`); a message that was not early is alone and
  agrees with the handler (`MessageInv`); the session event, or the page, has the
  handler's session and base (`SessionInv`), and the last metrics event, or the
  footer, its totals (`FooterInv`). A handler whose page has gone is bound by none
  of this, which is why a break anywhere keeps the invariant.
  `PanesStayTheLog` (`PanesAreTheLog`) adds `LogInv`: before the page has handled
  the session event, what is to come is the whole log and nothing is shown that
  will be erased; after it, panes and what is to come are the log and what the
  user has still to deliver. It needs to know what the items among the events
  are when one is sent (`ItemsAppend`), handled (`ItemsTail`), or a log replayed
  (`ReplayedItems`).

Recursive functions. Where a path leads (`Resolved`) and what the events in transit
show (`ItemsIn`) are recursive functions on a finite interval. That such a
function exists and obeys its equation (`WalkExists`, `ResolvedWalk`,
`ItemsWalk`), and what it gives for every sequence, is shown by the least
counterexample among the positions (`LeastNat`), from the well-foundedness of
the naturals, since the library's induction theorems cannot be instantiated.

`SerialPm` and `QuietPm` are assumptions about the messages an LLM sends, not about
the code: `ask_user` asks to be called alone (`agent.py:715-716`),
and nothing enforces it, or one task at a time. `team_serial` has all of these
messages and satisfies both; `team_live` has the others.

Every invariant and action property of the passing runs is a theorem. Only model-checked
is what needs fairness, since TLAPS does not prove liveness: `ActivationsEnd`,
`TurnsEnd`, `CommandReturns`, `CallsEnd` and `InputComesBack`. The four runs that
TLC must find violated are counterexamples on small instances.

## 6. Plan

What is proved of an agent's history assumes one task at a time. Next are the
parts that survive parallel assignments:

1. Without a question beside an assignment, tasks that share no agent keep
   `BucketInSync` and `PairedOrCutOffAtInvoke` each, which needs `SerialInv` by
   task instead of by session.
2. `TeamImplementsStacks` carries over what is proved of `CallStacks` alone; the
   bound on the number of activations of a request, from the budget and the depth.

## 7. Not modelled

Prompts, the agent table and configuration parsing (constants read at import);
REST views and `list_sessions` (they only read); the benchmark's tables and
artefact checks (arithmetic and I/O); packaging; tests; `report_status` and the
texts of results. Two handlers of one session are modelled in `Session` and
checked only by `session_two_tabs`; what `waiting_for_answer` of one says when
the other has answered (`server.py:208`) has no property of its own.
