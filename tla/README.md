# Models of goreact

TLA+ models of [goreact](../src/README.md), a Go framework for agents that work
in a think-act-observe loop with a language model, tools and sub-agents. The
models are read off the Go code; TLC checks them on small instances and TLAPS
proves theorems about the core of each part for every value of the constants.

The README has five parts: the inventory of the code, the modules and how they
correspond to it, the runs of the model checker, the proofs, and what is left:
divergences between code and comments, parts not modelled, the plan.

## 1. Inventory

### 1.1 How the parts interact

An application calls an `Agent` (`agent.go`), from one goroutine or several.
`Ask` persists the question in the context window and in the session store, and
calls `Reactor.Run` (`reactor/reactor.go`). The run is a loop of cycles: `Think`
asks the model through the `LLMCaller` (`reactor/llmcall.go`), which counts
tokens and slides the window; `Act` executes the tools of the answer through the
`ToolExecutor` (`core/tool_executor.go`); `Observe` appends a step to the history
of the run. Before each cycle `CheckTermination` looks at the history, the budget
and the context. Every step and event goes to the event bus, to which the
application subscribes.

Three tools wait for something outside the run: `AskUser` for an answer
(`reactor/interaction_handler.go`), a tool that needs consent for a decision
(`tools/ask_permission.go`), `CollectResults` for the sub-agents that `Delegate`
started (`core/result_store.go`). Other tools keep state that outlives a run: the
list of tasks, the directory of agents, the crontab, the skills on disk and their
Python environments, the caches of searches and pages; and the file tools work on
files that others work on, too.

Coordinator mode (`reactor/coordination.go`) is a second loop that waits for
sub-tasks. Nothing enters it yet, but its methods and its loop are complete.

An agent is not meant for one goroutine only: `Cancel`, `Pause` and `IsRunning`
are of use only while another goroutine asks. `Clone` makes agents that share the
session store, the tool registry, the event bus and the tool executor with their
parent; `Switch` gives an agent another role and a new reactor.

### 1.2 Components

For each component: its state; its operations; what is hard; what makes it right.
`PROJECT.json` has the same list with the sources of each.

**Think-act-observe loop** (`ReactLoop`). State: the `ReactContext` of the run
(iteration, history, last thought, action and observation, reason), the pause
request and the saved snapshot. Operations: `Run`, `RunFromSnapshot`, cycles,
cancel and pause. Hard: a cancel or pause at any point of a cycle, model and
tools that fail, the state a snapshot leaves out. Right: budget, prompt cancel,
no step beyond a stop condition, the reported reason, every run returns.

**Termination conditions** (`Termination`). Pure functions of the history with
windows of different lengths. Hard: which of them shadow others.

**Agent: Ask, Cancel, Pause, Resume** (`AgentRun`). State: one cancel function,
one running flag and one reactor for all callers; one saved snapshot and one pause
request of each reactor. Hard: none of the four says whose it is, and `Switch`
replaces the reactor they are looked up in. Right: an interrupt hits a call that is
open, a task has one worker and one budget, a pause in time is not lost, and a task
stays with the role it was asked of.

**Coordinator mode** (`Coordination`). State: the table of sub-tasks, the lifecycle,
its context and those of the sub-tasks, the command channel, the timer. Hard:
commands, the timer, the poll and the owner's calls end or resume it at any point.
Right: what has ended stops its tasks, the lifecycle keeps to its state machine,
the loop returns.

**Agent: AskStream** (`AskStream`). Two goroutines, two channels, a consumer
that may stop reading. Hard: the asker closes the channel that the forwarder sends on.
Right: the stream ends, and carries its answer.

**Agent: sessions and history** and **session store** (`Conversation`,
`SlidingWindow`). State: one bound window, a log for each session. Hard: the
window is looked up, replaced and appended to in separate steps, by several
calls. Right: messages stay in their session, the window is the end of its log.

**Context window** (`SlidingWindow`, `ContextWindow`). Messages with token
counts that are evicted from the front. Right: a slide keeps the end, reports the
rest and reaches its target.

**Agent: Switch, Clone, NewSession** (`Roles`). State: reactors, windows and
sessions bound to roles. Hard: what is shared, replaced or left behind. Right: a
window is the end of its session's log whatever the switches; no two agents write
to one window.

**Event bus** (`EventBus`). State: subscriber channels under an `RWMutex`.
Hard: sends meet closes, full channels, waiting writers. Right: no panic, every
subscriber is offered every event that passes its filter, in order; emitting does
not wait for subscribers.

**Result store** and **delegation** (`Futures`, `ResultStore`, `Delegation`).
State: results, waiting channels, the counter of tasks. Hard: registration
between publication and wake-up, sends after the unlock, identifiers. Right: no
lost wake-up, no blocked send, a set of futures, collecting returns.

**Interaction handler** (`Interaction`) and **permission requests**
(`Permission`). State: one pending request. Hard: an answer, the end of a
context and the next request race. Right: answers stay with their question,
decisions with their call, nobody who was answered waits.

**Tool registry** (`ToolCatalog`). State: the registered tools, and each
reactor's converted list. Hard: invalidation and registration are two steps.
Right: what is offered can be called, what is registered is listed.

**Tool executor and offloading** (`ToolOutput`). State: characters of the cycle,
files of persisted results, references in the history. Hard: limits on limits,
asynchronous tools, a disk that fails. Right: output is cut over the budget and
only then; what was offloaded is restored.

**Todo list** (`TodoList`). State: items with dependencies. Hard: merges
and replacements in any sequence, a hand-written sort. Right: a plan is ordered,
and empty only for a reason.

**Agent registry and runtime directory** (`AgentDirectory`, `AgentRanking`). State: markdown
files, registry, running agents with scores. Hard: two creators, a crash or a
failing disk between file and entry or within the file, a full directory. Right: memory
and disk agree, created agents are found, the sorted list is ordered.

**Crontab tool** (`Crontab`, `CronExpression`). State: the user's table.
Hard: read-change-write on a table of someone else, line numbers. Right: one
line is removed, the right one, for good; expressions that work are valid.

**Skills on disk** (`SkillLibrary`) and **skill scripts** (`SkillEnvironment`).
State: directories, the registry of each reactor, virtual environments. Hard:
creation is several calls of the file system; the first script sets up while
others wait; set-ups fail; the process ends; one bad skill keeps the others of its
directory out. Right: what was created stays as it is, and is loaded unless another
skill spoils its directory; one set-up at a time, scripts find what they require and return.

**Web search** (`WebSearch`, `WebFetch`). State: two caches. Hard: calls that search
or fetch at the same time, keys that leave out part of the request, a page whose
tags are cut out by searching for them in another text. Right: answers are of the wanted hosts,
texts of the wanted page, and both are fresh.

**File tools** (`FileTools`, `PagedRead`). State: the file. Hard: a look, a check, a
read, a truncation and a write are steps of their own, between which others write,
the disk fails or the process ends; timestamps in whole seconds; pages that end with
the file or at a budget.
Right: changes add up, a checked edit is of what its agent saw, a limit is kept,
every line is shown once.

**Token accounting** (`TokenAccount`). State: records of calls, the window's
count. Hard: streams that break off, two callers. Right: every stream is accounted
for once; the count covers the window.

Not modelled (with the reasons in `PROJECT.json`): task manager, generic map,
message compaction, hooks, MCP servers, memory and rules, models, prompts and
reactor options, shell and search tools, constants, errors and helpers.
These have no caller in the repository, or no state of their own, or are text.

### 1.3 Hazards

`PROJECT.json` lists, line by line, where this code can go wrong in a way that a
test would hardly reach, each with the properties that would catch it. Where the
code does go wrong in a model, the hazard is listed with the divergences in
section 5.1 and not there.

## 2. Modules

### 2.1 Conventions

One action is one critical section, or one step between two points at which
another goroutine, a callback or the environment can come in. Operations under a
lock from end to end are one action; an operation that unlocks in between is
several. Names are those of the code wherever there is one. Text is a member of a
small set or a length; time is a counter where the code compares it.

Definitions named `<Definition>_<What>` and introduced with "Mutation:" are
faulty variants of a definition of the code. They occur in no specification. Each
property of a passing run has one that violates it, which shows that the property
can fail under the bounds of its run.

Bounds are constants whose names begin with `Max`; they stand in the guards of
the actions that they bound.

### 2.2 The loop and the agent

`Termination` — the stop conditions of `reactor/termination.go` over a history of
actions. The observation of a step repeats the action's error, and targets and
parameters are never set, so that a step is the type, result and error of its
action.

`RunContract` — the abstract specification: a task gets at most `MaxIterations`
cycles however often it is paused, at most one cycle is completed after a cancel,
and every run returns.

`ReactLoop` — `runLoop` with `Think`, `Act`, `Observe`, `CheckTermination`,
`buildResultFromContext` and `handlePauseSnapshot`; EXTENDS `Termination`. A cycle
is the actions `BeginCycle`, `Think` or `ThinkError`, `Act`, `ObserveAndPersist`;
`Cancel` and `SetPauseRequested` come at any point; `Run` and `RunFromSnapshot`
start the next run. The model may answer any thought or fail. `Act` and `Observe`
fail only without a thought or an action, which the loop never reaches. The
coordinator branch, `Coordination`, needs a mode that nothing sets. Native tool calls come only
from the tests' model, and are the same thoughts. `Run` never returns an error.
It refines `RunContract` through `Contract`. `MCReactLoop` checks two instances of
it: two short runs, of which the second may resume the first, and one long run; and,
beside them, the loop of a coordinator.

`AgentRun` — `AskWithContext`, `Resume`, `Cancel`, `Pause`, `IsRunning` from
several goroutines, and `Switch`; a run is what `RunContract` promises. Its actions are the
steps between which another caller can see the shared flags: `Ask`, `StartRun`,
`LeaveLoop`, `BeginCycle`, `CompleteCycle`, `ThinkError`, `TakePauseRequest`,
`SaveSnapshot`, `ReturnFromAsk`, `ReturnFromResume`. `Agent.snapshot` has no
variable: the code only assigns nil to it. `Resume` does not set the running flag.
A call reads `a.reactor` for its run after it has set the flags (`StartRun`), so a
`Switch` can come in between. `MCAgentRun` adds the history variable that tells
calls in turn from calls that overlap, or that a switch comes into.

`Coordination` — `CoordState`, its methods and `runCoordinatorLoop`. A turn of the
loop is `ActAndCount`, `ObserveAll` or `ObservePending`, and one of `Tick`,
`SeeContextDone` and `HandleControl`; it ends by `Leave` or `LeaveLate` and
`Dispose`. Around it are the owner's calls (`CallInterrupt`, `CallCancel`,
`Resume`), commands, the timer, and sub-tasks that are added, registered, reported
and retried. `CoordState` has no lock; each of its methods is one step, which is
the most its callers can count on, and the counts that `Observe` reads under
separate locks are steps apart. "assigned" is "dispatched" and "timed_out" a
failure without a retry, because no code tells them apart. The budget of iterations is left
out: it can only end the loop sooner. Tasks are registered when they are
dispatched and unregistered when they end, as the tests do; nobody resumes or adds
once the loop has returned.

### 2.3 Events and streams

`EventBus` — `Emit`, `Subscribe`, `SubscribeFiltered`, cancel and `Close`. `Emit`
holds the lock for reading and sends to one subscriber after the other, a step
each (`EnterEmit`, `EmitTo`, `LeaveEmit`); a writer's section is one step, which
needs that no emitter is inside; a waiting writer keeps new readers out, as
`sync.RWMutex` does. A cancel on a closed bus finds nothing.

`AskStream` — the asking and the forwarding goroutine of `AskStreamWithContext`,
the event and the text channel with their capacities, and a consumer that reads,
stops or cancels. With `OwnTimeout` the context is that of `AskStream`, which
cancels it on return. A send on the closed text channel panics, which is where
a behaviour ends.

The stream has a subscription of its own to a bus of its own. `MCApplication`
composes the two, and the two of 2.4: what an application sees of an agent.

### 2.4 The user

`Interaction` — `HandleInteraction`, `Respond`, `RespondError`. The handler
registers and clears the pending request under its lock; `Respond` reads it under
the lock and writes the answer and closes the channel afterwards, two steps.

`Permission` — `CheckPermissions`, `BlockAndWait`, `Respond`. A decision names no
request; each decision carries the call that the user had in mind. In the executor
a checker that asks leads to an event and the call goes on; the blocking is of the
checker's own interface. `MCApplication` has the calls once with every overlap
and once one after the other.

### 2.5 Delegation

`Futures` — the abstract specification: a task is resolved once, who awaits it
gets its result.

`ResultStore` — `Store` and `WaitForResult`. `Store` publishes under the lock and
sends to the waiting channels after it, one step each (`Notify`). Refines
`Futures` through `Future`. `Delegate` stores once for each number, so `Store` is
called once for each task.

`Delegation` — EXTENDS `ResultStore`: batches of tool calls that start `Delegate`
in the background, sub-agents that store and then emit, runs that collect any
identifiers, those they were told or others. Cancelling is left out because
neither side looks at its context.

### 2.6 Conversations

`SlidingWindow` — `Slide` and `CurrentContext` as functions of messages.
`ContextWindow` — the window used directly. `Conversation` — calls for several
sessions with one bound window; a message reaches window and store in separate
steps. `TokenAccount` — `CallStream` and `recordResult`; messages reach window and
store at once there, and the steps of the accounting are apart. `Roles` — several
agents, roles, reactors and windows; windows do not slide there and a call is four
steps. `MCConversation` composes them. They are views of the same code at
different levels of detail, each fine where its properties need it.

### 2.7 Tools

`FileTools` — `FileEdit` and `Write` on one file: `Check`, `ReadFile`, `Truncate` and
`Fill` (the two halves of `os.WriteFile`), `WriteAppend`, and `Crash`. Opening a file
may fail (`OpenFails`), and so may writing it, after any beginning of the text
(`FillFails`); a crash in the middle of a write leaves such a beginning too. A write
starts at the beginning of the file, so the end of what another call has put there
since stays. A file is a
sequence of words; time is in half seconds, because a stamp of RFC 3339 counts
whole ones. `PagedRead` — the pages of `Read`, which may be cut behind any line at the
token budget, while the next page begins behind the whole. Both are scopes of
`MCTools`.

`ToolCatalog` — `RegisterTool`, `getLLMTools`, `Register`; the two locks of
`getLLMTools` are two steps. `ToolOutput` — the count of a cycle, cutting,
persisting, offloading and restoring; an output is its length. `TodoList` —
`TodoWrite`, `TodoExecute`; each holds the lock from end to end.
`MCTools` composes the five.

### 2.8 What tools keep for later calls

`Crontab` — `list`, `add`, `remove`; read and write of `remove` are two steps.
`CronExpression` — `validate`, against what cron accepts. `SkillLibrary` — the
steps of `SkillCreate` (look, open, write), each of which may fail, of calls that
interleave in any way, and the loading of a directory when a
reactor is built, which is one step. A write that fails leaves what was there, a file
that cannot be loaded, or one that lacks only a part of its instructions, which can.
History variables note which calls overlapped one of their name (`overlapped`) and
what there was when the newest reactor was built (`built`). `SkillEnvironment` — `ensureVenv` with its `sync.Once`, set-ups that
fail, requirements that change, a process that ends. `WebSearch` — look-up, the
chain of adapters one by one, filter, storing; a host matches by equality, and an
entry is stamped when the search has ended; the filter of hosts is in the code that of
the one adapter there is, DuckDuckGo's, and here that of every adapter. `WebFetch` — look-up, deletion of an old
entry, request and storing, and `htmlToText` on pages whose parts are what
`stripTag`, `blockToNewline` and `stripAllTags` tell apart. `stripTag` looks for tags
in the page in lower case and cuts the page at the places it found; parts that grow
or shrink in lower case (`ToLower`) shift these, and a place behind the end of the
page is a panic (`Panic`), after which nothing happens any more.
`AgentDirectory` — `CreateAgent`, `SaveTo` (file, then entry), `Rank`, `FindAgent`,
states, removal and
restart; each call on the unsynchronised registry is a step. A write that fails leaves
the old file, one that does not parse, or one that does with a part of its
introduction (`WriteFails`). `FindAgent` is a set, because `FindByDescription` lists the
map in any order. `AgentRanking` — `ListAvailable` with the insertion sort of
`sortByScore`, which nothing in the repository calls. `MCWorkspace` composes them;
all that bounds or instantiates a component there is a constant.

### 2.9 Compositions

The components inside `MCApplication`, `MCConversation`, `MCTools` and
`MCWorkspace` share no state in the code, or are views of the same state. Their
product would only multiply interleavings that cannot affect each other. So the
composed specification has a variable `scope`, chosen in the initial state, and
a behaviour is one of the component (and the instance of its constants) that
`scope` names. An invariant of such a module begins with the scope that it is
about. Components that do interact are modelled together: the loop with its
termination conditions, the store with delegation, windows with logs.

## 3. Runs

Twelve runs; nine that find no error, three that exhibit a disagreement between
the code and its comments. Deadlock is not checked:
every model is of components that may stop, because callers stop calling or a
bound is reached; what must not stop is stated as liveness.

| run | module, configuration | states | shows |
|---|---|---|---|
| react_loop | `MCReactLoop`, `ReactLoop.cfg` | 1 197 000 | Every reply of the model, every tool outcome, a cancel and a pause request at every point of a run, and a second run that is a new task or the resumed one: the loop goes no step beyond a stop condition and implements the contract its caller relies on, that it keeps the budget, stops promptly and returns; one run with room for five cycles, so that every window of the stop conditions fills: two of the four history conditions never end a run. |
| agent_run | `MCAgentRun`, `AgentRun.cfg` | 834 000 | Two goroutines race Ask, Resume, Cancel, Pause and Switch on one agent: interrupts hit open calls only, a task has one worker, its budget survives pausing and switching, every call returns; calls in turn also have an exact IsRunning, lose no timely pause and keep a task with the role it was asked of. |
| user | `MCApplication`, `User.cfg` | 176 000 | Runs that ask the user a question and tool calls that ask for consent, with answers and ends of contexts at every point: answers stay with their question, consent with its call, nothing stays pending for nobody, and who is answered returns. |
| delegation | `Delegation`, `Delegation.cfg` | 167 000 | Two runs that delegate and collect through the one result store, by right or wrong ids and in any order: no wake-up is lost, no send blocks, the store is a set of futures, and collecting what was started returns. |
| delegation_collect (violation) | `Delegation`, `DelegationCollect.cfg` | until found | A run that collects its delegation by the id it was told waits for ever: Delegate stores under another id. |
| events | `MCApplication`, `Events.cfg` | 317 000 | Emitters, subscribers, cancels and a close at the same time, and a streamed question: the bus never sends on a closed channel, events reach every subscriber in order, emitting never blocks, a stream carries its answer, and ends unless a send on its closed text channel ends the process. |
| ask_stream_timeout (violation) | `AskStream`, `AskStreamTimeout.cfg` | until found | The stream of AskStream can end without its answer although nobody cancelled it: the function cancels the context of its timeout when it returns. |
| conversation | `MCConversation`, `Conversation.cfg` | 2 450 000 | Calls for two sessions, one after the other or at once, a window of messages of different weight, the tokens of calls that may fail, and agents that are switched and cloned: the window is the end of the log, messages stay in their session, slides keep the end and report the rest, every stream is accounted for once, and no two agents write to one window. |
| tools | `MCTools`, `Tools.cfg` | 2 221 000 | Tools that are registered while lists are made, output at every limit, todo lists with dependencies, and files that several calls edit, write and read page by page: offered tools can be called, output is cut only over the budget, plans are right, edits add up, and every line is shown once but for a last one and those of a page that says it is cut. |
| coordination | `MCReactLoop`, `Coordination.cfg` | 1 772 000 | A coordinator and its sub-tasks, with retries, interruptions, resumptions and cancels by method, by channel, by timer and by context: whatever ends it stops its tasks, and it moves through its lifecycle as its state machine allows but for one exception. |
| tool_output_restore (violation) | `ToolOutput`, `ToolOutputRestore.cfg` | until found | A run whose offloaded output is not restored before the model is asked again: the message does not begin with the marker it is looked up by. |
| workspace | `MCWorkspace`, `Workspace.cfg` | 1 393 000 | What tools keep outside the agent, with other processes and failures: the crontab, expressions of cron, skills on disk, the environments of their scripts, cached searches and cached pages with their text, and definitions of agents with the agents known at run time. |

### 3.1 Bounds, and why they suffice

*react_loop*: three cycles, two runs, two results and one irrecoverable error:
a pause needs a cycle before and one after it, a budget one cycle that is not
allowed any more, a repeated action two cycles. Beside that, one run of five cycles,
one more than the longest window of a stop condition, which looks at four steps;
one run suffices because the conditions look at the history only, and it is
copied whole into a snapshot. For `LoopReturns` a coordinator of two sub-tasks
without retries: a retry only makes more to wait for.

*agent_run*: two callers, two questions, two cycles, two reactors. The shared flags
are one each, so that a third caller can do to the first only what the second does;
a second reactor is enough for a task to be left on one and looked for on the other.

*coordination*: two sub-tasks, one retry each, so that one is pending while the
other ends, and one that has failed is pending again; two contexts, so that a task
can be registered anew; one resumption; one place in the command channel, so that it
is full.

*user*: two askers and two responders, three questions, so that one is asked
after another was given up while a responder still holds it; four calls, two of
one tool, one that needs no consent.

*delegation*: two runs, two delegations, up to two identifiers in a collection,
among them wrong ones. *delegation_collect*: one run.

*events*: two emitters (of two events and one), two subscribers that subscribe
again after a cancel, channels of one place, a bus that may be closed at any
point. Room for two fragments in a stream that has two and one event that is not
its own.

*conversation*: two sessions. One caller with six messages, so that the window
slides and is replaced; two callers with four messages. In all of them a slide is triggered by four
tokens, aims at two and keeps one message. A window of five messages of one or
three tokens, system messages among them; five messages of one or three tokens in one
caller's account, whose model takes six, so that the count passes that; two callers
with three messages of one token and a provider that fails; an agent
switched between two roles with three reactors and four messages; two agents with
two messages that are switched while they run. Sessions and roles are symmetric:
nothing orders them, and no property tells them apart.

*tools*: two reactors, which share a registry, two goroutines (three when calls are in turn), tools of two
names and two makes. Sizes of output below, at and above each limit, three calls
in two cycles. Todo lists of two or three items. Two callers that edit a file of
three words in which one occurs twice, with a limit of one or none, and write a
shorter text, over four half seconds, with writes that end after any word; files of
up to eight lines, with pages up to one line longer that are cut behind any line.

*workspace*: three searches with two different wishes for hosts; three fetches, two
of one address, of two pages, one of them with letters that grow in lower case; one
fetch of every page of up to three elements, of those with an unclosed script after
up to two, and of pages with letters that grow or shrink before a script or in one;
tables of up to five lines; every expression of up to six fields of seven shapes; five skills,
two of one name, one that the tool accepts and the loader rejects, one that neither
does; three scripts, two of one skill, one edit and one restart.
Directories of two files, names that differ in case, at most three agents, states in which an agent is listed
but not free, and not listed.

### 3.2 Properties

*The loop.* `NoStepBeyondAStop`: no cycle is added to a history that had reached
a stop condition, not even by a pause and a resume. `ImplementsContract`: the loop
is a `RunContract`, that is, it keeps the budget of a task across pauses,
completes at most one cycle after a cancel, and returns.
`StuckAndConvergedNeverDecide`: two of the four conditions of the history are
shadowed by the others.

*The agent.* `InterruptReachesAnOpenAsk`: the cancel function, if there is one, is
that of a call in progress. `OneWorkerPerTask` and `BudgetPerTask`: two `Resume`
calls never share a task, and its cycles are counted on. `EveryCallReturns`.
`FlagsAreExactInTurn`: for calls that do not overlap `IsRunning` is exact, a pause
in time saves the task, and a task is worked on by the reactor it was asked of only,
however often the agent is switched.

*The coordinator.* `EndedStopsItsTasks`: a coordinator that was cancelled, or whose
loop has returned, leaves no context of a sub-task alive, whichever way it ended and
however late the task was registered. `LifecycleMoves`: it moves as
`CanTransitionTo` allows, but for the completion of an interrupted coordinator, and
is completed only when all tasks have ended. `LoopReturns`: whatever becomes of its
tasks.

*Delegation.* `ImplementsFutures`: the store is a set of `Futures`, so no wake-up is
lost and every waiter gets the result of its task. `SendsNeverBlock`: `Store` finds
room in the channel of each waiter. `CompletedMeansStored`: whoever sees
`SubtaskCompleted` finds the result. `CollectOfStartedReturns`: collecting tasks
that were started returns.

*Events and streams.* `NeverPanics`: nobody sends on or closes a closed
channel of the bus; of the text channel of a stream that is not so (5.1).
`EmitReachesEverySubscriber` and `InOrderOfEmission`: who is subscribed from the
beginning to the end of an emit is offered the event, and what it holds is in the
order of each emitter, without repetition. `EmitReturns`: whatever subscribers do.
`StreamEndsOrPanics`: a stream that is read or cancelled ends with its goroutines, or
one of them panics, which ends the process: the forwarder when it sends on the text
channel that the asker has closed, also in a stream that nobody cancels, or the asker
when its context has ended. A stream that is closed and was not cancelled carries its
answer.

*The user.* `AnswersStayWithTheirQuestion`, `AnsweredReturn`, and
`DecisionsFindTheirCall`: the decision about calls in turn, and no request of a
call that has left is pending, however calls overlap.

*Conversations.* `WindowIsTheEndOfItsLog` (one caller with several sessions; an
agent switched between its calls; windows of clones are their own),
`SessionsStayApart` (question and answer of several callers, all messages of
one), `SlidesAreSound` (a slide keeps the end, reports the rest and reaches its
target), `TokensAreAccountedFor` (every stream once, also of two callers with a
failing provider; the count of one caller covers the window).

*Tools.* `OffersMatchRegistry` (what is offered can be called; what is registered
through a reactor is offered by it, if nobody asks meanwhile; its clones may not), `OutputIsCutOverBudget` (whatever ends in the
cycle; in no other cycle, without asynchronous tools), `PlansAreSound`,
`FilesAreKept` (calls that follow each other add up; one that fails, or in which the
process ends, leaves the old content or a beginning of the new; an edit with a time is
of what its agent
saw; a limit is kept to, and nothing else is touched; every line is shown once, but
for a single one that is left, and for those of a page whose end says that it is cut).

*Workspace.* `SearchesAreAnswered` (a search by the wanted hosts, and both it and a
fetch fresh), `PagesAreText` (a fetch by the text of its page, all of it and nothing
of a script that ends, if no letters before a script change their length in lower
case; only then is there no panic),
`SchedulesAreExact` (for one agent: the number of the list, on tables without empty
lines; one line, for good, on any table with each job once of an agent that only
removes; of
expressions none that works is refused, none with a wrong number of fields or a
range of three ends passes), `CreatedSkillsAreKept`
(a skill that no other call was creating meanwhile stays as it was created, and is
loaded by the next reactor if no other of the directory is one that the loader rejects
or is not written to its end; a reactor has all of a directory or none, and none that
the loader rejects), `EnvironmentsAreSetUp` (one
set-up at a time and every script returns, whatever fails; requirements are there
if set-ups work), `DirectoryIsSound` (with crashes and one creator: memory is what the
files say, but for an agent whose creation failed and left a part of its file; with two
creators and no limit: who was created is found by `FindAgent`; `ListAvailable` lists
the free agents by score, though no one calls it).

The conditions in parentheses are those under which the code keeps the property;
section 5.1 says what happens without them.

The type invariants include the limits that the code keeps: sizes of channels and
of the directory, one entry for each session in the store's index, identifiers that
occur once. `react_loop`, `agent_run` and `delegation` name `TypeOK`; in the composed
modules the type invariant of each component is a conjunct of a property about it
(of `StreamEndsOrPanics` for the bus and the stream, for example), and that of
`Coordination` is proved.

### 3.3 Fairness

Every fairness condition is weak, and of steps that the Go scheduler runs as soon
as they can run.

- `ReactLoop`, `AgentRun`: steps of the loop and of a call. That includes that
  the model answers and tools return, which their contexts see to; callers, cancel
  and pause are not fair.
- `ResultStore`, `Delegation`: the sends of `Notify`, a waiter that has its
  result, `Delegate`'s goroutines (a sub-agent's run returns, by
  `ImplementsContract`), the collecting run. Nobody has to delegate or collect.
- `EventBus`: a writer whose turn it is and an emitter's next step. Subscribers
  are not fair: they may never read or cancel.
- `AskStream`: the two goroutines and the caller's return. The consumer is not
  fair.
- `Interaction`: the steps of a handler and of a `Respond` that has begun; that
  someone responds is not assumed.
- `Coordination`: the loop, whose wait has a timer. Neither tasks nor owners are
  fair.
- `Permission`, calls in turn: the steps of a call, and that the user decides
  about what is asked, without which a call waits by design.
- `SkillEnvironment`: the steps of a script; the programs it starts end.

## 4. Proofs

TLAPS proves these for every value of the constants that satisfies the
assumptions: `LoopAssumption`, `TextAssumption`, `NoneAssumption` of the loop, the
`...Assumption` of each other module, and the `MCAssumption` of the modules that
compose several for TLC (`MCReactLoop`, `MCApplication`, `MCTools`, `MCConversation`,
`MCWorkspace`), which says that
the instances' constants satisfy the assumptions of the instances' modules. Kinds of
tools' results, budgets, numbers of callers, reactors, delegations, sub-tasks,
emitters, subscribers, tools, texts, edits, lines, clock values, sessions, messages,
weights, windows, the settings of a slide, the limits and lengths of output, items of
a plan, requests, pages, tables, expressions, skills, scripts, agents, scores and
channels' capacities are arbitrary.
What a composed module fixes in the `WITH` of an instance stays fixed in
the theorems about it, and is who takes part and what may fail: the one caller of
`OneCaller`, who meets no failures, the two of `TwoCallers`, whose provider may fail,
the agent of `Switched` that is switched between its calls, the calls in turn of a
catalog, the one reactor whose output is counted, set-ups that work or fail, and one
creator where the process ends.
`ScopeAssumption` of `MCWorkspace` has what the scopes say of the tables of a crontab
(no empty line; each job once) and of directories (one path to each); 5.1 has what was met without it.
One assumption is about the system and not about types: no message of the one caller
of an account is heavier than the share of the context that a history may have. A
heavier answer is not remembered, so that the next call's input leaves it out, and
the count does not cover it, though it is in the window. TLC evaluates the
assumptions in the runs.

| theorem | module | establishes |
|---|---|---|
| `LoopTypeCorrect` | `ReactLoop_proof` | Every state of the loop is well typed, for any budget and tool outcomes. |
| `BudgetHolds` | `ReactLoop_proof` | No run, new or resumed, performs more cycles than its task has left. |
| `CancelIsPrompt` | `ReactLoop_proof` | A cancelled run begins no further cycle once the one in progress is over. |
| `BlankReasonHolds` | `ReactLoop_proof` | A run that reports no reason has spent its budget. |
| `StopsAreFinal` | `ReactLoop_proof` | No cycle follows one after which a stop condition held, across pause and resume. |
| `TwoConditionsAreDead` | `ReactLoop_proof` | The stuck and the converged condition never decide that a run ends. |
| `ImplementsContractSafety` | `ReactLoop_proof` | Every step of the loop is a step of RunContract or a stutter. |
| `Inductive` | `AgentRun_proof` | The inductive invariant that relates calls, contexts, the shared flags and the saved snapshot. |
| `TypeCorrect` | `AgentRun_proof` | Every state of the agent is well typed, for any number of callers. |
| `InterruptsReachOpenAsks` | `AgentRun_proof` | The cancel function of the agent, when it has one, belongs to a call that is in progress. |
| `TasksHaveOneWorker` | `AgentRun_proof` | No two calls work on the same task. |
| `BudgetHolds` | `AgentRun_proof` | A task's cycles stay within the budget however often it is paused. |
| `FlagsAreExact` | `AgentRun_proof` | When calls follow each other the agent's flag says whether one runs, and a snapshot is of a task nobody works on. |
| `StoreInductive` | `Delegation_proof` | The invariant that ties a waiter to its channel: registered, on its way to be woken, or woken. |
| `WakeupsAreNotLost` | `Delegation_proof` | Nobody waits for a stored result outside the list that is being woken. |
| `StoreNeverBlocks` | `Delegation_proof` | A wake-up always finds room in its channel. |
| `StoreImplementsFutures` | `Delegation_proof` | Every step of the store is a step of Futures or a stutter. |
| `DelegationTypeCorrect` | `Delegation_proof` | Every state of the delegating runs, their calls and the store is well typed. |
| `CompletedAreStored` | `Delegation_proof` | Whoever sees that a delegation is completed finds its result, for any number of runs and delegations. |
| `DelegationUsesStore` | `Delegation_proof` | Every step of a delegation is a step of the result store or leaves it alone. |
| `DelegationNeverBlocks` | `Delegation_proof` | A delegation's wake-ups always find room in their channels. |
| `DelegationImplementsFutures` | `Delegation_proof` | Delegations with the store are a set of futures, as far as safety goes. |
| `CoordinatorTypeCorrect` | `ReactLoop_proof` | Every state of a coordinator is well typed, for any number of sub-tasks, commands and timers. |
| `EndStopsTasks` | `ReactLoop_proof` | When a coordinator has ended no context of a sub-task of it is live. |
| `LifecycleIsObeyed` | `ReactLoop_proof` | Every step of the lifecycle is one that CanTransitionTo allows, or the completion of an interrupted coordinator. |
| `HandlerIsTakenWhileAsking` | `Application_proof` | While a question waits for its answer no other call gets in. |
| `AnswersStay` | `Application_proof` | An answer is returned by the call whose question it was read for. |
| `DecisionsFindTheirCalls` | `Application_proof` | A call that asks when no other does is told what was decided about it; however calls overlap, no request stays pending for a call that has left. |
| `BusTypeCorrect` | `Application_proof` | Every state of the bus is well typed. |
| `BusNeverPanics` | `Application_proof` | Nobody sends on or closes a closed channel. |
| `EmitsReachSubscribers` | `Application_proof` | An emit that returns has offered its event to every subscriber that stayed. |
| `EventsInOrder` | `Application_proof` | What a subscriber holds is in the order of emission, without repetition. |
| `StreamsCarryTheirAnswer` | `Application_proof` | For channels of any size and any number of fragments: the bus and the stream are well typed, and a stream that has ended without its caller cancelling it carries the answer of its run; the safety of StreamEndsOrPanics, which does not exclude that a goroutine panics. |
| `FilesStayKept` | `Tools_proof` | For any callers, texts, edits and clock: changes that do not overlap add up, one that fails or in which the process ends leaves the old content or a beginning of the new, a checked edit is of what its agent saw, and edits keep to their limit; for files and pages of any length, who pages through a file is shown each line once, but for a last one alone on its page and those of a page that says it is cut. |
| `OffersAreOfRegistry` | `Tools_proof` | For any threads, tools, and reactors that share a registry: what is offered can be called; and if no list is asked for while a tool is registered, a tool that was registered through a reactor is in the list of that reactor, though maybe not in those of its clones. |
| `OutputIsCut` | `Tools_proof` | For output of any lengths and any limits: a result loses its end only in a cycle whose own results are over the budget if no tool is asynchronous, and whatever overlaps a large one always does in such a cycle. |
| `PlansAreKeptSound` | `Tools_proof` | For any identifiers, priorities and numbers of items: a plan has each item that can be done as often as the list, in the order of priorities that the hand-written sort gives it, and is empty only if what is left waits for each other or for what will not be done. |
| `AnswersAreFreshAndWanted` | `Workspace_proof` | For any callers, requests, pages and clock: what a search answers is of the hosts it asked for and, like the text of a fetched page, younger than its cache keeps it, whatever other calls store meanwhile. |
| `SchedulesStayExact` | `Workspace_proof` | For any jobs, tables and fields: a call removes the job it was shown and that line alone, and it stays removed; an expression that works passes, one with a wrong number of fields or of ends of a range does not. |
| `SkillsAreKept` | `Workspace_proof` | For any names and descriptions, creators that interleave and writes that fail: a skill that no other call was creating at the time stays as it was created, and is in the next reactor's registry unless the directory then has one that the loader rejects or that is not wholly written; a reactor has all skills of the directory or none, and none that the loader rejects. |
| `EnvironmentsAreSafe` | `Workspace_proof` | For any scripts, directories and requirements: one set-up works on a directory at a time, also while set-ups fail, and where set-ups work and requirements stay as they are a script that has run found installed what was required. |
| `DirectoryStaysSound` | `Workspace_proof` | For any names, callers and scores: the agents in memory are those on disk wherever the process ends, but for ones whose creation failed and left a part of a file; what was created is found by FindAgent, which lists in no order; and ListAvailable, which has no caller, lists those that are available once each in the order of their scores. |
| `ConversationsStayApart` | `MCConversation_proof` | The question and answer of a call are in the log of its session, for any number of calls that interleave; and so is all that the calls of one goroutine persist. |
| `WindowsEndTheirLogs` | `MCConversation_proof` | What a window has is the end of its session's log, across slides, new sessions and switches to a role and back; and clones that are switched at any time have windows of their own. |
| `TokensAreRecorded` | `MCConversation_proof` | The records account for the input of every stream once, whatever of two callers fails or breaks off; and the recorded count of one caller covers the messages in its window. |
| `SlidesKeepWhatTheyMust` | `MCConversation_proof` | A window stays the end of what was added and reports the rest, and every slide reaches its target, what it must keep, or the limit of a batch. |

**ReactLoop_proof.** Type correctness needs that the stop conditions return one of
the loop's reasons and that a snapshot of a typed context is typed. Four
strengthenings, each inductive on top of it: `CountInv` (the iteration of a
context is its completed cycles, and the saved snapshot's budget with it) gives
`BudgetKept`; `CancelInv` (what each control point may still complete after a
cancel) gives `CancelStopsWithinOneCycle`, the two halves of the contract's safety;
`ReasonInv` gives `BlankReasonMeansBudgetSpent`, that a run without a reason has
spent its budget; `StopInv` (at each control point no prefix of the
history stopped) gives `NoStepBeyondAStop`. That two conditions never decide
follows from `StopInv` and lemmas that relate the windows of the conditions: a
stuck or converged history has a duplicate or a destructive loop in it or in a
prefix. The refinement of `ContractSafety` is a step simulation under the same
invariants.

In the same module, of the coordinator (`CoordinatorInv`): a cancelled lifecycle
has an ended context (`CancelledIsDone`), an ended context has no live child and no
task is registered with one (`DoneHasNoChildren`), and what a poll has counted as
nothing stays nothing unless a task is added or retried meanwhile
(`NothingStaysNothing`). The first two give `EndedStopsItsTasks`, the third the half
of `LifecycleMoves` about completion.

**AgentRun_proof.** `IInv` adds to type correctness that the cancel function's
holder is an open `Ask`, that each open task is held by one call or by the snapshot
of one reactor and not by both (`SingleHolder`), that the counts of the holder are
those of the task (`HolderCounts`), and that a question not yet asked has neither
(`FreshTasks`). Neither `OneWorkerPerTask` nor `BudgetPerTask`
is inductive without it: a `Resume` takes a snapshot that another call has saved.

For `FlagsAreExactInTurn` the history of `MCAgentRun` is part of the argument.
`InTurn` says what holds for as long as no two calls have overlapped: one call at
most is busy and runs on the agent's reactor (`OneAtATime`, `RunsOnTheReactor`);
whoever holds a task is of the reactor that worked on it (`WorkStaysThere`), so that
a switch between two calls leaves the task where it is; and a pause that came in
time is on its way, requested or taken by the call of its task, or saved with
nothing left that could save another one over it (`PauseIsKept`).

**Delegation_proof.** First the store by itself. `StoreInv` ties a waiter to its
channel: a registered waiter is in the queue of its task, once; when the task has a
result it is in the queue that is being notified, or its channel holds the result.
`NoLostWakeup` and `SendsNeverBlock` are parts of it or follow; the steps map to
steps of `Futures` or stutter. Then every step of the composition is a step of the
store or leaves it alone (`DelegationUsesStore`), so that the store's invariant, and
with it `SendsNeverBlock` and the refinement, hold in it. For the composition's own,
`CompletedMeansStored` needs that results never go away; type correctness needs that
each `Delegate` call tells one identifier (`ToldAreCounted`) and that only what a
sub-agent worked on has a result (`StoredAreTasks`).

**Application_proof.** *Questions.* `QuestionInv`: calls carry current numbers, a pending
request has a call that waits, and an answer that was written for a question is in
the channel of that question. *Permissions.* However calls overlap, a pending
request is of a call that waits (`PermissionInvariant`), which is what `IsWaiting`
goes by. If calls ask one after the other, keep their contexts and are decided about
once, then a call that waits is the pending one and a decision is stored with the
call it is about (`InTurnInvariant`); without that the decision of one call can go
to another. *Events.* `BusInv`: channels in the bus's map are open (`MapIsOpen`, from
which `NeverPanics`), an emitter inside has looked at exactly the subscribers
that come before its place (`LookedAt`), what subscribers hold is not ahead of
what its emitter emitted (`Behind`) and ordered (`Ordered`). `Subscribers` need not
be finite. *Streams.* `StreamInv`, for `StreamsCarryTheirAnswer`: unless the caller
cancels it is the asker that closes the text channel first, since the forwarder ends
only with the subscription, which the asker gives up later (`AskerClosesFirst`); and
past the send the answer is in the channel or has been read (`AnswerIsSent`), because
the only way around the send is an ended context.

**Tools_proof.** *Files.* `FilesInv` has the argument for the staleness check: every
change has a later time than the ones before, so that who looked at the time that
the file still has looked at its content (`LooksAreDated`); while no calls have
overlapped, what a call holds is in the file, or was until it was truncated
(`HeldIsCurrent`), and the file is as expected unless a call is about to fill it
(`ExpectedIsThere`). That an edit keeps to its limit is a lemma about `Replaced`
for any file, by the cardinality of the places up to each. For pages, `PagesInv`:
every page but the last begins a multiple of the limit behind the first line, and
the lines before it have been shown once. *Catalog.* `CatalogInv`: names in the
registry are unique, as it only grows by tools with new names, and every list that
is kept or handed out is a part of it. In turn (`InTurnInv`), no one looks while
another registers, and the list that is kept, if there is one, has every tool whose
registration has returned. *Output.* `CountedSize` is the last of its partial sums,
which only grow. With asynchronous tools the count of the executor is at least that of
the cycle's own results, so that whatever else is counted a large result beyond the
budget is cut (`AsyncInv`); without them it is exactly that (`SyncInv`), so that none is
cut within it. *Plans.* Each loop of `TodoExecute` is a function of the number of items
it has seen, and what it returns is shown by induction on that number: `Ready` keeps
every item that can be done as often as it is in the list, the inner loop of the sort
brings a least priority to its place and keeps all occurrences (`Occurs`), so the outer
loop orders the list. If the pending items do not all wait for each other, one waits
for none of them; what it depends on is then completed, if it is neither cancelled nor
missing nor in progress, so that the item is in the plan.

**Workspace_proof.** One invariant for each scope.

- `SearchInv`, `FetchInv`. What is in a cache was wanted by a request of the same key
  (`CachedIsWanted`), and requests of one key want the same; a call that is about to
  store found its pages after it had looked, one that was served from the cache found
  an entry younger than its time to live (`CallIsServed`, `FetchIsServed`). Deletions
  and entries of other calls between two steps disturb neither.
- `AddedInv`, `RemovingInv`. The numbers of the list are those of lines because no
  line is blank, also not in what was listed or read before; what `remove` has read is
  the table, and jobs it removed are gone from it. `Removed` is shown to take the one
  line from the table. For expressions, what cron accepts passes field by field.
- `LibraryInv`. Each step of a call that has overlapped no other of its name finds the
  file as the last one left it (`SkillIsKept`), because nobody else is creating that name
  (`IsAlone`). A file that cannot be loaded has a call that is about to write it or has
  failed to, and one that can be has its author's content (`FileIsExplained`), so that a
  reactor that is built with no such call, and none whose skill the loader rejects, loads
  every skill that was created.
- `FaultyInv`, `WorkingInv`. A manager is busy while one call sets up, and one manager
  has a directory; where set-ups work, an environment is absent, partial or ready as
  the step of the call that sets it up says, and who runs finds the manager done.
- `RestartedInv`. What the process knows is what it would load, but for the one
  definition that is written and not yet known (`Pending`); this is what a crash between
  the two steps of `SaveTo` needs. A definition that is not whole is of nobody it knows
  until then (`IsKept`).
- `SharedInv`. Who is known is registered, or its creator is at that step.
- `RankedInv`, that finitely many agents are registered. A ranking is a fold of
  `InsertByScore` over any order of them; of an ordered list the agents of at least a
  given score are the first `k`, so an insertion behind them keeps the order
  (`InsertByScoreKeepsOrder`) and adds just the agent (`InsertionHolds`), and the ranking
  of the first `n` is ordered and has each once (`FoldIsRanked`).

**Conversation_proof** and **MCConversation_proof.** What a slide leaves, what a
context within a budget is and what a number of messages weighs are folds over
sequences; the first part of `Conversation_proof` proves of `FoldLeft` that it is the
last of its partial results (`Iterates`), by the least place where two of them differ,
and from that what `Slide`, `NewestWithin`, `Weight` and `RemoveFirst` return. The
second part has what the steps of `Conversation` keep,
whoever takes them. On top of it `MCConversation_proof` has an invariant for each
instance:

- `ConversationInv`. With several calls: each knows its session, the message it
  persists and the window it holds, and that window and message are of the session
  (`CallsOf`), which no other call can change. With one caller, moreover, the
  window it holds is the agent's (`CallerHasWindow`) and the end of the log, to which
  the message is added that is in the window and not yet in the log (`WindowEndsLog`).
- `RolesInv`. Of one agent: it stays on its reactor during a call
  (`RunsOnItsReactor`) and its window is the end of the log of its session
  (`AgentsWindowEndsLog`), which a switch to a role has to restore. Of clones: nobody
  gives a reactor or a window to another agent (`ClonesApart`), which needs that every
  window in use was made (`RoleTypes`).
- `AccountInv`. The count covers the window, or is about to by the input of the
  call that is in progress, and is late by the last answer between calls
  (`Covered`). Every step adds an input to what is streamed, moves it to the records
  or leaves both (`SumsAgree`); the sums over callers are over one caller or two.
- `WindowInv`. The window is the end of the log, what is gone was reported, unless
  a system message, and once something is gone, what must be kept was kept.

`SlidesKeepWhatTheyMust` is an action property as well: a slide removes messages up to
the first place where it may stop (`SlideIs`), where it has reached the target, what
must be kept, or the limit of a batch, and went past no such place before
(`WindowSlides`).

Only model-checked:

- every liveness property, with the fairness of 3.3, the liveness halves of
  the refinements, of `StreamEndsOrPanics` and of `EnvironmentsAreSetUp`: TLAPS has no
  ENABLED. The safety halves are theorems;
- `PagesAreText`: what is left of a page when blocks, tags and attributes were cut
  out one after the other is a computation over the parts of every page, with
  `SelectSeq` and a position search in each turn, that has no invariant simpler than
  the pages themselves. `Workspace_proof` has the rest of what `WebFetch` promises;
- what a recursive definition computes for every input. Where a fold is used a
  least-element argument replaces the induction theorem (`NaturalSteps`,
  `IterationExists`).
## 5. What is left

### 5.1 Where code and comments disagree

Three disagreements are exhibited by runs:

- `reactor/think_act_observe.go:220` (run *delegation_collect*, `CollectOfToldReturns`): The model is told async-Delegate-<n> while the sub-agent's result is stored under task-<agent>-<n>, so collecting the id it was told waits for ever. src/tools/collect_results.go:34 says 'Pass task_ids returned by Delegate() calls'.
- `agent.go:675` (run *ask_stream_timeout*, `UncancelledStreamCarriesAnswer`): AskStream defers the cancel of the context it hands to the stream's goroutines, so the run is cancelled as soon as AskStream returns. src/agent.go:671 says 'A default timeout of defaultAskTimeout is applied to prevent indefinite blocking.'
- `reactor/reactor.go:663` (run *tool_output_restore*, `OffloadedAreRestored`): The message in the history begins with the tool's name, and the restoration looks for a message that begins with the reference. src/reactor/offload.go:104-105 says 'restoreOffloadedResults scans the conversation history for offload references and replaces them with the full file content.'

The following were met while modelling and follow from the definitions of the
modules; the runs that exhibited them are not kept. The properties of section 3
are stated for the conditions under which the code keeps them.

- `reactor/think_act_observe.go:184`: executeToolCalls looks only at the error Execute returns; a tool that ran and failed comes back in res.Error with a nil error, so the step it leaves carries a successful, empty result. src/reactor/reactor.go:631 says of a persisted step: 'tool:      \"<tool_name> error: <error>\"           (if tool errored)'.
- `reactor/reactor.go:724`: handlePauseSnapshot saves the context of a run that has already given its final answer or spent its budget, and RunFromSnapshot of it performs no cycle. src/agent.go:869 says 'Resume continues a previously paused task.'
- `reactor/reactor.go:745`: A cancel during Think ends the run with 'think error: ...', and one during the last cycle of the budget leaves the reason empty. src/agent.go:840 says 'The Run will return with partial results and TerminationReason \"request cancelled\".'
- `agent.go:862`: A Pause between handlePauseSnapshot's look at the request and AskWithContext's clean-up finds isRunning set, saves nothing and leaves the request for the next run. src/agent.go:851-852 says 'Pause interrupts the currently running Ask/AskStream call and saves the execution state (snapshot) so it can be resumed later with Resume().'
- `agent.go:628`: The clean-up of one AskWithContext clears isRunning while another is in progress. src/agent.go:941 says 'IsRunning returns true if an Ask/AskStream call is currently in progress.'
- `reactor/think_act_observe.go:164`: taskIDcounter starts at 0 for every batch of tool calls, so delegations of two batches are told under one id. src/tools/collect_results.go:35 says 'Multiple parallel delegates results can be collected in one call'.
- `reactor/interaction_handler.go:93`: A Respond that has read the pending question returns nil although the call it answers has left through ctx.Done, and the answer is lost. src/reactor/interaction_handler.go:85 says 'Respond delivers the user's answer to a waiting HandleInteraction call.'
- `reactor/interaction_handler.go:94`: Two Respond calls that both read the pending question both close its channel, and the second close panics. src/reactor/interaction_handler.go:91 means it to fail: 'not currently waiting for interaction'.
- `agent.go:736`: The asker closes textCh while the forwarder may still send on it, and a send on a closed channel panics. src/README.md:212 reads the stream with 'for text := range stream {', to its end.
- `agent.go:719`: The answer is sent by one goroutine and the fragments by another, so a fragment can follow the answer. src/agent.go:667 says 'AskStream sends a question and returns a channel that streams text fragments as they are produced by the reactor.'
- `core/ctx_win.go:220`: Slide drops a system message at the front of the window, and does not return it. src/core/ctx_win.go:182 says 'System role messages are NEVER evicted — they are always skipped.'
- `reactor/reactor.go:787`: The steps of a run are appended under the session of the window that is bound at that moment, which another call may have replaced. src/agent.go:580 says 'The sessionID identifies which conversation history to use.'
- `agent.go:778`: buildHistory asks the store for the agent's most recent session, whatever session it was passed. src/agent.go:768 says 'buildHistory rebuilds the complete ConversationHistory for a session from the SessionStore.'
- `agent.go:831`: The slide after an answer is announced to a nil handler, and the store never calls the one it was given. src/core/session.go:47 says '- Notify consumers via SlideHandler when messages are evicted from ContextWindow'.
- `reactor/eventbus.go:96`: Only cancel and Close close a subscriber's channel; the agent calls neither, so the loop never ends. The usage at src/agent.go:973 loops over the events after Ask: 'for event := range ch {'.
- `agent.go:778`: A clone shares the store, and the history of its calls is looked up by the agent's name alone, so a clone of the same name is given what its parent said. src/agent.go:1007 says 'Clone(): creates a NEW Agent with INDEPENDENT conversation history (new ContextWindow)'.
- `agent.go:1086`: Switch replaces the reactor that holds the snapshot of a paused task, and Resume looks in the new one. src/agent.go:1044-1045 says 'Switch changes the Agent's identity (Config) and/or model backend while preserving all runtime state'.
- `agent.go:1106`: resolveSessionForRole falls back to the window that is bound, so the new role goes on in the session of the old one. src/agent.go:1052-1053 says 'If no prior session exists for that role, a fresh context window is created and bound to the new role.'
- `reactor/reactor.go:532`: CloneReactor gives the new reactor no prompt, and nothing else does, so Think sends none after a switch. src/agent.go:1044 says 'Switch changes the Agent's identity (Config)'.
- `core/tool_executor.go:242`: A call that goes on in the background adds to the count of a later cycle, whose results are cut although they fit. src/core/limits.go:35-36 says 'MaxToolResultsPerMessageChars is the total size of all tool results within a single message cycle'.
- `core/tool_executor.go:95`: A clone shares its parent's executor, so the start of its cycle sets the count of the parent's back to 0. src/core/limits.go:35-36 says 'MaxToolResultsPerMessageChars is the total size of all tool results within a single message cycle'.
- `core/tool_executor.go:256`: Beyond the budget a result is still cut to the size of one, so the sum of a cycle grows without a bound. src/core/limits.go:35-36 says 'MaxToolResultsPerMessageChars is the total size of all tool results within a single message cycle'.
- `core/tool_executor.go:251`: A large result of a cycle within its budget is neither cut nor written, and one beyond it is cut first and then fits. src/core/limits.go:30-31 says 'MaxResultSizeChars is the per-tool result size threshold in characters. Results exceeding this will be persisted to disk.'
- `core/tool_result_storage.go:25`: When the directory cannot be made the preview is that of an empty string, and the result is lost. src/core/limits.go:55-56 says 'Only a preview and file path are kept in the context window.'
- `tools/todo.go:279`: The loops exchange items that are not neighbours, which carries one past another of its priority. src/tools/todo.go:275 says 'Sort ready items by priority (stable sort)'.
- `tools/todo.go:37`: The counter knows nothing of identifiers the model gave, so a new item can get one of them and replace that item. src/tools/todo.go:79 says 'Whether to merge with existing todos.'
- `tools/todo.go:116`: A merge replaces the whole item, so one that gives an identifier and a status empties its dependencies. src/tools/todo.go:57 says 'When you START working on a task - mark it as in_progress (use merge=true).'
- `agent_registry.go:172`: The file is named by the lower-cased name and the registry keeps names as they are, so two agents have one file. src/agent_registry.go:167 says 'SaveTo saves an agent config as a markdown file in the registry directory.'
- `tools/create_agent.go:97`: Two agents that create under one name at the same time both find it free; both succeed and the second replaces the first. src/tools/create_agent.go:98 means it to fail: 'agent %q already exists — use a different name or update the existing definition'.
- `tools/create_agent.go:116`: The error of a full directory is dropped, so the agent is reported as created and FindAgent never returns it. src/tools/create_agent.go:50 says 'Once created, the agent appears in FindAgent results and can receive tasks via Delegate.'
- `core/runtime.go:186`: SetScore overwrites the score with the latest one. src/core/runtime.go:76 says 'Performance score (0-3 average)'.
- `reactor/reactor.go:439`: RegisterTool empties the list before the tool is in the registry; a list made in between lacks it for good. src/reactor/reactor.go:125 says 'Invalidated when RegisterTool is called after construction.'
- `reactor/reactor.go:532`: A clone shares the registry and has a list of its own, which a RegisterTool of its parent leaves as it is. src/reactor/reactor.go:470 lists 'toolRegistry, skillRegistry (tool/skill definitions)' as shared.
- `tools/ask_permission.go:112`: BlockAndWait replaces the pending request of a call that waits, which no answer can reach any more. src/tools/ask_permission.go:134-135 says 'Respond delivers the user's permission decision. This unblocks a waiting BlockAndWait call.'
- `tools/ask_permission.go:138`: A decision names no request; one that comes when its call has left through its context goes to the next call. src/tools/ask_permission.go:96-98 says 'BlockAndWait blocks until the user responds to the permission request.'
- `tools/ask_permission.go:144`: Until the call has woken and cleared it the request stays pending, and a second answer closes its channel again, under the lock. src/tools/ask_permission.go:141 means it to fail: 'no pending permission request'.
- `tools/crontab.go:162`: add pipes the one new entry into 'crontab -', which replaces the whole table. src/tools/crontab.go:171 reports 'Crontab entry added successfully'.
- `tools/crontab.go:121`: list numbers the lines of the trimmed text, remove those of the text as it is, so that blank lines in front shift the numbers. src/tools/crontab.go:76 says 'Line number in crontab to remove (1-based, from 'list' output)'.
- `tools/crontab.go:199`: remove reads the table, cuts a line and writes it back; of two that overlap the later brings back what the other removed. src/tools/crontab.go:61 says 'remove — Delete a previously scheduled task'.
- `tools/crontab.go:256`: validateCronField never compares a number with its bounds. src/tools/crontab.go:65 says 'it catches common mistakes like swapped field order or out-of-range values'.
- `tools/skill.go:135`: Between the look for a SKILL.md and the write another agent may write it; both creations succeed and one skill is lost. src/tools/skill.go:136 means it to fail: 'skill %q already exists at %s'.
- `tools/skill.go:167`: isValidSkillName accepts a hyphen at the end, two in a row, and nothing checks the description's length; the loader rejects such a skill. src/tools/skill.go:147 says 'The skill will be available after the reactor reloads its skill registry.'
- `core/skill_loader.go:89`: Load gives up at the first skill that cannot be loaded, and the reactor then registers none of the directory. src/core/skill_loader.go:61 says 'Each subdirectory containing a SKILL.md file is loaded as a skill.'
- `tools/skill.go:268`: SkillList reads the directory, while the registry is filled once when the reactor is built. src/tools/skill.go:147 says 'You can use 'skill_list' to verify it's registered.'
- `tools/run_script.go:181`: The Once is done after a failed set-up, and ensureVenv then returns nil, so the next script runs without its requirements. src/tools/run_script.go:275 says 'automatically manages virtual environments and dependencies from requirements.txt'.
- `tools/run_script.go:200`: The comparison of hashes is inside the Once, so a requirements.txt that changes is never installed. src/tools/run_script.go:275 says 'automatically manages virtual environments and dependencies from requirements.txt'.
- `tools/run_script.go:52`: The manager is looked up by a path that is cleaned but not made absolute, so one skill can have two that set up the same directory. src/tools/run_script.go:162 says 'venvManager — per-skill Python virtual environment'.
- `tools/web_search.go:335`: The key of the cache leaves out max_results, so a call gets what another asked for. src/tools/web_search.go:274 says 'Maximum number of results to return (default: 10, max: 20).'
- `tools/web_search.go:171`: filterResults cuts the list to its length before it takes out hosts, so wanted results behind the cut are lost. src/tools/web_search.go:363 then says 'No results found for query: %q'.
- `tools/web_search.go:360`: An error of any adapter makes an empty search an error, also if a later adapter worked. src/tools/web_search.go:361 says 'all search adapters failed: %w'.
- `reactor/think_act_observe.go:30`: Think leaves CallInput.SessionID empty, so recordResult gives no usage to the store. src/core/session.go:10 says 'It is both returned in CallResult and persisted via SessionStore for billing/monitoring.'
- `reactor/llmcall.go:354`: CallStream takes the provider's total, which includes the input, for the output; Call subtracts the input. src/reactor/llmcall.go:406 says 'TotalOutputTokens returns the total output tokens across all recorded calls.'
- `reactor/llmcall.go:585`: recordResult adds the whole input of every call, which holds messages that were counted before. src/reactor/llmcall.go:396 says 'Calculated by traversing all current messages, not by summing call records.'
- `reactor/llmcall.go:585`: Since every call counts its whole input, a window is slid, and messages leave it, although they are below the trigger. src/agent.go:804 says 'checkSlide triggers context window sliding if the token budget is exceeded.'
- `reactor/coordination.go:534`: MarkCompleted completes any coordinator that has not ended, an interrupted one included. src/reactor/coordination.go:65-74 (CanTransitionTo) allows no such step.
- `reactor/reactor.go:845`: Act leaves an action of type answer, so CheckTermination ends the loop with 'direct answer produced' after one poll, tasks pending or not. src/reactor/reactor.go:827 says 'Loops with polling interval until all tasks complete or timeout/cancel'.
- `reactor/coordination.go:563`: Interrupt marks every registered task cancelled, so Resume takes up none of those. src/reactor/coordination.go:488 says 'Creates new contexts for sub-tasks that were interrupted (not cancelled ones).'
- `reactor/coordination.go:496`: Interrupt does not cancel the lifecycle context, and Resume drops its cancel function. The comment there says 'old one was cancelled during interrupt'.
- `reactor/coordination.go:416`: Dispose closes the command channel while the timer, or an owner, may still send on it, and a second Dispose closes it again; both panic. src/reactor/coordination.go:408 says 'Must be called when coordination ends'.
- `tools/edit.go:138`: The first occurrence is replaced. src/tools/edit.go:30 says 'The edit will FAIL if old_string is not unique in the file.'
- `tools/edit.go:106`: Nothing records what was read, neither for FileEdit nor for Write. src/tools/edit.go:27 says 'This tool will error if you attempt an edit without reading the file', src/tools/write.go:34 'This tool will fail if you did not read the file first.'
- `tools/edit.go:107`: Read returns no time; the one of Ls (src/tools/ls.go:119) does not parse, and the check is then skipped; one that parses has lost its fraction, so most files count as modified. src/tools/edit.go:33 says 'pass the file's modification timestamp from your last Read result'.
- `tools/edit.go:141`: The file is truncated and then written, so a process that ends in between leaves it empty, a write that ends early, by an error or with the process, leaves a beginning of the new content, and writers that overlap mix or lose their changes.
- `tools/read.go:168`: A page that leaves one line announces no other page; only total_lines tells.
- `tools/read.go:170`: A page over the token budget is cut, and the next one begins behind its last line nevertheless, so the lines behind the cut are never shown to who goes on with next_offset; only the note at the end of the page tells. A page of 500 lines is over it when they have more than 150 characters each.
- `tools/web_search.go:635`: stripTag finds its tags in the page in lower case (and again at line 644) and cuts the page at these places. Some letters have more or fewer bytes in lower case, and a byte that is not UTF-8 becomes three; behind one, text outside of tags is cut out, parts of a script stay, or the slice is out of range and the panic ends the process. src/tools/web_search.go:633 says 'Remove opening and closing tags and everything between them'.
- `core/runtime.go:237`: FindByDescription returns the agents as the map lists them, and FindAgent (src/tools/find_agent.go:56) only drops those under min_score; ListAvailable and ListActive, which sort, have no caller. src/tools/rank.go:25 says 'Scores are used by FindAgent to prioritize more reliable agents in future searches.'
- `agent_registry.go:197`: A write that fails, or in which the process ends, can leave the front matter and a part of the introduction. CreateAgent reports an error then, and the next process knows the agent, with what is left of its introduction.
- `agent_registry.go:76`: The parser takes a line --- of a description for the end of the front matter, and drops such lines of an introduction, so a definition with one is not read back as it was written.
- `tools/skill.go:143`: A write that fails after the front matter leaves a skill that is loaded with a part of its instructions, and that no other call can create any more.
- `tools/web_search.go:659`: Of a block tag with attributes only its name is cut out, so the attributes get into the text, as does a script that does not end. An error page is cached like any other, and the cached answer lacks the line with its status.
- `agent.go:1086`: A Resume that has taken a snapshot runs it on the reactor of a Switch that comes in between, and a Pause after a Switch during a run is left with the new reactor. src/agent.go:1044-1045 says 'while preserving all runtime state'.

### 5.2 Not modelled, and abstractions

- Text: prompts, parsing of the model's answers, front matter, pages of search
  results, command lines, summaries, the keyword search of `FindAgent` (which looks at
  descriptions only), titles.
- The model itself and every external program: a nondeterministic choice of what
  they may answer, failure included.
- Coordinator mode is modelled as it stands, although it is unreachable and `TODO.md`
  plans to delete it. Its methods are single steps; without a lock the code does not
  guarantee even that.
- `Bash`, `Grep`, `Glob` and `Ls` read, or run what the model wrote; they keep no
  state. The checks of paths, of addresses and the images of `Read` are left out.
- `core/task.go`, `concurrent/safe_map.go`, `core/compact.go`: without a caller.
- Deleting and clearing sessions, the queries of the session API, the stored
  usages: they read, or remove what nothing in flight refers to.
- `AgentRegistry`'s map is read and written without synchronisation. Its steps
  are interleaved as if each access were atomic.
- Sub-agents run with the configuration of their parent (`SpawnFunc`); a sub-agent
  in `Delegation` is a task that ends with one result.
- One directory of skills, so that names are not shadowed between directories.

### 5.3 Plan

The order of the work so far was: the loop and its contract; the agent's calls;
events, delegation and questions, where goroutines meet; conversations; tools;
coordinator mode, switches during calls, files and pages, and the proofs about
delegation, the coordinator and permission requests; then the proofs about flags,
decisions, files, offers, conversations, windows and accounts, and then those about
output, plans, streams, caches, the crontab, skills, environments and agents. What
would come next:

1. *Models.* Deleting and clearing sessions while calls for them are in
   progress; compaction as an algorithm with a reference definition and the task
   manager, if they get callers.
   `Delegation` together with `ReactLoop`'s runs for the sub-agents' budget.
2. *Compositions.* `AskStream` on top of `EventBus`; `Conversation` with
   `TokenAccount`'s steps, so that windows of two sessions slide by the real
   count; `ToolCatalog` with `ToolOutput`.
3. *Abstract specifications.* A log per session that `Conversation` implements for
   one caller; a cache that may forget for `WebSearch`; a mailbox for `Interaction`
   and `Permission`.
4. *Proofs.* The refinement of a mailbox; of `HtmlToText`, first that `StripTag` leaves
   no block that ends.

## 6. Running

    tlc -config Events.cfg MCApplication   # a run: configuration and module
    tlapm Application_proof.tla            # the proofs of one module

`PROJECT.json` has the runs with their properties, the faulty variant that violates
each property, the source lines of every definition, the hazards, findings and
theorems.
