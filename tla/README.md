# Verification of jecode

TLA+ specifications of jecode's concurrent and durable parts, TLC
configurations that check them on small instances, and TLAPS proofs of the
properties that matter most. Every definition is translated from the Rust
source; paths below are relative to `src/src/` unless they begin with `docs/`.

- [The system](#the-system): components, what they share, what is hard
- [Modules](#modules): what models what, and how
- [Runs](#runs): what each shows, its bounds and fairness
- [Proofs](#proofs)
- [What the models found](#what-the-models-found)
- [Not modelled](#not-modelled) and [Plan](#plan)

Run a configuration with `tlc -config X.cfg M` and check the proofs of a module
`*Proofs` with `tlapm M.tla`; the slowest takes about ten minutes.

## The system

jecode is a terminal coding agent. One *agent* owns a conversation and runs
turns: it sends a request to a model, runs the tool calls of the answer and
repeats until an answer has no calls. A turn runs on a worker thread; the
interface (terminal UI, plain chat or single prompt) runs its own loop and
shares state with the worker through locks, a bounded event channel and an
inbox. Commands run under monitor threads that outlive the call that started
them. The conversation is written to a journal at every boundary of a turn, so
that a crash at any point leaves something to resume.

### Components

| Component | State | Operations | Talks to | What makes it correct |
| --- | --- | --- | --- | --- |
| Command processes (`tools/processes*`) | a list of entries per conversation, each with outcome, waiters, reported, sequence; a counter of completions | launch, wait, poll, stop, release, list, mark reported, retention, `stop_all` | tool calls, one monitor thread per process, interfaces with cursors, the turn loop | every ending is told once, in order, and none is forgotten; waits and closing end |
| Turn loop and delivery (`agent.rs`, `agent/processes.rs`, `agent/compaction.rs`, `tui/processes/lifecycle.rs`) | phase of the turn, news in a request, continuation budget | send, retry, accept, run calls, end, continue by itself | model backend, registry, session, event sink | news reaches the model exactly once, is saved before it counts, and starts a turn when nobody else does |
| Tool calls (`agent/execution*`, `agent/permission.rs`, `permissions.rs`) | the calls of one completion, their waves, results, the permission waited for | schedule, start, finish, refuse, cancel, save | tools' threads, the user, the session | one true result per call, in the order of the calls, whatever fails |
| Session journal (`sessions/journal*`, `sessions/storage.rs`) | an append-only file, and a remembered position in it | read, append, sync, roll back, preserve a torn tail | the session handle, the disk | an acknowledged save survives, an unacknowledged one is whole or absent |
| Session handle (`sessions/handle*`) | live and saved document, dirty, pending input | checkpoint, append event, capture input, name, autosave | worker, interface, autosave, title and receipt threads | what is saved is a consistent beginning of what is shown |
| Input during a turn (`inbox.rs`, `agent/input.rs`, `agent/retraction.rs`, `tui/drafts.rs`, ...) | composer, paused draft, inbox, conversation | submit, queue, recall, accept, pause, return | interface, worker, session | a prompt is in one place, and never in none |
| Worker events (`tui/worker.rs`, `tui/poll.rs`) | a bounded queue, one preview, a waker | send, take, cancel, join | worker, interface loop | no fact is lost or reordered; nobody waits for ever |
| Collaborators (`collaboration/`) | a record per collaborator, its worker, inbox and receipts | create, update, stop, review, integrate, close, resume | main agent, child agents, session | reports and reviews are of the right version; updates arrive; stops end |
| Questions (`ask*`) | the pending question, its event in the journal, its saved reply | ask, answer, dismiss, suspend, resume | worker, interface, session | an answer that was saved is used, once, and for its own round |
| Workspace checkpoints (`checkpoints/`) | snapshots, path leases, a free-space estimate | capture, inspect, restore, claim, probe, prune | tools, other processes, other programs | nothing is overwritten that cannot be undone; leases never block each other for ever |
| HTTP requests (`http/`, `native/unix_http_exchange.h`) | a pool of adapter processes, each with a kept connection | take, deliver, accept, retry, give back, end | every component that talks to a server | what was accepted is not sent again; an answer is the request's own |
| Model connection (`backend/openai/socket.rs`, `agent/recovery.rs`) | a kept WebSocket with its age and response | borrow, send, read, renew, fall back, retry | samples of a conversation, the provider | one attempt shows one answer, of this sample |
| Language servers (`lsp/`) | an instance per server and root: session, documents, freshness, crashes, status | query, start, crash, retire, stop, reset, forget | tools, an idle pump, the settings panel | no stale answer is called synchronized; servers stop with their settings; queries return |
| Accounts of a subscription (`auth/openai/`) | one record on disk, what each process remembers of it | give out, renew, sign in, sign out, select | workers, settings panel, token endpoint | a refresh token is spent once; what is given out is on file |
| Remote MCP tools (`mcp/`) | one record per connection, shared clients and sessions | list, bind, call, renew, challenge, edit, sign in, save | workers, forms of any process, servers | a call runs at most once and is told truly; no grant is lost |
| Context and compaction (`context*`, `agent/summary.rs`) | boundary, summary, view | estimate, compact, project | turn loop, backend | a call and its results stay on one side |
| Permissions and confinement (`permissions/`, `sandbox*`) | level, grants, requests | begin, decide, wait | worker, interface, journal | a call that was not allowed does not run |
| Tools and output (`tools/`, `output*`, `file_change*`) | files of the project, captures | read, search, write, edit | the file system | what is reported is what was done |
| Shell and processes (`shell*`, `process*`, `pty*`) | operating-system processes | parse, start, drain, kill | the operating system | every child is reaped, output is complete |
| Discovery, project map, skills, scratch, attachments, export | files | walk, read, replace | tools | bounded, ignore rules are kept |
| Web, browser, other backends | texts and limits | search, fetch, translate | `http/` | bounded and complete |
| Plans (`todo*`) | a list | replace | worker, interface | the last list is shown |
| Entry, settings, native adapters, interfaces, utilities | settings, terminal | start, draw, convert | everything | sequential |

### What is hard

- *Interleaving.* Monitors, tool calls, the interface, the autosave thread, a
  title request, collaborators and receipts all change the same conversation.
  The hand-overs use several short critical sections rather than one.
- *Partial failure.* Every save may fail, and the file's rollback may fail too.
  Every display may fail. Both can happen in the middle of a batch of calls.
- *Crashes.* What ran and was not saved must be told as unknown, never as not
  executed.
- *Ordering.* Results come out of order and are told in order; previews and
  facts share a channel; receipts are inserted before unsaved messages.
- *Stale snapshots.* A request carries news collected before it was accepted,
  possibly several retries earlier; a save ends after the document moved on.
- *Liveness.* Sends block on a full queue, shutdown joins threads, a turn waits
  for a user, an ending must start a turn when nothing else does; a query
  retires the instance it holds while the panel wants both its locks.
- *Several processes.* Checkpoints, accounts and connections are files that
  other processes change at any moment; memory of them is checked by stamps.
- *Repeating.* HTTP requests, model samples, refresh tokens and MCP calls may
  each be repeated in some failures, and must not be in others.

`PROJECT.json` lists these hazards with the line where each bites and the
properties that would catch it.

## Modules

```
ProcessNews  <--implements--  ProcessDelivery --EXTENDS--> ProcessRegistry
SessionLog   <--implements--  SessionJournal  --EXTENDS--> JournalState
CallLedger   <--implements--  ToolTurn
SessionHandle

MCChannels    WorkerEvents | Collaborator
MCRecords     SessionJournal | McpConnections
MCServices    HttpPool | ResponseSocket | LanguageServers
MCComponents  Checkpoints | Pressure | Questions | Credentials

ProcessProofs     of ProcessRegistry, ProcessDelivery and ProcessNews
TurnProofs        of ToolTurn and CallLedger
ChannelProofs     of WorkerEvents and Collaborator
ServiceProofs     of HttpPool, ResponseSocket and LanguageServers
WorkspaceProofs   of Checkpoints and Pressure
QuestionProofs    of Questions
SessionProofs     of SessionHandle
RecordProofs      of JournalState, SessionJournal, SessionLog, Credentials and McpConnections
```

`MC*` modules add what TLC needs: symmetry sets and small values. The last four
check several components that share no state in one run: a variable `part` says
which one moves, the others stay in an initial state, and fairness and liveness
speak of the part that moves.

### ProcessRegistry

The processes of one conversation (`tools/processes.rs`, `processes/entry.rs`,
`lifecycle.rs`, `observer.rs`). `state[p]` is an `Entry`'s state: outcome,
waiters, the generation of its last release, reported, sequence. A call moves
through `call[c].at`, one value for each place where a thread can be between two
critical sections; a reader's scan holds the list lock for several steps, which
is what `CursorSeparates` depends on. `RequestStop`, `End`, `Transition`,
`AfterFinal`, `AfterReport` and `Owe` are the sections in which an ending is
counted, numbered or handed back. The two hazardous windows are explicit: a
report that cannot read a saved stream gives the state lock back before it owes
the ending again, and retention drops entries while interfaces have cursors.

### ProcessDelivery and ProcessNews

`ProcessDelivery` EXTENDS the registry with the turn loop: a request takes a
snapshot of the news (`asked`), may be retried or refused, and only when the
provider accepts it are the completions saved, shown and marked. Calls of a
response run in waves through the registry's actions. A turn may end, fail, be
cancelled, or continue by itself. `ProcessNews` says the same in three actions:
an ending, a result that tells some endings, an announcement that tells only
what was not known. `NewsRefined` is the refinement.

### ToolTurn and CallLedger

One completion with `Calls` calls, each serial, automatic or declared parallel
(`agent/execution.rs`, `execution/declared.rs`, `scheduling.rs`). The worker's
place in the code is `pc`; the tools' threads are `work`. Each checkpoint
applies one operator for its stage (`Tool`, `ToolFinished`, `ReadBatch`,
`ToolBatchResult`, ...; `sessions/handle.rs`), is validated (`Valid`, from
`sessions/context.rs`), and may fail. A crash ends the worker and its tools;
`Recovered` is what the next open makes of the saved document. A save is one
step here, which `SessionJournal` justifies: append rolls a failed write back.
`CallLedger` is the promise: what is told of a call is told once and is true.

### SessionJournal, JournalState and SessionLog

The journal of one session under its lease (`sessions/journal.rs`): records
after records, of which the last may be torn. Writing, syncing, rolling back,
copying and cutting a torn tail are steps of their own, and a crash may come
between any two. `JournalState` is the encoding of state as differences
(`sessions/journal/state.rs`); what recurses into objects there is a recursive
function of how deep they may nest, so that it can be reasoned about. That a
difference applied to its base restores the state is a theorem
(`StatesRestored`); `MCSessionJournal` has TLC evaluate it over some pairs too.
It needs that no object loses a key without being replaced, which a difference
cannot say. `StateAssumption` claims that of the states the program saves: the
types of their objects fix their keys, but for a routing, whose stale endpoint
is not read where its mode is another, and a count's origin, whose account every
backend that counts has. `SessionLog` is what storage promises; `Stores` is the
refinement.

### SessionHandle

The document in memory, the one on disk, and five writers: interface, worker,
autosave, title request and a thread with a receipt. A save holds the `io` lock
from its copy to its end (`save`), and the others act between where the locks
let them. `prepare_turn` takes the locks of the events and of the messages one
after the other, so that a turn's start (`Send`) and its prompt (`PushPrompt`),
and the withdrawal of the prompt (`NotBegun`) and of the start (`Withdraw`), are
steps of their own between which a title or a receipt may come. Prompts move from composer to queue to conversation and back.

### WorkerEvents

The event channel (`tui/worker.rs`) with the interface's loop. An event is a
number and one of four kinds, as `EventSender::queue` tells them apart:
previews are replaced, hints are dropped when the queue is full, settling
responses remove the preview that waits, facts wait for room.

### Collaborator

One collaborator's record, its worker thread (`run_child`) and the main agent's
actions. An assignment is its version. `receiving` and `accepted` hold what the
worker took out of the record under the lock and uses after it. The history
variable `told`, the newest version in the child's conversation, and
`report.about` exist only to say what a report answers; `overflowed` notes that
an update found the child's inbox full.

### HttpPool

A request of a caller, the pool, and the adapter's process
(`http/pool.rs`, `http/adapter.rs`, `native/unix_http_exchange.h`). A caller's
`at` is its place in `Pool::send`; the process reads a delivery, says that it
accepted it, sends, and passes head and rest back as frames. Pipes are
sequences that survive the process at their other end. The process may idle
out, lose its connection, find the kept one stale and open another (for safe
requests only), or break at each step. The server is external: it answers,
closes, or does not answer.

### ResponseSocket

The Responses WebSocket of one conversation. A sample borrows the channel when
nobody uses it and opens a connection or goes by HTTP otherwise; it sends,
reads text and a terminal event, and leaves the connection for the next one if
it is clean. The provider may add a timing event after the terminal one, close,
or refuse the connection's age. What was shown is remembered with the sending it
came from, which is what `OneAnswer` needs. How an attempt ends (`Ending`) decides
what follows, as in `agent/recovery.rs`: a temporary failure is waited out and
retried (`Retry`), as often as it takes, and an empty answer too, but the
request's `EmptyLimit`-th one, in the code the third, ends it. So `SampleEnds`
does not say that every sample ends: the code retries temporary failures without
an attempt limit (`docs/usage/LONG_WORK.md:11`), and only silence is timed, so
that an answer may go on for ever. It says that nothing else keeps a sample from
its end: no fallback, no resending, no empty answer, no silence.

### LanguageServers

The runtime's registry (`entry`), the sessions' locks, a query's way through
`execute` (`lsp/runtime.rs`), crashes and restarts, `idle.rs`' pump, the
stopping threads of `control.rs`, and the settings panel. A text is a value of
the file; the server's copy and each answer remember theirs. What the panel
reads of a busy instance (`observed`) is state of its own, because it is
published at other moments than the condition changes.

### Checkpoints and Pressure

`Checkpoints` has threads of several processes in one workspace. A lease holds
a stripe twice, as a mark among the process's threads and as a file lock among
processes (`checkpoints/locks.rs`), and the two are taken one after the other.
A restore saves what it will overwrite, compares, installs path by path and
reports; a file tool saves what it read before it writes. Other programs write
between any two steps (`disturbed` notes where). `Pressure` is the estimate of
a volume's free space that claims share, with its background thread.

### Questions

`ask.rs` with its persistence: the worker journals and emits a question, waits,
and takes the saved reply; the interface answers, dismisses, stops the turn or
quits; the process may end at any step. A second round may use the first one's
call identities again, in a conversation that is opened anew.

### Credentials

The record of an account under its lock file, and workers and an interface of
several processes (`auth/openai/mod.rs`, `storage.rs`). Tokens are numbers of the
server's answers; `lost` holds refresh tokens whose answer never came back or
was not saved. Whether the file still is the one remembered stands for its
stamp.

### McpConnections

One connection of `mcp.json`: the record under its file lock, `Runtime`'s shared
clients, calls from the catalog to their outcome, with renewals, challenges for
more permission and sessions that are gone, and forms that edit, sign in and
save in any process. `history` remembers what was challenged for and which
tokens were replaced; it changes nothing else.

## Runs

Runs that must find a violation are described under
[What the models found](#what-the-models-found). Fairness is only used where a
liveness property needs it. A property made of several parts is their
conjunction; the parts are named in the module, and each has its mutant.

| Run | Instance | Properties |
| --- | --- | --- |
| `ProcessRegistry` | 3 processes, 1 call, 1 interface, retention of 2 | `NoEndingLost`, `CursorSeparates`, `NumbersAreDense`, `OwedStaysListed` |
| `ProcessCalls` | 1 process, 2 calls, 1 interface, 1 release, fair | `TypeOK`, `WaitersCounted`, `EndingsStay`, `WaitsReturn` |
| `ProcessDelivery` | 2 processes, 1 call, retention of 1, fair | `NewsIsKept`, `NewsRefined`, `EndingReachesModel` |
| `ToolTurn` | 3 calls in every mix of modes, waves of 2, 2 faults, 1 crash, fair | `AnsweredInOrder`, `AlwaysValid`, `HonestOutcomes`, `TurnEnds` |
| `SessionHandle` | 2 prompts, 3 messages, 1 failing save | `SavedIsTrue`, `InputIsKept` |
| `Channels`, fair | events: 4 events of any kind, a queue of 2, polls of 3; collaborator: 4 versions, an inbox of 2, 1 failing receipt, 1 crash | `EventsShown`, `AllEventsArrive`; `ReportsAreTrue`, `ChildrenAreReached` |
| `Records` | journal: histories of 2, 3 records, two states with partial text; connection: two calls with one form, one grant and one edit, or two forms with two of each, 2 endpoints | `NothingIsCut`, `Stores`; `GrantsAreKept`, `CallsAreTrue` |
| `Services`, fair | HTTP: one safe and one unsafe request, 2 adapters, a pool of 1, 1 stale retry, 1 break; socket: 2 samples, 2 empty answers end one, 1 text unread; servers: 2 queries, 1 instance, 2 texts, 2 crashes, 2 user actions | `RepeatedSafely`, `ReusedClean`; `OneAnswer`; `InstancesAreTrue`, `NeverStale`, `RetiredSoon`; `CallsReturn` for all three |
| `Components` | checkpoints: 2 restores and a file tool in 2 processes, 2 paths, 1 foreign write; pressure: 3 claims of 2 archives; questions: 2 rounds, 3 runs of the program; account: 2 workers and an interface, 3 answers of the server | `OverwritesSaved`, `UndoFits`, `NobodyWaitsInACircle`; `EstimateIsSound`; `ResultsAreHonest`, `AnsweredOnce`; `RefusedOnlyIfLost`, `GivenIsStored` |

Why the bounds are enough to be interesting:

- *Processes.* Two endings are needed to pass one over, three to exceed a
  retention of two; two calls to race for one ending. Numbers and launches are
  bounded by the processes themselves. The retention limit is 32 in the code
  and any positive number in the proofs.
- *Tool calls.* Three calls with waves of two give a full wave followed by
  another, and a remainder to cancel after either; two faults give an error
  while handling an error.
- *Journal.* Three records give a torn one after a synced one after the first,
  whose difference has no base.
- *Handle.* Two prompts give one in the conversation while another waits, and
  three messages a reply between them.
- *Events.* A queue of two and four events give a full queue with a preview
  behind it and a poll that ends before the queue is empty.
- *Collaborators.* Four versions give one selected, two in the inbox, and one
  that finds it full.
- *HTTP.* Two requests of which one may be repeated, and a pool that is too
  small for both, give a reused process, one that is dropped, and a stale
  connection met by each; one break anywhere is enough to cut any step.
- *Socket.* Two samples give a channel in use, and one left for the next. Neither
  the retries nor the text of an answer are bounded, only how much text waits
  to be read (`MaxUnread`). A request's second empty answer ends it instead of
  its third; the proof is for any limit.
- *Servers.* Two queries give one waiting for a session that the other one
  retires; two texts a change while the server answers.
- *Checkpoints.* Two paths and three threads of two processes are the smallest
  instance in which a circle could pass through both kinds of lock, and in which
  a restore overlaps another one and a file tool.
- *Pressure.* Three claims give one that is admitted during a probe another
  began, and a third that waits for it.
- *Questions.* Two rounds give one identity twice; three runs of the program a
  crash, a resume and a crash of the resumed one.
- *Account.* Three answers of the server give two renewals after a sign-in.
- *Connection.* Two calls share a client that one of them finds expired; two
  forms overlap a sign-in with an edit and with another sign-in.

Deadlock checking is off where the system really stops: a conversation closes, a
turn ends, the user writes no more.

Fairness, and why the code justifies it:

- *Registry.* A call that is not waiting for a process runs on (weak fairness):
  its steps are ordinary code. A process that was asked to stop ends, because
  supervision kills it and returns. A wait polls its conditions every 20 ms.
  Strong fairness for owing and ending says that a thread that wants the list
  lock gets it although readers come and go. A process that nobody stops may run
  for ever, and a deadline is not assumed.
- *Delivery.* The worker runs on, and a provider that is asked again and again
  accepts at last (strong fairness on accepting); a turn that fails holds the
  conversation (`held`), which the property excepts.
- *Tool calls.* The worker and the tools' threads run on, and a tool ends at last,
  which cancelling makes it do; the user need not
  decide, which is why `WaitsForUserOnly` excepts exactly that wait.
- *Events.* The worker sends and the loop runs; its sleep ends with its timer.
- *Collaborators.* The child's thread runs on and its turns end; the main agent
  finishes an action it began. It need not begin any.
- *HTTP.* Callers and adapter processes run on; the server need not answer,
  because the adapter gives up at its deadline.
- *Socket.* A sample runs on, and silence ends its reads. The provider is not fair:
  it may fail every attempt, or send text for ever, which `SampleEnds` excepts.
- *Servers.* A query runs on, its waits for locks and for the server included:
  each is bounded by the query's deadline. So do stopping threads and the
  panel's reset. The pump tries a lock it never waits for; strong fairness says
  that it finds it free at last if it is free again and again.

`CallsReturn` is thus unconditional for HTTP and the language servers, and has
the exceptions of `SampleEnds` for samples.

The other parts have no liveness properties and no fairness: what they promise
is about what is on disk when something ends or fails.

## Proofs

Each theorem holds for every value of the constants that the named `ASSUME`s of
its module allow; the runs check the same properties on the instances above.
The assumptions are about the constants only: sets are apart, limits are
positive, a text that is saved is the text of something. Each proof module opens
with its argument. An invariant of a run is never inductive as it stands; the
strengthenings below are what the proofs are about.

**`ProcessProofs`**: processes and the turn loop.

| Theorem | Statement |
| --- | --- |
| `TypeCorrect` | `Spec => []TypeOK`; in particular no waiter count goes below zero |
| `WaitersAreCounted` | `Spec => []WaitersCounted` |
| `EndingsAreKept` | `Spec => []NoEndingLost` |
| `OwedIsListed` | `Spec => []OwedStaysListed` |
| `DenseNumbers` | `Spec => []NumbersAreDense` |
| `CursorsSeparate` | `Spec => []CursorSeparates` |
| `EndingsAreSettled` | `Spec => EndingsStay` |
| `NewsKept` | `DeliverySpec => []NewsIsKept` |
| `LoopImplementsRegistry` | `DeliverySpec => Spec` |
| `DeliveryImplementsNews` | `DeliverySpec => NewsRefined` |

A lost ending would be one whose last waiter left without telling, so
`NoEndingLost` needs the waiter count to be exact (`WaitersCounted`); the count
is exact only if calls refer to launched processes (`CallsRefer`); numbering one
more ending keeps the numbers dense only if it has ended and has none
(`EndedLaunched`, `TypeOK`); and retention keeps owed entries only if it looks
at launched ones (`ListedLaunched`). `IInv` is the conjunction of these eight.
There is a lemma for each section that changes an entry (`TransitionPreserves`,
`CountedOut`, ...), for any state it may find. `ReaderInv` adds what a scan
knows at each entry: the highest number it has seen bounds the cursor it will
set, and whoever is numbered meanwhile has a higher one. For the turn loop,
`DeliveryInv` says that no call runs outside a wave, so that the completions of
a request stay unseen until its answer is accepted; that makes the refinement a
case analysis, one lemma per action.

**`TurnProofs`**: the tool calls of a turn. `TurnInv` relates what has happened
to a call, the results in memory, the live document and the saved one.

| Theorem | Statement |
| --- | --- |
| `ResultsAreInOrder` | `Spec => []AnsweredInOrder` |
| `CheckpointsAreValid` | `Spec => []AlwaysValid` |
| `OutcomesAreHonest` | `Spec => HonestOutcomes`, the refinement of `CallLedger` |
| `SessionsReopen` | `Spec => []SavedReopens`: recovery of any saved state is a valid document that answers each call and takes nothing back |

Results are in the order of the calls and true (`MessagesSound`). A document,
live or saved, is valid, and of every call that has started it tells the outcome
or names it among those that recovery calls unknown (`DocSound`). The saved one
tells nothing that the live one does not (`Ahead`). `PlaceSound` and `JobsSound`
tie the pending fields and the jobs to the worker's place. `CallLedger` then
follows from a step of the saved document, crash and recovery included.

**`ChannelProofs`**: worker events and collaborators.

| Theorem | Statement |
| --- | --- |
| `EventInvariant`, `ShownIsSent` | `EventSpec => []EventsShown`, for any capacity, poll size and number of events |
| `CollaboratorInvariant`, `ReportsAreOfTheirVersions` | `CollaboratorSpec => []ReportsAreTrue`, for any versions, inbox, failed receipts and crashes |

`EventInv`: what was shown followed by what waits is one line of events that
were sent, in rising order, which contains every reliable event and the last
preview before each. `CollaboratorInv`: each version is saved no later than it
is sent on, and unless an update found the inbox full, the versions that the
record calls pending are the worker's and the inbox's, in order, between any two
of the steps that take, accept and acknowledge them (`Matches`). That is why an
event that carries only a number of prompts can name versions.

**`ServiceProofs`**: connections to servers.

| Theorem | Statement |
| --- | --- |
| `PoolRepeatsSafely`, `PoolReusesClean` | `PoolSpec => []RepeatedSafely`, `PoolSpec => []ReusedClean` |
| `AnswersAreSingle` | `SocketSpec => []OneAnswer` |
| `ServersAreTrue` | `ServerSpec => []InstancesAreTrue` |
| `AnswersAreFresh` | `ServerSpec => NeverStale` |

`PoolInv`: every process has one owner (`Owned`), a caller has read a beginning
of what the adapter wrote for it (`CallersSound`), and what a connection still
owes is the rest of the answer its adapter reads (`AdaptersSound`). `SocketInv`:
the channel is a sample's exactly while the sample is at the stages that use it,
and what arrives is of its own answer (`SampleSound`, `WireSound`). `ServerInv`:
who is in a session (`Sessions`), that an instance outside one is published as
it is and that its failures are counted (`EntrySound`), and that an answer is
about the document the server was given until the two are compared
(`QuerySound`).

**`WorkspaceProofs`**: files of the workspace.

| Theorem | Statement |
| --- | --- |
| `NobodyWaits` | `CheckpointSpec => []NobodyWaitsInACircle`, for any threads, processes and stripes |
| `UndoFitsAlways` | `CheckpointSpec => []UndoFits` |
| `Overwritten` | `CheckpointSpec => OverwritesSaved`, for any number of foreign writes |
| `EstimateSound` | `PressureSpec => []EstimateIsSound` |

Stripes are taken in ascending order (`Ordered`), each is held by one thread and
its file lock by one process (`HeldSound`, `LockSound`). So of the threads that
wait, the one for the highest stripe waits for nobody; and paths in the leases
of two calls at work are apart, so that only other programs can disturb what a
call knows of its paths (`Agrees`). `PressureInv` says of the thread that
refreshes the estimate that it deducts at least what was admitted since it began
(`Covered`), and of a refused claim that it was refused for a reason
(`LowSound`).

**`QuestionProofs`**: questions to the user.

| Theorem | Statement |
| --- | --- |
| `QuestionsAreHonest` | `QuestionSpec => []ResultsAreHonest` |
| `QuestionsAreAnsweredOnce` | `QuestionSpec => AnsweredOnce` |

`QuestionInv`: the saved round lacks at most results of the live one
(`SavedSound`); at most one call without a result was put to the user
(`AskedSound`), it is the next one to execute, and its reply is on disk before
the worker can see it (`RequestSound`); a turn is cancelled by the user's stop,
or after a quit has suspended the pending question (`StopSound`). So what a
restart finds pending is the question that was put, with its answer.

**`SessionProofs`**: the session handle.

| Theorem | Statement |
| --- | --- |
| `SavedStaysTrue` | `HandleSpec => []SavedIsTrue` |
| `InputStaysKept` | `HandleSpec => []InputIsKept` |
| `SavedOnlyGrows` | `HandleSpec => [][SavedGrows]_handleVars`: what was saved of the conversation is never taken back, by a failed save, a receipt, a title or an autosave |
| `SessionSound`, `HandleTypeInvariant` | `HandleSpec => []SessionInv`, `HandleSpec => []HandleTypeOK` |

The conversation exists four times: in the archive the agent keeps, in the live
document, in the copy a save writes, and on disk; five threads move them.
`SessionInv` says how they stay in line. The disk begins what the save under way
began with, which begins what is live, and what is not dirty is on the disk
(`SaveSound`). The live document begins the archive, but for what the stage
under way added and may withdraw (`LinkSound`); that is why a save that fails
shortens the document by its own stage's part and by nothing a receipt or a
title put there meanwhile. A receipt that moves events moves the same ones in
both (`ReceiptsFound`), and no event is left after messages it does not follow
(`StaysValid`). While a turn is being prepared or withdrawn, its start may be in
the archive without its prompt; `SendingSound` says that the prompt on its way is in no
other place then, and before it is added not in the document's input either.
`TurnSound`, `Apart` and `NothingLost` say in which place each
prompt is; `InputSound` that no document, live, copied or saved, holds one both
in its input and among its messages; `LastSound` that the input that was
captured last is the live one, so that an autosave can skip it. `Threads` says
who holds `io` and who waits for a save's result. Once a title has crossed a
failed preparation (`crossed`), `LinkSound` and `InputSound` promise nothing.

**`RecordProofs`**: what is kept in files.

| Theorem | Statement |
| --- | --- |
| `StatesRestored` | for any two states of which the second keeps the first's keys, the difference restores the second |
| `SyncedAndTornStay` | `Spec => NothingIsCut`, for any number of records and any failures |
| `JournalStores` | `Spec => Stores`, the refinement of `SessionLog` |
| `AcknowledgedReplays` | `Spec => SavedReplaysIfSure`: where no rollback failed, an acknowledged save replays to the document that was saved; what `SavedIsReplayed` claims without that condition is violated |
| `JournalSound`, `JournalIsTyped` | `Spec => []JournalInv`, `Spec => []TypeOK` |

The differences are treated by induction on the depth of nesting, which is an
induction over a set of numbers (`EveryNumber`): each recursive function exists
to every depth, and what restores the values in two objects restores the
objects. `JournalInv`: the records always continue each other, however a save
ended (`Whole`); a process that knows a position knows what the records before
it make (`PositionSound`, `StepSound`); a record on its way completes that to a
document as long as the live one (`SavingSound`). `AckedSound` is the condition
the finding breaks: while no rollback has failed, the acknowledged document is
what the synced records make, and it begins the live one even after the refused
part is withdrawn. So the record completes it to the document that was saved.
Every step is then one of `SessionLog`'s or invisible to it.

*The account of a subscription:*

| Theorem | Statement |
| --- | --- |
| `NoTokenIsSpentTwice` | `CredentialSpec => []RefusedOnlyIfLost` |
| `GivenTokensAreStored` | `CredentialSpec => GivenIsStored` |

Whoever changes the record's file holds its lock or finds it free, so what the
lock's holder has read stays true (`OneHolder`, `AsStored`), and memory that has
not been seen to be old agrees with the file (`MemoryAgrees`). And each refresh
token is in one place: in the file, with the caller that was just given it, or
with one that took it out to revoke it (`Issued`, `Apart`); so the one on file
can be spent, unless its successor is on the way or an answer was lost
(`Spendable`). A caller that is refused held the lock and sent the token on
file: that token was lost.

*Connections to MCP servers:*

| Theorem | Statement |
| --- | --- |
| `PermissionsAreKept` | `McpSpec => []GrantsAreKept`, for any number of calls, forms, grants and changes |
| `CallsAreToldTruly` | `McpSpec => []CallsAreTrue` |
| `McpIsTyped` | `McpSpec => []McpTypeOK` |

`ClientInv` is about the calls: no two hold the same client (`ClientsApart`), and the
client of a call that talks was made for its record, as the shared one was for
the record it is shared under (`ClientSound`, `CurrentSound`); `bind` needs both
when it updates the record of a client that others wait for. `StoreInv` is about
the record: who renews tokens holds the lock, and what it read is still on file
(`KeeperSound`); the tokens of a draft are those it was opened with, none, or
those of a sign-in of its own, which are nowhere else (`DraftsSound`); and as
long as a sign-in has its guard, the guard says what it asked for
(`GuardsSound`). Two lemmas, `RecordChanges` and `FormChanges`, say which
changes of the record and of a draft keep this; every save, renewal and sign-in
is one of them.

What proving changed in the models and their properties:

- `OverwritesSaved` was false with two foreign writes: a file tool compares the
  text with what it read and not with what its receipt saved, so that a text
  that changed before the capture and changed back before the comparison is
  overwritten under a receipt of the text in between. The comparison counts as
  the call's last look (`disturbed`) only where the receipt holds the same text.
- `Checkpoints` relied on file tools and restores being different threads, and
  on a snapshot holding something (`checkpoints/capture.rs:236`); both are
  assumptions now.
- `LastPreviewShown` excepted previews before a refused event; the induction
  shows that the exception never happens, and it is gone.
- The queues of `Collaborator` are sets of versions: versions only rise, so that
  a queue's order is theirs.
- `Questions` assumes that a round of questions asks at least one.
- `McpConnections` relied on there being a client left for a call that needs a
  new one, and on calls and forms being different actors; it assumes both now.
- `SessionJournal` relied on no document being told from every document, and
  assumed that differences restore. It assumes the first by name now, and of the
  second only what the code can be read for: that objects keep their keys.
  Reading for it showed the routing, which loses one.

Only model-checked:

- the liveness properties (`WaitsReturn`, `EndingReachesModel`, `TurnEnds`,
  `AllEventsArrive`, `ChildrenAreReached`, `CallsReturn`, `RetiredSoon`), because
  TLAPS does not treat fairness. Every other property of a passing run is a
  theorem.

## What the models found

- **A save acknowledged over one that failed** (`SessionReopened`,
  `SavedIsReplayed`). When a save and its rollback both fail, the record stays
  in the file. The next save of the same process reads the journal again, takes
  the refused message for its own and is acknowledged without writing the one
  that took its place. `SessionLog` therefore promises nothing after such a failure (`sure`).
- **A title that takes a withdrawn prompt along** (`SessionCrossed`, `Aligned`).
  A title saved between a failed preparation and its withdrawal saves the
  prompt, or the turn's start alone when it comes between the two locks that add
  (`agent/persistence.rs:129`, `130`) or remove them (`132`, `133`). The session's
  history is then shorter than the saved one, and checkpoints are refused until
  it has grown as long again. `SavedIsTrue` excepts exactly this (`crossed`): a
  title that takes a prompt or a start that may still be withdrawn.
- **A stop that is overwritten** (`CollaboratorStopped`, `StopIsKept`).
  `received` sets a collaborator `running` without looking at its state. A stop
  that came after the worker selected the assignment is forgotten: the record
  ends `failed`, or stays `running` after its thread has ended when an update is
  pending, and `update` accepts versions nobody will receive.

Seen while modelling, and stated as exceptions rather than as runs:

- With the child's inbox full (nine updates in one request or tool call), an
  update stays pending outside it. When the inbox is next accepted and refilled,
  the `Accepted` event's count names the older pending version, and a report is
  filed under a version the child did not see. `ReportsAreTrue` speaks of
  collaborators whose inbox never overflowed (`overflowed`).
- The interface drains its input after it polls, wakes included, so that an
  event sent in between is shown only when the loop's timer ends its sleep.
  `AllEventsArrive` holds because every sleep has a timer.
- A returned prompt is captured as a draft before the checkpoint that marks its
  message as returned (`agent/retraction.rs`, `tui/recovery.rs:81`); an autosave
  and a crash between the two would leave both. `InputIsKept` excepts what is
  being taken back.
- `tools/processes/observer.rs:159` says that the completions an interface reads
  are independent of what the model has received. Retention follows what the
  model has seen: an entry the model was told of may be forgotten before an
  interface scans it, and the interface's cursor then passes its number.
  `CursorSeparates` speaks of processes that are still listed.
- A refusal of the connection's age counts as a stale connection even in the
  middle of an answer (`backend/openai/socket.rs:242`), and the request is sent
  again behind the reader's back, although the comment at line 46 says that
  nothing reached the caller then. `OneAnswer` excepts it (`expired`).
- `reset_restart` passes over an instance that is busy, while the panel shows
  "Restart allowed · the next request starts it" (`tui/lsp/flow.rs`).
  `invalidate_paths` does not reach a query whose instance is between its
  removal from the registry and its stop. Settings that change without end can
  keep a query from ever returning, so that they are bounded here.
- An answer the user gives after `begin` and before the question is emitted,
  with a quit before the worker wakes, is saved although the call's result is an
  error. `ResultsAreHonest` allows `error` beside the saved reply.
- A file tool whose lease could not be taken for an I/O error still writes. A
  write of another program between a restore's last comparison and its
  installation is overwritten unsaved; the window is the file system's.
- Claims admitted before a reading of the free space whose bytes are not yet
  written are not deducted from the new estimate. A probe that was cancelled
  leaves "Operation cancelled" to the others for up to five seconds.
- An edit of a connection's OAuth client identity (`tui/mcp/fields.rs:127`), or
  a sign-in that fails, drops the draft's guard but keeps its tokens; saving it
  overwrites a record that changed meanwhile, although `mcp/store.rs:42` says a
  new grant "cannot overwrite another edit". Saving also creates a connection
  again that was removed, and enables one that was suspended, meanwhile.
  `GrantsAreKept` excepts such a save.
- An MCP result of an unsupported type is told as failed although the tool may
  have run; the comment in `mcp/client.rs` says that whatever may have run is
  unknown. The model's server answers with supported types only.
- `process/unix.rs` reports `started: false` for a program that may run already,
  when cancellation or the limit comes between its handshake's READY and the
  answer; `process/duplex.rs` signals again after a failed termination, which
  its comment says could reach a reused identity. `ProcessRegistry` starts above
  this layer.

## Not modelled

Texts, bytes and their limits, wording, drawing and keys; output captures and
their cursors; operating-system processes beyond "ends by itself or when asked"
and the adapters of `HttpPool`; file contents and directory walks; what
providers and servers say beyond what the callers tell apart.
`PROJECT.json` gives each component's reason. Parts of modelled components that
are left out are named at the top of each module. Some simplifications a reader
should know of:

- `RefusedOnlyIfLost` rests on a server that does not expire a refresh token by
  itself: in `Credentials` only its use and a revocation end one.
- `Questions` leaves out a checkpoint that fails before a question begins; the
  call then ends with an error and nobody was asked.
- `Checkpoints` has one step for several ways in which an observation fails.
- `HttpPool` has one step for every head that does not come (`NoHead`); one that
  breaks off after its first bytes, which `native/unix_http_exchange.h` never
  repeats, is not told apart from one of which nothing came. The two frames
  that end an answer, for good or with a failure worth a retry, are one as well.
- `ResponseSocket` treats HTTP as one step that shows one answer or fails.

Most of the repository's lines are of these kinds: the terminal interface,
parsers and wire formats, tables of settings and tests that stand beside the
code. They are sequential functions of text, for which a state machine would
repeat the program.

## Plan

The order follows how much of the conversation's safety depends on a part, and
how little a test can reach it.

1. *Done.* Registry and its proofs; delivery; the event channel; journal; tool
   calls; handle and input; one collaborator; questions; checkpoints and the
   free-space estimate; HTTP pool; model connection; language servers; accounts;
   connections to MCP servers.
2. *Extend.*
   - `agent/steps.rs`: a chain of calls with one saved result, whose crash
     recovery must not claim that nothing ran.
   - Selection, compaction and partial text in `SessionHandle`.
   - Several collaborators: creation of a batch with its gate and its abort, and
     the main agent's continuation on returns (`agent/continuation.rs`), as a
     refinement in the manner of `ProcessNews`.
   - Questions and other tools in one round: `Questions` as serial calls of
     `ToolTurn`.
3. *Prove.* Done for every safety property and refinement of the runs. What the
   extensions add should come with its proof: a chain of calls is a step of
   `TurnInv`, and further collaborators are further copies of
   `CollaboratorInv`.
