# Formal verification of Lucia

This directory holds TLA+ models of the parts of this repository that keep state
several parties change, the TLC configurations that check them on small instances,
and theorems about them that the TLA+ proof system checks for every value of the
constants. Paths below are relative to `src/crates/` unless they start with `docs/`
or `examples/`.

## 1. Inventory

Lucia is a Rust agent: a kernel runs a loop of model requests and tool calls, a
runtime supervises a tree of such runs, sessions are stored in files, WebAssembly
plugins take part through an event bus and call each other, a manager installs them,
and a terminal application assembles it all. Some of what a user sees is itself a
plugin: the team, the plan, approvals, memories, the index of earlier sessions.

| Part | Where | State it keeps | Operations |
| --- | --- | --- | --- |
| Agent runtime | `agent-core/runtime/src/runtime/mod.rs` | entries by identity, a ledger per principal, revoked principals, a semaphore of running cores, one supervision task per spawned agent | attach, spawn, continue, cancel, wait, subscribe, steer, collect, revoke |
| Agent entry | same file and `protocol.rs` | outcome, history and subscribers of one agent, its locks and `Notify` | record, finish, wait, subscribe, collect |
| Kernel: cancellation | `agent-core/kernel/src/agent/{mod,run}.rs` | a flag and a `tokio::sync::Notify` | cancel; checkpoints; awaits |
| Kernel: loop | same | session, snapshot, queues of steering and follow-ups, the open reservation of the request gate | prompt, request, retry, batches of tools, steer, finish, fail |
| Kernel: model stream | `agent-core/kernel/src/model/stream.rs` | an unbounded channel and its ledger | send, done, fail, next, result, drop |
| Context | `agent-core/context/src/lib.rs` | the cached outcome of the last compaction, the route | load, commit, compact, change the route |
| Tools: access and admission | `agent-core/runtime/src/permissions.rs`, `agent-core/tool/src/policy.rs`, `kernel/src/agent/run.rs` | access of each agent, the batch under way | spawn, continue, take a batch, admit, run |
| Event bus | `agent-core/event/src` | registrations per event, a parent bus | subscribe, unsubscribe, dispatch |
| Session store | `agent-core/session/src` | one file per session with a revision, an index of summaries, a lock file | load, save (compare-and-swap), delete, list |
| Live plugin host | `agent-plugins/host/src/live.rs` | published plugins, a frozen snapshot per run with its state | publish, sync_subscriptions, fan-out, drain, finish_run |
| Loader | `agent-plugins/host/src/wasm/loader.rs` | a plan, pending and running loads, failures | plan, start, skip, publish, fail |
| Calls between plugins | `agent-plugins/host/src/{service.rs,wasm/mod.rs}` | a directory, a Store and a lease per plugin, the chain of a task | call, wait, run, expire, deactivate |
| Guest of a plugin | `agent-plugins/host/src/{wasm/mod.rs,capability,contribution.rs}` | the stage of its loading, the active run, a refusal, contributions and events, children and sockets by handle | load, call each export, emit, spawn, read, finish a run, drain, deactivate |
| Budget, plugin store | `agent-plugins/host/src/{services,state}.rs` | counters of an activation; a map per plugin and its file | reserve, release; load, write |
| Plugin manager | `agent-plugins/manager` | bundles, the lock file | install, update, enable, select, remove, roll back |
| Plugins | `examples/plugins` | team, plans, approvals, memories, index of sessions | their tools, views and events |
| Terminal: runs | `agent-tui/src/app`, `session` | editor, queue, the current run and session, reloads and titles in the background | type, send, stop, edit the queue, resume, reload |
| Terminal: conversation | `agent-tui/src/app/{event_sink,run}.rs`, `startup.rs` | buffers of text and output, the open message, cards of tools | record, hand over, reveal, seal, withdraw, end |
| Terminal: views | `agent-tui/src/app/agent_view.rs`, `ui/view.rs` | a stack of views, one reader per open member, the channel of events | open, push, pop, subscribe, apply, retarget, close |
| Terminal: frames | `agent-tui/src/{app/plugin_view.rs,ui/plugin_bridge.rs}` | frames of plugins' views and of tools' cards, numbered requests, one batch | refresh, render, apply, invalidate |

How they interact: the application saves what the user sends, starts a run of the
kernel and saves the answer. The runtime polls such a run as a future inside its
supervision task and cancels it through the kernel's `AgentControl`. The kernel asks
the context loader for what to send, reads the model's stream, emits records to a sink
of the runtime (history and subscribers) and events to the bus, on which the live
plugin host listens. The host's snapshot of a run is opened by the record `RunStarted`
and released by `finish_run`, which the kernel calls, or the runtime when it had to drop
the kernel's future. The loader publishes plugins to that host while runs go on. The
manager changes, in any process, what the next start will load.

What makes it hard, and the properties that make each part correct:

* *runtime*: supervision tasks go on while callers register, cancel, collect and
  revoke; every one of some ten early returns has to give back the permit, the quota
  and the lineage. An outcome is final; a cancelled agent ends; a revoked principal
  leaves nothing behind.
* *entry*: three locks taken in different orders, and a `Notify` that forgets whoever
  was not armed. A stream has no gap; a waiter returns.
* *cancellation*: a flag and a bell, read and heard at a dozen awaits, some concurrent.
  A cancellation is neither lost nor does it reach a later run. Other awaits are deaf:
  the run ends only when they come back.
* *loop*: a provider rejects a session in which a call has no result, or two calls have
  one id; every way out of a request must settle its reservation.
* *requests, answers*: ids are cut, names are bound anew between preparation and sending,
  gateways leave events out or say things twice. What an endpoint signed goes back to it
  alone, each call has its result, an answer is whole or no answer.
* *stream, budget*: several senders at a limit. Nothing is dropped in silence; a refused
  request leaves no trace.
* *context*: neither counting nor the summary of a load is under the lock of the cache.
  The model is told of every message, calls with their results.
* *tools*: an agent's bus is no child of its parent's, so the parent's gate is not asked;
  listeners rewrite calls before and after the agent's own. No tool runs that an ancestor
  may not use, and what writes runs alone.
* *bus*: a dispatch takes two tables in two steps and then calls without a lock. Every
  gate is asked, in one order, and the first refusal stands.
* *store*: several processes, errors between two file operations, crashes, loss of power.
  An acknowledged save is not lost and a list agrees with the records.
* *plugin host*: plugins appear during runs, fail, hang, call each other; the end of a run
  reaches each by exactly one of three ways; calls do not wait for each other in a circle.
* *guest*: a call goes on after its caller has left, another waits for its Store, the run it was
  for ends. Events, refusals, children and lines stay with the call, the run and the handle
  they belong to, and nothing outlives the Store.
* *manager*: a user decides on a screen while another process changes what it showed; a
  process stops in the middle. Nothing is enabled that nobody agreed to.
* *plugins*: calls, ends of runs, failing writes and restarts in any order.
* *terminal*: the end of a run, a reload, a title, an attachment and a key meet. Nothing
  typed is lost or sent twice; what the user stopped stays stopped.
* *conversation, views, frames*: text, output and answers of plugins come in batches, by
  tasks of their own, while messages are sealed or withdrawn and views are left and
  opened again. The screen says what the session says, in its order, and no frame of an
  older state stays.

`PROJECT.json` lists all components with their sources and, under `hazards`, the
places in the code that are hard to test, each with the properties that cover it.

## 2. Modules

| Module | Models | Checked by, composition |
| --- | --- | --- |
| `AgentRuntime` | the registry, the operations under the mutex `lifecycle`, the phases of `run_agent_task` | by itself; `AgentRuntimeProofs` |
| `AgentEntry` | one entry at the grain of its locks | by itself; refines in detail what `AgentRuntime` takes for one step; `AgentProofs` |
| `AgentCancel` | `AgentControl::cancel` against the awaits of runs | by itself; `AgentProofs` |
| `AgentLoop` | the ReAct loop and the session it builds | by itself; `AgentLoopProofs` |
| `SessionStore` | what a store promises: an atomic compare-and-swap | the abstract specification |
| `FileSessionStore` | the file store, step by step | by itself; implements `SessionStore` (`Implements`); `FileSessionStoreProofs` |
| `LivePluginHost` | publication, snapshots, fan-out, end of a run | by itself; composes the loader, the bus, the kernel's dispatches and the runtime's last resort; `LivePluginHostProofs` |
| `TerminalRuns` | what becomes of a message a user writes | `MCTerminal`, and by itself; composes the application, its background tasks and the contract of the store; `TerminalProofs` |
| `Transcript` | the records of a run and the text they come to | extended by the two below; what is common to both conversations |
| `MainTranscript`, `AgentTranscript` | the main conversation and that of a member while a run streams into it | `MCTerminal` |
| `AgentViews` | the stack of views and the readers of members' events | `MCTerminal`; composes the runtime's streams, the navigation and the event loop |
| `ViewFrames`, `ToolFrames` | the frames plugins draw for views and for calls | `Extensions`, `Parts`; `TerminalProofs` for `ViewFrames`, `ExtensionProofs` for `ToolFrames` |
| `Teammates`, `PlanBooks`, `Approvals`, `Memories`, `HistoryIndex` | five plugins | `Parts`, `Extensions`; `PluginProofs` for `Teammates`, `ExtensionProofs` for the others; `HistoryIndex` composes its plugin with the store of a plugin |
| `EventDispatch` | the bus and a child of it | `Parts`, `Extensions`; `ExtensionProofs` |
| `ToolAdmission` | what an agent may use; admission and batches of its calls | `Extensions`; `AgentProofs` |
| `PluginManager` | bundles on disk and the lock file | `MCPlatform`; `PluginProofs` |
| `ServiceCalls`, `PluginLoad` | calls between plugins, their loading | `MCPlatform`; `PluginProofs` for `ServiceCalls` |
| `ResourceBudget`, `ModelStream` | the budget of a plugin's activation; the stream of a request | `Parts`, `Extensions`; `ExtensionProofs` |
| `GuestCalls` | one plugin in its Store: its load, its calls, its end | `Parts`, `Extensions`; composes the loader's guard, the lease, the linker and the live host's drains; `ExtensionProofs` |
| `Filters` | what `Vec::retain` and `Vec::remove` leave of a sequence | extended by `Approvals`, `GuestCalls` and `Teammates` |
| `Contributions`, `GuestPipes` | tools, prompts and events of a plugin; its children and sockets | `Extensions` |
| `ContextCompaction` | the context loader | `MCPlatform` |
| `ProviderRequests` | from the session to what a provider is sent | `Extensions`; composes the transformation, the gateway and five protocols |
| `ProviderStreams` | from a provider's events to the answer | `MCPlatform`; composes a server and the readers of three protocols |

`Parts`, `Extensions`, `MCPlatform` and `MCTerminal` are disjoint unions: `part` says which
component a behaviour is one of, and what a union checks of a component is exactly what a run
of its own would. `Parts` holds the ten components that `ExtensionProofs` and `PluginProofs` are
about and leaves room for others, so that a step it does not know leaves its ten alone;
`Extensions` adds four more and is what TLC runs. Every behaviour of `Extensions` is one of `Parts` (`AllInit` and
`AllNext` are `PartsInit` and `PartsStay` with further conjuncts), so that a theorem about
`PartsSpec` holds of what is checked. The other parts that have proofs are extended, so that
the properties TLC checks are the very definitions the theorems state; their variables rest
while another part goes on (`NoTools`, `NoFrames`, `ManagerRest`, `CallsRest`, `RunsRest`).
In `MCPlatform` and `MCTerminal` the parts without proofs are instances that lend each other
their variables (`s1`, `s2`, ... stand for the variables of the part, in the order of its
module), so that a state is no larger than it must be. Values that only TLC needs (`Symmetry`,
`ThreePriorities`, `Endpoints`, ...) stand at the end of the module they are for.

### AgentRuntime

The variables are the fields of `RuntimeInner` (`registered`, `ledger`, `revoked`,
`permits`) and of `AgentEntry` (`owner`, `parent`, `depth`, `status`,
`hasSession`, `childCount`, `cancelRequested`, `collected`), and for each
supervision task where it is (`task`) and what it has computed (`result`).
Operations that hold `lifecycle` are one step each; a cancellation visits its
entries one by one while tasks go on, so `cancelBatch` holds the entries still to
be visited. Tasks do not hold the mutex: `TaskCancelledInQueue`, `TaskAcquire`,
`TaskMarkRunning`, `TaskCheckCancel`, `TaskStartCore`, `TaskPrepareFails`,
`TaskCoreReturns`, `TaskCancelCore`, `TaskCancelEnds`, `TaskFinalize` and
`TaskFinish` are its awaits and locks, in order. Not modelled: steering before
the core starts, profiles and grants, token budgets.

### AgentEntry

`record`, `finish_with_session`, `wait_for`, `subscribe` and `collect_resources`
with a control point wherever the code releases a lock or reads without one.
`notified` holds the waiters whose `Notified` existed when `notify_waiters` was
called; whoever arms later gets nothing. `steer` and `set_control` are not modelled.

### AgentCancel

`cancel()` is two steps, the store of the flag and the ring: `notify_waiters`
fires the `Notified` that exist (`fired`), `notify_one` leaves one `permit`. A run
passes the checkpoints that take the flag and the waits that listen to the bell:
delay of a retry, connection, stream, admission and execution of each tool of a
batch. Its other awaits do not listen: `emit` with its sink, listeners and extensions,
`dispatch_cancellable` for the run, a turn, a request and a message, `tool_specs_for_run`,
the prompts, the context loader. They are the phases in `DeafPhases`, the calls that
are `reporting` and the tools that are `"ready"`, and each ends by a step of the outside
that may never come. A listener's refusal (`Veto`) ends a run as cancelled too; the
model keeps it apart as "vetoed". `PolledFirst` is how the terminal application uses it: a run has been
polled before its cancel key does anything.

### AgentLoop

Messages of the session are their kinds with the ids of the calls they hold or
answer; text is left out. The provider answers with a text, nothing, calls with
any ids (repeated ones included), an error or a cancelled stream; input may
arrive at any moment. `guard` and `reserved` are the `ModelRequestSettlement`.
`Push` confirms the results and the steering message of a round in one step
although records are emitted in between: nobody reads the snapshot there but
observers of the state. Not modelled: one-time guidance, the contents of results.

### SessionStore and FileSessionStore

A record is a revision and the set of saves whose content it carries, which is
what it takes to say that a save was lost. `SessionStore` swaps, acknowledges,
deletes, and allows a loss of power to undo what was not acknowledged.
`FileSessionStore` takes the lock, reads the index, drops and syncs it, writes the
record, syncs, writes the index anew, returns and unlocks; an `Error` may end
it at each step, a `Crash` may end the process, and `PowerLoss` resets the
directory to what was synced, or keeps some of the rest. Two views of the
directory, `files` and `onDisk`, tell the two apart. The future of an operation
is not dropped in `Spec`; in `DroppingSpec` it may be, while the rename goes on
in the pool of blocking threads.

### LivePluginHost

The loader publishes plugins (`Publish`, and `Subscribe` when the registrations
follow); a run dispatches `RunStarted`, calls of tools, `RunFinished` and
`core.run.finish`. A dispatch collects the priorities that have a listener
(`Collect`) and calls them from the lowest to the read-only one; each serves the
plugins of the snapshot whose effective priority it is. `entry` is the state of
the snapshot in `active_runs`, "none" when it is absent. `finish_run` makes at
most `MaxAttempts` attempts, each visiting the plugins in turn, and each may
time out at any point; the runtime may drop the core's future anywhere, whose
lease then rolls back, and calls `finish_run` itself. A plugin whose `publish`
has not returned when an event is collected may be missed: `late`, see hazards.
Runs share nothing but the loader, so one run is enough for TLC.

### TerminalRuns

The event loop handles one event at a time, so each handler is one action; the tasks it
starts (`run_and_persist`, attachments, the reload after a compaction, the title) are
actions of their own that end by an event, in any order. A message is an identity; where
it is, is the state: `draft`, a `job` that reads its attachments, `queue`, `immediate`,
the `run`, or the records in `store`, which is the contract of `SessionStore` with a
title. `halted` remembers that the user stopped a run and has sent nothing since,
`crossed` that a session was left while something was still to end in it, `foreign`
that a save failed or another process saved: the properties about the queue, titles
and conflicts speak of what happens without these. What no longer waits and is in no
record is in one of two places: `dropped` is what the user gave up himself (deleted from
the queue, taken out of the editor, left with the session he opened another in place of),
`wiped` is what `replace_session` took from him when a reload ended in the background
(`app/run.rs:104-116`) or a plugin replaced the session. `LostOnlyByReplacing` says that
nothing else is lost, that nothing is wiped before the first reload unless plugins may
replace the session, and that nothing waits twice; it does not say that what is wiped
ought to be. That it should not is the text of `docs/usage/tui.md:219-223`, and the run
`terminal_reload` shows the code against it. Steering of a running agent is not modelled.

### Transcript, MainTranscript, AgentTranscript

`Transcript` has `log`, what the kernel recorded of a run, in its kinds (text, calls,
output, results, a retry, notes), and what a reader of the log would see: `Seen`. The two
modules that extend it are the two programs that turn such records into a list of
messages. In `MainTranscript` the sink of the run appends to `ModelDeltaBuffer` and
`ToolOutputBuffer` and puts an event into the channel only for the first of a batch; the
event loop takes what is there when it gets to that event, so that what an event hands
over is decided late. The pacer reveals pending text in a step of its own, which a
boundary flushes. A run that is stopped keeps what was visible (`Preserved`). In
`AgentTranscript` records come in batches of any length, the user writes to the member
meanwhile, the view is hidden and shown, and the member continues under a new handle.

### AgentViews

Any number of times the user or a plugin opens, pushes, replaces and pops views
(`Navigated`); once per event the loop brings the views in step with the stack (`Sync`):
new ones subscribe, those whose member has a new handle are emptied and subscribe anew,
those that are gone are dropped with their reader. A reader is a task that sends batches;
aborted, it may still send what it had in hand. `Concerns` is the comparison of targets
with which the loop drops what is for another.

### ViewFrames, ToolFrames

`ViewFrames`: a refresh (a tick, an input, a navigation) starts a batch of requests, or
leaves a mark when one is under way; every request of a view has a number, and an answer
counts when no later one was shown. `ToolFrames`: the card of a call asks for a frame
when its state, its width or the plugins change, with a revision that the answer must
match. A plugin answers at any time or never. `swept` says that a tick came after the last
change of the screen and no result for another width since: a frame for a former width may
come in late and stand until the next tick, which takes two changes of the width to see.

### Teammates, PlanBooks, Approvals, Memories, HistoryIndex

The guests are single-threaded: one call of a plugin is one action, and the host, the
runtime, the sessions and the user act in between. `Teammates` has the directory, the
mailboxes, the ledger and the queue of handles to collect, and `agents`, the Runtime's
side of each handle. `PlanBooks` has a plan per session, in memory and in the file.
`Approvals` has the queue of cards and the answers; `core.tool.call` is delivered again
while the plugin answers "pending". A write of a plugin's
state may fail before or after it replaced the file (`SetFails` of `HistoryIndex`); `PlanBooks` and
`Memories`, of one process and one key, keep that file in a variable of their own. In
`HistoryIndex` several processes synchronise one file, in three steps each; `unwritten`
remembers the sessions whose new excerpts a write that failed was about. For these the code
marks as read what is not in the index (section 5), and `IndexCovers` exempts them, whatever
becomes of them later; a failed write of the revisions, and failures that concern other
sessions, are no excuse.

### EventDispatch

Registrations of a root bus and a child, with the counter all buses share; a dispatch
takes the registrations of its bus, those of the parent in a second step (`Collect`), sorts
them and calls them one at a time; each may rewrite, cancel, fail or pass. `standing`
remembers what was registered from before the first look until the end.

### ToolAdmission

Agents with an access (all tools, or a set), each spawned by another with a restriction
or continuing an earlier one; the response of a model as a sequence of tools; and for
each call where it is: waiting, ready, running, or with one of five kinds of result.
`TakeBatch` takes the longest run of reads or one call, the gates look at the calls in
order, `Launch` starts what was admitted. `Agreed(i, t, u)` is a call that passed all
listeners: as `t` it met the gate of the agent's access, as `u` it left the bus, since a
listener of the same priority that subscribed later comes after that gate. One turn at a
time stands for all: agents do not disturb each other here.

### PluginManager

A bundle is a plugin and a version; a profile stands for all that a user authorises.
Commands that only change the lock file are one action under the lock; an installation
or update is a transaction of `Move`, `Commit` and `Done`, which may `Fail`, with the
roll-back of `rollback_new_installations_in_transaction`, or `Crash` in between. `shown`
is what a user saw, `reviewed` everything any user ever agreed to.

### ServiceCalls, PluginLoad

A call is a frame that waits for the Store of its plugin in the future of its caller
and then runs in a task of its own. Time is a clock with few ticks, against which
every call has the same budget. `PluginLoad` computes the plan as a recursive function
over every dependency graph of three plugins, and then runs the loop with its
places and its gate; which loads fail is open. When the host refuses a plugin that was
loaded (`publish` returns an error, `loader.rs:857`), the whole loading ends and what still
loads is dropped (`PublishFails`): what was published is in order and behind the policy all
the same, and only that the others load is then no longer promised. Calls follow the required
dependencies (`Ordered`); a circle of optional ones is left to section 5.

### GuestCalls, Contributions, GuestPipes

`GuestCalls` has the stages of `load_with_limits_in_dir` with a roll-back from each, and
then the calls: a call waits for the Store, runs under the run it was made for
(`active`, the scope that `ActiveRunScope` puts back), may be abandoned by its caller
(`left`) and goes on; it returns, traps, or meets its deadline, which destroys the Store.
What the guest does meanwhile (an event, a refused capability, a child) is open. The ends of
a run, the one that was told and is only drained and the one of `finish_run` with its
attempts, are steps of their own. `Contributions` has the counters of bytes beside what is
counted, and the queue of events against which each run is drained. `GuestPipes` reads
lines of three letters in pieces of any length; a read that times out leaves the same state as
one that goes on, which is what makes it safe to ask again. Text that is not UTF-8 and a
broken pipe end the child like a line that is too long (`ReadFails`).

### ContextCompaction

A message has a kind, an identity and a form ("raw", "capped", "cleared"); a summary is
the identities it stands for, so that "nothing is lost" is an equality. Token counts
are small weights. A load passes the stages between which the lock of the cache
is free; two runs share the loader and the user changes the route.

### ResourceBudget, ModelStream

`ResourceBudget` reserves in the two atomic updates of the code and gives back. `ModelStream`
has the look at the closed channel, the push under the lock, the reader's late return of
the weight and the late binding of the task as separate steps.

### ProviderRequests, ProviderStreams

`ProviderRequests` takes a session through the kernel's request (the context, which may be
without the results of tools; the transformation for the route, with its fast path and its
map of ids), the gateway, whose names may be bound to another endpoint between preparation,
sending and repetition, and the five ways of writing messages down. A block carries what it
stands for (`of`) beside its id, so that "the result of this call" survives a change of ids.
A long id is known by its prefixes (`Cut`): those of two ids coincide, and the first is an id
another call has. A thought carries the route that signed it.

`ProviderStreams` has a server that says texts and calls in pieces, by every combination of
the kinds of events that compatible gateways send, with parallel calls interleaved, cut
off at its limit, broken off or failed at any event; the reader puts the answer together and
tells its listeners. It is assumed that a gateway which announces a call also sends its
arguments, and that one which says several texts sends them in deltas.

## 3. Runs

| Run | Instance | What it shows |
| --- | --- | --- |
| `runtime_safety` | 4 agents, 2 principals, depth 2, 1 child, 2 agents per principal, 1 permit | ledger, lineage, permits, quotas, sessions and outcomes stay consistent under all interleavings |
| `runtime_live` | 3 agents, 1 principal | a cancelled agent ends; a revocation returns |
| `entry` | 2 waiters, 1 observer, history of 2, 3 events | streams have neither gap nor repetition and end; waiters return as long as nobody collects |
| `cancel` | 2 runs, a native and a plugin's tool, 2 cancellations | a cancellation acts on its run only, stands until that run has its outcome, is heard by every wait on the bell, and ends the run unless that stays in an await that does not listen |
| `loop` | 2 runs, 3 call ids, 1 retry, step limit 2 | no orphan call, unique ids, exact step limit, one settlement per reservation, snapshot in step, and the run ends |
| `store` | 2 processes, 2 sessions, 3 saves, an error or crash and a loss of power | no acknowledged save is lost, no index lies, the file store implements the abstract one |
| `host` | 3 plugins of three priorities, the second the policy's owner, 1 call, 2 attempts | no call passes without the verdict of every plugin, the owner's last; each plugin hears of the end, none twice; the snapshot goes |
| `host_run_finish` (violation) | the same | `core.run.finish` reaches no plugin after a normal end, against `docs/plugin/tui.md:126` |
| `terminal` | 3 messages, 2 sessions, 1 reload, 1 failure or foreign save; 7 records of a run in the conversation, 6 in a member's; 2 runs of a member, 3 navigations | nothing typed and no answer is lost, but for what a reload in the background or a plugin wipes with the session it replaces, and nothing is doubled; titles stay with their conversation, a stopped queue stays stopped, the application never conflicts with itself; conversation and views show what was recorded, in its order, and nothing of another run |
| `terminal_reload` (violation) | `TerminalRuns` by itself | a compaction that ends late takes back the user's choice of a session or empties a paused queue, against `docs/usage/tui.md:220` and the comment at `agent-tui/src/app/run.rs:112` |
| `extensions` | see `Extensions.cfg` | five plugins, the guest of any plugin, its budget, the event bus, model streams, requests to providers, the admission of tools and the frames of plugins: sessions, members, answers, memories and gates are neither mixed up nor lost, no call gets past a restriction, a provider is sent the whole context and no other's signature, nothing in a stream is dropped in silence, events, refusals and lines stay with the call and the run they belong to, no frame goes back or stays behind |
| `platform` | see `MCPlatform` and `Platform.cfg` | nothing is enabled that nobody agreed to, calls between plugins do not wait in a circle, the loader goes on in the order of dependencies, a shortened context and an answer are whole |

Some properties are conjunctions of named parts, each defined and commented in its
module: `TreeInOrder` (lineage, quotas, sessions of successes), `TasksAccounted`
(permits, supervision), `StreamsWhole`, `CancelHeard`, `SessionSound`, `InputKept`, and
those of the unions: `StoredSound` (the index of sessions, the ids of memories), `HostSound`
(the bus, the guest, the cards of tools, the budget, the stream), `LimitsSound` (requests to
providers, contributions, lines and handles), `TeammatesKept`, `PlansKept`, `ApprovalsKept`,
`RoundsSound`, `FramesSound`, `ManagerSound`, `CallsSound`, `LoadingSound`, `ContextSound`
(contexts and answers), `SavesInStep` (titles and conflicts) and `ScreenTrue` (conversation
and views).

The bounds are the smallest at which the cases meet: two principals so that one's
revocation meets the other's agents, a chain of three for the lineage and a fourth
identity for what comes after a collection; a history shorter than the events; two
calls, since batches of one hide that `notify_one` leaves a single permit; three
saves, the third being the one that meets a stale copy after a conflict; three
plugins so that one is before and one after the owner; three messages, one in the run,
one in the editor and one that waits behind it (`ThirdAlone`: the third is typed only in
a session without titles and plugins, where the states would multiply); three handles, so that a member is continued twice and a second one
retired before it; three sessions for two places of plans; two processes for the index;
two versions of two plugins, the second version asking for more and the second plugin
needing the first; three agents in a line, a tool that reads and one that starts
processes, so that a batch of one, a batch of two and a refusal meet; four frames, so that two tasks are each inside two plugins; a history
that is compacted twice; seven records, which allow an attempt that is withdrawn, its
repetition and a call with output and result, and six of a member whose run is continued;
two events a batch, so that one can be overtaken; two changes of the width, so that a late frame can be for neither; two providers and six endpoints, two of
them with signatures, one short and two long ids of calls and four messages; two pieces of up to three outputs; four numbers of requests, two batches
with a single request before and behind; two approvals, so that an answer can meet the next
card; a stream of two events and a weight of one, full before the fourth offer; three calls of a guest, so that one runs, one waits
and the end of the run comes behind; lines of up to the limit, one above it and with both
kinds of ends. Symmetry is used only where no liveness property is checked.

`CHECK_DEADLOCK FALSE` is set everywhere because each of these systems may really
stop: identities, runs, saves and calls are bounded, and when all are used and
nothing is left to cancel there is no further step.

### Fairness

* `AgentRuntime`: weak fairness of each task's own progress and of the walk of a
  cancellation, both run by tokio; none for a core that nobody cancels
  (`TaskCoreReturns` from "core"), which may run for ever. After a cancel the
  grace period bounds it.
* `AgentEntry`: strong fairness of steps that take a lock, which tokio's locks
  grant in the order of the queue; weak fairness of a waiter. Nobody has to
  record, subscribe or collect.
* `AgentCancel`: weak fairness of the run's own steps; none of anything outside
  (`Outside`): providers, listeners, tools, the sink, extensions and the context loader
  may all stay silent for ever; strong
  fairness of the poll of a tool, since `select!` picks a ready branch at random
  and a tool that writes without end cannot keep it from its `Notified` for ever.
* `AgentLoop`: weak fairness of the loop, and so of what it awaits (listeners, sink,
  context loader), and of an answer of the provider, be it an error. Steering is bounded, as each steering message rightly prolongs a run.
* `LivePluginHost`: weak fairness of `finish_run` alone, whose timer fires however
  long a plugin hangs.
* The other modules state safety only and no fairness.

## 4. Proofs

The proofs hold for every set of agents, principals, tools, plugins, users, processes,
sessions and messages and every limit, under the named assumptions of the modules:
identities and the values for "none" differ, the sets that something is counted in are
finite, limits are numbers in the ranges the code accepts (`RuntimeLimits::validate`),
bounds are natural numbers. TLC evaluates these assumptions on the instances it checks.
Nearly every safety property of a component with a theorem module is proved; the
table says which, and with which inductive invariant, which TLC has checked on a
small instance as well.

| Proofs | Properties proved | Inductive invariant |
| --- | --- | --- |
| `AgentRuntimeProofs` | all that `runtime_safety` checks | `RInv` and its strengthenings |
| `AgentProofs` | `StreamsWhole` of `AgentEntry`; `RoundsSound` of `ToolAdmission` | `EntryInv`; `TInv` |
| `AgentProofs` (`AgentCancel`) | `CancelTypeOK`, `CancelNotForgotten`, `CancelHeard` | `FlagIsTheRequest`, `OneAsked`, `Heard` |
| `AgentLoopProofs` | `SettledOnce`, `SessionSound`, `SnapshotInStep` | `Gate`, `Slot`, `LoopInv`, `InStep` |
| `FileSessionStoreProofs` | `NoLostSave`, `IndexAgrees`, `Implements` | `RInv`, `IParts` |
| `LivePluginHostProofs` | `NotToldTwice`, `AdmittedByAll`, `EndReaches` | `HInv`, `HeardInv` |
| `PluginProofs` | `ManagerSound` of `PluginManager`; `CallsSound` of `ServiceCalls`; `TeammatesKept` of `Parts` | `MInv`, `BInv`; `CallInv`; `TeamInv` |
| `ExtensionProofs` | `StoredSound`, `PlansKept`, `ApprovalsKept`, `HostSound` of the nine other components of `Parts` | `PartsInv`: `IndexInv`, `MemoryInv`, `PlanInv`, `ApprovalInv`, `DispatchInv`, `GuestInv`, `FrameInv`, `BudgetInv`, `StreamInv` |
| `TerminalProofs` | `LostOnlyByReplacing`, `QueueObeysUser`, `SavesInStep` of `TerminalRuns`; `FramesSound` of `ViewFrames` | `MInv`, `WInv`, `CInv`; `FInv` |

*Runtime.* `TypeOK` alone is not inductive, since `Collect` takes 1 from the ledger, which
must not be 0: `LedgerExact` is needed, and for it that a new identity has no history
(`FreshIdentities`) and that only a revocation takes entries out of the registry
(`RegisteredUntilRevoked`); `ResultsReady` ties a task's result to its phase. On top of
`RInv` each further invariant is inductive with its own strengthening: `LineageClosed`
because descendants have the owner of their ancestor, `PermitsBalanced` because each step
moves at most one task in or out of the holders, `SessionsOfSuccesses` and
`RevokedAreCancelled` with the named conjunctions `SessionInv` and `RevokeInv`.
`TreeCorrect` and `TasksCorrect` put them together. `OutcomesAreFinal` is an action
property proved from the same lemma on steps of the status.

*Entry.* `StreamsCorrect`: between its replay of the history and its place in the list a
subscriber holds the lock of the history, so that no event can pass in between
(`StreamKept`); the history reaches up to the last event until it is collected
(`HistoryKept`), and the end is published before the streams are closed (`EntryOrder`).

*Cancellation.* `CancelNotForgotten` holds when `PolledFirst`: the strengthening
`FlagIsTheRequest` says that until a run has its outcome the flag stands exactly when
somebody asked.
Without `PolledFirst` the claim is false: the run clears a flag that was set before its
first poll. `NobodySleeps` needs no such assumption: once the bell has rung, whoever had a
`Notified` was fired, and a tool that begins to wait later finds the permit, or one that
took it (`Heard`), because the calls of a batch are admitted one at a time and before
any of them starts (`OneAsked`).

*Loop.* `SettledOnce` follows from `Gate`, which bounds where a reservation can be open,
and `Slot`: the phase and the existence of a loop agree. `LoopInv` is about sequences of
messages: the session is answered call by call except while tools run, when its end is the
calls of the response and their results so far are a prefix; all ids it has are known and
none is repeated; the counter of steps is the number of rounds. The base to which a run
goes back is as good as a session. `InStep` says where the snapshot is the session.

*Store.* For `NoLostSave` a revision must stand for one record (`RevisionsTell`), which
needs that an id is drawn once (`IdsDrawnOnce`); under the lock the record is the one that
was compared (`UnderLock`), and what was acknowledged is synced (`AckedOnDisk`). The index
is an argument of its own: it is gone while a record changes (`IndexGone`), what a task
will write into it is what the records say (`SumsTrue`), and unless a failed operation has
left something unsynced, the disk lags behind by the last change only (`OnDisk`).
`StoreImplements` is the refinement: the rename of the record is the swap, the removal the
delete, the return the acknowledgement, a loss of power that of the abstract store, and all
other steps, those of the index among them, stutter.

*Live host.* `NotToldTwice` follows from `HInv`: once `RunFinished` was delivered the
snapshot is on its way out and whatever is under way is a drain, also after a roll-back;
without the latter a cleanup begun anew by the runtime could be one that aborts.
`HeardInv` adds where a dispatch stands: a plugin of the snapshot has its turn yet or let
the call pass (`Passed`), and one that has not heard of the end has its turn yet, until
somebody fails (`Ending`); from these `AdmittedByAll` and `EndReaches`. They rest
on lemmas about the ordered groups of priorities, among them that the next group is
the least one and the last verdict the owner's.

*Manager.* `EnabledReviewed`: whatever the plugins, versions and profiles, an enabled plugin
asks for nothing a user has not agreed to. `MInv` is about the file, not about what is
loaded from it: each enabled plugin has a grant and each grant was agreed to, in the lock
file and in the copy a transaction keeps for its roll-back. It needs no assumption about
plans or damage: the argument rests on two things only, that a grant is written after the
user was shown that very bundle, and that `load_lock` disables whatever no longer matches
its grant. `LockedBundlesExist` needs `BInv`: what a transaction has moved was not there
before, so that neither the file nor the copy names what a roll-back takes away.

*Calls between plugins.* `CallsSound` holds for every graph of dependencies: whom somebody
waits for is below him in the graph (`Nested`), each Store is in its slot or out for one
call (`Holds`), and only a call that met its deadline is left alone (`Orphaned`). That
some waiting call can go on is proved by a least element: among finitely many frames that
wait for a Store take the one lowest in the order of the dependencies; whoever has
its Store would be lower still.

*Tools.* `AccessCorrect` (nothing runs that an ancestor may not use) needs
`AncestorsWider`, an agent's access lies within that of all it descends from, because
`Restrict` narrows and `Continue` copies; and that whatever is ready or running passed
the gates: the access check of the registry's subset at `Launch`, the policy at the
admission. `BatchesCorrect` (a call that is not a read is alone) needs the shape of the
batch: before it all calls are settled, after it all are waiting, and a batch of more than
one consists of reads. The theorems assume `Distinct`, that the values for "all", "none" and
"no agent" are no tools or agents.

*Messages of the user.* `LostOnlyByReplacing` is about where a message is, which no single step
sees. `MInv` says three things at once. Records in memory are never ahead of the store,
and where their revision is the one in the store they have all the store has (`AllLevel`),
so that a save in step overwrites nothing. What waits is in one place and in no record
(`Lined`, `Unsent`). And the record of a run makes up for the record it will replace when
the run ends (`RunMakesUp`): what the application still shows and the run has not is in
the store. With these every step moves a message from one place to the next, or the user
gives it up, or a replaced session takes it along; `WInv` adds that the last does not
come before a reload has begun. `QueueObeysUser` and `SavesInStep` need `CInv` on top of it: while a run goes
on no reload begins (`QueueHeld`); without saves from elsewhere the record that will be
saved next is level with the store, be it that of the run, of the reload or of the
application, and an application that has been overtaken by its own reload saves no title
(`StepsHeld`); and each title, also one still being written, is about messages its
record has (`TitlesFit`), for which a session must keep what it has when it is forked,
compacted or read again. `StepAsTold` then takes each action in turn; the two properties
are of actions as well as of states.

*Frames of views.* One batch at a time and nothing asked for forgotten
(`RefreshesHold`), and no frame goes back (`FramesNeverGoBack`). The inductive invariant
`FInv` orders the numbers (nothing shown, marked or asked is newer than the counter, and a
render whose answer would still be taken is no older than what its view shows) and says
who answers for a refresh that is not yet on screen: another batch that is pending, or the
render that carries the view's present mark (`Awaited`). The assumption `ViewsApart` is
that the view of a member is no plugin's.

*The ten components of `Parts`.* A step belongs to one of them and leaves the others' variables
(`StepOfAPart`), so that each has an invariant of its own. They assume that the values for
"none" are none of the things they stand beside, that a budget's requests are finitely many,
and that sizes and limits are numbers (`TeamConstants` to `StreamConstants`).

* *Index of sessions.* A revision marked as read could be ahead of the excerpts in three places:
  memory, the copy a process holds of its store, and the file. Of a session that no failed write
  of excerpts was about it is in none (`ExcerptsAhead`), because the excerpts are written first,
  and a process writes one key of a pair it read whole. The store of a process knows no revision
  its memory does not, also when the revisions could not be written, and between list and scan
  a process must know nothing it did not list
  (`NotedOnce`): otherwise a session saved meanwhile would be noted with a revision whose
  excerpts nobody read.
* *Memories.* `Agrees`: the counter of a collection, in memory and in the file, is at or past
  every number ever stored in its scope, not only past those still there. A failed write of
  either kind leaves one of two collections, both of which agree.
* *Team.* Each handle the Runtime gave is accounted for (`HandlesAccounted`), but a step could
  name one it has yet to give, which the next `spawn` would then give a second time: so no place
  names such a handle (`HandlesBegun`). That no message is carried out twice needs that messages
  have a number of their own, wherever they wait, which the counter has passed (`MailNumbered`);
  a message whose dispatch failed stays with its number. That a member
  that is done leaves needs that the runs remembered are the last ones without a gap, and that
  a member is of a run that has begun (`RunsRemembered`): the queue of 64 is only then a window
  on the runs. The end of a run, which does all of this in one step, is told by `FinishOf`.
* *Plans.* A run belongs to one session (`RunsApart`), also in the file; without this the end
  of a run could finish another session's step, or leave one in progress.
* *Approvals.* An answered call that still asks has its verdict in `resolutions`, and each
  verdict is one the user gave for that call (`AnswerWaits`); a call is new to its run
  (`AskedAnew`), so that an old answer is for no later call; a rule is of its run and of the
  mode that still holds (`RulesGiven`). `RunsAllowed` derives the action property.
* *Bus.* `Collecting` says what a dispatch between its two looks has yet to find, `Calling`
  that what was called comes before what remains. Each standing listener was called, is to be,
  or passed over behind a cancellation; registrations must be known by their number (`Numbered`)
  for the order to be one.
* *Guest.* The run in force is that of the call that has the Store, and the one before it was
  none (`StoreHeld`); while somebody waits for a call its run is open, or closing when the call
  is its end (`WaitingFresh`, `RunningHeard`), so that what a guest emits is drained by the end
  that comes behind it.
* *Cards.* A card waits for one render, the last asked for, of what is to be shown, or for none
  that counts (`AskedLast`): a late result has a lower revision.
* *Budget.* At any time the bytes counted are those of the calls that hold some, also of one that
  is giving back (`Counted`), and who gives back was refused by a full budget (`Refusals`).
  The sum over a set is the cardinality of a set of pairs, which a step changes by one row
  (`OneMoreHolder`).
* *Stream.* What was received, the event in hand and the channel are together what was offered,
  the last one possibly the overflow (`StreamWhole`); the weight of what is in hand is within
  the ledger's (`StreamCounted`), which the reader lowers later than it takes. Weights of
  sequences are counted as pairs too, and `AmountWithFirst` moves them by a position.

`Filters` writes what `Vec::retain` leaves by the ranks of the positions, since a recursive
filter is out of the prover's reach; `AmongInOrder` and `AmongOf` are what the proofs need of it.

Only model-checked:

* all liveness (`CancelConverges`, `RevokeReturns`, `WaitersReturnUnlessCollected`,
  `StreamsEnd`, `CancelledRunsEnd`, `RunsEnd`, `SnapshotReleased`), which is outside what
  the prover does;
* the plan of the loader (`LoadingSound`), the shortening of contexts and the answers of
  providers (`ContextSound`), requests to providers and the lines of `GuestPipes`
  (`LimitsSound`), and the conversation and its views (`ScreenTrue`): what they do is
  computed by recursion over sequences and graphs, about which nothing can be
  proved here by induction;
* the counters of `Contributions` (in `LimitsSound`), of which no proof has been written yet.

## 5. Where code and text disagree

The two violation runs are recorded as `findings`. The models show more. These can be
checked by naming the property in a cfg of the module (section 2):

* A parent that is being cancelled can spawn a child that is never cancelled, though
  `docs/agent/agent-runtime.md:30` has descendants cancelled too (`CancelCascades` of
  `AgentRuntime`; `runtime/mod.rs:341`).
* A waiter that a finish and a collection overtake waits for ever, against the comment
  at `runtime/mod.rs:501` (`WaitersReturn` of `AgentEntry`).
* The permit of an old cancellation interrupts a tool of the next run, against
  `agent/mod.rs:402-403` (`InterruptedOnRequest` of `AgentCancel`; `run.rs:1755`).
* When the future of a save is dropped, its rename goes on and may overwrite an
  acknowledged save, against `file_store.rs:31-32` (`NoLostSave` under `DroppingSpec`).
* When the write of the history index fails, the error is recorded together with the
  revisions already marked as read, so that after a restart those excerpts are missing
  and not read again, against the comment at
  `examples/plugins/knowledge-plugin/src/lib.rs:534-535` (`Covered` of `HistoryIndex`).
* Two plugins with optional dependencies in a circle can wait for each other until the
  deadline of 1,800 s, though `docs/plugin/dependencies-services.md:37` has circles
  refused: each task's chain sees its own calls only (`ReentryAlwaysRefused` of
  `ServiceCalls`).

Others were met while modelling and are part of the models:

* `revoke_principal` waits only for agents it flagged itself; one that an earlier
  cancel had flagged may still be winding down when it returns (`runtime/mod.rs:213`,
  the comment at 218 wants all observers to have converged).
* Of two tools of one batch that begin to wait after `cancel()` rang, one gets the
  permit and the other runs to its end (`run.rs:1755`; the comment at
  `agent/mod.rs:407` wants every tool reached). `CancelHeard` and `CancelledRunsEnd`
  exempt exactly this tool (`Beaten`).
* A cancelled run ends only if what it awaits without listening comes back: the context
  loader (`run.rs:721`, which may ask a provider for a summary), the sink, extensions and
  all listeners but those that admit a tool (`run.rs:637`, 684, 813). `CancelledRunsEnd`
  exempts a run that stays in such an await for ever (`Deaf`).
* A steering message accepted after the last look at the queue is left behind by a
  run that then succeeds (`run.rs:1090`).
* A cancel before the first poll of a supervised run is undone by the reset at its
  start (`run.rs:621`); the runtime's own cancel comes after the grace period then.
* A plugin is in the current set before its subscriptions are (`live.rs:183`), so
  an event in between passes it by; the comment at 184 says otherwise.
* Plugins are cleaned up one after the other within 750 ms, so one that hangs keeps
  those after it from hearing of an abort (`composite.rs:360`, `live.rs:69-73`).
* `steer` accepts agents that are `Ready` (`docs/agent/agent-runtime.md:32` names
  queued and running ones only).
* Terminal: a plugin may switch the session during a run (`crossed`); resuming a session
  during a reload leaves a stale record; `flush_session_title` saves without
  reconciliation; `edit_queued_input` is refused while there is a draft, which
  `docs/usage/tui.md:219` has moved to the end of the queue; an answer that comes during a
  reload of the plugins leaves a queue that nobody starts and that is not paused.
* Teammates: a member whose run ended 64 finished runs ago never retires by itself, a
  full queue of 64 lets handles go, and deactivation keeps the queue.
* Memories: after a failed save a retry is told "already recorded" although the file has
  nothing; two processes overwrite each other and may reuse ids.
* History: a crash between the two saves, with a session that cannot be read, can give two
  excerpts one id.
* Manager: a crash between the move and the write of the lock file keeps that version
  from being installed again; a damaged bundle in the history blocks every write; an update
  after a roll-back fails since the directory exists.
* Providers: when a name is bound to Google while a request is prepared for Anthropic, the
  text of a signed thought is sent on, without its signature, though `types.rs:154-157` wants
  the whole block dropped (`GoogleParts`); Bedrock sends `ToolChoice::None` as "any"
  (`bedrock/mod.rs:440`). An answer cut off by the model's own limit is delivered, half a
  call with its arguments as `_raw`, and the kernel, which does not look at the reason, runs
  it (`AnswerIsWhole` leaves `cut` answers out); a second text told only by its end, without
  deltas, is lost when `response.completed` has no output (`stream.rs:308`).
* Guests: after a mere drain, when the plugin was told of the end, or a cleanup that is cut
  off, a call its caller has left may go on and queue events for the ended run, which nobody
  drains; they count against `MAX_EVENTS` from then on (`contribution.rs`;
  `NothingLeftBehind` leaves these out). A load that is dropped while it provisions the
  Agent Runtime leaves the granted principal (`wasm/mod.rs`, `provision_agent_runtime`).
  Denials of the store, of services and of late tools are encoded without being remembered,
  so that a tool which hides them succeeds.
* Approvals: a key pressed for one card can decide the next; a card stays at the head
  after its call has timed out.
* Context: all members of a team share the cache of one loader; the route of a worker is
  never updated.
* Bus: a listener that has unsubscribed is still called by a dispatch under way.
* Tools: batches are chosen from the calls as the model asked for them (`run.rs:199-203`
  says that only reads run concurrently); a listener may rewrite one into a tool that
  writes, which then runs beside the others. The gate of the access says that nothing can
  rename a call after it (`permissions.rs:345-347`), yet a listener that subscribes later at
  the same priority comes after it; the subset of the registry refuses such a call all the same.
* Frames: a frame of a call that is rendered while no run accepts output is dropped
  (`startup.rs:1413-1421`), and `tool_render_pending_width` stays set, so that nothing asks
  for it again until the width changes during a run; messages made anew from a session
  never get frames while idle, though `docs/plugin/tui.md:66` has every call rendered by
  its plugin. Their revisions begin at 0 again, so that a late answer for the earlier
  message may be taken for theirs (`EveryMessageRendered` of `ToolFrames`).
* Views: a message the user writes to a member lets go of the message that streams
  (`agent_view.rs`, `record_user_message`); when the attempt is then withdrawn, its first
  half stays, against the comment at `agent_view.rs:237` (`NothingWithdrawnStays` of
  `AgentTranscript`; `ViewShowsRuns` exempts it by `mixed`).
* Views: when one run of a member is opened, left and opened again, batches of the first
  reader that are still in the channel have the right target and are taken in beside
  those of the second (`Reopened` in `ViewInOrder` of `AgentViews`).

## 6. Not modelled

Much of the repository is not control that several parties share: tests inside the
source files, drawing, wording, data types and their conversion, input and output. The
map names the lines of the rest. What is left out, by component:

* Providers: options of a request, usage and billing, signatures, the bytes of the
  protocols; images and files are one kind of block.
* Built-in tools (`tool/src/builtins`, `workspace.rs`): input and output on files and
  processes; a tool is what `AgentCancel` says of it, something that ends, fails, is
  interrupted or never ends.
* Manifests, archives, hashes, downloads and the choice of versions in the plugin
  manager: a bundle is a plugin, a version and a profile of capabilities. The two-sided
  check of a bundle's contents stands for its damage.
* The eager loaders of plugins, the engine's fuel and the checks of what a guest declares: an
  instance is there or failed, and a call ends, exceeds its deadline or traps.
* Registration and removal of single services and their observers: each is one entry of a
  map under one lock. Requests over HTTP, writes to a child or a socket (a time-out leaves a
  prefix written) and lines that are no UTF-8.
* The audit log: an append that no decision reads.
* The screen: layout, Markdown, colours, the cache of laid-out lines, and the commands that
  only show something.
* Skills, diagnostics of sessions, the command line, packaging and scripts.
* The interfaces of the five example plugins, their search and their limits of text;
  the other examples, which bridge to servers outside.

What is model-checked only, and why, is at the end of section 4.
