# TLA+ model of the TrueForge agent server

TrueForge runs agents behind an HTTP API. A *session* is a tree of *turns*; a
turn is one run of an agent, executed by one server replica (an *executor*) and
streamed to clients as events. Several replicas share one database and talk to
each other over Redis; a *controller* starts scheduled runs, builds sandbox
environments and feeds a memory provider. This directory models the parts of
that system where order, concurrency and failure decide whether it is right.

Paths below are relative to the repository; `core/` stands for
`packages/trueforge-core/src/` and `server/` for `packages/trueforge/src/`.

## 1. Inventory

| Component | State | Operations | Talks to | What is hard | What makes it correct |
|---|---|---|---|---|---|
| Session store (`core/agent-session/store`) | sessions, turn rows with a snapshot, event rows, `last_turn_details`, metrics | create, freeze, terminal and non-terminal state writes, event append, six snapshot writes, delete | called by every handle, from every replica | freezer and executor write the same turn; forks | a terminal turn never changes, its log is sealed once, metrics count it once, branches do not mix |
| SQL session stores (`server/db/{postgres,sqlite}/session-store`) | the same as rows | the same, as transactions of several statements | database | READ COMMITTED: every statement sees another state; lock order | the transactions implement the store's atomic operations |
| Turn execution (`core/agent-session/SessionHandle.ts`, `TurnHandle.ts`) | the frozen snapshot it read, its abort signal, the terminal state it computed, its resources | `createTurn`, `stream` | store, orchestrator, resource resolver | every `await` is a place where the turn may be frozen or deleted; an event is two writes | what was sent is durable, the announced outcome is the stored one, resources are closed |
| Turn endpoints, registry, shutdown (`server/apis/turns.ts`, `sessions.ts`, `runtime/activeTurns.ts`, `main.ts`) | registered runs, abort controllers, the shutdown phase, requests in flight | create turn, cancel (local or over Redis), delete session, timer, disconnect, SIGTERM | executors over Redis, store | stale owner, late replies, registration after the drain, exit against a last write | a cancel is not lost, an exit leaves nothing running, every turn ends |
| Request-reply (`core/request-reply`) | subscription, heartbeat key, requests in flight, reply keys | subscribe, beat, serve, drain, request | Redis | a key expires between two beats, reconnects, late replies, close during subscribe | a request is handled at most once and its caller ends with the handler's answer or an error |
| Event subscription (`server/runtime/event-subscription`) | a log per turn with sequence numbers and a TTL | put, admission, poll | drain, subscribe endpoint | lost wake-ups, expiry between two calls, two backends that must agree | a resumed reader gets every event once and in order, and ends |
| Orchestrator, threads, tool calls (`core/core/runtime`) | threads with contexts, open tool calls, answers, completions | send, execute, tool calls, approvals, client-side calls, sub-agents, compaction | LLM, MCP, sandbox, store | turns cut between two writes; several sub-agents; mixes of call kinds | each call is answered once, nothing runs twice, a thread that waits has asked for what it waits for |
| Schedules (`server/controller`, `server/apis/schedules.ts`, `db/scheduleStore.ts`) | schedule rows, run rows, the pass of the loop, hand-offs in flight | create, put, delete, run-now, dispatch, finish, stop | server over HTTP, sessions | API writes during a pass, a clock read before the row lock, crash between hand-off and finish, time-outs | one pending run while active, none when not, each run starts one turn, none is forgotten |
| Memory ingest (`server/controller/memoryIngest.ts`, `server/memory`) | a checkpoint per session | ingest pass | memory provider, session rows | the provider fails after storing; pauses time out; the user answers late, edits and branches | nothing is skipped, nothing unfinished is sent, duplicates only where accepted |
| Sandbox environments (`server/apis/sandboxEnvironments.ts`, `controller/sandboxEnvBuild.ts`, store) | environment rows with flags and a pointer, version rows, snapshots at Daytona | put, delete, patch, provider put, progress of a build | Daytona, agents, sessions | overlapping PATCHes, calls that outlive the loop, out-of-order verdicts, snapshots that Daytona deactivates | one usable default; the newest ready version is active and has its own snapshot; a version stays pending only while its snapshot is inactive |
| Sandbox sessions, MCP and OAuth, authentication, LLM adapters, configuration, catalog, observability | rows and configuration | CRUD and I/O | external services | no protocol of their own | - |
| SDKs, UI packages | - | - | HTTP API | generated or presentation code | - |

`PROJECT.json` lists the components with their status and, under `hazards`,
the places in the code where this goes wrong most easily, with the properties
that watch each of them.

## 2. Modules

    SessionStore              the store's contract: StoreSpec
      PostgresStore           the same operations as transactions with row locks
        SessionStoreProofs    theorems about StoreSpec; the transactions implement it
      TurnExecution           one create-turn request, from POST to the end of its drain
        TurnServer            replicas, cancel, timer, delete, shutdown, faults
          (INSTANCE) TurnLifecycle    the abstract promise about turns
          TurnServerProofs    also extends SessionStoreProofs
    RequestReply              the Redis transport between executors
      (INSTANCE) PeerCall     what it promises; TurnServer's cancel builds on it
      RequestReplyProofs
    EventStream               one turn's resumable stream, two backends
      EventStreamProofs
    AgentThreads              what runs inside a turn: threads and tool calls
      AgentThreadsProofs
    ScheduleDispatch          schedules, the dispatch loop, the hand-off
      ScheduleDispatchProofs
    MemoryIngest              the ingest loop for one session
      MemoryIngestProofs
    SandboxEnvironments       environments, their default, their builds
      SandboxEnvironmentsProofs
    MC*                       model values and small sets for TLC

`TurnServer` extends `TurnExecution`, which extends `SessionStore`: the request
pipeline calls the store's operators, so all of them share one store state.
`PostgresStore` extends `SessionStore` too and is shown to implement its
`StoreSpec` with the same variables: the rows are the committed rows.

**SessionStore** follows `InMemorySessionStore.ts`, the reference
implementation of `ISessionStore`. Each write is one atomic action (no `await`
inside). A snapshot keeps, for every piece of content, the id of the turn that
wrote it: contexts are sequences of turn ids, a capability state or a
checkpoint (MCP servers, sandbox) is the turn that set it. `folds` counts how
often a turn entered the session's metrics. `StoreNext` is any client calling
any operation in any order with existing previous turns.

**PostgresStore** runs every operation as a transaction of a pooled connection.
`tx[c]` says how far connection `c` has come; `Holds` gives the row locks it
has, `Needs` those its next statement takes, and a statement runs when they are
free, on the rows committed by then. A write becomes visible at COMMIT.
`Rollback` is an error, a time-out, a deadlock victim or a lost connection.
SQLite runs each operation as one `BEGIN IMMEDIATE` transaction on one
connection, so its operations are SessionStore's actions.

**TurnExecution** has one program counter per request; the value between two
actions is an `await` of `createTurn`, `stream`, `track` or `drainTurnEvents`.
A `yield` of `stream()` is a counter value of its own, because there the
generator can be closed from outside. `Kinds` groups the execution events by
what `persistExecutionEvent` does with them. The orchestrator is an
environment: it produces any event, returns or throws. Request r mints turn id r.

**TurnServer** adds executors. `home` is `active_executor_id`; `tracked` is the
union of the registries. A cancel goes through `CancelLoad`, `CancelCheck`, and
either aborts locally, freezes, or asks the owner (`peer`), whose handler may
run before or after the asker gives up: PeerCall's promise. A shutdown is
`ShutdownStart` (abort all, refuse requests), `ShutdownDrained` (registry
empty), `ShutdownExit` (all responses ended). `Kill` is any other death, the
drain deadline included.

**TurnLifecycle** is the abstract promise: a turn is open, then has one outcome
for good, and the outcome announced to a client is that one.

**RequestReply** has one executor and its callers. Time is discrete; a Redis
round trip takes less than a unit, deliveries and handlers take any time. The
executor subscribes (again after every reconnect), beats, takes messages, runs
handlers, writes replies, closes and drains; a caller checks the heartbeat,
publishes, sleeps, polls for its reply, checks the heartbeat again, and gives
up at its deadline. **PeerCall** is what a caller may rely on: a request is
handled at most once, an answer is the handler's, a refused request is never
handled, one that was given up may be handled later.

**EventStream** models one stream. Event k is the k-th event the drain puts.
`backend`, chosen once in Init, is the in-memory log (one synchronous look,
parked pollers woken by `changes.emit`) or Redis (EXISTS, then XREAD of a
limited batch, then a sleep). Time is counted in units of the admission
threshold.

**AgentThreads** follows one session over several turns. `threads` is the
durable snapshot of the tip turn; what a turn keeps only in memory is reset
when the next one starts, and a turn may be cut between any two durable writes.
A model's answer is a sequence of call kinds (`tool`, `approval`, `client`,
`thread`); message contents are left out. The orchestrator passes over the
leaves in batches of `MaxParallel`, a sub-agent's result becomes the answer of
its parent's call, and the next input is validated as `send` does. `EditSpec`
is an agent whose spec becomes stricter between two turns.

**ScheduleDispatch** models schedule and run rows, one dispatch loop, and every
hand-off as the server serves it (load, session, link, check, start). A cron is
the set of its trigger times. A client write takes `from`, the handler's
`runFrom`: `putHandler` reads its clock and then waits for the schedule's row,
so it is any time between the creation of the schedule and now. The unique
indexes of the migration are `Rejected`: an insert they reject rolls its
transaction back (a 409 for a client), so it is never a step, and
`OnlyStaleWritesRejected` says whom it can happen to. `Standalone` puts loop
and server in one process.

**MemoryIngest** follows one session whose user adds turns, answers pauses,
edits and branches, while passes of the loop select it, read its turns, build
the exchanges after the checkpoint and send them in order. The provider may
store an exchange and still fail. The last exchange of the path, when it is
paused, is ready once the pause time-out is over by the clock of the pass
(`waited`). `times` counts per turn, not per exchange, because an exchange may
be sent as it stands and again when it has grown. Time is counted in intervals
of the loop.

**SandboxEnvironments** has the environments of one tenant: the parent rows
with their flags, the versions, the snapshots at Daytona, the build loop and
its calls. `setDefaultEnvironment` is split at the one point where another
request can come between its statements; the other store operations are atomic
under the parent's row lock. Calls to the server outlive the loop that made
them (`Abandon`, `Restart`). A snapshot is building, active, failed or inactive:
`Deactivate` is Daytona's, and only a turn that would create a sandbox from the
active version activates it (`RejectIfSnapshotInactive`); the build loop polls
an inactive snapshot as pending (`Judge`). Daytona's other states are polled as
pending too and stand with building.

Conventions: `Name_Suffix` directly before `Name` is a plausible wrong version
of `Name`; it is used only to check that a property can fail. The type
invariant of a module documents the shape of its state and is proved with the
other invariants.

## 3. Runs

All with two workers, each below four minutes. Deadlock is not checked: every
instance is bounded (events, turns, clock, writes) and the system may stop when
all requests have ended.

| Run | Instance | Distinct states | Shows |
|---|---|---|---|
| `session_store` | 2 connections, 2 turns, all transactions, roll-backs anywhere | 1.4 M | the transactions implement `StoreSpec`; branches do not mix; a terminal turn never changes; the record a freeze returns is final; every deadlock has a `deleteSession` in it |
| `turn_race` | 2 replicas, 2 requests with any `previous_turn_id`, all event kinds, 2 threads, session delete, 2 faults | 1.9 M | the client is told the stored outcome; a commit is rejected only for a deleted session; what is shown is persisted, in order; resources are released; the pipeline implements `TurnLifecycle` |
| `turn_control` | 2 replicas, Redis, a cancel, both response modes, shutdown of either replica | 4.6 M | a cancel that returned is not lost; a graceful exit leaves no turn of a connected streaming client running |
| `turn_live` | 1 replica, 2 turns, timer, disconnects, shutdown, fairness | 97 k | every turn ends, every drain completes |
| `event_stream` | both backends, 3 events, 2 subscribers with any resume point, fairness | 496 k | exact resume; admission while the turn runs; a subscriber ends without its own time-out |
| `schedule` | 1 schedule, 2 crons, 3 client writes, run-now, clocks read before the row lock, 2 hand-offs, separate controller, 1 fault | 699 k | one pending run while active; the indexes never reject dispatch, and a client's write only when its trigger has passed; without faults exact history |
| `schedule_live` | standalone, 2 schedules, batch of 1, 1 stop, 1 fault, fairness | 98 k | a run starts one turn; no due run is forgotten |
| `agent_threads` | main thread, 2 sub-agents in parallel, 5 main shapes, 6 units of work | 1.4 M | every call is answered once; a thread that waits has asked; a tool without approval runs once |
| `agent_threads_live` | one thread at a time, the other shapes, spec edits, fairness | 15 k | every turn ends |
| `request_reply` | 1 executor, 1 call, 3 faults, fairness | 476 k | a healthy executor is never refused; a dead one is noticed soon; a drain answers all; `PeerCall` is implemented; every call ends |
| `memory_ingest` | 3 turns, 2 exchanges a pass, 2 faults | 4.0 M | no exchange is skipped; only finished ones are sent; no turn is stored twice unless excused; sent before the look-back ends |
| `sandbox_environments` | 4 rows under 3 names, 2 PATCHes and 2 calls at once, 2 versions each, 1 deactivation, 1 fault, fairness | 606 k | one usable default; the newest ready version is active; a ready version has its own snapshot; a pending version settles unless its snapshot is inactive |

Why the bounds are enough to be interesting: two turns give every race of a
turn with its successor, its freezer and its sibling (the store looks at a turn
and its previous turn only); two connections give every pair of transactions;
one event per turn puts a freeze before, between and after the two writes of an
event; two faults include a failure while cleaning up after another. Six units
of work in `agent_threads` (turns, model answers and cuts) reach a second turn
after a cut with both sub-agents alive; calls of a message are at most two, the
smallest number that mixes kinds. Two crons, one of which runs dry, give cron
changes in both directions and the dead end; a batch of one with two schedules
leaves work over. Requests share only the executor in `RequestReply`, so one
call suffices for TLC, and the proofs have any number. Three turns give a
branch, an edit and an answered pause; the look-back and pause time-outs keep
the order `ExecTime < Lookback <= PauseTimeout`. A sandbox behaviour picks a
`budget` in Init (flag races without builds; builds of two versions; builds
under a deletion; under a change of flags and a new key; the shared snapshot
deactivated while another version builds), which keeps their product out of
the state space. Turns, executors, connections and
sub-agents are symmetric in the safety runs; liveness runs use no symmetry. In
`event_stream` the TTLs keep the order of the defaults: the running TTL is
longer than a run plus the threshold.

A fault of the schedule runs is a crash of the controller or of the server, a
failed transaction, or a hand-off that times out while it is served; of the
turn runs a killed process, a failed store write or a failed dual write; of the
sandbox run a client time-out, a controller restart or a transient Daytona
error; of the transport a dropped connection, a failed command or a crash.

### Fairness

* `TurnServer`: the event loop runs every ready continuation, and timers fire.
  The orchestrator is not assumed to finish; it is assumed to stop once its
  signal is aborted, which is what it polls.
* `EventStream`: time passes, the expiry timer fires, a run ends (the timer
  aborts it), and a poller takes its steps; it need not abort.
* `ScheduleDispatch`: the loop's interval fires again, the server serves what it
  accepted, and a stopped or crashed controller is started again by its
  supervisor; that last one is an assumption about the deployment.
* `AgentThreads`: the orchestrator takes its next step. Nothing is assumed of
  users, cuts or aborts.
* `RequestReply`: time passes, timers fire, a SET settles, a caller's steps run.
  Nothing is assumed of messages, handlers or the connection.
* `SandboxEnvironments`: the loop ticks, the server runs what it accepted,
  Daytona ends its builds. No user is assumed to start a turn, so nothing
  activates an inactive snapshot, and `PendingSettles` excepts the versions
  that wait for that (`Dormant`).

### Disagreements between code and text

Found while modelling. The properties named here are defined in their modules
and listed by no run; each is violated with the constants given.

* A turn frozen between its commit and its `turn.created` append has a log with
  only `turn.done` (`core/agent-session/TurnHandle.ts:246`; `ISessionStore.ts:381-383`
  and `docs/api/use-agent.mdx:1156` promise the first). `LifecycleRows`,
  `TurnRace.cfg` with one executor and `MaxFaults = 0`.
* When the dual write throws, `stream()` yields `turn.done` in its `finally`
  block, the tracked generator stays suspended and the run stays registered
  (`TurnHandle.ts:411` against `server/runtime/activeTurns.ts:25-27`).
  `RunRemovedAfterDrain`, `TurnRace.cfg` with one executor, `MaxFaults = 1`,
  `EventKinds = {}`.
* A JSON response ends after the first event and a client may have gone, so
  `await closed` does not cover such a turn registered late; the process may
  exit while it is `running` in the store (`server/main.ts:1058-1062`).
  `GracefulExitSettles` without its conjuncts on mode and client, `TurnControl.cfg`.
* A controller that crashes and restarts while its first hand-off is still
  served hands off again, and both pass the check for an existing turn
  (`server/controller/scheduleDispatch.ts:123` against `:72-74`). `StartedOnce`
  with `Schedule.cfg`, `MayRunNow = FALSE`, `MaxCalls = 4`.
* A sub-agent cancelled while it waits for an approval stays in the tip when the
  turn is cut. It still counts as waiting, so an empty batch is refused although
  "already-complete threads" must ignore it
  (`core/core/runtime/AgentThread.ts:622-625`). `ResumeIgnoresComplete`,
  `AgentThreads.cfg`.
* A paused exchange is sent as it stands, the provider stores it and the call
  fails, and the user answers before the retry. The exchange has another last
  turn now, `threadHasExchange` does not find it
  (`server/memory/zep/ZepMemoryProvider.ts:241`), and its first turns are stored
  again; `server/memory/MemoryProvider.ts:31-32` says that "a retry doesn't store
  it twice". `RetryStoresOnce`, `MemoryIngest.cfg`; `StoredOnce` excepts this
  case (`grown`).
* The `Unreachable` throw of `stepToolResponse` is reached when the spec gets
  stricter while a call is open (`AgentThread.ts:1358-1360`).
  `NoApprovalLeftToRun`, `AgentThreadsLive.cfg` with `MaxParallel = 2`. The turn
  still ends.
* The SQL stores read events in the order of `event_id`, which is minted before
  the write, so a reader may meet `turn.done` before the last event
  (`server/db/postgres/session-store/queries/events.ts:90` against
  `ISessionStore.ts:381-387`). The modules keep commit order.
* `server/main.ts:967-972` says that `init()` resolves once the executor is
  reachable; the first heartbeat is started with `void` and may land later.

Observations without a text that says otherwise: `deleteSession` takes row locks
in the order opposite to every turn-scoped write and the resulting 40P01 is not
retried; a session that returns to an abandoned branch sends that branch's
turns to the memory provider again; a version of an environment that one
progress call made ready can be failed by a call left behind, as
`markVersionFailed` does not look at the status; an unchanged PUT after a failed
build reuses the failed snapshot and fails again; a version that reuses the
snapshot of the version before while it is inactive, or whose own snapshot
became inactive before a call saw it active, is polled as pending until a turn
on a ready version activates that snapshot (`DaytonaProvider.ts:188`, `:335`); a
PUT that waits behind a dispatch may be answered 409 for a run that has been
dispatched meanwhile, and its retry is accepted (`schedules.ts:497`, `:506-508`).

## 4. Proofs

**SessionStoreProofs** proves about `StoreSpec`, for every set of turns and
threads, every client and every bound: `StoreTypeOK`, `LogSealed`, `FoldedOnce`,
`TipAgrees`, `ParentSealed`, `BranchIsolation`, `TurnsCounted` and the action
property `TerminalIsFinal`. The only assumption is `StoreAssumption`: `NoTurn`
is not a turn, the main thread is a thread, bounds are naturals, clients use
the declared reasons and event types.

The inductive invariant is `StoreInv`. `BranchIsolation` alone is not
inductive: if a turn's parent could still write, the child would hold content
its parent no longer has. It needs `ParentSealed` (a parent is terminal) and
the fence that a terminal turn's snapshot does not move. `ParentSealed` needs
that no turn leaves a terminal state. `LogSealed` and `FoldedOnce` need each
other's fence in the same way. `TurnsCounted` is proved separately from
`CountInv`, which adds that the set of rows is finite. `StepShapes` reduces the
thirteen operations to five shapes (create a turn, write a turn's state, append
an event, write a snapshot, delete), and each part of the invariant is
preserved shape by shape.

The second part of SessionStoreProofs proves that `PostgresStore` implements `StoreSpec`, for
any number of connections, turns and threads and any rollbacks, so that the
theorems above hold of the committed rows (`PgBranchIsolation` and
`PgTerminalIsFinal` spell two of them out). It also proves `FreezeReadsFinal`
and `DeadlockNeedsDelete`, the latter for circles of any length. A statement is
a stutter of the store until the one that commits; the refinement therefore
needs that what a transaction read earlier is still true when it commits. That
is the invariant `PgInv`, next to `StoreInv`: the locks held do not conflict
(`LocksExclusive`), a fenced turn is running (`FencedInv`), a turn with an open
state write still has a status its WHERE clause accepts (`WritingInv`), a holder
of the session row has a session (`AliveInv`), the previous turn `createTurn`
read is still as it was (`ReadInv`; the row is not locked, but it is terminal),
and the record of a freeze is final (`FrozenInv`). Each part rests on
`LocksExclusive`: only the lock keeps the others' commits away between two
statements. Apart from `StoreAssumption` it uses `RowsAssumption`: the session
row is not a turn row.

**RequestReplyProofs** proves about the transport, for any set of calls, any
interval, poll, time-outs and number of faults: types, `HealthyNeverRefused`,
`ClosedGoesQuiet` (a closed executor has no heartbeat timer even when the close
overtakes a subscribe), `DrainAnswersAll`, that the transport implements
`PeerCall` (initial states and every step), and `DeadDetectedSoon` under the
extra hypothesis `FirstWait <= HeartbeatTTL + Poll`, without which the first
sleep alone is too long. `TransportAssumption` says that the intervals are
positive and that a status is not one of the labels. The invariant `IInv` adds
`Ahead` (the key of an undisturbed executor is as old as its timer, so it
cannot expire before the next beat), `RequestInv` (where a request can be and
that what is written is what the handler returned) and `Awaits` (the drain
waits for all that is in flight).

**TurnServerProofs** proves every safety property of the turn runs, for any
turns, threads, replicas, cancels, requests, events and faults: `TypeOK`,
`ResourcesReleased`, `StreamTellsTheTruth`, `PersistBeforeYield`,
`CommitNeverRejected`, `CancelHeld`, `GracefulExitSettles`, and that `Spec`
implements `TurnLifecycle`. A step moves one request or none. `Request(u)` is
what request u relies on: that the previous turn it froze is still terminal
with the threads it read, that the state it is about to announce is the stored
one, that what it has announced still is. To a request that does not move,
every step of the others looks the same (`Plain`: terminal turns stay as they
are, no turn starts to run but the one being committed), so a bystander is
treated once (`Bystander`) and each action only has to keep the request it
moves (`Move...`). On top of this `ServerInv`:

* Composition: each step has one of the store's shapes, so `StoreInv`,
  `TurnsCounted` and `TerminalIsFinal` hold in the server by the lemmas of
  SessionStoreProofs (`StoreKept`, `ServerTerminalIsFinal`). `TurnExecution`'s
  writers are thereby shown to be clients the store was proved for.
* `CancelInv`: a cancel that is done, or whose peer said 200, holds its turn:
  terminal, or aborted. It stands because signals are never cleared and a turn
  with a row never starts again.
* `PaceInv`: the log is exactly as far as the stream while the orchestrator
  runs, and one shown row ahead while an event is handed over. Counting is by
  position, so "the n-th shown event is the n-th shown row".
* `ExitInv`, only while nothing has failed (`faults = 0`): a failed dual write
  ends the response before the turn is settled, a failed read after the commit
  leaves a turn that nobody runs, and `GracefulExitSettles` is not true then.
  The run `turn_control` has no faults for the same reason.

**AgentThreadsProofs** proves `CallsAnsweredOnce`, `PlainToolRunsOnce` and
`AsksForWhatItNeeds`, for any sub-agents, shapes of answers, iteration limit,
parallelism and number of turns, with cuts and spec edits. `CallsAnsweredOnce`
is not inductive: it says nothing of the calls that are still open at the end of
a context. `ContextOK` adds that a tool message answers calls of the last
assistant message before it and none that has been answered, which is what
`getOpenToolCallIds` relies on when it looks at that one message only. The other
invariants build on it in turn:

* `BatchInv`: where the orchestrator's passes are; the main thread's generator
  and a sub-agent's are never both alive, and between turns nothing is left of
  a turn.
* `ExecInv`: a generator reaches its loop with no open call that has already
  run, since `preSend` closes what a cut turn left open.
* `WaitInv`: a thread that waits is at its model's answer or has left its loop
  with the turn stopping, having asked for all it waits for, and nothing else
  has been asked. At the end of a turn this becomes `AsksForWhatItNeeds`.
* `StuckInv`: a complete thread whose context still awaits input exists only
  when nothing is asked. Without it an answer might be refused by a thread
  that does not need one.

Besides `ThreadsAssumption` about the shapes it assumes that `NoCall`, the
parent of the main thread, is not the id of a call.

**ScheduleDispatchProofs** proves `PendingMatchesStatus` and
`OnlyStaleWritesRejected` for any schedules, crons, batch limit, deployment,
clients and faults, from `SchedInv`: what the pass has read of a run is still so
or the run was deleted (`LoopInv`), a settled cron run is due by the clock of
the pass (`RowInv`), and a schedule has at most one pending run, exactly one if
it is active and its cron goes on (`PendInv`). The due time matters: dispatch
computes the next run from the clock of the pass, and the unique index could
only reject it if a settled run were due later; a client's `from` may be older
than a settled run, but then the trigger it computes has passed. `StartedOnce`
is proved from `OnceInv` under the hypothesis `MaxFaults = 0`, or loop and
server in one process and `MaxFaults <= 1`, because it is false otherwise
(section 3): a second fault may abandon a second call for the same run, and a
separate controller may come back while the server still serves. `HistoryExact`
speaks of behaviours without faults and is proved from `HistInv`, which accounts
for every started turn by a row, by the pass or by a call.

**EventStreamProofs** proves `ResumeExact` and `RunningSubscribable` for any
subscribers, batch size, number of events, threshold and both backends, from
`StreamInv`: the entries are the events put so far, numbered in order; a
subscriber's cursor, batch and output are consecutive parts of them. The
hypothesis `TTLCoversRun` (the TTL is at least the execution time-out plus the
admission threshold) is what the configuration's default gives. With a shorter
TTL a stream may expire in mid-run and the next put would start it anew.

**SandboxEnvironmentsProofs** proves `DefaultSlot` for any environments, names,
bodies and requests in flight. It is not inductive alone: `HeldTargets` says
what the row lock of `setDefaultEnvironment` protects, and `ReservedFirst` that
the reserved environment, the only one inserted as the default, is inserted
before any other and stays. Assumptions: `EnvsAssumption` (only the reserved id
has the reserved name) and `BodiesAssumption` (a PATCH asks for something). It
also proves `SnapshotMatches` and `ActiveIsNewestReady`, for any versions,
calls, client time-outs and restarts, from `BuildInv`: the name of a version's
snapshot was minted by a version with the same content (`VersionsOK`), a
snapshot was built from the version that minted its name (`SnapsOK`), a ready
version's snapshot is registered and stays so, whether or not Daytona has
deactivated it (`ReadyOK`, `CallsOK`), no ready
version is newer than the active one (`NewestOK`), and as long as nothing has
failed one call at a time works on a version that is still pending
(`AloneOK`).

**MemoryIngestProofs** proves `NothingSkipped`, `SentIsFinal`, `StoredOnce` and
`IngestedInTime`, for any number of turns, limits, time-outs and faults; the
only assumption is `IngestAssumption`: the limits are positive naturals. All of
them speak of the path of a turn, a recursive function of the turn rows, and the
prover does not induct over data. The first lemmas therefore establish, by the
least counterexample (`LeastNat`), that the function exists, that a path is
closed under ancestors, that two turns of a path are comparable (`PathChain`),
and that a new row leaves the old paths alone. The next ones say that the
exchanges of a path are consecutive parts of it, numbered without gaps, and
that a pass queues the first of them. Nothing else is used of the recursion.
Three invariants are built on these:

* `IngestInv`, for the first two. `NothingSkipped` alone says nothing of the
  pass under way: `CoverInv` adds that the path to the end of each queued
  exchange is covered once the exchanges before it have been sent. A queued
  exchange is final because a turn that another one follows is not running
  (`ParentInv`), also when the user branches while the pass sends.
* `OnceInv`, for `StoredOnce`, states outside the excused cases what a retry can
  rely on (`UnsavedInv`): the turns that the provider has stored and that are not
  behind the checkpoint (`Unsaved`) belong to one exchange, the next one to send;
  its end is the newest exchange the provider reports, the user has not gone on
  with it, and the checkpoint carries the error flag, so that the next attempt
  asks first. Each excused case breaks one of these: a lost checkpoint the flag,
  a return to an abandoned branch or branching during an unclear attempt that
  they are one exchange on the path, and going on with a paused exchange (`grown`)
  its end. `StoredOnce` is false in each of them.
* `InTimeInv`, for `IngestedInTime`, which holds only if the loop can keep up:
  `KeepsUp` says that the backlog fits into the passes of the look-back window,
  `MaxExchanges` each, and that one pass sees how the last turn ended. The
  invariant counts: a pass that ends has either left at most one exchange
  (the one whose turn was open) or sent `MaxExchanges` of them, so the turns left
  and those sent are never more than `MaxTurns` (`PaceInv`). Both conjuncts are
  needed: TLC finds the property violated with `MaxExchanges = 1`, and with
  `ExecTime = 2`, on the instance of the run. With the defaults of the
  configuration (a pass every 5 minutes, a window of 2 hours, 20 exchanges, an
  execution time-out of 10 minutes) it means a session of at most 441 turns. The
  bound is on the whole session because the module has no variable for the
  backlog at the time of the last turn; a longer session that was ingested as it
  went is not covered.

Before they were proved, the inductive invariants were checked by TLC on the
instances of the runs. What TLC alone checks:

* All liveness: `TurnsEnd`, `ShutdownCompletes`, `SubscribersEnd`,
  `DueRunsSettle`, `TurnEnds`, `CallsEnd`, `PendingSettles`. Fairness and
  ENABLED are beyond the prover.

Every invariant and every safety property of the runs is stated by a
theorem; five of them under hypotheses that the module cannot do without
(`DeadDetectedSoon`, `StartedOnce`, `ResumeExact`, `RunningSubscribable`,
`IngestedInTime`).

## 5. Not modelled

Most of the repository's lines are generated SDKs, user interface, tests'
fixtures, LLM and tracing adapters and configuration; they have no state whose
order matters. Inside the modelled components: access control, list and read
endpoints, pagination, titles, costs and times, tracing, file download.

* Sandbox secrets: two overlapping PUTs of an environment synchronise the
  mounted secrets outside any lock and may leave a secret at Daytona without a
  row, or a row without its secret; a DELETE removes them after the row is
  marked deleted and does not retry. The check that no agent names an
  environment is a check before the delete, not a constraint.
* The first provider PUTs are modelled one at a time; two concurrent first PUTs
  with different keys do not reset the reserved environment. A provider moved
  to another Daytona account resets only the reserved environment.
* Memory ingest over many sessions: a pass starts from the oldest candidates,
  so sessions that fail permanently may use up `maxSessionsPerRun` until they
  leave the look-back range.
* A hand-off that times out while the server goes on leaves a run recorded
  `failed` with a turn; the model has it, and `HistoryExact` is stated for
  behaviours without faults. In the same way a turn whose `createTurn` fails
  after the commit stays `running` until something freezes it
  (`SessionHandle.ts:321`).
* Executor ids are random per process (`server/config.ts:1159`), so a restarted
  replica never owns its old turns; the model uses a new executor for it.

## 6. Plan

1. `AgentThreads` composed with `TurnExecution`: the events it may produce in
   place of the free environment.
2. The TurnServer's cancel composed with `PeerCall`: today both modules state
   the same promise and `RequestReply` implements one of them.
