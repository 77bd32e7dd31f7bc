# HYPERION WORKBENCH: verification project

TLA+ models of the core of the workbench's agent runtime, TLC configurations
that check them on small instances, and TLAPS proofs of the central safety properties of
every component modelled (the driver, the tool scheduler, the session handle, crash and
repair, the agents' lifecycle, the job registry, the goal rounds) for every instance. Paths below are relative to the repository root.

- [1. The system](#1-the-system): the parts, their state, and what is hard about them
- [2. The modules](#2-the-modules): which module models which part, and how
- [3. The runs](#3-the-runs): what is checked, on which bounds, under which fairness
- [4. What the code does otherwise](#4-what-the-code-does-otherwise): where code and text disagree
- [5. The proofs](#5-the-proofs)
- [6. What is not modelled](#6-what-is-not-modelled)
- [7. Plan](#7-plan)

Everything runs from this directory: `tlc -config AgentLoop.cfg MCAgentLoop`,
`tlapm AgentLoopProofs.tla`, and so on for the runs of section 3 and the proof modules of section 5. `PROJECT.json` is the machine-readable index: every
definition that models code with the source lines it stands for ("map"), every
run, every property with a seeded bug that breaks it ("mutants"), the findings,
the hazards and the theorems.

## 1. The system

The workbench is a TypeScript monorepo (`packages/`, `apps/`, a
service framework under `vendor/`, documentation and tests). A process hosts agents; each
agent drives turns of a conversation with a language model and executes the
tools the model asks for; everything it does is an event of a durable session
log. JavaScript runs one call stack at a time, so nothing is preempted; but every
`await` is a point where callers, timers, listeners and other fibers run, and
every `session.append` and status emit calls listeners synchronously, which may
call back into the agent. Nearly all that is hard is between two awaits.

### 1.1 The core, in the order a prompt meets it

| Part | Source | State it keeps | Operations | What is hard |
|---|---|---|---|---|
| Agent driver | `core/agent-loop/src/agent.ts` | phase (idle, maintenance, running), turn and step counters, an abort controller per activity, a latched wake | `send` (followup, steer, inject), `cancel`, `runMaintenance`, the driver `kick`/`turn`/`preStep`/`step` | wakes and cancels at every await; a latch that must be replayed once; a throw in any stage must close step and turn |
| Durable inbox | `core/agent-loop/src/inbox.ts` | two ordered lists, next-turn and next-step, projected from the log | append, claim, splice, clear | a claim removes messages before the decision that may reject them |
| Tool-call scheduler | `core/agent-loop/src/tool-calls.ts` | groups, a rolling pool, slots, a sampled abort, a failure | `executeToolCalls`, `runGroup` | barriers, ordered commits over unordered bodies, aborts, one dispatch failing while others run |
| Tool registry | `core/tools/src/index.ts` | the registered tools and their modes | `prepare`, `dispatch`, `finalize`, `executionMode` | modes change while calls are planned |
| Session log grammar | `core/session/src/invariant.ts` | open turn and step, next numbers, pending calls | `validateEvent`, `applyTransition` | every writer, live or repairing, must satisfy it |
| Session handle | `session/session-persistence-jsonl/src/storage.ts` | write-behind buffer, batching timer, a single-flight drain, a mutation chain, the cross-process lease | `enqueueLive`, `drainLive`, `append`, `flush`, `close` | failing writes, joining a drain, publishing during close |
| Checkpoint policy | `session/session-checkpoint-policy/src/index.ts` | none | three barriers: pre-step, `llm/stream`, `tools/execute` | a side effect must not precede the storage of its cause |
| Crash repair | `core/session/src/repair.ts`, `resumeWith` in `core/agent-loop/src/index.ts` | none (a fold over the stored log) | `interruptedTurnClosers`, store, resume | crashes anywhere, including during the repair |
| Lifecycle owner | `core/agent-loop/src/index.ts`, the registries of `core/agent` and `core/session`, the write claims of `storage.ts` | prepared, live and disposing agents; who holds, and who is listed under, an identity | create, resume, prepare, publish, dispose, owner and factory unload | several owners race to dispose an agent that is still being set up; checks before an await are stale after it |
| Job registry | `jobs/jobs-local/src/index.ts` | records, waiters, a reported flag, cleanup effects on owners | start, wait, kill, read, settlement, owner and service teardown | a record and its producer disagree for a while; each completion needs exactly one audience |
| Goal service and round driver | `goal/goal/src`, `goal/goal-round-driver/src/index.ts`, `goal/tool-goal/src/index.ts` | the durable goal and its activation; one reservation, scheduling runs, needs and triggers | create, edit, pause, resume, complete, block, clear; reserve, fence, restore, block, unload | no thread of its own: reacts inside the events of two other components, re-entrantly |

How they interact. A caller's `send` inserts a message in the inbox and wakes the
driver; the driver claims messages at step boundaries, appends core events to the
session, asks a model adapter for a stream, and hands the tool calls of its
answer to the scheduler. The session validates each event against the grammar and
publishes it; the persistence tracker routes it into the handle, which batches it
to storage. The checkpoint policy listens to the driver's three waterfalls and
holds each back until `sessions.flush` has stored what led to it. A crash leaves the
stored prefix; the lifecycle owner repairs it and starts a new driver over it.
Disposal cancels with the cause `disposed`, waits for `whenIdle`, then unwinds the
agent's scope, closes the write path, then leaves the registries. An agent that ends takes
its jobs with it, through a cleanup effect on its scope. The goal driver listens to the goal
service, the inbox, the agent's status and its pre-step waterfall, and prompts the agent for
as long as an armed goal is active.

What makes each of these correct:

- Driver: one driver at a time; turns and steps are numbered as the log expects and
  always closed in order; an aborted activity starts nothing; a wake that the
  present activity cannot serve is latched, and replayed exactly once; a prompt
  is taken one per turn; endings are sticky as documented; cancel and dispose converge.
- Inbox: a message is in one place and is claimed at most once.
- Scheduler: never more bodies than the limit, exclusive calls alone, results in model
  order, each call answered once (also after an abort), nothing still running when
  it settles.
- Handle: no event lost, duplicated or reordered; `flush` is a barrier; `close` settles.
- Checkpoints and repair: no repaired log contradicts what tools did in the world;
  what a model was shown is never lost; the log is valid and balanced wherever
  the crashes fell.
- Lifecycle: one holder per identity; a listed agent owns its log; a failed call and a
  finished teardown leave nothing; every created edge is paired; unloads finish.
- Jobs: a completion reaches exactly one audience and is final; the limit bounds the work
  itself; nothing outlives its owner's or the service's teardown.
- Goals: a round starts only for the goal as it is (paused, replaced or unloading ones start
  none), on a stored log, once; no trigger is lost and an armed goal goes on.

### 1.2 Around the core

| Part | Source | What it does |
|---|---|---|
| Session store and surface | `core/session/src` | appends with a validation veto, forks, the message surface |
| Registry, consumed work | `core/agent/src` | agents by identity, the fold of consumed prompts |
| Scopes, prompts, presentation | `core/scope`, `core/system-prompt`, `core/agent-tool-presentation` | registration and text assembly |
| Session formats, query, export, titles, stats | `session/*` | folds, migrations and read-side indexes over stored logs |
| Interaction | `interaction/*` | approvals and questions to the user |
| Schedule, subagents, workflow | `schedule/*`, `subagent/*`, `workflow/*` | drivers above the agent: timers, delegation |
| LLM | `llm/*` | adapters, routing, retry, token metering |
| Compaction, context | `compaction/*`, `context/*` | surface rewriting and context text |
| API, ACP, SDK, client | `api/*`, `acp/*`, `sdk/*`, `client/*`, `apps/*` | gateways, wire protocols and user interfaces |
| Tools | `shell`, `terminal`, `subprocess`, `fs`, `web`, `mcp`, `lsp`, ... | the operating system and external services |
| Settings, storage, host, credentials, ... | | services around files and external systems |

`PROJECT.json` lists all of them under "components", with what is and what is not
modelled of each, and under "hazards" every place found so far where this
code is hard to test, with the properties that cover it.

## 2. The modules

| Module | Models | Role |
|---|---|---|
| `SessionLog` | `validateEvent` and `applyTransition` | abstract specification: the grammar of a session log |
| `AgentLoop` | the driver and its inbox | implements `SessionLog` (`LogGrammar`) |
| `ToolCalls` | the scheduler over the staged registry view | implements `SessionLog` inside one open step |
| `SessionHandle` | the write-behind channel and its tracker | |
| `CrashRepair` | checkpoints, crash, repair, resume | composes a sketch of the driver and the scheduler with the guarantee of the handle and the repair |
| `Identity` | who holds and who is listed under an identity | abstract specification of the factory's promise |
| `Lifecycle` | creation, publication, teardown and unloads | implements `Identity` (`KeepsPromise`); composes calls, backend claims, registries, owner and factory fibers |
| `JobRegistry` | the registry, its producers, waits and two teardowns | |
| `GoalRounds` | goal service, round driver, and the agent they act on | composes the three; its agent is `AgentLoop`'s with one user message and one round per turn |
| `MCAgentLoop`, `MCLifecycle`, `MCJobRegistry` | | instances for TLC |
| `AgentLoopProofs`, `ToolCallsProofs`, `SessionHandleProofs`, `LifecycleProofs`, `JobRegistryProofs`, `CrashRepairProofs`, `GoalRoundsProofs` | | theorems, one module per component |
| `CrashRepairLogs` | | what is true of every log of `CrashRepair`, by induction over its length |

Bug seeds. Definitions whose name ends in `Mutant` (and the few variants named
beside one, such as `DrainLiveStaysPaused`) are wrong forms of the definition
that follows them: a dropped guard, a missing reset, a swapped order. No
specification uses them. They document what each property is able to catch:
with the definition replaced by its seed TLC refutes that property.

### 2.1 `SessionLog`

State: `trace`, the validator's `SessionTrace` record (open turn, open step, next
turn, next step, pending calls; 0 for null), and `tail`, the last core event. One
action per case of `validateEvent`: its guard is the negation of the case's `fail`
conditions, its effect what `applyTransition` commits. A repair's synthetic
"not started" result is the case that needs no pending call. Every writer is
checked against it as a refinement, the identity on `trace` and `tail`.

### 2.2 `AgentLoop`

`phase`, `abort` (the reason of the current signal, or none), `wakeRequested`,
`turn` and `step` are the `Phase` union; `nextTurn` and `nextStep` the inbox;
`claimed`, `decision`, `turnEnds`, `stepEnd`, `leaving`, `attempt` and `target` are
the locals of `turn()` and `step()`. `pc` names where the driver stands. A step of the
model is a stretch between two awaits, and is cut further at each append or
emit, because listeners run there and may call `send`, `cancel` or `dispose`.
The calls whose listeners are running are frames on `stack`, each with what it has left to do: a
send whose splice is calling observers, classified but not yet woken (`wake`,
`wake-after-abort`); a cancel behind the first or the second splice of `clear()`, with its latch
and its signal still untouched (`clear`, `cancel`); `kick()` up to its first await (`kick`), and
its finally between publishing idle and replaying a latched wake (`retire`). An action of a
caller pushes such a frame and may come while others are on the stack, which is how a listener
calls back into the agent; an awaited result is handled only when the stack is empty.

| Action | Code |
|---|---|
| `Send`, `SendWake`, `WakeDriver` | `send` up to its insertion, then `wakeDriver` |
| `Cancel`, `ClearNextStep`, `ClearNextTurn`, `CancelEnds`, `CancelGoesOn` | `cancel` up to its first splice, behind each, and its end |
| `UserCancel`, `Dispose`, `TornDown` | who cancels, and the owner's `dispose` around it |
| `StartMaintenance`, `EndMaintenance` | `runMaintenance` and its finally |
| `TurnStart`, `Claim`, `ClaimPrompt`, `PreStep`, `Decide`, `EnterMessages` | `turn()` to the opening of a step |
| `BuildRequest`, `StreamFinishes`, `StreamFails`, `StreamThrows`, `Retry`, `ToolsFinish` | `step()` |
| `EndStep`, `AfterStep`, `TurnStopping`, `EndTurn`, `AfterTurn` | the finallys and the loop ends of `turn()` |
| `AwaitThrows`, `Throw` | a rejection, or a `throwIfAborted`, at any awaited stage |
| `Retire`, `Replay` | `kick()`'s finally |

Abstracted: a message is an identity with a fixed route, sent once; request and
stream contents; the tool calls of a step are one awaited stage, which
`ToolCalls` models; the causes user, parent and hook are one. What a listener
decides (pre-step's decision, turn-stopping's steering, request-error's retry) is
a nondeterministic choice.

### 2.3 `ToolCalls`

A call is its position in the assistant message. `stage[c]` follows a call from
planned through preparing, dispatched, running and ready to answered, or to a
skipped pair of events after an abort. `inFlight` is the scheduler's map of
dispatches not yet raced out, which is not the set of running bodies: the pool limit is
compared with the former, and `PoolShape` says what it means for the latter.
`safe` is the registry's present classification and may change for any call not
started. `signal` fires at any moment; `aborted` is the group's sample of it.

### 2.4 `SessionHandle`

`buffered`, `timer`, `drainPaused`, `draining`, `chain`, `lease`, `materialized`
are the handle's fields; `file` is what storage holds. An event is its
sequence number. The `draining` field has the value the code cannot show:
`finished` or `failed` is the stretch after `drainBuffered` saw an empty buffer and
before its `finally` clears the promise; callers that run there join a drain
that will not look at the buffer again. A caller of `sessions.flush` records what it
is `owed` and whether it joined in that stretch (`late`). A timer cannot fire in
it, because it is a macrotask and the stretch is a few microtasks.

### 2.5 `CrashRepair`

`log` is the session's log in memory and `stored` the length of its stored prefix,
which grows by itself and at the three checkpoints. `ran` and `shown` are the world a
crash cannot undo: tool bodies that ran, and the log last given to a model or a
tool. A checkpoint that rejects ends the turn (`PreStep`), the stream before any adapter is
called (`StreamFails`) or the call without its body (`Settle`). `Closers` is
`interruptedTurnClosers` as a fold, `Validate` the validator as a fold, both over event sequences and both written as recursive functions of the
length of a prefix (`Scans`, `Traces`, `LastTurns`), so that the proofs can speak of every
prefix. A crash may also fall in the
middle of storing the closers (`ResumeCrashes`). The live agent is a sketch: the
order of its events and where it waits, as `AgentLoop` and `ToolCalls` have them. A
scheduler failure leaves its open calls for good (stage `gone`): the scheduler has drained
what it started before it throws, so none of their bodies runs later. The link to `SessionHandle` is its property `FlushStores`: a checkpoint that
resolves has stored what was logged before it was asked for. That property
excludes late joiners; section 4 says what this costs.

### 2.6 `Lifecycle` and `Identity`

One creation is one call of `createAgent` or `resume`; `pc[c]` is where the call stands,
`handle[c]` its write handle as the backend sees it (asked for, claimed, open, closing,
closed), `scope`, `driver` and `td` the agent's scope, driver and memoized teardown, `effect`
the lifecycle effect on the owner fiber. The backend's claim, the registries and the
teardown are separate records, changed at separate awaits, as in the code.

| Action | Code |
|---|---|
| `StartCreate`, `StartResume`, `Abandon` | the calls up to their first await, and `raceAbortCall` |
| `BackendClaims`, `BackendDelivers`, `BackendRefuses`, `HandleCloses` | the backend's side of create, open and close |
| `Prepare`, `PrepareRefused`, `PrepareInterrupted` | `prepare`, with its guards and its catch |
| `SetupSucceeds`, `CreationFails`, `Publish`, `PublishVetoed`, `CallFails` | `setupAndPublish` and its rollback |
| `Dispose` (an operator), `HolderDisposes`, `OwnerEffect`, `FactoryTearsDown` | whoever starts the memoized teardown |
| `Drained`, `CloseWritePath`, `Detach`, `Unfollow` | its steps, in the code's order |
| `OwnerUnloads`, `OwnerDown`, `FactoryUnloads`, `FactoryUnwindsScope`, `FactoryDown`, `ScopeUnwound` | what the fibers do (the vendored framework's `_unload`) |

Two contracts that the source states and does not enforce are assumed by `WorkStarts`: a setup
callback composes the agent and never drives it (`core/agent/src/index.ts:120`), and nobody sends to an
agent whose teardown has started ("New work sent after this point is the sender's bug",
`core/agent-loop/src/index.ts:585`). A send that breaks the second while the teardown awaits the driver or
the scope would start a fresh driver that nothing has cancelled (`agent.ts:227-247`), and
`DisposedIsQuiescent`, `UnloadedIsEmpty` and `UnloadsResolve` would not hold for it.

`Identity` says only: an identity has one holder at a time, is listed under its holder,
and holder and entry are given up together. The refinement mapping computes `holder` from the
claims and takes `listed` from the registry.

### 2.7 `JobRegistry`

A job is a record (`status`, `stored`, `reported`) and a producer outside it. `notice` and
`claimed` record to whom a completion went: a listener that is told it is unreported, or
somebody that asked for it or was handed it. A wait that timed out or was released
is still in the call's hands until its continuation runs, and only then answers. The two
sweeps (an owner's cleanup and the service's teardown) are awaited sets of records. A job's `run()`
and the observers of a settlement are synchronous and are taken not to call the registry back:
`Start` is one step from its limit check to its record, and `Settles` one step from its
snapshot (`:423`) to its last listener.

### 2.8 `GoalRounds`

The driver's code runs inside the events of the goal service and of the agent, so a
synchronous call is a function from a world (goal, driver, agent, history) to a world and is
named for the code it stands for: `Changed` is the `goal/changed` listener, `OnIdle`
the status listener, `Followup` the prompt with everything it sets off. An action is one
stretch between two awaits. A scheduling run is one of `MaxRuns` slots, because the model
showed that there may be two at once (section 4); `RunsLeft` stops the model where a step
could find no slot for a second run. `unsaved` is history only: something was logged that no
successful flush covers. A turn that ends on an empty first step retires its driver without looking
at the queue (`opened`, `EmptyTurnEnds`), so a prompt behind it waits for the next wake. A flush that was overtaken by a durable event is `lapsed` and covers
nothing.

## 3. The runs

State counts are distinct states. Every run is exhaustive within its bounds.

| Run | Properties | Bounds | States |
|---|---|---|---|
| `loop` | 3.1 | one prompt, one steering, one injected message; 2 steps a turn, 2 requests a step, 1 maintenance task | 216 k |
| `tool_calls` | 3.2 | 4 calls, pool of 2 | 85 k |
| `handle` | 3.3 | 3 events, 2 flush callers, 2 failing writes | 524 k |
| `crash_repair` | 3.4 | 2 turns of 2 steps, 2 calls, 2 crashes | 349 k |
| `lifecycle` | 3.5 | one create and one resume of one identity, one owner | 327 k |
| `jobs` | 3.6 | two jobs of one owner, one of nobody's, two waits on one job, a limit of 1 | 514 k |
| `goal_rounds` | 3.7 | 3 calls of the user or mutations of the model, caps 1 and 2, 4 runs | 229 k |
| five `violation` runs | one each, section 4 | as small as shows it | |

Why the bounds are enough. Driver: there is one message for each public entry, `followup`, `steer`
and `inject`; with the steering message sent at any await both redirections
(to the next turn after an abort, to the next step otherwise) and the
reopening of a completed turn occur, and rerouted behind the prompt it gives a next turn with
two messages queued, of which one claim takes one; each call may be made from the observers of
each other one, so the stack goes as deep as there are messages and cancels to push; two steps show a sticky ending survive a later
step, two requests a retry; one maintenance task shows the latch behind
maintenance, and cancels and dispose are unbounded. `MaxSteps`, `MaxAttempts` and
`MaxTasks` are the only bounds; the guards name them. Scheduler: four calls over a pool of
two give two overlapping calls, a third that waits for the pool, and a group
after a group, with every pattern of modes. Handle: three events give one in the
batch, one buffered behind it and one published after a failure; two callers
give one who starts a drain and one who joins it. Crash: two calls give
model order and two stages at the crash; two turns give a turn after a repair;
two crashes give a crash during a repair and one after it. Lifecycle: the races are over one
identity, and two calls are the fewest that have a predecessor whose teardown is late and
a successor; nothing else is bounded. Jobs: two jobs of one owner at a limit of 1 give a refusal and
an admission behind a kill, and the third, unowned, is swept by the service alone; two waits give one
that is released and one that times out or is aborted on the same settlement. Goals:
`MaxOps` bounds the calls; three of them give a goal, a change of it at any await,
and a prompt, stop or second change behind it. Four runs are enough: with `RunsLeft` as an
invariant the run passes as well, so the bound on runs cuts nothing off at three calls.

No symmetry is declared: calls and sequence numbers are ordered, the messages differ in
their routes, the creations in their kind, and the waits are only two.

### 3.1 Driver (`AgentLoop`)

- `LoopInv`: types; `ActivityCoherent` and `LogFollowsDriver` (phase, the driver's place, the signal
  and the open brackets of the log agree at every await, so no throw and no cancel
  leaves a turn or a step open behind a retired driver); `LatchedBehindActivity` (a wake is latched
  only behind an activity that cannot serve it).
- `OnePlace`: a message is never duplicated by rerouting, claiming or clearing.
- `AbortStartsNothing`: each sample of the signal is fresh where it is used.
- `CeilingSticks`: a turn cut at the token ceiling never ends `completed`.
- `LogGrammar`: refinement of `SessionLog`.
- `LatchedWakeRuns`: a latched wake starts a driver, unless the queue is emptied or a clearing
  cancel is under way. The last exception is needed: section 4 says what becomes of a
  waking message that such a cancel's own observers send.
- `Converges`: a cancelled driver retires, and dispose resolves.

### 3.2 Scheduler (`ToolCalls`)

- `ScheduleInv`: pool, stages of the calls, groups and log agree at every await; the pool
  never holds more dispatches than the limit.
- `ExclusiveAlone`: barriers hold, with modes changing under the scheduler.
- `StoppedStartsNothing`: after a signal or a failure no further call starts and no body
  begins.
- `SettledOutcome`: when `executeToolCalls` settles nothing runs on; each group was
  committed whole and in model order (the code's own assertion at the end of `runGroup`); a normal
  return answered each call once and reports the conclusions it committed, whichever group they
  were in.
- `LogGrammar`, and `Settles`.

### 3.3 Handle (`SessionHandle`)

- `HandleInv`: file, batch and buffer together are exactly what was published, in order
  (`NothingLost`); one drain at a time takes events (`OneDrain`); a resolved flush has stored
  what it owed (`FlushStores`).
- `FlushMaterializes`: a flush that resolves leaves a session other processes can open.
- `CallsSettle`, `BufferDrains`: flush and close settle once producers stop publishing; what is
  buffered is written, or its write fails. The code promises no more: `close` loops while the
  buffer fills up (`storage.ts:231-240`), and so does a drain (`:300`), so producers that never
  stop can hold both up for good. `MaxEvents` is what makes producers stop here.

### 3.4 Crash and repair (`CrashRepair`)

- `RepairInv`: the validator accepts the log at all times, and a resumed agent starts over
  a closed log and numbers its next turn right. It is inductive: the repair's scan, the
  validator and the numbering agree on every prefix of the log, the live agent is where its log
  says, and what runs or is shown is stored.
- `NotStartedNeverRan`: a result that tells the model its call never started is true.
- `SeenSurvives`: what a model or a tool was given is a prefix of the log for good.
- `AnsweredOnce`: no call has two results, and a closed log answers each call but those a scheduler
  failure abandoned.

### 3.5 Lifecycle (`Lifecycle`)

- `IdentitySafe`: claim, agent registry and session registry never contradict each other; the
  holder of a live agent stays listed until its own teardown detaches it; a failed call is in
  none of them.
- `KeepsPromise`: refinement of `Identity`.
- `DisposedIsQuiescent`: a finished teardown has driver, scope, claim, entry and announcements
  at rest.
- `UnloadedIsEmpty`: an unloaded factory or owner leaves nothing behind, whichever
  teardown of an agent was first.
- `UnloadsResolve`, `AbortedCallReturns`.

### 3.6 Jobs (`JobRegistry`)

- `JobsSafe`: no completion is lost (`NobodyMisses`), and the limit bounds the work itself, a
  killed job's producer included (`LimitBoundsWork`).
- `LoudOnlyIfUnclaimed`: nobody is told as news what somebody asked for.
- `FirstOutcomeStays`: a late settlement changes nothing anybody was told.
- `GoneLeavesNothing`: a finished teardown leaves no record, and no work but what a throwing
  cancel orphaned.
- `WaitsReturn`, `TeardownsResolve`.

### 3.7 Goals (`GoalRounds`)

- `RoundsInv`: a reservation that is believed queued is in the inbox, and nothing else there can
  pass for the next round; a round between the driver's two checks is the reserved one; what no
  flush has covered keeps an armed goal from its next round. It is inductive (5.7).
- `RequestNotLost`: a trigger that joins a run is served, also when the run has left its loop.
- `PauseKeepsRoundsOut`, `NoRoundWhileUnloading`: no round of a paused or blocked goal, and none
  of an unloading driver, enters its step, wherever the pause or the unload falls.
- `ReservesOnlyDurable`: a round is reserved only over a stored log, where no run goes on beside
  the recorded one. "At most one run is alive" would not be enough: a block at the cap inside an
  unrecorded first pass leaves one run that is not recorded, the recorded one retires, and a later
  trigger starts a run while the stray one still flushes. TLC shows it with five calls, and the
  proof asks for exactly the stronger condition.
- `ArmedGoalAdvances`, `UnloadFinishes`.

### 3.8 Fairness

`crash_repair` uses `Spec` without fairness: the repair is one fold and one store, and what
it waits for is the handle's. The other passing runs assume:

- Driver: `WF_vars(Driver)`, `SendWake`, `CancelGoesOn`, `Replay`, `EndMaintenance`, `TornDown`. A call on the stack
  returns, and awaited work settles: adapters, tools and listeners get the
  activity's signal and the driver checks it behind each await. One weak fairness
  condition covers the whole driver, because it is one thread of control; it
  does not say which outcome an awaited stage has. No caller is fair.
- Scheduler: the scheduler runs, and each running dispatch settles. Nothing says that
  the signal fires or that a body starts.
- Handle: queued promise callbacks run, storage answers (with success or failure, up to the bound),
  and an armed timer fires. Weak fairness is enough: each of these stays enabled until
  it happens. Nothing makes callers flush, publish or close.
- Lifecycle: a create's backend answers, reads, stores and closes settle, a cancelled driver
  stops (`Converges`), a scope unwinds, an aborted await is resumed, fibers go on
  unloading. A resume's open may never answer, nor a setup callback, nor a working driver
  that nobody cancels: the code races the first two against its abort signals.
- Jobs: a cancelled producer stops, which is all the contract asks of it; deadlines fire,
  released waits are resumed, sweeps and fibers go on. A job nobody cancels may run for ever.
- Goals: an agent with work goes on, a flush settles (either way), microtasks run. Nobody
  is obliged to call.

Deadlock is checked in `loop`, `tool_calls`, `handle` and `crash_repair`, where the states
in which the system rightly stops have an explicit stuttering action (`Gone`, `Over`,
`Quiet`, `Done`), so that any other stop is an error. In `Lifecycle`, `JobRegistry` and `GoalRounds` rest is the normal
state (an idle agent, a running job, a goal without an owner) and the cfg says
`CHECK_DEADLOCK FALSE`; there the liveness properties say which stops would be wrong.

## 4. What the code does otherwise

Each run below checks one sentence of the repository, and TLC refutes it with a
trace of the model.

| Run | The repository says | What happens |
|---|---|---|
| `loop_disposal_latch` | "disposal never latches, so teardown waits on no model turn" (`agent.ts:231`) | The signal keeps its first reason. A dispose that meets an activity a user has already cancelled does not change it; a waking send after that is latched and replayed as a turn that teardown waits for. The run's specification allows a dispose only there. |
| `handle_flush_barrier` | "Durably drain the routed live buffer" (`storage.ts:284`) | A caller that joins a drain after its last look at the buffer gets a resolution before its event is stored. |
| `handle_close_loses` | "backend teardown loses nothing" (`storage.ts:217`) | An event published while close releases the lease stays buffered when close resolves; the timer it armed writes it later, after the lock is gone. |
| `lifecycle_owner_awaits` | "memoized so every racing owner awaits one quiescence" (`core/agent-loop/src/index.ts:572`) | The owner's effect returns at once when another teardown is in flight (`:629`), so the owner unwinds the scope under a running driver and is down before the teardown is. |
| `goal_stale_enters` | "a stale, cancelled, or competing prompt is rejected before its step enters" (`goal-round-driver/README.md:72`) | Listeners outside the driver's still await after its last check; an edit in that stretch lets the old revision enter, and the goal's strict fold refuses the log from then on. |

Disagreements met while modelling that have no run of their own:

- `agent.ts:230`, "Live drivers claim queued work themselves": between `turn()` seeing an empty
  queue and `kick()`'s finally, a wake meets a running driver that never looks again; the message
  waits for the next wake.
- `agent.ts:221-223`, "only a latched replay is suppressed when the queue no longer holds the wake": a
  clearing cancel drops the latch after its splices' observers ran (`:191-192`). A waking message one of
  them sends behind maintenance or an aborted driver is latched and loses its wake to
  that cancel, while it stays queued with no driver to come (`LatchedWakeRuns` without `Clearing`
  is violated).
- `docs/architecture.md:98`, tools owe another request: after a max-tokens step the sticky
  ending hides a later step's owed request, and the turn ends with results no request carries.
- `runtime-types.ts:227`, a rejected step leaves steering parked in the inbox: the claim
  removed it and nothing puts it back.
- `repair.ts:3`, "resume with a provider-valid transcript": a scheduler failure closes its step
  over unanswered calls, and the repair looks at the open step only.
- `docs/agent-lifecycle.md:42` draws `step/end` before the `agent/request-error` waterfall; the code
  runs it, and retries, inside the open step (`Retry` and `EndStep` of `AgentLoop`).
- `agent.ts:120`: the agent's scope is a child of the factory's fiber, which unwinds it
  concurrently with the teardown that is to stop the driver first (`FactoryUnwindsScope`).
- `core/agent-loop/src/index.ts:752`: an event appended between the reading of the unstored suffix and
  publication is neither in the stored prefix nor routed live (`AppendsEarly`; `unstored` of a
  published session).
- `goal-round-driver/src/index.ts:207`, "Coalesce triggers onto one agent-local serialized driver": the block at the
  cap raises `goal/changed` inside the first pass of a run that is not recorded yet, and a
  second run starts. `ReservesOnlyDurable` excludes this (`Alone`).
- `goal-round-driver/src/index.ts:265`, the pause for dropped reservations: a reservation still
  queued when another turn ends blocked is paused as if it had been dropped, and its
  leftover makes later resumes pause again.
- `goal-round-driver/src/index.ts:389` expects the next pass to reschedule after a downstream
  throw; the error event disarms the goal first.
- `goal/src/index.ts:338`: an edit may lower the cap below the rounds already started, which the
  projection's schema (`:99`) refuses on restore.
- `goal-round-driver/README.md:53`, "Cancellation never auto-restarts a round": an edit of the goal followed by a
  stop leaves the goal armed, and the next pass starts a round of the new revision.

These are not errors of the models: where a passing property stands next to one, it
says the weaker thing the code does guarantee (`LatchedBehindActivity`, `FlushStores`,
`NothingLost`, `CallsSettle`, `UnloadedIsEmpty`, `PauseKeepsRoundsOut`, `AnsweredOnce` without the
abandoned calls). In particular the checkpoint barrier that `CrashRepair` relies on holds for
callers that do not join in the finishing stretch: a timer's or another caller's drain would
have to end in the very microtasks in which the policy asks for its own.

## 5. The proofs

Each proof module holds for every value of the constants under the assumptions its
component declares (`RouteAssumption` and `BoundAssumption`, `SizeAssumption`,
`OperationAssumption`, `CreationAssumption`, `RepairAssumption`, `JobsAssumption`, `GoalsAssumption`),
which the runs evaluate. They say that bounds and sizes are numbers, that caps and limits are
positive (the code validates both), that the jobs are finitely many, and how the sets of
identities relate. Each
follows one plan: type preservation, one lemma per further conjunct of the inductive
invariant with one step per action that can disturb it, the invariant, and then the results
as consequences or as properties of single steps.

| Module | Theorem | States |
|---|---|---|
| `AgentLoopProofs` | `LoopInvHolds` | `Spec => []LoopInv` |
| | `LoopImplementsLog` | `Spec => LogGrammar`: the driver implements `SessionLog` |
| | `AbortSafe`, `CeilingSafe` | `AbortStartsNothing`, `CeilingSticks` |
| | `OnePlaceHolds` | `Spec => []OnePlace` |
| `ToolCallsProofs` | `ScheduleInvHolds` | `Spec => []ScheduleInv` |
| | `OutcomeIsSettled` | `Spec => []SettledOutcome` |
| | `ExclusiveIsAlone`, `StopStops` | `ExclusiveAlone`, `StoppedStartsNothing` |
| | `ScheduleImplementsLog` | `Spec => LogGrammar`: the scheduler implements `SessionLog` |
| `SessionHandleProofs` | `HandleInvHolds` | `Spec => []HandleInv` |
| | `FlushLeavesArtifact` | `Spec => []FlushMaterializes` |
| `LifecycleProofs` | `LifecycleInvHolds` | `Spec => []LifecycleInv` |
| | `IdentityIsSafe`, `TeardownIsQuiescence`, `UnloadsLeaveNothing` | `IdentitySafe`, `DisposedIsQuiescent`, `UnloadedIsEmpty` |
| | `LifecycleKeepsPromise` | `Spec => KeepsPromise`: the factory implements `Identity` |
| `JobRegistryProofs` | `JobInvHolds` | `Spec => []JobInv` |
| | `JobsAreSafe`, `TeardownsLeaveNothing` | `JobsSafe`, `GoneLeavesNothing` |
| | `FirstOutcomeWins`, `NoDoubleReport` | `FirstOutcomeStays`, `LoudOnlyIfUnclaimed` |
| `CrashRepairLogs` | `EventAgrees`, `SoundGrows` | a legal event keeps scan, validator and numbering in agreement, and a log of any length sound |
| | `RepairSound` | a sound log stays sound after any number of its closers, and is closed after all |
| `CrashRepairProofs` | `RepairInvHolds` | `Spec => []RepairInv` |
| | `AnsweredOnceHolds`, `NotStartedHolds`, `SeenSurvivesHolds` | `AnsweredOnce`, `NotStartedNeverRan`, `SeenSurvives` |
| `GoalRoundsProofs` | `RoundsInvHolds` | `Spec => []RoundsInv` |
| | `RequestNotLostHolds` | `Spec => []RequestNotLost` |
| | `PauseKeepsRoundsOutHolds`, `NoRoundWhileUnloadingHolds` | `PauseKeepsRoundsOut`, `NoRoundWhileUnloading` |
| | `ReservesOnlyDurableHolds` | `Spec => ReservesOnlyDurable` |

### 5.1 The driver

`LoopInv == TypeOK /\ ActivityCoherent /\ LatchedBehindActivity /\ LogFollowsDriver`.
None of its parts but the first is inductive alone:

- `LatchedBehindActivity` needs `ActivityCoherent`: a send that was classified as following an
  abort latches when its splice returns, and that is right only because the abort it
  saw is still the activity's, however deep its frame lies under other calls; and a retiring
  driver clears the latch only because an idle phase holds none.
- `LogFollowsDriver` needs `ActivityCoherent`: `AfterTurn` and `WakeDriver` open the next turn at step
  zero, and a wake may start a driver only where no turn is open, which is what "a driver
  runs exactly in the running phase" gives.
- `LoopImplementsLog` needs all of `LogFollowsDriver`: the guard of each `SessionLog` action (this turn
  is open, no step is, the next number is this) is one of its conjuncts at that `pc`.

Type preservation is proved variable group by variable group (`PhaseTypeStep`, `InboxTypeStep`,
`DriverTypeStep`, `CallTypeStep`, `LogTypeStep`), since each action touches few groups. `PushFrame`, `PopFrame`
and `TopFrame` say what a call pushed or returned does to the frames of the stack, `StackStep` how each action
moves it, and `LateFrames` and `LateWakeStep` that a `wake-after-abort` frame is pushed only behind an
abort, which no action takes back while it is there: an activity ends, and a fresh one
starts, only on an empty stack or from a frame that shows there was none. `LogStep` is the
step simulation: each step of the loop is one `SessionLog` action, or leaves the log alone.

`OnePlaceHolds` rests on the invariant `Placed` and the types alone: the next-step lane, the
next-turn lane and the claimed messages each repeat nothing, share nothing pairwise, and hold
nothing unsent. `PlacedStep` shows that a send appends what was in none of them, that a claim
takes the whole next-step lane and at most the first prompt of the other, and that a cancel
only drops. The `Cat` lemmas
carry this to the one concatenated sequence `OnePlace` looks at.

### 5.2 The scheduler

`ScheduleInv == TypeOK /\ PoolShape /\ CallShape /\ GroupShape /\ ReportShape`.

- `PoolShape` ties the pool to the place of the scheduler: whoever prepares has room, nothing is
  in flight between groups, and a resumed scheduler has a call to race, which is why it cannot
  start on an empty race.
- `CallShape` ties each call's stage to `started` and `committed`: those up to `committed` are answered, those
  behind `started` planned or skipped, at most one is in prepare and at most one is being skipped.
- `GroupShape` and `ReportShape` give the end of a group and of the message; the last says
  that the log's pending calls are exactly the open ones, which is what the refinement needs.

`OutcomeIsSettled` follows from the invariant at `pc = "done"`. `ExclusiveIsAlone` and
`StopStops` are properties of single steps from it.

### 5.3 The handle

`HandleInv == TypeOK /\ OneDrain /\ NothingLost /\ FlushStores /\ FlushWaits`.

- `OneDrain` is inductive with the types. It has to say more than "one batch": that
  only the running batch operation holds events, and that a drain on the chain has events
  to write. The arithmetic of the chain (what an append at its end and a removal at its
  head do to the positions of batches and to the callers queued on it) is in the lemmas
  `ChainAppend`, `ChainTail`, `TailBatches` and `QueuedChanges`.
- `NothingLost` needs `OneDrain`: a batch operation that starts overwrites `batch`, and loses
  nothing only because no other batch operation holds events. The rest is associativity: a
  failed batch goes back in front of the buffer.
- `FlushStores` needs `NothingLost` (with nothing buffered and no batch, the stored log is
  as long as what was published, `AllStored`) and `FlushWaits`: a waiting caller
  has a drain to wait for, a finished drain covers every caller that did not join late, and a
  caller whose own operation is on the chain is covered already. The last is needed because
  the chain's head moves its caller to done without looking at that caller's state.
  `DrainStep` and `CallerStep` say how a drain and a caller move, and `FlushStep` combines them.

`FlushLeavesArtifact` adds that only an operation that finds or makes the session stored completes
a caller, and that nothing unstores it.

### 5.4 The lifecycle

`LifecycleInv` adds to the types and to the safety statements what ties the records of one creation
together: `OneHolder` (one claim per identity), `OwnIdentity` (an entry is under its own identity),
`Shape` (`CallShape`, `TeardownShape`, `EntryShape`: which handle, scope, driver and effect
go with each place of the call and of its teardown) and `UnloadShape` (what an unload has already started).
`EntryShape` is what makes a registered agent hold its claim; `DetachEntry` and `PublishEntry` say
that a detach takes only its own entry and that a publication finds the place free, so no late teardown
removes a successor. The refinement maps a claim, a publication and the detach to
`Claim`, `List` and `GiveUp`, and every other step to a stutter; it needs `OneHolder` for the
`CHOOSE` in the mapping to name the creation that moves.

### 5.5 The jobs

`JobInv == TypeOK /\ RecordShape /\ SweepShape /\ NobodyMisses /\ LimitBoundsRecords`. `RecordShape` ties record
and producer: working producers have active, stored records, and whatever is marked reported before it
ends is claimed. `SweepShape` says that a running sweep has every record of its owner, because
nothing is admitted behind it; from it follow the two statements about finished teardowns. The
limit is counted on the records, and the theorem about the work follows because the producers
that still work are a subset of them (`FS_Subset`).

### 5.6 Crash and repair

`RepairInv` is inductive for every set of calls and every bound. Its parts:

- `Sound`: at every prefix of the log the repair's scan, the validator's trace and the numbering
  of turns agree, and the calls that wait in the scan are those asked for, not answered and not
  abandoned. It must speak of every prefix, because a crash leaves any stored one.
- `LiveFollowsLog`: the place and the stages of the live agent are what the log says. It is what
  makes each event the agent appends a legal one (`AgreeNow` of the present readings, then
  `Live` and one `...Keeps` lemma per action).
- `EffectsStored`: whatever body ran has its `tool/call` stored, and what was shown is stored. It
  is why a crash cannot take back the cause of an effect, and why the repair says "not started"
  only of calls that did not run.
- `UnaskedNowhere` and `AnswersApart`: calls are fresh when they are asked for, and no call has two
  answers.

The readings are recursive functions over the length of a log. That they are defined, have their
types and look at a prefix only (`Recursion`, `ScansFollow`, `TracesFollow`, `LastTurnsFollow`,
`PrefixReadings`) is proved by taking the least length at which a statement fails: `LeastNumber`
gives it from the well-foundedness of the naturals, with a set instead of a predicate as the
parameter, which the provers can instantiate. One event is the subject of `EventAgrees`, which
has one lemma per kind of event; `SoundGrows` extends a log by it. A repair appends its closers
one after another: the answers of the calls that wait in model order, then the end of the step
and of the turn. `RepairGoesOn` follows the readings through them, again by the least number of
closers at which they would fail, and `RepairSound` says that each stopping point is a sound log.
So a repair that crashes in the middle leaves what the next repair can repair, whatever the
number of calls.

### 5.7 The goal rounds

`RoundsInv` is inductive for every cap, every number of calls and every number of runs. The
model's calls are functions from a world to a world, and the proof follows them:

- Each operator has a lemma named `...Fields` that says which fields of a world it changes, so that
  later steps do not expand records inside records.
- The invariant is split into `Rest`, which holds in the middle of a call as well, `IdleSpent`, which
  is about an agent at rest, and what is about runs and durability (`RunsKept`, `Covered`). A followup
  that wakes an idle agent breaks `IdleSpent` on the way and restores it when the turn has claimed
  the round.
- `Driven` says what the driver may do to a world in one call, whatever call that is: nothing but
  scheduling while the agent runs, at most a claim when it is idle, a new reservation only over
  what is covered. It is proved of a pass, of `RequestDrive`, of `Changed` and of `OnIdle`, and each
  action is then a short lemma.
- `Leads` is what every action but `EnterStep` satisfies. It carries the action properties along:
  the step is entered nowhere else, and a reservation that is new was made over a stored log.

Why the parts are needed. `PauseKeepsRoundsOut` needs `OuterGoes` (behind the second check a stopped
goal has aborted the turn), which needs `Inside` (that round is the reserved one).
`NoRoundWhileUnloading` needs `Inside` too: unloading aborts only a turn that holds a reservation, so a
round past the checks must be one. `NoRival` needs `RoundsOfThePast`: a revision or an identity
that a mutation makes new has no leftovers. `AttemptPlaced` needs that a round is queued at most once.
`Spent` says that an admitted reservation is not startable again. `ReservesOnlyDurable` needs `Covered`:
what is unsaved is announced by `needsCheckpoint`, or flushed by a run that has not lapsed, or
belongs to a round whose settlement will ask for a checkpoint.

`GoalsAssumption` needs positive caps, as the service requires of `maxGoalRounds`. `MaxOps`
and `MaxRuns` are bounds of the model; the theorems hold for all their values.

### 5.8 What is only model-checked

All liveness: `LatchedWakeRuns` and `Converges`, `Settles`, `CallsSettle` and `BufferDrains`,
`UnloadsResolve` and `AbortedCallReturns`, `WaitsReturn` and `TeardownsResolve`, `ArmedGoalAdvances` and
`UnloadFinishes` (the prover has no rules for fairness and ENABLED here). Every safety property of the
passing runs is stated by a theorem.

## 6. What is not modelled

- Of the driver: general inbox edits by callers (reorder, remove one message), an
  append vetoed by a plugin's own validator, and the two-cause distinction among
  user, parent and hook. Reasons of a `turn/end` but its ending.
- Of the registry: registration, schemas, guards, nested dispatch.
- Of the handle: producers that never stop publishing, explicit `append` before routing starts, reads, torn-tail repair, a
  failing lock release, pending sessions of the backend, and `flushAll`.
- Of crash and resume: a retry inside a step (`AgentLoop` has it), the inbox (claims are stored before the step they feed),
  forks and seeds.
- Of the lifecycle: the configuration-driven `create` and `restoreOrCreateConfigured` with its wait for a
  draining identity, a backend that unmounts, and a send to an agent during its setup or its
  teardown (2.6).
- Of the jobs: output buffers and their limits, access checks, listener layers, and a `run()` or a
  settlement's observer that calls the registry back (2.7). An observer that reads or kills
  the job before a later listener is told would have it told as news all the same.
- Of the goals: a session that refuses a followup, several steering messages of one step, and
  what a model does with the wrap-up text.
- Pure I/O, external protocols and presentation (shell, file system, web, MCP, LSP, user
  interface, wire formats): their behaviour is the environment's, and what the
  core awaits of them is already a nondeterministic settle in the models.
- Vendored and generated code, tests, packaging. The vendored framework's fibers appear only
  as far as unloading an owner or the factory needs them.

The repository is large (most of it user interface, adapters and formats), and the modules
cover its concurrent core, not a fixed share of its lines.

## 7. Plan

In the order of what matters most to the system:

1. `CrashRepair` with the inbox: a claim stored before its step, and the consumed-work fold
   that accounts for it after a crash.
2. `Approval` (`interaction/user-approval`): decision, policy change, revocation and cancellation of requests.
3. `Retry` (`llm-retry`), the gateway's stream over a live agent, `Schedule`, and subagent
   continuation, each composed with the part of `AgentLoop` it drives through an abstract
   agent (idle, running, cancelled), as `GoalRounds` does.
4. The remaining operations of `SessionHandle`: explicit append, torn tail, lease failure,
   `flushAll`; of `ToolCalls`: nested dispatch; of `Lifecycle`: configured agents.
5. Settings and storage domains: cached values against the files behind them.

Proofs, in order: that the driver sketch of `CrashRepair` is allowed by `SessionLog`, and with it
that a repair is a writer of the grammar like any other; that `Found` of a prefix determines the
closers, as a refinement of an abstract "close what is open"; the invariants of the modules
above as they are written.
