# KaziAI AgentOS: a TLA+ verification of runs, their records and services

KaziAI AgentOS executes *runs* of language-model agents. A run has a durable row
(status, version, metadata), a saved agent state, and an append-only record of its
actions; it is executed by a process that may die, be replaced, be overtaken by
another process, or be told by an operator to stop. Around the run there are records
(events, checkpoints, files, traces, memory, definitions, keys) and services (planner,
policy, recovery, providers, MCP servers, queues, webhooks, sandboxes, a gateway). This
directory models both in TLA+, checks them with TLC on small instances, and proves the
safety properties of those runs with TLAPS for every size. Paths below are relative to the repository root.

The document has these parts: the system (what there is), the models (what stands for
what), the runs (what TLC checks, within which bounds), the proofs, what the runs found,
what is left out, and the plan.

## 1. The system

### Components, their state and their operations

| Part | Code | State it keeps | Operations that change it |
|---|---|---|---|
| Run state machine | `packages/core/src/state-machine.ts`, `packages/runtime/src/transition.ts` | none (a table of 14 statuses and 36 edges) | `transition`, `advanceRunTo` walk a shortest path |
| Run store | `packages/persistence/src/embedded/embedded-store.ts`, `.../prisma/prisma-store.ts` | run row with `stateVersion`; saved state with its own version; journal, approvals, checkpoints, events | `runs.update` and `states.save` are compare-and-set; the rest inserts |
| Agent runtime | `packages/runtime/src/runtime.ts`, `control.ts` | per process: the run lock, one `RunControl` per executing run (flags `cancelled`, `paused`), backpressure counters | `start`, `resume`, `retry`, `pause`, `cancel`, `restore`, `fork`, `shutdown` |
| Agent loop | `packages/runtime/src/loop.ts`, `session.ts` | the session: a copy of the row and state, counters of steps and recovery attempts | observe, plan, decide, act, record, recover, verify; `persist`, `advanceTo` |
| Dispatchers | `apps/api/src/dispatcher.ts`, `packages/runtime/src/dispatcher.ts` | none | call the runtime without awaiting it, or enqueue |
| Store queue and worker | `apps/worker/src/queue.ts`, `worker.ts` | no record of its own: a claim marker in the run's metadata | `enqueue`, `claim`, `release`, `reclaimStale`, `executeItem`, `recordFailure`, `stop` |
| Executor | `packages/executor/src/executor.ts`, `dag.ts` | journal entries (intent, commit) | waves of actions: policy, approval, intent, effect, commit |
| Approvals | `packages/policies/src/approvals.ts` | approval records | `request`, `decide`, `resolve`, `cancelForRun` |
| Checkpoints | `packages/checkpoints/src/manager.ts`, `packages/tools/src/environment/snapshot.ts` | numbered checkpoints; blobs of files by content | `create`, `prune`, `restore`; `captureWorkspace`, `restoreWorkspace` |
| Recovery | `packages/recovery/src` | attempts of the session and of the run | `decide`, `execute`; the loop's `recover`, `applyRecovery` |
| Policy and permissions | `packages/policies/src`, `packages/core/src/permissions.ts` | the registered rules | `register`, `unregister`, `evaluate`; permissions are computed per call |
| Planner | `packages/planner/src` | none (the plan is kept in the run) | `createPlan`, `revisePlan` |
| Context and memory | `packages/context/src`, `packages/memory/src` | observations of the session; memory entries by scope | `build`; `remember`, `recallScoped`, `forget`, `clear`, `prune` |
| Events and streams | `packages/runtime/src/events.ts`, `apps/api/src/routes/stream.ts`, `apps/dashboard/src/hooks/useRunStream.ts` | event rows numbered per run; a reader's position | append; follow; reconnect |
| Replay | `packages/runtime/src/replay.ts` | none (a report) | executes a recorded journal again |
| Tracing | `packages/tracing/src`, `apps/dashboard/src/lib/timeline.ts` | none (folded out of events and records) | none |
| Durable files | `packages/persistence/src/embedded/jsonl.ts` | one file per collection | append, rewrite, open |
| Providers, gateway | `packages/providers/src/registry.ts`, `packages/core/src/circuit-breaker.ts`, `apps/gateway/src` | breakers; requests in flight | `generate`; an exchange's events |
| MCP | `packages/mcp/src` | pending calls; a client and a catalogue per server | `callTool`, `connect`, `discover`, `reconnect`, `close` |
| BullMQ | `apps/worker/src/bullmq.ts` | jobs in Redis | add, consume, retry, stall |
| Webhooks | `apps/api/src/webhooks.ts` | deliveries in flight, the delivery log | publish, post, record, `close` |
| Tools, environments | `packages/tools/src` | the workspace; containers and processes | the file tools; `create`, `exec`, `destroy` |
| Definitions | `packages/agent/src`, `packages/sdk/src/agent.ts` | a process's registry; one row per version | `register`, `get`, `load` |
| API keys | `apps/api/src/auth.ts` | key rows | `bootstrap`, `authenticate`, `create`, `revoke` |
| Lock manager, backpressure | `packages/core/src/lock.ts`, `packages/runtime/src/backpressure.ts` | entries with a token and a time, callers that wait; the number of running executions | `acquire`, `release`, `extend`, expiry; `reserve`, `release`, `check` |
| Bench and verification | `packages/bench/src/runner.ts`, `packages/runtime/src/verification.ts` | a case's workspace; the evidence in a run's events | `runCase`; `verify` |
| Evaluation, CLI, pages of the dashboard | `packages/evaluation`, `packages/cli`, `apps/dashboard` | none of a run | call the API |

### How they interact

There is no central coordinator: *the row is the only thing processes share*. Everybody
reads it, computes, and writes the whole row back under `expected version`; a loser gets
a `ConflictError`. On top of that there are two process-local devices, the run lock and
the `RunControl`, which order the threads of one process only. A deployment is either

* **inline**: the API process serves calls and executes the runs itself, or
* **a fleet**: the API process enqueues and worker processes claim, execute, release and
  sweep claims that look abandoned.

An operator's `cancel` or `pause` raises a flag if the process that serves the call is
the one executing the run; otherwise it walks the row through the table and relies on the
executor to look at the row at the top of its next iteration.

### What is hard here

* **Interleaving on one row.** A session, an operator's call, a claim, a release and a
  sweep each read, wait and write. `advanceTo` of the session writes *without* raising the
  version, `persist` raises it *in memory before* the write that may be refused.
* **Two writes that belong together.** The row and the saved state are separate writes
  with separate versions, and `restore` replaces the state before it moves the row.
* **Crashes.** A worker dies with the row in any in-flight status and its claim live.
* **Timeouts.** A claim is stamped once and never refreshed; the lock lasts five minutes
  and is never extended; the holder of either may still be working when it is taken.
* **Errors in error handling.** `containFailure` writes the store; that write can be
  refused too.
* **Termination.** `recover` and `applyRecovery` call each other until attempts run out.
* **Read, wait, write, again.** An event's number, a checkpoint's sequence, a key's record, a
  duplicate's absence and a registry's memory are each read before an await and used after it.
* **Two ends of a channel.** An MCP answer, a gateway exchange, a command's exit and a webhook
  delivery are each ended by whichever of four things comes first, and by the others as well.
* **Layers that override each other.** Risk tables, rules, remote answers, permissions of
  definition, request and tool, and the rules of recovery are applied one after the other.
* **Two drivers, one interface.** Upsert or insert, unique index or none, a column cleared or
  left as it was.

Section `hazards` of `PROJECT.json` lists each of these at its line, with the property
that catches it, or the reason none does.

### What makes each part correct

* *State machine*: the search finds a shortest legal path; a walk an operator causes does
  not pass through a finished status; finished statuses have no way out except a retry.
* *Store*: the saved state is never newer than the row it belongs to.
* *Runtime*: at most one session of a process iterates; a finished run is left only by
  `retry`; nothing that rejects leaves a run stranded in the middle of an iteration.
* *Loop*: every execution ends, whatever model, tools, verifier and recovery answer.
* *Executor, journal and approvals*: what is settled is not done again under its key; in a
  database a key takes effect once; an action that needs a human waits for a grant of that
  very action; a decision is found again instead of asked for again.
* *Queue and worker*: a run that is queued or was left behind by a dead worker is taken
  up; two executions overlap only when a claim has gone stale, and then only one of them
  can still write; the other one's blind work is bounded.

* *Records*: a walk, a file, a log, a checkpoint, a snapshot, a trace, a charge or a definition
  is what was done and no more, whatever died or overlapped; a reader is shown the history.
* *Services*: authorization only narrows, load stays within its limits, a failure stays where
  it happened, an answer finds its call, an order is kept, and what is begun ends.

## 2. The models

### The machinery of a run

```
RunStates   the table and the search          RunPaths     its checks
RunSession    row, saved state, compare-and-set; start/resume/retry and the loop, one thread each
  RunControl      pause, cancel, restore, accepted starts
    InlineDeployment    one process               MCInlineDeployment
    StoreQueue          claims, sweeps, items
      WorkerFleet       many processes            MCWorkerFleet
  LifecycleProofs   steps of RunSession and RunControl keep the invariants
    InlineProofs, FleetProofs    theorems about the two compositions

ActionExecution   executor, journal, approvals, and the loop around a batch
                                                    MCActionExecution
  ActionProofs      its theorems
```

### Records and services

Twenty-two modules model a component each, some of them two, with variables, an `Init`, a
`Next` and properties of their own; components share nothing. `MCRecords` and `MCServices` put them side by
side: a variable `part` says which one moves, the others rest where they started.

```
MCRecords    RunPaths DurableLog EventHistory (with the frames of its stream) StoreDrivers
             Checkpoints Replay WorkspaceFiles (with snapshots) TraceTimeline PromptContext
             (with memory) AgentRegistry ApiAccess Grading
                                               EventHistory implements EventFeed
MCServices   Webhooks Gateway ProviderChain McpClient (calls, servers) BullMqQueue Sandbox
             PolicyEngine (with permissions) Recovery ActionWaves (with the planner)
             Admission (with the lock manager)
```

The behaviours of the sum are the behaviours of its parts, taken one part at a time, since no
two parts share a variable; so a property `Of("log", P)` holds of the sum exactly when `P`
holds of `DurableLog`. The reason for a sum is the question: each property of a suite asks one
question of every part it concerns (is what was acknowledged still there? does what is begun
end?), and its conjuncts are the modules' own named properties, which stay usable alone.

`RunSession` takes the statuses, the terminal ones and the search (`Path`) as CONSTANTS with
named assumptions, so that everything above it is proved for any table with those
statuses and run by TLC with the real one (`MC*` modules take it from `RunStates`).

| Module | Variables | What an action is |
|---|---|---|
| `RunStates`, `RunPaths` | the walk in progress | one hop of `advanceRunTo` for every pair of statuses |
| `RunSession` | `row` (status, version, claim), `saved` (version of the stored state), `ses[t]` (where the thread is, the copy of the row it writes back, counters, flags), `lock[p]`, `control[p]`, `blind[t]` (history) | what lies between two awaits that matter: one read, one compare-and-set (`Accepts`, `WriteRow`), or one decision |
| `RunControl` | `call[c]` | one read, one hop, or one of restore's writes |
| `InlineDeployment` | `crashes` | a dispatch, a return, a restart of the process |
| `StoreQueue` | `up`, `tick[w]` (what the poll loop read), `job[t]` (the claimed item), `claims`, `undercut` (history) | the read or the write of claim, sweep, release and enqueue; a step of `executeItem`; crash; shutdown |
| `DurableLog` | `file` (lines, the last one perhaps cut), what the process holds in memory | an append, a rewrite's two halves, a death, an opening |
| `EventFeed`, `EventHistory` | the stored `events`, `emitter[e]` (the number it holds), the stream, `reader` | reading a number, appending, a page, a look at the row, a reconnect |
| `EventHistory`, frames | the text sent, how much has arrived and what of it is kept, the messages handed on | a frame written; a chunk cut anywhere and parsed |
| `StoreDrivers` | `kept` (embedded rows in the order of the log), `table` (Postgres columns), who refused, `apart` (history: how calls told them apart) | one create, save, delete or search asked of both; then every read is asked of both |
| `Checkpoints` | checkpoints with how far state and files have come, `maker[m]` | one of begin, capture, save, read for pruning, delete |
| `Replay` | `journal`, the call behind each key, the entries left, the report, what was changed | an entry written by the run; an entry skipped or executed |
| `WorkspaceFiles` | sizes of files, the charge: of the batch, in memory, saved | one tool's call; recording a batch; saving |
| `WorkspaceFiles`, snapshots | `tree`, `blobs`, `manifest` | one file of a walk; a death in a copy |
| `TraceTimeline` | events and records of a run, where the loop is | one write of the loop |
| `PromptContext` | observations; memory entries, who is about to write | an observation, a save, a restore; a look for duplicates, a write, a clear |
| `AgentRegistry` | what each of two processes remembers, the stored row | one store call of `register`, `get` or `load` |
| `ApiAccess` | key rows, servers in their start, requests between check and write-back | one store call |
| `Webhooks` | the dispatcher, `delivery[n]`, the log | one await of a delivery; a deactivation; close |
| `Gateway` | `exchange[c]`, the slots in use | one event of an exchange |
| `ProviderChain` | `breaker[t]`, where each call is, time | a try, an answer, a tick |
| `McpClient` | pending calls, messages under way, what callers were told; a connection per server | one message, timer or continuation; one step of a connection, one page of a listing |
| `BullMqQueue` | jobs, consumers, the run's row | an add, a step of a consumer, a stall, a forgotten record |
| `Sandbox` | the cache, containers, `command[u]` and its processes | one await of `environmentFor` and of the shutdown; one event of a command |
| `PolicyEngine` | the layers of permissions; the rules, the verdicts | a combination of layers; an evaluation, a remote answer, a registration |
| `Recovery` | one action's journal, failure and attempts, the budget | one execution, decision, iteration; a death; a new session |
| `ActionWaves`, with the planner | the batch's waves and workers; the plan under way | a worker takes, finishes or fails; an answer, a check |
| `Admission`, locks | the entry of a key with its token, the list of waiters, `contender[c]` | acquire, a waiter's turn, timer or signal; extend; release, also by one whose time ran out |
| `Admission` | the slots in use, `creator[c]` (between counting and creating), `admitted[r]` (between claim, count and slot) | one read or write of `createRun` or of a worker's claim; an end; an operator's retry or resume |
| `Grading` | the workspace, the run's row and its session, the evidence, the bench's readings | one command of the verification; a verdict's record, its event; a death; one await of `runCase` |
| `ActionExecution` | `log[k]` (journal per idempotency key), `approvals[a]` (requests per fingerprint), `work[s][a]` (how far the executor has come), `ses[s]`, `desk[o]` (operators' calls), `status`, `position`, `owner` (the row, as far as the executor depends on it), `effects`, `granted` (history) | what lies between two reads or writes of the journal or of an approval; the tool; a step of the loop around the batch; a read or a write of an operator's call; a crash |

Three things about `ActionExecution` are worth knowing before reading it:

* **The key** of an action is what `idempotencyKeyFor` hashes: the number of model calls made
  so far, the tool with its arguments, and the session's count of retries *when the action
  was made*. A recovery retry keeps the key; a resumed run makes it anew, from the durable
  number of model calls and a count that starts at 0 again.
* **The row** is reduced to `owner`, the session whose writes the store still accepts. That
  there is one at most is what `fleet_overlap` checks (`OneSessionIsCurrent`) of the full
  row; a session that has lost it goes on executing until its next write is refused.
* **Two journals.** The embedded one is appended to and accepts anything; the Prisma one has
  a row per key, a unique index that refuses a second intent, and a commit that needs an
  intent. A refusal escapes from the executor (`Escape`): it ends the run, while the other
  actions of the batch run on, unless the action was executed for an approval, whose
  handler turns every error into a denial.

Conventions that run through the modules:

* A status the code computes with `nextStateToward`/`pathTo` is `Path[from][to]`. The
  session's `advanceTo` applies the whole path in memory and writes the row once
  (`AdvanceTo`); `advanceRunTo` writes one hop at a time (`WriteHop`).
* `persist` is two actions (`PersistRow`, `PersistState`) and the versions go up in
  `Bumped` before the first one, also when the write is refused.
* An exception is `Raised`: into `containFailure` or, when that is already running, out of
  `run()`, so that `start()` rejects. What a phase catches itself has its own name
  (`DecisionRaised`).
* What the model, the planner, the tools, the verifier and the recovery engine answer is a
  choice (`BecomeOneOf`); limits other than steps and recovery attempts (time, cost, tokens)
  may strike at any check.
* An embedded store answers synchronously with respect to other calls in the process;
  `Embedded = FALSE` puts a step between reading and deciding.

`map` in `PROJECT.json` gives the source lines of each definition.

## 3. The runs

Deadlock is not checked where calls, claims and crashes are bounded: the bounded system
really stops (each caller makes one call, `MaxClaims` claims are taken).

| Run | Question | Instance |
|---|---|---|
| `records` | Of what is kept and shown: are walks, files, logs, checkpoints, snapshots, replays, charges, traces, prompts, definitions and keys what was done, whatever dies or overlaps? Do readers arrive? | fifteen parts, `Records.cfg`; 365,348 states |
| `services` | Of what a run relies on: does authorization only narrow, load stay bounded, failure stay contained, an answer find its call, an order hold, and what is begun end? | fourteen parts, `Services.cfg`; 301,185 states |
| `storage_agnostic` | *violation*: do the two drivers take the same writes? | the steps of one run, four writes |
| `inline` | In one process with an embedded store: one session at a time, states never ahead of rows, finished runs left only by retry, nothing stranded. | two threads, three calls of any kind but restore, one crash, one step, one recovery |
| `fleet_crash` | Do runs of a dying worker get finished, does every execution end, and is there one execution as long as none outlives its claim? | two workers, one of which may die; two steps, one recovery, three claims; liveness |
| `fleet_overlap` | If executions outlive their claims, can more than one of them still write, and does the writer hold the claim? | two workers, two claims, three attempts, refusals for load, runs outlive claims |
| `fleet_calls` | With every call against a remote store, backpressure, crash and shutdown: are states ever ahead, is blind work bounded? | one worker, one call of any kind |
| `actions` | Is anything that is settled done again, does a key take effect twice in a database, does a gated action need its grant, is a decision asked for once? | two sessions (one after the other with the embedded store, overlapping with workers), two starts, two model calls, one repeatable and one unrepeatable action, one recovery retry; seven deployments |
| `actions_uncertain` | *violation*: does an action that must not be repeated take effect once? | one deployment: the embedded journal and a policy that lets the action through |
| `fleet_cancel` | *violation*: is a cancelled run final? | one worker, one cancel |
| `fleet_two_workers` | *violation*: is a run executed by one worker at a time? | two workers, runs outlive claims |
| `fleet_decided` | *violation*: does a run that waits for an approval go on when it is decided? | one worker, one decision |

**Why the bounds are enough to be interesting.** Two threads are what a race over one row
needs; three calls allow start, a second start or cancel, and a retry; a second step makes
an iteration that begins with a plan and one that loaded it. One recovery lets every
strategy be chosen, including the retry that fails. The versions grow with the writes and
need no bound of their own, because steps, attempts, calls, claims and crashes are bounded.
Two claims are a hand-over, three a hand-over after a failed one. In
`fleet_overlap` a run has the three attempts of the code (`apps/worker/src/worker.ts:47`). Its
two properties were also checked with three claims, a start of the run from outside and
executions that have used up their steps (`MaxSteps = 0`; 3,015,170 states), where a run is
claimed again after it was put back under a worker that was getting it started; there each of them
fails without the exception it names, and the theorems of section 4 have neither bound.

For `actions`, the deployments are the two journals with: a policy that sends the
unrepeatable action to a human; one that lets it through or denies it, as budgets go; and one
with an action whose arguments its schema refuses. Batches have one action or two where two
can disturb each other. Two starts let a crash, a parked run, a failed one or a second worker
come in between; two model calls make a second position, at which the same action has a new
key and the same fingerprint. Operators make up to two calls in the deployments that ask for
approvals; two of them are a decision racing a cancellation or two decisions racing.

For `records` and `services` the bounds are those of each part alone. The walks are
exhaustive (all 14x14 pairs). Two writers, makers, processes, servers, requests or askers are
what a race over one row needs; a file takes four writes, two of them cut short, so that a torn
line is appended to and the file opened again; two deaths let a snapshot be torn and then
restored; a page of two events and two connections make a reader that is behind by more than a
page and reconnects; three checkpoints with a window of one make a prune whose list is old.
The gateway has one client more than slots, as the lock has contenders more than holders, and
`Admission` three runs for one slot and a limit of two. A stream has three frames; a
verification two commands, a case one edit, one rework and two sessions. A breaker that opens at
two failures and closes at two successes has every transition within one tick. A summary has
room for one line (`SummaryLines`), so that one of two is cut; a listing of tools alternates
between two pages as often as it likes. MCP has two calls, one repeated answer, and
requests of the server. Recovery runs over every kind of failure, class and limit, two steps
and two sessions; waves over every graph of three actions on two workers; plans over three
asked steps with two or three kept. What an operator's recovery map says (`Overrides`) is left
at the default in the suite; `RetriesAreEarned` was also checked with overrides.

**What each property says and would catch**

* `PathsAreSound` (in `records`): a missing edge makes `advanceTo` silently do nothing, an
  extra one takes a walk through FAILED.
* `FilesSurviveDeaths`: a write cut short costs one record and no more, and a restore is exact
  where no blob was torn. A rename that is not one step, or a blob that is trusted, breaks it.
* `CheckpointsAreKept`: what pruning removes when another maker has saved in between.
* `ReadersSeeTheHistory`: the *refinement* of `EventFeed` by `EventHistory`: whatever overlap
  of emitters and whatever reconnects, a reader's view grows by the next event in order, each
  once, none left out. `ReadersArrive` is its liveness, with that of the walks.
* `ReplayTellsAll`, `TraceHolds`, `StorageHolds`: a report, a trace and a charge account for
  every thing once, while the run goes on writing and may die between two records. `TraceHolds`
  also has the stream's text, wherever it is cut, and what COMPLETED and a bench case's success
  mean: the files are what the last verdict says they are, whatever died in between.
* `DriversAgree`: every read of either driver answers the same, in the order it asks for, unless
  a call was refused or one of six other things happened, which the property lists: an optional
  value is cleared by a save, or one that a mapper does not give back is kept (a blank read with
  `?`, a NULL that is spread, an absent count); a version of an agent is registered again at
  another time or under another name; a memory is searched (the embedded driver counts the
  access); an email is looked up in another spelling. Each exception is needed: without any one
  of them TLC finds the property violated.
* `PromptIsTheRunsOwn`: compression, trimming and restores lose no observation: each is shown or
  summarised, and the summary is cut only when the compressed prompt is still over the limit and
  the summary longer than a trimmed message; recall never shows another tenant's memory.
* `DefinitionsAreKept`, `AccessHolds`: a process does not remember what the store would not
  give back; a revoked key stays revoked under Postgres whatever is written back.
* `AuthorizationOnlyNarrows`: no layer, in any order, brings back what another refused.
* `DispatchedOnce`, `LoadIsBounded`, `FailuresAreContained`, `AnswersFindTheirCall`: ends that
  race each other give back one slot, answer one call, count once in a breaker, kill what they
  say they killed. `LoadIsBounded` also has the lock (one holder; a waiter is in the list) and
  backpressure: how far runs created at once and runs that came back can exceed the limits.
* `RecoveryIsBounded`: no order of decisions, deaths and new sessions retries what must not be
  repeated or recovers beyond the limit within a session.
* `OrderIsKept`: no action of a batch runs before what it depends on has settled, and a plan is
  kept or refused as it can be ordered or not, over every graph, circular ones included.
* `EverythingSettles`: liveness of every service, with `Owed(n)` and `Paid(n)` naming what the
  part that moves owes to its n-th client, call, command or batch. For the MCP servers it has a
  condition, `ListingsEnd`: each server comes to the last page of its tools.

* `OneSession`: the lock is what turns the second `start` away.
* `SavedNeverAhead`: a process that restarts loads row and state separately; a state newer
  than its row would be replayed under an older status.
* `FinishedMovesOnlyByRetry`: holds inline; see section 5 for what happens in a fleet.
* `NotStranded`: every error path of the loop ends at a resting point. Checked where loading
  prompt, sandbox and verifier succeeds; with `SetupFails` it does not hold, and that is one
  of the divergences below.
* `OneExecution`: in `fleet_crash`, where a claim is only swept once its holder is dead.
* `OneSessionIsCurrent`, `CurrentSessionHoldsClaim`: the optimistic version is the fence
  when a claim is taken from a live worker, at the code's three attempts. Two sessions that no
  exception has told of anything never hold the row's version together. A session whose write
  was refused holds a version one higher than it should (section 5, item 1), and stays behind
  because a hand-over takes more writes than that, unless the run is put back between a claim
  and the write of `INITIALIZING`: `undercut` remembers that a release or an `enqueue` did so,
  and both properties name the exception. An execution's claim is taken by a sweep only when
  it has got past `INITIALIZING` (`Stale`): a start that takes longer than `staleClaimMs`
  reads the row after the sweep and is not fenced.
* `BlindIsBounded`: how often a fenced session still executes tools before a write tells it.
* `SettledIsNotRedone`: the replay guard is read long before the intent is written; a policy
  decision, an approval and another session come in between. What was committed as done, or
  as failed when it must not be repeated, stays as it is.
* `UniqueKeyFences`: two workers may both find nothing under a key; the unique index must
  leave one of them to do it, also when the other's batch has been abandoned and runs on.
* `GatedNeedsGrant`: the approval is found, read and resolved in three reads while others
  decide and cancel; no order of these lets an action through on a request nobody granted.
* `AskedOnce`: a parked run comes back at a new position with a new key; if the fingerprint
  did not find the decision it would ask forever. Stated for the embedded store, where one
  session runs at a time (two workers may both find nothing and both ask), and while nobody
  cancels: `decide` writes over a cancellation, and then there are two.
* `EveryExecutionEnds`, `RunIsTakenUp`: liveness, below.

**Fairness.** `WF` on each thread (its event loop runs what it awaits), on each worker's
poll loop (`setTimeout` re-arms it whatever happened) and on the enqueue of an accepted
call. It is weak: an action that stays enabled is taken. Nobody has to make a call, to
crash, or to shut down, and no choice inside a step is fair: `EveryExecutionEnds` holds
against a model and tools that always choose the answer that goes on longest. In the suites
each part has the fairness of its own module and only while it moves: timers fire
(`TimeOut`, `TimeOutCall`, `TimeOutCommand`), promises continue (`DeliveryStep`,
`ConnectionStep`, `TellCaller`), loops go on (`RecoveryStep`, `ConsumerStep`, `EmitStep`,
`StreamStep`), workers poll and executions end (`AdmissionStep`, `ClaimAdmitted`), lock timers
fire (`LockStep`). Nothing makes an upstream or an MCP server answer or a command end, nor a
server's listing of its tools.

Every property of a passing run has a mutant in `PROJECT.json`: a definition of the model
replaced by one with a plausible bug (`Defect:` comments), under which TLC finds the
property violated.

## 4. The proofs

TLAPS checks every theorem below, and every lemma it rests on, with no step left open: for any
number of threads, callers, processes, workers, sessions, actions, clients, keys and so on, any
bounds and any table of statuses that the assumptions allow. Liveness aside, they are the
properties the runs check on small instances; `theorems` in `PROJECT.json` pairs each with its
property.

| Module | Theorems | Inductive invariant |
|---|---|---|
| `LifecycleProofs` | `SessionStepKeepsInv`, `CallStepKeepsInv` | `SessionInv`, `CallInv`: what one step of a session or a call keeps in whatever deployment it is taken |
| `InlineProofs` | `TypesHold`, `SavedIsNeverAhead`, `OneSessionAtATime` | `CallInv` with the process's own variables; `HeldByOwner` |
| `InlineProofs` | `EndingsAreFinal`, `NobodyIsStranded` | `RunInv`: `Composed`, `Hops`, `Pending`, `SomebodyMoves` |
| `FleetProofs` | `FleetTypesHold`, `FleetSavedIsNeverAhead`, `LostSessionsStop` | `FleetInv`, `BoundInv` |
| `FleetProofs` | `OneWorkerExecutes` | `ClaimInv`: `ExecutorsOwn`, `CopiesInStep` |
| `FleetProofs` | `OneSessionWrites`, `WriterHoldsTheClaim` | `WriterInv`: `FenceInv` (`Behind`, `OneCurrent`); until `undercut`, `OverlapInv` (`OneWriter`, `Backed`, `CopiesAreOld`) |
| `ActionProofs` | `TypesHold`, `KeysTakeEffectOnce`, `GatedActionsNeedAGrant`, `SettledKeysAreLeftAlone`, `OneRequestStands` | `TypeInv`, `Fence`, `Granted`, `Unsettled`, `Asked` |
| `ServicesProofs` | `ServicesAreTyped`, `DispatchIsOnce`, `FailuresStayWhereTheyHappened`, `LoadStaysInItsLimits`, `RecoveryStaysBounded`, `AnswersFindTheirCalls`, `OrderStays`, `AuthorizationNarrows`, `EveryGrantNarrows`, `EveryVerdictNarrows` | one per part, named for it |
| `RecordsProofs` | `AccessIsKept`, `DefinitionsStay`, `CheckpointsStay`, `FilesSurvive`, `HistoryIsAFeed` (the refinement of `EventFeed`), `ReplaysTell`, `DriversStay` | one per part, named for it |
| `EvidenceProofs` | `StorageStays`, `ShownIsWhatWas`, `PromptStays` | `StorageInv`; `TraceInv`, `SseInv`, `GradingInv`; `ContextInv` |

**Assumptions.** The modules' own (`StatesAssumption`, `PathAssumption`, `WalksAssumption`,
`NobodyAssumption`, `SessionAssumption`, `ControlAssumption`, `QueueAssumption`,
`FleetAssumption`, `InlineAssumption`, `ActionAssumption`, and those of the records and services): types of the
parameters, that the sets that are counted are finite, and that a value standing for "none"
is not one of the others. `WalksAssumption` is what the search of `RunStates` gives on the real
table: from an unfinished state every ending is reached, and only through unfinished states.
TLC evaluates all of them in the runs. Four theorems have a hypothesis besides:

* `OneSessionAtATime`: executions end within the lock's time to live (`~LockExpires`).
* `EndingsAreFinal`, `NobodyIsStranded`: the deployment of `inline`, for any number of threads,
  calls and crashes (`InOneProcess`: one process with the store in it, `~LockExpires`, no
  `restore`); the second also `~SetupFails`. With `restore` TLC finds the first violated: the
  walk from INITIALIZING to QUEUED goes through FAILED, and a hop of it that was read before
  the session wrote TIMED_OUT is accepted, because `advanceTo` does not raise the version.
* `OneWorkerExecutes`: executions end before their claim looks stale
  (`RunsOutliveClaims = FALSE`), and no call is a start, resume or retry. Without the first a
  sweep hands the run to a second worker (run `fleet_two_workers`); without the second
  `enqueue` frees the claim of the worker that is executing.

**`SavedNeverAhead`.** `saved <= row.version` is not inductive: persist
writes the row first, so what keeps the state from overtaking is what sessions hold in
memory. `SessionInv` adds `VersionsInOrder`: a session between the two writes holds a state
version no newer than the row, since the compare-and-set it just passed put the row there
and versions never go down; a session elsewhere has no state version of its own that it
could write; and `persist` never comes back to its own second half. `CallInv` adds that a
call's copy is never ahead of the row and that only start, resume and retry are dispatched.
`LifecycleProofs` proves that each step of a session or a call keeps these, once; the two
compositions add their own actions: dispatch, return and restart inline, claim, sweep,
release, enqueue, crash and shutdown in the fleet.

**`OneSession`.** `HeldByOwner`: whoever is between acquire and the
`finally` of `start` is the thread the lock names. Acquire sets it only when nobody holds
the lock, `finally` clears it only when the token is its own, a crash clears both sides.

**`FinishedMovesOnlyByRetry`, `NotStranded`.** `Composed` says where an iterating session is next
to the row. Inside the loop the two agree, in version, in status and in the version of the stored
state, so no write is refused and no exception comes from the store; at an ending they agree or
the row is QUEUED, because a retry, which needs no lock, requeued it between the two writes of
the ending. Then the next write is refused once, and what containFailure writes falls on QUEUED,
which is no ending. The writes that could reach an ending from outside are based on an older
read: `Hops` says that an operator's call at the row's version found nobody executing, and that
no hop but its last is to an ending; `Pending` the same of the row that a start or a retry is
about to write. `SomebodyMoves` is `NotStranded` for every moment: a status where a run cannot
rest belongs to a thread that iterates or a call that is hopping, and a session at its last
persist has left a status where it can.

**`BlindIsBounded`.** `BlindInv` relates the count of blind executions to the phase: it is
zero or about to end with the next write, but for the retries of the one recovery in progress.

**`OneExecution`.** `ExecutorsOwn`: whoever executes has the live claim in the row, and is
alone. What could break it are writes based on an older read, so `CopiesInStep` says of every
copy (a worker's, a call's, a session's) that it is behind the row or has the row's claim, and
that a worker about to claim or to sweep has read a row nobody held.

**`OneSessionIsCurrent`, `CurrentSessionHoldsClaim`.** Where executions outlive claims, two
threads may execute, for any attempts, calls, crashes and claims. `FenceInv` holds of every
behaviour: an iterating session's copy is at most at the row's version, and of those that were
told of nothing one at most has reached it, since each of them wrote that version. The rest is about sessions
that were refused a write and holds until the run is put back under a thread that is getting
it started (`undercut`): a *writer* is a thread that prepares a session under a claim it has just
won, or an iterating session whose copy reaches the row's version, counting the one version by
which `persist` may still raise it; after the first refusal it is handling the exception and
cannot raise it again. `OneWriter`: there is one at most. A claim is written only against a row
that nobody prepares or could write with success (`Fresh`), and it moves the row on; the new
session writes INITIALIZING before it iterates, which leaves the loser two versions behind.
`Backed` says that a writer has the claim, and that before the loop a session writes the row it
has just read. `InHand` says of the hops of an operator's call that they leave the claim with a
thread that is preparing. `Fenced` and `Readied` (`LifecycleProofs`) are the facts about a
single step of a session inside and before the loop.

**`UniqueKeyFences`.** "An effect at most once" needs to know who may cause
the next one. `Fence` adds: a key without an entry has had no effect; whoever is about to run
a key has an entry there and its effect is still outstanding; no two are about to run one
key. An accepted intent finds no entry, hence no effect and nobody about to run; after it the
entry is there for good. Everything else starts no item (`NoProgress`, `NobodyNewRuns`), and a
session's position moves only when its items are gone, so keys do not change under way. That
last part, and that keys are keys at all, needs `TypeInv`: an item belongs to a position below
`MaxCalls`, and a session has not retried more often than it has recovered.

**`GatedNeedsGrant`.** `Granted` adds: a record that says granted was
granted; the record about to be read exists; an item past the gate whose action the policy
always gates has its grant. Grants are never taken back, so cancellations and later denials do
not disturb it, and only `Lookup`, `Resolve` and the operators' writes have anything to show.

**`SettledIsNotRedone`, `AskedOnce`.** `Unsettled`: an item between its intent and its commit
finds the intent standing, nobody else commits that key, and with the embedded journal one
session is alive. `Asked`: who is about to create a request for a fingerprint is alone, and
there is none.

**Services.** `BullMqInv` counts the execution that a job still owes, so executions, debts,
stalls and forgotten records balance. `ProvidersInv` keeps failures below the breaker's
threshold while it is closed and adds who was passed over; `ServersInv` ties the offered tools
to the connection; `SandboxInv` the processes to the command's end. `GatewayInv`, `WavesInv`
and `LockInv` say who owns a slot, a worker, a token (handed out once, waiters listed);
`AdmissionInv` counts with the runs those that are about to be created. `RecoveryInv` bounds retries by
what was earned, `CallsInv` keeps an answer with the identifier it was sent under, `WebhooksInv`
the outcomes with the subscriptions. `PermissionsInv` and `PolicyInv` say that layers shrink and
that the default rules stay in front of the operators'; `EveryGrantNarrows` and
`EveryVerdictNarrows` prove the operators for all inputs, reachable or not.

**Records.** `LogInv` of the durable file: memory holds what the file gives, and a tear pays
for each loss, where a cut line at the end still owes one. `SnapshotInv`: blobs that are there
stay, and behind the walk a restore is exact. `CheckpointsInv`: above every checkpoint on a
prune's list there are enough newer ones. `RegistryInv` names the one set of definitions that
memory and rows share; `AccessInv` says that a request writes back a key that is there.
`EventsInv`: stored numbers are 1..n, an emitter holds at most the next one
(`NumbersAreTaken`), and a reader has seen everything up to its cursor (`CursorIsWhatWasSeen`);
with it each step of `EventHistory` maps to `Produce`, `Deliver`, `StartOver` or a stutter of
`EventFeed`. `ReplayInv`: what was told is told in order and what is executed was recorded.
`PageAfter`, `RecordedOutcomes`, `ElementsAt`, `LinesWithout` and `EmbeddedRead` are defined by rank,
not by `SelectSeq` or a sort, so that they can be reasoned about.

**`DriversStay`.** `Mirrored`: as long as no call was refused and nothing is in `apart`, the table is
the log row by row, each id is once in it, and slots are unique or in the order of the log where
the collection says so. It is not kept by a refused call: the theorem says nothing
of what follows one. A row that both have is replaced in both, because a log that would keep a
second copy has a table that refuses it (`SavesAgree`, over all eighteen collections). The versions of
an agent have one name in the log as in the table until one is renamed (`NamesStay`); a save that
is not in `SetsApart` writes the same row in both (`SetsNothingApart`); a search always is
(`SearchSetsApart`). A read
takes the places of the log by rank in the order of the sort (`ReadsInOrder`), and the order
of the Postgres query is the same, none, or that of a time which the log keeps to (`OrdersAgree`).

**Sums, folds and parses.** Most properties of `EvidenceProofs` compare a state with what an
operator computes from a whole sequence or set. The library's induction theorems take an operator
as a parameter, which no installed prover instantiates; their set forms can be stated and proved:
`LeastOf` (of some numbers there is a least), `PickedOneByOne` (finite sets), `OneLonger`
(sequences), `StepByStep` (functions that go through 1..n), each cited for one concrete predicate.

* `StorageStays`: a sum of sizes is the number of bytes (`SumOfSizes`: the set of pairs of a file
  and one of its bytes), so that a write, a move or a delete changes it by the one file
  (`OneFileCharged`). `StorageInv` adds that the batch's charge is on its way to what is saved.
* `ShownIsWhatWas`, the trace: the fold over the log with one event more is one step of the fold
  (`OneEventMore`); `TraceInv` says what the log may hold next to the records and to where the loop
  is: a record has its event, a thing ends after it began, a call that died is told by none.
* `ShownIsWhatWas`, the frames: `SseInv` says that what the browser holds is the parse of what has
  arrived, and that every beginning of the text parses to the messages of its whole frames. A parse
  of two pieces goes on from the parse of the first (`ParsesLater`), which is why cuts do not
  matter; a frame closes what it opens (`EventFrameIsFine`), which is why the rest reads on.
* `ShownIsWhatWas`, the grading: `ChecksTellTheFiles`: a verdict in the making is one of the
  files as they are; `EndsAreProven`, `ReadsStand`: the row ends on such a verdict, and what the bench has
  read of an ended run stands.
* `PromptStays`: `ContextInv` numbers the observations, in the run and in its checkpoint. The places that
  are kept and those that are dropped are all of them, each taken once and in order
  (`ElementsInOrder`: ranks count the places of a set), so nothing is lost or told twice; trimmed
  messages are the same ones, and what is cut of a summary is its end. A search is the first of a
  strict order by rank, so it leaves an entry out only when it is full (`SearchTakesTheFirst`), and
  a recall that is full asks the broader scopes for none (`AskingAdds`).

**`OrderStays`.** Of a batch, `OrderInv`: what has left the waves has settled, what is queued or runs
has had its dependencies settle; the waves shrink, because one that is ready leaves
(`WaveIsReady`, `LeftStays`). Of a plan, `PlanInv`: what is kept can be ordered. That a plan has a cycle
just when it has no order is `OrderHasNoCycle`, along a path ranks fall, and `OrderExists`:
place one step after the other; if none of the rest depends on placed steps only, walk from one to
one it depends on, more often than there are steps, and by the pigeonhole the walk comes back (`NoWayOut`).

**Only model-checked**, and why:

* Liveness (`EverythingSettles`, `ReadersArrive`, `EveryExecutionEnds`, `RunIsTakenUp`) and the
  violations: out of the prover's reach.
* `PathsAreSound`: it has no parameter, so the run decides it: the table is the code's, and all pairs of
  statuses are tried. Everything above takes the table as a parameter, and proofs use
  what `WalksAssumption` says of it.
* `RecordsTypeOK`: it says of a path what the recursive search returns; what the proofs need of the
  other types is in the invariants of the parts.

## 5. What the runs found

Five statements of the repository do not hold of the code; each has a run that shows the
shortest behaviour and an entry under `findings`.

1. **A cancelled run can become FAILED** (`fleet_cancel`). `persist` raises the version in
   memory before its conditional update (`packages/runtime/src/session.ts:228`). When the
   update is refused because another process cancelled the run, the session holds the
   cancelled row's version, and `containFailure` writes FAILED over CANCELLED.
2. **Two workers execute one run** (`fleet_two_workers`). A claim's time is written once
   (`apps/worker/src/queue.ts`), so a worker that is alive and slow loses its claim.
   `OneSessionIsCurrent` and `BlindIsBounded` say what is left of the guarantee.
3. **A decided approval wakes nobody in a fleet** (`fleet_decided`). The decision enqueues a
   claim on a row that stays WAITING, and `claim` lists no WAITING rows.
4. **An action of unknown outcome is done again** (`actions_uncertain`). The replay guard
   (`packages/executor/src/executor.ts:223`) looks for a committed entry, and the recovery
   engine's test for an uncommitted one comes after a failure. A process that dies between
   effect and commit leaves an intent; the resumed run executes the action again under the
   same key with the embedded journal. (With Prisma the unique index refuses the intent and
   the run fails: no second effect, but no human either.)

5. **A plan and its first step have one index** (`storage_agnostic`). The loop records both
   with index 0 (`packages/runtime/src/loop.ts:299`); the embedded driver keeps both, and under
   Postgres `@@unique([runId, index])` refuses the second.

Divergences met while modelling that are listed as hazards and in no run: the write of
`advanceTo` does not raise the version (a concurrent call can overwrite COMPLETED);
a `start` that fails to load its sandbox leaves INITIALIZING behind; `reserve` throws
between acquiring the lock and the `try` that releases it; a cancel raised while the run
parks at WAITING is forgotten; a configured worker id makes a restarted worker skip its own
stale claim; the count of retries in the key starts again after a crash, so a committed retry
is done again at the same position; with Prisma a repeatable action cannot be retried at all.

Modules also define properties that the repository states, or a reader would expect, and that
do not hold. Each is marked `Violated` with what happens instead, was seen violated
by TLC, and is in no run:

| Module | Property | What happens instead |
|---|---|---|
| `DurableLog` | `AckedSurvives` | the record appended after a torn line is lost with it |
| `EventHistory` | `EndedViewIsComplete` | the row is terminal before its last events are stored |
| `Checkpoints` | `ForkSeededFromItsCheckpoint` | a fork gets the parent's latest workspace |
| `WorkerFleet` | `OnlySweepsReclaim` | `release` writes a free claim over the row it reads (`queue.ts:154`), whoever holds the claim there: a worker that lost the run and fails at it puts it back while another one executes it |
| `Replay` | `SimulationChangesNothing` | `database.query` is on the list of what only reads (`replay.ts:239`), and runs any statement when it is called with `readonly: false` |
| `Replay` | `ReplayLeavesTheRunAlone` | actions are replayed in the run's own workspace |
| `WorkspaceFiles` | `StorageIsTracked` | what commands write is refunded when it is deleted |
| `TraceTimeline` | `NothingElseIsShown`, `ShownAsRecorded` | approvals shown twice; a recovery that was not applied shown as succeeded |
| `PromptContext` | `NothingIsDropped` | the summary of older observations is cut after 8,000 characters, and nobody reads the compression record |
| `PromptContext` | `PromptIsInBudget` | a prompt of recent observations is not trimmed |
| `PromptContext` | `RecallIsFull`, `NothingIsRememberedTwice` | a broader query asks for as many as are missing; the look for duplicates is not atomic |
| `AgentRegistry` | `VersionsAreImmutable`, `SerializeIsAFixedPoint` | two processes register one version differently |
| `ApiAccess` | `RevocationStaysAnywhere`, `ServingIsNotLockedOut` | the embedded driver keeps the record read before the revocation |
| `Gateway` | `WalkingAwayStopsTheUpstream` | nothing is stopped once the upload is complete |
| `McpClient` | `OneServerHoldsNobodyUp` | `listTools` follows cursors without a bound (`client.ts:127`), and `start` waits for every server (`manager.ts:86`) |
| `McpClient` | `NotInvokedIsTrue` | the call has been sent |
| `McpClient` | `ClosedLeavesNothingOpen`, `RefusedStartLeavesNothingOpen` | connections that are being made have no owner |
| `BullMqQueue` | `AskedIsHeard` | a second resume finds its job completed |
| `Sandbox` | `ReleaseLeavesNoContainer`, `KilledMeansDeadInside`, `EndedRunIsStill` | two containers are created and one is remembered; only the client of a command is killed |
| `Recovery` | `RunStaysInBudget` | a death loses what was counted and not saved |
| `ActionWaves` | `DependentsOnlyAfterSuccess` | what depends on a skipped action runs |
| `Admission` | `FullHouseIsServed` | the run that asks is counted among the active ones: at a limit every worker hands every claim back until an operator cancels |
| `Admission` | `LeftAfterRepeatedFailures` | a claim handed back by backpressure counts as an attempt |
| `Grading` | `EvidenceIsCurrent` | a verdict that passed outlives a session that died, and the next one edits on |
| `InlineDeployment` | `CancelTakesEffect` | a run that parks in the same iteration forgets the flag |

## 6. Not modelled

`components` in `PROJECT.json` gives the status of every part. Left out, and why:

* **Evaluation** computes statistics of finished runs; **CLI, pages of the dashboard, landing
  page** parse, render and call. They keep no state of a run.
* **`RetryEngine.run`** has no caller besides its own tests: the runtime takes delays from it.
* **Wire formats** (provider adapters, HTTP schemas, YAML): data, reduced to what the models
  tell apart. **Regular expressions** of the policies are the traits they look for.
* **More than one run**, except in `Admission`: the page limit of `claim`, fairness between
  runs, and the gateway's rate limiter.
* **Components together.** The sums do not interact. Where one part's answer is another's
  input it is a choice there: recovery's decision in `RunSession`, a policy's outcome in
  `ActionExecution`, a replayed action's effect in `Replay`.
* **Searches by words** in the memories of a database: the drivers match and rank differently
  (`prisma-store.ts:419`), so `StoreDrivers` compares the read by time, and `PromptContext` has the
  embedded ranking.
* **Failing reads** of a store, where nothing depends on them but the one call: among them the list of
  subscriptions for which a webhook is published (`apps/api/src/webhooks.ts:133`).
* **Left over from workspaces**: `WorkspaceManager.pruneExpired`, which no code calls.

## 7. The plan

1. *(done)* `RunStates`, `RunSession`, `RunControl`, `InlineDeployment`,
   `StoreQueue`, `WorkerFleet`; types, `SavedNeverAhead` and `OneSession` proved.
2. *(done)* `ActionExecution`: types, `UniqueKeyFences` and `GatedNeedsGrant` proved.
3. *(done)* The records and services above, with the refinement of `EventFeed`.
4. *(done)* The refinement of `EventFeed`; the invariants of access, definitions, checkpoints,
   files and replay; those of all services; `SettledIsNotRedone`, `AskedOnce`;
   of the fleet `BlindIsBounded`, `OneExecution`, `OneSessionIsCurrent`,
   `CurrentSessionHoldsClaim`; inline `FinishedMovesOnlyByRetry` and `NotStranded`.
5. *(done)* `StorageHolds`, `TraceHolds`, `OrderIsKept`, `PromptIsTheRunsOwn`, `DriversAgree`, with the
   inductions they rest on.
6. Open: the last properties under "Only model-checked", and interaction between records
   and services.
