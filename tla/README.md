# Cortex Hub: a TLA+ development

Cortex Hub is a self-hosted server for AI coding agents. Most of it is storage, search and
user interface. Its core logic is the **conductor**: a hub process that keeps a plan of tasks
in SQLite, hands them to worker processes over WebSocket, and takes them back when something
goes wrong. Beside it, the hub runs an **index queue** that keeps the vectors of each branch of a
project up to date, and a **gateway** to the model providers with a gate in front of it.

This development models the hub half of the conductor, the worker, the wire between them, the
run of one task on a worker's machine, the index queue and the gateway; it checks them with TLC
and proves their safety properties with TLAPS.

## 1. Inventory

All paths are below `apps/`; `api` stands for `dashboard-api/src`, `cw` for
`conductor-worker/src`.

| component | source | state | operations | hard behaviour |
|---|---|---|---|---|
| lifecycle | `api/conductor/lifecycle.ts` | `conductor_tasks` rows | accept, progress, complete, fail, reclaim, return, quota, decline, cancel, review, reroute | cascades over many rows in one transaction; late, repeated and foreign reports; commit, then pass |
| plan tree | `api/conductor/lifecycle.ts`, `tree.ts` | `parent_task_id`, `depends_on`, `kind` | completion chain, group check, gate rejection, cancellation of a subtree, tree creation | what is released and what is taken back; nested groups; cycles |
| dispatcher | `api/conductor/dispatcher.ts`, `files.ts` | none of its own but the `running`/`rerun` flags | dispatch pass, pull-mode pick | priority, file locks, route fallback, quota, failed sends in a running pass |
| registry | `api/conductor/registry.ts` | connections, reported status, last seen | add, remove, status, freed | replaced sockets, restart (all of it is in memory) |
| scheduler | `api/conductor/scheduler.ts` | none | tick: leases, offline workers, quota rows, pass | works through lists while each entry changes the rows |
| WebSocket handlers | `api/ws/conductor.ts` | none | register, restart settlement, task messages | who may say what about which attempt |
| REST routes | `api/routes/conductor.ts` | none | create, pickup, PUT, review, route, cancel, legacy strategy flow | the lead acts on tasks in other hands; legacy writes |
| worker | `cw/worker.ts`, `cw/state.ts` | one task slot; active task and unconfirmed outcome on disk; readiness | assigned, resumed, revoked, check, settle, recheck, stop | crash between outcome and confirmation; the next task before the last has stopped |
| hub client | `cw/hub-client.ts` | socket, registration, send queue (in memory) | send, reconnect, ping, close | loss and repetition around a reconnection |
| runner | `cw/runner.ts`, `cw/git.ts` | a worktree on a branch, one child process | prepare, set up, engine, tests, commit, push, save | any git step fails; aborts and crashes between any two; two machines on one branch |
| index queue | `api/services/indexer.ts`, `api/routes/indexing.ts`, `webhooks.ts` | `index_jobs` rows; the queue (in memory); two checkouts | request, look, fetch, clone, analyse, embed, docs, cancel, recover | skipping what is indexed; joining requests; killed children; restarts |
| embedding of a branch | `api/services/mem9-embedder.ts`, `packages/shared-mem9` | a Qdrant collection | open, list, write, drop what is stale | every call fails on its own; one collection for all branches |
| branch retention | `api/services/branch-retention.ts` | rows, points, the shared checkout | sweep | in the queue's place, while requests come in |
| embedding gate | `api/lib/embed-gate.ts` | slots, two lanes | run, hand over | limits, priority, a call that fails while others wait |
| gateway | `api/routes/llm.ts` | usage log | embeddings, chat | retries and fallback while earlier calls still run; order of vectors |
| notifications | `api/conductor/notify.ts` | notification rows | lead messages | once per change |
| knowledge, recipes, quality, usage, search | `api/services`, `api/routes` | rows | create, read, update, delete, query | little |
| MCP server, extension, dashboard | `hub-mcp`, `cortex-extension`, `dashboard-web` | none of the conductor's | translate to REST/WS | none |

How they interact: a message or a request runs one lifecycle step in one database transaction
(`settle`), then sends what it queued, marks the worker idle or busy, and calls `dispatch`. The
hub is one JavaScript process over a synchronous database driver, and no lifecycle step awaits
anything, so a step and its pass run without interleaving; several of them do interleave where
one handler makes several steps (a scheduler tick, a worker's registration), and a crash can
fall between any two. The workers learn of the outcome by messages that can be lost. The index
queue and the gateway do await: between two awaits of a job or of a request, requests, cancels,
sweeps and other calls come in. They meet in the embedder, which calls the gateway over HTTP; to
the queue that is one more call that may fail.

What makes each part correct, and where it can go wrong, is listed with source lines under
`hazards` in `PROJECT.json`.

## 2. Modules

| module | models | notes |
|---|---|---|
| `TaskStatus` | the statuses | `absent` is a row not yet inserted |
| `PlanTree` | the cascades of `lifecycle.ts` | pure operators from statuses to statuses |
| `Dispatcher` | `selectAssignments`, `pathsConflict` | pure predicate: is this the result of a pass |
| `Conductor` | rows, registry, handlers, tick, crash | the hub; extends the three above |
| `TaskLife` | what the hub promises of one row | abstract specification; `Conductor` refines it (`LifeSpec`) |
| `Worker` | `worker.ts`, `state.ts`, `hub-client.ts` | the worker processes and their sockets; on its own against a hub that says anything |
| `Fleet` | `Conductor` and `Worker` joined by the messages | composition: what the hub sends, what it does with a frame, how connections break |
| `Errand` | what hub and workers together promise of an attempt | abstract specification; `Fleet` refines it (`ErrandSpec`) |
| `TaskRun` | `runner.ts`, `git.ts` | the runs of one task on several machines |
| `BranchIndex` | `mem9-embedder.ts` and the collection | operators for the steps of an embedding |
| `IndexQueue` | `indexer.ts`, its routes, the sweep | the jobs of a project; extends `BranchIndex` |
| `EmbedGate` | `embed-gate.ts` | a gate as a record; a specification of its own for the proofs |
| `Gateway` | the routes of `llm.ts` | requests whose calls go through a gate; extends `EmbedGate` |
| `ConductorProofs`, `PlanProofs`, `PassProofs` | | TLAPS, the hub |
| `WorkerProofs`, `RunProofs` | | TLAPS, the worker and its runs |
| `FleetProofs` | | TLAPS, the hub and its workers together |
| `GateProofs`, `IndexProofs` | | TLAPS, the gate with the gateway, and the index queue |
| `MCPlan`, `MCReroute`, `MCCycle`, `MCRestart`, `MCDispatch`, `MCFleet`, `MCMachine`, `MCServices` | instances | one to three `.cfg` each |

### Conductor

| variable of `Conductor` | in the code |
|---|---|
| `status`, `holder`, `attempt`, `lease`, `last`, `route`, `fails`, `rejects`, `escalated` | columns `status`, `assigned_to_agent`, `attempt`, `lease_expires_at` (none, ahead, past), `last_agent`, `current_route`, `fail_count`, `reject_count`, `escalated_at` |
| `declined`, `pulled`, `failedAt` | `context.declined`, `context.pull`, `context.failedRoutes` (`failedAt[t][r]` is the attempt whose failure put `r` in the list last, which gives the same order) |
| `deps`, `files`, `chain` | `depends_on`, `files`, the route and its fallbacks |
| `conn`, `stat` | an agent's connection: away, away past the offline limit, open, registered; and its reported status |
| `quota` | `conductor_quota`: no row, a row in force, a row past its reset |
| `owed` | the pass that follows the last commit is still to come |
| `todo`, `stage`, `shunned` | the list a tick or `settleRestart` works through; which list; the agents whose send failed in this `dispatch` call |

A handler is two steps, its commit and its dispatch pass, because a crash can fall between them.
`Quiet` says that no handler is running; every message, request and tick starts only then, which
is the run-to-completion of the event loop. `TickLeases`, `TickOffline` and `TickEnd`, and
`Register` and `RestartEnd`, frame a list; `SettleNext` takes one entry of it, in any order, and
is followed by its own pass. `Dispatch(pick, lost)` is one pass, for any result `pick` that
`selectAssignments` may give and any set `lost` of pushes that fail; those tasks are back in
`pending` with the attempt spent, and one more pass is owed. Time is three actions
(`LeaseExpires`, `GoneLong`, `QuotaResets`).

The cascades are written in closed form. The code walks from a finished child to its parent and
upwards while groups close; `Closed(st, t)` is the set of groups that walk closes, by the path
`Above[t]`, so no operator is recursive and all of it can be used in proofs. `Return` keeps the
one thing the order of the code's loop decides: a gate's dependencies are sent back one by one,
and a later return blocks what an earlier one has just made pending (`pos` is that order).

On its own, `Conductor` has workers, sessions and the lead as an **open environment**: any agent
may send any message about any task and any attempt at any time. What the hub guarantees is thus
shown whatever a worker does, including one that repeats, delays or invents reports.

Abstractions:

* Whether a worker could run a task on a route at all (project, pin, capabilities, engines,
  protocol) is the constant `CanRun`; priorities and creation order are the constant `Rank`.
* An agent stands for a host of its own, so quota is kept per agent and route.
* `parent_task_id` is fixed at creation (`PUT parentTaskId` is not modelled), and a parent is a
  group: `work` with children is the legacy flow.
* The two lead channels are one: the rule that a `user` gate is approved only from the dashboard
  is about who asks, not about the state.
* A socket that is closing but not closed counts as a failed send.
* Wait reasons, logs, texts, handoffs, results and notifications are left out.

### Worker and Fleet

| variable | in the code |
|---|---|
| `slot` | `Worker.current`: task, attempt, being checked or run, and whether it was aborted |
| `active`, `unconf`, `unready` | `Worker.state` in memory: `activeTaskId`, `unconfirmed`, and `notReady` with its recheck timer |
| `disk`, `unsaved` | what the state file holds of the first two; whether the last write failed and left something else there |
| `queue` | the messages `sendReliable` keeps until a connection is registered |
| `sock`, `reg` | the client's socket (none, open, ending) and whether it was told `registered` |
| `stopping`, `broken` | a stop is under way; the machine lacks something a check looks for |
| `up`, `down` | what is under way on the connection |

`Worker` has one action per handler and per moment at which its `execute` continues: a check ends
(refused, not ready, aborted, accepted), a run ends with an outcome, a decline or an abort.
A handler changes the state in memory, and a step of a worker is that change together with what
`update` makes of the file (`Filed`): all of it is written, or the write fails, which the code logs
and goes on (`worker.ts:462`). The writes of one handler fail or succeed together. A new process
starts with what is on `disk`, so a crash between a message and the write that follows it (a decline
is sent before the task is cleared) is a failed write and a crash. A connection delivers in order until it breaks and
then loses what is behind some point, on each side separately; either side may notice first.

`Fleet` takes the writes of the state file to succeed (`OnFile`): with a failed one, an outcome that
was sent, lost with the connection and not on disk is forgotten in a crash, and the attempt is run
again, which `Errand` rules out. It takes every hub step of `Conductor` and adds what it sends (`Tell`: at most one task
leaves or reaches a worker in one step, by `OnePushedTask`), and every frame of a worker is read
by the hub's handler for it (`Handles`). `task.accept` and `worker.register` name no attempt, as
in the code.

`Errand` says what remains when the telling and retelling is left out: an attempt is handed out,
begun perhaps several times, has at most one outcome, and that outcome is taken in at most once,
while the attempt is the newest. `Fleet` maps to it with two history variables, `produced` and
`taken`.

### TaskRun

A commit is the piece of work that an engine made; a branch is a set of commits, and origin takes
only what contains all it has (`PushBranch`). `tree`, `dirty`, `local` are a machine's worktree,
its uncommitted work and its branch; `run` is where `execute` is; `made` is a history variable.
A machine may start a run of the task while another still saves the work of a run that was taken
back. Every git command may fail; the process may die between any two. A worktree that lacks commits
of origin is given up for a new one if it is clean (`GivesWay`), and the run fails if it is not. The
engine makes files and no commits: its prompt forbids it to commit (`prompt.ts:19`), and one that
does so nevertheless is not modelled.

### IndexQueue and BranchIndex

`jobs` are the rows of `index_jobs` in their order; `waiting` and `run` are the queue, which a
restart forgets; `checkout` is the commit in the project's own directory (for the default branch)
and in the one that all other branches share; `remote` is the git server. A job is one action per
awaited step; `CheckedOut` records the commit, or does not when git could not say. A cancel kills
the child of the step that runs, and `runCommand` takes the missing exit code for 0, so a killed
step goes on as a successful one (`killed`), with the checkout wherever the skipped steps left it
(`Reached`); a `git checkout` killed half-way is taken to leave the old tree. A checkout without
source files ends the embedding at once (`HasSources`). A collection without sparse vectors, or of
another size after `ModelSwitched`, is built again, refused, or lost between the two calls that
delete and create it; a switch to a model of the same size, and one back, are not modelled. `points` are pairs of a branch and a chunk: the id
of a point is derived from them, so writing one twice changes nothing. `whole` and `short` are
history: the commit a branch was last whole at, and the branches that a failure left short.

### EmbedGate and Gateway

A gate is a record of who holds its slots, of two counters as the code keeps them, and of the two
lanes; its operations are operators from gates to gates. `Gateway` has the chain of providers per
request, batch calls, calls per text, retries and fallback. A call that the request no longer
waits for goes on holding its slot until it ends.

## 3. Runs

| run | module, cfg | instance | shows |
|---|---|---|---|
| `plan` | `MCPlan` | two nested groups, three tasks, two gates, one of them over both groups, a review, a restart | the cascades, in every order, and that each row keeps to its life |
| `reroute` | `MCReroute` | a group, three tasks, a gate; dependency patches | the same under changing dependencies, and no waiting cycle as long as no finished work is sent back |
| `cycle` | `MCCycle` | two tasks with a gate each | **finding**: a waiting cycle |
| `restart` | `MCRestart` | a worker, a session, two tasks; one hub restart | types, the life of a row, attempts, one pushed task per worker, lists |
| `live` | `MCRestart`, `MCLive.cfg` | the same, fair, with failures, quotas and a task that may carry the flag of a pull-mode claim | leases end, vanished workers lose their tasks, runnable tasks are offered |
| `dispatch` | `MCDispatch` | two tasks on overlapping paths, two routes, two workers, one of them on one route only | locks, refusals, escalation, failed routes last, no missed pass |
| `fleet` | `MCFleet` | one worker, one task, two attempts, every message between hub and worker; two faults or expiring leases | the attempt's errand, and that neither side forgets what the other counts on |
| `fleetlive` | `MCFleet`, `MCFleetLive.cfg` | the same, fair, without leases | an attempt that was handed out comes back by itself |
| `busyview` | `MCFleet`, `MCBusy.cfg` | the same, a machine that is not ready | **finding**: an idle worker counted as busy for ever |
| `machine` | `MCMachine` | a worker against a hub that says anything, with failed writes of its file; or three runs of a task on two machines | the state file tells the truth; work is not lost |
| `lostwork` | `MCMachine`, `MCLostWork.cfg` | the same | **finding**: committed work that is not on origin disappears |
| `services` | `MCServices` | an index queue of two branches and three jobs, with a commit that has no source files; or a gateway with a search and a re-index of two and one texts; or with a chat | what is skipped, dropped and joined; the gate; the answers; everything ends |

What the properties mean is said above each in its module. Some need a word on what they leave out:

* `IndexedBranchIsWhole` does not speak of branches in `short`: those with a chunk that could not
  be written or deleted, those whose points a sweep has dropped and whose rows it has not, and those
  whose points went with a collection built again. Nor does it speak of a branch whose newest job is
  at a commit without source files. For all of them the code's own status can say `done` too early
  (divergences 4, 5 and 9 below).
* `NeverHalfEmpty` speaks of a branch since it was last whole: a sweep and the rebuilding of a
  collection empty a branch on purpose and start anew.
* `RunIsOnFile` speaks of a state file whose last write succeeded; `OneTaskOnFile` of any
  (divergence 10).
* `OwnWorkKept` is stated where a run begins: it finds in its worktree, or on origin, all that the
  run before it on this machine made. It excepts a clean worktree that gives way because another
  machine has pushed: the commits in it that were never pushed are lost (divergence 11).

### Bounds

* `MaxAttempt` (1 or 2): a task on that attempt is not handed out again. Two attempts are what
  escalation, a stale report, a repeated reclaim and a remembered failed route need.
* `MaxCrashes` (0 or 1): hub restarts. What a restart loses does not depend on the one before.
* `Inputs`: the messages a run explores. Between them the passing runs explore all of them; a run
  leaves out what does not bear on its question, to keep the rest exhaustive.
* `OneOfEach` in `MCDispatch`: one refusal, one quota and one worker that calls itself busy at a
  time.
* `MaxFaults` (1 or 2), `FewFaults`: in `fleet` two faults of the worker process, its machine, the
  connection or the hub, and leases that expire while nothing else has failed; two are the least
  in which the second meets what the first has left. Failed writes of the state file are not counted. `MaxWire` bounds only what the open hub of
  `machine` may have under way.
* `MaxRuns` 3 and two pieces of work: an attempt that leaves something, one that finds it, one
  that comes after.
* `MaxJobs` 3, `MaxMishaps` 1, two commits per branch: a job, one that waits behind it, and one
  more for what the first left; one failure, cancel, restart, branch that goes or model that is
  switched. The safety
  properties of the queue were also run with two mishaps (1.6 million states).
* `Retries` 1 (2 in the code), two provider slots, a gate of two: a call of an earlier attempt
  still runs while the next waits.
* Two workers and two tasks are the least that contend for a file and for a worker; nesting of
  two groups is the least in which a walk goes on after a group, and in which a reopened group has
  a group over it. The proofs cover all other sizes for the properties they name.
* `machine` uses symmetry over machines and pieces, which the module treats alike; no liveness is
  checked there.

`fleet`, `fleetlive`, `busyview`, `machine`, `lostwork` and `services` do not check for deadlock:
their bounds on attempts, runs, jobs and requests are a real end.

### Fairness

`FairSpec` (run `live`) asks that a handler that has begun goes on (the event loop; weak fairness
of `HandlerStep`), that the timer's tick gets its turn (`setInterval` of `scheduleConductor`;
strong fairness of `TickLeases`, which is enabled whenever no handler is running, and every
handler ends) and that a tick goes through its three lists (weak fairness; they run in one call).
Nothing is assumed of workers, the lead or the network: no agent need ever answer or come back.

`FleetFairness` (`fleetlive`, `busyview`) adds the worker's event loop: frames are read, a check
and a run end (both have time limits), a socket that is over is noticed (ping timeout) and opened
again (the backoff timer), the recheck timer fires; and that whoever runs the machine repairs it.
Nothing is assumed of crashes, broken connections or the lead.

`QueueFairness` asks that what a job awaits ends: git and analysis are child processes that are
taken to end, calls to Qdrant end with the default time limit of `fetch`, and provider calls carry
an `AbortSignal`. `GatewayFairness` is the same for provider calls and the pauses between attempts.
Neither assumes that anything succeeds.

### Findings

1. `rerouteCycle` looks at unfinished rows only. A gate can make finished rows wait again, and two
   tasks then wait for each other (`cycle`).
2. A worker that declines as busy, because its machine was not ready, is counted as busy until it
   says idle, and only its recheck timer makes it say so. A connection that breaks while the task is
   checked has it checked twice; if the machine is repaired in between and the second check
   refuses for another reason, nothing says idle (`busyview`).
3. `saveWip` returns when there is nothing to commit, without asking whether the branch has
   commits that origin lacks. Commits of an earlier run whose push failed are then given up with
   the worktree and lost when the branch is started again from origin (`lostwork`).

### Other divergences met on the way

These are visible in the models, where the code is modelled as it is, but have no run of their own.

1. `reclaimOffline` skips tasks with `context.pull`; the flag is set by a pull-mode claim and never
   cleared. Once such a task has been reclaimed and pushed to a worker that is gone, it waits for
   its lease instead (`api/conductor/scheduler.ts:83`).
2. `createTree` attaches a part of a plan under any group that exists, a completed one too. The
   group stays completed over the new work (`api/conductor/tree.ts:181`).
3. `worker.register` and `task.accept` name no attempt. After a fault, a worker on an old attempt is
   resumed at the new one (`GhostOnlyAfterFault` says that it takes a fault), and a late acceptance
   marks the next attempt accepted, so that its loss counts as a failure.
4. An embedding in which some chunks failed ends as `done` when anything was written
   (`api/services/mem9-embedder.ts:612`). The next unforced job of the same commit is skipped,
   while the comment at line 586 leaves what is stale to "the next run".
5. A count of other branches' points that fails is taken for 0, and a collection without sparse
   vectors is then built again over their points (`mem9-embedder.ts:385`). A crash between the
   two deletes of a sweep leaves a branch that looks indexed and is empty
   (`branch-retention.ts:288`), and so does a delete that was done and whose answer is lost. When a
   collection is deleted to be built again and cannot be created (`vector-store.ts:97`), the rows of
   the other branches stay as they were.
6. `runCommand` gives 0 for a child that was killed (`api/services/indexer.ts`, `code ?? 0`), so a
   running job that is cancelled goes on and ends as `done`.
7. An OpenAI-compatible reply with indices and a gap in them passes the check for completeness,
   because `every` skips holes (`api/routes/llm.ts:432`). `AnswerFromOneSlot` allows a missing
   vector, not a wrong one.
8. Two starts of a worker over the same stale pid file can both claim it
   (`cw/commands/daemon.ts:92`); not modelled.
9. An embedding of a checkout without source files ends as `done` before it looks at the collection
   (`mem9-embedder.ts:317`): the branch keeps the points of the commit before, and its row says that
   the new one is embedded.
10. A failed write of the worker's state file is logged and the handler goes on
   (`cw/worker.ts:462`), while the comments at lines 296 and 331 count on it: a task can be accepted,
   and an outcome sent, that a restart does not know of.
11. A worktree kept because its push failed is replaced at the next run when it is clean and another
   machine has pushed meanwhile (`cw/git.ts:339`), and its commits are lost, while the comment at
   `cw/runner.ts:147` says that it is kept so that a retry finds it again.

## 4. Proofs

All theorems hold for every value of the constants that meets the named assumptions of the
modules: any finite set of tasks, workers and branches, any tree, any input set, any bound. In
`PlanAssumption` a tree is a finite forest: `Above` is the path from a task to its root. The facts
about paths that would take an induction over the tree (a path contains the paths of its members,
its members are comparable, each has a child on it) stand in the assumption, because induction is
out of the prover's reach; TLC evaluates them on every instance.

`ConductorProofs`:

* `TypeCorrect`: the type invariant, which is inductive as it stands.
* `HubImplementsLife`: `Spec => LifeSpec`. Every step of the hub maps, for each row, to one step
  of `TaskLife` or to none. It rests on what the tree operators do to one row (`CompleteRow`,
  `CancelRow`, `ReturnRow`) and on what a pass may hand out (`PickFits`).
* `HolderAndLeaseHolds`, `EscalationHolds`, `AttemptSettledOnceHolds`, `DeclinedHolds`: proved of
  the abstract life by an invariant, `LifeInv`, their conjunction with the fact that gates and
  groups never run; then of the hub through the refinement. The conjunction is needed because the
  bound on attempts stands on the holder and the status, and escalation on both counters.
* `LocksExclusiveHolds`: assumes that no reroute rewrites `files`, for a reroute of a task in
  review can. A pass keeps the locks because its picks are ordered by rank and each sees the ones
  before it (`PassOrder`).
* `OnePushedTaskHolds`: a pass gives work only to agents without an active task, and at most one
  task to each.

`PlanProofs`. `StatusStep` says what a step may do to the statuses as a whole: nothing, a move of
work alone, a completion with its chain, a cancellation, a return by a gate, a creation or a
reroute. Each of the theorems then looks only at those cases.

* `NoLostUnblockHolds`: inductive as it stands. The chain unblocks whatever a completion leaves
  without open dependencies, a group closed on the way included; a return blocks again only what
  has lost one.
* `GateStandsHolds`: a pending gate with an unfinished dependency can only come from a return that
  has not blocked it, and `Return` blocks whatever depends on a returned task or on a group that
  reopened with it.
* `FinishedHolds`: an action property, by cases on `StatusStep`.

* `GroupsFollowHolds` assumes `WholePlans`: a plan is created in one call, for a part added later
  can break it (divergence 2). The argument follows the walk upwards: a group closes exactly when
  its last open child does (`Closed`), so the lowest group on a path that does not close still has
  an open child; after a return the groups above the returned task are open, each with an open
  child on the path. The lowest group on a path exists because the set is finite.
* `NoWaitCycleHolds` assumes the same, that no call creates a plan that waits for itself
  (`PlansAcyclic`, which `createTree` checks of its own tasks), and that no gate is rejected: finding
  1 is the cycle that a rejection can close. A cycle is a set of unfinished tasks that each wait for
  another one of the set. Unfinished tasks only become more by a creation, whose tasks nothing waits
  for yet; waiting only becomes more by a reroute, and a set that it closes contains the rerouted
  task and can be reached from it, which is what `ClosesCycle` looks for.

`PassProofs`. `Handlers` divides the steps into those that end with a pass to come, those without
one, and those of a tick, a registration or a crash.

* `ListStaysTrueHolds`: the invariant adds that the list has one entry per task and is empty
  between handlers; a pass touches pending tasks only, and no message comes in between.
* `FailedRoutesLastHolds`: by `PickChosen`, what a pass picks is a choice the walk has, on a route
  it tries.
* `NoMissedDispatchHolds`: the invariant is that while the hub is quiet no worker is free for a
  ready, unlocked task on a fresh route. A step without a pass frees nobody (`SilentMissesNone`).
  After a pass (`PassMissesNone`), a free worker and a free task would have been free when the walk
  came to the task, so the walk had a choice: the earliest fresh route with a free worker. That
  there is an earliest one (`Least`) comes from the well-foundedness of finite subsets.

`WorkerProofs`. `RunStaysOnFile` and `FileNamesOneTask` hold against a hub that may say anything
and whichever writes fail. The invariant has two parts. In memory, a task that is run is the active
one, and no outcome is kept beside it: every handler that changes the slot changes the state in the
same step. Of the file (`DiskInv`): unless the last write failed it holds what memory holds, and it
never names a task beside an outcome, since it is always a state that memory once had (`WriteKeeps`). The two part
ways at a restart only, where memory is read from the file (`Loadable`).

`FleetProofs`. The hub and the workers share no state but the messages, so everything rests on what
the two ends of a connection may believe of one another. `FleetMoves` reduces the 20 kinds of steps
of the composition to three: hub and workers talk, connections come and go, one worker acts alone;
`HubHandsOver` and the lemmas of `WorkerProofs` named `...Moves` say what each does to the wires.
A worker *knows* an attempt when it has it in its slot, keeps its outcome, or it is offered on the
wire (`Knows`).

* `GroundInv`: types, the hub's and the workers' own invariants, and `LinkInv`: a connection that is
  open but not registered carries at most revocations of tasks its worker no longer holds, and a
  registration under way is the only frame of its connection.
* `Named`: an attempt is known to one worker at most, which for the current attempt is its holder.
  Only the hub teaches a worker an attempt, and only one that it holds or has just been given.
* `SoundInv`: an attempt is offered for the first time once, and not resumed behind what overtakes it
  (`InOrder`); of the attempt the hub counts as a worker's, nothing that takes the worker off it comes
  behind its offer on the wire, or is on the wire at all once the worker has it (`Wanted`); an attempt
  with an outcome is not taken up again, and its outcome is kept while the hub counts on it (`Over`).
  This is where the order of a connection matters, and that the hub revokes what it takes back before
  it gives the next. `NothingUnconfirmedDroppedHolds` follows.
* `BookInv`: an outcome in the queue or on the wire is one that was produced; an attempt whose
  outcome was taken is no longer current. From it `FleetTypeCorrect` (the histories are nested) and
  `FleetRunsErrands`: every step of the fleet is a step of `Errand` or none, over any set of
  workers, with faults of any kind and number.
* `KeptInv`: a registration under way names the task whose outcome its worker keeps or whose attempt
  it holds (`Declared`), so what the hub then charges as failed is known to no worker
  (`Charged`) and stays unknown while the list is worked off. Hence `KeptOutcomeCountsHolds`.
* `TraceInv`: what the hub believes to be with a connected worker can be traced (`Tracked`): it is
  in the slot, offered on the wire, reported on the way back or in the queue, or on the list of a
  restart that will settle it (`Found`). That needs that only revocations of what was taken back, or
  the worker's own exit, abort a run (`AbortOK`), and that a worker the hub has registered hears so
  before it hears of any task (`Answered`). With nothing in flight only the slot is left, which is
  `NoLostTaskHolds`.
* `CalmInv`, of a fleet in which nothing has failed yet: a connection once open stays so, no worker
  comes back with a task, and no task is resumed or failed for a lost worker (`LinkCalm`); so an
  attempt the hub no longer counts as a worker's is chased by its revocation, which stands behind
  the offer on the wire, until the run is aborted, and a worker that reported an outcome is past
  its attempt (`TaskCalm`). Hence `GhostOnlyAfterFaultHolds`. The condition cannot be dropped: a
  worker that comes back with an old attempt is resumed at the new one (section 3).

`FleetRunsHub` states what `GroundInv` gives for the hub: joined to its workers it takes only steps
of `Conductor`, so the theorems of `ConductorProofs`, `PlanProofs` and `PassProofs` hold in the
composition.

`RunProofs`. The invariant follows the work of a run from place to place: it is uncommitted until
the commit, on the local branch until the push, and what a settling run has not pushed lies in a
worktree it keeps, where the next run finds it (`WorkIsWhere`, `EndIsSafe`, `TreeHolds`). From it, `UncommittedWorkSurvives`,
`OwnWorkStays` and `CompletedRunsPushed`. Steps of other machines matter only through origin, which
only grows: a push is a fast-forward (`OthersStay`).

`GateProofs`. Of a gate that any calls may enter and leave at any time: `GateIsSafe` (the counters
count, the limits hold, no call waits beside a slot it could have) and `QueriesGoFirst`. The
invariant adds that a call waits once and does not hold a slot meanwhile; the two loops of
`handOver` are taken as the number of calls they let in, and what is left when they end.
`AnswersHold`, of the gateway: what a request has collected is of the slot it asks now (`AnswerInv`),
since it drops what it has when it goes on to another. It assumes that there is at least one slot;
with none a request has nothing to ask.

`IndexProofs`. `SkippingIsSafe`, `BranchesStayWhole` and `PushesAreAnswered`, from one invariant,
`IndexInv`. Jobs start in the order of their rows (`QueueOK`, `RunOK`), so the job that runs is the
newest that ever began, its branch's newest row is its own, and what the rows say of other branches
it does not touch. While a job looks whether it may be skipped, the row before it still speaks for
the branch (`Looking`); from then on its own row does, and claims nothing until the embedding ends
(`StageOK`); a row claims something (`Claims`) only of a commit with source files. While it writes, what the commit needs is stored or still to be written, and what else
is stored is stale (`WriteOK`), so that dropping the stale points at the end leaves exactly the
commit. What was asked of a branch waits, or its newest job answers for it (`OwedFor`). `Ready` is
the part that holds between two jobs, which is what one job hands to the next.

Every invariant and every action property of a passing run has a theorem. Only checked by TLC is
liveness, which is out of the prover's reach (`ExpiredLeaseEnds`, `GoneWorkerLosesTask`,
`OfferedInTheEnd`, `AttemptComesBack`, `QueueComesToRest`, `RequestsEnd`). No theorem
needs an induction over data, and no module with a theorem reaches a recursive operator.

## 5. Plan

Done: the hub core, its abstract life and theorems for all its safety properties; the worker, the
wire and their composition with the hub, with the refinement of `Errand` and all safety proved; the
run of a task; the index queue, the embedding of branches, the sweep, the gate and the gateway.

Left, in order:

1. Files rewritten by a reroute while a task is in review (whether `LocksExclusive` is meant to hold
   then).
2. The legacy flow: statuses written past the lifecycle, work parents, `awaitsSubtasks`.
3. Notifications: a change is told once. Wait reasons and their notices belong to the same module.
4. The daemon commands of the worker (pid file, stop file), and the change feed of `webhooks.ts`,
   whose cursor has the granularity of a second.
5. The knowledge services: evolution of documents and capture of recipes.

## 6. Not modelled

See `components` in `PROJECT.json`. In short: the legacy strategy flow and notifications
(planned); the adapters of the worker to engines, git hosting and the operating system (what they
answer is a choice in `Worker` and `TaskRun`); chunking, scores and hybrid search, which are
numeric; the formats of the providers; an embedding that outlives its time limit of an hour before
its first chunk; the rest of the hub, which is single-row storage, proxies and queries, and the
dashboard, the extension, the MCP server and the scripts, which keep no state of the conductor and
have none of the concurrency that would make a model worth its lines.
