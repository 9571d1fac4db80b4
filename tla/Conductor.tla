----------------------------- MODULE Conductor ------------------------------
(***************************************************************************)
(* The hub half of the conductor: the conductor_tasks rows                 *)
(* (lifecycle.ts), the registry of connections (registry.ts), the dispatch *)
(* pass (dispatcher.ts), the scheduler tick (scheduler.ts) and the         *)
(* handlers that drive them (ws/conductor.ts, routes/conductor.ts).        *)
(*                                                                         *)
(* The hub is one JavaScript process over a synchronous database: a        *)
(* handler runs to its end before the next begins.  A handler is a         *)
(* committed step followed by a dispatch pass; a crash can fall between    *)
(* the two, so they are two actions, and `owed` says that the pass is      *)
(* still to come.  A tick and a worker's registration settle a list of     *)
(* tasks one by one, with a pass after each: `todo` and `stage`.           *)
(*                                                                         *)
(* Agents and the lead are an open environment: any message, at any time,  *)
(* naming any attempt.                                                     *)
(***************************************************************************)
EXTENDS PlanTree, Dispatcher

CONSTANTS
  NoAgent,         \* a null assigned_to_agent
  Protocol2,       \* the agents that are conductor-worker processes
  ReviewRequired,  \* the tasks with review_required = 1
  InitDeps,        \* depends_on, files and route chain as created
  InitFiles,
  InitChain,
  PullableBy,      \* PullableBy[t]: who may claim t in pull mode (pin, executor, capabilities)
  Batches,         \* the sets of tasks created in one call
  DepPatches,      \* what a reroute may write into depends_on, files and the route chain
  FilePatches,
  ChainPatches,
  MaxAttempt,      \* bound: a task on this attempt is not handed out again
  MaxCrashes,      \* bound: hub restarts
  Inputs           \* the inputs a run explores

AllInputs ==
  {"accept", "progress", "complete", "review", "fail", "quota", "decline", "busy", "status",
   "pull", "rest", "leadcomplete", "leadfail", "approve", "reject", "rejectgate", "cancel",
   "reroute", "close", "lease", "gone", "quotareset", "tick", "sendfail"}

ASSUME ConductorAssumption ==
  /\ NoAgent \notin Agents
  /\ NoRoute \notin Routes
  /\ Protocol2 \subseteq Agents
  /\ ReviewRequired \subseteq Tasks
  /\ Rank \in [Tasks -> Nat]
  /\ \A t, u \in Tasks : Rank[t] = Rank[u] => t = u
  /\ CanRun \in [Tasks -> SUBSET (Agents \X Routes)]
  /\ Under \subseteq Files \X Files
  /\ InitDeps \in [Tasks -> SUBSET Tasks]
  /\ InitFiles \in [Tasks -> SUBSET Files]
  /\ InitChain \in [Tasks -> Seq(Routes)]
  /\ PullableBy \in [Tasks -> SUBSET Agents]
  /\ Batches \subseteq SUBSET Tasks
  /\ DepPatches \subseteq SUBSET Tasks
  /\ FilePatches \subseteq SUBSET Files
  /\ ChainPatches \subseteq Seq(Routes)
  /\ MaxAttempt \in Nat
  /\ MaxCrashes \in Nat
  /\ Inputs \subseteq AllInputs

EscalateAt == 2

\* Mutant: off by one.
EscalatesLate(n) == n > EscalateAt

\* escalate(): the counter has reached the limit.
Escalates(n) == n >= EscalateAt

VARIABLES
  \* conductor_tasks
  status, holder, attempt, lease, last, route, fails, rejects, escalated,
  declined, failedAt, pulled, deps, files, chain,
  \* the registry: each agent's connection and its reported status
  conn, stat,
  \* conductor_quota, by host and route
  quota,
  \* the handler that is running
  owed, todo, stage, shunned,
  crashes

settings == <<deps, files, chain>>
counters == <<attempt, fails, rejects, escalated>>
history  == <<last, route, declined, failedAt, pulled>>
rows     == <<status, holder, lease, counters, history, settings>>
registry == <<conn, stat>>
handler  == <<owed, todo, stage, shunned>>
vars     == <<rows, registry, quota, handler, crashes>>

TypeOK ==
  /\ status \in [Tasks -> Status]
  /\ holder \in [Tasks -> Agents \cup {NoAgent}]
  /\ attempt \in [Tasks -> Nat]
  /\ lease \in [Tasks -> {"none", "running", "expired"}]
  /\ last \in [Tasks -> Agents \cup {NoAgent}]
  /\ route \in [Tasks -> Routes \cup {NoRoute}]
  /\ fails \in [Tasks -> Nat]
  /\ rejects \in [Tasks -> Nat]
  /\ escalated \in [Tasks -> BOOLEAN]
  /\ declined \in [Tasks -> SUBSET Agents]
  /\ failedAt \in [Tasks -> [Routes -> Nat]]
  /\ pulled \in [Tasks -> BOOLEAN]
  /\ deps \in [Tasks -> SUBSET Tasks]
  /\ files \in [Tasks -> SUBSET Files]
  /\ chain \in [Tasks -> Seq(Routes)]
  /\ conn \in [Agents -> {"off", "gone", "open", "ready"}]
  /\ stat \in [Agents -> {"idle", "busy"}]
  /\ quota \in [Agents \X Routes -> {"none", "live", "past"}]
  /\ owed \in BOOLEAN
  /\ todo \subseteq [task : Tasks, attempt : Nat, agent : Agents \cup {NoAgent},
                   op : {"reclaim", "return", "fail"}]
  /\ stage \in {"idle", "restart", "leases", "offline"}
  /\ shunned \subseteq Agents
  /\ crashes \in Nat

Init ==
  /\ status = [t \in Tasks |-> "absent"]
  /\ holder = [t \in Tasks |-> NoAgent]
  /\ attempt = [t \in Tasks |-> 0]
  /\ lease = [t \in Tasks |-> "none"]
  /\ last = [t \in Tasks |-> NoAgent]
  /\ route = [t \in Tasks |-> NoRoute]
  /\ fails = [t \in Tasks |-> 0]
  /\ rejects = [t \in Tasks |-> 0]
  /\ escalated = [t \in Tasks |-> FALSE]
  /\ declined = [t \in Tasks |-> {}]
  /\ failedAt = [t \in Tasks |-> [r \in Routes |-> 0]]
  /\ pulled = [t \in Tasks |-> FALSE]
  /\ deps = InitDeps
  /\ files = InitFiles
  /\ chain = InitChain
  /\ conn = [a \in Agents |-> "off"]
  /\ stat = [a \in Agents |-> "idle"]
  /\ quota = [p \in Agents \X Routes |-> "none"]
  /\ owed = FALSE
  /\ todo = {}
  /\ stage = "idle"
  /\ shunned = {}
  /\ crashes = 0

-----------------------------------------------------------------------------
(* Parts of a step.                                                        *)

\* Mutant: another handler may start between two tasks of a tick or a restart.
QuietBetweenTasks == ~owed

\* No handler is running: the next one may start.
Quiet == stage = "idle" /\ ~owed

IsActive(t)  == status[t] \in Active
Held(a, t)   == IsActive(t) /\ holder[t] = a
Online(a)    == conn[a] \in {"open", "ready"}
HeldTasks(a) == {t \in Tasks : Held(a, t)}
Present      == {t \in Tasks : status[t] # "absent"}

\* An outcome names the attempt it is about; 0: it names none (protocol 1, REST).
Current(t, n) == n = 0 \/ n = attempt[t]

\* After the commit: a dispatch call begins, and no send has failed in it yet.
Settle == owed' = TRUE /\ shunned' = {}

\* What a handler does that starts and ends with its one committed step.
HandlerSettles == Settle /\ UNCHANGED <<todo, stage>>

\* Mutant: the connection's state is written into the worker's status.
FreedAsOpen(S) == stat' = [a \in Agents |-> IF a \in S THEN "open" ELSE stat[a]]

\* Workers whose task has just left them are idle.
Freed(S) == stat' = [a \in Agents |-> IF a \in S THEN "idle" ELSE stat[a]]

\* Mutant: the lease is not cleared with the holder.
UnassignKeepingLease(S) ==
  /\ holder' = [t \in Tasks |-> IF t \in S THEN NoAgent ELSE holder[t]]
  /\ UNCHANGED lease

\* BACK_TO_PENDING for the tasks in S.
Unassign(S) ==
  /\ holder' = [t \in Tasks |-> IF t \in S THEN NoAgent ELSE holder[t]]
  /\ lease' = [t \in Tasks |-> IF t \in S THEN "none" ELSE lease[t]]

\* Mutant: the row is left as it is.
NotToPending(t) == UNCHANGED <<status, holder, lease>>

\* settle() to pending: one task is given back.
ToPending(t) == status' = [status EXCEPT ![t] = "pending"] /\ Unassign({t})

\* countFailure: the attempt of t has failed.
CountFailure(t) ==
  /\ fails' = [fails EXCEPT ![t] = @ + 1]
  /\ failedAt' = IF route[t] = NoRoute THEN failedAt
                 ELSE [failedAt EXCEPT ![t] = [@ EXCEPT ![route[t]] = attempt[t]]]
  /\ ToPending(t)
  /\ escalated' = [escalated EXCEPT ![t] = @ \/ Escalates(fails[t] + 1)]
  /\ Freed({holder[t]})
  /\ UNCHANGED <<attempt, rejects, last, route, declined, pulled, settings, conn, quota, crashes>>

-----------------------------------------------------------------------------
(* The lead creates tasks: a plan (createTree) or a single task (POST /).  *)

Create(b) ==
  /\ Quiet
  /\ \A t \in b :
       /\ status[t] = "absent"
       /\ Parent[t] \in b \cup Present \cup {NoTask}
       /\ deps[t] \subseteq b \cup Present
  /\ status' = [t \in Tasks |->
       IF t \notin b THEN status[t]
       ELSE IF Kind[t] # "group" /\ ~AllCompleted(status, deps[t]) THEN "blocked"
       ELSE "pending"]
  /\ HandlerSettles
  /\ UNCHANGED <<holder, lease, counters, history, settings, registry, quota, crashes>>

-----------------------------------------------------------------------------
(* Messages from the agent that holds the task.  One that does not, or     *)
(* names another attempt, is refused and changes no row.                   *)

\* task.accept: assigned -> accepted.  It names no attempt, and runs no dispatch pass.
Accept(a, t) ==
  /\ "accept" \in Inputs /\ Quiet /\ Online(a)
  /\ Held(a, t) /\ status[t] = "assigned"
  /\ status' = [status EXCEPT ![t] = "accepted"]
  /\ UNCHANGED <<holder, lease, counters, history, settings, registry, quota, handler, crashes>>

\* task.progress: accepted -> in_progress, and the lease is extended.
Progress(a, t) ==
  /\ "progress" \in Inputs /\ Quiet /\ Online(a)
  /\ Held(a, t)
  /\ status' = [status EXCEPT ![t] = IF @ = "accepted" THEN "in_progress" ELSE @]
  /\ lease' = [lease EXCEPT ![t] = "running"]
  /\ UNCHANGED <<holder, counters, history, settings, registry, quota, handler, crashes>>

\* What completeTask commits for a done task: review, or completed and its chain.
Finish(t, verdict) ==
  /\ status' = IF verdict = "review" \/ t \in ReviewRequired
               THEN [status EXCEPT ![t] = "review"]
               ELSE Complete(status, deps, t)
  /\ lease' = [lease EXCEPT ![t] = "none"]
  /\ HandlerSettles
  /\ UNCHANGED <<holder, counters, history, settings, conn, quota, crashes>>

\* task.complete with status completed or review.
WorkerComplete(a, t, verdict, n) ==
  /\ (IF verdict = "review" THEN "review" ELSE "complete") \in Inputs
  /\ Quiet /\ Online(a)
  /\ Held(a, t) /\ Current(t, n)
  /\ Finish(t, verdict)
  /\ Freed({a})

\* task.complete with status failed.
WorkerFail(a, t, n) ==
  /\ "fail" \in Inputs /\ Quiet /\ Online(a)
  /\ Held(a, t) /\ Current(t, n)
  /\ CountFailure(t)
  /\ HandlerSettles

\* task.quota_exhausted: the route is out on the agent's host; no failure is counted.
QuotaExhausted(a, t, r, n) ==
  /\ "quota" \in Inputs /\ Quiet /\ Online(a)
  /\ Held(a, t) /\ Current(t, n)
  /\ quota' = [quota EXCEPT ![<<a, r>>] = "live"]
  /\ ToPending(t)
  /\ Freed({a})
  /\ HandlerSettles
  /\ UNCHANGED <<counters, history, settings, conn, crashes>>

\* task.decline for good: the agent is not offered the task again.
Decline(a, t, n) ==
  /\ "decline" \in Inputs /\ Quiet /\ Online(a)
  /\ Held(a, t) /\ Current(t, n)
  /\ declined' = [declined EXCEPT ![t] = @ \cup {a}]
  /\ ToPending(t)
  /\ Freed({a})
  /\ HandlerSettles
  /\ UNCHANGED <<counters, last, route, failedAt, pulled, settings, conn, quota, crashes>>

\* task.decline with reason busy: the agent counts as busy until it says otherwise.
DeclineBusy(a, t, n) ==
  /\ "busy" \in Inputs /\ Quiet /\ Online(a)
  /\ Held(a, t) /\ Current(t, n)
  /\ ToPending(t)
  /\ stat' = [stat EXCEPT ![a] = "busy"]
  /\ HandlerSettles
  /\ UNCHANGED <<counters, history, settings, conn, quota, crashes>>

\* Mutant: a worker that becomes idle triggers no pass.
StatusUpdateSilent(a, s) ==
  /\ "status" \in Inputs /\ Quiet /\ Online(a)
  /\ stat' = [stat EXCEPT ![a] = s]
  /\ UNCHANGED <<rows, conn, quota, handler, crashes>>

\* status.update: only idle dispatches.
StatusUpdate(a, s) ==
  /\ "status" \in Inputs /\ Quiet /\ Online(a)
  /\ stat' = [stat EXCEPT ![a] = s]
  /\ IF s = "idle" THEN HandlerSettles ELSE UNCHANGED handler
  /\ UNCHANGED <<rows, conn, quota, crashes>>

-----------------------------------------------------------------------------
(* Pull mode and the REST updates of a session without a worker.           *)

\* pendingWork plus the dependency check.  MaxAttempt bounds the model, not the code.
Ready(t) ==
  /\ Kind[t] = "work" /\ status[t] = "pending" /\ ~escalated[t]
  /\ AllCompleted(status, deps[t])
  /\ attempt[t] < MaxAttempt

LockHolders == {t \in Tasks : status[t] \in Locking}

\* pickForPull, by an agent that may be connected or not; `to` is in_progress when the
\* claim came as PUT in_progress, which also records progress.
Pull(a, t, to) ==
  /\ "pull" \in Inputs /\ Quiet
  /\ Ready(t)
  /\ a \in PullableBy[t] \ declined[t]
  /\ \A u \in LockHolders : ~PathsConflict(files[u], files[t])
  /\ status' = [status EXCEPT ![t] = to]
  /\ holder' = [holder EXCEPT ![t] = a]
  /\ attempt' = [attempt EXCEPT ![t] = @ + 1]
  /\ lease' = [lease EXCEPT ![t] = "running"]
  /\ last' = [last EXCEPT ![t] = a]
  /\ pulled' = [pulled EXCEPT ![t] = TRUE]
  /\ route' = [route EXCEPT ![t] = NoRoute]
  /\ UNCHANGED <<fails, rejects, escalated, declined, failedAt, settings, registry, quota, handler, crashes>>

\* PUT accepted or in_progress on a task an agent holds (acceptOrProgress): what it changes
\* is done in the holder's name; a holder without a connection is marked pull mode.
RestUpdate(t, to) ==
  /\ "rest" \in Inputs /\ Quiet
  /\ IsActive(t) /\ holder[t] # NoAgent
  /\ to = "accepted" => status[t] = "assigned"
  /\ status' = [status EXCEPT ![t] = to]
  /\ lease' = [lease EXCEPT ![t] = IF to = "in_progress" THEN "running" ELSE @]
  /\ pulled' = [pulled EXCEPT ![t] = @ \/ ~Online(holder[t])]
  /\ UNCHANGED <<holder, counters, last, route, declined, failedAt, settings, registry, quota, handler, crashes>>

-----------------------------------------------------------------------------
(* The lead, through MCP, REST or the dashboard.                           *)

\* PUT completed or review: no owner check; a running worker is revoked first.
LeadComplete(t, verdict) ==
  /\ "leadcomplete" \in Inputs /\ Quiet
  /\ status[t] \in Locking
  /\ Finish(t, verdict)
  /\ Freed(IF IsActive(t) THEN {holder[t]} ELSE {})

\* PUT failed.
LeadFail(t) ==
  /\ "leadfail" \in Inputs /\ Quiet
  /\ IsActive(t)
  /\ CountFailure(t)
  /\ HandlerSettles

\* reviewTask, approve: work in review, or a pending gate whose dependencies are complete.
Approve(t) ==
  /\ "approve" \in Inputs /\ Quiet
  /\ \/ Kind[t] = "work" /\ status[t] = "review"
     \/ Kind[t] = "gate" /\ status[t] = "pending" /\ AllCompleted(status, deps[t])
  /\ status' = Complete(status, deps, t)
  /\ HandlerSettles
  /\ UNCHANGED <<holder, lease, counters, history, settings, registry, quota, crashes>>

\* Mutant: the rejected work is still charged to its worker.
RejectWorkHeld(S) ==
  /\ rejects' = [t \in Tasks |-> IF t \in S THEN rejects[t] + 1 ELSE rejects[t]]
  /\ escalated' = [t \in Tasks |-> escalated[t] \/ (t \in S /\ Escalates(rejects[t] + 1))]
  /\ HandlerSettles
  /\ UNCHANGED <<attempt, holder, lease, fails, history, settings, registry, quota, crashes>>

\* rejectWork for the tasks in S, bar the status.
RejectWork(S) ==
  /\ Unassign(S)
  /\ rejects' = [t \in Tasks |-> IF t \in S THEN rejects[t] + 1 ELSE rejects[t]]
  /\ escalated' = [t \in Tasks |-> escalated[t] \/ (t \in S /\ Escalates(rejects[t] + 1))]
  /\ HandlerSettles
  /\ UNCHANGED <<attempt, fails, history, settings, registry, quota, crashes>>

\* reviewTask, reject, on work in review.
Reject(t) ==
  /\ "reject" \in Inputs /\ Quiet
  /\ Kind[t] = "work" /\ status[t] = "review"
  /\ status' = [status EXCEPT ![t] = "pending"]
  /\ RejectWork({t})

\* reviewTask, reject, on a gate: with nothing to return it is refused.
RejectGate(g) ==
  /\ "rejectgate" \in Inputs /\ Quiet
  /\ Kind[g] = "gate" /\ status[g] = "pending"
  /\ LET back == Returnable(status, deps, g) IN
       /\ back # {}
       /\ \E pos \in Orders(back) : status' = Return(status, deps, g, pos)
       /\ RejectWork(back)

\* cancelTask: the running tasks it takes along are revoked and their workers freed.
CancelTask(t) ==
  /\ "cancel" \in Inputs /\ Quiet
  /\ status[t] \notin Terminal \cup {"absent"}
  /\ LET gone == CancelledWith(status, t) IN
       /\ lease' = [x \in Tasks |-> IF x \in gone THEN "none" ELSE lease[x]]
       /\ Freed({holder[x] : x \in {y \in gone : IsActive(y)}})
  /\ status' = Cancel(status, deps, t)
  /\ HandlerSettles
  /\ UNCHANGED <<holder, counters, history, settings, conn, quota, crashes>>

\* What an unfinished task waits for: its dependencies, and a group for its children.
WaitsFor(st, dp, t) == dp[t] \cup Children(st, t)

Unfinished(st) == {t \in Tasks : st[t] \notin Terminal \cup {"absent"}}

\* Mutant: only a direct cycle of two is seen.
ClosesShortCycle(t, dp) == \E d \in WaitsFor(status, dp, t) : t \in dp[d]

\* rerouteCycle: among the unfinished rows only, t would wait for itself.
ClosesCycle(t, dp) ==
  \A S \in SUBSET Unfinished(status) :
    (/\ WaitsFor(status, dp, t) \cap Unfinished(status) \subseteq S
     /\ \A x \in S : WaitsFor(status, dp, x) \cap Unfinished(status) \subseteq S) => t \in S

\* The status a reroute leaves: work in review stays there, all else queues anew.
Requeued(t, dp) ==
  IF status[t] = "review" THEN "review"
  ELSE IF AllCompleted(status, dp) THEN "pending" ELSE "blocked"

\* rerouteTask with new dependencies dp, files fs, route chain ch (each may be as it was);
\* chose: the patch names a route; clear: clearEscalation.  A running task is revoked and returned in the same step.
Reroute(t, dp, fs, ch, chose, clear) ==
  /\ "reroute" \in Inputs /\ Quiet
  /\ status[t] \notin Terminal \cup {"absent"}
  /\ dp # deps[t] =>
       /\ Kind[t] # "group" /\ t \notin dp
       /\ dp \subseteq Present
       /\ ~ClosesCycle(t, [deps EXCEPT ![t] = dp])
  /\ ~chose => ch = chain[t]
  /\ deps' = [deps EXCEPT ![t] = dp]
  /\ files' = [files EXCEPT ![t] = fs]
  /\ chain' = [chain EXCEPT ![t] = ch]
  /\ escalated' = [escalated EXCEPT ![t] = @ /\ ~clear]
  /\ fails' = [fails EXCEPT ![t] = IF clear THEN 0 ELSE @]
  /\ rejects' = [rejects EXCEPT ![t] = IF clear THEN 0 ELSE @]
  /\ failedAt' = IF clear \/ chose
                 THEN [failedAt EXCEPT ![t] = [r \in Routes |-> 0]] ELSE failedAt
  /\ Unassign(IF IsActive(t) THEN {t} ELSE {})
  /\ status' = [status EXCEPT ![t] = Requeued(t, dp)]
  /\ Freed(IF IsActive(t) THEN {holder[t]} ELSE {})
  /\ HandlerSettles
  /\ UNCHANGED <<attempt, last, route, declined, pulled, conn, quota, crashes>>

-----------------------------------------------------------------------------
(* Connections.                                                            *)

\* A socket opens under a's name, in place of an older one of the same host.  A protocol-1
\* client is ready at once; a worker once it has registered.
Connect(a) ==
  /\ Quiet
  /\ stat' = [stat EXCEPT ![a] = "idle"]
  /\ IF a \in Protocol2
     THEN conn' = [conn EXCEPT ![a] = "open"] /\ UNCHANGED handler
     ELSE conn' = [conn EXCEPT ![a] = "ready"] /\ HandlerSettles
  /\ UNCHANGED <<rows, quota, crashes>>

\* What a restarted worker no longer runs: returned if not started, else failed.
Leftovers(a, reported) ==
  {[task |-> t, attempt |-> attempt[t], agent |-> a,
    op |-> IF status[t] = "assigned" THEN "return" ELSE "fail"] : t \in HeldTasks(a) \ {reported}}

\* worker.register, reporting one task as active (or NoTask).
Register(a, reported) ==
  /\ Quiet
  /\ a \in Protocol2 /\ Online(a)
  /\ conn' = [conn EXCEPT ![a] = "ready"]
  /\ LET left == IF conn[a] = "ready" THEN {} ELSE Leftovers(a, reported) IN
       IF left = {} THEN HandlerSettles
       ELSE todo' = left /\ stage' = "restart" /\ UNCHANGED <<owed, shunned>>
  /\ UNCHANGED <<rows, stat, quota, crashes>>

RestartEnd ==
  /\ stage = "restart" /\ todo = {} /\ ~owed
  /\ stage' = "idle" /\ Settle
  /\ UNCHANGED <<rows, registry, quota, todo, crashes>>

\* The socket closes, or the keepalive drops it.
Close(a) ==
  /\ "close" \in Inputs /\ Quiet /\ Online(a)
  /\ conn' = [conn EXCEPT ![a] = "off"]
  /\ stat' = [stat EXCEPT ![a] = "idle"]
  /\ UNCHANGED <<rows, quota, handler, crashes>>

-----------------------------------------------------------------------------
(* The scheduler tick.                                                     *)

\* Time passes: a lease runs out, an agent has been away longer than offlineReclaimMinutes,
\* a quota row is past its reset.
LeaseExpires(t) ==
  /\ "lease" \in Inputs /\ Quiet
  /\ IsActive(t) /\ lease[t] = "running"
  /\ lease' = [lease EXCEPT ![t] = "expired"]
  /\ UNCHANGED <<status, holder, counters, history, settings, registry, quota, handler, crashes>>

GoneLong(a) ==
  /\ "gone" \in Inputs /\ Quiet
  /\ conn[a] = "off"
  /\ conn' = [conn EXCEPT ![a] = "gone"]
  /\ UNCHANGED <<rows, stat, quota, handler, crashes>>

QuotaResets(a, r) ==
  /\ "quotareset" \in Inputs /\ Quiet
  /\ quota[<<a, r>>] = "live"
  /\ quota' = [quota EXCEPT ![<<a, r>>] = "past"]
  /\ UNCHANGED <<rows, registry, handler, crashes>>

\* Mutant: the attempt is read off by one, so every reclaim is refused.
ToReclaimLate(S) ==
  {[task |-> t, attempt |-> attempt[t] + 1, agent |-> NoAgent, op |-> "reclaim"] : t \in S}

\* What reclaim() is called with for the tasks in S.
ToReclaim(S) ==
  {[task |-> t, attempt |-> attempt[t], agent |-> NoAgent, op |-> "reclaim"] : t \in S}

\* Active tasks without a lease get one, then those whose lease has passed are listed.
TickLeases ==
  /\ "tick" \in Inputs /\ Quiet
  /\ lease' = [t \in Tasks |-> IF IsActive(t) /\ lease[t] = "none" THEN "running" ELSE lease[t]]
  /\ todo' = ToReclaim({t \in Tasks : IsActive(t) /\ lease[t] = "expired"})
  /\ stage' = "leases"
  /\ UNCHANGED <<status, holder, counters, history, settings, registry, quota, owed, shunned, crashes>>

\* Mutant: only tasks that were not started are taken back.
TickOfflineAssigned ==
  /\ stage = "leases" /\ todo = {} /\ ~owed
  /\ todo' = ToReclaim({t \in Tasks : status[t] = "assigned" /\ conn[holder[t]] = "gone" /\ ~pulled[t]})
  /\ stage' = "offline"
  /\ UNCHANGED <<rows, registry, quota, owed, shunned, crashes>>

\* Active tasks whose assignee has been gone too long, but for those marked pull mode.  (A
\* task the first list reclaimed is pending or with a connected worker, so it is not here.)
TickOffline ==
  /\ stage = "leases" /\ todo = {} /\ ~owed
  /\ todo' = ToReclaim({t \in Tasks : IsActive(t) /\ holder[t] # NoAgent
                                      /\ conn[holder[t]] = "gone" /\ ~pulled[t]})
  /\ stage' = "offline"
  /\ UNCHANGED <<rows, registry, quota, owed, shunned, crashes>>

\* Mutant: no closing dispatch pass.
TickEndQuietly ==
  /\ stage = "offline" /\ todo = {} /\ ~owed
  /\ quota' = [p \in Agents \X Routes |-> IF quota[p] = "past" THEN "none" ELSE quota[p]]
  /\ stage' = "idle"
  /\ UNCHANGED <<rows, registry, todo, owed, shunned, crashes>>

\* Rows past their reset are deleted; then the closing dispatch pass.
TickEnd ==
  /\ stage = "offline" /\ todo = {} /\ ~owed
  /\ quota' = [p \in Agents \X Routes |-> IF quota[p] = "past" THEN "none" ELSE quota[p]]
  /\ stage' = "idle" /\ Settle
  /\ UNCHANGED <<rows, registry, todo, crashes>>

\* What the lifecycle checks when the turn of a listed task comes: a reclaim names the
\* attempt, a restart's failure the agent, a restart's return neither.
StillDue(x) ==
  /\ IsActive(x.task)
  /\ x.op = "reclaim" => attempt[x.task] = x.attempt
  /\ x.op = "fail" => holder[x.task] = x.agent

\* One task of the running list is reclaimed or failed (countFailure), or returned.  One
\* that is no longer due is refused, and no pass runs.
SettleNext(x) ==
  /\ stage # "idle" /\ ~owed /\ x \in todo
  /\ todo' = todo \ {x}
  /\ IF ~StillDue(x) THEN UNCHANGED <<rows, registry, quota, owed, shunned, crashes>>
     ELSE /\ Settle
          /\ IF x.op # "return" THEN CountFailure(x.task)
             ELSE /\ ToPending(x.task)
                  /\ Freed({holder[x.task]})
                  /\ UNCHANGED <<counters, history, settings, conn, quota, crashes>>
  /\ UNCHANGED stage

-----------------------------------------------------------------------------
(* The dispatch pass.                                                      *)

ReadyTasks  == {t \in Tasks : Ready(t)}
\* Mutant: an agent is only as busy as it says.
BusyBySay == {a \in Agents : stat[a] = "busy"}

\* loadWorkers: reported busy, or holding an active task.
BusyAgents  == {a \in Agents : stat[a] = "busy" \/ HeldTasks(a) # {}}
InForce     == {p \in Agents \X Routes : quota[p] = "live"}

\* loadState; agents whose send failed in this call count as busy.
PassInput ==
  [ready |-> ReadyTasks, locked |-> LockHolders, files |-> files, chain |-> chain,
   failedAt |-> failedAt, declined |-> declined, last |-> last,
   workers |-> {a \in Agents : conn[a] = "ready"}, busy |-> BusyAgents \cup shunned,
   quota |-> InForce]

\* One pass assigns what `pick` says and pushes it; the tasks in `lost` could not be sent
\* and are returned, which asks for one more pass.
Dispatch(pick, lost) ==
  LET got == {t \in ReadyTasks : pick[t] # NoPick}
  IN
  /\ owed
  /\ IsPass(PassInput, pick)
  /\ lost \subseteq got
  /\ status' = [t \in Tasks |-> IF t \in got \ lost THEN "assigned" ELSE status[t]]
  /\ holder' = [t \in Tasks |-> IF t \in got \ lost THEN pick[t][1] ELSE holder[t]]
  /\ lease' = [t \in Tasks |-> IF t \in got \ lost THEN "running" ELSE lease[t]]
  /\ attempt' = [t \in Tasks |-> IF t \in got THEN attempt[t] + 1 ELSE attempt[t]]
  /\ last' = [t \in Tasks |-> IF t \in got THEN pick[t][1] ELSE last[t]]
  /\ route' = [t \in Tasks |-> IF t \in got THEN pick[t][2] ELSE route[t]]
  /\ owed' = (lost # {})
  /\ shunned' = shunned \cup {pick[t][1] : t \in lost}
  /\ UNCHANGED <<fails, rejects, escalated, declined, failedAt, pulled, settings,
                 registry, quota, todo, stage, crashes>>

DispatchPass ==
  \E pick \in Picks(PassInput) :
    \E lost \in IF "sendfail" \in Inputs
                THEN SUBSET {t \in ReadyTasks : pick[t] # NoPick} ELSE {{}} :
      Dispatch(pick, lost)

-----------------------------------------------------------------------------
\* The hub restarts: the database stays; the registry and the running handler are lost.
HubCrash ==
  /\ crashes < MaxCrashes
  /\ crashes' = crashes + 1
  /\ conn' = [a \in Agents |-> "off"]
  /\ stat' = [a \in Agents |-> "idle"]
  /\ owed' = FALSE /\ todo' = {} /\ stage' = "idle" /\ shunned' = {}
  /\ UNCHANGED <<rows, quota>>

AgentStep(a) ==
  \/ Connect(a) \/ Close(a) \/ GoneLong(a)
  \/ \E s \in {"idle", "busy"} : StatusUpdate(a, s)
  \/ \E reported \in Tasks \cup {NoTask} : Register(a, reported)
  \/ \E r \in Routes : QuotaResets(a, r)
  \/ \E t \in Tasks :
       \/ Accept(a, t) \/ Progress(a, t)
       \/ \E to \in {"accepted", "in_progress"} : Pull(a, t, to)
       \/ \E n \in 0..MaxAttempt :
            \/ \E verdict \in {"completed", "review"} : WorkerComplete(a, t, verdict, n)
            \/ WorkerFail(a, t, n) \/ Decline(a, t, n) \/ DeclineBusy(a, t, n)
            \/ \E r \in Routes : QuotaExhausted(a, t, r, n)

LeadStep ==
  \/ \E b \in Batches : Create(b)
  \/ \E t \in Tasks :
       \/ LeadFail(t) \/ Approve(t) \/ Reject(t) \/ RejectGate(t) \/ CancelTask(t)
       \/ \E verdict \in {"completed", "review"} : LeadComplete(t, verdict)
       \/ \E to \in {"accepted", "in_progress"} : RestUpdate(t, to)
       \/ \E dp \in DepPatches \cup {deps[t]}, fs \in FilePatches \cup {files[t]},
             ch \in ChainPatches \cup {chain[t]}, chose \in BOOLEAN, clear \in BOOLEAN :
            Reroute(t, dp, fs, ch, chose, clear)

TickStep == TickLeases \/ TickOffline \/ TickEnd

HandlerStep == DispatchPass \/ RestartEnd \/ \E x \in todo : SettleNext(x)

Next ==
  \/ \E a \in Agents : AgentStep(a)
  \/ LeadStep
  \/ \E t \in Tasks : LeaseExpires(t)
  \/ TickStep
  \/ HandlerStep
  \/ HubCrash

Spec == Init /\ [][Next]_vars

\* What the event loop gives: a handler that has begun runs on to its end, and the timer,
\* due again every minute, gets its turn between the handlers (they all end).
Fairness ==
  /\ WF_vars(HandlerStep)
  /\ SF_vars(TickLeases)
  /\ WF_vars(TickOffline)
  /\ WF_vars(TickEnd)

FairSpec == Spec /\ Fairness

-----------------------------------------------------------------------------
(* Properties.                                                             *)

\* The life of each row is that of TaskLife, of which the next four properties follow.
Life == INSTANCE TaskLife

\* A hub step moves every row by at most one step of its life (spec 6.2), for all of cascades,
\* reclaims, retries, crashes and reroutes.
LifeSpec == Life!Spec

\* A task has a worker and a lease exactly while it is active; nothing that waits is still
\* charged to an agent (BACK_TO_PENDING, lease_expires_at).
HolderAndLease == Life!HolderAndLease

\* At the second failure or rejection, and only then, a task is escalated, and it stays out of
\* every agent's hands until the lead clears it (escalate, clearEscalation).
EscalationStops == Life!EscalationStops

\* One attempt is charged at most once, as a failure, as a rejection, or as the attempt that is
\* running or stands finished, however often it is reported (load's attempt check).
AttemptSettledOnce == Life!AttemptSettledOnce

\* An agent that declined a task for good never holds it again (task.decline).
DeclinedStaysAway == Life!DeclinedStaysAway

\* selectAssignments and pickForPull: two tasks that hold their files never clash.
LocksExclusive ==
  \A t, u \in LockHolders : t # u => ~PathsConflict(files[t], files[u])

\* loadWorkers: the dispatcher never gives a second task to an agent that already has one.
\* (A session may claim more in pull mode; those attempts have no route.)
OnePushedTask ==
  \A a \in Agents : \A t, u \in HeldTasks(a) : route[t] # NoRoute /\ route[u] # NoRoute => t = u

\* The list a tick or a restart made is still true of each task when its turn comes, although
\* a dispatch pass has run for every task before it.
ListStaysTrue == \A x \in todo : IsActive(x.task) /\ attempt[x.task] = x.attempt

\* Every step that frees a worker, a file or a dependency is followed by a pass: once the hub
\* is quiet no ready, unlocked task has an idle worker on a route that has not failed.  (A quota
\* row past its reset counts until the tick deletes it, and a worker whose send just failed is
\* not tried again before the next step.)
NoMissedDispatch ==
  Quiet =>
    LET in == [PassInput EXCEPT !.quota = {p \in Agents \X Routes : quota[p] # "none"}] IN
    \A t \in ReadyTasks :
      (\A u \in LockHolders : ~PathsConflict(files[u], files[t])) =>
        \A r \in Fresh(in, t) : Available(in, t, r, {}) = {}

\* selectAssignments over rememberFailedRoute and forgetFailedRoutes: a task is pushed onto a
\* route that failed it only when no fresh route has a worker, idle or busy, that could run it.
FailedRoutesLast ==
  [][\A t \in Tasks :
       attempt'[t] > attempt[t] /\ route'[t] # NoRoute =>
         \/ failedAt[t][route'[t]] = 0
         \/ \A r \in OnChain(chain[t]), a \in Agents :
              failedAt[t][r] = 0 => ~Runnable(PassInput, t, r, a)]_vars

\* unblockDependents, rerouteTask and unwindCompletion: nothing stays blocked once all it
\* depends on is complete.
NoLostUnblock == \A t \in Tasks : status[t] = "blocked" => ~AllCompleted(status, deps[t])

\* A gate awaits approval only while everything it gates is complete, even after another
\* gate has sent some of that work back.
GateStandsOnFinishedWork ==
  \A g \in Tasks : Kind[g] = "gate" /\ status[g] = "pending" => AllCompleted(status, deps[g])

\* checkGroup and unwindCompletion: a group is completed exactly while its children are all
\* finished, and an open group still has something to wait for.
GroupsFollowChildren ==
  \A g \in Tasks :
    Kind[g] = "group" /\ Children(status, g) # {} =>
      /\ status[g] = "completed" =>
           /\ \A c \in Children(status, g) : status[c] \in Terminal
           /\ \E c \in Children(status, g) : status[c] = "completed"
      /\ status[g] \notin Terminal =>
           \E c \in Children(status, g) : status[c] \notin Terminal

\* rerouteCycle: no set of tasks that have yet to start waits only for itself, so a plan can
\* always go on.
NoWaitCycle ==
  \A S \in SUBSET {t \in Tasks : status[t] \in Waiting} :
    S # {} => \E t \in S : WaitsFor(status, deps, t) \cap S = {}

\* A cancelled task stays cancelled; a completed one is reopened only by the rejection of a
\* gate that depends on it, or on a task under it.
FinishedStaysFinished ==
  [][\A t \in Tasks :
       /\ status[t] = "cancelled" => status'[t] = "cancelled"
       /\ status[t] = "completed" /\ status'[t] # "completed" =>
            \E g \in Tasks :
              /\ Kind[g] = "gate" /\ status[g] = "pending" /\ status'[g] = "blocked"
              /\ \E d \in deps[g] : t = d \/ t \in Above[d]]_vars

-----------------------------------------------------------------------------
(* Liveness, under Fairness.                                               *)

\* reclaimExpiredLeases: a lease that has run out does not stay so: its worker reports in,
\* or the task is taken back, also when the hub restarts in the middle of a tick.
ExpiredLeaseEnds == \A t \in Tasks : lease[t] = "expired" ~> lease[t] # "expired"

HeldByGone(t) == IsActive(t) /\ conn[holder[t]] = "gone" /\ ~pulled[t]

\* reclaimOffline: a pushed task does not stay with a worker that is gone for good.
GoneWorkerLosesTask == \A t \in Tasks : HeldByGone(t) ~> ~HeldByGone(t)

\* Some idle worker may run t now, on a fresh route or on one that has failed before.
Offerable(t) ==
  /\ Ready(t)
  /\ \A u \in LockHolders : ~PathsConflict(files[u], files[t])
  /\ Choices(PassInput, t, {}) # {}

\* runSchedulerTick's closing pass: whatever a step without a pass left behind (a disconnect,
\* a quota reset), a task some idle worker can run does not wait for ever.
OfferedInTheEnd == \A t \in Tasks : Offerable(t) ~> ~Offerable(t)

=============================================================================
