----------------------------- MODULE PassProofs -----------------------------
(***************************************************************************)
(* Machine-checked proofs about the handlers and the dispatch pass that    *)
(* follows them: what a running list may rely on, which routes a pass      *)
(* tries, and that no handler leaves a task behind that a worker could     *)
(* take.                                                                   *)
(***************************************************************************)
EXTENDS ConductorProofs

-----------------------------------------------------------------------------
(* The handlers.                                                           *)

\* A committed step after which a pass is owed.
Settles == Quiet /\ UNCHANGED <<todo, stage>> /\ owed' = TRUE

\* A step without a pass: `work` of them may touch rows, the others the connections.
WorkSilently ==
  \/ \E a \in Agents, t \in Tasks :
       Accept(a, t) \/ Progress(a, t) \/ \E to \in {"accepted", "in_progress"} : Pull(a, t, to)
  \/ \E t \in Tasks : LeaseExpires(t) \/ \E to \in {"accepted", "in_progress"} : RestUpdate(t, to)

LinkSilently ==
  \E a \in Agents :
    \/ Connect(a) \/ Close(a) \/ GoneLong(a) \/ StatusUpdate(a, "busy")
    \/ \E r \in Routes : QuotaResets(a, r)

\* Every step of an agent or the lead starts while the hub is quiet, and ends with a pass to come,
\* or changes nothing about the handlers.
LEMMA Handlers ==
  ASSUME [Next]_vars
  PROVE  \/ Settles
         \/ Quiet /\ UNCHANGED handler /\ (WorkSilently \/ LinkSilently)
         \/ \E a \in Agents, reported \in Tasks \cup {NoTask} : Register(a, reported)
         \/ TickStep \/ HandlerStep \/ HubCrash
         \/ UNCHANGED vars
<1> USE DEF handler, HandlerSettles, Settle
<1> DEFINE Silently == Quiet /\ UNCHANGED handler /\ (WorkSilently \/ LinkSilently)
<1>1. ASSUME NEW a \in Agents, AgentStep(a),
             ~\E reported \in Tasks \cup {NoTask} : Register(a, reported)
      PROVE  Settles \/ Silently
  <2>1. ASSUME Connect(a) \/ Close(a) \/ GoneLong(a) PROVE Settles \/ Silently
    <3>1. LinkSilently
      BY <2>1 DEF LinkSilently
    <3>2. Quiet /\ (UNCHANGED handler \/ (UNCHANGED <<todo, stage>> /\ owed' = TRUE))
      BY <2>1 DEF Connect, Close, GoneLong
    <3>3. QED
      BY <3>1, <3>2 DEF Settles
  <2>2. ASSUME NEW s \in {"idle", "busy"}, StatusUpdate(a, s) PROVE Settles \/ Silently
    BY <2>2 DEF StatusUpdate, Settles, LinkSilently
  <2>3. ASSUME NEW r \in Routes, QuotaResets(a, r) PROVE Silently
    <3>1. LinkSilently
      BY <2>3 DEF LinkSilently
    <3>2. QED
      BY <2>3, <3>1 DEF QuotaResets
  <2>4. ASSUME NEW t \in Tasks,
               Accept(a, t) \/ Progress(a, t) \/ \E to \in {"accepted", "in_progress"} : Pull(a, t, to)
        PROVE  Silently
    <3>1. WorkSilently
      BY <2>4 DEF WorkSilently
    <3>2. QED
      BY <2>4, <3>1 DEF Accept, Progress, Pull
  <2>5. ASSUME NEW t \in Tasks, NEW n \in 0..MaxAttempt
        PROVE  /\ (\E verdict \in {"completed", "review"} : WorkerComplete(a, t, verdict, n)) => Settles
               /\ WorkerFail(a, t, n) \/ Decline(a, t, n) \/ DeclineBusy(a, t, n) => Settles
               /\ (\E r \in Routes : QuotaExhausted(a, t, r, n)) => Settles
    BY DEF WorkerComplete, Finish, WorkerFail, Decline, DeclineBusy, QuotaExhausted, Settles
  <2>6. QED
    BY <1>1, <2>1, <2>2, <2>3, <2>4, <2>5 DEF AgentStep
<1>2. CASE LeadStep
  <2>1. ASSUME NEW t \in Tasks
        PROVE  /\ LeadFail(t) \/ Approve(t) \/ Reject(t) \/ RejectGate(t) \/ CancelTask(t) => Settles
               /\ (\E verdict \in {"completed", "review"} : LeadComplete(t, verdict)) => Settles
    BY DEF LeadFail, Approve, Reject, RejectGate, RejectWork, CancelTask, LeadComplete, Finish, Settles
  <2>2. ASSUME NEW t \in Tasks, NEW to \in {"accepted", "in_progress"}, RestUpdate(t, to) PROVE Silently
    <3>1. WorkSilently
      BY <2>2 DEF WorkSilently
    <3>2. QED
      BY <2>2, <3>1 DEF RestUpdate
  <2>3. ASSUME NEW b \in Batches, Create(b) PROVE Settles
    BY <2>3 DEF Create, Settles
  <2>4. ASSUME NEW t \in Tasks, NEW dp, NEW fs, NEW ch, NEW chose, NEW clear, Reroute(t, dp, fs, ch, chose, clear)
        PROVE  Settles
    BY <2>4 DEF Reroute, Settles
  <2>5. QED
    BY <1>2, <2>1, <2>2, <2>3, <2>4 DEF LeadStep
<1>3. ASSUME NEW t \in Tasks, LeaseExpires(t) PROVE Silently
  <2>1. WorkSilently
    BY <1>3 DEF WorkSilently
  <2>2. QED
    BY <1>3, <2>1 DEF LeaseExpires
<1>4. QED
  BY <1>1, <1>2, <1>3 DEF Next

-----------------------------------------------------------------------------
(* The list of a tick or a restart.                                        *)

\* One entry per task, none while no handler runs, and each still true of its task.
ListInv ==
  /\ ListStaysTrue
  /\ stage = "idle" => todo = {}
  /\ \A x, y \in todo : x.task = y.task => x = y

\* A list made of active tasks with their attempts, one entry for each.
LEMMA NewList ==
  ASSUME ListStaysTrue', \A x, y \in todo' : x.task = y.task => x = y, stage' # "idle"
  PROVE  ListInv'
BY DEF ListInv

\* Every step keeps the list so.
LEMMA ListStep ==
  ASSUME TypeOK, ListInv, [Next]_vars
  PROVE  ListInv'
<1> USE DEF rows, counters, handler
<1>1. CASE UNCHANGED vars
  BY <1>1 DEF vars, ListInv, ListStaysTrue, IsActive
<1>2. ASSUME Quiet, UNCHANGED <<todo, stage>> PROVE ListInv'
  BY <1>2 DEF Quiet, ListInv, ListStaysTrue
<1>3. ASSUME NEW a \in Agents, NEW reported \in Tasks \cup {NoTask}, Register(a, reported) PROVE ListInv'
  <2>1. Quiet /\ UNCHANGED <<status, holder, attempt>>
    BY <1>3 DEF Register
  <2>2. CASE UNCHANGED <<todo, stage>>
    BY <1>2, <2>1, <2>2
  <2>3. CASE todo' = Leftovers(a, reported) /\ stage' = "restart"
    <3>1. \A x \in todo' : IsActive(x.task) /\ x.attempt = attempt[x.task]
      BY <2>3 DEF Leftovers, HeldTasks, Held
    <3>2. \A x, y \in todo' : x.task = y.task => x = y
      BY <2>3 DEF Leftovers
    <3>3. QED
      BY <2>1, <2>3, <3>1, <3>2, NewList DEF ListStaysTrue, IsActive
  <2>4. QED
    BY <1>3, <2>2, <2>3 DEF Register, HandlerSettles
<1>4. CASE TickLeases
  <2>1. \A x \in todo' : IsActive(x.task) /\ x.attempt = attempt[x.task]
    BY <1>4 DEF TickLeases, ToReclaim
  <2>2. \A x, y \in todo' : x.task = y.task => x = y
    BY <1>4 DEF TickLeases, ToReclaim
  <2>3. QED
    BY <1>4, <2>1, <2>2, NewList DEF TickLeases, ListStaysTrue, IsActive
<1>5. CASE TickOffline
  <2>1. \A x \in todo' : IsActive(x.task) /\ x.attempt = attempt[x.task]
    BY <1>5 DEF TickOffline, ToReclaim
  <2>2. \A x, y \in todo' : x.task = y.task => x = y
    BY <1>5 DEF TickOffline, ToReclaim
  <2>3. QED
    BY <1>5, <2>1, <2>2, NewList DEF TickOffline, ListStaysTrue, IsActive
<1>6. CASE TickEnd \/ RestartEnd \/ HubCrash
  <2>1. todo' = {}
    BY <1>6 DEF TickEnd, RestartEnd, HubCrash
  <2>2. QED
    BY <2>1 DEF ListInv, ListStaysTrue
<1>7. CASE DispatchPass
  <2>1. PICK pick, lost : Dispatch(pick, lost)
    BY <1>7 DEF DispatchPass
  <2>2. \A t \in Tasks : IsActive(t) => status'[t] = status[t] /\ attempt'[t] = attempt[t]
    BY <2>1 DEF Dispatch, ReadyTasks, Ready, IsActive, Active, TypeOK
  <2>3. UNCHANGED <<todo, stage>>
    BY <2>1 DEF Dispatch
  <2>4. \A x \in todo : x.task \in Tasks
    BY DEF TypeOK
  <2>5. QED
    BY <2>2, <2>3, <2>4 DEF ListInv, ListStaysTrue, IsActive
<1>8. ASSUME NEW x \in todo, SettleNext(x) PROVE ListInv'
  <2>1. todo' = todo \ {x} /\ stage' = stage /\ stage # "idle"
    BY <1>8 DEF SettleNext
  <2>2. \A y \in todo' : y.task \in Tasks /\ y.task # x.task
    BY <2>1 DEF ListInv, TypeOK
  <2>3. \A t \in Tasks : t # x.task => status'[t] = status[t] /\ attempt'[t] = attempt[t]
    <3>1. CASE StillDue(x)
      BY <1>8, <3>1 DEF SettleNext, CountFailure, ToPending, TypeOK
    <3>2. CASE ~StillDue(x)
      BY <1>8, <3>2 DEF SettleNext
    <3>3. QED
      BY <3>1, <3>2
  <2>4. QED
    BY <2>1, <2>2, <2>3 DEF ListInv, ListStaysTrue, IsActive
<1>9. QED
  BY <1>1, <1>2, <1>3, <1>4, <1>5, <1>6, <1>7, <1>8, Handlers DEF Settles, TickStep, HandlerStep

\* The list a tick or a restart made is still true of each task when its turn comes, although a
\* dispatch pass runs for every task before it.
THEOREM ListStaysTrueHolds == Spec => []ListStaysTrue
<1>1. Init => ListInv
  BY DEF Init, ListInv, ListStaysTrue
<1>2. TypeOK /\ ListInv /\ [Next]_vars => ListInv'
  BY ListStep
<1>3. ListInv => ListStaysTrue
  BY DEF ListInv
<1>4. QED
  BY <1>1, <1>2, <1>3, TypeCorrect, PTL DEF Spec

-----------------------------------------------------------------------------
(* Routes.                                                                 *)

\* What a pass picks is one of the choices the walk has at that task.
LEMMA PickChosen ==
  ASSUME NEW pick, NEW lost, Dispatch(pick, lost), NEW t \in ReadyTasks, pick[t] # NoPick
  PROVE  pick[t] \in Choices(PassInput, t, {pick[u][1] : u \in Earlier(PassInput, pick, t)})
<1>1. IsPass(PassInput, pick) /\ t \in PassInput.ready
  BY DEF Dispatch, PassInput
<1>2. QED
  BY <1>1 DEF IsPass

\* A task is pushed onto a route that failed it only when no fresh route has a worker, idle or
\* busy, that could run it.
THEOREM FailedRoutesLastHolds == Spec => FailedRoutesLast
<1> DEFINE Last(t) == attempt'[t] > attempt[t] /\ route'[t] # NoRoute =>
                        \/ failedAt[t][route'[t]] = 0
                        \/ \A r \in OnChain(chain[t]), a \in Agents :
                             failedAt[t][r] = 0 => ~Runnable(PassInput, t, r, a)
<1>1. ASSUME TypeOK, [Next]_vars, NEW t \in Tasks PROVE Last(t)
  <2>1. attempt[t] \in Nat
    BY <1>1 DEF TypeOK
  <2>2. CASE attempt' = attempt
    BY <2>1, <2>2
  <2>3. ASSUME NEW a \in Agents, NEW u \in Tasks, NEW to \in {"accepted", "in_progress"}, Pull(a, u, to)
        PROVE  Last(t)
    <3>1. t # u => attempt'[t] = attempt[t]
      BY <1>1, <2>3 DEF Pull, TypeOK
    <3>2. t = u => route'[t] = NoRoute
      BY <1>1, <2>3 DEF Pull, TypeOK
    <3>3. QED
      BY <2>1, <3>1, <3>2
  <2>4. CASE DispatchPass
    <3>1. PICK pick, lost : Dispatch(pick, lost)
      BY <2>4 DEF DispatchPass
    <3>2. CASE ~(t \in ReadyTasks /\ pick[t] # NoPick)
      BY <2>1, <3>1, <3>2 DEF Dispatch
    <3>3. CASE t \in ReadyTasks /\ pick[t] # NoPick
      <4>1. route'[t] = pick[t][2]
        BY <3>1, <3>3 DEF Dispatch
      <4>2. pick[t][2] \in Tried(PassInput, t)
        BY <3>1, <3>3, PickChosen DEF Choices
      <4>3. CASE \E r \in Fresh(PassInput, t), a \in Agents : Runnable(PassInput, t, r, a)
        BY <4>1, <4>2, <4>3 DEF Tried, Fresh, PassInput
      <4>4. CASE ~\E r \in Fresh(PassInput, t), a \in Agents : Runnable(PassInput, t, r, a)
        BY <4>4 DEF Fresh, PassInput
      <4>5. QED
        BY <4>3, <4>4
    <3>4. QED
      BY <3>2, <3>3
  <2>5. ASSUME NEW u \in Tasks, NEW dp, NEW fs, NEW ch, NEW chose, NEW clear, Reroute(u, dp, fs, ch, chose, clear)
        PROVE  Last(t)
    BY <2>2, <2>5 DEF Reroute
  <2>6. QED
    BY <1>1, <2>2, <2>3, <2>4, <2>5, ScheduleKept
<1>2. TypeOK /\ [Next]_vars => [\A t \in Tasks : Last(t)]_vars
  BY <1>1
<1>3. QED
  BY <1>2, TypeCorrect, PTL DEF Spec, FailedRoutesLast

-----------------------------------------------------------------------------
(* No missed pass.                                                         *)

Unlocked(t) == \A u \in LockHolders : ~PathsConflict(files[u], files[t])

\* Worker a is idle and could run ready task t on route r, which has not failed it.
Missed(t, r, a) ==
  /\ t \in ReadyTasks /\ Unlocked(t)
  /\ r \in OnChain(chain[t]) /\ failedAt[t][r] = 0
  /\ <<a, r>> \in CanRun[t] /\ conn[a] = "ready" /\ a \notin declined[t]
  /\ a \notin BusyAgents \cup shunned
  /\ quota[<<a, r>>] = "none"

\* A route that is on a chain has a place on it.
LEMMA PlaceIn ==
  ASSUME NEW c \in Seq(Routes), NEW r \in OnChain(c)
  PROVE  Place(c, r) \in Nat /\ r \in Routes
<1>1. \E i \in DOMAIN c : c[i] = r
  BY DEF OnChain
<1>2. Place(c, r) \in DOMAIN c
  BY <1>1 DEF Place
<1>3. DOMAIN c \subseteq Nat /\ \A i \in DOMAIN c : c[i] \in Routes
  OBVIOUS
<1>4. QED
  BY <1>1, <1>2, <1>3

\* While a fresh route has a free worker, the walk has a choice.
LEMMA FreshChosen ==
  ASSUME TypeOK, NEW t \in Tasks, NEW used, NEW r \in Fresh(PassInput, t),
         Available(PassInput, t, r, used) # {}
  PROVE  Choices(PassInput, t, used) # {}
<1> DEFINE free(q) == Available(PassInput, t, q, used)
           S       == {q \in Fresh(PassInput, t) : free(q) # {}}
           P       == {Place(chain[t], q) : q \in S}
<1>1. chain[t] \in Seq(Routes) /\ PassInput.chain[t] = chain[t] /\ PassInput.failedAt[t] = failedAt[t]
  BY DEF TypeOK, PassInput
<1>2. \A q \in Fresh(PassInput, t) : Place(chain[t], q) \in Nat /\ q \in Routes /\ failedAt[t][q] = 0
  BY <1>1, PlaceIn DEF Fresh
<1>3. P \in SUBSET Nat /\ P # {}
  BY <1>2
<1>4. PICK n \in P : \A m \in P : n <= m
  BY <1>3, Least
<1>5. PICK q \in S : n = Place(chain[t], q)
  BY <1>4
<1>6. Tried(PassInput, t) = Fresh(PassInput, t)
  BY DEF Tried, Available
<1>7. PICK a \in Preferred(free(q), PassInput.last[t]) : a \in free(q)
  BY <1>5 DEF Preferred
<1>8. a \in Agents /\ q \in Routes
  BY <1>2, <1>7 DEF Available
<1>9. ASSUME NEW p \in Fresh(PassInput, t), TriedBefore(PassInput, t, p, q) PROVE free(p) = {}
  <2>1. Place(chain[t], p) < Place(chain[t], q)
    BY <1>1, <1>2, <1>9 DEF TriedBefore
  <2>2. SUFFICES ASSUME p \in S PROVE FALSE
    BY <1>9
  <2>3. n <= Place(chain[t], p)
    BY <1>4, <2>2
  <2>4. QED
    BY <1>2, <1>5, <2>1, <2>3
<1>10. <<a, q>> \in Choices(PassInput, t, used)
  BY <1>5, <1>6, <1>7, <1>8, <1>9 DEF Choices
<1>11. QED
  BY <1>10

\* After a pass that lost no push, no ready task has been left to a worker that could take it.
LEMMA PassMissesNone ==
  ASSUME TypeOK, DispatchPass, ~owed', NEW t \in Tasks, NEW r, NEW a \in Agents
  PROVE  ~Missed(t, r, a)'
<1> SUFFICES ASSUME Missed(t, r, a)' PROVE FALSE
  OBVIOUS
<1>1. PICK pick, lost : Dispatch(pick, lost)
  BY DEF DispatchPass
<1> DEFINE got == {u \in ReadyTasks : pick[u] # NoPick}
           used == {pick[u][1] : u \in Earlier(PassInput, pick, t)}
<1>2. /\ IsPass(PassInput, pick) /\ lost = {}
      /\ UNCHANGED <<deps, files, chain, declined, failedAt, escalated, conn, stat, quota>> /\ shunned \subseteq shunned'
  BY <1>1 DEF Dispatch, settings, registry
<1>3. /\ \A u \in got : status'[u] = "assigned" /\ holder'[u] = pick[u][1]
      /\ \A u \in Tasks \ got : status'[u] = status[u] /\ holder'[u] = holder[u] /\ attempt'[u] = attempt[u]
  BY <1>1, <1>2 DEF Dispatch, ReadyTasks
<1>4. \A u \in got : u \in Tasks /\ status[u] = "pending"
  BY DEF ReadyTasks, Ready
<1>5. LockHolders \cup got \subseteq LockHolders'
  BY <1>3, <1>4 DEF LockHolders, Locking, Active
<1>6. t \in ReadyTasks /\ t \notin got
  <2>1. Ready(t)'
    BY DEF Missed, ReadyTasks
  <2>2. t \notin got
    BY <1>3, <2>1 DEF Ready
  <2>3. \A d \in Tasks : status'[d] = "completed" => status[d] = "completed"
    BY <1>3
  <2>4. deps[t] \subseteq Tasks
    BY DEF TypeOK
  <2>5. Ready(t)
    BY <1>2, <1>3, <2>1, <2>2, <2>3, <2>4 DEF Ready, AllCompleted
  <2>6. QED
    BY <2>2, <2>5 DEF ReadyTasks
<1>7. Earlier(PassInput, pick, t) \subseteq got
  BY DEF Earlier, PassInput
<1>8. ~LockedOut(PassInput, pick, t)
  <2>1. \A u \in LockHolders' : ~PathsConflict(files[u], files[t])
    BY <1>2 DEF Missed, Unlocked
  <2>2. QED
    BY <1>5, <1>7, <2>1 DEF LockedOut, PassInput
<1>9. a \notin BusyAgents \cup shunned \cup used
  <2>1. a \notin BusyAgents' /\ a \notin shunned'
    BY DEF Missed
  <2>2. a \notin BusyAgents
    <3>1. \A u \in Tasks : Held(a, u) => Held(a, u)'
      BY <1>3, <1>4 DEF Held, IsActive, Active
    <3>2. QED
      BY <1>2, <2>1, <3>1 DEF BusyAgents, HeldTasks
  <2>3. a \notin used
    <3> SUFFICES ASSUME NEW u \in got, pick[u][1] = a PROVE FALSE
      BY <1>7
    <3>1. Held(a, u)'
      BY <1>3 DEF Held, IsActive, Active
    <3>2. QED
      BY <1>4, <2>1, <3>1 DEF BusyAgents, HeldTasks
  <2>4. QED
    BY <1>2, <2>1, <2>2, <2>3
<1>10. r \in Fresh(PassInput, t)
  BY <1>2 DEF Missed, Fresh, PassInput
<1>11. a \in Available(PassInput, t, r, used)
  <2>1. <<a, r>> \in CanRun[t] /\ conn[a] = "ready" /\ a \notin declined[t] /\ quota[<<a, r>>] = "none"
    BY <1>2 DEF Missed
  <2>2. <<a, r>> \notin InForce
    BY <2>1 DEF InForce
  <2>3. QED
    BY <1>9, <2>1, <2>2 DEF Available, Runnable, PassInput
<1>12. Choices(PassInput, t, used) # {}
  BY <1>10, <1>11, FreshChosen
<1>13. pick[t] \in Choices(PassInput, t, used)
  BY <1>2, <1>6, <1>8, <1>12 DEF IsPass, PassInput
<1>14. pick[t] # NoPick
  BY <1>13 DEF Choices, NoPick
<1>15. QED
  BY <1>6, <1>14

\* A task that runs, or starts to, while the others stay as they are.
GoesOn(x) ==
  /\ UNCHANGED <<deps, files, chain, declined, failedAt, escalated, conn, stat, quota>>
  /\ status'[x] \in Active /\ status[x] # "completed"
  /\ status[x] \in Active => holder'[x] = holder[x]
  /\ \A u \in Tasks \ {x} : status'[u] = status[u] /\ holder'[u] = holder[u] /\ attempt'[u] = attempt[u]

\* No worker becomes idle or connected, and no route gets its quota back.
NoneFreed ==
  /\ UNCHANGED <<status, holder, attempt, escalated, deps, files, chain, declined, failedAt>>
  /\ \A b \in Agents : conn'[b] = "ready" /\ stat'[b] # "busy" => conn[b] = "ready" /\ stat[b] # "busy"
  /\ \A p \in Agents \X Routes : quota'[p] = "none" => quota[p] = "none"

\* A handler without a pass frees nothing, or is the progress of one task.
LEMMA SilentSteps ==
  ASSUME TypeOK, UNCHANGED handler, WorkSilently \/ LinkSilently
  PROVE  NoneFreed \/ \E x \in Tasks : GoesOn(x)
<1> USE DEF rows, counters, history, settings, registry
<1>1. ASSUME NEW a \in Agents, NEW x \in Tasks, Accept(a, x) \/ Progress(a, x) PROVE GoesOn(x)
  BY <1>1 DEF Accept, Progress, Held, IsActive, Active, GoesOn, TypeOK
<1>2. ASSUME NEW a \in Agents, NEW x \in Tasks, NEW to \in {"accepted", "in_progress"}, Pull(a, x, to)
      PROVE  GoesOn(x)
  BY <1>2 DEF Pull, Ready, Active, GoesOn, TypeOK
<1>3. ASSUME NEW x \in Tasks, NEW to \in {"accepted", "in_progress"}, RestUpdate(x, to) PROVE GoesOn(x)
  BY <1>3 DEF RestUpdate, IsActive, Active, GoesOn, TypeOK
<1>4. ASSUME NEW x \in Tasks, LeaseExpires(x) PROVE GoesOn(x)
  BY <1>4 DEF LeaseExpires, IsActive, Active, GoesOn
<1>5. ASSUME NEW a \in Agents, UNCHANGED handler, Connect(a) PROVE NoneFreed
  BY <1>5 DEF Connect, Quiet, HandlerSettles, Settle, handler, NoneFreed, TypeOK
<1>6. ASSUME NEW a \in Agents, Close(a) \/ GoneLong(a) PROVE NoneFreed
  BY <1>6 DEF Close, GoneLong, NoneFreed, TypeOK
<1>7. ASSUME NEW a \in Agents, StatusUpdate(a, "busy") PROVE NoneFreed
  BY <1>7 DEF StatusUpdate, NoneFreed, TypeOK
<1>8. ASSUME NEW a \in Agents, NEW r \in Routes, QuotaResets(a, r) PROVE NoneFreed
  <2>1. \A p \in Agents \X Routes : quota'[p] = "none" => quota[p] = "none"
    BY <1>8 DEF QuotaResets, TypeOK
  <2>2. QED
    BY <1>8, <2>1 DEF QuotaResets, NoneFreed
<1>9. CASE WorkSilently
  BY <1>1, <1>2, <1>3, <1>4, <1>9 DEF WorkSilently
<1>10. CASE LinkSilently
  BY <1>5, <1>6, <1>7, <1>8, <1>10 DEF LinkSilently
<1>11. QED
  BY <1>9, <1>10

\* A step without a pass makes no worker and no task available.
LEMMA SilentMissesNone ==
  ASSUME TypeOK, UNCHANGED handler, WorkSilently \/ LinkSilently,
         NEW t \in Tasks, NEW r \in Routes, NEW a \in Agents, Missed(t, r, a)'
  PROVE  Missed(t, r, a)
<1>1. ASSUME NEW x \in Tasks, GoesOn(x) PROVE Missed(t, r, a)
  <2>1. t # x
    BY <1>1 DEF Missed, ReadyTasks, Ready, GoesOn, Active
  <2>2. \A d \in Tasks : status'[d] = "completed" => status[d] = "completed"
    BY <1>1 DEF GoesOn, Active
  <2>3. t \in ReadyTasks
    <3>1. Ready(t)' /\ deps[t] \subseteq Tasks
      BY DEF Missed, ReadyTasks, TypeOK
    <3>2. QED
      BY <1>1, <2>1, <2>2, <3>1 DEF GoesOn, Ready, AllCompleted, ReadyTasks
  <2>4. LockHolders \subseteq LockHolders'
    BY <1>1 DEF LockHolders, Locking, GoesOn
  <2>5. \A b \in Agents : HeldTasks(b) \subseteq HeldTasks(b)'
    BY <1>1 DEF HeldTasks, Held, IsActive, GoesOn
  <2>6. QED
    BY <1>1, <2>3, <2>4, <2>5 DEF GoesOn, Missed, Unlocked, BusyAgents, handler
<1>2. CASE NoneFreed
  <2>1. LockHolders' = LockHolders /\ ReadyTasks' = ReadyTasks /\ HeldTasks(a)' = HeldTasks(a)
    BY <1>2 DEF NoneFreed, LockHolders, ReadyTasks, Ready, AllCompleted, HeldTasks, Held, IsActive
  <2>2. conn[a] = "ready" /\ a \notin BusyAgents
    <3>1. conn'[a] = "ready" /\ stat'[a] # "busy" /\ HeldTasks(a)' = {}
      BY DEF Missed, BusyAgents
    <3>2. QED
      BY <1>2, <2>1, <3>1 DEF NoneFreed, BusyAgents
  <2>3. quota[<<a, r>>] = "none"
    BY <1>2 DEF Missed, NoneFreed
  <2>4. QED
    BY <1>2, <2>1, <2>2, <2>3 DEF Missed, Unlocked, NoneFreed, handler
<1>3. QED
  BY <1>1, <1>2, SilentSteps

\* While the hub is quiet, no task is left to a worker that could take it.
NoneMissed ==
  Quiet => \A t \in Tasks, r \in Routes, a \in Agents : ~Missed(t, r, a)

\* Every step of the hub keeps that: one with a pass by the pass, one without frees nobody.
LEMMA NoneMissedStep ==
  ASSUME TypeOK, NoneMissed, [Next]_vars
  PROVE  NoneMissed'
<1> SUFFICES ASSUME Quiet', NEW t \in Tasks, NEW r \in Routes, NEW a \in Agents, Missed(t, r, a)'
             PROVE  FALSE
  BY DEF NoneMissed
<1>1. CASE Settles
  BY <1>1 DEF Settles, Quiet
<1>2. CASE Quiet /\ UNCHANGED handler /\ (WorkSilently \/ LinkSilently)
  BY <1>2, SilentMissesNone DEF NoneMissed
<1>3. ASSUME NEW b \in Agents, NEW reported \in Tasks \cup {NoTask}, Register(b, reported) PROVE FALSE
  BY <1>3 DEF Register, HandlerSettles, Settle, Quiet
<1>4. CASE TickStep
  BY <1>4 DEF TickStep, TickLeases, TickOffline, TickEnd, Settle, Quiet
<1>5. CASE DispatchPass
  BY <1>5, PassMissesNone DEF Quiet
<1>6. CASE RestartEnd
  BY <1>6 DEF RestartEnd, Settle, Quiet
<1>7. ASSUME NEW x \in todo, SettleNext(x) PROVE FALSE
  BY <1>7 DEF SettleNext, Quiet
<1>8. CASE HubCrash
  BY <1>8 DEF HubCrash, Missed
<1>9. CASE UNCHANGED vars
  <2>1. Quiet /\ Missed(t, r, a)
    BY <1>9 DEF vars, rows, counters, history, settings, registry, handler, Quiet, Missed, ReadyTasks,
                Ready, AllCompleted, Unlocked, LockHolders, BusyAgents, HeldTasks, Held, IsActive
  <2>2. QED
    BY <2>1 DEF NoneMissed
<1>10. QED
  BY <1>1, <1>2, <1>3, <1>4, <1>5, <1>6, <1>7, <1>8, <1>9, Handlers DEF HandlerStep

\* Every step that frees a worker, a file or a dependency is followed by a pass: once the hub is
\* quiet no ready, unlocked task has an idle worker on a route that has not failed it.
THEOREM NoMissedDispatchHolds == Spec => []NoMissedDispatch
<1>1. Init => NoneMissed
  BY DEF Init, NoneMissed, Missed
<1>2. TypeOK /\ NoneMissed => NoMissedDispatch
  <2> DEFINE in == [PassInput EXCEPT !.quota = {p \in Agents \X Routes : quota[p] # "none"}]
  <2> SUFFICES ASSUME TypeOK, NoneMissed, Quiet, NEW t \in ReadyTasks,
                      \A u \in LockHolders : ~PathsConflict(files[u], files[t]),
                      NEW r \in Fresh(in, t), NEW a \in Available(in, t, r, {})
               PROVE  FALSE
    BY DEF NoMissedDispatch
  <2>1. /\ in.chain = chain /\ in.failedAt = failedAt /\ in.declined = declined
        /\ in.workers = {b \in Agents : conn[b] = "ready"} /\ in.busy = BusyAgents \cup shunned
        /\ in.quota = {p \in Agents \X Routes : quota[p] # "none"}
    BY DEF PassInput
  <2>2. t \in Tasks /\ a \in Agents /\ chain[t] \in Seq(Routes)
    BY DEF ReadyTasks, Available, TypeOK
  <2>3. r \in OnChain(chain[t]) /\ failedAt[t][r] = 0
    BY <2>1 DEF Fresh
  <2>4. r \in Routes
    BY <2>2, <2>3, PlaceIn
  <2>5. /\ <<a, r>> \in CanRun[t] /\ conn[a] = "ready" /\ a \notin declined[t]
        /\ a \notin BusyAgents \cup shunned /\ quota[<<a, r>>] = "none"
    BY <2>1, <2>2, <2>4 DEF Available, Runnable
  <2>6. Missed(t, r, a)
    BY <2>3, <2>5 DEF Missed, Unlocked
  <2>7. QED
    BY <2>2, <2>4, <2>6 DEF NoneMissed
<1>3. TypeOK /\ NoneMissed /\ [Next]_vars => NoneMissed'
  BY NoneMissedStep
<1>4. QED
  BY <1>1, <1>2, <1>3, TypeCorrect, PTL DEF Spec

=============================================================================
