----------------------------- MODULE PlanProofs -----------------------------
(***************************************************************************)
(* Machine-checked proofs about the plan: whatever the agents and the lead *)
(* do, the cascades keep what waits and what it waits for in step, for     *)
(* every tree, every set of dependencies and every order of the steps.     *)
(***************************************************************************)
EXTENDS ConductorProofs

-----------------------------------------------------------------------------
(* What a step of the hub does to the statuses of all rows.                *)

\* Tasks at work, and ready ones, move among themselves; nothing else does.
WorkMoves ==
  /\ deps' = deps
  /\ \A t \in Tasks :
       \/ status'[t] = status[t]
       \/ /\ Kind[t] = "work"
          /\ status[t] \in Locking \cup {"pending"}
          /\ status'[t] \in Locking \cup {"pending"}

\* One task completes, and its chain runs.
CompletesOne ==
  \E t \in Tasks :
    /\ Kind[t] # "group" /\ status[t] \in Locking \cup {"pending"}
    /\ status' = Complete(status, deps, t)
    /\ deps' = deps

Reroutes ==
  \E t \in Tasks :
    \E dp \in DepPatches \cup {deps[t]}, fs \in FilePatches \cup {files[t]},
       ch \in ChainPatches \cup {chain[t]}, chose \in BOOLEAN, clear \in BOOLEAN :
      Reroute(t, dp, fs, ch, chose, clear)

\* A row that is at work is of kind work.
LEMMA HeldIsWork ==
  ASSUME LifeInv, NEW t \in Tasks, status[t] \in Locking
  PROVE  Kind[t] = "work"
BY DEF LifeInv, Life!OnlyWorkRuns, Life!Locking, Life!Active, Locking, Active

\* A step that changes the status of one task at work, or ready, only.
LEMMA OneWorks ==
  ASSUME TypeOK, LifeInv, NEW t \in Tasks, NEW s \in Locking \cup {"pending"},
         status[t] \in Locking \/ (status[t] = "pending" /\ Kind[t] = "work"),
         status' = [status EXCEPT ![t] = s], deps' = deps
  PROVE  WorkMoves
<1>1. Kind[t] = "work"
  BY HeldIsWork
<1>2. QED
  BY <1>1 DEF WorkMoves, TypeOK

\* A step by an agent moves work, or completes one task.
LEMMA AgentMoves ==
  ASSUME TypeOK, LifeInv, NEW a \in Agents, AgentStep(a)
  PROVE  WorkMoves \/ CompletesOne
<1> USE DEF settings, history, rows, counters
<1>1. ASSUME UNCHANGED <<status, deps>> PROVE WorkMoves
  BY <1>1 DEF WorkMoves
<1>2. CASE Connect(a) \/ Close(a) \/ GoneLong(a)
  BY <1>1, <1>2 DEF Connect, Close, GoneLong
<1>3. CASE \E s \in {"idle", "busy"} : StatusUpdate(a, s)
  BY <1>1, <1>3 DEF StatusUpdate
<1>4. CASE \E reported \in Tasks \cup {NoTask} : Register(a, reported)
  BY <1>1, <1>4 DEF Register
<1>5. CASE \E r \in Routes : QuotaResets(a, r)
  BY <1>1, <1>5 DEF QuotaResets
<1>6. ASSUME NEW t \in Tasks, Accept(a, t) PROVE WorkMoves
  BY <1>6, OneWorks DEF Accept, Held, IsActive, Locking, Active
<1>7. ASSUME NEW t \in Tasks, Progress(a, t) PROVE WorkMoves
  <2>1. status[t] \in Active
    BY <1>7 DEF Progress, Held, IsActive
  <2>2. QED
    BY <1>7, <2>1, OneWorks DEF Progress, Locking, Active
<1>8. ASSUME NEW t \in Tasks, NEW to \in {"accepted", "in_progress"}, Pull(a, t, to) PROVE WorkMoves
  BY <1>8, OneWorks DEF Pull, Ready, Locking, Active
<1>9. ASSUME NEW t \in Tasks, NEW verdict, NEW n, WorkerComplete(a, t, verdict, n)
      PROVE  WorkMoves \/ CompletesOne
  <2>1. status[t] \in Locking
    BY <1>9 DEF WorkerComplete, Held, IsActive, Locking
  <2>2. Finish(t, verdict)
    BY <1>9 DEF WorkerComplete
  <2>3. CASE verdict = "review" \/ t \in ReviewRequired
    BY <2>1, <2>2, <2>3, OneWorks DEF Finish, Locking
  <2>4. CASE ~(verdict = "review" \/ t \in ReviewRequired)
    BY <2>1, <2>2, <2>4, HeldIsWork DEF Finish, CompletesOne
  <2>5. QED
    BY <2>3, <2>4
<1>10. ASSUME NEW t \in Tasks, NEW n, WorkerFail(a, t, n) PROVE WorkMoves
  BY <1>10, OneWorks DEF WorkerFail, CountFailure, ToPending, Held, IsActive, Locking
<1>11. ASSUME NEW t \in Tasks, NEW n, Decline(a, t, n) PROVE WorkMoves
  BY <1>11, OneWorks DEF Decline, ToPending, Held, IsActive, Locking
<1>12. ASSUME NEW t \in Tasks, NEW n, DeclineBusy(a, t, n) PROVE WorkMoves
  BY <1>12, OneWorks DEF DeclineBusy, ToPending, Held, IsActive, Locking
<1>13. ASSUME NEW t \in Tasks, NEW r \in Routes, NEW n, QuotaExhausted(a, t, r, n) PROVE WorkMoves
  BY <1>13, OneWorks DEF QuotaExhausted, ToPending, Held, IsActive, Locking
<1>14. QED
  BY <1>2, <1>3, <1>4, <1>5, <1>6, <1>7, <1>8, <1>9, <1>10, <1>11, <1>12, <1>13 DEF AgentStep

\* A step by the lead moves work, completes a task, or is one of the four that cascade.
LEMMA LeadMoves ==
  ASSUME TypeOK, LifeInv, LeadStep
  PROVE  \/ WorkMoves \/ CompletesOne \/ Reroutes
         \/ \E b \in Batches : Create(b)
         \/ \E t \in Tasks : RejectGate(t) \/ CancelTask(t)
<1> USE DEF settings, history, rows, counters
<1>1. ASSUME NEW t \in Tasks, LeadFail(t) PROVE WorkMoves
  BY <1>1, OneWorks DEF LeadFail, CountFailure, ToPending, IsActive, Locking
<1>2. ASSUME NEW t \in Tasks, Approve(t) PROVE CompletesOne
  BY <1>2 DEF Approve, CompletesOne, Locking
<1>3. ASSUME NEW t \in Tasks, Reject(t) PROVE WorkMoves
  BY <1>3, OneWorks DEF Reject, RejectWork, Locking
<1>4. ASSUME NEW t \in Tasks, NEW verdict, LeadComplete(t, verdict) PROVE WorkMoves \/ CompletesOne
  <2>1. status[t] \in Locking /\ Finish(t, verdict)
    BY <1>4 DEF LeadComplete
  <2>2. CASE verdict = "review" \/ t \in ReviewRequired
    BY <2>1, <2>2, OneWorks DEF Finish, Locking
  <2>3. CASE ~(verdict = "review" \/ t \in ReviewRequired)
    BY <2>1, <2>3, HeldIsWork DEF Finish, CompletesOne
  <2>4. QED
    BY <2>2, <2>3
<1>5. ASSUME NEW t \in Tasks, NEW to \in {"accepted", "in_progress"}, RestUpdate(t, to) PROVE WorkMoves
  BY <1>5, OneWorks DEF RestUpdate, IsActive, Locking, Active
<1>6. QED
  BY <1>1, <1>2, <1>3, <1>4, <1>5 DEF LeadStep, Reroutes

\* So for every step of the hub.
LEMMA StatusStep ==
  ASSUME TypeOK, LifeInv, [Next]_vars
  PROVE  \/ WorkMoves \/ CompletesOne \/ Reroutes
         \/ \E b \in Batches : Create(b)
         \/ \E t \in Tasks : RejectGate(t) \/ CancelTask(t)
<1> USE DEF settings, history, rows, counters
<1>1. ASSUME UNCHANGED <<status, deps>> PROVE WorkMoves
  BY <1>1 DEF WorkMoves
<1>2. CASE UNCHANGED vars
  BY <1>1, <1>2 DEF vars
<1>3. CASE HubCrash
  BY <1>1, <1>3 DEF HubCrash
<1>4. CASE TickStep
  BY <1>1, <1>4 DEF TickStep, TickLeases, TickOffline, TickEnd
<1>5. ASSUME NEW t \in Tasks, LeaseExpires(t) PROVE WorkMoves
  BY <1>1, <1>5 DEF LeaseExpires
<1>6. CASE RestartEnd
  BY <1>1, <1>6 DEF RestartEnd
<1>7. CASE DispatchPass
  <2>1. PICK pick, lost : Dispatch(pick, lost)
    BY <1>7 DEF DispatchPass
  <2>2. \A t \in Tasks :
          status'[t] = status[t] \/ (t \in ReadyTasks /\ status'[t] = "assigned")
    BY <2>1 DEF Dispatch
  <2>3. deps' = deps
    BY <2>1 DEF Dispatch
  <2>4. QED
    BY <2>2, <2>3 DEF WorkMoves, ReadyTasks, Ready, Locking, Active
<1>8. ASSUME NEW x \in todo, SettleNext(x) PROVE WorkMoves
  <2>1. x.task \in Tasks
    BY DEF TypeOK
  <2>2. CASE ~StillDue(x)
    BY <1>1, <1>8, <2>2 DEF SettleNext
  <2>3. CASE StillDue(x)
    <3>1. ToPending(x.task) /\ deps' = deps
      BY <1>8, <2>3 DEF SettleNext, CountFailure
    <3>2. status[x.task] \in Locking
      BY <2>3 DEF StillDue, IsActive, Locking
    <3>3. QED
      BY <2>1, <3>1, <3>2, OneWorks DEF ToPending
  <2>4. QED
    BY <2>2, <2>3
<1>9. QED
  BY <1>2, <1>3, <1>4, <1>5, <1>6, <1>7, <1>8, AgentMoves, LeadMoves DEF Next, HandlerStep

-----------------------------------------------------------------------------
(* The cascades.                                                           *)

\* A row the chain of a completion leaves blocked still waits for something.
LEMMA CompleteFrees ==
  ASSUME NEW st \in [Tasks -> Status], NEW dp \in [Tasks -> SUBSET Tasks],
         NEW t \in Tasks, NEW x \in Tasks,
         Complete(st, dp, t)[x] = "blocked",
         st[x] = "blocked" => ~AllCompleted(st, dp[x])
  PROVE  ~AllCompleted(Complete(st, dp, t), dp[x])
<1> DEFINE done == {t} \cup Closed(st, t)
           mid  == [y \in Tasks |-> IF y \in done THEN "completed" ELSE st[y]]
           c    == Unblock(mid, dp, done)
<1>1. c = Complete(st, dp, t)
  BY DEF Complete
<1>2. \A y \in Tasks : c[y] = IF y \in Unblocked(mid, dp, done) THEN "pending" ELSE mid[y]
  BY DEF Unblock
<1>3. mid[x] = "blocked" /\ st[x] = "blocked" /\ x \notin Unblocked(mid, dp, done)
  BY <1>1, <1>2
<1>4. ~AllCompleted(mid, dp[x])
  BY <1>3 DEF Unblocked, AllCompleted
<1>5. \A y \in Tasks : c[y] = "completed" => mid[y] = "completed"
  BY <1>2
<1>6. QED
  BY <1>1, <1>4, <1>5 DEF AllCompleted

\* So does one that a cancellation leaves blocked.
LEMMA CancelFrees ==
  ASSUME NEW st \in [Tasks -> Status], NEW dp \in [Tasks -> SUBSET Tasks],
         NEW t \in Tasks, NEW x \in Tasks,
         Cancel(st, dp, t)[x] = "blocked",
         st[x] = "blocked" => ~AllCompleted(st, dp[x])
  PROVE  ~AllCompleted(Cancel(st, dp, t), dp[x])
<1> DEFINE gone == CancelledWith(st, t)
           base == [y \in Tasks |-> IF y \in gone THEN "cancelled" ELSE st[y]]
           ends == Closed(base, t)
           done == {y \in ends : SomeCompleted(base, t, y)}
           mid  == [y \in Tasks |-> IF y \in done THEN "completed"
                                    ELSE IF y \in ends THEN "cancelled" ELSE base[y]]
           c    == Unblock(mid, dp, done)
<1>1. c = Cancel(st, dp, t)
  BY DEF Cancel
<1>2. \A y \in Tasks : c[y] = IF y \in Unblocked(mid, dp, done) THEN "pending" ELSE mid[y]
  BY DEF Unblock
<1>3. mid[x] = "blocked" /\ st[x] = "blocked" /\ x \notin Unblocked(mid, dp, done)
  BY <1>1, <1>2
<1>4. \A y \in Tasks : y \notin done /\ mid[y] = "completed" => st[y] = "completed"
  OBVIOUS
<1>5. ~AllCompleted(mid, dp[x])
  BY <1>3, <1>4 DEF Unblocked, AllCompleted
<1>6. \A y \in Tasks : c[y] = "completed" => mid[y] = "completed"
  BY <1>2
<1>7. QED
  BY <1>1, <1>5, <1>6 DEF AllCompleted

\* A rejected gate completes nothing; what it takes back is returned work or a group over it; no
\* gate is left pending that waits for what is taken back; what it blocks waits for that.
LEMMA ReturnWaits ==
  ASSUME NEW st \in [Tasks -> Status], NEW dp \in [Tasks -> SUBSET Tasks],
         NEW g \in Tasks, Kind[g] = "gate", st[g] = "pending", NEW pos,
         Returnable(st, dp, g) # {}, NEW x \in Tasks
  PROVE  LET r == Return(st, dp, g, pos) IN
         /\ r[x] = "completed" => st[x] = "completed"
         /\ st[x] = "completed" /\ r[x] # "completed" /\ x # g =>
              \E d \in dp[g] : x = d \/ x \in Above[d]
         /\ Kind[x] = "gate" /\ r[x] = "pending" =>
              /\ st[x] = "pending"
              /\ AllCompleted(st, dp[x]) => AllCompleted(r, dp[x])
         /\ r[x] = "blocked" /\ st[x] # "blocked" => ~AllCompleted(r, dp[x])
<1> DEFINE back    == Returnable(st, dp, g)
           rel     == [d \in back |-> Releases(st, dp, g, pos, d)]
           turn(y) == CHOOSE d \in back : y \in rel[d]
           hits(y) == {d \in back : dp[y] \cap rel[d] # {}}
           r       == Return(st, dp, g, pos)
<1>1. \A d \in back : /\ d \in rel[d] /\ Kind[d] = "work" /\ d \in dp[g] /\ st[d] = "completed"
                      /\ \A h \in rel[d] \ {d} : Kind[h] = "group" /\ st[h] = "completed" /\ h \in Above[d]
  BY PlanAssumption DEF Returnable, Releases, Reopens, UpTo
<1>2. \A y \in Tasks :
        r[y] = IF y = g THEN "blocked"
               ELSE IF \E d \in back : y \in rel[d]
                    THEN IF \E d \in hits(y) : pos[d] > pos[turn(y)] THEN "blocked" ELSE "pending"
               ELSE IF st[y] = "pending" /\ hits(y) # {} THEN "blocked"
               ELSE st[y]
  BY DEF Return
<1>3. \A y \in Tasks : hits(y) # {} <=> \E d \in back : dp[y] \cap rel[d] # {}
  OBVIOUS
<1> HIDE DEF back, rel, turn, hits, r
<1>4. \A y \in Tasks : r[y] = "completed" => st[y] = "completed"
  BY <1>2
<1>5. \A d \in back : \A y \in Tasks : y \in rel[d] => r[y] # "completed"
  BY <1>2
<1>6. st[x] = "completed" /\ r[x] # "completed" /\ x # g =>
        \E d \in dp[g] : x = d \/ x \in Above[d]
  BY <1>1, <1>2
<1>7. ASSUME Kind[x] = "gate", r[x] = "pending"
      PROVE  st[x] = "pending" /\ (AllCompleted(st, dp[x]) => AllCompleted(r, dp[x]))
  <2>1. x # g /\ (\A d \in back : x \notin rel[d]) /\ st[x] = "pending" /\ hits(x) = {}
    BY <1>1, <1>2, <1>7
  <2>2. \A y \in dp[x] : st[y] = "completed" => r[y] = "completed"
    <3> SUFFICES ASSUME NEW y \in dp[x], st[y] = "completed" PROVE r[y] = "completed"
      OBVIOUS
    <3>1. y \in Tasks /\ \A d \in back : y \notin rel[d]
      BY <1>3, <2>1
    <3>2. y # g
      OBVIOUS
    <3>3. QED
      BY <1>2, <3>1, <3>2
  <2>3. QED
    BY <2>1, <2>2 DEF AllCompleted
<1>8. ASSUME r[x] = "blocked", st[x] # "blocked" PROVE ~AllCompleted(r, dp[x])
  <2>0. back # {}
    BY DEF back
  <2>1. \E d \in back : dp[x] \cap rel[d] # {}
    <3>1. CASE x = g
      BY <1>1, <2>0, <3>1
    <3>2. CASE x # g
      <4>1. hits(x) # {}
        BY <1>2, <1>8, <3>2 DEF hits
      <4>2. QED
        BY <1>3, <4>1
    <3>3. QED
      BY <3>1, <3>2
  <2>2. QED
    BY <1>5, <2>1 DEF AllCompleted
<1>9. QED
  BY <1>4, <1>6, <1>7, <1>8 DEF r

-----------------------------------------------------------------------------
(* Blocked rows and gates.                                                 *)

\* What the two invariants say of one row.
RowWaits(x) ==
  /\ status[x] = "blocked" => ~AllCompleted(status, deps[x])
  /\ Kind[x] = "gate" /\ status[x] = "pending" => AllCompleted(status, deps[x])

\* A row keeps its status, and its dependencies theirs.
LEMMA WaitsOn ==
  ASSUME NEW x \in Tasks, RowWaits(x), deps'[x] = deps[x], status'[x] = status[x],
         \A d \in deps[x] : status[d] = "completed" <=> status'[d] = "completed"
  PROVE  RowWaits(x)'
BY DEF RowWaits, AllCompleted

\* Every step keeps blocked what still waits, and pending the gates whose work is done.
LEMMA RowWaitsStep ==
  ASSUME TypeOK, LifeInv, \A y \in Tasks : RowWaits(y), [Next]_vars, NEW x \in Tasks
  PROVE  RowWaits(x)'
<1>0. /\ status \in [Tasks -> Status] /\ deps \in [Tasks -> SUBSET Tasks]
      /\ deps[x] \subseteq Tasks /\ RowWaits(x)
  BY DEF TypeOK
<1>1. CASE WorkMoves
  <2>1. \A d \in Tasks : status[d] = "completed" <=> status'[d] = "completed"
    BY <1>1 DEF WorkMoves, Locking, Active
  <2>2. CASE status'[x] = status[x]
    BY <1>0, <1>1, <2>1, <2>2, WaitsOn DEF WorkMoves
  <2>3. CASE status'[x] # status[x]
    BY <1>1, <2>3 DEF WorkMoves, RowWaits, Locking, Active
  <2>4. QED
    BY <2>2, <2>3
<1>2. CASE CompletesOne
  <2>1. PICK t \in Tasks : /\ status[t] \in Locking \cup {"pending"}
                           /\ status' = Complete(status, deps, t) /\ deps' = deps
    BY <1>2 DEF CompletesOne
  <2>2. status'[x] = "blocked" => ~AllCompleted(status', deps[x])
    BY <1>0, <2>1, CompleteFrees DEF RowWaits
  <2>3. \A d \in Tasks : status[d] = "completed" => status'[d] = "completed"
    BY <1>0, <2>1, CompleteRow DEF FreedRow, ClosedRow
  <2>4. status'[x] = "pending" => status[x] = "pending" \/ AllCompleted(status', deps[x])
    BY <1>0, <2>1, CompleteRow DEF FreedRow
  <2>5. QED
    BY <1>0, <2>1, <2>2, <2>3, <2>4 DEF RowWaits, AllCompleted
<1>3. ASSUME NEW t \in Tasks, CancelTask(t) PROVE RowWaits(x)'
  <2>1. status' = Cancel(status, deps, t) /\ deps' = deps /\ status[t] \notin Terminal \cup {"absent"}
    BY <1>3 DEF CancelTask, settings
  <2>2. status'[x] = "blocked" => ~AllCompleted(status', deps[x])
    BY <1>0, <2>1, CancelFrees DEF RowWaits
  <2>3. \A d \in CancelledWith(status, t) : status[d] # "completed"
    BY <2>1 DEF CancelledWith, OpenDescendants, Terminal
  <2>4. \A d \in Tasks : status[d] = "completed" => status'[d] = "completed"
    BY <1>0, <2>1, <2>3, CancelRow DEF FreedRow, ClosedRow, Terminal
  <2>5. status'[x] = "pending" => status[x] = "pending" \/ AllCompleted(status', deps[x])
    BY <1>0, <2>1, CancelRow DEF FreedRow
  <2>6. QED
    BY <1>0, <2>1, <2>2, <2>4, <2>5 DEF RowWaits, AllCompleted
<1>4. ASSUME NEW g \in Tasks, RejectGate(g) PROVE RowWaits(x)'
  <2>1. /\ Kind[g] = "gate" /\ status[g] = "pending" /\ deps' = deps
        /\ Returnable(status, deps, g) # {}
    BY <1>4 DEF RejectGate, RejectWork, settings
  <2>2. PICK pos : status' = Return(status, deps, g, pos)
    BY <1>4 DEF RejectGate
  <2>3. /\ \A y \in Tasks : status'[y] = "completed" => status[y] = "completed"
        /\ Kind[x] = "gate" /\ status'[x] = "pending" =>
             /\ status[x] = "pending"
             /\ AllCompleted(status, deps[x]) => AllCompleted(status', deps[x])
        /\ status'[x] = "blocked" /\ status[x] # "blocked" => ~AllCompleted(status', deps[x])
    BY <1>0, <2>1, <2>2, ReturnWaits
  <2>4. QED
    BY <1>0, <2>1, <2>3 DEF RowWaits, AllCompleted
<1>5. ASSUME NEW b \in Batches, Create(b) PROVE RowWaits(x)'
  <2>1. /\ deps' = deps
        /\ \A y \in Tasks : status'[y] = IF y \notin b THEN status[y]
                                         ELSE IF Kind[y] # "group" /\ ~AllCompleted(status, deps[y])
                                              THEN "blocked" ELSE "pending"
        /\ \A y \in b : status[y] = "absent"
    BY <1>5 DEF Create, settings
  <2>2. \A d \in Tasks : status[d] = "completed" <=> status'[d] = "completed"
    BY <2>1
  <2>3. CASE x \notin b
    BY <1>0, <2>1, <2>2, <2>3, WaitsOn
  <2>4. CASE x \in b
    BY <1>0, <2>1, <2>2, <2>4 DEF RowWaits, AllCompleted
  <2>5. QED
    BY <2>3, <2>4
<1>6. CASE Reroutes
  <2>0. PICK t \in Tasks : \E dp, fs, ch, chose, clear : Reroute(t, dp, fs, ch, chose, clear)
    BY <1>6 DEF Reroutes
  <2>1. PICK dp : \E fs, ch, chose, clear : Reroute(t, dp, fs, ch, chose, clear)
    BY <2>0
  <2>2. /\ status[t] \notin Terminal \cup {"absent"}
        /\ deps' = [deps EXCEPT ![t] = dp]
        /\ status' = [status EXCEPT ![t] = Requeued(t, dp)]
    BY <2>1 DEF Reroute
  <2>3. \A d \in Tasks : status[d] = "completed" <=> status'[d] = "completed"
    BY <1>0, <2>2 DEF Requeued, Terminal
  <2>4. CASE x # t
    BY <1>0, <2>2, <2>3, <2>4, WaitsOn
  <2>5. CASE x = t
    <3>1. status'[t] = Requeued(t, dp) /\ deps'[t] = dp
      BY <1>0, <2>2
    <3>2. dp \subseteq Tasks
      BY <1>0, <2>1, <2>5 DEF Reroute, Present
    <3>3. status[t] = "review" => status'[t] = "review"
      BY <3>1 DEF Requeued
    <3>4. status[t] # "review" => status'[t] = IF AllCompleted(status, dp) THEN "pending" ELSE "blocked"
      BY <3>1 DEF Requeued
    <3>5. AllCompleted(status, dp) <=> AllCompleted(status', dp)
      BY <2>3, <3>2 DEF AllCompleted
    <3>6. QED
      BY <2>5, <3>1, <3>3, <3>4, <3>5 DEF RowWaits
  <2>6. QED
    BY <2>4, <2>5
<1>7. QED
  BY <1>1, <1>2, <1>3, <1>4, <1>5, <1>6, StatusStep

\* Both invariants hold of every row, in every run of the hub.
LEMMA RowWaitsHolds == Spec => [](\A x \in Tasks : RowWaits(x))
<1>1. Init => \A x \in Tasks : RowWaits(x)
  BY DEF Init, RowWaits
<1>2. TypeOK /\ LifeInv /\ (\A x \in Tasks : RowWaits(x)) /\ [Next]_vars => (\A x \in Tasks : RowWaits(x))'
  BY RowWaitsStep
<1>3. QED
  BY <1>1, <1>2, TypeCorrect, LifeInvariant, PTL DEF Spec

\* Nothing stays blocked once all it depends on is complete: not when a chain of groups ends, a
\* subtree is cancelled, a gate sends work back or the lead rewrites the dependencies.
THEOREM NoLostUnblockHolds == Spec => []NoLostUnblock
<1>1. (\A x \in Tasks : RowWaits(x)) => NoLostUnblock
  BY DEF RowWaits, NoLostUnblock
<1>2. QED
  BY <1>1, RowWaitsHolds, PTL

\* A gate awaits approval only while everything it gates is complete.
THEOREM GateStandsHolds == Spec => []GateStandsOnFinishedWork
<1>1. (\A x \in Tasks : RowWaits(x)) => GateStandsOnFinishedWork
  BY DEF RowWaits, GateStandsOnFinishedWork
<1>2. QED
  BY <1>1, RowWaitsHolds, PTL

-----------------------------------------------------------------------------
(* What is finished.                                                       *)

\* What the rejection of a gate over d may do to a completed row.
SentBack(t) ==
  \E g \in Tasks :
    /\ Kind[g] = "gate" /\ status[g] = "pending" /\ status'[g] = "blocked"
    /\ \E d \in deps[g] : t = d \/ t \in Above[d]

\* A cancelled task stays cancelled; only the rejection of a gate over it, or over a task under
\* it, undoes a completed one.
THEOREM FinishedHolds == Spec => FinishedStaysFinished
<1>1. ASSUME TypeOK, LifeInv, [Next]_vars, NEW t \in Tasks
      PROVE  /\ status[t] = "cancelled" => status'[t] = "cancelled"
             /\ status[t] = "completed" /\ status'[t] # "completed" => SentBack(t)
  <2> DEFINE Keeps == /\ status[t] = "cancelled" => status'[t] = "cancelled"
                      /\ status[t] = "completed" => status'[t] = "completed"
  <2>0. status \in [Tasks -> Status] /\ deps \in [Tasks -> SUBSET Tasks]
    BY <1>1 DEF TypeOK
  <2>1. CASE WorkMoves
    BY <2>1 DEF WorkMoves, Locking, Active
  <2>2. CASE CompletesOne
    <3>1. PICK u \in Tasks : status[u] \in Locking \cup {"pending"} /\ status' = Complete(status, deps, u)
      BY <2>2 DEF CompletesOne
    <3>2. Keeps
      BY <2>0, <3>1, CompleteRow DEF FreedRow, ClosedRow, Terminal, Locking, Active
    <3>3. QED
      BY <3>2
  <2>3. ASSUME NEW u \in Tasks, CancelTask(u) PROVE Keeps
    <3>1. status' = Cancel(status, deps, u) /\ status[u] \notin Terminal \cup {"absent"}
      BY <2>3 DEF CancelTask
    <3>2. \A d \in CancelledWith(status, u) : status[d] \notin Terminal
      BY <3>1 DEF CancelledWith, OpenDescendants
    <3>3. QED
      BY <2>0, <3>1, <3>2, CancelRow DEF FreedRow, ClosedRow, Terminal
  <2>4. ASSUME NEW g \in Tasks, RejectGate(g)
        PROVE  /\ status[t] = "cancelled" => status'[t] = "cancelled"
               /\ status[t] = "completed" /\ status'[t] # "completed" => SentBack(t)
    <3>1. Kind[g] = "gate" /\ status[g] = "pending" /\ Returnable(status, deps, g) # {}
      BY <2>4 DEF RejectGate
    <3>2. PICK pos : status' = Return(status, deps, g, pos)
      BY <2>4 DEF RejectGate
    <3>3. status'[g] = "blocked"
      BY <3>2 DEF Return
    <3>4. status[t] = "completed" /\ status'[t] # "completed" =>
            \E d \in deps[g] : t = d \/ t \in Above[d]
      BY <2>0, <3>1, <3>2, ReturnWaits
    <3>5. status[t] = "cancelled" => status'[t] = "cancelled"
      BY <2>0, <3>1, <3>2, ReturnRow DEF Returnable
    <3>6. QED
      BY <3>1, <3>3, <3>4, <3>5 DEF SentBack
  <2>5. ASSUME NEW b \in Batches, Create(b) PROVE Keeps
    BY <2>5 DEF Create
  <2>6. CASE Reroutes
    <3>0. PICK u \in Tasks : \E dp, fs, ch, chose, clear : Reroute(u, dp, fs, ch, chose, clear)
      BY <2>6 DEF Reroutes
    <3>1. PICK dp : \E fs, ch, chose, clear : Reroute(u, dp, fs, ch, chose, clear)
      BY <3>0
    <3>2. status[u] \notin Terminal /\ status' = [status EXCEPT ![u] = Requeued(u, dp)]
      BY <3>1 DEF Reroute
    <3>3. QED
      BY <2>0, <3>2 DEF Terminal
  <2>7. QED
    BY <1>1, <2>1, <2>2, <2>3, <2>4, <2>5, <2>6, StatusStep
<1>2. TypeOK /\ LifeInv /\ [Next]_vars =>
        [\A t \in Tasks :
           /\ status[t] = "cancelled" => status'[t] = "cancelled"
           /\ status[t] = "completed" /\ status'[t] # "completed" =>
                \E g \in Tasks :
                  /\ Kind[g] = "gate" /\ status[g] = "pending" /\ status'[g] = "blocked"
                  /\ \E d \in deps[g] : t = d \/ t \in Above[d]]_vars
  BY <1>1 DEF SentBack
<1>3. QED
  BY <1>2, TypeCorrect, LifeInvariant, PTL DEF Spec, FinishedStaysFinished

-----------------------------------------------------------------------------
(***************************************************************************)
(* Groups follow their children, at any height of any tree.                *)
(***************************************************************************)
\* GroupsFollowChildren for one group, which was created no later than its children.
FollowsAt(st, g) ==
  Children(st, g) # {} =>
    /\ st[g] # "absent"
    /\ st[g] = "completed" =>
         /\ \A c \in Children(st, g) : st[c] \in Terminal
         /\ \E c \in Children(st, g) : st[c] = "completed"
    /\ st[g] \notin Terminal => \E c \in Children(st, g) : st[c] \notin Terminal

-----------------------------------------------------------------------------
(* Paths.                                                                  *)

\* A group over t has a child on the path from t; what is below the group is below that child.
LEMMA PathStep ==
  ASSUME NEW t \in Tasks, NEW g \in Tasks, NEW c \in Path(t), Parent[c] = g
  PROVE  /\ g \in Above[t]
         /\ c = t => UpTo(t, g) = {g}
         /\ c # t => UpTo(t, g) = UpTo(t, c) \cup {g}
<1>0. c \in Tasks /\ c \in {t} \cup Above[t] /\ g # NoTask /\ Above[t] \subseteq Tasks
  BY PlanAssumption DEF Path
<1>1. Above[c] = {g} \cup Above[g] /\ g \notin Above[g] /\ c \notin Above[c]
  BY <1>0, PlanAssumption
<1>2. g \in Above[t]
  BY <1>0, <1>1, PlanAssumption
<1>3. ASSUME NEW h \in Above[t], g \in Above[h] PROVE h \notin Above[c]
  <2>1. h \notin Above[h] /\ Above[h] \subseteq Tasks
    BY <1>0, PlanAssumption
  <2>2. CASE h = g
    BY <2>1, <2>2, <1>3
  <2>3. CASE h \in Above[g]
    <3>1. Above[h] \subseteq Above[g]
      BY <2>3, PlanAssumption
    <3>2. QED
      BY <1>1, <1>3, <3>1
  <2>4. QED
    BY <1>1, <2>2, <2>3
<1>4. CASE c = t
  BY <1>2, <1>3, <1>4 DEF UpTo
<1>5. CASE c # t
  <2>1. c \in Above[t]
    BY <1>0, <1>5
  <2>2. UpTo(t, g) \subseteq UpTo(t, c) \cup {g}
    <3> SUFFICES ASSUME NEW h \in Above[t], g \in Above[h], h # g PROVE h = c \/ c \in Above[h]
      BY DEF UpTo
    <3>1. h \notin Above[c]
      BY <1>3
    <3>2. h = c \/ h \in Above[c] \/ c \in Above[h]
      BY <2>1, PlanAssumption
    <3>3. QED
      BY <3>1, <3>2
  <2>3. UpTo(t, c) \cup {g} \subseteq UpTo(t, g)
    <3>1. ASSUME NEW h \in Above[t], c \in Above[h] PROVE g \in Above[h]
      <4>1. Above[c] \subseteq Above[h]
        BY <1>0, <3>1, PlanAssumption
      <4>2. QED
        BY <1>1, <4>1
    <3>2. QED
      BY <1>1, <1>2, <3>1 DEF UpTo
  <2>4. QED
    BY <1>2, <1>5, <2>2, <2>3
<1>6. QED
  BY <1>2, <1>4, <1>5

\* Every group over t has such a child.
LEMMA PathChild ==
  ASSUME NEW t \in Tasks, NEW g \in Above[t]
  PROVE  g \in Tasks /\ \E c \in Path(t) : c \in Tasks /\ Parent[c] = g
<1>1. Above[t] \subseteq Tasks /\ \E c \in {t} \cup Above[t] : Parent[c] = g
  BY PlanAssumption
<1>2. QED
  BY <1>1 DEF Path

\* The walk ends a group if it ends the child it comes from and nothing else is open there.
LEMMA ClosedStep ==
  ASSUME NEW st, NEW t \in Tasks, NEW g \in Tasks, NEW c \in Path(t), Parent[c] = g
  PROVE  g \in Closed(st, t) <=> Closes(st, t, g) /\ (c = t \/ c \in Closed(st, t))
<1>1. c # t => c \in Above[t]
  BY DEF Path
<1>2. QED
  BY <1>1, PathStep DEF Closed

\* A closing group is completed if a child off the path is, or the one it comes from.
LEMMA SomeStep ==
  ASSUME NEW st, NEW t \in Tasks, NEW g \in Tasks, NEW c \in Path(t), Parent[c] = g
  PROVE  SomeCompleted(st, t, g) <=>
           \/ \E x \in Children(st, g) \ Path(t) : st[x] = "completed"
           \/ c # t /\ SomeCompleted(st, t, c)
<1>1. CASE c = t
  BY <1>1, PathStep DEF SomeCompleted
<1>2. CASE c # t
  BY <1>2, PathStep DEF SomeCompleted
<1>3. QED
  BY <1>1, <1>2

-----------------------------------------------------------------------------
(* The cascades keep groups and children in step.                          *)

\* A change that finishes nothing, starts nothing finished again and adds no row.
LEMMA SameFollows ==
  ASSUME NEW st, NEW new, NEW g \in Tasks, FollowsAt(st, g),
         \A x \in Tasks : /\ new[x] = "absent" <=> st[x] = "absent"
                          /\ st[x] \in Terminal \/ new[x] \in Terminal => new[x] = st[x]
  PROVE  FollowsAt(new, g)
<1>1. Children(new, g) = Children(st, g)
  BY DEF Children
<1>2. \A x \in Tasks : (new[x] \in Terminal <=> st[x] \in Terminal) /\ (new[x] = "completed" <=> st[x] = "completed")
  BY DEF Terminal
<1>3. QED
  BY <1>1, <1>2 DEF FollowsAt, Children

\* Completing t.
LEMMA CompleteFollows ==
  ASSUME NEW st \in [Tasks -> Status], NEW dp \in [Tasks -> SUBSET Tasks],
         NEW t \in Tasks, Kind[t] # "group", st[t] \notin Terminal \cup {"absent"},
         NEW g \in Tasks, Kind[g] = "group", FollowsAt(st, g)
  PROVE  FollowsAt(Complete(st, dp, t), g)
<1> DEFINE done == {t} \cup Closed(st, t)
           mid  == [y \in Tasks |-> IF y \in done THEN "completed" ELSE st[y]]
           new  == Complete(st, dp, t)
<1>1. new = Unblock(mid, dp, done)
  BY DEF Complete
<1>2. \A y \in Closed(st, t) : Closes(st, t, y) /\ y \in Above[t]
  BY DEF Closed, UpTo
<1>3. \A y \in done : st[y] \notin Terminal \cup {"absent"}
  BY <1>2 DEF Closes
<1>4. /\ \A y \in Tasks : y \in done => new[y] = "completed"
      /\ \A y \in Tasks : y \notin done => new[y] = st[y] \/ (st[y] = "blocked" /\ new[y] = "pending")
  BY <1>1 DEF Unblock, Unblocked
<1>5. Children(new, g) = Children(st, g)
  BY <1>3, <1>4 DEF Children
<1> SUFFICES FollowsAt(new, g)
  OBVIOUS
<1> HIDE DEF new, mid
<1>6. \A y \in Tasks : st[y] \in Terminal => new[y] = st[y]
  BY <1>3, <1>4 DEF Terminal
<1>7. \A y \in Tasks : y \notin done /\ st[y] \notin Terminal => new[y] \notin Terminal
  BY <1>4 DEF Terminal
<1>8. t \in done /\ done \subseteq Path(t)
  BY <1>2 DEF Path
<1>9. CASE g \in Closed(st, t)
  <2>1. PICK c \in Path(t) : c \in Tasks /\ Parent[c] = g
    BY <1>2, <1>9, PathChild
  <2>2. Closes(st, t, g) /\ c \in done
    BY <1>9, <2>1, ClosedStep
  <2>3. c \in Children(new, g) /\ new[c] = "completed"
    BY <1>3, <1>4, <1>5, <2>1, <2>2 DEF Children
  <2>4. ASSUME NEW y \in Children(st, g) PROVE new[y] \in Terminal
    <3>1. y \in Tasks /\ Parent[y] = g
      BY <2>4 DEF Children
    <3>2. CASE y \in Path(t)
      <4>1. y \in done
        BY <1>9, <3>1, <3>2, ClosedStep
      <4>2. QED
        BY <1>4, <3>1, <4>1 DEF Terminal
    <3>3. CASE y \notin Path(t)
      <4>1. st[y] \in Terminal
        BY <2>2, <2>4, <3>3 DEF Closes
      <4>2. QED
        BY <1>6, <3>1, <4>1
    <3>4. QED
      BY <3>2, <3>3
  <2>5. new[g] = "completed"
    BY <1>4, <1>9
  <2>6. QED
    BY <1>5, <2>3, <2>4, <2>5 DEF FollowsAt, Terminal
<1>10. CASE g \notin Closed(st, t)
  <2>1. g \notin done
    BY <1>10
  <2>2. ASSUME Children(st, g) # {}, new[g] = "completed"
        PROVE  /\ \A c \in Children(st, g) : new[c] \in Terminal
               /\ \E c \in Children(st, g) : new[c] = "completed"
    <3>1. st[g] = "completed"
      BY <1>4, <2>1, <2>2
    <3>2. QED
      BY <1>6, <2>2, <3>1 DEF FollowsAt, Children, Terminal
  <2>3. ASSUME Children(st, g) # {}, new[g] \notin Terminal
        PROVE  \E c \in Children(st, g) : new[c] \notin Terminal
    <3>1. st[g] \notin Terminal
      BY <1>6, <2>3
    <3>2. PICK c \in Children(st, g) : st[c] \notin Terminal
      BY <2>3, <3>1 DEF FollowsAt
    <3>3. c \in Tasks /\ Parent[c] = g
      BY DEF Children
    <3>4. CASE c \notin done
      BY <1>7, <3>2, <3>3, <3>4
    <3>5. CASE c \in done
      <4>1. ~Closes(st, t, g)
        BY <1>8, <1>10, <3>3, <3>5, ClosedStep
      <4>2. st[g] # "absent"
        BY <2>3 DEF FollowsAt
      <4>3. PICK y \in Children(st, g) \ Path(t) : st[y] \notin Terminal
        BY <3>1, <4>1, <4>2 DEF Closes
      <4>4. QED
        BY <1>7, <1>8, <4>3 DEF Children
    <3>6. QED
      BY <3>4, <3>5
  <2>4. Children(st, g) # {} => new[g] # "absent"
    BY <1>4, <2>1 DEF FollowsAt
  <2>5. QED
    BY <1>5, <2>2, <2>3, <2>4 DEF FollowsAt
<1>11. QED
  BY <1>9, <1>10

\* Cancelling t, a group with all that is open under it or a single task.
LEMMA CancelFollows ==
  ASSUME NEW st \in [Tasks -> Status], NEW dp \in [Tasks -> SUBSET Tasks],
         NEW t \in Tasks, st[t] \notin Terminal \cup {"absent"},
         NEW g \in Tasks, Kind[g] = "group", FollowsAt(st, g)
  PROVE  FollowsAt(Cancel(st, dp, t), g)
<1> DEFINE gone == CancelledWith(st, t)
           base == [y \in Tasks |-> IF y \in gone THEN "cancelled" ELSE st[y]]
           ends == Closed(base, t)
           done == {y \in ends : SomeCompleted(base, t, y)}
           mid  == [y \in Tasks |-> IF y \in done THEN "completed"
                                    ELSE IF y \in ends THEN "cancelled" ELSE base[y]]
           new  == Cancel(st, dp, t)
<1>1. new = Unblock(mid, dp, done)
  BY DEF Cancel
<1>2. \A y \in ends : Closes(base, t, y) /\ y \in Above[t]
  BY DEF Closed, UpTo
<1>3. \A y \in ends : y \notin gone /\ st[y] \notin Terminal \cup {"absent"}
  <2>1. Above[t] \subseteq Tasks
    BY PlanAssumption
  <2>2. QED
    BY <1>2, <2>1 DEF Closes, Terminal
<1>4. /\ \A y \in gone : st[y] \notin Terminal \cup {"absent"}
      /\ t \in gone
      /\ \A y \in gone \ {t} : Kind[t] = "group" /\ t \in Above[y]
      /\ \A y \in Tasks : Kind[t] = "group" /\ t \in Above[y] /\ st[y] \notin Terminal \cup {"absent"} => y \in gone
  BY DEF CancelledWith, OpenDescendants
<1>5. /\ \A y \in Tasks : y \in done => new[y] = "completed"
      /\ \A y \in Tasks : y \in ends \ done => new[y] = "cancelled"
      /\ \A y \in Tasks : y \in gone => new[y] = "cancelled"
      /\ \A y \in Tasks : y \notin ends \cup gone => new[y] = st[y] \/ (st[y] = "blocked" /\ new[y] = "pending")
  BY <1>1, <1>3 DEF Unblock, Unblocked
<1>6. \A y \in Tasks : base[y] = IF y \in gone THEN "cancelled" ELSE st[y]
  OBVIOUS
<1>7. done = {y \in ends : SomeCompleted(base, t, y)} /\ ends = Closed(base, t)
  OBVIOUS
<1> SUFFICES FollowsAt(new, g)
  OBVIOUS
<1> HIDE DEF new, mid, base, ends, done, gone
<1>8. Children(new, g) = Children(st, g) /\ Children(base, g) = Children(st, g)
  BY <1>3, <1>4, <1>5, <1>6, <1>7 DEF Children
<1>9. \A y \in Tasks : st[y] \in Terminal => new[y] = st[y]
  BY <1>3, <1>4, <1>5 DEF Terminal
<1>10. \A y \in Tasks : y \notin ends \cup gone /\ st[y] \notin Terminal => new[y] \notin Terminal
  BY <1>5 DEF Terminal
<1>11. ends \subseteq Path(t) /\ t \in Path(t)
  BY <1>2 DEF Path
<1>12. ASSUME NEW y \in Tasks, base[y] \in Terminal PROVE new[y] \in Terminal /\ (base[y] = "completed" => new[y] = "completed")
  BY <1>5, <1>6, <1>9, <1>12 DEF Terminal
<1>13. CASE g \in ends
  <2>1. PICK c \in Path(t) : c \in Tasks /\ Parent[c] = g
    BY <1>2, <1>13, PathChild
  <2>2. Closes(base, t, g) /\ (c = t \/ c \in ends)
    BY <1>7, <1>13, <2>1, ClosedStep
  <2>3. c \in Children(st, g)
    BY <1>3, <1>4, <2>1, <2>2 DEF Children
  <2>4. ASSUME NEW y \in Children(st, g) PROVE new[y] \in Terminal
    <3>1. y \in Tasks /\ Parent[y] = g
      BY <2>4 DEF Children
    <3>2. CASE y \in Path(t)
      <4>1. y = t \/ y \in ends
        BY <1>7, <1>13, <3>1, <3>2, ClosedStep
      <4>2. QED
        BY <1>4, <1>5, <3>1, <4>1 DEF Terminal
    <3>3. CASE y \notin Path(t)
      <4>1. base[y] \in Terminal
        BY <1>8, <2>2, <2>4, <3>3 DEF Closes
      <4>2. QED
        BY <1>12, <3>1, <4>1
    <3>4. QED
      BY <3>2, <3>3
  <2>5. ASSUME new[g] = "completed" PROVE \E y \in Children(st, g) : new[y] = "completed"
    <3>1. SomeCompleted(base, t, g)
      BY <1>5, <1>7, <1>13, <2>5
    <3>2. CASE \E y \in Children(base, g) \ Path(t) : base[y] = "completed"
      BY <1>8, <1>12, <3>2 DEF Children, Terminal
    <3>3. CASE c # t /\ SomeCompleted(base, t, c)
      <4>1. c \in done
        BY <1>7, <2>2, <3>3
      <4>2. QED
        BY <1>5, <2>1, <2>3, <4>1
    <3>4. QED
      BY <2>1, <3>1, <3>2, <3>3, SomeStep
  <2>6. new[g] \in Terminal
    BY <1>5, <1>13 DEF Terminal
  <2>7. QED
    BY <1>8, <2>4, <2>5, <2>6 DEF FollowsAt, Terminal
<1>14. CASE g \in gone
  <2>1. new[g] = "cancelled"
    BY <1>5, <1>14
  <2>2. QED
    BY <2>1 DEF FollowsAt, Terminal
<1>15. CASE g \notin ends \cup gone
  <2>1. new[g] = st[g] \/ (st[g] = "blocked" /\ new[g] = "pending")
    BY <1>5, <1>15
  <2>2. ASSUME Children(st, g) # {}, new[g] = "completed"
        PROVE  /\ \A c \in Children(st, g) : new[c] \in Terminal
               /\ \E c \in Children(st, g) : new[c] = "completed"
    <3>1. st[g] = "completed"
      BY <2>1, <2>2
    <3>2. QED
      BY <1>9, <2>2, <3>1 DEF FollowsAt, Children, Terminal
  <2>3. ASSUME Children(st, g) # {}, new[g] \notin Terminal
        PROVE  \E c \in Children(st, g) : new[c] \notin Terminal
    <3>1. st[g] \notin Terminal \cup {"absent"} /\ base[g] = st[g]
      BY <1>6, <1>9, <1>15, <2>3 DEF FollowsAt
    <3>2. PICK c \in Children(st, g) : st[c] \notin Terminal
      BY <2>3, <3>1 DEF FollowsAt
    <3>3. c \in Tasks /\ Parent[c] = g /\ g # NoTask
      BY PlanAssumption DEF Children
    <3>4. ASSUME c = t \/ c \in ends PROVE \E y \in Children(st, g) : new[y] \notin Terminal
      <4>1. ~Closes(base, t, g)
        BY <1>7, <1>11, <1>15, <3>3, <3>4, ClosedStep
      <4>2. PICK y \in Children(st, g) \ Path(t) : base[y] \notin Terminal
        BY <1>8, <3>1, <4>1 DEF Closes
      <4>3. y \in Tasks /\ y \notin ends \cup gone /\ st[y] \notin Terminal
        BY <1>6, <1>11, <4>2 DEF Children, Terminal
      <4>4. QED
        BY <1>10, <4>2, <4>3
    <3>5. ASSUME c \in gone, c # t PROVE FALSE
      <4>1. Kind[t] = "group" /\ t \in Above[c] /\ Above[c] = {g} \cup Above[g]
        BY <1>4, <3>3, <3>5, PlanAssumption
      <4>2. t # g
        BY <1>4, <1>15
      <4>3. g \in gone
        BY <1>4, <3>1, <4>1, <4>2
      <4>4. QED
        BY <1>15, <4>3
    <3>6. CASE c \notin ends \cup gone
      BY <1>10, <3>2, <3>3, <3>6
    <3>7. QED
      BY <3>4, <3>5, <3>6
  <2>4. Children(st, g) # {} => new[g] # "absent"
    BY <2>1 DEF FollowsAt
  <2>5. QED
    BY <1>8, <2>2, <2>3, <2>4 DEF FollowsAt
<1>16. QED
  BY <1>13, <1>14, <1>15

\* What a rejected gate takes back: its finished work and the completed groups over that, whatever
\* the order.
LEMMA ReturnTakes ==
  ASSUME NEW st \in [Tasks -> Status], NEW dp \in [Tasks -> SUBSET Tasks],
         NEW g \in Tasks, NEW pos \in Orders(Returnable(st, dp, g)), NEW x \in Tasks,
         NEW d \in Returnable(st, dp, g), x = d \/ x \in Reopens(st, d)
  PROVE  \E e \in Returnable(st, dp, g) : x \in Releases(st, dp, g, pos, e)
<1> DEFINE back == Returnable(st, dp, g)
           over == {e \in back : x \in Reopens(st, e)}
<1>1. CASE x = d
  BY <1>1 DEF Releases
<1>2. CASE x # d
  <2>1. IsFiniteSet(back)
    <3>1. dp[g] \subseteq Tasks /\ back \subseteq Tasks
      BY DEF Returnable
    <3>2. QED
      BY <3>1, PlanAssumption, FS_Subset
  <2>2. \A e \in back : pos[e] \in Nat
    <3>1. Cardinality(back) \in Nat
      BY <2>1, FS_CardinalityType
    <3>2. pos \in [back -> 1..Cardinality(back)]
      BY DEF Orders
    <3>3. QED
      BY <3>1, <3>2
  <2>3. {pos[e] : e \in over} \subseteq Nat /\ {pos[e] : e \in over} # {}
    BY <1>2, <2>2
  <2>4. PICK n \in {pos[e] : e \in over} : \A m \in {pos[e] : e \in over} : n <= m
    BY <2>3, Least
  <2>5. PICK e \in over : n = pos[e]
    BY <2>4
  <2>6. \A f \in back : pos[f] < pos[e] => x \notin Reopens(st, f)
    <3> SUFFICES ASSUME NEW f \in back, pos[f] < pos[e], x \in Reopens(st, f) PROVE FALSE
      OBVIOUS
    <3>1. n <= pos[f]
      BY <2>4
    <3>2. QED
      BY <2>2, <2>5, <3>1
  <2>7. QED
    BY <2>5, <2>6 DEF Releases
<1>3. QED
  BY <1>1, <1>2

\* Sending work back through gate q.
LEMMA ReturnFollows ==
  ASSUME NEW st \in [Tasks -> Status], NEW dp \in [Tasks -> SUBSET Tasks],
         NEW q \in Tasks, Kind[q] = "gate", st[q] = "pending", NEW pos \in Orders(Returnable(st, dp, q)),
         NEW g \in Tasks, Kind[g] = "group", FollowsAt(st, g)
  PROVE  FollowsAt(Return(st, dp, q, pos), g)
<1> DEFINE back     == Returnable(st, dp, q)
           rel      == [d \in back |-> Releases(st, dp, q, pos, d)]
           taken(y) == \E d \in back : y = d \/ y \in Reopens(st, d)
           new      == Return(st, dp, q, pos)
<1>1. \A y \in Tasks : taken(y) <=> \E d \in back : y \in rel[d]
  BY ReturnTakes DEF Releases
<1>2. \A y \in Tasks :
        /\ taken(y) => new[y] \in Waiting
        /\ ~taken(y) => new[y] = st[y] \/ (st[y] = "pending" /\ new[y] = "blocked")
  BY <1>1 DEF Return, Waiting
<1>3. \A y \in Tasks : taken(y) => st[y] = "completed"
  BY PlanAssumption DEF Returnable, Reopens, UpTo
<1>4. \A d \in back : d \in Tasks /\ Kind[d] = "work"
  BY DEF Returnable
<1> SUFFICES FollowsAt(new, g)
  OBVIOUS
<1> HIDE DEF new, back, rel
<1>5. Children(new, g) = Children(st, g)
  BY <1>2, <1>3 DEF Children, Waiting
<1>6. \A y \in Tasks : /\ st[y] \notin Terminal => new[y] \notin Terminal
                       /\ ~taken(y) /\ st[y] \in Terminal => new[y] = st[y]
  BY <1>2 DEF Terminal, Waiting
<1>7. ASSUME NEW d \in back, NEW c \in Path(d), c \in Tasks, Parent[c] = g
      PROVE  g \in Reopens(st, d) <=> st[g] = "completed" /\ (c = d \/ c \in Reopens(st, d))
  <2>1. d \in Tasks /\ (c # d => c \in Above[d])
    BY <1>4 DEF Path
  <2>2. QED
    BY <2>1, <1>7, PathStep DEF Reopens
<1>8. ASSUME Children(st, g) # {}, new[g] = "completed"
      PROVE  /\ \A c \in Children(st, g) : new[c] \in Terminal
             /\ \E c \in Children(st, g) : new[c] = "completed"
  <2>1. ~taken(g) /\ st[g] = "completed"
    BY <1>2, <1>8 DEF Waiting
  <2>2. ASSUME NEW c \in Tasks, Parent[c] = g PROVE ~taken(c)
    <3> SUFFICES ASSUME NEW d \in back, c = d \/ c \in Reopens(st, d) PROVE FALSE
      OBVIOUS
    <3>1. c \in Path(d)
      BY DEF Path, Reopens
    <3>2. g \in Reopens(st, d)
      BY <1>7, <2>1, <2>2, <3>1
    <3>3. QED
      BY <2>1, <3>2
  <2>3. \A c \in Children(st, g) : st[c] \in Terminal => new[c] = st[c]
    BY <1>6, <2>2 DEF Children
  <2>4. QED
    BY <1>8, <2>1, <2>3 DEF FollowsAt, Terminal
<1>9. ASSUME Children(st, g) # {}, new[g] \notin Terminal
      PROVE  \E c \in Children(st, g) : new[c] \notin Terminal
  <2>1. CASE st[g] \notin Terminal
    BY <1>6, <1>9, <2>1 DEF FollowsAt, Children
  <2>2. CASE st[g] \in Terminal
    <3>1. taken(g)
      BY <1>6, <1>9, <2>2
    <3>2. PICK d \in back : g \in Reopens(st, d)
      BY <1>4, <3>1
    <3>3. d \in Tasks /\ g \in Above[d]
      BY <1>4, <3>2 DEF Reopens
    <3>4. PICK c \in Path(d) : c \in Tasks /\ Parent[c] = g
      BY <3>3, PathChild
    <3>5. c = d \/ c \in Reopens(st, d)
      BY <1>7, <3>2, <3>4
    <3>6. taken(c)
      BY <3>5
    <3>7. new[c] \in Waiting /\ c \in Children(st, g)
      BY <1>2, <1>3, <3>4, <3>6 DEF Children
    <3>8. QED
      BY <3>7 DEF Waiting, Terminal
  <2>3. QED
    BY <2>1, <2>2
<1>10. Children(st, g) # {} => new[g] # "absent"
  BY <1>2 DEF FollowsAt, Waiting
<1>11. QED
  BY <1>5, <1>8, <1>9, <1>10 DEF FollowsAt

-----------------------------------------------------------------------------
(* The invariant.                                                          *)

GroupInv == \A g \in Tasks : Kind[g] = "group" => FollowsAt(status, g)

\* No plan is attached under a group that exists already: what tree.ts allows with `parentId` can
\* break the invariant (a task added under a completed group).
WholePlans == \A b \in Batches : \A t \in b : Parent[t] \in b \cup {NoTask}

\* Every step keeps a group in step with its children.
LEMMA GroupStep ==
  ASSUME WholePlans, TypeOK, LifeInv, GroupInv, [Next]_vars, NEW g \in Tasks, Kind[g] = "group"
  PROVE  FollowsAt(status', g)
<1>0. /\ status \in [Tasks -> Status] /\ deps \in [Tasks -> SUBSET Tasks]
      /\ FollowsAt(status, g)
  BY DEF TypeOK, GroupInv
<1>1. CASE WorkMoves
  <2>1. \A x \in Tasks : /\ status'[x] = "absent" <=> status[x] = "absent"
                         /\ status[x] \in Terminal \/ status'[x] \in Terminal => status'[x] = status[x]
    BY <1>1 DEF WorkMoves, Locking, Active, Terminal
  <2>2. QED
    BY <1>0, <2>1, SameFollows
<1>2. CASE CompletesOne
  <2>1. PICK t \in Tasks : /\ Kind[t] # "group" /\ status[t] \in Locking \cup {"pending"}
                           /\ status' = Complete(status, deps, t)
    BY <1>2 DEF CompletesOne
  <2>2. status[t] \notin Terminal \cup {"absent"}
    BY <2>1 DEF Locking, Active, Terminal
  <2>3. QED
    BY <1>0, <2>1, <2>2, CompleteFollows
<1>3. ASSUME NEW t \in Tasks, CancelTask(t) PROVE FollowsAt(status', g)
  <2>1. status' = Cancel(status, deps, t) /\ status[t] \notin Terminal \cup {"absent"}
    BY <1>3 DEF CancelTask
  <2>2. QED
    BY <1>0, <2>1, CancelFollows
<1>4. ASSUME NEW q \in Tasks, RejectGate(q) PROVE FollowsAt(status', g)
  <2>1. Kind[q] = "gate" /\ status[q] = "pending"
    BY <1>4 DEF RejectGate
  <2>2. PICK pos \in Orders(Returnable(status, deps, q)) : status' = Return(status, deps, q, pos)
    BY <1>4 DEF RejectGate
  <2>3. QED
    BY <1>0, <2>1, <2>2, ReturnFollows
<1>5. ASSUME NEW b \in Batches, Create(b) PROVE FollowsAt(status', g)
  <2>1. /\ \A y \in Tasks : y \in b => status[y] = "absent" /\ status'[y] \in {"pending", "blocked"}
        /\ \A y \in Tasks : y \notin b => status'[y] = status[y]
        /\ b \subseteq Tasks
    BY <1>5, ConductorAssumption DEF Create
  <2>2. CASE g \in b
    <3>1. Children(status, g) = {}
      BY <1>0, <2>1, <2>2 DEF FollowsAt
    <3>2. \A c \in Children(status', g) : c \in b
      BY <2>1, <3>1 DEF Children
    <3>3. \A c \in Children(status', g) : status'[c] \notin Terminal
      BY <2>1, <3>2 DEF Terminal
    <3>4. status'[g] \notin Terminal \cup {"absent"}
      BY <2>1, <2>2 DEF Terminal
    <3>5. QED
      BY <3>3, <3>4 DEF FollowsAt, Terminal
  <2>3. CASE g \notin b
    <3>1. \A c \in Tasks : Parent[c] = g => c \notin b
      BY <1>5, <2>3, PlanAssumption DEF WholePlans
    <3>2. Children(status', g) = Children(status, g)
      BY <2>1, <3>1 DEF Children
    <3>3. status'[g] = status[g] /\ \A c \in Children(status, g) : status'[c] = status[c]
      BY <2>1, <2>3, <3>1 DEF Children
    <3>4. QED
      BY <1>0, <3>2, <3>3 DEF FollowsAt
  <2>4. QED
    BY <2>2, <2>3
<1>6. CASE Reroutes
  <2>0. PICK t \in Tasks : \E dp, fs, ch, chose, clear : Reroute(t, dp, fs, ch, chose, clear)
    BY <1>6 DEF Reroutes
  <2>1. PICK dp : \E fs, ch, chose, clear : Reroute(t, dp, fs, ch, chose, clear)
    BY <2>0
  <2>2. status[t] \notin Terminal \cup {"absent"} /\ status' = [status EXCEPT ![t] = Requeued(t, dp)]
    BY <2>1 DEF Reroute
  <2>3. \A x \in Tasks : /\ status'[x] = "absent" <=> status[x] = "absent"
                         /\ status[x] \in Terminal \/ status'[x] \in Terminal => status'[x] = status[x]
    BY <1>0, <2>2 DEF Requeued, Terminal
  <2>4. QED
    BY <1>0, <2>3, SameFollows
<1>7. QED
  BY <1>1, <1>2, <1>3, <1>4, <1>5, <1>6, StatusStep

\* A group is completed exactly while its children are all finished, and an open one has something
\* to wait for, at any height of any tree, provided that every plan is created whole.
THEOREM GroupsFollowHolds ==
  ASSUME WholePlans PROVE Spec => []GroupsFollowChildren
<1>1. Init => GroupInv
  BY DEF Init, GroupInv, FollowsAt, Children
<1>2. TypeOK /\ LifeInv /\ GroupInv /\ [Next]_vars => GroupInv'
  BY GroupStep DEF GroupInv, FollowsAt, Children
<1>3. GroupInv => GroupsFollowChildren
  BY DEF GroupInv, FollowsAt, GroupsFollowChildren
<1>4. QED
  BY <1>1, <1>2, <1>3, TypeCorrect, LifeInvariant, PTL DEF Spec

-----------------------------------------------------------------------------
(***************************************************************************)
(* Who waits for whom.  The rejection of a gate makes finished tasks wait  *)
(* again without a look at what was rerouted meanwhile, and can close a    *)
(* cycle (the run "cycle"); nothing else can.                              *)
(***************************************************************************)

\* What tree.ts refuses to create: a cycle of dependencies and of groups that wait for children.
PlansAcyclic ==
  \A b \in Batches : \A S \in SUBSET b :
    S # {} => \E t \in S : (InitDeps[t] \cup {c \in Tasks : Parent[c] = t}) \cap S = {}

\* Every set of unfinished tasks has one that waits for none of the others.
NoCycle(st, dp) ==
  \A S \in SUBSET Unfinished(st) : S # {} => \E t \in S : WaitsFor(st, dp, t) \cap S = {}

WaitInv ==
  /\ NoCycle(status, deps)
  /\ \A t \in Tasks : status[t] = "absent" => deps[t] = InitDeps[t]
  /\ \A t \in Present : deps[t] \subseteq Present

\* A step after which no more tasks are unfinished, and no row comes or goes, closes no cycle.
LEMMA FewerWait ==
  ASSUME WaitInv, deps' = deps,
         \A t \in Tasks : /\ status'[t] = "absent" <=> status[t] = "absent"
                          /\ status[t] \in Terminal => status'[t] \in Terminal
  PROVE  WaitInv'
<1>1. Unfinished(status') \subseteq Unfinished(status)
  BY DEF Unfinished
<1>2. \A t \in Tasks : WaitsFor(status', deps, t) = WaitsFor(status, deps, t)
  BY DEF WaitsFor, Children
<1>3. NoCycle(status', deps)
  BY <1>1, <1>2 DEF NoCycle, WaitInv, Unfinished
<1>4. QED
  BY <1>3 DEF WaitInv, Present

\* A plan that is created whole and has no cycle of its own closes none.
LEMMA CreateWaits ==
  ASSUME WholePlans, PlansAcyclic, TypeOK, WaitInv, NEW b \in Batches, Create(b)
  PROVE  WaitInv'
<1>1. /\ b \subseteq Tasks /\ UNCHANGED deps
      /\ \A t \in b : status[t] = "absent" /\ status'[t] \in {"pending", "blocked"}
      /\ \A t \in Tasks \ b : status'[t] = status[t]
      /\ \A t \in b : deps[t] \subseteq b \cup Present
  BY ConductorAssumption DEF Create, settings
<1>2. Present' = Present \cup b /\ Present \cap b = {}
  BY <1>1 DEF Present
<1>3. \A t \in Tasks \ b : \A c \in Children(status', t) : c \notin b
  BY <1>1, PlanAssumption DEF WholePlans, Children
<1>4. \A t \in Tasks \ b : Children(status', t) = Children(status, t)
  BY <1>1, <1>3 DEF Children
<1>5. ASSUME NEW S \in SUBSET Unfinished(status'), S # {}
      PROVE  \E t \in S : WaitsFor(status', deps, t) \cap S = {}
  <2>0. S \subseteq Tasks /\ \A t \in S \ b : t \in Unfinished(status) /\ t \in Present
    BY <1>1 DEF Unfinished, Present
  <2>1. CASE S \subseteq b
    <3>1. PICK t \in S : (InitDeps[t] \cup {c \in Tasks : Parent[c] = t}) \cap S = {}
      BY <1>5, <2>1 DEF PlansAcyclic
    <3>2. deps[t] = InitDeps[t]
      BY <1>1, <2>0, <2>1 DEF WaitInv
    <3>3. QED
      BY <3>1, <3>2 DEF WaitsFor, Children
  <2>2. CASE ~(S \subseteq b)
    <3>1. PICK t \in S \ b : WaitsFor(status, deps, t) \cap (S \ b) = {}
      BY <2>0, <2>2 DEF WaitInv, NoCycle
    <3>2. deps[t] \subseteq Present /\ t \in Tasks \ b
      BY <2>0 DEF WaitInv
    <3>3. WaitsFor(status', deps, t) = WaitsFor(status, deps, t)
      BY <1>4, <3>2 DEF WaitsFor
    <3>4. WaitsFor(status', deps, t) \cap b = {}
      BY <1>2, <1>3, <3>2 DEF WaitsFor
    <3>5. QED
      BY <3>1, <3>3, <3>4
  <2>3. QED
    BY <2>1, <2>2
<1>6. \A t \in Tasks : status'[t] = "absent" => deps'[t] = InitDeps[t]
  BY <1>1 DEF WaitInv
<1>7. \A t \in Present' : deps'[t] \subseteq Present'
  BY <1>1, <1>2 DEF WaitInv
<1>8. QED
  BY <1>1, <1>5, <1>6, <1>7 DEF WaitInv, NoCycle

\* A reroute that the check lets through closes no cycle: what the rerouted task would wait for,
\* directly or not, is a set without it that waits only for itself, and had no cycle before.
LEMMA RerouteWaits ==
  ASSUME TypeOK, WaitInv, NEW t \in Tasks, NEW dp \in SUBSET Tasks, NEW fs, NEW ch, NEW chose, NEW clear,
         Reroute(t, dp, fs, ch, chose, clear)
  PROVE  WaitInv'
<1>1. /\ deps' = [deps EXCEPT ![t] = dp] /\ deps \in [Tasks -> SUBSET Tasks]
      /\ status[t] \notin Terminal \cup {"absent"}
      /\ status' = [status EXCEPT ![t] = Requeued(t, dp)] /\ status \in [Tasks -> Status]
      /\ dp # deps[t] => dp \subseteq Present /\ ~ClosesCycle(t, deps')
  BY DEF Reroute, TypeOK
<1>2. /\ \A x \in Tasks : status'[x] = "absent" <=> status[x] = "absent"
      /\ Unfinished(status') = Unfinished(status)
  BY <1>1 DEF Requeued, Unfinished, Terminal
<1>3. \A x \in Tasks : x # t => WaitsFor(status', deps', x) = WaitsFor(status, deps, x)
  BY <1>1, <1>2 DEF WaitsFor, Children
<1>4. NoCycle(status', deps')
  <2>1. CASE dp = deps[t]
    BY <1>1, <1>2, <2>1 DEF NoCycle, WaitInv, WaitsFor, Children, Unfinished
  <2>2. CASE dp # deps[t]
    <3>1. PICK T \in SUBSET Unfinished(status) :
            /\ WaitsFor(status, deps', t) \cap Unfinished(status) \subseteq T
            /\ \A x \in T : WaitsFor(status, deps', x) \cap Unfinished(status) \subseteq T
            /\ t \notin T
      BY <1>1, <2>2 DEF ClosesCycle
    <3>2. \A x \in Tasks : WaitsFor(status', deps', x) = WaitsFor(status, deps', x)
      BY <1>2 DEF WaitsFor, Children
    <3>3. SUFFICES ASSUME NEW S \in SUBSET Unfinished(status), S # {},
                          \A x \in S : WaitsFor(status', deps', x) \cap S # {}
                   PROVE  FALSE
      BY <1>2 DEF NoCycle
    <3>4. S \subseteq Tasks /\ T \subseteq Tasks
      BY DEF Unfinished
    <3>5. \A x \in S \cap (T \cup {t}) : WaitsFor(status', deps', x) \cap S \cap T # {}
      BY <3>1, <3>2, <3>3, <3>4
    <3>6. CASE t \in S
      <4>1. S \cap T # {}
        BY <3>5, <3>6
      <4>2. \A x \in S \cap T : WaitsFor(status, deps, x) \cap (S \cap T) # {}
        BY <1>3, <3>1, <3>4, <3>5
      <4>3. QED
        BY <4>1, <4>2 DEF WaitInv, NoCycle
    <3>7. CASE t \notin S
      BY <1>3, <3>3, <3>4, <3>7 DEF WaitInv, NoCycle
    <3>8. QED
      BY <3>6, <3>7
  <2>3. QED
    BY <2>1, <2>2
<1>5. \A x \in Tasks : status'[x] = "absent" => deps'[x] = InitDeps[x]
  BY <1>1, <1>2 DEF WaitInv
<1>6. \A x \in Present' : deps'[x] \subseteq Present'
  BY <1>1, <1>2 DEF WaitInv, Present
<1>7. QED
  BY <1>4, <1>5, <1>6 DEF WaitInv

\* Every step that rejects no gate: work moves, a task completes, is cancelled or rerouted, a plan
\* is created.
LEMMA WaitStep ==
  ASSUME WholePlans, PlansAcyclic, "rejectgate" \notin Inputs, TypeOK, LifeInv, WaitInv, [Next]_vars
  PROVE  WaitInv'
<1>0. status \in [Tasks -> Status] /\ deps \in [Tasks -> SUBSET Tasks]
  BY DEF TypeOK
<1>1. CASE WorkMoves
  <2>1. \A t \in Tasks : /\ status'[t] = "absent" <=> status[t] = "absent"
                         /\ status[t] \in Terminal => status'[t] \in Terminal
    BY <1>1 DEF WorkMoves, Locking, Active, Terminal
  <2>2. QED
    BY <1>1, <2>1, FewerWait DEF WorkMoves
<1>2. CASE CompletesOne
  <2>1. PICK t \in Tasks : /\ status[t] \in Locking \cup {"pending"}
                           /\ status' = Complete(status, deps, t) /\ deps' = deps
    BY <1>2 DEF CompletesOne
  <2>2. ASSUME NEW x \in Tasks
        PROVE  /\ status'[x] = "absent" <=> status[x] = "absent"
               /\ status[x] \in Terminal => status'[x] \in Terminal
    BY <1>0, <2>1, CompleteRow DEF FreedRow, ClosedRow, Terminal, Locking, Active
  <2>3. QED
    BY <2>1, <2>2, FewerWait
<1>3. ASSUME NEW t \in Tasks, CancelTask(t) PROVE WaitInv'
  <2>1. /\ status[t] \notin Terminal \cup {"absent"}
        /\ status' = Cancel(status, deps, t) /\ deps' = deps
    BY <1>3 DEF CancelTask, settings
  <2>2. ASSUME NEW x \in Tasks
        PROVE  /\ status'[x] = "absent" <=> status[x] = "absent"
               /\ status[x] \in Terminal => status'[x] \in Terminal
    <3>1. x \in CancelledWith(status, t) => status[x] \notin Terminal \cup {"absent"}
      BY <2>1 DEF CancelledWith, OpenDescendants
    <3>2. QED
      BY <1>0, <2>1, <3>1, CancelRow DEF FreedRow, ClosedRow, Terminal
  <2>3. QED
    BY <2>1, <2>2, FewerWait
<1>4. ASSUME NEW t \in Tasks, RejectGate(t) PROVE FALSE
  BY <1>4 DEF RejectGate
<1>5. CASE Reroutes
  <2>1. PICK t \in Tasks, dp \in SUBSET Tasks :
          \E fs, ch, chose, clear : Reroute(t, dp, fs, ch, chose, clear)
    BY <1>0, <1>5, ConductorAssumption DEF Reroutes
  <2>2. QED
    BY <2>1, RerouteWaits
<1>6. QED
  BY <1>1, <1>2, <1>3, <1>4, <1>5, StatusStep, CreateWaits

\* As long as no gate is rejected, no reroute, completion or cancellation lets tasks that are yet
\* to start wait only for each other, for every plan without a cycle that is created whole.
THEOREM NoWaitCycleHolds ==
  ASSUME WholePlans, PlansAcyclic, "rejectgate" \notin Inputs
  PROVE  Spec => []NoWaitCycle
<1>1. Init => WaitInv
  BY DEF Init, WaitInv, NoCycle, Unfinished, Present
<1>2. TypeOK /\ LifeInv /\ WaitInv /\ [Next]_vars => WaitInv'
  BY WaitStep
<1>3. WaitInv => NoWaitCycle
  BY DEF WaitInv, NoCycle, NoWaitCycle, Unfinished, Waiting, Terminal
<1>4. QED
  BY <1>1, <1>2, <1>3, TypeCorrect, LifeInvariant, PTL DEF Spec

=============================================================================
