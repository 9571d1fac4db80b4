-------------------------- MODULE ConductorProofs ---------------------------
(***************************************************************************)
(* Machine-checked proofs about the hub, for every set of tasks, agents,   *)
(* routes and files and every bound.                                       *)
(***************************************************************************)
EXTENDS Conductor, FiniteSetTheorems, TLAPS

USE DEF Escalates, Requeued

-----------------------------------------------------------------------------
\* A set of numbers that has one has a least one.
LEMMA Least ==
  ASSUME NEW S \in SUBSET Nat, S # {}
  PROVE  \E n \in S : \A m \in S : n <= m
<1> DEFINE T == {0..n : n \in S}
           R == StrictSubsetOrdering(Nat)
<1>1. IsWellFoundedOn(R, FiniteSubsetsOf(Nat))
  BY FS_StrictSubsetOrderingWellFounded
<1>2. \A n \in Nat : IsFiniteSet(0..n) /\ 0..n \subseteq Nat
  BY FS_Interval
<1>3. T \subseteq FiniteSubsetsOf(Nat) /\ T # {}
  BY <1>2 DEF FiniteSubsetsOf
<1>4. \A n, m \in Nat : m < n => <<0..m, 0..n>> \in R
  <2> SUFFICES ASSUME NEW n \in Nat, NEW m \in Nat, m < n PROVE <<0..m, 0..n>> \in R
    OBVIOUS
  <2>1. 0..m \subseteq 0..n /\ n \in 0..n /\ n \notin 0..m /\ 0..n \subseteq Nat
    OBVIOUS
  <2>2. QED
    BY <2>1 DEF StrictSubsetOrdering
<1> HIDE DEF R
<1>5. PICK x \in T : \A y \in T : <<y, x>> \notin R
  BY <1>1, <1>3, WFMin
<1>6. PICK n \in S : x = 0..n
  OBVIOUS
<1>7. \A m \in S : ~(m < n)
  BY <1>4, <1>5, <1>6
<1>8. QED
  BY <1>6, <1>7

-----------------------------------------------------------------------------
(* The tree operators map statuses to statuses.                            *)

\* Completing a task leaves every row with a status.
LEMMA CompleteType ==
  ASSUME NEW st \in [Tasks -> Status], NEW dp, NEW t
  PROVE  Complete(st, dp, t) \in [Tasks -> Status]
BY DEF Complete, Unblock, Status, Waiting, Terminal

\* So does cancelling one,
LEMMA CancelType ==
  ASSUME NEW st \in [Tasks -> Status], NEW dp, NEW t
  PROVE  Cancel(st, dp, t) \in [Tasks -> Status]
BY DEF Cancel, Unblock, Status, Waiting, Terminal

\* and sending work back through a gate.
LEMMA ReturnType ==
  ASSUME NEW st \in [Tasks -> Status], NEW dp, NEW g, NEW pos
  PROVE  Return(st, dp, g, pos) \in [Tasks -> Status]
BY DEF Return, Status, Waiting, Terminal

-----------------------------------------------------------------------------
(* Type correctness.                                                       *)

\* One task reclaimed or failed: what countFailure writes has the right types.
LEMMA CountFailureType ==
  ASSUME TypeOK, NEW t \in Tasks, CountFailure(t), owed' \in BOOLEAN,
         shunned' \subseteq Agents, stage' \in {"idle", "restart", "leases", "offline"},
         todo' \subseteq todo
  PROVE  TypeOK'
BY DEF TypeOK, CountFailure, ToPending, Unassign, Freed, Status, Waiting, settings

\* A rejection keeps the types, whatever it returns.
LEMMA RejectWorkType ==
  ASSUME TypeOK, NEW S, RejectWork(S), status' \in [Tasks -> Status]
  PROVE  TypeOK'
<1> USE DEF history, settings, registry
<1>1. holder' \in [Tasks -> Agents \cup {NoAgent}] /\ lease' \in [Tasks -> {"none", "running", "expired"}]
  BY DEF RejectWork, Unassign, TypeOK
<1>2. rejects' \in [Tasks -> Nat] /\ escalated' \in [Tasks -> BOOLEAN]
  BY DEF RejectWork, TypeOK
<1>3. owed' \in BOOLEAN /\ shunned' = {} /\ UNCHANGED <<todo, stage>>
  BY DEF RejectWork, HandlerSettles, Settle
<1>4. UNCHANGED <<attempt, fails, history, settings, registry, quota, crashes>>
  BY DEF RejectWork
<1>5. QED
  BY <1>1, <1>2, <1>3, <1>4 DEF TypeOK

\* Every step keeps the types.
LEMMA TypeStep == TypeOK /\ [Next]_vars => TypeOK'
<1> SUFFICES ASSUME TypeOK, [Next]_vars PROVE TypeOK'
  OBVIOUS
<1> USE DEF rows, counters, history, settings, registry, handler
<1>1. ASSUME NEW a \in Agents, Connect(a) PROVE TypeOK'
  BY <1>1 DEF Connect, HandlerSettles, Settle, TypeOK
<1>2. ASSUME NEW a \in Agents, Close(a) PROVE TypeOK'
  BY <1>2 DEF Close, TypeOK
<1>3. ASSUME NEW a \in Agents, GoneLong(a) PROVE TypeOK'
  BY <1>3 DEF GoneLong, TypeOK
<1>4. ASSUME NEW a \in Agents, NEW s \in {"idle", "busy"}, StatusUpdate(a, s) PROVE TypeOK'
  BY <1>4 DEF StatusUpdate, HandlerSettles, Settle, TypeOK
<1>5. ASSUME NEW a \in Agents, NEW reported \in Tasks \cup {NoTask}, Register(a, reported)
      PROVE  TypeOK'
  <2>1. Leftovers(a, reported) \subseteq [task : Tasks, attempt : Nat,
          agent : Agents \cup {NoAgent}, op : {"reclaim", "return", "fail"}]
    BY DEF Leftovers, HeldTasks, TypeOK
  <2>2. QED
    BY <1>5, <2>1 DEF Register, HandlerSettles, Settle, TypeOK
<1>6. ASSUME NEW a \in Agents, NEW r \in Routes, QuotaResets(a, r) PROVE TypeOK'
  BY <1>6 DEF QuotaResets, TypeOK
<1>7. ASSUME NEW a \in Agents, NEW t \in Tasks, Accept(a, t) PROVE TypeOK'
  BY <1>7 DEF Accept, TypeOK, Status, Locking, Active
<1>8. ASSUME NEW a \in Agents, NEW t \in Tasks, Progress(a, t) PROVE TypeOK'
  BY <1>8 DEF Progress, TypeOK, Status, Locking, Active
<1>9. ASSUME NEW a \in Agents, NEW t \in Tasks, NEW to \in {"accepted", "in_progress"},
             Pull(a, t, to)
      PROVE  TypeOK'
  BY <1>9 DEF Pull, TypeOK, Status, Locking, Active
<1>10. ASSUME NEW a \in Agents, NEW t \in Tasks, NEW verdict, NEW n, WorkerComplete(a, t, verdict, n)
       PROVE  TypeOK'
  BY <1>10, CompleteType
     DEF WorkerComplete, Finish, Freed, HandlerSettles, Settle, TypeOK, Status, Locking
<1>11. ASSUME NEW a \in Agents, NEW t \in Tasks, NEW n, WorkerFail(a, t, n) PROVE TypeOK'
  <2>1. stage \in {"idle", "restart", "leases", "offline"}
    BY DEF TypeOK
  <2>2. QED
    BY <1>11, <2>1, CountFailureType DEF WorkerFail, HandlerSettles, Settle
<1>12. ASSUME NEW a \in Agents, NEW t \in Tasks, NEW n, Decline(a, t, n) PROVE TypeOK'
  BY <1>12 DEF Decline, ToPending, Unassign, Freed, HandlerSettles, Settle, TypeOK, Status, Waiting
<1>13. ASSUME NEW a \in Agents, NEW t \in Tasks, NEW n, DeclineBusy(a, t, n) PROVE TypeOK'
  BY <1>13 DEF DeclineBusy, ToPending, Unassign, HandlerSettles, Settle, TypeOK, Status, Waiting
<1>14. ASSUME NEW a \in Agents, NEW t \in Tasks, NEW n, NEW r \in Routes, QuotaExhausted(a, t, r, n)
       PROVE  TypeOK'
  BY <1>14 DEF QuotaExhausted, ToPending, Unassign, Freed, HandlerSettles, Settle, TypeOK, Status, Waiting
<1>15. ASSUME NEW b \in Batches, Create(b) PROVE TypeOK'
  BY <1>15 DEF Create, HandlerSettles, Settle, TypeOK, Status, Waiting
<1>16. ASSUME NEW t \in Tasks, LeadFail(t) PROVE TypeOK'
  <2>1. stage \in {"idle", "restart", "leases", "offline"}
    BY DEF TypeOK
  <2>2. QED
    BY <1>16, <2>1, CountFailureType DEF LeadFail, HandlerSettles, Settle
<1>17. ASSUME NEW t \in Tasks, Approve(t) PROVE TypeOK'
  BY <1>17, CompleteType DEF Approve, HandlerSettles, Settle, TypeOK
<1>18. ASSUME NEW t \in Tasks, Reject(t) PROVE TypeOK'
  <2>1. status' \in [Tasks -> Status] /\ RejectWork({t})
    BY <1>18 DEF Reject, TypeOK, Status, Waiting
  <2>2. QED
    BY <2>1, RejectWorkType
<1>19. ASSUME NEW t \in Tasks, RejectGate(t) PROVE TypeOK'
  <2>1. PICK pos : status' = Return(status, deps, t, pos)
    BY <1>19 DEF RejectGate
  <2>2. status' \in [Tasks -> Status]
    BY <2>1, ReturnType DEF TypeOK
  <2>3. RejectWork(Returnable(status, deps, t))
    BY <1>19 DEF RejectGate
  <2>4. QED
    BY <2>2, <2>3, RejectWorkType
<1>20. ASSUME NEW t \in Tasks, CancelTask(t) PROVE TypeOK'
  BY <1>20, CancelType DEF CancelTask, Freed, HandlerSettles, Settle, TypeOK
<1>21. ASSUME NEW t \in Tasks, NEW verdict, LeadComplete(t, verdict) PROVE TypeOK'
  BY <1>21, CompleteType
     DEF LeadComplete, Finish, Freed, HandlerSettles, Settle, TypeOK, Status, Locking
<1>22. ASSUME NEW t \in Tasks, NEW to \in {"accepted", "in_progress"}, RestUpdate(t, to) PROVE TypeOK'
  BY <1>22 DEF RestUpdate, TypeOK, Status, Locking, Active
<1>23. ASSUME NEW t \in Tasks, NEW dp \in DepPatches \cup {deps[t]}, NEW fs \in FilePatches \cup {files[t]},
              NEW ch \in ChainPatches \cup {chain[t]}, NEW chose \in BOOLEAN, NEW clear \in BOOLEAN, Reroute(t, dp, fs, ch, chose, clear)
       PROVE  TypeOK'
  <2>1. dp \in SUBSET Tasks /\ fs \in SUBSET Files /\ ch \in Seq(Routes)
    BY ConductorAssumption DEF TypeOK
  <2>2. status' \in [Tasks -> Status]
    BY <1>23 DEF Reroute, TypeOK, Status, Waiting
  <2>3. QED
    BY <1>23, <2>1, <2>2 DEF Reroute, Unassign, Freed, HandlerSettles, Settle, TypeOK
<1>24. ASSUME NEW t \in Tasks, LeaseExpires(t) PROVE TypeOK'
  BY <1>24 DEF LeaseExpires, TypeOK
<1>25. CASE TickLeases
  BY <1>25 DEF TickLeases, ToReclaim, TypeOK
<1>26. CASE TickOffline
  BY <1>26 DEF TickOffline, ToReclaim, TypeOK
<1>27. CASE TickEnd
  BY <1>27 DEF TickEnd, Settle, TypeOK
<1>28. CASE DispatchPass
  <2>1. PICK pick \in Picks(PassInput), lost \in SUBSET Tasks : Dispatch(pick, lost)
    BY <1>28 DEF DispatchPass, ReadyTasks
  <2>2. \A t \in ReadyTasks : pick[t] # NoPick => pick[t][1] \in Agents /\ pick[t][2] \in Routes
    BY <2>1 DEF Picks, PassInput
  <2>3. ReadyTasks \subseteq Tasks
    BY DEF ReadyTasks
  <2>4. /\ status' \in [Tasks -> Status]
        /\ holder' \in [Tasks -> Agents \cup {NoAgent}]
        /\ lease' \in [Tasks -> {"none", "running", "expired"}]
        /\ attempt' \in [Tasks -> Nat]
        /\ last' \in [Tasks -> Agents \cup {NoAgent}]
        /\ route' \in [Tasks -> Routes \cup {NoRoute}]
    BY <2>1, <2>2, <2>3 DEF Dispatch, TypeOK, Status, Locking, Active
  <2>5. owed' \in BOOLEAN /\ shunned' \subseteq Agents
    BY <2>1, <2>2, <2>3 DEF Dispatch, TypeOK
  <2>6. QED
    BY <2>1, <2>4, <2>5 DEF Dispatch, TypeOK
<1>29. CASE RestartEnd
  BY <1>29 DEF RestartEnd, Settle, TypeOK
<1>30. ASSUME NEW x \in todo, SettleNext(x) PROVE TypeOK'
  <2>1. x.task \in Tasks /\ todo' \subseteq todo /\ stage' = stage
    BY <1>30 DEF SettleNext, TypeOK
  <2>2. stage \in {"idle", "restart", "leases", "offline"}
    BY DEF TypeOK
  <2>3. CASE ~StillDue(x)
    BY <1>30, <2>1, <2>3 DEF SettleNext, TypeOK
  <2>4. CASE StillDue(x) /\ x.op # "return"
    BY <1>30, <2>1, <2>2, <2>4, CountFailureType DEF SettleNext, Settle
  <2>5. CASE StillDue(x) /\ x.op = "return"
    <3>1. /\ ToPending(x.task) /\ Freed({holder[x.task]}) /\ Settle
          /\ UNCHANGED <<counters, history, settings, conn, quota, crashes>>
      BY <1>30, <2>5 DEF SettleNext
    <3>2. status' \in [Tasks -> Status]
      BY <2>1, <3>1 DEF ToPending, TypeOK, Status, Waiting
    <3>3. QED
      BY <2>1, <3>1, <3>2 DEF ToPending, Unassign, Freed, Settle, TypeOK
  <2>6. QED
    BY <2>3, <2>4, <2>5
<1>31. CASE HubCrash
  <2>1. conn' \in [Agents -> {"off", "gone", "open", "ready"}] /\ stat' \in [Agents -> {"idle", "busy"}]
    BY <1>31 DEF HubCrash
  <2>2. owed' \in BOOLEAN /\ todo' = {} /\ shunned' = {}
    BY <1>31 DEF HubCrash
  <2>. crashes' \in Nat
    BY <1>31 DEF HubCrash, TypeOK
  <2>3. stage' \in {"idle", "restart", "leases", "offline"}
    BY <1>31 DEF HubCrash
  <2>4. UNCHANGED <<rows, quota>>
    BY <1>31 DEF HubCrash
  <2>5. QED
    BY <2>1, <2>2, <2>3, <2>4 DEF TypeOK
<1>32. CASE UNCHANGED vars
  BY <1>32 DEF vars, TypeOK
<1>33. ASSUME NEW a \in Agents, AgentStep(a) PROVE TypeOK'
  BY <1>1, <1>2, <1>3, <1>4, <1>5, <1>6, <1>7, <1>8, <1>9, <1>10, <1>11, <1>12, <1>13, <1>14, <1>33
     DEF AgentStep
<1>34. CASE LeadStep
  BY <1>15, <1>16, <1>17, <1>18, <1>19, <1>20, <1>21, <1>22, <1>23, <1>34 DEF LeadStep
<1>35. CASE TickStep \/ HandlerStep
  BY <1>25, <1>26, <1>27, <1>28, <1>29, <1>30, <1>35 DEF TickStep, HandlerStep
<1>36. QED
  BY <1>24, <1>31, <1>32, <1>33, <1>34, <1>35 DEF Next

\* A hub starts with every variable of its type.
LEMMA TypeStarts == Init => TypeOK
<1> SUFFICES ASSUME Init PROVE TypeOK
  OBVIOUS
<1>1. /\ status \in [Tasks -> Status] /\ todo \subseteq [task : Tasks, attempt : Nat,
           agent : Agents \cup {NoAgent}, op : {"reclaim", "return", "fail"}]
  BY DEF Init, Status
<1>2. deps \in [Tasks -> SUBSET Tasks] /\ files \in [Tasks -> SUBSET Files] /\ chain \in [Tasks -> Seq(Routes)]
  BY ConductorAssumption DEF Init
<1>3. QED
  BY <1>1, <1>2 DEF Init, TypeOK

\* Every variable of the hub keeps its type, in every run of the hub.
THEOREM TypeCorrect == Spec => []TypeOK
BY TypeStarts, TypeStep, PTL DEF Spec

-----------------------------------------------------------------------------
(* What the tree operators do to one row.                                  *)

\* The row is done and all that waited for it waits no more.
FreedRow(old, new, dp, x) ==
  old[x] = "blocked" /\ new[x] = "pending" /\ AllCompleted(new, dp[x])

\* A group on the path up that was open ends.
ClosedRow(old, x) == Kind[x] = "group" /\ old[x] \notin Terminal \cup {"absent"}

\* Completing t completes t, ends open groups over it and frees what is blocked; nothing else.
LEMMA CompleteRow ==
  ASSUME NEW st \in [Tasks -> Status], NEW dp \in [Tasks -> SUBSET Tasks],
         NEW t \in Tasks, NEW x \in Tasks
  PROVE  LET c == Complete(st, dp, t) IN
         \/ x = t /\ c[x] = "completed"
         \/ x # t /\ ClosedRow(st, x) /\ c[x] = "completed"
         \/ x # t /\ FreedRow(st, c, dp, x)
         \/ x # t /\ c[x] = st[x]
<1> DEFINE done == {t} \cup Closed(st, t)
           mid  == [y \in Tasks |-> IF y \in done THEN "completed" ELSE st[y]]
           c    == Unblock(mid, dp, done)
<1>1. c = Complete(st, dp, t)
  BY DEF Complete
<1>2. \A y \in Closed(st, t) : ClosedRow(st, y)
  BY DEF Closed, UpTo, Closes, ClosedRow
<1>3. \A y \in Tasks : c[y] = IF y \in Unblocked(mid, dp, done) THEN "pending" ELSE mid[y]
  BY DEF Unblock
<1>4. \A y \in Tasks : mid[y] = "completed" => c[y] = "completed"
  BY <1>3 DEF Unblocked
<1>5. ASSUME x \in Unblocked(mid, dp, done) PROVE x # t /\ FreedRow(st, c, dp, x)
  BY <1>3, <1>4, <1>5 DEF Unblocked, FreedRow, AllCompleted
<1>6. ASSUME x \notin Unblocked(mid, dp, done), x # t, x \in Closed(st, t)
      PROVE  ClosedRow(st, x) /\ c[x] = "completed"
  BY <1>2, <1>3, <1>6
<1>7. ASSUME x \notin Unblocked(mid, dp, done), x # t, x \notin Closed(st, t) PROVE c[x] = st[x]
  BY <1>3, <1>7
<1>8. ASSUME x = t PROVE c[x] = "completed"
  BY <1>4, <1>8
<1>9. QED
  BY <1>1, <1>5, <1>6, <1>7, <1>8

\* Cancelling t cancels it and, if a group, what is open under it; open groups over it may end;
\* what is blocked is freed.
LEMMA CancelRow ==
  ASSUME NEW st \in [Tasks -> Status], NEW dp \in [Tasks -> SUBSET Tasks],
         NEW t \in Tasks, NEW x \in Tasks
  PROVE  LET c == Cancel(st, dp, t) IN
         \/ x \in CancelledWith(st, t) /\ c[x] = "cancelled"
         \/ x \notin CancelledWith(st, t) /\ ClosedRow(st, x) /\ c[x] \in {"completed", "cancelled"}
         \/ x \notin CancelledWith(st, t) /\ FreedRow(st, c, dp, x)
         \/ x \notin CancelledWith(st, t) /\ c[x] = st[x]
<1> DEFINE gone == CancelledWith(st, t)
           base == [y \in Tasks |-> IF y \in gone THEN "cancelled" ELSE st[y]]
           ends == Closed(base, t)
           done == {y \in ends : SomeCompleted(base, t, y)}
           mid  == [y \in Tasks |-> IF y \in done THEN "completed"
                                    ELSE IF y \in ends THEN "cancelled" ELSE base[y]]
           c    == Unblock(mid, dp, done)
<1>1. c = Cancel(st, dp, t)
  BY DEF Cancel
<1>2. \A y \in ends : base[y] \notin Terminal \cup {"absent"} /\ Kind[y] = "group" /\ y \in Above[t]
  BY DEF Closed, UpTo, Closes
<1>3. x \in ends => x \notin gone /\ ClosedRow(st, x)
  BY <1>2 DEF ClosedRow, Terminal
<1>4. \A y \in Tasks : c[y] = IF y \in Unblocked(mid, dp, done) THEN "pending" ELSE mid[y]
  BY DEF Unblock
<1>5. \A y \in Tasks : mid[y] = "completed" => c[y] = "completed"
  BY <1>4 DEF Unblocked
<1>6. ASSUME x \in Unblocked(mid, dp, done) PROVE x \notin gone /\ FreedRow(st, c, dp, x)
  BY <1>4, <1>5, <1>6 DEF Unblocked, FreedRow, AllCompleted
<1>7. ASSUME x \notin Unblocked(mid, dp, done), x \in ends
      PROVE  x \notin gone /\ ClosedRow(st, x) /\ c[x] \in {"completed", "cancelled"}
  BY <1>3, <1>4, <1>7
<1>8. ASSUME x \notin Unblocked(mid, dp, done), x \notin ends
      PROVE  c[x] = IF x \in gone THEN "cancelled" ELSE st[x]
  BY <1>4, <1>8
<1>9. QED
  BY <1>1, <1>6, <1>7, <1>8

\* Rejecting gate g blocks it, puts its finished work and completed groups over that work among
\* the waiting, blocks some pending rows, and touches nothing else.
LEMMA ReturnRow ==
  ASSUME NEW st \in [Tasks -> Status], NEW dp \in [Tasks -> SUBSET Tasks],
         NEW g \in Tasks, Kind[g] = "gate", NEW pos, NEW x \in Tasks
  PROVE  LET r == Return(st, dp, g, pos)
             back == Returnable(st, dp, g) IN
         \/ x = g /\ r[x] = "blocked"
         \/ x # g /\ x \in back /\ r[x] \in Waiting
         \/ /\ x # g /\ x \notin back /\ r[x] \in Waiting
            /\ Kind[x] = "group" /\ st[x] = "completed" /\ \E d \in back : x \in Above[d]
         \/ x # g /\ x \notin back /\ st[x] = "pending" /\ r[x] = "blocked"
         \/ x # g /\ x \notin back /\ r[x] = st[x]
<1> DEFINE back == Returnable(st, dp, g)
           rel  == [d \in back |-> Releases(st, dp, g, pos, d)]
           r    == Return(st, dp, g, pos)
<1>1. \A d \in back : /\ d \in rel[d] /\ Kind[d] = "work"
                      /\ \A h \in rel[d] \ {d} : Kind[h] = "group" /\ st[h] = "completed" /\ h \in Above[d]
  BY PlanAssumption DEF Returnable, Releases, Reopens, UpTo
<1>2. CASE x = g
  BY <1>1, <1>2 DEF Return
<1>3. CASE x # g /\ \E d \in back : x \in rel[d]
  <2>1. r[x] \in Waiting
    BY <1>3 DEF Return, Waiting
  <2>2. QED
    BY <1>1, <1>3, <2>1
<1>4. CASE x # g /\ ~\E d \in back : x \in rel[d]
  <2>1. x \notin back
    BY <1>1, <1>4
  <2>2. (st[x] = "pending" /\ r[x] = "blocked") \/ r[x] = st[x]
    BY <1>4 DEF Return
  <2>3. QED
    BY <1>4, <2>1, <2>2
<1>5. QED
  BY <1>2, <1>3, <1>4

-----------------------------------------------------------------------------
(* The hub implements the life of a task.                                  *)

\* The parts of TaskLife's invariant, as they read in the hub.
LifeInv ==
  /\ HolderAndLease
  /\ EscalationStops
  /\ AttemptSettledOnce
  /\ DeclinedStaysAway
  /\ Life!OnlyWorkRuns

\* A hub step that takes one row through a step of its life and lets the others stay is a step of
\* TaskLife.
LEMMA OneRowMoves ==
  ASSUME NEW t \in Tasks, Life!Moves(t), \A u \in Tasks \ {t} : Life!Stays(u)
  PROVE  Life!Next
BY DEF Life!Next

\* What the proofs about one row use of TypeOK.
LEMMA RowTypes ==
  ASSUME TypeOK PROVE status \in [Tasks -> Status] /\ deps \in [Tasks -> SUBSET Tasks]
BY DEF TypeOK

\* A row freed by the chain queues.
LEMMA FreedMoves ==
  ASSUME TypeOK, LifeInv, NEW u \in Tasks, FreedRow(status, status', deps, u),
         holder'[u] = holder[u], lease'[u] = lease[u], Life!SameCounts(u), Life!Kept(u)
  PROVE  Life!Moves(u)
<1>1. Life!Queues(u)
  BY DEF FreedRow, Life!Queues, Life!Waits, Life!Waiting, Waiting, LifeInv, HolderAndLease, Life!HolderAndLease
<1>2. QED
  BY <1>1 DEF Life!Moves

\* The completion chain of a row that finishes moves every row by one step of its life.
LEMMA CompleteMoves ==
  ASSUME TypeOK, LifeInv, NEW t \in Tasks, status' = Complete(status, deps, t), Life!Finished(t),
         \A u \in Tasks : u # t => lease'[u] = lease[u], UNCHANGED <<holder, counters, declined>>
  PROVE  Life!Next
<1> USE DEF counters
<1> SUFFICES ASSUME NEW u \in Tasks, u # t PROVE Life!Stays(u) \/ Life!Moves(u)
  BY DEF Life!Next, Life!Moves
<1>1. Life!SameHolder(u) /\ Life!SameCounts(u) /\ Life!Kept(u) /\ lease'[u] = lease[u]
  BY DEF Life!SameHolder, Life!SameCounts, Life!Kept, Life!SameAttempt, Life!SameDeclined, TypeOK
<1>2. CASE ClosedRow(status, u) /\ status'[u] = "completed"
  <2>1. status[u] \in Waiting /\ lease[u] = "none"
    BY <1>2 DEF ClosedRow, TypeOK, Status, Terminal, Locking, Active, Waiting, LifeInv, HolderAndLease, Life!HolderAndLease,
         Life!OnlyWorkRuns, Life!Locking, Life!Active
  <2>2. Life!Finished(u)
    BY <1>1, <1>2, <2>1 DEF ClosedRow, Life!Finished, Life!Waiting, Waiting
  <2>3. QED
    BY <2>2 DEF Life!Moves
<1>3. CASE FreedRow(status, status', deps, u)
  BY <1>1, <1>3, FreedMoves DEF Life!SameHolder
<1>4. CASE status'[u] = status[u]
  BY <1>1, <1>4 DEF Life!Stays, Life!SameStatus
<1>5. QED
  BY <1>2, <1>3, <1>4, CompleteRow, RowTypes

\* So does what completeTask commits.
LEMMA FinishMoves ==
  ASSUME TypeOK, LifeInv, NEW t \in Tasks, NEW verdict, status[t] \in Locking, Finish(t, verdict)
  PROVE  Life!Next
<1> USE DEF counters, history
<1>1. UNCHANGED <<holder, counters, declined>> /\ lease' = [lease EXCEPT ![t] = "none"]
  BY DEF Finish
<1>2. Life!SameHolder(t) /\ Life!SameCounts(t) /\ Life!Kept(t) /\ lease'[t] = "none"
  BY <1>1 DEF Life!SameHolder, Life!SameCounts, Life!Kept, Life!SameAttempt, Life!SameDeclined, TypeOK
<1>3. CASE status' = [status EXCEPT ![t] = "review"]
  <2>1. Life!Submitted(t)
    BY <1>2, <1>3 DEF Life!Submitted, Life!Locking, Life!Active, Locking, Active, TypeOK
  <2>2. \A u \in Tasks \ {t} : Life!Stays(u)
    BY <1>1, <1>3 DEF Life!Stays, Life!SameStatus, Life!SameHolder, Life!SameCounts, Life!Kept, Life!SameAttempt,
         Life!SameDeclined, TypeOK
  <2>3. QED
    BY <2>1, <2>2, OneRowMoves DEF Life!Moves
<1>4. CASE status' = Complete(status, deps, t)
  <2>1. Kind[t] = "work"
    BY DEF LifeInv, Life!OnlyWorkRuns, Life!Locking, Life!Active, Locking, Active
  <2>2. status'[t] = "completed"
    BY <1>4, CompleteRow, RowTypes DEF ClosedRow, FreedRow
  <2>3. Life!Finished(t)
    BY <1>2, <2>1, <2>2 DEF Life!Finished, Life!Locking, Life!Active, Locking, Active
  <2>4. QED
    BY <1>1, <1>4, <2>3, CompleteMoves DEF TypeOK
<1>5. QED
  BY <1>3, <1>4 DEF Finish

\* A pass gives a task to an agent that has not declined it, and that is free and not yet used.
LEMMA PickFits ==
  ASSUME NEW pick \in Picks(PassInput), NEW lost, Dispatch(pick, lost),
         NEW t \in ReadyTasks, pick[t] # NoPick
  PROVE  /\ pick[t][1] \in Agents \ declined[t]
         /\ pick[t][1] \notin BusyAgents
         /\ \A u \in Earlier(PassInput, pick, t) : pick[u][1] # pick[t][1]
         /\ ~LockedOut(PassInput, pick, t)
<1> DEFINE used == {pick[u][1] : u \in Earlier(PassInput, pick, t)}
<1>1. IsPass(PassInput, pick) /\ t \in PassInput.ready
  BY DEF Dispatch, PassInput
<1>2. ~LockedOut(PassInput, pick, t) /\ pick[t] \in Choices(PassInput, t, used)
  BY <1>1 DEF IsPass
<1>3. pick[t][1] \in Available(PassInput, t, pick[t][2], used)
  BY <1>2 DEF Choices, Preferred
<1>4. QED
  BY <1>2, <1>3 DEF Available, Runnable, PassInput

\* A step of the hub moves every row by at most one step of its life.
LEMMA LifeStep ==
  ASSUME TypeOK, LifeInv, [Next]_vars
  PROVE  [Life!Next]_(Life!row)
<1> USE DEF rows, counters, history, settings, registry, handler
<1> DEFINE Quietly == UNCHANGED <<status, holder, lease, counters, declined>>
<1>1. ASSUME Quietly PROVE UNCHANGED Life!row
  BY <1>1 DEF Life!row
<1>2. ASSUME NEW a \in Agents, Connect(a) PROVE [Life!Next]_(Life!row)
  BY <1>1, <1>2 DEF Connect
<1>3. ASSUME NEW a \in Agents, Close(a) PROVE [Life!Next]_(Life!row)
  BY <1>1, <1>3 DEF Close
<1>4. ASSUME NEW a \in Agents, GoneLong(a) PROVE [Life!Next]_(Life!row)
  BY <1>1, <1>4 DEF GoneLong
<1>5. ASSUME NEW a \in Agents, NEW s \in {"idle", "busy"}, StatusUpdate(a, s) PROVE [Life!Next]_(Life!row)
  BY <1>1, <1>5 DEF StatusUpdate
<1>6. ASSUME NEW a \in Agents, NEW reported \in Tasks \cup {NoTask}, Register(a, reported) PROVE [Life!Next]_(Life!row)
  BY <1>1, <1>6 DEF Register
<1>7. ASSUME NEW a \in Agents, NEW r \in Routes, QuotaResets(a, r) PROVE [Life!Next]_(Life!row)
  BY <1>1, <1>7 DEF QuotaResets
<1>8. CASE TickOffline
  BY <1>1, <1>8 DEF TickOffline
<1>9. CASE TickEnd
  BY <1>1, <1>9 DEF TickEnd
<1>10. CASE RestartEnd
  BY <1>1, <1>10 DEF RestartEnd
<1>11. CASE HubCrash
  BY <1>1, <1>11 DEF HubCrash
<1>12. CASE UNCHANGED vars
  BY <1>1, <1>12 DEF vars
<1> USE DEF Life!Stays, Life!SameStatus, Life!SameHolder, Life!SameAttempt, Life!SameDeclined, Life!SameCounts, Life!Kept, Life!Moves, Life!Waits, Life!Cleared, Life!Active, Active, Life!Locking, Locking, Life!Waiting, Waiting, Life!Terminal, Terminal
<1>14. ASSUME NEW a \in Agents, NEW t \in Tasks, Accept(a, t) PROVE Life!Next
  <2>1. Life!Runs(t)
    BY <1>14 DEF Accept, Held, IsActive, Life!Runs, TypeOK,
         LifeInv, HolderAndLease, Life!HolderAndLease
  <2>2. \A u \in Tasks \ {t} : Life!Stays(u)
    BY <1>14 DEF Accept, Held, IsActive, TypeOK
  <2>3. QED
    BY <2>1, <2>2, OneRowMoves
<1>15. ASSUME NEW a \in Agents, NEW t \in Tasks, Progress(a, t) PROVE Life!Next
  <2>1. Life!Runs(t)
    BY <1>15 DEF Progress, Held, IsActive, Life!Runs, TypeOK
  <2>2. \A u \in Tasks \ {t} : Life!Stays(u)
    BY <1>15 DEF Progress, Held, IsActive, TypeOK
  <2>3. QED
    BY <2>1, <2>2, OneRowMoves
<1>16. ASSUME NEW a \in Agents, NEW t \in Tasks, NEW to \in {"accepted", "in_progress"}, Pull(a, t, to) PROVE Life!Next
  <2>1. Life!HandedOut(t)
    BY <1>16 DEF Pull, Ready, Life!HandedOut, TypeOK
  <2>2. \A u \in Tasks \ {t} : Life!Stays(u)
    BY <1>16 DEF Pull, Ready, TypeOK
  <2>3. QED
    BY <2>1, <2>2, OneRowMoves
<1>17. ASSUME NEW a \in Agents, NEW t \in Tasks, NEW n, WorkerFail(a, t, n) PROVE Life!Next
  <2>1. Life!Failed(t)
    BY <1>17 DEF WorkerFail, Held, IsActive, CountFailure, ToPending, Unassign, Life!Failed, TypeOK
  <2>2. \A u \in Tasks \ {t} : Life!Stays(u)
    BY <1>17 DEF WorkerFail, Held, IsActive, CountFailure, ToPending, Unassign, TypeOK
  <2>3. QED
    BY <2>1, <2>2, OneRowMoves
<1>18. ASSUME NEW a \in Agents, NEW t \in Tasks, NEW n, Decline(a, t, n) PROVE Life!Next
  <2>1. Life!Declined(t)
    BY <1>18 DEF Decline, Held, IsActive, ToPending, Unassign, Life!Declined, TypeOK
  <2>2. \A u \in Tasks \ {t} : Life!Stays(u)
    BY <1>18 DEF Decline, Held, IsActive, ToPending, Unassign, TypeOK
  <2>3. QED
    BY <2>1, <2>2, OneRowMoves
<1>19. ASSUME NEW a \in Agents, NEW t \in Tasks, NEW n, DeclineBusy(a, t, n) PROVE Life!Next
  <2>1. Life!GivenBack(t)
    BY <1>19 DEF DeclineBusy, Held, IsActive, ToPending, Unassign, Life!GivenBack, TypeOK
  <2>2. \A u \in Tasks \ {t} : Life!Stays(u)
    BY <1>19 DEF DeclineBusy, Held, IsActive, ToPending, Unassign, TypeOK
  <2>3. QED
    BY <2>1, <2>2, OneRowMoves
<1>20. ASSUME NEW a \in Agents, NEW t \in Tasks, NEW n, NEW r \in Routes, QuotaExhausted(a, t, r, n) PROVE Life!Next
  <2>1. Life!GivenBack(t)
    BY <1>20 DEF QuotaExhausted, Held, IsActive, ToPending, Unassign, Life!GivenBack, TypeOK
  <2>2. \A u \in Tasks \ {t} : Life!Stays(u)
    BY <1>20 DEF QuotaExhausted, Held, IsActive, ToPending, Unassign, TypeOK
  <2>3. QED
    BY <2>1, <2>2, OneRowMoves
<1>21. ASSUME NEW t \in Tasks, LeadFail(t) PROVE Life!Next
  <2>1. Life!Failed(t)
    BY <1>21 DEF LeadFail, IsActive, CountFailure, ToPending, Unassign, Life!Failed, TypeOK
  <2>2. \A u \in Tasks \ {t} : Life!Stays(u)
    BY <1>21 DEF LeadFail, IsActive, CountFailure, ToPending, Unassign, TypeOK
  <2>3. QED
    BY <2>1, <2>2, OneRowMoves
<1>22. ASSUME NEW t \in Tasks, Reject(t) PROVE Life!Next
  <2>1. Life!Rejected(t)
    BY <1>22 DEF Reject, RejectWork, Unassign, Life!Rejected, TypeOK
  <2>2. \A u \in Tasks \ {t} : Life!Stays(u)
    BY <1>22 DEF Reject, RejectWork, Unassign, TypeOK
  <2>3. QED
    BY <2>1, <2>2, OneRowMoves
<1>23. ASSUME NEW t \in Tasks, NEW to \in {"accepted", "in_progress"}, RestUpdate(t, to) PROVE Life!Next
  <2>1. Life!Runs(t)
    BY <1>23 DEF RestUpdate, IsActive, Life!Runs, TypeOK,
         LifeInv, HolderAndLease, Life!HolderAndLease
  <2>2. \A u \in Tasks \ {t} : Life!Stays(u)
    BY <1>23 DEF RestUpdate, IsActive, TypeOK
  <2>3. QED
    BY <2>1, <2>2, OneRowMoves
<1>24. ASSUME NEW t \in Tasks, LeaseExpires(t) PROVE Life!Next
  <2>1. Life!Runs(t)
    BY <1>24 DEF LeaseExpires, IsActive, Life!Runs, TypeOK
  <2>2. \A u \in Tasks \ {t} : Life!Stays(u)
    BY <1>24 DEF LeaseExpires, IsActive, TypeOK
  <2>3. QED
    BY <2>1, <2>2, OneRowMoves
<1>30. ASSUME NEW a \in Agents, NEW t \in Tasks, NEW verdict, NEW n, WorkerComplete(a, t, verdict, n) PROVE Life!Next
  BY <1>30, FinishMoves DEF WorkerComplete, Held, IsActive
<1>31. ASSUME NEW t \in Tasks, NEW verdict, LeadComplete(t, verdict) PROVE Life!Next
  BY <1>31, FinishMoves DEF LeadComplete
<1>32. ASSUME NEW b \in Batches, Create(b) PROVE Life!Next
  <2>1. \A u \in Tasks : u \in b => Life!Queues(u)
    BY <1>32 DEF Create, Life!Queues, TypeOK, LifeInv, HolderAndLease, Life!HolderAndLease
  <2>2. \A u \in Tasks : u \notin b => Life!Stays(u)
    BY <1>32 DEF Create, TypeOK
  <2>3. QED
    BY <2>1, <2>2 DEF Life!Next
<1>33. ASSUME NEW t \in Tasks, Approve(t) PROVE Life!Next
  <2>1. status' = Complete(status, deps, t) /\ UNCHANGED <<holder, lease, counters, declined>>
    BY <1>33 DEF Approve
  <2>2. Life!Finished(t)
    <3>1. status'[t] = "completed"
      BY <2>1, CompleteRow, RowTypes
    <3>2. QED
      BY <1>33, <2>1, <3>1 DEF Approve, Life!Finished, TypeOK, LifeInv, HolderAndLease, Life!HolderAndLease
  <2>3. QED
    BY <2>1, <2>2, CompleteMoves
<1>34. ASSUME NEW t \in Tasks, RejectGate(t) PROVE Life!Next
  <2> DEFINE back == Returnable(status, deps, t)
  <2>1. PICK pos : status' = Return(status, deps, t, pos)
    BY <1>34 DEF RejectGate
  <2>2. RejectWork(back) /\ Kind[t] = "gate" /\ status[t] = "pending"
    BY <1>34 DEF RejectGate
  <2>3. \A u \in back : Kind[u] = "work" /\ status[u] = "completed"
    BY DEF Returnable
  <2> SUFFICES ASSUME NEW u \in Tasks PROVE Life!Stays(u) \/ Life!Moves(u)
    BY DEF Life!Next
  <2>4. CASE u \in back
    <3>1. status'[u] \in Waiting
      BY <2>1, <2>2, <2>3, <2>4, ReturnRow DEF TypeOK
    <3>2. Life!Rejected(u)
      BY <2>2, <2>3, <2>4, <3>1 DEF RejectWork, Unassign, Life!Rejected, TypeOK
    <3>3. QED
      BY <3>2
  <2>5. CASE u \notin back
    <3>1. holder'[u] = holder[u] /\ lease'[u] = lease[u] /\ Life!SameCounts(u) /\ Life!Kept(u)
      BY <2>2, <2>5 DEF RejectWork, Unassign, TypeOK
    <3>2. CASE status'[u] = status[u]
      BY <3>1, <3>2
    <3>3. CASE status[u] = "pending" /\ status'[u] \in Waiting
      <4>1. Life!Queues(u)
        BY <3>1, <3>3 DEF Life!Queues, TypeOK, LifeInv, HolderAndLease, Life!HolderAndLease
      <4>2. QED
        BY <4>1
    <3>4. CASE Kind[u] = "group" /\ status[u] = "completed" /\ status'[u] \in Waiting
      <4>1. Life!Reopened(u)
        BY <3>1, <3>4 DEF Life!Reopened, TypeOK, LifeInv, HolderAndLease, Life!HolderAndLease, Life!OnlyWorkRuns
      <4>2. QED
        BY <4>1
    <3>5. QED
      BY <2>1, <2>2, <2>5, <3>2, <3>3, <3>4, ReturnRow, RowTypes
  <2>6. QED
    BY <2>4, <2>5
<1>35. ASSUME NEW t \in Tasks, CancelTask(t) PROVE Life!Next
  <2> DEFINE gone == CancelledWith(status, t)
  <2>1. /\ status' = Cancel(status, deps, t)
        /\ lease' = [x \in Tasks |-> IF x \in gone THEN "none" ELSE lease[x]]
        /\ UNCHANGED <<holder, counters, declined>>
    BY <1>35 DEF CancelTask
  <2>2. \A u \in Tasks : u \in gone => status[u] \in Locking \cup Waiting
    BY <1>35 DEF CancelTask, CancelledWith, OpenDescendants, TypeOK, Status
  <2> SUFFICES ASSUME NEW u \in Tasks PROVE Life!Stays(u) \/ Life!Moves(u)
    BY DEF Life!Next
  <2>3. Life!SameHolder(u) /\ Life!SameCounts(u) /\ Life!Kept(u) /\ (u \notin gone => lease'[u] = lease[u])
    BY <2>1 DEF TypeOK
  <2>4. CASE u \in gone /\ status'[u] = "cancelled"
    <3>1. Life!Cancelled(u)
      BY <2>1, <2>2, <2>3, <2>4 DEF Life!Cancelled, TypeOK
    <3>2. QED
      BY <3>1
  <2>5. CASE u \notin gone /\ ClosedRow(status, u) /\ status'[u] \in {"completed", "cancelled"}
    <3>1. status[u] \in Waiting /\ lease[u] = "none"
      BY <2>5 DEF ClosedRow, TypeOK, Status, LifeInv, HolderAndLease, Life!HolderAndLease, Life!OnlyWorkRuns
    <3>2. Life!Finished(u) \/ Life!Cancelled(u)
      BY <2>3, <2>5, <3>1 DEF ClosedRow, Life!Finished, Life!Cancelled, TypeOK
    <3>3. QED
      BY <3>2
  <2>6. CASE u \notin gone /\ FreedRow(status, status', deps, u)
    BY <2>3, <2>6, FreedMoves
  <2>7. CASE u \notin gone /\ status'[u] = status[u]
    BY <2>3, <2>7
  <2>8. QED
    BY <2>1, <2>4, <2>5, <2>6, <2>7, CancelRow, RowTypes
<1>36. ASSUME NEW t \in Tasks, NEW dp \in DepPatches \cup {deps[t]}, NEW fs \in FilePatches \cup {files[t]},
              NEW ch \in ChainPatches \cup {chain[t]}, NEW chose \in BOOLEAN, NEW clear \in BOOLEAN, Reroute(t, dp, fs, ch, chose, clear)
       PROVE  Life!Next
  <2>1. \A u \in Tasks \ {t} : Life!Stays(u)
    BY <1>36 DEF Reroute, Unassign, TypeOK
  <2>2. (Life!SameCounts(t) \/ Life!Cleared(t)) /\ Life!Kept(t)
    BY <1>36 DEF Reroute, TypeOK
  <2>3. CASE status[t] = "review"
    <3>1. Life!Submitted(t)
      BY <1>36, <2>2, <2>3 DEF Reroute, Unassign, IsActive, Life!Submitted, TypeOK, LifeInv, HolderAndLease, Life!HolderAndLease
    <3>2. QED
      BY <2>1, <3>1, OneRowMoves
  <2>4. CASE status[t] \in Active
    <3>1. Life!GivenBack(t)
      BY <1>36, <2>2, <2>4 DEF Reroute, Unassign, IsActive, Life!GivenBack, TypeOK
    <3>2. QED
      BY <2>1, <3>1, OneRowMoves
  <2>5. CASE status[t] \in Waiting
    <3>1. Life!Queues(t)
      BY <1>36, <2>2, <2>5 DEF Reroute, Unassign, IsActive, Life!Queues, TypeOK, LifeInv, HolderAndLease, Life!HolderAndLease
    <3>2. QED
      BY <2>1, <3>1, OneRowMoves
  <2>6. QED
    BY <1>36, <2>3, <2>4, <2>5 DEF Reroute, TypeOK, Status
<1>37. CASE TickLeases
  <2> SUFFICES ASSUME NEW u \in Tasks PROVE Life!Stays(u) \/ Life!Runs(u)
    BY DEF Life!Next
  <2>1. CASE IsActive(u) /\ lease[u] = "none"
    BY <1>37, <2>1 DEF TickLeases, Life!Runs, IsActive, TypeOK
  <2>2. CASE ~(IsActive(u) /\ lease[u] = "none")
    BY <1>37, <2>2 DEF TickLeases, TypeOK
  <2>3. QED
    BY <2>1, <2>2
<1>38. CASE DispatchPass
  <2>1. PICK pick \in Picks(PassInput), lost \in SUBSET Tasks : Dispatch(pick, lost)
    BY <1>38 DEF DispatchPass, ReadyTasks
  <2>2. ASSUME NEW u \in ReadyTasks, pick[u] # NoPick PROVE pick[u][1] \in Agents \ declined[u]
    BY <2>1, <2>2, PickFits
  <2> SUFFICES ASSUME NEW u \in Tasks PROVE Life!Stays(u) \/ Life!Moves(u)
    BY DEF Life!Next
  <2>3. CASE u \in ReadyTasks /\ pick[u] # NoPick /\ u \notin lost
    <3>1. Life!HandedOut(u)
      BY <2>1, <2>2, <2>3 DEF Dispatch, ReadyTasks, Ready, Life!HandedOut, TypeOK
    <3>2. QED
      BY <3>1
  <2>4. CASE u \in ReadyTasks /\ pick[u] # NoPick /\ u \in lost
    <3>1. Life!NotSent(u)
      BY <2>1, <2>4 DEF Dispatch, ReadyTasks, Ready, Life!NotSent, TypeOK, LifeInv, HolderAndLease, Life!HolderAndLease
    <3>2. QED
      BY <3>1
  <2>5. CASE ~(u \in ReadyTasks /\ pick[u] # NoPick)
    BY <2>1, <2>5 DEF Dispatch, TypeOK
  <2>6. QED
    BY <2>3, <2>4, <2>5
<1>39. ASSUME NEW x \in todo, SettleNext(x) PROVE [Life!Next]_(Life!row)
  <2>1. x.task \in Tasks
    BY DEF TypeOK
  <2>2. CASE ~StillDue(x)
    BY <1>1, <1>39, <2>2 DEF SettleNext
  <2>3. CASE StillDue(x) /\ x.op # "return"
    <3>1. Life!Failed(x.task)
      BY <1>39, <2>1, <2>3 DEF SettleNext, StillDue, IsActive, CountFailure, ToPending, Unassign, Life!Failed, TypeOK
    <3>2. \A u \in Tasks \ {x.task} : Life!Stays(u)
      BY <1>39, <2>1, <2>3 DEF SettleNext, CountFailure, ToPending, Unassign, TypeOK
    <3>3. QED
      BY <2>1, <3>1, <3>2, OneRowMoves
  <2>4. CASE StillDue(x) /\ x.op = "return"
    <3>1. Life!GivenBack(x.task)
      <4>1. ToPending(x.task) /\ UNCHANGED <<counters, declined>> /\ IsActive(x.task)
        BY <1>39, <2>4 DEF SettleNext, StillDue
      <4>2. QED
        BY <2>1, <4>1 DEF IsActive, ToPending, Unassign, Life!GivenBack, Life!Waits, Life!Kept, Life!SameCounts,
             Life!SameAttempt, Life!SameDeclined, Life!Waiting, Life!Active, Active, TypeOK
    <3>2. \A u \in Tasks \ {x.task} : Life!Stays(u)
      <4>1. ToPending(x.task) /\ UNCHANGED <<counters, declined>>
        BY <1>39, <2>4 DEF SettleNext
      <4>2. QED
        BY <2>1, <4>1 DEF ToPending, Unassign, TypeOK
    <3>3. QED
      BY <2>1, <3>1, <3>2, OneRowMoves
  <2>5. QED
    BY <2>2, <2>3, <2>4
<1>40. QED
  BY <1>2, <1>3, <1>4, <1>5, <1>6, <1>7, <1>8, <1>9, <1>10, <1>11, <1>12, <1>14, <1>15, <1>16, <1>17, <1>18, <1>19, <1>20, <1>21, <1>22, <1>23, <1>24, <1>30, <1>31, <1>32, <1>33, <1>34, <1>35, <1>36, <1>37, <1>38, <1>39
     DEF Next, AgentStep, LeadStep, TickStep, HandlerStep

\* Every step of TaskLife preserves what follows from it.
LEMMA LifeInvStep ==
  ASSUME TypeOK, TypeOK', LifeInv, [Life!Next]_(Life!row)
  PROVE  LifeInv'
<1> USE DEF Life!Active, Life!Locking, Life!Waiting, Life!Terminal, Life!Waits, Life!Kept, Life!Cleared, Life!SameStatus,
        Life!SameHolder, Life!SameAttempt, Life!SameDeclined, Life!SameCounts
<1>1. CASE UNCHANGED Life!row
  BY <1>1 DEF LifeInv, HolderAndLease, Life!HolderAndLease, EscalationStops, Life!EscalationStops, AttemptSettledOnce,
       Life!AttemptSettledOnce, DeclinedStaysAway, Life!DeclinedStaysAway, Life!OnlyWorkRuns, Life!row
<1>2. CASE Life!Next
  <2> DEFINE Step(t) == Life!Stays(t) \/ Life!Moves(t)
  <2>0. \A t \in Tasks : Step(t)
    BY <1>2 DEF Life!Next
  <2>1. HolderAndLease'
    <3> SUFFICES ASSUME NEW t \in Tasks
                 PROVE  /\ status'[t] \in Active => holder'[t] # NoAgent /\ lease'[t] # "none"
                        /\ status'[t] \notin Active => lease'[t] = "none"
                        /\ status'[t] \in Waiting \cup {"absent"} => holder'[t] = NoAgent
      BY DEF HolderAndLease, Life!HolderAndLease, Active, Waiting
    <3>1. /\ status[t] \in Active => holder[t] # NoAgent /\ lease[t] # "none"
          /\ status[t] \notin Active => lease[t] = "none"
          /\ status[t] \in Waiting \cup {"absent"} => holder[t] = NoAgent
      BY DEF LifeInv, HolderAndLease, Life!HolderAndLease, Active, Waiting
    <3>2. CASE Life!Stays(t)
      BY <3>1, <3>2 DEF Life!Stays
    <3>3. CASE Life!Moves(t)
      BY <3>1, <3>3, ConductorAssumption
         DEF Life!Moves, Life!Queues, Life!HandedOut, Life!NotSent, Life!Runs, Life!Submitted, Life!Finished, Life!GivenBack,
             Life!Declined, Life!Failed, Life!Rejected, Life!Reopened, Life!Cancelled, Active, Waiting
    <3>4. QED
      BY <2>0, <3>2, <3>3
  <2>2. EscalationStops'
    <3> SUFFICES ASSUME NEW t \in Tasks
                 PROVE  /\ escalated'[t] <=> fails'[t] >= EscalateAt \/ rejects'[t] >= EscalateAt
                        /\ escalated'[t] => status'[t] \in Waiting \cup {"cancelled"}
      BY DEF EscalationStops, Life!EscalationStops, Waiting
    <3>1. /\ escalated[t] <=> fails[t] >= EscalateAt \/ rejects[t] >= EscalateAt
          /\ escalated[t] => status[t] \in Waiting \cup {"cancelled"}
          /\ Kind[t] # "work" => fails[t] = 0 /\ rejects[t] = 0
      BY DEF LifeInv, EscalationStops, Life!EscalationStops, Life!OnlyWorkRuns, Waiting
    <3>2. fails[t] \in Nat /\ rejects[t] \in Nat /\ escalated[t] \in BOOLEAN /\ escalated'[t] \in BOOLEAN
      BY DEF TypeOK
    <3>3. CASE Life!Stays(t)
      BY <3>1, <3>3 DEF Life!Stays
    <3>4. CASE Life!Moves(t)
      BY <3>1, <3>2, <3>4
         DEF Life!Moves, Life!Queues, Life!HandedOut, Life!NotSent, Life!Runs, Life!Submitted, Life!Finished, Life!GivenBack,
             Life!Declined, Life!Failed, Life!Rejected, Life!Reopened, Life!Cancelled, Active, Waiting, EscalateAt
    <3>5. QED
      BY <2>0, <3>3, <3>4
  <2>3. AttemptSettledOnce'
    <3> DEFINE Charge(s) == IF s \in Locking \cup {"completed"} THEN 1 ELSE 0
    <3> SUFFICES ASSUME NEW t \in Tasks, Kind[t] = "work"
                 PROVE  fails'[t] + rejects'[t] + Charge(status'[t]) <= attempt'[t]
      BY DEF AttemptSettledOnce, Life!AttemptSettledOnce, Locking, Active
    <3>1. fails[t] + rejects[t] + Charge(status[t]) <= attempt[t]
      BY DEF LifeInv, AttemptSettledOnce, Life!AttemptSettledOnce, Locking, Active
    <3>2. fails[t] \in Nat /\ rejects[t] \in Nat /\ attempt[t] \in Nat
      BY DEF TypeOK
    <3>3. CASE Life!Stays(t)
      BY <3>1, <3>3 DEF Life!Stays
    <3>4. CASE Life!Moves(t)
      BY <3>1, <3>2, <3>4
         DEF Life!Moves, Life!Queues, Life!HandedOut, Life!NotSent, Life!Runs, Life!Submitted, Life!Finished, Life!GivenBack,
             Life!Declined, Life!Failed, Life!Rejected, Life!Reopened, Life!Cancelled, Active, Locking, Waiting
    <3>5. QED
      BY <2>0, <3>3, <3>4
  <2>4. DeclinedStaysAway'
    <3> SUFFICES ASSUME NEW t \in Tasks, status'[t] \in Active PROVE holder'[t] \notin declined'[t]
      BY DEF DeclinedStaysAway, Life!DeclinedStaysAway, Active
    <3>1. status[t] \in Active => holder[t] \notin declined[t]
      BY DEF LifeInv, DeclinedStaysAway, Life!DeclinedStaysAway, Active
    <3>2. CASE Life!Stays(t)
      BY <3>1, <3>2 DEF Life!Stays
    <3>3. CASE Life!Moves(t)
      BY <3>1, <3>3
         DEF Life!Moves, Life!Queues, Life!HandedOut, Life!NotSent, Life!Runs, Life!Submitted, Life!Finished, Life!GivenBack,
             Life!Declined, Life!Failed, Life!Rejected, Life!Reopened, Life!Cancelled, Active, Waiting
    <3>4. QED
      BY <2>0, <3>2, <3>3
  <2>5. Life!OnlyWorkRuns'
    <3> SUFFICES ASSUME NEW t \in Tasks, Kind[t] # "work"
                 PROVE  status'[t] \notin Locking /\ holder'[t] = NoAgent /\ fails'[t] = 0 /\ rejects'[t] = 0
      BY DEF Life!OnlyWorkRuns, Locking, Active
    <3>1. status[t] \notin Locking /\ holder[t] = NoAgent /\ fails[t] = 0 /\ rejects[t] = 0
      BY DEF LifeInv, Life!OnlyWorkRuns, Locking, Active
    <3>2. CASE Life!Stays(t)
      BY <3>1, <3>2 DEF Life!Stays
    <3>3. CASE Life!Moves(t)
      BY <3>1, <3>3
         DEF Life!Moves, Life!Queues, Life!HandedOut, Life!NotSent, Life!Runs, Life!Submitted, Life!Finished, Life!GivenBack,
             Life!Declined, Life!Failed, Life!Rejected, Life!Reopened, Life!Cancelled, Active, Locking, Waiting
    <3>4. QED
      BY <2>0, <3>2, <3>3
  <2>6. QED
    BY <2>1, <2>2, <2>3, <2>4, <2>5 DEF LifeInv
<1>3. QED
  BY <1>1, <1>2

\* No task has been touched yet.
LEMMA LifeStarts == Init => LifeInv
BY DEF Init, LifeInv, HolderAndLease, Life!HolderAndLease, EscalationStops, Life!EscalationStops, AttemptSettledOnce,
     Life!AttemptSettledOnce, DeclinedStaysAway, Life!DeclinedStaysAway, Life!OnlyWorkRuns, Life!Active, Life!Locking,
     Life!Waiting, EscalateAt

\* The invariant of a row holds of every row, in every run of the hub.
LEMMA LifeInvariant == Spec => []LifeInv
<1>1. TypeOK /\ TypeOK' /\ LifeInv /\ [Next]_vars => LifeInv'
  BY LifeStep, LifeInvStep
<1>2. QED
  BY <1>1, LifeStarts, TypeCorrect, PTL DEF Spec

\* The hub implements TaskLife: whatever handlers, ticks, cascades and crashes do, each row moves
\* by the steps of one task's life only.
THEOREM HubImplementsLife == Spec => LifeSpec
<1>1. Init => Life!Init
  BY DEF Init, Life!Init
<1>2. TypeOK /\ LifeInv /\ [Next]_vars => [Life!Next]_(Life!row)
  BY LifeStep
<1>3. QED
  BY <1>1, <1>2, TypeCorrect, LifeInvariant, PTL DEF Spec, LifeSpec, Life!Spec

\* A task has a worker and a lease exactly while it is active.
THEOREM HolderAndLeaseHolds == Spec => []HolderAndLease
<1>1. LifeInv => HolderAndLease
  BY DEF LifeInv
<1>2. QED
  BY <1>1, LifeInvariant, PTL

\* A task that has failed or been rejected twice is handed to no agent until the lead clears it.
THEOREM EscalationHolds == Spec => []EscalationStops
<1>1. LifeInv => EscalationStops
  BY DEF LifeInv
<1>2. QED
  BY <1>1, LifeInvariant, PTL

\* No attempt is charged twice, in any interleaving of reports, reclaims, restarts and crashes.
THEOREM AttemptSettledOnceHolds == Spec => []AttemptSettledOnce
<1>1. LifeInv => AttemptSettledOnce
  BY DEF LifeInv
<1>2. QED
  BY <1>1, LifeInvariant, PTL

\* An agent that declined a task for good never holds it again.
THEOREM DeclinedHolds == Spec => []DeclinedStaysAway
<1>1. LifeInv => DeclinedStaysAway
  BY DEF LifeInv
<1>2. QED
  BY <1>1, LifeInvariant, PTL

-----------------------------------------------------------------------------
(* Locks and workers: properties of two tasks.                             *)

\* Apart from a pass, a pull and a reroute, no step writes attempts, routes, files or
\* dependencies; a reroute writes no attempt and no route, and a pull neither files nor
\* dependencies.
LEMMA ScheduleKept ==
  ASSUME [Next]_vars
  PROVE  \/ DispatchPass
         \/ \E a \in Agents, t \in Tasks, to \in {"accepted", "in_progress"} : Pull(a, t, to)
         \/ \E t \in Tasks :
              \E dp \in DepPatches \cup {deps[t]}, fs \in FilePatches \cup {files[t]},
                 ch \in ChainPatches \cup {chain[t]}, chose \in BOOLEAN, clear \in BOOLEAN : Reroute(t, dp, fs, ch, chose, clear)
         \/ UNCHANGED <<attempt, route, files, deps>>
<1> USE DEF rows, counters, history, settings
<1>1. CASE UNCHANGED vars
  BY <1>1 DEF vars
<1>2. ASSUME NEW a \in Agents, AgentStep(a),
             ~\E t \in Tasks, to \in {"accepted", "in_progress"} : Pull(a, t, to)
      PROVE  UNCHANGED <<attempt, route, files, deps>>
  <2> DEFINE Kept == UNCHANGED <<attempt, route, files, deps>>
  <2>1. (\E s \in {"idle", "busy"} : StatusUpdate(a, s)) => Kept
    BY DEF StatusUpdate
  <2>2. (\E reported \in Tasks \cup {NoTask} : Register(a, reported)) => Kept
    BY DEF Register
  <2>3. (\E r \in Routes : QuotaResets(a, r)) => Kept
    BY DEF QuotaResets
  <2>4. Connect(a) \/ Close(a) \/ GoneLong(a) => Kept
    BY DEF Connect, Close, GoneLong
  <2>5. ASSUME NEW t \in Tasks, NEW n \in 0..MaxAttempt
        PROVE  /\ (\E verdict \in {"completed", "review"} : WorkerComplete(a, t, verdict, n)) => Kept
               /\ WorkerFail(a, t, n) \/ Decline(a, t, n) \/ DeclineBusy(a, t, n) => Kept
               /\ (\E r \in Routes : QuotaExhausted(a, t, r, n)) => Kept
    BY DEF WorkerComplete, Finish, WorkerFail, CountFailure, Decline, DeclineBusy, QuotaExhausted
  <2>6. ASSUME NEW t \in Tasks PROVE Accept(a, t) \/ Progress(a, t) => Kept
    BY DEF Accept, Progress
  <2>7. QED
    BY <1>2, <2>1, <2>2, <2>3, <2>4, <2>5, <2>6 DEF AgentStep
<1>3. ASSUME LeadStep,
             ~\E t \in Tasks :
                \E dp \in DepPatches \cup {deps[t]}, fs \in FilePatches \cup {files[t]},
                   ch \in ChainPatches \cup {chain[t]}, chose \in BOOLEAN, clear \in BOOLEAN : Reroute(t, dp, fs, ch, chose, clear)
      PROVE  UNCHANGED <<attempt, route, files, deps>>
  BY <1>3 DEF LeadStep, Create, LeadFail, CountFailure, Approve, Reject, RejectGate, RejectWork, CancelTask, LeadComplete,
       Finish, RestUpdate
<1>4. ASSUME NEW t \in Tasks, LeaseExpires(t) PROVE UNCHANGED <<attempt, route, files, deps>>
  BY <1>4 DEF LeaseExpires
<1>5. CASE TickStep
  BY <1>5 DEF TickStep, TickLeases, TickOffline, TickEnd
<1>6. ASSUME HandlerStep, ~DispatchPass PROVE UNCHANGED <<attempt, route, files, deps>>
  BY <1>6 DEF HandlerStep, RestartEnd, SettleNext, CountFailure
<1>7. CASE HubCrash
  BY <1>7 DEF HubCrash
<1>8. QED
  BY <1>1, <1>2, <1>3, <1>4, <1>5, <1>6, <1>7 DEF Next

\* A row that holds a lock without a new attempt held it before, and an active one had the same
\* agent.
LEMMA OldHolder ==
  ASSUME TypeOK, LifeInv, [Next]_vars, NEW t \in Tasks, attempt'[t] = attempt[t]
  PROVE  /\ status'[t] \in Locking => status[t] \in Locking
         /\ status'[t] \in Active => status[t] \in Active /\ holder'[t] = holder[t]
<1> USE DEF Life!Active, Life!Locking, Life!Waiting, Life!Terminal, Life!Waits, Life!Kept, Life!SameStatus, Life!SameHolder,
        Life!SameAttempt, Locking, Active
<1>1. CASE UNCHANGED Life!row
  BY <1>1 DEF Life!row
<1>2. CASE Life!Stays(t)
  BY <1>2 DEF Life!Stays
<1>3. CASE Life!Moves(t)
  <2>1. attempt[t] \in Nat
    BY DEF TypeOK
  <2>2. QED
    BY <1>3, <2>1
       DEF Life!Moves, Life!Queues, Life!HandedOut, Life!NotSent, Life!Runs, Life!Submitted, Life!Finished, Life!GivenBack,
           Life!Declined, Life!Failed, Life!Rejected, Life!Reopened, Life!Cancelled
<1>4. QED
  BY <1>1, <1>2, <1>3, LifeStep DEF Life!Next

\* Two path lists lock each other out, or neither does.
LEMMA ConflictSymmetric ==
  ASSUME NEW f, NEW g, PathsConflict(f, g) PROVE PathsConflict(g, f)
BY DEF PathsConflict

\* What one pass changes: the tasks it hands out and nothing else.
LEMMA PassRows ==
  ASSUME TypeOK, DispatchPass
  PROVE  \E pick \in Picks(PassInput), got \in SUBSET ReadyTasks :
           /\ \A t \in got : /\ pick[t] # NoPick
                             /\ holder'[t] = pick[t][1]
                             /\ pick[t][1] \notin BusyAgents
                             /\ \A u \in Earlier(PassInput, pick, t) : pick[u][1] # pick[t][1]
                             /\ ~LockedOut(PassInput, pick, t)
           /\ \A t \in Tasks \ got :
                status'[t] = status[t] /\ holder'[t] = holder[t] /\ (status[t] \in Active => route'[t] = route[t])
           /\ UNCHANGED <<files, deps>>
<1>1. PICK pick \in Picks(PassInput), lost \in SUBSET Tasks : Dispatch(pick, lost)
  BY DEF DispatchPass, ReadyTasks
<1> DEFINE got == {t \in ReadyTasks : pick[t] # NoPick} \ lost
<1>2. ReadyTasks \subseteq Tasks /\ \A t \in ReadyTasks : status[t] = "pending"
  BY DEF ReadyTasks, Ready
<1>3. \A t \in got : /\ pick[t] # NoPick /\ holder'[t] = pick[t][1]
                     /\ pick[t][1] \notin BusyAgents
                     /\ \A u \in Earlier(PassInput, pick, t) : pick[u][1] # pick[t][1]
                     /\ ~LockedOut(PassInput, pick, t)
  BY <1>1, <1>2, PickFits DEF Dispatch
<1>4. \A t \in Tasks \ got :
        status'[t] = status[t] /\ holder'[t] = holder[t] /\ (status[t] \in Active => route'[t] = route[t])
  BY <1>1, <1>2 DEF Dispatch, TypeOK, Active
<1>5. UNCHANGED <<files, deps>>
  BY <1>1 DEF Dispatch, settings
<1>6. got \in SUBSET ReadyTasks
  OBVIOUS
<1>7. QED
  BY <1>3, <1>4, <1>5, <1>6

\* Of two tasks of one pass, one comes before the other.
LEMMA PassOrder ==
  ASSUME NEW pick, NEW t \in ReadyTasks, NEW u \in ReadyTasks, t # u, pick[t] # NoPick, pick[u] # NoPick
  PROVE  t \in Earlier(PassInput, pick, u) \/ u \in Earlier(PassInput, pick, t)
<1>1. t \in Tasks /\ u \in Tasks
  BY DEF ReadyTasks
<1>2. Rank[t] \in Nat /\ Rank[u] \in Nat /\ Rank[t] # Rank[u]
  BY <1>1, ConductorAssumption
<1>3. Rank[t] < Rank[u] \/ Rank[u] < Rank[t]
  BY <1>2
<1>4. QED
  BY <1>3 DEF Earlier, PassInput

\* As long as the lead rewrites no file list, two tasks that hold their files never clash: not
\* when a pass hands out several tasks, not when sessions claim tasks between passes.
THEOREM LocksExclusiveHolds ==
  ASSUME FilePatches = {} PROVE Spec => []LocksExclusive
<1>1. Init => LocksExclusive
  BY DEF Init, LocksExclusive, LockHolders, Locking, Active
<1>2. TypeOK /\ LifeInv /\ LocksExclusive /\ [Next]_vars => LocksExclusive'
  <2> SUFFICES ASSUME TypeOK, LifeInv, LocksExclusive, [Next]_vars,
                      NEW t \in Tasks, NEW u \in Tasks, t # u, status'[t] \in Locking, status'[u] \in Locking
               PROVE  ~PathsConflict(files'[t], files'[u])
    BY DEF LocksExclusive, LockHolders
  <2>0. \A x \in Tasks, y \in Tasks :
          x # y /\ status[x] \in Locking /\ status[y] \in Locking => ~PathsConflict(files[x], files[y])
    BY DEF LocksExclusive, LockHolders
  <2>1. CASE UNCHANGED <<attempt, files>>
    BY <2>0, <2>1, OldHolder
  <2>2. ASSUME NEW a \in Agents, NEW p \in Tasks, NEW to \in {"accepted", "in_progress"}, Pull(a, p, to)
        PROVE  ~PathsConflict(files'[t], files'[u])
    <3>1. /\ files' = files
          /\ \A x \in Tasks : x # p => status'[x] = status[x]
          /\ \A x \in LockHolders : ~PathsConflict(files[x], files[p])
      BY <2>2 DEF Pull, settings, TypeOK
    <3>2. QED
      BY <2>0, <3>1, ConflictSymmetric DEF LockHolders
  <2>3. ASSUME NEW p \in Tasks, NEW dp, NEW fs \in FilePatches \cup {files[p]}, NEW ch, NEW chose, NEW clear, Reroute(p, dp, fs, ch, chose, clear)
        PROVE  ~PathsConflict(files'[t], files'[u])
    <3>1. files' = files /\ attempt' = attempt
      BY <2>3 DEF Reroute, TypeOK
    <3>2. QED
      BY <2>1, <3>1
  <2>4. CASE DispatchPass
    <3>1. PICK pick \in Picks(PassInput), got \in SUBSET ReadyTasks :
            /\ \A x \in got : pick[x] # NoPick /\ ~LockedOut(PassInput, pick, x)
            /\ \A x \in Tasks \ got : status'[x] = status[x]
            /\ files' = files
      BY <2>4, PassRows
    <3>2. \A x \in got : \A y \in LockHolders : ~PathsConflict(files[y], files[x])
      BY <3>1 DEF LockedOut, PassInput
    <3>3. \A x \in got : \A y \in Earlier(PassInput, pick, x) : ~PathsConflict(files[y], files[x])
      BY <3>1 DEF LockedOut, PassInput
    <3>4. CASE t \in got /\ u \in got
      BY <3>1, <3>3, <3>4, PassOrder, ConflictSymmetric
    <3>5. CASE t \notin got \/ u \notin got
      BY <2>0, <3>1, <3>2, <3>5, ConflictSymmetric DEF LockHolders
    <3>6. QED
      BY <3>4, <3>5
  <2>5. QED
    BY <2>1, <2>2, <2>3, <2>4, ScheduleKept
<1>3. QED
  BY <1>1, <1>2, TypeCorrect, LifeInvariant, PTL DEF Spec

\* The dispatcher never gives an agent a second task, whatever the agent claims, reports or
\* loses meanwhile.
THEOREM OnePushedTaskHolds == Spec => []OnePushedTask
<1> DEFINE Pushed(t, a) == status[t] \in Active /\ holder[t] = a /\ route[t] # NoRoute
<1>0. OnePushedTask <=> \A a \in Agents : \A t, u \in Tasks : Pushed(t, a) /\ Pushed(u, a) => t = u
  BY DEF OnePushedTask, HeldTasks, Held, IsActive
<1>1. Init => OnePushedTask
  BY <1>0 DEF Init, Active
<1>2. TypeOK /\ LifeInv /\ OnePushedTask /\ [Next]_vars => OnePushedTask'
  <2> SUFFICES ASSUME TypeOK, LifeInv, OnePushedTask, [Next]_vars,
                      NEW a \in Agents, NEW t \in Tasks, NEW u \in Tasks, Pushed(t, a)', Pushed(u, a)', t # u
               PROVE  FALSE
    BY DEF OnePushedTask, HeldTasks, Held, IsActive
  <2>1. CASE UNCHANGED <<attempt, route>>
    <3>1. Pushed(t, a) /\ Pushed(u, a)
      BY <2>1, OldHolder
    <3>2. QED
      BY <1>0, <3>1
  <2>2. ASSUME NEW b \in Agents, NEW p \in Tasks, NEW to \in {"accepted", "in_progress"}, Pull(b, p, to)
        PROVE  FALSE
    <3>1. /\ route'[p] = NoRoute
          /\ \A x \in Tasks : x # p => status'[x] = status[x] /\ holder'[x] = holder[x] /\ route'[x] = route[x]
      BY <2>2 DEF Pull, TypeOK
    <3>2. QED
      BY <1>0, <3>1
  <2>3. ASSUME NEW p \in Tasks, NEW dp, NEW fs, NEW ch, NEW chose, NEW clear, Reroute(p, dp, fs, ch, chose, clear)
        PROVE  FALSE
    BY <2>1, <2>3 DEF Reroute
  <2>4. CASE DispatchPass
    <3>1. PICK pick \in Picks(PassInput), got \in SUBSET ReadyTasks :
            /\ \A x \in got : /\ pick[x] # NoPick /\ holder'[x] = pick[x][1] /\ pick[x][1] \notin BusyAgents
                              /\ \A y \in Earlier(PassInput, pick, x) : pick[y][1] # pick[x][1]
            /\ \A x \in Tasks \ got :
                 status'[x] = status[x] /\ holder'[x] = holder[x] /\ (status[x] \in Active => route'[x] = route[x])
      BY <2>4, PassRows
    <3>2. \A x \in Tasks \ got : Pushed(x, a)' => Pushed(x, a) /\ a \in BusyAgents
      BY <3>1 DEF BusyAgents, HeldTasks, Held, IsActive
    <3>3. \A x \in got : holder'[x] = a => a \notin BusyAgents
      BY <3>1
    <3>4. CASE t \in got /\ u \in got
      <4>1. pick[t][1] = a /\ pick[u][1] = a /\ pick[t] # NoPick /\ pick[u] # NoPick
        BY <3>1, <3>4
      <4>2. t \notin Earlier(PassInput, pick, u) /\ u \notin Earlier(PassInput, pick, t)
        BY <3>1, <3>4, <4>1
      <4>3. QED
        BY <3>4, <4>1, <4>2, PassOrder
    <3>5. CASE t \notin got /\ u \notin got
      BY <1>0, <3>2, <3>5
    <3>6. CASE (t \in got /\ u \notin got) \/ (u \in got /\ t \notin got)
      BY <3>2, <3>3, <3>6
    <3>7. QED
      BY <3>4, <3>5, <3>6
  <2>5. QED
    BY <2>1, <2>2, <2>3, <2>4, ScheduleKept
<1>3. QED
  BY <1>1, <1>2, TypeCorrect, LifeInvariant, PTL DEF Spec

=============================================================================
