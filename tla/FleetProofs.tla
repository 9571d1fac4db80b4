----------------------------- MODULE FleetProofs -----------------------------
(***************************************************************************)
(* Machine-checked proofs about the hub and the workers together: however  *)
(* connections break and processes die, and whatever is lost with them,    *)
(* no outcome is dropped that the hub still wants, none is counted twice   *)
(* or as a failure, and no attempt with an outcome is run again.           *)
(***************************************************************************)
EXTENDS PassProofs, Fleet, SequenceTheorems

\* The lemmas about the steps of one worker.
WP == INSTANCE WorkerProofs WITH disk <- OnFile, unsaved <- NoneUnsaved

-----------------------------------------------------------------------------
(* Words for what a worker and the wire know.                              *)

\* Worker w has attempt n at t before it, behind it, or on its way.
InSlot(w, t, n)      == WP!IsOn(slot[w], t, n)
Unconfirmed(w, t, n) == WP!IsOn(unconf[w], t, n)

Offers(t, n)     == {m \in W!DownMsg : m.type \in {"assigned", "resumed"} /\ m.task = t /\ m.attempt = n}
FirstOffer(t, n) == {m \in W!DownMsg : m.type = "assigned" /\ m.task = t /\ m.attempt = n}
Again(t, n)      == {m \in W!DownMsg : m.type = "resumed" /\ m.task = t /\ m.attempt = n}

\* What takes a worker off attempt n at t.
Overtaking(t, n) ==
  {m \in W!DownMsg : \/ m.type = "revoked" /\ m.task = t
                     \/ m.type = "assigned"
                     \/ m.type = "resumed" /\ ~(m.task = t /\ m.attempt = n)}

OnWire(w, B)      == WP!Msgs(down[w]) \cap B # {}
Knows(w, t, n)    == InSlot(w, t, n) \/ Unconfirmed(w, t, n) \/ OnWire(w, Offers(t, n))

\* In q, no message of B comes after one of A.
Orderly(q, A, B) == \A i, j \in 1..Len(q) : i < j /\ q[i] \in A => q[j] \notin B

\* Both halves mean the same by these.
LEMMA SameTerms ==
  /\ W!NoSlot = WP!NoSlot /\ W!NoOutcome = WP!NoOutcome /\ W!Attempts = WP!Attempts
  /\ W!DownMsg = WP!DownMsg /\ W!UpMsg = WP!UpMsg
  /\ W!WorkerTypeOK <=> WP!WorkerTypeOK
  /\ \A w \in Workers : W!CanSend(w) <=> WP!CanSend(w)
BY DEF W!NoSlot, WP!NoSlot, W!NoOutcome, WP!NoOutcome, W!Attempts, WP!Attempts, W!DownMsg, WP!DownMsg, W!UpMsg, WP!UpMsg,
   W!WorkerTypeOK, WP!WorkerTypeOK, W!Slots, WP!Slots, W!Outcomes, WP!Outcomes, W!ReliableMsg, WP!ReliableMsg,
   W!Registered, WP!Registered, W!CanSend, WP!CanSend

-----------------------------------------------------------------------------
(* The hub: attempts, and who holds them.                                  *)

\* A pass gives ready workers that hold nothing one task each, each a new attempt.
LEMMA PassHands ==
  ASSUME TypeOK, DispatchPass
  PROVE  \E got \in SUBSET Tasks :
           /\ \A t \in got : /\ attempt'[t] = attempt[t] + 1 /\ attempt[t] < MaxAttempt /\ status[t] = "pending"
                             /\ ~IsActive(t)' => holder'[t] = holder[t]
                             /\ IsActive(t)' => /\ holder'[t] \in Agents /\ conn[holder'[t]] = "ready"
                                                /\ HeldTasks(holder'[t]) = {}
           /\ \A t, u \in got : t # u /\ IsActive(t)' /\ IsActive(u)' => holder'[t] # holder'[u]
           /\ \A t \in Tasks \ got : status'[t] = status[t] /\ holder'[t] = holder[t] /\ attempt'[t] = attempt[t]
<1>1. PICK pick \in Picks(PassInput), lost \in SUBSET Tasks : Dispatch(pick, lost)
  BY DEF DispatchPass, ReadyTasks
<1> DEFINE got == {t \in ReadyTasks : pick[t] # NoPick}
<1>2. ReadyTasks \subseteq Tasks /\ \A t \in ReadyTasks : status[t] = "pending" /\ attempt[t] < MaxAttempt
  BY DEF ReadyTasks, Ready
<1>3. \A t \in got : /\ attempt'[t] = attempt[t] + 1 /\ attempt[t] < MaxAttempt /\ status[t] = "pending"
                     /\ IsActive(t)' => t \notin lost
                     /\ ~IsActive(t)' => holder'[t] = holder[t]
                     /\ t \notin lost => holder'[t] = pick[t][1]
  BY <1>1, <1>2 DEF Dispatch, IsActive, Active
<1>4. \A t \in got : /\ pick[t][1] \in Agents /\ pick[t][1] \notin BusyAgents /\ conn[pick[t][1]] = "ready"
                     /\ \A u \in Earlier(PassInput, pick, t) : pick[u][1] # pick[t][1]
  <2> SUFFICES ASSUME NEW t \in got
               PROVE  /\ pick[t][1] \in Agents /\ pick[t][1] \notin BusyAgents /\ conn[pick[t][1]] = "ready"
                      /\ \A u \in Earlier(PassInput, pick, t) : pick[u][1] # pick[t][1]
    OBVIOUS
  <2> DEFINE used == {pick[u][1] : u \in Earlier(PassInput, pick, t)}
  <2>1. pick[t] \in Choices(PassInput, t, used)
    BY <1>1, PickChosen
  <2>2. pick[t][1] \in Available(PassInput, t, pick[t][2], used)
    BY <2>1 DEF Choices, Preferred
  <2>3. pick[t][1] \in PassInput.workers
    BY <2>2 DEF Available, Runnable
  <2>4. QED
    BY <1>1, <2>3, PickFits DEF PassInput
<1>5. \A t, u \in got : t # u => pick[t][1] # pick[u][1]
  BY <1>4, PassOrder
<1>6. /\ \A t \in got : /\ attempt'[t] = attempt[t] + 1 /\ attempt[t] < MaxAttempt /\ status[t] = "pending"
                        /\ ~IsActive(t)' => holder'[t] = holder[t]
                        /\ IsActive(t)' => /\ holder'[t] \in Agents /\ conn[holder'[t]] = "ready"
                                           /\ HeldTasks(holder'[t]) = {}
      /\ \A t, u \in got : t # u /\ IsActive(t)' /\ IsActive(u)' => holder'[t] # holder'[u]
  BY <1>3, <1>4, <1>5 DEF BusyAgents
<1>7. \A t \in Tasks \ got : status'[t] = status[t] /\ holder'[t] = holder[t] /\ attempt'[t] = attempt[t]
  BY <1>1 DEF Dispatch
<1> HIDE DEF got
<1>8. got \in SUBSET Tasks
  BY <1>2 DEF got
<1>9. QED
  BY <1>6, <1>7, <1>8

\* The steps of the hub that give no one a task.
HandsNothing ==
  \/ LeadStep \/ TickStep \/ RestartEnd \/ HubCrash
  \/ \E x \in todo : SettleNext(x)
  \/ \E t \in Tasks : LeaseExpires(t)
  \/ \E w \in Agents :
       \/ GoneLong(w) \/ Connect(w) \/ Close(w) \/ \E s \in {"idle", "busy"} : StatusUpdate(w, s)
       \/ \E reported \in Tasks \cup {NoTask} : Register(w, reported)
       \/ \E t \in Tasks, n \in 0..MaxAttempt :
            \/ Accept(w, t) \/ WorkerComplete(w, t, "completed", n) \/ WorkerFail(w, t, n)
            \/ Decline(w, t, n) \/ DeclineBusy(w, t, n) \/ \E r \in Routes : QuotaExhausted(w, t, r, n)

\* A step that hands nothing out is one of the hub, and numbers no attempt.
LEMMA HandsNothingKeeps ==
  ASSUME HandsNothing \/ UNCHANGED vars
  PROVE  [Next]_vars /\ UNCHANGED attempt
<1> USE DEF rows, counters, history, settings
<1>1. CASE UNCHANGED vars
  BY <1>1 DEF vars
<1>2. CASE LeadStep
  <2>1. UNCHANGED attempt
    <3>1. CASE \E b \in Batches : Create(b)
      BY <3>1 DEF Create
    <3>2. CASE \E t \in Tasks : LeadFail(t) \/ Approve(t) \/ Reject(t) \/ RejectGate(t) \/ CancelTask(t)
      BY <3>2 DEF LeadFail, CountFailure, Approve, Reject, RejectGate, RejectWork, CancelTask
    <3>3. CASE \E t \in Tasks, verdict \in {"completed", "review"} : LeadComplete(t, verdict)
      BY <3>3 DEF LeadComplete, Finish
    <3>4. CASE \E t \in Tasks, to \in {"accepted", "in_progress"} : RestUpdate(t, to)
      BY <3>4 DEF RestUpdate
    <3>5. ASSUME NEW t \in Tasks, NEW dp, NEW fs, NEW ch, NEW chose, NEW clear, Reroute(t, dp, fs, ch, chose, clear)
          PROVE  UNCHANGED attempt
      BY <3>5 DEF Reroute
    <3>6. QED
      BY <1>2, <3>1, <3>2, <3>3, <3>4, <3>5 DEF LeadStep
  <2>2. QED
    BY <1>2, <2>1 DEF Next
<1>3. CASE TickStep \/ RestartEnd \/ HubCrash
  BY <1>3 DEF Next, HandlerStep, TickStep, TickLeases, TickOffline, TickEnd, RestartEnd, HubCrash
<1>4. ASSUME NEW x \in todo, SettleNext(x) PROVE [Next]_vars /\ UNCHANGED attempt
  BY <1>4 DEF Next, HandlerStep, SettleNext, CountFailure
<1>5. ASSUME NEW t \in Tasks, LeaseExpires(t) PROVE [Next]_vars /\ UNCHANGED attempt
  BY <1>5 DEF Next, LeaseExpires
<1>6. ASSUME NEW w \in Agents, GoneLong(w) \/ Connect(w) \/ Close(w) \/ \E s \in {"idle", "busy"} : StatusUpdate(w, s)
      PROVE  [Next]_vars /\ UNCHANGED attempt
  BY <1>6 DEF Next, AgentStep, GoneLong, Connect, Close, StatusUpdate
<1>7. ASSUME NEW w \in Agents, NEW reported \in Tasks \cup {NoTask}, Register(w, reported)
      PROVE  [Next]_vars /\ UNCHANGED attempt
  BY <1>7 DEF Next, AgentStep, Register
<1>8. ASSUME NEW w \in Agents, NEW t \in Tasks, NEW n \in 0..MaxAttempt, Accept(w, t)
      PROVE  [Next]_vars /\ UNCHANGED attempt
  BY <1>8 DEF Next, AgentStep, Accept
<1>9. ASSUME NEW w \in Agents, NEW t \in Tasks, NEW n \in 0..MaxAttempt, WorkerComplete(w, t, "completed", n)
      PROVE  [Next]_vars /\ UNCHANGED attempt
  BY <1>9 DEF Next, AgentStep, WorkerComplete, Finish
<1>10. ASSUME NEW w \in Agents, NEW t \in Tasks, NEW n \in 0..MaxAttempt, WorkerFail(w, t, n)
       PROVE  [Next]_vars /\ UNCHANGED attempt
  BY <1>10 DEF Next, AgentStep, WorkerFail, CountFailure
<1>11. ASSUME NEW w \in Agents, NEW t \in Tasks, NEW n \in 0..MaxAttempt, Decline(w, t, n) \/ DeclineBusy(w, t, n)
       PROVE  [Next]_vars /\ UNCHANGED attempt
  BY <1>11 DEF Next, AgentStep, Decline, DeclineBusy
<1>12. ASSUME NEW w \in Agents, NEW t \in Tasks, NEW n \in 0..MaxAttempt, NEW r \in Routes, QuotaExhausted(w, t, r, n)
       PROVE  [Next]_vars /\ UNCHANGED attempt
  BY <1>12 DEF Next, AgentStep, QuotaExhausted
<1>13. QED
  BY <1>1, <1>2, <1>3, <1>4, <1>5, <1>6, <1>7, <1>8, <1>9, <1>10, <1>11, <1>12 DEF HandsNothing

HubActs == HandsNothing \/ DispatchPass \/ UNCHANGED vars

OneHeld == \A a \in Agents : \A t, u \in HeldTasks(a) : t = u

\* What any step of the hub comes to for the holders: a task stays with its agent in the same
\* attempt, or comes to a ready agent without one in a new attempt.
HandsOver ==
  /\ \A t \in Tasks :
       \/ attempt'[t] = attempt[t]
       \/ attempt'[t] = attempt[t] + 1 /\ attempt[t] < MaxAttempt /\ (IsActive(t)' \/ holder'[t] = NoAgent)
  /\ \A a \in Agents, t \in Tasks :
       Held(a, t)' => \/ Held(a, t) /\ attempt'[t] = attempt[t]
                      \/ attempt'[t] = attempt[t] + 1 /\ conn[a] = "ready" /\ HeldTasks(a) = {}

\* What a step of the hub gives to an agent is a new attempt, for a registered agent without work.
LEMMA HubHandsOver ==
  ASSUME TypeOK, LifeInv, HubActs
  PROVE  [Next]_vars /\ HandsOver /\ (OneHeld => OneHeld')
<1>1. CASE HandsNothing \/ UNCHANGED vars
  <2>1. [Next]_vars /\ UNCHANGED attempt
    BY <1>1, HandsNothingKeeps
  <2>2. \A a \in Agents, t \in Tasks : Held(a, t)' => Held(a, t)
    BY <2>1, OldHolder DEF Held, IsActive
  <2>3. OneHeld => OneHeld'
    BY <2>2 DEF OneHeld, HeldTasks
  <2>4. QED
    BY <2>1, <2>2, <2>3 DEF HandsOver
<1>2. CASE DispatchPass
  <2>1. PICK got \in SUBSET Tasks :
          /\ \A t \in got : /\ attempt'[t] = attempt[t] + 1 /\ attempt[t] < MaxAttempt /\ status[t] = "pending"
                            /\ ~IsActive(t)' => holder'[t] = holder[t]
                            /\ IsActive(t)' => /\ holder'[t] \in Agents /\ conn[holder'[t]] = "ready"
                                               /\ HeldTasks(holder'[t]) = {}
          /\ \A t, u \in got : t # u /\ IsActive(t)' /\ IsActive(u)' => holder'[t] # holder'[u]
          /\ \A t \in Tasks \ got : status'[t] = status[t] /\ holder'[t] = holder[t] /\ attempt'[t] = attempt[t]
    BY <1>2, PassHands
  <2>2. HandsOver
    <3>1. \A t \in got : ~IsActive(t) /\ holder[t] = NoAgent
      BY <2>1 DEF IsActive, Active, LifeInv, HolderAndLease, Life!HolderAndLease, Life!Waiting
    <3>2. QED
      BY <2>1, <3>1 DEF HandsOver, Held, IsActive
  <2>3. ASSUME OneHeld, NEW a \in Agents, NEW t \in Tasks, NEW u \in Tasks, Held(a, t)', Held(a, u)', t # u
        PROVE  FALSE
    <3>1. CASE t \in got /\ u \in got
      BY <2>1, <2>3, <3>1 DEF Held
    <3>2. CASE t \notin got /\ u \notin got
      BY <2>1, <2>3, <3>2 DEF Held, IsActive, OneHeld, HeldTasks
    <3>3. CASE t \in got /\ u \notin got
      BY <2>1, <2>3, <3>3 DEF Held, IsActive, HeldTasks
    <3>4. CASE t \notin got /\ u \in got
      BY <2>1, <2>3, <3>4 DEF Held, IsActive, HeldTasks
    <3>5. QED
      BY <3>1, <3>2, <3>3, <3>4
  <2>4. [Next]_vars
    BY <1>2 DEF Next, HandlerStep
  <2>5. QED
    BY <2>2, <2>3, <2>4 DEF OneHeld, HeldTasks
<1>3. QED
  BY <1>1, <1>2 DEF HubActs

-----------------------------------------------------------------------------
(* The order of messages on a wire.                                        *)

\* Reading the first message of q: what is left of it, and what cannot come any more.
LEMMA TailOrder ==
  ASSUME NEW S, NEW q \in Seq(S), q # <<>>
  PROVE  /\ Tail(q) \in Seq(S) /\ q[1] \in S
         /\ WP!Msgs(q) = {q[1]} \cup WP!Msgs(Tail(q))
         /\ \A A, B : Orderly(q, A, B) => /\ Orderly(Tail(q), A, B)
                                          /\ q[1] \in A => WP!Msgs(Tail(q)) \cap B = {}
<1>1. Len(q) \in Nat /\ Len(q) >= 1
  BY EmptySeq, LenProperties
<1>2. Tail(q) \in Seq(S) /\ Len(Tail(q)) = Len(q) - 1 /\ \A i \in 1..Len(Tail(q)) : Tail(q)[i] = q[i + 1]
  BY HeadTailProperties
<1> DEFINE p == Tail(q)
<1>3. Len(p) = Len(q) - 1 /\ \A i \in 1..Len(p) : p[i] = q[i + 1]
  BY <1>2
<1> HIDE DEF p
<1>4. \A i \in 1..Len(p) : i + 1 \in 1..Len(q) /\ 1 < i + 1
  BY <1>1, <1>3
<1>5. \A i \in 1..Len(q) : i = 1 \/ (i - 1 \in 1..Len(p) /\ p[i - 1] = q[i])
  BY <1>1, <1>3
<1>6. WP!Msgs(q) = {q[1]} \cup WP!Msgs(p)
  <2>1. 1 \in 1..Len(q)
    BY <1>1
  <2>2. QED
    BY <1>3, <1>4, <1>5, <2>1 DEF WP!Msgs
<1>7. \A A, B : Orderly(q, A, B) => Orderly(p, A, B)
  <2> SUFFICES ASSUME NEW A, NEW B, Orderly(q, A, B), NEW i \in 1..Len(p), NEW j \in 1..Len(p), i < j, p[i] \in A
               PROVE  p[j] \notin B
    BY DEF Orderly
  <2>1. i + 1 \in 1..Len(q) /\ j + 1 \in 1..Len(q) /\ i + 1 < j + 1
    BY <1>4
  <2>2. QED
    BY <1>3, <2>1 DEF Orderly
<1>8. \A A, B : Orderly(q, A, B) /\ q[1] \in A => WP!Msgs(p) \cap B = {}
  <2>1. 1 \in 1..Len(q)
    BY <1>1
  <2>2. QED
    BY <1>3, <1>4, <2>1 DEF Orderly, WP!Msgs
<1>9. q[1] \in S
  BY <1>1, ElementOfSeq
<1>10. QED
  BY <1>2, <1>6, <1>7, <1>8, <1>9 DEF p

\* What is under way behind some point is lost.
LEMMA PrefixOrder ==
  ASSUME NEW S, NEW q \in Seq(S), NEW p \in W!Prefixes(q)
  PROVE  /\ p \in Seq(S) /\ WP!Msgs(p) \subseteq WP!Msgs(q) /\ Len(p) <= Len(q)
         /\ \A A, B : Orderly(q, A, B) => Orderly(p, A, B)
<1>1. PICK n \in 0..Len(q) : p = SubSeq(q, 1, n)
  BY DEF W!Prefixes
<1>2. Len(q) \in Nat
  BY LenProperties
<1>3. \A i \in 1..n : q[i] \in S
  BY <1>1, <1>2, ElementOfSeq
<1>4. p \in Seq(S) /\ Len(p) = n /\ \A i \in 1..n : p[i] = q[i]
  BY <1>1, <1>2, <1>3, SubSeqProperties
<1>5. \A i \in 1..n : i \in 1..Len(q)
  BY <1>1, <1>2
<1>6. QED
  BY <1>2, <1>4, <1>5 DEF WP!Msgs, Orderly

\* More is sent.
LEMMA ConcatOrder ==
  ASSUME NEW S, NEW p \in Seq(S), NEW q \in Seq(S)
  PROVE  /\ p \o q \in Seq(S) /\ WP!Msgs(p \o q) = WP!Msgs(p) \cup WP!Msgs(q)
         /\ \A A, B : /\ Orderly(p, A, B) /\ Orderly(q, A, B)
                      /\ WP!Msgs(p) \cap A = {} \/ WP!Msgs(q) \cap B = {}
                      => Orderly(p \o q, A, B)
<1>1. Len(p) \in Nat /\ Len(q) \in Nat /\ p \o q \in Seq(S) /\ Len(p \o q) = Len(p) + Len(q)
  BY ConcatProperties, LenProperties
<1> DEFINE r == p \o q
<1>2. \A i \in 1..Len(r) :
        \/ i \in 1..Len(p) /\ r[i] = p[i]
        \/ i > Len(p) /\ i - Len(p) \in 1..Len(q) /\ r[i] = q[i - Len(p)]
  BY <1>1, ConcatProperties
<1>3. WP!Msgs(r) = WP!Msgs(p) \cup WP!Msgs(q)
  BY FleetAssumption, WP!ConcatMsgs DEF W!WorkerAssumption, WP!WorkerAssumption
<1>4. ASSUME NEW A, NEW B, Orderly(p, A, B), Orderly(q, A, B), WP!Msgs(p) \cap A = {} \/ WP!Msgs(q) \cap B = {},
             NEW i \in 1..Len(r), NEW j \in 1..Len(r), i < j, r[i] \in A
      PROVE  r[j] \notin B
  <2>1. CASE i \in 1..Len(p) /\ r[i] = p[i] /\ j \in 1..Len(p) /\ r[j] = p[j]
    BY <1>4, <2>1 DEF Orderly
  <2>2. CASE i \in 1..Len(p) /\ r[i] = p[i] /\ j - Len(p) \in 1..Len(q) /\ r[j] = q[j - Len(p)]
    BY <1>4, <2>2 DEF WP!Msgs
  <2>3. CASE i > Len(p) /\ i - Len(p) \in 1..Len(q) /\ r[i] = q[i - Len(p)]
    <3>1. j > Len(p) /\ j - Len(p) \in 1..Len(q) /\ r[j] = q[j - Len(p)] /\ i - Len(p) < j - Len(p)
      BY <1>1, <1>2, <1>4, <2>3
    <3>2. QED
      BY <1>4, <2>3, <3>1 DEF Orderly
  <2>4. QED
    BY <1>2, <2>1, <2>2, <2>3
<1> HIDE DEF r
<1>5. \A A, B : /\ Orderly(p, A, B) /\ Orderly(q, A, B)
                /\ WP!Msgs(p) \cap A = {} \/ WP!Msgs(q) \cap B = {}
                => Orderly(r, A, B)
  BY <1>4 DEF Orderly
<1>6. QED
  BY <1>1, <1>3, <1>5 DEF r

-----------------------------------------------------------------------------
(* What the hub says.                                                      *)

\* The hub reads the registration of v.
Registering(v) ==
  up[v] # <<>> /\ up[v][1].type = "register" /\ up'[v] = Tail(up[v]) /\ conn'[v] = "ready"

\* What the hub says to v in one step: revocations of tasks it has no more, a task in a new
\* attempt, the answer to a registration; an offer is the last word.
SaysTo(v, s) ==
  /\ s \in Seq(W!DownMsg) /\ down'[v] = down[v] \o s
  /\ \A m \in WP!Msgs(s) :
       /\ m.type = "revoked" => ~Held(v, m.task)'
       /\ m.type = "assigned" =>
            /\ Held(v, m.task)' /\ m.attempt = attempt'[m.task] /\ attempt'[m.task] = attempt[m.task] + 1
       /\ m.type = "registered" => Registering(v)
       /\ m.type = "resumed" =>
            /\ Registering(v) /\ OnAttempt(v, m.task, m.attempt) /\ UNCHANGED <<status, holder, attempt>>
            /\ \A x \in WP!Msgs(s) : x = m \/ x.type = "registered"
  /\ \A A, B : (\A m \in A : m.type \in {"assigned", "resumed"}) => Orderly(s, A, B)

\* One message or none, and another one or none.
LEMMA TwoParts ==
  ASSUME NEW S, NEW p \in Seq(S), NEW q \in Seq(S), Len(p) <= 1, Len(q) <= 1
  PROVE  /\ p \o q \in Seq(S) /\ WP!Msgs(p \o q) = WP!Msgs(p) \cup WP!Msgs(q)
         /\ \A A, B : WP!Msgs(p) \cap A = {} => Orderly(p \o q, A, B)
<1>1. \A A, B : WP!Msgs(p) \cap A = {} => Orderly(p, A, B) /\ Orderly(q, A, B)
  BY LenProperties DEF WP!Msgs, Orderly
<1>2. QED
  BY <1>1, ConcatOrder

\* What sequences of no message and of one message hold.
LEMMA OneOrNone ==
  /\ \A S : <<>> \in Seq(S)
  /\ WP!Msgs(<<>>) = {} /\ Len(<<>>) <= 1
  /\ \A S, m : m \in S => <<m>> \in Seq(S)
  /\ \A m : WP!Msgs(<<m>>) = {m} /\ Len(<<m>>) <= 1
<1>1. WP!Msgs(<<>>) = {} /\ \A m : WP!Msgs(<<m>>) = {m}
  BY FleetAssumption, WP!FewMsgs DEF W!WorkerAssumption, WP!WorkerAssumption
<1>2. \A S, m : m \in S => <<m>> \in Seq(S)
  OBVIOUS
<1>3. QED
  BY <1>1, <1>2

\* Saying nothing.
LEMMA TellNobodySays ==
  ASSUME W!WorkerTypeOK, TellNobody, NEW v \in Workers
  PROVE  SaysTo(v, <<>>)
<1>1. down[v] \in Seq(W!DownMsg)
  BY DEF W!WorkerTypeOK
<1>2. down'[v] = down[v] \o <<>>
  BY <1>1, ConcatEmptySeq DEF TellNobody
<1>3. \A A, B : Orderly(<<>>, A, B)
  BY DEF Orderly
<1>4. QED
  BY <1>2, <1>3, OneOrNone DEF SaysTo

\* Telling what a step of the hub has done to the holders.
LEMMA TellSays ==
  ASSUME TypeOK, W!WorkerTypeOK, HandsOver, Tell, NEW v \in Workers
  PROVE  \E s : /\ SaysTo(v, s)
                /\ Online(v) /\ sock[v] = "open" =>
                     /\ OneHeld => \A t \in TakenFrom(v) : W!Revoked(t) \in WP!Msgs(s)
                     /\ OneHeld' => \A t \in GivenTo(v) : W!Assigned(t, attempt'[t]) \in WP!Msgs(s)
<1>0. v \in Agents
  BY FleetAssumption, ConductorAssumption
<1> DEFINE p == OneOf(TakenFrom(v), W!Revoked)
           q == OneOf(GivenTo(v), LAMBDA t : W!Assigned(t, attempt'[t]))
<1>1. down[v] \in Seq(W!DownMsg) /\ down'[v] = Pushed(v, p \o q)
  BY DEF Tell, W!WorkerTypeOK
<1>2. /\ p \in Seq(W!DownMsg) /\ Len(p) <= 1
      /\ \A m \in WP!Msgs(p) : m.type = "revoked" /\ ~Held(v, m.task)'
      /\ OneHeld => \A t \in TakenFrom(v) : W!Revoked(t) \in WP!Msgs(p)
  <2>1. CASE TakenFrom(v) = {}
    <3>1. p = <<>>
      BY <2>1 DEF OneOf
    <3>2. QED
      BY <2>1, <3>1, OneOrNone
  <2>2. CASE TakenFrom(v) # {}
    <3>1. PICK t \in TakenFrom(v) : p = <<W!Revoked(t)>>
      BY <2>2 DEF OneOf
    <3>2. t \in Tasks /\ ~Held(v, t)' /\ (OneHeld => \A u \in TakenFrom(v) : u = t)
      BY <1>0, <3>1 DEF TakenFrom, HeldTasks, Held, OneHeld
    <3>3. W!Revoked(t) \in W!DownMsg
      BY <3>2 DEF W!Revoked, W!DownMsg
    <3> HIDE DEF p
    <3>4. QED
      BY <3>1, <3>2, <3>3, OneOrNone DEF W!Revoked
  <2>3. QED
    BY <2>1, <2>2
<1>3. /\ q \in Seq(W!DownMsg) /\ Len(q) <= 1
      /\ \A m \in WP!Msgs(q) : /\ m.type = "assigned" /\ Held(v, m.task)' /\ m.attempt = attempt'[m.task]
                               /\ attempt'[m.task] = attempt[m.task] + 1
      /\ OneHeld' => \A t \in GivenTo(v) : W!Assigned(t, attempt'[t]) \in WP!Msgs(q)
  <2>1. CASE GivenTo(v) = {}
    <3>1. q = <<>>
      BY <2>1 DEF OneOf
    <3>2. QED
      BY <2>1, <3>1, OneOrNone
  <2>2. CASE GivenTo(v) # {}
    <3>1. PICK t \in GivenTo(v) : q = <<W!Assigned(t, attempt'[t])>>
      BY <2>2 DEF OneOf
    <3>2. \A u \in GivenTo(v) : u \in Tasks /\ attempt'[u] = attempt[u] + 1 /\ Held(v, u)'
      <4> SUFFICES ASSUME NEW u \in GivenTo(v) PROVE u \in Tasks /\ attempt'[u] = attempt[u] + 1 /\ Held(v, u)'
        OBVIOUS
      <4>1. u \in Tasks /\ attempt'[u] > attempt[u] /\ holder'[u] = v /\ attempt[u] \in Nat
        BY DEF GivenTo, TypeOK
      <4>2. QED
        BY <1>0, <4>1, ConductorAssumption DEF HandsOver, Held
    <3>3. /\ t \in Tasks /\ Held(v, t)' /\ attempt'[t] = attempt[t] + 1 /\ attempt'[t] \in W!Attempts
          /\ OneHeld' => \A u \in GivenTo(v) : u = t
      <4>1. t \in Tasks /\ Held(v, t)' /\ attempt'[t] = attempt[t] + 1 /\ attempt[t] \in Nat
        BY <3>2 DEF TypeOK
      <4>2. attempt[t] < MaxAttempt
        BY <4>1 DEF HandsOver
      <4>3. attempt'[t] \in W!Attempts
        BY <4>1, <4>2, ConductorAssumption DEF W!Attempts
      <4>4. OneHeld' => \A u \in GivenTo(v) : u = t
        BY <1>0, <3>2, <4>1 DEF OneHeld, HeldTasks
      <4>5. QED
        BY <4>1, <4>3, <4>4
    <3>4. W!Assigned(t, attempt'[t]) \in W!DownMsg
      BY <3>3 DEF W!Assigned, W!DownMsg
    <3> HIDE DEF q
    <3>5. QED
      BY <3>1, <3>3, <3>4, OneOrNone DEF W!Assigned
  <2>3. QED
    BY <2>1, <2>2
<1> HIDE DEF p, q
<1>4. CASE Online(v) /\ sock[v] = "open"
  <2>1. down'[v] = down[v] \o (p \o q)
    BY <1>1, <1>4 DEF Pushed
  <2>2. /\ p \o q \in Seq(W!DownMsg) /\ WP!Msgs(p \o q) = WP!Msgs(p) \cup WP!Msgs(q)
        /\ \A A, B : WP!Msgs(p) \cap A = {} => Orderly(p \o q, A, B)
    BY <1>2, <1>3, TwoParts
  <2>3. \A A : (\A m \in A : m.type \in {"assigned", "resumed"}) => WP!Msgs(p) \cap A = {}
    BY <1>2
  <2>4. SaysTo(v, p \o q)
    BY <1>2, <1>3, <2>1, <2>2, <2>3 DEF SaysTo
  <2>5. QED
    BY <1>2, <1>3, <2>2, <2>4
<1>5. CASE ~(Online(v) /\ sock[v] = "open")
  <2>1. TellNobody \/ down'[v] = down[v]
    BY <1>1, <1>5 DEF Pushed
  <2>2. down'[v] = down[v] \o <<>>
    BY <1>1, <1>5, ConcatEmptySeq DEF Pushed
  <2>3. \A A, B : Orderly(<<>>, A, B)
    BY DEF Orderly
  <2>4. SaysTo(v, <<>>)
    BY <2>2, <2>3, OneOrNone DEF SaysTo
  <2>5. QED
    BY <1>5, <2>4
<1>6. QED
  BY <1>4, <1>5

\* An agent is on an attempt with a number.
LEMMA ActiveNumbered ==
  ASSUME TypeOK, LifeInv, NEW t \in Tasks, IsActive(t)
  PROVE  attempt[t] \in Nat \ {0}
<1>1. Kind[t] = "work"
  BY DEF LifeInv, Life!OnlyWorkRuns, Life!Locking, Life!Active, IsActive, Active
<1>2. status[t] \in Life!Locking
  BY DEF IsActive, Active, Life!Locking, Life!Active
<1>3. fails[t] + rejects[t] + 1 <= attempt[t] /\ fails[t] \in Nat /\ rejects[t] \in Nat /\ attempt[t] \in Nat
  BY <1>1, <1>2 DEF TypeOK, LifeInv, AttemptSettledOnce, Life!AttemptSettledOnce
<1>4. QED
  BY <1>3

\* Answering a registration.
LEMMA RegisterSays ==
  ASSUME TypeOK, LifeInv, W!WorkerTypeOK, NEW w \in Workers, HubReads(w), up[w][1].type = "register",
         \A t \in Tasks : attempt[t] <= MaxAttempt, NEW v \in Workers
  PROVE  \E s : /\ SaysTo(v, s)
                /\ v = w /\ sock[v] = "open" =>
                     /\ W!Registered \in WP!Msgs(s)
                     /\ conn[v] # "ready" /\ up[v][1].task \in HeldTasks(v) =>
                          W!Resumed(up[v][1].task, attempt[up[v][1].task]) \in WP!Msgs(s)
                /\ \A x \in WP!Msgs(s) : v = w /\ x.type = "resumed" => x.task = up[v][1].task
<1> DEFINE m == up[w][1]
<1>1. /\ up[w] \in Seq(W!UpMsg) /\ up[w] # <<>> /\ down[v] \in Seq(W!DownMsg) /\ down \in [Workers -> Seq(W!DownMsg)]
      /\ up' = [up EXCEPT ![w] = Tail(up[w])] /\ up \in [Workers -> Seq(W!UpMsg)] /\ Online(w)
  BY DEF HubReads, W!WorkerTypeOK
<1>2. Head(up[w]) = m /\ m \in W!UpMsg
  BY <1>1, HeadTailProperties
<1>4. /\ Register(w, m.task) /\ m.task \in Tasks \cup {NoTask}
      /\ down' = [down EXCEPT ![w] = Pushed(w, <<W!Registered>> \o AnswerTo(w, m.task))]
  BY <1>2 DEF HubReads, Handles, W!UpMsg
<1>3. Registering(w)
  <2>1. w \in Agents
    BY FleetAssumption, ConductorAssumption
  <2>2. conn'[w] = "ready"
    BY <1>4, <2>1 DEF Register, TypeOK
  <2>3. QED
    BY <1>1, <2>2 DEF Registering
<1>5. UNCHANGED <<status, holder, attempt>>
  BY <1>4 DEF Register, rows, counters
<1>6. \A A, B : Orderly(<<>>, A, B)
  BY DEF Orderly
<1>7. CASE v # w \/ ~(sock[w] = "open")
  <2>1. down'[v] = down[v]
    BY <1>1, <1>4, <1>7 DEF Pushed
  <2>2. SaysTo(v, <<>>)
    BY <1>1, <1>6, <2>1, OneOrNone, ConcatEmptySeq DEF SaysTo
  <2>3. QED
    BY <1>7, <2>2, OneOrNone
<1>8. CASE v = w /\ sock[w] = "open"
  <2> DEFINE p == <<W!Registered>>
             q == AnswerTo(w, m.task)
  <2>1. down'[w] = down[w] \o (p \o q)
    BY <1>1, <1>4, <1>8 DEF Pushed
  <2>2. W!Registered \in W!DownMsg /\ W!Registered.type = "registered"
    BY DEF W!DownMsg, W!Registered
  <2>3. p \in Seq(W!DownMsg) /\ Len(p) <= 1 /\ WP!Msgs(p) = {W!Registered}
    BY <2>2, OneOrNone
  <2>4. /\ q \in Seq(W!DownMsg) /\ Len(q) <= 1
        /\ \A x \in WP!Msgs(q) :
             \/ x.type = "revoked" /\ ~Held(w, x.task)
             \/ x.type = "resumed" /\ OnAttempt(w, x.task, x.attempt)
        /\ \A x, y \in WP!Msgs(q) : x = y
        /\ \A x \in WP!Msgs(q) : x.type = "resumed" => x.task = m.task
        /\ conn[w] # "ready" /\ m.task \in HeldTasks(w) => W!Resumed(m.task, attempt[m.task]) \in WP!Msgs(q)
    <3>0. ASSUME m.task \in HeldTasks(w) PROVE m.task # NoTask /\ Held(w, m.task)
      BY <3>0, FleetAssumption DEF W!WorkerAssumption, HeldTasks
    <3>1. CASE m.task = NoTask \/ conn[w] = "ready"
      <4>1. q = <<>>
        BY <3>1 DEF AnswerTo
      <4>2. QED
        BY <3>0, <3>1, <4>1, OneOrNone
    <3>2. CASE m.task # NoTask /\ conn[w] # "ready" /\ Held(w, m.task)
      <4> DEFINE x == W!Resumed(m.task, attempt[m.task])
      <4>1. q = <<x>>
        BY <3>2 DEF AnswerTo
      <4>2. m.task \in Tasks /\ attempt[m.task] \in W!Attempts
        <5>1. m.task \in Tasks
          BY <1>4, <3>2
        <5>2. attempt[m.task] # 0
          BY <3>2, <5>1, ActiveNumbered DEF Held
        <5>3. QED
          BY <5>1, <5>2, ConductorAssumption DEF TypeOK, W!Attempts
      <4>3. x \in W!DownMsg /\ x.type = "resumed" /\ x.task = m.task /\ OnAttempt(w, x.task, x.attempt)
        BY <3>2, <4>2 DEF W!DownMsg, W!Resumed, OnAttempt
      <4>4. QED
        BY <4>1, <4>3, OneOrNone
    <3>3. CASE m.task # NoTask /\ conn[w] # "ready" /\ ~Held(w, m.task)
      <4> DEFINE x == W!Revoked(m.task)
      <4>1. q = <<x>>
        BY <3>3 DEF AnswerTo
      <4>2. x \in W!DownMsg /\ x.type = "revoked" /\ x.type # "resumed" /\ ~Held(w, x.task)
        BY <1>4, <3>3 DEF W!DownMsg, W!Revoked
      <4>3. QED
        BY <3>0, <3>3, <4>1, <4>2, OneOrNone
    <3>4. QED
      BY <3>1, <3>2, <3>3
  <2> HIDE DEF p, q
  <2>5. /\ p \o q \in Seq(W!DownMsg) /\ WP!Msgs(p \o q) = WP!Msgs(p) \cup WP!Msgs(q)
        /\ \A A, B : WP!Msgs(p) \cap A = {} => Orderly(p \o q, A, B)
    BY <2>3, <2>4, TwoParts
  <2>6. \A A : (\A x \in A : x.type \in {"assigned", "resumed"}) => WP!Msgs(p) \cap A = {}
    BY <2>2, <2>3
  <2>7. \A t : Held(w, t)' <=> Held(w, t)
    BY <1>5 DEF Held, IsActive
  <2>8. SaysTo(w, p \o q)
    BY <1>3, <1>5, <2>1, <2>2, <2>3, <2>4, <2>5, <2>6, <2>7 DEF SaysTo
  <2>9. QED
    BY <1>8, <2>2, <2>3, <2>4, <2>5, <2>8
<1>9. QED
  BY <1>7, <1>8

-----------------------------------------------------------------------------
(* The steps of the fleet.                                                 *)

\* A frame is handled by one of the hub's handlers.
LEMMA ReadingActs ==
  ASSUME W!WorkerTypeOK, NEW w \in Workers, HubReads(w)
  PROVE  HubActs /\ UNCHANGED attempt
<1>0. w \in Agents
  BY FleetAssumption, ConductorAssumption
<1> DEFINE m == up[w][1]
<1>1. up[w] \in Seq(W!UpMsg) /\ up[w] # <<>>
  BY DEF HubReads, W!WorkerTypeOK
<1>2. Head(up[w]) = m /\ m \in W!UpMsg /\ Handles(w, m)
  BY <1>1, HeadTailProperties DEF HubReads
<1>3. m.attempt \in 0..MaxAttempt
  BY <1>2, ConductorAssumption DEF W!UpMsg, W!Attempts
<1> HIDE DEF m
<1>4. CASE m.type = "register"
  <2>1. Register(w, m.task) /\ m.task \in Tasks \cup {NoTask}
    BY <1>2, <1>4 DEF Handles, W!UpMsg
  <2>2. QED
    BY <1>0, <2>1, HandsNothingKeeps DEF HubActs, HandsNothing
<1>5. CASE m.type \in {"idle", "busy"}
  <2>1. StatusUpdate(w, m.type)
    BY <1>2, <1>5 DEF Handles
  <2>2. QED
    BY <1>0, <1>5, <2>1, HandsNothingKeeps DEF HubActs, HandsNothing
<1>6. CASE m.type \notin {"register", "idle", "busy"}
  <2>1. m.task \in Tasks
    BY <1>2, <1>6 DEF W!UpMsg
  <2>2. \/ Accept(w, m.task) \/ WorkerComplete(w, m.task, "completed", m.attempt) \/ WorkerFail(w, m.task, m.attempt)
        \/ (\E r \in Routes : QuotaExhausted(w, m.task, r, m.attempt))
        \/ Decline(w, m.task, m.attempt) \/ DeclineBusy(w, m.task, m.attempt) \/ UNCHANGED vars
    BY <1>2, <1>6 DEF Handles
  <2>3. HandsNothing \/ UNCHANGED vars
    BY <1>0, <1>3, <2>1, <2>2 DEF HandsNothing
  <2>4. QED
    BY <2>3, HandsNothingKeeps DEF HubActs
<1>7. QED
  BY <1>4, <1>5, <1>6

\* To the hub every step of the fleet is one of its own, or none.
LEMMA FleetActs ==
  ASSUME W!WorkerTypeOK, [FleetNext]_fleetVars
  PROVE  HubActs
<1>0. \A w \in Workers : w \in Agents
  BY FleetAssumption, ConductorAssumption
<1>1. CASE UNCHANGED fleetVars
  BY <1>1 DEF fleetVars, HubActs
<1>2. CASE HubStep
  BY <1>0, <1>2 DEF HubStep, HubActs, HandsNothing
<1>3. CASE HubDies
  BY <1>3 DEF HubDies, HubActs, HandsNothing
<1>4. ASSUME NEW w \in Workers, HubReads(w) PROVE HubActs
  BY <1>4, ReadingActs
<1>5. ASSUME NEW w \in Workers, Opens(w) \/ HubCloses(w) \/ NoticesHubGone(w) \/ WorkerActs(w) PROVE HubActs
  BY <1>0, <1>5 DEF Opens, HubCloses, NoticesHubGone, WorkerActs, HubActs, HandsNothing
<1>6. QED
  BY <1>1, <1>2, <1>3, <1>4, <1>5 DEF FleetNext

\* Frames are read one by one, and a connection is registered by its frame.
Reads(v) ==
  /\ up'[v] = up[v] \/ (up[v] # <<>> /\ up'[v] = Tail(up[v]))
  /\ \/ conn'[v] = conn[v]
     \/ conn[v] = "off" /\ conn'[v] = "gone"
     \/ Registering(v)

\* What the hub does on its own, and with the frames it reads, to the connections.
LEMMA TalkLinks ==
  ASSUME TypeOK, W!WorkerTypeOK, HubStep \/ \E w \in Workers : HubReads(w), NEW v \in Workers
  PROVE  Reads(v)
<1> USE DEF rows, registry, handler, Reads
<1>0. v \in Agents
  BY FleetAssumption, ConductorAssumption
<1>1. CASE HubStep
  <2>1. up' = up
    BY <1>1 DEF HubStep
  <2>2. ASSUME LeadStep PROVE UNCHANGED conn
    <3>1. CASE \E b \in Batches : Create(b)
      BY <3>1 DEF Create
    <3>2. CASE \E t \in Tasks : LeadFail(t) \/ Approve(t) \/ Reject(t) \/ RejectGate(t) \/ CancelTask(t)
      BY <3>2 DEF LeadFail, CountFailure, Approve, Reject, RejectGate, RejectWork, CancelTask
    <3>3. CASE \E t \in Tasks, verdict \in {"completed", "review"} : LeadComplete(t, verdict)
      BY <3>3 DEF LeadComplete, Finish
    <3>4. CASE \E t \in Tasks, to \in {"accepted", "in_progress"} : RestUpdate(t, to)
      BY <3>4 DEF RestUpdate
    <3>5. ASSUME NEW t \in Tasks, NEW dp, NEW fs, NEW ch, NEW chose, NEW clear, Reroute(t, dp, fs, ch, chose, clear)
          PROVE  UNCHANGED conn
      BY <3>5 DEF Reroute
    <3>6. QED
      BY <2>2, <3>1, <3>2, <3>3, <3>4, <3>5 DEF LeadStep
  <2>3. CASE TickStep \/ RestartEnd
    BY <2>1, <2>3 DEF TickStep, TickLeases, TickOffline, TickEnd, RestartEnd
  <2>4. ASSUME NEW x \in todo, SettleNext(x) PROVE UNCHANGED conn
    BY <2>4 DEF SettleNext, CountFailure
  <2>5. CASE DispatchPass
    BY <2>1, <2>5 DEF DispatchPass, Dispatch
  <2>6. ASSUME NEW t \in Tasks, LeaseExpires(t) PROVE UNCHANGED conn
    BY <2>6 DEF LeaseExpires
  <2>7. ASSUME NEW w \in Workers, GoneLong(w) PROVE conn'[v] = conn[v] \/ (conn[v] = "off" /\ conn'[v] = "gone")
    BY <1>0, <2>7 DEF GoneLong, TypeOK
  <2>8. QED
    BY <1>1, <2>1, <2>2, <2>3, <2>4, <2>5, <2>6, <2>7 DEF HubStep
<1>2. ASSUME NEW w \in Workers, HubReads(w)
      PROVE  /\ up'[v] = up[v] \/ (up[v] # <<>> /\ up'[v] = Tail(up[v]))
             /\ conn'[v] = conn[v] \/ Registering(v)
  <2>0. up[w] \in Seq(W!UpMsg) /\ up[w] # <<>>
    BY <1>2 DEF HubReads, W!WorkerTypeOK
  <2> DEFINE m == up[w][1]
  <2>1. Head(up[w]) = m /\ m \in W!UpMsg /\ Handles(w, m)
    BY <1>2, <2>0, HeadTailProperties DEF HubReads
  <2>2. up' = [up EXCEPT ![w] = Tail(up[w])]
    BY <1>2 DEF HubReads
  <2>3. up'[v] = up[v] \/ (v = w /\ up'[v] = Tail(up[v]))
    BY <2>2 DEF W!WorkerTypeOK
  <2>4. CASE m.type = "register"
    <3>1. conn' = [conn EXCEPT ![w] = "ready"]
      BY <2>1, <2>4 DEF Handles, Register
    <3>2. conn'[v] = conn[v] \/ (v = w /\ conn'[v] = "ready" /\ up'[v] = Tail(up[v]))
      BY <1>0, <2>2, <3>1 DEF TypeOK, W!WorkerTypeOK
    <3>3. QED
      BY <2>0, <2>3, <2>4, <3>2 DEF Registering
  <2>5. CASE m.type # "register"
    <3>1. \/ Accept(w, m.task) \/ WorkerComplete(w, m.task, "completed", m.attempt) \/ WorkerFail(w, m.task, m.attempt)
          \/ (\E r \in Routes : QuotaExhausted(w, m.task, r, m.attempt)) \/ Decline(w, m.task, m.attempt)
          \/ DeclineBusy(w, m.task, m.attempt) \/ StatusUpdate(w, m.type) \/ UNCHANGED vars
      BY <2>1, <2>5 DEF Handles
    <3>2. CASE Accept(w, m.task) \/ WorkerComplete(w, m.task, "completed", m.attempt)
      BY <2>0, <2>3, <3>2 DEF Accept, WorkerComplete, Finish
    <3>3. CASE WorkerFail(w, m.task, m.attempt)
      BY <2>0, <2>3, <3>3 DEF WorkerFail, CountFailure
    <3>4. CASE \E r \in Routes : QuotaExhausted(w, m.task, r, m.attempt)
      BY <2>0, <2>3, <3>4 DEF QuotaExhausted
    <3>5. CASE Decline(w, m.task, m.attempt) \/ DeclineBusy(w, m.task, m.attempt)
      BY <2>0, <2>3, <3>5 DEF Decline, DeclineBusy
    <3>6. CASE StatusUpdate(w, m.type) \/ UNCHANGED vars
      BY <2>0, <2>3, <3>6 DEF StatusUpdate, vars
    <3>7. QED
      BY <3>1, <3>2, <3>3, <3>4, <3>5, <3>6
  <2>6. QED
    BY <2>4, <2>5
<1>3. QED
  BY <1>1, <1>2

\* The hub talks and the workers do nothing.
Talks ==
  /\ HubStep \/ \E w \in Workers : HubReads(w)
  /\ UNCHANGED <<slot, active, unconf, unready, queue, sock, reg, stopping, broken, faults, begun, produced>>
  /\ \A v \in Workers : Reads(v) /\ \E s : SaysTo(v, s)

\* A connection is opened, noticed to be over on one side, or goes on.
Relinked(v) ==
  \/ conn'[v] = conn[v] /\ up'[v] = up[v] /\ sock'[v] = sock[v] /\ down'[v] = down[v]
  \/ conn'[v] = "open" /\ sock[v] = "none" /\ sock'[v] = "open" /\ down'[v] = <<>> /\ up'[v] = <<W!RegisterMsg(W!Reported(v))>>
  \/ conn'[v] = "off" /\ up'[v] = <<>> /\ sock'[v] = sock[v]
  \/ conn'[v] = conn[v] /\ up'[v] = up[v] /\ sock[v] = "open" /\ sock'[v] = "ending" /\ ~Online(v)

\* Connections come and go, and what was under way may be lost.
Relinks ==
  /\ UNCHANGED <<status, holder, attempt, slot, active, unconf, unready, queue, reg, stopping, broken, runs>>
  /\ todo' = todo \/ (todo' = {} /\ \A v \in Workers : conn'[v] = "off")
  /\ \A v \in Workers : down'[v] \in W!Prefixes(down[v]) /\ Relinked(v)

\* Everything may arrive, or nothing.
LEMMA WholeAndNone ==
  ASSUME NEW S, NEW q \in Seq(S)
  PROVE  q \in W!Prefixes(q) /\ <<>> \in W!Prefixes(q)
<1>1. Len(q) \in Nat
  BY LenProperties
<1>2. \A i \in 1..Len(q) : q[i] \in S
  BY ElementOfSeq
<1>3. SubSeq(q, 1, Len(q)) = q
  BY <1>1
<1>4. SubSeq(q, 1, 0) = <<>>
  BY <1>1
<1>5. 0 \in 0..Len(q) /\ Len(q) \in 0..Len(q)
  BY <1>1
<1>6. (\E n \in 0..Len(q) : SubSeq(q, 1, n) = q) /\ (\E n \in 0..Len(q) : SubSeq(q, 1, n) = <<>>)
  BY <1>3, <1>4, <1>5, Zenon
<1>7. QED
  BY <1>6, Zenon DEF W!Prefixes

\* What the hub does on its own, and with a frame it reads, is talking.
LEMMA HubTalks ==
  ASSUME TypeOK, LifeInv, W!WorkerTypeOK, HandsOver, \A t \in Tasks : attempt[t] <= MaxAttempt,
         HubStep \/ \E w \in Workers : HubReads(w)
  PROVE  Talks
<1>1. CASE HubStep
  <2>1. \A v \in Workers : \E s : SaysTo(v, s)
    BY <1>1, TellSays, TellNobodySays DEF HubStep
  <2>2. \A v \in Workers : Reads(v)
    BY <1>1, TalkLinks
  <2>3. UNCHANGED <<slot, active, unconf, unready, queue, sock, reg, stopping, broken, faults, begun, produced>>
    BY <1>1 DEF HubStep, runs
  <2>4. QED
    BY <1>1, <2>1, <2>2, <2>3 DEF Talks
<1>2. ASSUME NEW w \in Workers, HubReads(w) PROVE Talks
  <2>0. \A v \in Workers : Reads(v)
    BY <1>2, TalkLinks
  <2>1. \A v \in Workers : \E s : SaysTo(v, s)
    <3>1. CASE up[w][1].type = "register"
      BY <1>2, <3>1, RegisterSays
    <3>2. CASE up[w][1].type # "register"
      <4>1. Head(up[w]) = up[w][1]
        BY <1>2, HeadTailProperties DEF HubReads, W!WorkerTypeOK
      <4>2. Handles(w, up[w][1])
        BY <1>2, <4>1 DEF HubReads
      <4>3. TellNobody
        BY <3>2, <4>2 DEF Handles
      <4>4. QED
        BY <4>3, TellNobodySays
    <3>3. QED
      BY <3>1, <3>2
  <2>2. UNCHANGED <<slot, active, unconf, unready, queue, sock, reg, stopping, broken, faults, begun, produced>>
    BY <1>2 DEF HubReads
  <2>3. QED
    BY <1>2, <2>0, <2>1, <2>2 DEF Talks
<1>3. QED
  BY <1>1, <1>2

\* Every step of the fleet is one of talking, of connections, or of one worker.
LEMMA FleetMoves ==
  ASSUME TypeOK, LifeInv, W!WorkerTypeOK, HandsOver, \A t \in Tasks : attempt[t] <= MaxAttempt, FleetNext
  PROVE  Talks \/ Relinks \/ \E w \in Workers : WorkerActs(w)
<1>0. \A w \in Workers : w \in Agents /\ w \in Protocol2
  BY FleetAssumption, ConductorAssumption
<1>1. ASSUME NEW v \in Workers PROVE down[v] \in Seq(W!DownMsg)
  BY DEF W!WorkerTypeOK
<1>2. CASE HubStep \/ \E w \in Workers : HubReads(w)
  BY <1>2, HubTalks
<1>3. ASSUME NEW w \in Workers, Opens(w) PROVE Relinks
  <2>1. UNCHANGED <<status, holder, attempt, todo>>
    BY <1>3 DEF Opens, Connect, rows, counters, handler, HandlerSettles
  <2>2. /\ UNCHANGED <<slot, active, unconf, unready, queue, reg, stopping, broken, runs>>
        /\ down' = [down EXCEPT ![w] = <<>>]
    BY <1>3 DEF Opens, W!Open, W!state
  <2>3. \A v \in Workers : down'[v] = down[v] \/ down'[v] = <<>>
    BY <2>2 DEF W!WorkerTypeOK
  <2>4. conn'[w] = "open" /\ (\A v \in Workers \ {w} : conn'[v] = conn[v])
    BY <1>0, <1>3, FleetAssumption DEF Opens, Connect, TypeOK
  <2>5. /\ sock[w] = "none" /\ sock'[w] = "open" /\ down'[w] = <<>> /\ up'[w] = <<W!RegisterMsg(W!Reported(w))>>
        /\ \A v \in Workers \ {w} : sock'[v] = sock[v] /\ up'[v] = up[v] /\ down'[v] = down[v]
    BY <1>3 DEF Opens, W!Open, W!WorkerTypeOK
  <2>6. \A v \in Workers : Relinked(v)
    BY <2>4, <2>5 DEF Relinked
  <2>7. QED
    BY <1>1, <2>1, <2>2, <2>3, <2>6, WholeAndNone DEF Relinks
<1>4. ASSUME NEW w \in Workers, HubCloses(w) PROVE Relinks
  <2>1. UNCHANGED <<status, holder, attempt, todo>>
    BY <1>4 DEF HubCloses, Close, rows, counters, handler
  <2>2. PICK sent \in W!Prefixes(down[w]) : down' = [down EXCEPT ![w] = sent]
    BY <1>4 DEF HubCloses
  <2>3. \A v \in Workers : down'[v] = down[v] \/ (v = w /\ down'[v] = sent)
    BY <2>2 DEF W!WorkerTypeOK
  <2>4. /\ conn'[w] = "off" /\ up'[w] = <<>> /\ UNCHANGED sock
        /\ \A v \in Workers \ {w} : conn'[v] = conn[v] /\ up'[v] = up[v]
    BY <1>0, <1>4 DEF HubCloses, Close, TypeOK, W!WorkerTypeOK
  <2>5. \A v \in Workers : Relinked(v)
    <3>1. \A v \in Workers \ {w} : down'[v] = down[v]
      BY <2>2 DEF W!WorkerTypeOK
    <3>2. QED
      BY <2>4, <3>1 DEF Relinked
  <2>6. QED
    BY <1>1, <1>4, <2>1, <2>3, <2>5, WholeAndNone DEF Relinks, HubCloses
<1>5. CASE HubDies
  <2>1. UNCHANGED <<status, holder, attempt>> /\ todo' = {}
    BY <1>5 DEF HubDies, HubCrash, rows, counters
  <2>2. PICK n \in 0..2 :
          down' = [w \in Workers |-> SubSeq(down[w], 1, IF n < Len(down[w]) THEN n ELSE Len(down[w]))]
    BY <1>5 DEF HubDies
  <2>3. ASSUME NEW v \in Workers PROVE down'[v] \in W!Prefixes(down[v])
    <3>1. Len(down[v]) \in Nat
      BY <1>1, LenProperties
    <3>2. PICK k \in 0..Len(down[v]) : k = IF n < Len(down[v]) THEN n ELSE Len(down[v])
      BY <3>1
    <3>3. down'[v] = SubSeq(down[v], 1, k)
      BY <2>2, <3>2
    <3>4. QED
      BY <3>3 DEF W!Prefixes
  <2>4. \A v \in Workers : conn'[v] = "off" /\ up'[v] = <<>> /\ sock'[v] = sock[v]
    BY <1>0, <1>5 DEF HubDies, HubCrash
  <2>5. QED
    BY <1>5, <2>1, <2>3, <2>4 DEF Relinks, Relinked, HubDies
<1>6. ASSUME NEW w \in Workers, NoticesHubGone(w) PROVE Relinks
  <2>1. UNCHANGED <<status, holder, attempt, todo>>
    BY <1>6 DEF NoticesHubGone, vars, rows, counters, handler
  <2>2. UNCHANGED <<slot, active, unconf, unready, queue, reg, stopping, broken, down, runs>>
    BY <1>6 DEF NoticesHubGone, W!Ending, W!state
  <2>3. UNCHANGED <<conn, up>> /\ sock[w] = "open" /\ sock'[w] = "ending" /\ \A v \in Workers \ {w} : sock'[v] = sock[v]
    BY <1>6 DEF NoticesHubGone, vars, registry, W!Ending, W!WorkerTypeOK
  <2>4. \A v \in Workers : Relinked(v)
    BY <1>6, <2>2, <2>3 DEF Relinked, NoticesHubGone
  <2>5. QED
    BY <1>1, <2>1, <2>2, <2>4, WholeAndNone DEF Relinks
<1>7. QED
  BY <1>2, <1>3, <1>4, <1>5, <1>6 DEF FleetNext

\* The steps of one worker, by either name.
LEMMA SameSteps ==
  ASSUME NEW w \in Workers
  PROVE  /\ W!Produces(w) <=> WP!Produces(w)
         /\ W!Hears(w) <=> WP!Hears(w)
         /\ W!Checked(w) <=> WP!Checked(w)
         /\ W!GivesUp(w) <=> WP!GivesUp(w)
         /\ W!Befalls(w) <=> WP!Befalls(w)
         /\ W!Open(w) <=> WP!Open(w)
<1> USE SameTerms
    DEF W!state, WP!state, W!client, WP!client, W!wires, WP!wires, W!Release, WP!Release, W!Post, WP!Post, W!Read, WP!Read,
        W!Idle, WP!Idle, W!Busy, WP!Busy
<1>1. W!Produces(w) <=> WP!Produces(w)
  BY DEF W!Produces, WP!Produces, W!Settle, WP!Settle, W!Report, WP!Report
<1>2. W!OnRegistered(w) <=> WP!OnRegistered(w)
  BY DEF W!OnRegistered, WP!OnRegistered
<1>3. /\ W!OnAssigned(w) <=> WP!OnAssigned(w) 
      /\ W!OnResumed(w) <=> WP!OnResumed(w)
  BY DEF W!OnAssigned, WP!OnAssigned, W!OnResumed, WP!OnResumed, W!Offered, WP!Offered, W!Offer, WP!Offer,
         W!SameAttempt, WP!SameAttempt, W!Take, WP!Take, W!DeclineBusy, WP!DeclineBusy, W!Report, WP!Report
<1>4. W!OnRevoked(w) <=> WP!OnRevoked(w)
  BY DEF W!OnRevoked, WP!OnRevoked, W!Forget, WP!Forget
<1>5. W!Checked(w) <=> WP!Checked(w)
  BY DEF W!Checked, WP!Checked, W!CheckAborted, WP!CheckAborted, W!CheckNotReady, WP!CheckNotReady, W!CheckRefused, WP!CheckRefused,
         W!Accept, WP!Accept, W!Forget, WP!Forget, W!Decline, WP!Decline, W!DeclineBusy, WP!DeclineBusy, W!AcceptMsg, WP!AcceptMsg
<1>6. W!GivesUp(w) <=> WP!GivesUp(w)
  BY DEF W!GivesUp, WP!GivesUp, W!SettleDeclined, WP!SettleDeclined, W!SettleAborted, WP!SettleAborted, W!Forget, WP!Forget,
         W!Decline, WP!Decline
<1>7. W!Befalls(w) <=> WP!Befalls(w)
  <2>1. (W!Recheck(w) <=> WP!Recheck(w)) /\ (W!OnClose(w) <=> WP!OnClose(w))
    BY DEF W!Recheck, WP!Recheck, W!OnClose, WP!OnClose
  <2>2. (W!Crash(w) <=> WP!Crash(w)) /\ (W!Exit(w) <=> WP!Exit(w))
    BY DEF W!Crash, WP!Crash, W!Exit, WP!Exit, W!Restarted, WP!Restarted, W!Fault, WP!Fault, W!Prefixes, WP!Prefixes
  <2>3. W!Stop(w) <=> WP!Stop(w)
    BY DEF W!Stop, WP!Stop, W!Fault, WP!Fault
  <2>4. W!Cut(w) <=> WP!Cut(w)
    BY DEF W!Cut, WP!Cut, W!Fault, WP!Fault, W!Ending, WP!Ending, W!Prefixes, WP!Prefixes
  <2>5. (W!Breaks(w) <=> WP!Breaks(w)) /\ (W!Repaired(w) <=> WP!Repaired(w))
    BY DEF W!Breaks, WP!Breaks, W!Repaired, WP!Repaired, W!Fault, WP!Fault
  <2>6. QED
    BY <2>1, <2>2, <2>3, <2>4, <2>5 DEF W!Befalls, WP!Befalls
<1>8. W!Open(w) <=> WP!Open(w)
  BY DEF W!Open, WP!Open, W!RegisterMsg, WP!RegisterMsg, W!Reported, WP!Reported
<1>9. QED
  BY <1>1, <1>2, <1>3, <1>4, <1>5, <1>6, <1>7, <1>8 DEF W!Hears, WP!Hears

\* A step of a worker without an outcome.
Goes(w) ==
  \/ WP!Registers(w)
  \/ \E t \in Tasks : WP!LosesTask(w, t)
  \/ \E t \in Tasks, n \in W!Attempts : WP!Considers(w, "assigned", t, n) \/ WP!Considers(w, "resumed", t, n)
  \/ WP!Drops(w) \/ WP!Begins(w) \/ WP!Waits(w) \/ WP!LosesLink(w) \/ WP!Starts(w) \/ WP!Stops(w) \/ WP!CutsLink(w)

\* What a worker does, for the fleet.
LEMMA WorkerGoes ==
  ASSUME W!WorkerTypeOK, NEW w \in Workers, WorkerActs(w)
  PROVE  /\ UNCHANGED <<vars, taken>> /\ WP!OnlyFor(w)
         /\ \/ WP!Ends(w) /\ produced' = produced \cup {<<slot[w].task, slot[w].attempt>>}
            \/ Goes(w) /\ UNCHANGED produced
<1> USE FleetAssumption, SameTerms, SameSteps DEF W!WorkerAssumption, WP!WorkerAssumption
<1>1. CASE W!Produces(w) /\ produced' = produced \cup {<<slot[w].task, slot[w].attempt>>}
  BY <1>1, WP!ProducesMoves DEF WorkerActs
<1>2. CASE (W!Hears(w) \/ W!Checked(w) \/ W!GivesUp(w) \/ W!Befalls(w)) /\ UNCHANGED produced
  <2>1. OnFile[w] = WP!Memory(w)
    BY DEF OnFile, WP!Memory
  <2>2. QED
    BY <1>2, <2>1, WP!WorkerMoves DEF WorkerActs, Goes
<1>3. QED
  BY <1>1, <1>2 DEF WorkerActs
-----------------------------------------------------------------------------
(* What holds of the hub and of each worker by itself.                     *)

HubInv == TypeOK /\ LifeInv /\ ListInv /\ OneHeld /\ \A t \in Tasks : attempt[t] <= MaxAttempt

\* The hub's rows stay well formed while it talks to workers.
LEMMA HubInvStep ==
  ASSUME HubInv, W!WorkerTypeOK, [FleetNext]_fleetVars
  PROVE  HubInv' /\ HandsOver /\ [Next]_vars
<1>1. [Next]_vars /\ HandsOver /\ OneHeld'
  BY FleetActs, HubHandsOver DEF HubInv
<1>2. TypeOK'
  BY <1>1, TypeStep DEF HubInv
<1>3. LifeInv'
  BY <1>1, <1>2, LifeStep, LifeInvStep DEF HubInv
<1>4. ListInv'
  BY <1>1, ListStep DEF HubInv
<1>5. \A t \in Tasks : attempt'[t] <= MaxAttempt
  <2> SUFFICES ASSUME NEW t \in Tasks PROVE attempt'[t] <= MaxAttempt
    OBVIOUS
  <2>1. attempt[t] \in Nat /\ attempt[t] <= MaxAttempt
    BY DEF HubInv, TypeOK
  <2>2. attempt'[t] = attempt[t] \/ (attempt'[t] = attempt[t] + 1 /\ attempt[t] < MaxAttempt)
    BY <1>1 DEF HandsOver
  <2>3. MaxAttempt \in Nat
    BY FleetAssumption DEF W!WorkerAssumption
  <2>4. QED
    BY <2>1, <2>2, <2>3
<1>6. QED
  BY <1>1, <1>2, <1>3, <1>4, <1>5 DEF HubInv

\* A step of the wires alone keeps each worker well formed.
LEMMA WiresKeep ==
  ASSUME WP!WorkerInv, UNCHANGED <<slot, active, unconf, unready, queue, reg, stopping, broken>>,
         sock' \in [Workers -> {"none", "open", "ending"}], up' \in [Workers -> Seq(W!UpMsg)],
         down' \in [Workers -> Seq(W!DownMsg)], faults' \in [Workers -> 0..MaxFaults]
  PROVE  WP!WorkerInv'
<1>1. WP!WorkerTypeOK'
  BY SameTerms DEF WP!WorkerInv, WP!WorkerTypeOK
<1>2. \A w \in Workers : WP!FileOK(w)'
  BY DEF WP!WorkerInv, WP!FileOK
<1>3. QED
  BY <1>1, <1>2 DEF WP!WorkerInv

\* The hub's messages, and the loss of some, keep the wires well formed.
LEMMA DownTyped ==
  ASSUME W!WorkerTypeOK, Talks \/ Relinks, NEW v \in Workers
  PROVE  down'[v] \in Seq(W!DownMsg)
<1>1. down[v] \in Seq(W!DownMsg)
  BY DEF W!WorkerTypeOK
<1>2. CASE Talks
  <2>1. PICK s : SaysTo(v, s)
    BY <1>2 DEF Talks
  <2>2. s \in Seq(W!DownMsg) /\ down'[v] = down[v] \o s
    BY <2>1 DEF SaysTo
  <2>3. QED
    BY <1>1, <2>2, ConcatOrder
<1>3. CASE Relinks
  BY <1>1, <1>3, PrefixOrder DEF Relinks
<1>4. QED
  BY <1>2, <1>3

\* Each worker stays well formed whatever the hub does.
LEMMA WorkerInvStep ==
  ASSUME HubInv, WP!WorkerInv, [FleetNext]_fleetVars
  PROVE  WP!WorkerInv'
<1> USE FleetAssumption DEF W!WorkerAssumption, WP!WorkerAssumption
<1>0. W!WorkerTypeOK
  BY SameTerms DEF WP!WorkerInv
<1>1. HandsOver
  BY <1>0, HubInvStep
<1>2. CASE UNCHANGED fleetVars
  BY <1>2 DEF fleetVars, W!workerVars, W!state, W!client, W!wires, WP!WorkerInv, WP!WorkerTypeOK, WP!FileOK
<1>2a. ASSUME NEW w \in Workers PROVE WP!Loadable(OnFile[w])
  BY DEF WP!Loadable, OnFile, WP!WorkerInv, WP!WorkerTypeOK, WP!FileOK
<1>3. ASSUME NEW w \in Workers, WorkerActs(w) PROVE WP!WorkerInv'
  <2>1. WP!WorkerStep(w)
    BY <1>3, SameSteps DEF WorkerActs, WP!WorkerStep
  <2>2. QED
    BY <1>2a, <2>1, WP!WorkerStepKeeps
<1>4. ASSUME NEW w \in Workers, Opens(w) PROVE WP!WorkerInv'
  BY <1>4, <1>2a, SameSteps, WP!WorkerStepKeeps DEF Opens
<1>5. ASSUME FleetNext, Talks \/ Relinks, down' = [v \in Workers |-> down'[v]]
      PROVE  down' \in [Workers -> Seq(W!DownMsg)]
  BY <1>0, <1>5, DownTyped
<1>6. ASSUME FleetNext, ~\E w \in Workers : WorkerActs(w) PROVE Talks \/ Relinks
  BY <1>0, <1>1, <1>6, FleetMoves DEF HubInv
<1>7. ASSUME HubStep, ~\E w \in Workers : WorkerActs(w) PROVE WP!WorkerInv'
  <2>1. down' = [v \in Workers |-> down'[v]]
    BY <1>0, <1>7 DEF HubStep, Tell, TellNobody, W!WorkerTypeOK
  <2>2. down' \in [Workers -> Seq(W!DownMsg)]
    BY <1>5, <1>6, <1>7, <2>1 DEF FleetNext
  <2>3. UNCHANGED <<slot, active, unconf, unready, queue, sock, reg, stopping, broken, up, faults>>
    BY <1>7 DEF HubStep
  <2>4. QED
    BY <1>0, <2>2, <2>3, WiresKeep DEF W!WorkerTypeOK
<1>8. ASSUME NEW w \in Workers, HubReads(w), ~\E v \in Workers : WorkerActs(v) PROVE WP!WorkerInv'
  <2>1. down' = [v \in Workers |-> down'[v]]
    <3>1. down' = down \/ \E s : down' = [down EXCEPT ![w] = s]
      BY <1>8 DEF HubReads, Handles, TellNobody
    <3>2. QED
      BY <1>0, <3>1 DEF W!WorkerTypeOK
  <2>2. down' \in [Workers -> Seq(W!DownMsg)]
    BY <1>5, <1>6, <1>8, <2>1 DEF FleetNext
  <2>3. up' \in [Workers -> Seq(W!UpMsg)]
    <3>1. up[w] \in Seq(W!UpMsg) /\ up[w] # <<>> /\ up' = [up EXCEPT ![w] = Tail(up[w])]
      BY <1>0, <1>8 DEF HubReads, W!WorkerTypeOK
    <3>2. Tail(up[w]) \in Seq(W!UpMsg)
      BY <3>1, HeadTailProperties
    <3>3. QED
      BY <1>0, <3>1, <3>2 DEF W!WorkerTypeOK
  <2>4. UNCHANGED <<slot, active, unconf, unready, queue, sock, reg, stopping, broken, faults>>
    BY <1>8 DEF HubReads
  <2>5. QED
    BY <1>0, <2>2, <2>3, <2>4, WiresKeep DEF W!WorkerTypeOK
<1>9. ASSUME NEW w \in Workers, HubCloses(w), ~\E v \in Workers : WorkerActs(v) PROVE WP!WorkerInv'
  <2>1. down' = [v \in Workers |-> down'[v]]
    BY <1>0, <1>9 DEF HubCloses, W!WorkerTypeOK
  <2>2. down' \in [Workers -> Seq(W!DownMsg)]
    BY <1>5, <1>6, <1>9, <2>1 DEF FleetNext
  <2>3. up' \in [Workers -> Seq(W!UpMsg)]
    BY <1>0, <1>9, OneOrNone DEF HubCloses, W!WorkerTypeOK
  <2>4. faults' \in [Workers -> 0..MaxFaults]
    <3>1. faults \in [Workers -> 0..MaxFaults] /\ (faults' = faults \/ (faults[w] < MaxFaults /\ faults' = [faults EXCEPT ![w] = @ + 1]))
      BY <1>0, <1>9 DEF HubCloses, W!WorkerTypeOK, W!Fault
    <3>2. QED
      BY <3>1
  <2>5. UNCHANGED <<slot, active, unconf, unready, queue, sock, reg, stopping, broken>>
    BY <1>9 DEF HubCloses
  <2>6. QED
    BY <1>0, <2>2, <2>3, <2>4, <2>5, WiresKeep DEF W!WorkerTypeOK
<1>10. ASSUME NEW w \in Workers, NoticesHubGone(w) PROVE WP!WorkerInv'
  BY <1>0, <1>10, WiresKeep DEF NoticesHubGone, W!Ending, W!state, W!WorkerTypeOK
<1>11. ASSUME HubDies, ~\E v \in Workers : WorkerActs(v) PROVE WP!WorkerInv'
  <2>1. down' = [v \in Workers |-> down'[v]]
    BY <1>11 DEF HubDies
  <2>2. down' \in [Workers -> Seq(W!DownMsg)]
    BY <1>5, <1>6, <1>11, <2>1 DEF FleetNext
  <2>3. up' \in [Workers -> Seq(W!UpMsg)]
    BY <1>11, OneOrNone DEF HubDies
  <2>4. faults' \in [Workers -> 0..MaxFaults]
    BY <1>0, <1>11 DEF HubDies, W!WorkerTypeOK
  <2>5. UNCHANGED <<slot, active, unconf, unready, queue, sock, reg, stopping, broken>>
    BY <1>11 DEF HubDies
  <2>6. QED
    BY <1>0, <2>2, <2>3, <2>4, <2>5, WiresKeep DEF W!WorkerTypeOK
<1>12. QED
  BY <1>2, <1>3, <1>4, <1>7, <1>8, <1>9, <1>10, <1>11 DEF FleetNext
-----------------------------------------------------------------------------
(* What one worker's step does to its wires.                               *)

\* What is on a wire is of the wire's kind.
LEMMA OfItsKind ==
  ASSUME NEW S, NEW q \in Seq(S)
  PROVE  WP!Msgs(q) \subseteq S
BY ElementOfSeq, LenProperties DEF WP!Msgs

\* q has nothing that p has not, in the same order.
Shrinks(q, p) == WP!Msgs(q) \subseteq WP!Msgs(p) /\ \A A, B : Orderly(p, A, B) => Orderly(q, A, B)

\* Reading, losing or leaving messages.
LEMMA Shrinking ==
  ASSUME NEW S, NEW q \in Seq(S)
  PROVE  /\ Shrinks(q, q) /\ Shrinks(<<>>, q)
         /\ q # <<>> => Shrinks(Tail(q), q)
         /\ \A p \in W!Prefixes(q) : Shrinks(p, q)
<1>1. WP!Msgs(<<>>) = {} /\ \A A, B : Orderly(<<>>, A, B)
  BY OneOrNone DEF Orderly
<1>2. q # <<>> => Shrinks(Tail(q), q)
  BY TailOrder DEF Shrinks
<1>3. \A p \in W!Prefixes(q) : Shrinks(p, q)
  BY PrefixOrder DEF Shrinks
<1>4. QED
  BY <1>1, <1>2, <1>3 DEF Shrinks

\* A worker reads from the front or loses all; it sends no registration but when it opens a
\* connection, and it is registered by the hub's word alone.
LEMMA WorkerWires ==
  ASSUME W!WorkerTypeOK, NEW w \in Workers, Goes(w) \/ WP!Ends(w)
  PROVE  /\ Shrinks(down'[w], down[w])
         /\ sock'[w] = "none" => ~reg'[w] \/ (sock[w] = "none" /\ reg'[w] = reg[w])
         /\ reg'[w] => reg[w] \/ \E m \in WP!Msgs(down[w]) : m.type = "registered"
         /\ \A m \in WP!Msgs(up'[w]) : m.type = "register" =>
              m \in WP!Msgs(up[w]) /\ (\/ Len(up'[w]) <= Len(up[w]) \/ reg[w]
                                       \/ \E x \in WP!Msgs(down[w]) : x.type = "registered")
<1> DEFINE Told == \E m \in WP!Msgs(down[w]) : m.type = "registered"
           Quietly == \A m \in WP!Msgs(up'[w]) : m.type = "register" =>
                        m \in WP!Msgs(up[w]) /\ (Len(up'[w]) <= Len(up[w]) \/ reg[w] \/ Told)
<1>1. /\ down[w] \in Seq(W!DownMsg) /\ up[w] \in Seq(W!UpMsg) /\ queue[w] \in Seq(W!ReliableMsg) /\ Len(up[w]) \in Nat
      /\ reg[w] \in BOOLEAN
  BY LenProperties DEF W!WorkerTypeOK
<1>2. \A m \in WP!Msgs(queue[w]) : m.type # "register"
  BY <1>1, OfItsKind DEF W!ReliableMsg
<1>3. ASSUME NEW R, WP!Sends(w, R), \A m \in R : m.type # "register" PROVE Quietly
  <2>1. CASE ~reg[w]
    BY <1>1, <1>3, <2>1 DEF WP!Sends, WP!CanSend
  <2>2. CASE reg[w]
    BY <1>1, <1>3, <2>2 DEF WP!Sends, WP!Gains, WP!Words
  <2>3. QED
    BY <1>1, <2>1, <2>2
<1>4. ASSUME WP!SameWires(w) PROVE Quietly
  BY <1>1, <1>4 DEF WP!SameWires
<1>5. ASSUME NEW type, WP!Heard(w, type) PROVE Shrinks(down'[w], down[w]) /\ down[w][1] \in WP!Msgs(down[w])
  BY <1>1, <1>5, Shrinking, TailOrder DEF WP!Heard
<1>6. Shrinks(down[w], down[w]) /\ Shrinks(<<>>, down[w])
  BY <1>1, Shrinking
<1>7. CASE WP!Registers(w)
  <2>1. Shrinks(down'[w], down[w]) /\ Told
    BY <1>5, <1>7 DEF WP!Registers, WP!Heard
  <2>2. CASE sock[w] # "open" /\ reg'[w] = reg[w] /\ WP!SameWires(w)
    BY <1>4, <1>7, <2>1, <2>2 DEF WP!Registers
  <2>3. CASE sock[w] = "open" /\ WP!Gains(up'[w], up[w], WP!Msgs(queue[w]))
    <3>1. Quietly
      BY <1>2, <2>1, <2>3 DEF WP!Gains, WP!Words
    <3>2. QED
      BY <1>7, <2>1, <2>3, <3>1 DEF WP!Registers
  <2>4. QED
    BY <1>7, <2>2, <2>3 DEF WP!Registers
<1>8. ASSUME NEW t \in Tasks, WP!LosesTask(w, t)
      PROVE  Shrinks(down'[w], down[w]) /\ WP!SameLink(w) /\ Quietly
  BY <1>4, <1>5, <1>8 DEF WP!LosesTask
<1>9. ASSUME NEW t \in Tasks, NEW n \in W!Attempts, NEW type, WP!Considers(w, type, t, n)
      PROVE  Shrinks(down'[w], down[w]) /\ WP!SameLink(w) /\ Quietly
  <2>1. WP!SameWires(w) \/ (\E kind \in {"completed", "failed", "quota", "busydecline"} :
          WP!Sends(w, {[type |-> kind, task |-> t, attempt |-> n]}))
    BY <1>9 DEF WP!Considers
  <2>2. QED
    BY <1>3, <1>4, <1>5, <1>9, <2>1 DEF WP!Considers
<1>10. CASE WP!Drops(w) \/ WP!Ends(w)
  <2>1. WP!Sends(w, {}) \/ (\E kind \in {"completed", "failed", "quota", "decline", "busydecline"} :
          WP!Sends(w, {[type |-> kind, task |-> slot[w].task, attempt |-> slot[w].attempt]}))
    BY <1>10 DEF WP!Drops, WP!Ends
  <2>2. Quietly
    BY <1>3, <2>1
  <2>3. QED
    BY <1>6, <1>10, <2>2 DEF WP!Drops, WP!Ends, WP!SameLink
<1>11. CASE WP!Begins(w) \/ WP!Waits(w)
  <2>1. Quietly
    BY <1>3, <1>11 DEF WP!Begins, WP!Waits
  <2>2. QED
    BY <1>6, <1>11, <2>1 DEF WP!Begins, WP!Waits, WP!SameLink
<1>12. CASE WP!LosesLink(w) \/ WP!Stops(w)
  BY <1>4, <1>6, <1>12 DEF WP!LosesLink, WP!Stops
<1>13. CASE WP!Starts(w)
  BY <1>6, <1>13 DEF WP!Starts
<1>14. CASE WP!CutsLink(w)
  BY <1>6, <1>14 DEF WP!CutsLink
<1>15. QED
  BY <1>7, <1>8, <1>9, <1>10, <1>11, <1>12, <1>13, <1>14 DEF Goes, WP!SameLink

-----------------------------------------------------------------------------
(* Connections: what has to be over before a worker is registered.         *)

\* A registration is alone on its wire, and the hub has said nothing new before it reads it.
Linked(v) ==
  /\ sock[v] = "none" => ~reg[v]
  /\ (\E m \in WP!Msgs(up[v]) : m.type = "register") =>
       /\ ~reg[v] /\ conn[v] = "open" /\ Len(up[v]) = 1
       /\ \A m \in WP!Msgs(down[v]) : m.type # "registered"
  /\ conn[v] = "open" => \A m \in WP!Msgs(down[v]) : m.type = "revoked" /\ ~Held(v, m.task)

LinkInv == \A v \in Workers : Linked(v)

\* While the hub talks,
LEMMA TalkLinked ==
  ASSUME HubInv, W!WorkerTypeOK, HandsOver, Talks, NEW v \in Workers, Linked(v)
  PROVE  Linked(v)'
<1>0. v \in Agents
  BY FleetAssumption, ConductorAssumption
<1>1. PICK s : SaysTo(v, s)
  BY DEF Talks
<1>2. Reads(v) /\ sock'[v] = sock[v] /\ reg'[v] = reg[v]
  BY DEF Talks
<1>3. up[v] \in Seq(W!UpMsg) /\ down[v] \in Seq(W!DownMsg) /\ s \in Seq(W!DownMsg) /\ down'[v] = down[v] \o s
  BY <1>1 DEF SaysTo, W!WorkerTypeOK
<1>4. WP!Msgs(down'[v]) = WP!Msgs(down[v]) \cup WP!Msgs(s) /\ WP!Msgs(s) \subseteq W!DownMsg
  BY <1>3, ConcatOrder, OfItsKind
<1>5. up[v] # <<>> => Len(Tail(up[v])) = Len(up[v]) - 1 /\ Len(up[v]) \in Nat /\ WP!Msgs(Tail(up[v])) \subseteq WP!Msgs(up[v])
  BY <1>3, HeadTailProperties, TailOrder, LenProperties
<1>6. ASSUME NEW m \in WP!Msgs(up'[v]), m.type = "register"
      PROVE  up'[v] = up[v] /\ Len(up[v]) = 1 /\ conn[v] = "open"
  <2>1. m \in WP!Msgs(up[v])
    BY <1>2, <1>5, <1>6 DEF Reads
  <2>2. Len(up[v]) = 1 /\ conn[v] = "open"
    BY <1>6, <2>1 DEF Linked
  <2>3. CASE up'[v] # up[v]
    <3>1. up[v] # <<>> /\ up'[v] = Tail(up[v])
      BY <1>2, <2>3 DEF Reads
    <3>2. Len(up'[v]) = 0
      BY <1>5, <2>2, <3>1
    <3>3. QED
      BY <1>6, <3>2 DEF WP!Msgs
  <2>4. QED
    BY <2>2, <2>3
<1>7. ASSUME NEW m \in WP!Msgs(up'[v]), m.type = "register"
      PROVE  ~Registering(v) /\ conn'[v] = "open"
  <2>1. up'[v] = up[v] /\ Len(up[v]) = 1 /\ conn[v] = "open"
    BY <1>6, <1>7
  <2>2. ASSUME Registering(v) PROVE FALSE
    <3>1. up[v] # <<>> /\ up'[v] = Tail(up[v])
      BY <2>2 DEF Registering
    <3>2. Len(up[v]) = Len(up[v]) - 1 /\ Len(up[v]) \in Nat
      BY <1>5, <2>1, <3>1
    <3>3. QED
      BY <3>2
  <2>3. QED
    BY <1>2, <2>1, <2>2 DEF Reads
<1>8. (\E m \in WP!Msgs(up'[v]) : m.type = "register") =>
         /\ ~reg'[v] /\ conn'[v] = "open" /\ Len(up'[v]) = 1
         /\ \A m \in WP!Msgs(down'[v]) : m.type # "registered"
  <2> SUFFICES ASSUME NEW m \in WP!Msgs(up'[v]), m.type = "register"
               PROVE  /\ ~reg'[v] /\ conn'[v] = "open" /\ Len(up'[v]) = 1
                      /\ \A x \in WP!Msgs(down'[v]) : x.type # "registered"
    OBVIOUS
  <2>1. up'[v] = up[v] /\ Len(up[v]) = 1 /\ conn'[v] = "open" /\ ~Registering(v)
    BY <1>6, <1>7
  <2>2. \A x \in WP!Msgs(s) : x.type # "registered"
    BY <1>1, <2>1 DEF SaysTo
  <2>3. QED
    BY <1>2, <1>4, <2>1, <2>2 DEF Linked
<1>9. ASSUME conn'[v] = "open", NEW m \in WP!Msgs(down'[v])
      PROVE  m.type = "revoked" /\ ~Held(v, m.task)'
  <2>1. conn[v] = "open" /\ ~Registering(v)
    BY <1>2, <1>9 DEF Reads, Registering
  <2>2. \A t \in Tasks : Held(v, t)' => Held(v, t) /\ attempt'[t] = attempt[t]
    BY <1>0, <2>1 DEF HandsOver
  <2>3. \A t \in Tasks : attempt[t] \in Nat
    BY DEF HubInv, TypeOK
  <2>4. CASE m \in WP!Msgs(down[v])
    <3>1. m.type = "revoked" /\ ~Held(v, m.task)
      BY <2>1, <2>4 DEF Linked
    <3>2. m.task \in Tasks
      BY <1>3, <2>4, <3>1, OfItsKind DEF W!DownMsg, W!Registered
    <3>3. QED
      BY <2>2, <3>1, <3>2
  <2>5. CASE m \in WP!Msgs(s)
    <3>1. m \in W!DownMsg
      BY <1>4, <2>5
    <3>2. m.type # "registered" /\ m.type # "resumed"
      BY <1>1, <2>1, <2>5 DEF SaysTo
    <3>3. m.type # "assigned"
      <4> SUFFICES ASSUME m.type = "assigned" PROVE FALSE
        OBVIOUS
      <4>1. m.task \in Tasks
        BY <3>1 DEF W!DownMsg, W!Registered
      <4>2. Held(v, m.task)' /\ attempt'[m.task] = attempt[m.task] + 1
        BY <1>1, <2>5 DEF SaysTo
      <4>3. QED
        BY <2>2, <2>3, <4>1, <4>2
    <3>4. m.type = "revoked"
      BY <3>1, <3>2, <3>3 DEF W!DownMsg, W!Registered
    <3>5. QED
      BY <1>1, <2>5, <3>4 DEF SaysTo
  <2>6. QED
    BY <1>4, <1>9, <2>4, <2>5
<1>10. QED
  BY <1>2, <1>8, <1>9 DEF Linked
\* while connections come and go,
LEMMA RelinkLinked ==
  ASSUME W!WorkerTypeOK, Relinks, NEW v \in Workers, Linked(v)
  PROVE  Linked(v)'
<1>1. reg'[v] = reg[v] /\ (\A t : Held(v, t)' <=> Held(v, t)) /\ Relinked(v)
  BY DEF Relinks, Held, IsActive
<1>2. WP!Msgs(down'[v]) \subseteq WP!Msgs(down[v])
  BY PrefixOrder DEF Relinks, W!WorkerTypeOK
<1>3. CASE conn'[v] = conn[v] /\ up'[v] = up[v] /\ sock'[v] = sock[v] /\ down'[v] = down[v]
  BY <1>1, <1>2, <1>3 DEF Linked
<1>4. CASE conn'[v] = "open" /\ sock[v] = "none" /\ sock'[v] = "open" /\ down'[v] = <<>> /\ up'[v] = <<W!RegisterMsg(W!Reported(v))>>
  <2>1. WP!Msgs(down'[v]) = {} /\ Len(up'[v]) = 1
    BY <1>4, OneOrNone
  <2>2. QED
    BY <1>1, <1>4, <2>1 DEF Linked
<1>5. CASE conn'[v] = "off" /\ up'[v] = <<>> /\ sock'[v] = sock[v]
  <2>1. WP!Msgs(up'[v]) = {}
    BY <1>5, OneOrNone
  <2>2. QED
    BY <1>1, <1>5, <2>1 DEF Linked
<1>6. CASE conn'[v] = conn[v] /\ up'[v] = up[v] /\ sock[v] = "open" /\ sock'[v] = "ending"
  BY <1>1, <1>2, <1>6 DEF Linked
<1>7. QED
  BY <1>1, <1>3, <1>4, <1>5, <1>6 DEF Relinked

\* and while a worker works.
LEMMA WorkLinked ==
  ASSUME W!WorkerTypeOK, W!WorkerTypeOK', NEW w \in Workers, WorkerActs(w), NEW v \in Workers, Linked(v)
  PROVE  Linked(v)'
<1>1. conn'[v] = conn[v] /\ \A t : Held(v, t)' <=> Held(v, t)
  BY WorkerGoes DEF vars, rows, registry, Held, IsActive
<1>2. CASE v # w
  BY <1>1, <1>2, WorkerGoes DEF WP!OnlyFor, WP!SameLink, WP!SameWires, Linked
<1>3. CASE v = w
  <2>1. /\ Shrinks(down'[v], down[v])
        /\ sock'[v] = "none" => ~reg'[v] \/ (sock[v] = "none" /\ reg'[v] = reg[v])
        /\ reg'[v] => reg[v] \/ \E m \in WP!Msgs(down[v]) : m.type = "registered"
        /\ \A m \in WP!Msgs(up'[v]) : m.type = "register" =>
             m \in WP!Msgs(up[v]) /\ (\/ Len(up'[v]) <= Len(up[v]) \/ reg[v]
                                      \/ \E x \in WP!Msgs(down[v]) : x.type = "registered")
    BY <1>3, WorkerGoes, WorkerWires
  <2>2. ASSUME NEW m \in WP!Msgs(up'[v]), m.type = "register"
        PROVE  ~reg'[v] /\ conn[v] = "open" /\ Len(up'[v]) = 1
    <3>1. m \in WP!Msgs(up[v])
      BY <2>1, <2>2
    <3>2. ~reg[v] /\ conn[v] = "open" /\ Len(up[v]) = 1 /\ \A x \in WP!Msgs(down[v]) : x.type # "registered"
      BY <2>2, <3>1 DEF Linked
    <3>3. Len(up'[v]) <= Len(up[v]) /\ ~reg'[v]
      BY <2>1, <2>2, <3>2
    <3>4. Len(up'[v]) \in Nat /\ Len(up'[v]) # 0
      <4>1. up'[v] \in Seq(W!UpMsg)
        BY DEF W!WorkerTypeOK
      <4>2. Len(up'[v]) \in Nat
        BY <4>1, LenProperties
      <4>3. QED
        BY <2>2, <4>2 DEF WP!Msgs
    <3>5. Len(up'[v]) <= 1
      BY <3>2, <3>3
    <3>6. \A k \in Nat : k # 0 /\ k <= 1 => k = 1
      OBVIOUS
    <3>7. Len(up'[v]) = 1
      BY <3>4, <3>5, <3>6, Zenon
    <3>8. QED
      BY <3>2, <3>3, <3>7
  <2>3. WP!Msgs(down'[v]) \subseteq WP!Msgs(down[v])
    BY <2>1 DEF Shrinks
  <2>4. QED
    BY <1>1, <2>1, <2>2, <2>3 DEF Linked
<1>4. QED
  BY <1>2, <1>3
\* The ground the rest stands on.
GroundInv == HubInv /\ WP!WorkerInv /\ LinkInv

\* At first nobody is connected and nothing has been sent.
LEMMA GroundStarts == FleetInit => GroundInv
<1> SUFFICES ASSUME FleetInit PROVE GroundInv
  OBVIOUS
<1>1. TypeOK /\ LifeInv
  BY TypeStarts, LifeStarts DEF FleetInit
<1>2. ListInv /\ OneHeld /\ \A t \in Tasks : attempt[t] <= MaxAttempt
  <2>1. \A t \in Tasks : ~IsActive(t) /\ attempt[t] = 0
    BY DEF FleetInit, Init, IsActive, Active
  <2>2. MaxAttempt \in Nat
    BY FleetAssumption DEF W!WorkerAssumption
  <2>3. todo = {} /\ stage = "idle"
    BY DEF FleetInit, Init
  <2>4. QED
    BY <2>1, <2>2, <2>3 DEF ListInv, ListStaysTrue, OneHeld, HeldTasks, Held
<1>3. WP!WorkerInv
  <2>1. WP!WorkerInit
    BY SameTerms DEF FleetInit, W!WorkerInit, WP!WorkerInit
  <2>2. QED
    BY <2>1, FleetAssumption, WP!MemoryIsEmpty DEF W!WorkerAssumption, WP!WorkerAssumption
<1>4. LinkInv
  <2>1. \A v \in Workers : ~reg[v] /\ WP!Msgs(up[v]) = {} /\ WP!Msgs(down[v]) = {}
    BY OneOrNone DEF FleetInit, W!WorkerInit
  <2>2. QED
    BY <2>1 DEF LinkInv, Linked
<1>5. QED
  BY <1>1, <1>2, <1>3, <1>4 DEF GroundInv, HubInv

\* Every step of the fleet keeps it, and is one of three kinds.
LEMMA GroundStep ==
  ASSUME GroundInv, [FleetNext]_fleetVars
  PROVE  /\ GroundInv' /\ HandsOver /\ [Next]_vars
         /\ W!WorkerTypeOK /\ W!WorkerTypeOK'
         /\ UNCHANGED fleetVars \/ Talks \/ Relinks \/ \E w \in Workers : WorkerActs(w)
<1>1. W!WorkerTypeOK
  BY SameTerms DEF GroundInv, WP!WorkerInv
<1>2. HubInv' /\ HandsOver /\ [Next]_vars /\ WP!WorkerInv'
  BY <1>1, HubInvStep, WorkerInvStep DEF GroundInv
<1>3. W!WorkerTypeOK'
  BY <1>2 DEF WP!WorkerInv, W!WorkerTypeOK, WP!WorkerTypeOK, W!Slots, WP!Slots, W!Outcomes, WP!Outcomes,
     W!ReliableMsg, WP!ReliableMsg, W!UpMsg, WP!UpMsg, W!DownMsg, WP!DownMsg, W!Registered, WP!Registered, W!NoSlot, WP!NoSlot,
     W!NoOutcome, WP!NoOutcome, W!Attempts, WP!Attempts
<1>4. UNCHANGED fleetVars \/ Talks \/ Relinks \/ \E w \in Workers : WorkerActs(w)
  BY <1>1, <1>2, FleetMoves DEF GroundInv, HubInv
<1>5. LinkInv'
  <2>1. CASE UNCHANGED fleetVars
    BY <2>1 DEF fleetVars, vars, rows, registry, W!workerVars, W!client, W!wires, GroundInv, LinkInv, Linked, Held, IsActive
  <2>2. CASE ~UNCHANGED fleetVars
    BY <1>1, <1>2, <1>3, <1>4, <2>2, TalkLinked, RelinkLinked, WorkLinked DEF GroundInv, LinkInv
  <2>3. QED
    BY <2>1, <2>2
<1>6. QED
  BY <1>1, <1>2, <1>3, <1>4, <1>5 DEF GroundInv
\* The ground holds in every run of the fleet.
LEMMA GroundHolds == FleetSpec => []GroundInv
<1>1. GroundInv /\ [FleetNext]_fleetVars => GroundInv'
  BY GroundStep
<1>2. QED
  BY GroundStarts, <1>1, PTL DEF FleetSpec

-----------------------------------------------------------------------------
(* Attempts have one worker.                                               *)

\* Whatever names an attempt was handed it, and the hub has not given it to another since.
Named ==
  \A w \in Workers, t \in Tasks, n \in W!Attempts :
    Knows(w, t, n) =>
      /\ n <= attempt[t]
      /\ n = attempt[t] /\ IsActive(t) => holder[t] = w
      /\ \A v \in Workers : Knows(v, t, n) => v = w

\* The first message is one of those on the wire.
LEMMA HeardFirst ==
  ASSUME W!WorkerTypeOK, NEW w \in Workers, down[w] # <<>>
  PROVE  /\ down[w][1] \in W!DownMsg /\ down[w][1] \in WP!Msgs(down[w])
         /\ \A A, B : Orderly(down[w], A, B) /\ down[w][1] \in A => WP!Msgs(Tail(down[w])) \cap B = {}
BY TailOrder DEF W!WorkerTypeOK

\* A mark on the slot leaves the rest of it.
LEMMA SlotMarked ==
  ASSUME W!WorkerTypeOK, NEW w \in Workers, NEW x
  PROVE  /\ [slot[w] EXCEPT !.abort = x] = [task |-> slot[w].task, attempt |-> slot[w].attempt, stage |-> slot[w].stage, abort |-> x]
         /\ [slot[w] EXCEPT !.stage = x] = [task |-> slot[w].task, attempt |-> slot[w].attempt, stage |-> x, abort |-> slot[w].abort]
<1>1. CASE slot[w] = W!NoSlot
  BY <1>1 DEF W!NoSlot
<1>2. CASE slot[w] \in [task : Tasks, attempt : W!Attempts, stage : {"check", "run"}, abort : {"no", "revoked", "stopping"}]
  BY <1>2
<1>3. QED
  BY <1>1, <1>2 DEF W!WorkerTypeOK, W!Slots

\* A worker takes up what is offered to it, once it is registered.
LEMMA WorkTakesUp ==
  ASSUME W!WorkerTypeOK, NEW w \in Workers, WorkerActs(w),
         NEW v \in Workers, NEW t \in Tasks, NEW n \in W!Attempts, InSlot(v, t, n)' \/ Unconfirmed(v, t, n)'
  PROVE  InSlot(v, t, n) \/ Unconfirmed(v, t, n) \/ (reg[v] /\ OnWire(v, Offers(t, n)))
<1>0. NoTask \notin Tasks
  BY FleetAssumption DEF W!WorkerAssumption
<1>1. CASE v # w
  BY <1>1, WorkerGoes DEF WP!OnlyFor, WP!SameWork, InSlot, Unconfirmed
<1>2. CASE v = w
  <2>1. Goes(w) \/ WP!Ends(w)
    BY WorkerGoes
  <2>3. Unconfirmed(v, t, n)' => Unconfirmed(v, t, n) \/ InSlot(v, t, n)
    <3>1. CASE WP!Ends(w)
      BY <1>2, <3>1 DEF WP!Ends, Unconfirmed, InSlot, WP!IsOn
    <3>2. CASE Goes(w)
      <4>1. unconf'[w] = unconf[w] \/ unconf'[w] = WP!NoOutcome
        BY <3>2 DEF Goes, WP!Registers, WP!LosesTask, WP!Considers, WP!Drops, WP!Begins, WP!Waits,
             WP!LosesLink, WP!Starts, WP!Stops, WP!CutsLink, WP!SameWork
      <4>2. QED
        BY <1>0, <1>2, <4>1 DEF WP!NoOutcome, Unconfirmed, WP!IsOn
    <3>3. QED
      BY <2>1, <3>1, <3>2
  <2>4. InSlot(v, t, n)' => InSlot(v, t, n) \/ (reg[v] /\ OnWire(v, Offers(t, n)))
    <3>1. ASSUME NEW type \in {"assigned", "resumed"}, NEW u \in Tasks, NEW k \in W!Attempts, WP!Considers(w, type, u, k),
                 InSlot(v, t, n)', ~InSlot(v, t, n)
          PROVE  reg[v] /\ OnWire(v, Offers(t, n))
      <4>1. u = t /\ k = n /\ reg[w]
        BY <1>2, <3>1 DEF WP!Considers, WP!SameWork, InSlot, WP!IsOn
      <4>2. down[w] # <<>> /\ down[w][1].type = type /\ WP!IsOn(down[w][1], t, n)
        BY <3>1, <4>1 DEF WP!Considers, WP!Heard
      <4>3. down[w][1] \in Offers(t, n)
        BY <4>2, HeardFirst DEF Offers, WP!IsOn
      <4>4. QED
        BY <1>2, <4>1, <4>2, <4>3, HeardFirst DEF OnWire
    <3>2. CASE \E u \in Tasks : WP!LosesTask(w, u)
      BY <1>2, <3>2, SlotMarked DEF WP!LosesTask, InSlot, WP!IsOn
    <3>3. CASE WP!Registers(w) \/ WP!Waits(w) \/ WP!LosesLink(w) \/ WP!CutsLink(w) \/ WP!Stops(w) \/ WP!Begins(w)
      <4>1. slot'[w] = slot[w] \/ (slot'[w].task = slot[w].task /\ slot'[w].attempt = slot[w].attempt)
        BY <3>3, SlotMarked DEF WP!Registers, WP!Waits, WP!LosesLink, WP!CutsLink, WP!Stops, WP!Begins, WP!SameWork
      <4>2. QED
        BY <1>2, <4>1 DEF InSlot, WP!IsOn
    <3>4. CASE WP!Drops(w) \/ WP!Starts(w) \/ WP!Ends(w)
      BY <1>0, <1>2, <3>4 DEF WP!Drops, WP!Starts, WP!Ends, WP!NoSlot, InSlot, WP!IsOn
    <3>5. QED
      BY <2>1, <3>1, <3>2, <3>3, <3>4 DEF Goes
  <2>5. QED
    BY <2>3, <2>4
<1>3. QED
  BY <1>1, <1>2

\* From its own steps a worker learns of no attempt,
LEMMA WorkTeachesNothing ==
  ASSUME W!WorkerTypeOK, NEW w \in Workers, WorkerActs(w),
         NEW v \in Workers, NEW t \in Tasks, NEW n \in W!Attempts, Knows(v, t, n)'
  PROVE  Knows(v, t, n)
<1>1. OnWire(v, Offers(t, n))' => OnWire(v, Offers(t, n))
  <2>1. CASE v # w
    BY <2>1, WorkerGoes DEF WP!OnlyFor, OnWire
  <2>2. CASE v = w
    BY <2>2, WorkerGoes, WorkerWires DEF OnWire, Shrinks
  <2>3. QED
    BY <2>1, <2>2
<1>2. QED
  BY <1>1, WorkTakesUp DEF Knows

\* nor from a connection that comes or goes;
LEMMA LinkTeachesNothing ==
  ASSUME W!WorkerTypeOK, Relinks, NEW v \in Workers, NEW t \in Tasks, NEW n \in W!Attempts, Knows(v, t, n)'
  PROVE  Knows(v, t, n)
<1>1. WP!Msgs(down'[v]) \subseteq WP!Msgs(down[v])
  BY PrefixOrder DEF Relinks, W!WorkerTypeOK
<1>2. QED
  BY <1>1 DEF Relinks, Knows, InSlot, Unconfirmed, OnWire

\* from the hub it learns of one it has been given, or holds already.
LEMMA TalkTeaches ==
  ASSUME W!WorkerTypeOK, Talks, NEW v \in Workers, NEW t \in Tasks, NEW n \in W!Attempts, Knows(v, t, n)'
  PROVE  \/ Knows(v, t, n)
         \/ Held(v, t)' /\ n = attempt'[t] /\ attempt'[t] = attempt[t] + 1
         \/ Registering(v) /\ OnAttempt(v, t, n) /\ UNCHANGED <<status, holder, attempt>>
<1>1. PICK s : SaysTo(v, s)
  BY DEF Talks
<1>2. WP!Msgs(down'[v]) = WP!Msgs(down[v]) \cup WP!Msgs(s)
  BY <1>1, ConcatOrder DEF SaysTo, W!WorkerTypeOK
<1>3. CASE \E m \in WP!Msgs(s) : m \in Offers(t, n)
  BY <1>1, <1>3 DEF SaysTo, Offers
<1>4. CASE ~\E m \in WP!Msgs(s) : m \in Offers(t, n)
  BY <1>2, <1>4 DEF Talks, Knows, InSlot, Unconfirmed, OnWire
<1>5. QED
  BY <1>3, <1>4

\* Every step keeps the names right.
LEMMA NamedStep ==
  ASSUME GroundInv, Named, [FleetNext]_fleetVars
  PROVE  Named'
<1> USE GroundStep
<1>0. /\ \A t \in Tasks : attempt[t] \in Nat /\ (attempt'[t] = attempt[t] \/ attempt'[t] = attempt[t] + 1)
      /\ \A t \in Tasks : attempt'[t] = attempt[t] /\ IsActive(t)' => IsActive(t) /\ holder'[t] = holder[t]
      /\ \A n \in W!Attempts : n \in Nat
      /\ \A v \in Workers, t \in Tasks : Held(v, t)' <=> IsActive(t)' /\ holder'[t] = v
  <2>1. TypeOK /\ LifeInv
    BY DEF GroundInv, HubInv
  <2>2. \A t \in Tasks : attempt[t] \in Nat /\ (attempt'[t] = attempt[t] \/ attempt'[t] = attempt[t] + 1)
    BY <2>1 DEF TypeOK, HandsOver
  <2>3. \A t \in Tasks : attempt'[t] = attempt[t] /\ IsActive(t)' => IsActive(t) /\ holder'[t] = holder[t]
    BY <2>1, OldHolder DEF IsActive
  <2>4. QED
    BY <2>2, <2>3 DEF W!Attempts, Held
<1>1. ASSUME NEW v \in Workers, NEW t \in Tasks, NEW n \in W!Attempts, Knows(v, t, n)'
      PROVE  \/ Knows(v, t, n)
             \/ Held(v, t)' /\ n = attempt'[t] /\ attempt'[t] = attempt[t] + 1
             \/ OnAttempt(v, t, n) /\ UNCHANGED <<status, holder, attempt>>
  <2>1. CASE UNCHANGED fleetVars
    BY <1>1, <2>1 DEF fleetVars, W!workerVars, W!state, W!wires, Knows, InSlot, Unconfirmed, OnWire
  <2>2. CASE Relinks \/ \E w \in Workers : WorkerActs(w)
    BY <1>1, <2>2, LinkTeachesNothing, WorkTeachesNothing
  <2>3. CASE Talks
    BY <1>1, <2>3, TalkTeaches
  <2>4. QED
    BY <2>1, <2>2, <2>3
<1> HIDE GroundStep
<1>2. ASSUME NEW v \in Workers, NEW t \in Tasks, NEW n \in W!Attempts, Knows(v, t, n)
      PROVE  n <= attempt'[t] /\ (n = attempt'[t] /\ IsActive(t)' => holder'[t] = v)
  <2>1. n <= attempt[t] /\ (n = attempt[t] /\ IsActive(t) => holder[t] = v)
    BY <1>2 DEF Named
  <2>2. QED
    BY <1>0, <2>1
<1>3. ASSUME NEW v \in Workers, NEW t \in Tasks, NEW n \in W!Attempts,
             OnAttempt(v, t, n) /\ UNCHANGED <<status, holder, attempt>>
      PROVE  /\ n <= attempt'[t] /\ holder'[t] = v /\ n = attempt[t] /\ attempt'[t] = attempt[t]
             /\ \A u \in Workers : Knows(u, t, n) => u = v
  <2>1. n = attempt[t] /\ IsActive(t) /\ holder[t] = v /\ attempt'[t] = attempt[t] /\ holder'[t] = holder[t]
    BY <1>3 DEF OnAttempt, Held
  <2>2. QED
    BY <1>0, <2>1 DEF Named
<1>4. ASSUME NEW v \in Workers, NEW t \in Tasks, NEW n \in W!Attempts, Knows(v, t, n)'
      PROVE  n <= attempt'[t] /\ (n = attempt'[t] /\ IsActive(t)' => holder'[t] = v)
  <2>1. CASE Held(v, t)' /\ n = attempt'[t] /\ attempt'[t] = attempt[t] + 1
    BY <1>0, <2>1
  <2>2. QED
    BY <1>1, <1>2, <1>3, <1>4, <2>1
<1>5. ASSUME NEW v \in Workers, NEW u \in Workers, NEW t \in Tasks, NEW n \in W!Attempts, Knows(v, t, n)', Knows(u, t, n)'
      PROVE  u = v
  <2>1. CASE Knows(v, t, n) /\ Knows(u, t, n)
    BY <2>1 DEF Named
  <2>2. CASE Held(v, t)' /\ n = attempt'[t] /\ attempt'[t] = attempt[t] + 1
    <3>1. n > attempt[t]
      BY <1>0, <2>2
    <3>2. ~Knows(u, t, n)
      BY <1>0, <3>1 DEF Named
    <3>3. Held(u, t)'
      BY <1>0, <1>1, <1>3, <1>5, <2>2, <3>2
    <3>4. QED
      BY <1>0, <2>2, <3>3
  <2>3. CASE Held(u, t)' /\ n = attempt'[t] /\ attempt'[t] = attempt[t] + 1
    <3>1. n > attempt[t]
      BY <1>0, <2>3
    <3>2. ~Knows(v, t, n)
      BY <1>0, <3>1 DEF Named
    <3>3. Held(v, t)'
      BY <1>0, <1>1, <1>3, <1>5, <2>3, <3>2
    <3>4. QED
      BY <1>0, <2>3, <3>3
  <2>4. CASE OnAttempt(v, t, n) /\ UNCHANGED <<status, holder, attempt>>
    BY <1>1, <1>3, <1>5, <2>3, <2>4
  <2>5. CASE OnAttempt(u, t, n) /\ UNCHANGED <<status, holder, attempt>>
    BY <1>1, <1>3, <1>5, <2>2, <2>5
  <2>6. QED
    BY <1>1, <1>5, <2>1, <2>2, <2>3, <2>4, <2>5
<1>6. QED
  BY <1>4, <1>5 DEF Named
-----------------------------------------------------------------------------
(* What comes after what.                                                  *)

\* An attempt is offered for the first time once, and not again after what overtakes it.
InOrder(w, t, n) ==
  /\ Orderly(down[w], Overtaking(t, n), Again(t, n))
  /\ Orderly(down[w], Offers(t, n), FirstOffer(t, n))
  /\ InSlot(w, t, n) => ~OnWire(w, FirstOffer(t, n))

\* As long as the hub counts on an attempt, nothing under way takes the worker off it, and its
\* outcome is kept by a worker that has taken nothing else.
Wanted(w, t, n) ==
  OnAttempt(w, t, n) =>
    /\ Orderly(down[w], Offers(t, n), Overtaking(t, n))
    /\ InSlot(w, t, n) \/ Unconfirmed(w, t, n) => ~OnWire(w, Overtaking(t, n))
    /\ Unconfirmed(w, t, n) => slot[w].task = NoTask

\* An attempt with an outcome is not taken up again, and its outcome is kept while it is wanted.
Over(w, t, n) ==
  /\ Unconfirmed(w, t, n) => <<t, n>> \in produced
  /\ <<t, n>> \in produced =>
       /\ n <= attempt[t]
       /\ ~InSlot(w, t, n) /\ ~OnWire(w, FirstOffer(t, n))
       /\ OnWire(w, Again(t, n)) => Unconfirmed(w, t, n) /\ slot[w].task = NoTask
       /\ OnAttempt(w, t, n) => Unconfirmed(w, t, n)

Sound(w, t, n) == InOrder(w, t, n) /\ Wanted(w, t, n) /\ Over(w, t, n)

SoundInv == \A w \in Workers, t \in Tasks, n \in W!Attempts : Sound(w, t, n)

\* A worker that takes nothing up and has no outcome, and gives up no outcome that is wanted,
\* stays sound whatever it reads or loses.
LEMMA SoundStays ==
  ASSUME NEW v \in Workers, NEW t \in Tasks, NEW n \in W!Attempts, Sound(v, t, n),
         Shrinks(down'[v], down[v]), OnAttempt(v, t, n)' => OnAttempt(v, t, n), attempt'[t] = attempt[t],
         <<t, n>> \in produced' <=> <<t, n>> \in produced,
         \/ slot'[v].task = slot[v].task /\ slot'[v].attempt = slot[v].attempt
         \/ slot'[v] = WP!NoSlot,
         \/ unconf'[v] = unconf[v]
         \/ /\ unconf'[v] = WP!NoOutcome
            /\ Unconfirmed(v, t, n) => ~OnAttempt(v, t, n) /\ WP!Msgs(down'[v]) \cap Again(t, n) = {}
  PROVE  Sound(v, t, n)'
<1>0. NoTask # t
  BY FleetAssumption DEF W!WorkerAssumption
<1>1. /\ \A B : OnWire(v, B)' => OnWire(v, B)
      /\ \A A, B : Orderly(down[v], A, B) => Orderly(down'[v], A, B)
  BY DEF OnWire, Shrinks
<1>2. InSlot(v, t, n)' => InSlot(v, t, n)
  BY <1>0 DEF InSlot, WP!IsOn, WP!NoSlot
<1>3. slot[v].task = NoTask => slot'[v].task = NoTask
  BY DEF WP!NoSlot
<1>4. /\ Unconfirmed(v, t, n)' => Unconfirmed(v, t, n)
      /\ Unconfirmed(v, t, n) /\ ~Unconfirmed(v, t, n)' => ~OnAttempt(v, t, n) /\ ~OnWire(v, Again(t, n))'
  BY <1>0 DEF Unconfirmed, WP!IsOn, WP!NoOutcome, OnWire
<1>5. InOrder(v, t, n)'
  BY <1>1, <1>2 DEF Sound, InOrder
<1>6. Wanted(v, t, n)'
  BY <1>1, <1>2, <1>3, <1>4 DEF Sound, Wanted
<1>7. Over(v, t, n)'
  BY <1>1, <1>2, <1>3, <1>4 DEF Sound, Over
<1>8. QED
  BY <1>5, <1>6, <1>7 DEF Sound

\* A worker takes up an attempt offered to it: a new one, or one without an outcome.
LEMMA SoundTakes ==
  ASSUME W!WorkerTypeOK, NEW w \in Workers, NEW u \in Tasks, NEW k \in W!Attempts, NEW type \in {"assigned", "resumed"},
         WP!Heard(w, type), WP!IsOn(down[w][1], u, k), slot[w].task = NoTask,
         unconf'[w] = unconf[w] \/ (unconf[w].task = u /\ unconf[w].attempt # k /\ unconf'[w] = WP!NoOutcome),
         type = "resumed" => ~WP!IsOn(unconf[w], u, k),
         slot'[w].task = u /\ slot'[w].attempt = k, UNCHANGED <<vars, produced>>,
         NEW t \in Tasks, NEW n \in W!Attempts, Sound(w, t, n)
  PROVE  Sound(w, t, n)'
<1>0. NoTask # t /\ NoTask # u
  BY FleetAssumption DEF W!WorkerAssumption
<1> DEFINE m == down[w][1]
<1>1. /\ m \in W!DownMsg /\ m \in WP!Msgs(down[w]) /\ m.type = type /\ m.task = u /\ m.attempt = k
      /\ \A A, B : Orderly(down[w], A, B) /\ m \in A => WP!Msgs(down'[w]) \cap B = {}
  BY HeardFirst DEF WP!Heard, WP!IsOn
<1>2. Shrinks(down'[w], down[w])
  BY Shrinking DEF WP!Heard, W!WorkerTypeOK
<1> HIDE DEF m
<1>3. /\ \A B : OnWire(w, B)' => OnWire(w, B)
      /\ \A A, B : Orderly(down[w], A, B) => Orderly(down'[w], A, B)
      /\ \A A, B : Orderly(down[w], A, B) /\ m \in A => ~OnWire(w, B)'
      /\ \A B : m \in B => OnWire(w, B)
  BY <1>1, <1>2 DEF OnWire, Shrinks
<1>4. /\ attempt'[t] = attempt[t] /\ (OnAttempt(w, t, n)' <=> OnAttempt(w, t, n)) /\ produced' = produced
      /\ InSlot(w, t, n)' <=> u = t /\ k = n
      /\ ~InSlot(w, t, n)
  BY <1>0 DEF vars, rows, counters, OnAttempt, Held, IsActive, InSlot, WP!IsOn
<1>5. CASE u = t /\ k = n
  <2>1. m \in Offers(t, n) /\ (type = "assigned" => m \in FirstOffer(t, n)) /\ (type = "resumed" => m \in Again(t, n))
    BY <1>1, <1>5 DEF Offers, FirstOffer, Again
  <2>2. <<t, n>> \notin produced /\ ~Unconfirmed(w, t, n)
    BY <1>3, <1>5, <2>1 DEF Sound, Over, Unconfirmed
  <2>3. ~Unconfirmed(w, t, n)'
    BY <1>0, <2>2 DEF Unconfirmed, WP!IsOn, WP!NoOutcome
  <2>4. InOrder(w, t, n)'
    BY <1>3, <2>1 DEF Sound, InOrder
  <2>5. Wanted(w, t, n)'
    BY <1>3, <1>4, <2>1, <2>3 DEF Sound, Wanted
  <2>6. QED
    BY <1>4, <2>2, <2>3, <2>4, <2>5 DEF Sound, Over
<1>6. CASE ~(u = t /\ k = n)
  <2>1. m \in Overtaking(t, n)
    BY <1>1, <1>6 DEF Overtaking
  <2>2. OnWire(w, Overtaking(t, n)) /\ ~OnWire(w, Again(t, n))'
    BY <1>3, <2>1 DEF Sound, InOrder
  <2>3. ~InSlot(w, t, n)'
    BY <1>4, <1>6
  <2>4. Unconfirmed(w, t, n)' => Unconfirmed(w, t, n)
    BY <1>0 DEF Unconfirmed, WP!IsOn, WP!NoOutcome
  <2>5. OnAttempt(w, t, n) => ~Unconfirmed(w, t, n)
    BY <2>2 DEF Sound, Wanted
  <2>6. InOrder(w, t, n)'
    BY <1>3, <2>3 DEF Sound, InOrder
  <2>7. Wanted(w, t, n)'
    BY <1>3, <1>4, <2>3, <2>4, <2>5 DEF Sound, Wanted
  <2>8. Over(w, t, n)'
    BY <1>3, <1>4, <2>2, <2>3, <2>4, <2>5 DEF Sound, Over
  <2>9. QED
    BY <2>6, <2>7, <2>8 DEF Sound
<1>7. QED
  BY <1>5, <1>6

\* A worker has an outcome.
LEMMA SoundEnds ==
  ASSUME W!WorkerTypeOK, Named, NEW w \in Workers, WP!Ends(w), WP!OnlyFor(w), UNCHANGED vars,
         produced' = produced \cup {<<slot[w].task, slot[w].attempt>>},
         NEW v \in Workers, NEW t \in Tasks, NEW n \in W!Attempts, Sound(v, t, n)
  PROVE  Sound(v, t, n)'
<1>0. NoTask # t /\ slot[w].task \in Tasks /\ slot[w].attempt \in W!Attempts /\ slot[w].task # NoTask
  BY FleetAssumption DEF W!WorkerAssumption, W!WorkerTypeOK, W!Slots, W!NoSlot, WP!Ends
<1>1. /\ attempt'[t] = attempt[t] /\ (OnAttempt(v, t, n)' <=> OnAttempt(v, t, n)) /\ down'[v] = down[v]
      /\ \A B : OnWire(v, B)' <=> OnWire(v, B)
  BY DEF vars, rows, counters, OnAttempt, Held, IsActive, WP!Ends, WP!OnlyFor, OnWire
<1>2. Shrinks(down'[v], down[v])
  BY <1>1 DEF Shrinks
<1>3. CASE v # w /\ InSlot(w, t, n)
  <2>1. Knows(w, t, n)
    BY <1>3 DEF Knows
  <2>2. ~Knows(v, t, n) /\ n <= attempt[t] /\ ~OnAttempt(v, t, n)
    BY <1>3, <2>1 DEF Named, OnAttempt, Held
  <2>3. /\ ~InSlot(v, t, n) /\ ~Unconfirmed(v, t, n) /\ ~OnWire(v, Offers(t, n))
    BY <2>2 DEF Knows
  <2>4. ~OnWire(v, FirstOffer(t, n)) /\ ~OnWire(v, Again(t, n))
    BY <2>3 DEF OnWire, Offers, FirstOffer, Again
  <2>5. ~InSlot(v, t, n)' /\ ~Unconfirmed(v, t, n)'
    BY <1>3, <2>3 DEF WP!OnlyFor, WP!SameWork, InSlot, Unconfirmed
  <2>6. InOrder(v, t, n)' /\ Wanted(v, t, n)' /\ Over(v, t, n)'
    BY <1>1, <2>2, <2>4, <2>5 DEF Sound, InOrder, Wanted, Over
  <2>7. QED
    BY <2>6 DEF Sound
<1>4. CASE v # w /\ ~InSlot(w, t, n)
  <2>1. <<t, n>> \in produced' <=> <<t, n>> \in produced
    BY <1>4 DEF InSlot, WP!IsOn
  <2>2. slot'[v] = slot[v] /\ unconf'[v] = unconf[v]
    BY <1>4 DEF WP!OnlyFor, WP!SameWork
  <2>3. QED
    BY <1>1, <1>2, <2>1, <2>2, SoundStays
<1>5. CASE v = w
  <2>1. ~InSlot(w, t, n)' /\ slot'[w].task = NoTask /\ (Unconfirmed(w, t, n)' <=> InSlot(w, t, n))
    BY <1>0 DEF WP!Ends, WP!NoSlot, InSlot, Unconfirmed, WP!IsOn
  <2>2. <<t, n>> \in produced' <=> <<t, n>> \in produced \/ InSlot(w, t, n)
    BY DEF InSlot, WP!IsOn
  <2>3. InOrder(v, t, n)'
    BY <1>1, <1>5, <2>1 DEF Sound, InOrder
  <2>4. Wanted(v, t, n)'
    BY <1>1, <1>5, <2>1 DEF Sound, Wanted
  <2>5. InSlot(w, t, n) => n <= attempt[t]
    BY DEF Named, Knows
  <2>6. Over(v, t, n)'
    <3>1. CASE InSlot(w, t, n)
      BY <1>1, <1>5, <2>1, <2>2, <2>5, <3>1 DEF Sound, InOrder, Over
    <3>2. CASE ~InSlot(w, t, n)
      BY <1>0, <1>1, <1>5, <2>1, <2>2, <3>2 DEF Sound, Wanted, Over
    <3>3. QED
      BY <3>1, <3>2
  <2>7. QED
    BY <2>3, <2>4, <2>6 DEF Sound
<1>6. QED
  BY <1>3, <1>4, <1>5
\* What a worker gives up when it is overtaken, or goes on with another task, nobody wants.
LEMMA SoundGoes ==
  ASSUME W!WorkerTypeOK, NEW w \in Workers, Goes(w), WP!OnlyFor(w), UNCHANGED <<vars, produced>>,
         NEW v \in Workers, NEW t \in Tasks, NEW n \in W!Attempts, Sound(v, t, n)
  PROVE  Sound(v, t, n)'
<1>0. NoTask \notin Tasks
  BY FleetAssumption DEF W!WorkerAssumption
<1>1. /\ attempt'[t] = attempt[t] /\ (OnAttempt(v, t, n)' => OnAttempt(v, t, n))
      /\ <<t, n>> \in produced' <=> <<t, n>> \in produced
  BY DEF vars, rows, counters, OnAttempt, Held, IsActive
<1>2. CASE v # w
  <2>1. down'[v] = down[v] /\ slot'[v] = slot[v] /\ unconf'[v] = unconf[v]
    BY <1>2 DEF WP!OnlyFor, WP!SameWork
  <2>2. Shrinks(down'[v], down[v])
    BY <2>1 DEF Shrinks
  <2>3. QED
    BY <1>1, <2>1, <2>2, SoundStays
<1>3. CASE v = w
  <2>1. Shrinks(down'[v], down[v])
    BY <1>3, WorkerWires
  <2> DEFINE StaysOn == \/ slot'[v].task = slot[v].task /\ slot'[v].attempt = slot[v].attempt
                        \/ slot'[v] = WP!NoSlot
             Forgets == /\ unconf'[v] = WP!NoOutcome
                        /\ Unconfirmed(v, t, n) => ~OnAttempt(v, t, n) /\ WP!Msgs(down'[v]) \cap Again(t, n) = {}
  <2>2. StaysOn /\ (unconf'[v] = unconf[v] \/ Forgets) => Sound(v, t, n)'
    BY <1>1, <2>1, SoundStays
  <2>3. ASSUME NEW type, WP!Heard(w, type), unconf'[v] = WP!NoOutcome,
               Unconfirmed(v, t, n) => down[w][1] \in Overtaking(t, n)
        PROVE  Forgets
    <3>1. down[w] # <<>> /\ down'[w] = Tail(down[w])
      BY <2>3 DEF WP!Heard
    <3>2. Unconfirmed(v, t, n) => OnWire(v, Overtaking(t, n)) /\ WP!Msgs(down'[v]) \cap Again(t, n) = {}
      BY <1>3, <2>3, <3>1, HeardFirst DEF OnWire, Sound, InOrder
    <3>3. QED
      BY <2>3, <3>2 DEF Sound, Wanted
  <2>4. ASSUME slot[v].task # NoTask, unconf'[v] = WP!NoOutcome, down'[v] = down[v]
        PROVE  Forgets
    BY <2>4 DEF Sound, Wanted, Over, OnWire
  <2> HIDE DEF Forgets
  <2>5. CASE \E u \in Tasks : WP!LosesTask(w, u)
    <3>1. PICK u \in Tasks : WP!LosesTask(w, u)
      BY <2>5
    <3>2. StaysOn
      BY <1>3, <3>1, SlotMarked DEF WP!LosesTask
    <3>3. CASE unconf'[v] = unconf[v]
      BY <2>2, <3>2, <3>3
    <3>4. CASE unconf[w].task = u /\ unconf'[w] = WP!NoOutcome
      <4>1. down[w] # <<>> /\ down[w][1].type = "revoked" /\ down[w][1].task = u
        BY <3>1 DEF WP!LosesTask, WP!Heard
      <4>2. Unconfirmed(v, t, n) => down[w][1] \in Overtaking(t, n)
        BY <1>3, <3>4, <4>1, HeardFirst DEF Unconfirmed, WP!IsOn, Overtaking
      <4>3. Forgets
        BY <1>3, <2>3, <3>1, <3>4, <4>2 DEF WP!LosesTask
      <4>4. QED
        BY <2>2, <3>2, <4>3
    <3>5. QED
      BY <1>3, <3>1, <3>3, <3>4 DEF WP!LosesTask
  <2>6. ASSUME NEW u \in Tasks, NEW k \in W!Attempts, NEW type \in {"assigned", "resumed"}, WP!Considers(w, type, u, k)
        PROVE  Sound(v, t, n)'
    <3>1. CASE slot'[w] = slot[w]
      <4>1. CASE unconf'[w] = unconf[w]
        BY <1>3, <2>2, <3>1, <4>1
      <4>2. CASE unconf[w].task = u /\ unconf[w].attempt # k /\ unconf'[w] = WP!NoOutcome
        <5>1. down[w] # <<>> /\ down[w][1].type = type /\ down[w][1].task = u /\ down[w][1].attempt = k
          BY <2>6 DEF WP!Considers, WP!Heard, WP!IsOn
        <5>2. Unconfirmed(v, t, n) => down[w][1] \in Overtaking(t, n)
          BY <1>3, <4>2, <5>1, HeardFirst DEF Unconfirmed, WP!IsOn, Overtaking
        <5>3. Forgets
          BY <1>3, <2>3, <2>6, <4>2, <5>2 DEF WP!Considers
        <5>4. QED
          BY <1>3, <2>2, <3>1, <5>3
      <4>3. QED
        BY <2>6, <4>1, <4>2 DEF WP!Considers, WP!SameWork
    <3>2. CASE slot'[w] # slot[w]
      <4>1. /\ slot[w].task = NoTask
            /\ unconf'[w] = unconf[w] \/ (unconf[w].task = u /\ unconf[w].attempt # k /\ unconf'[w] = WP!NoOutcome)
            /\ type = "resumed" => ~WP!IsOn(unconf[w], u, k)
            /\ slot'[w] = [task |-> u, attempt |-> k, stage |-> "check", abort |-> "no"]
            /\ WP!Heard(w, type) /\ WP!IsOn(down[w][1], u, k)
        BY <2>6, <3>2 DEF WP!Considers, WP!SameWork
      <4>2. slot'[w].task = u /\ slot'[w].attempt = k
        BY <4>1
      <4>3. QED
        BY <1>3, <4>1, <4>2, SoundTakes
    <3>3. QED
      BY <3>1, <3>2
  <2>7. CASE WP!Drops(w)
    <3>1. StaysOn /\ slot[v].task # NoTask /\ down'[v] = down[v]
      BY <1>3, <2>7 DEF WP!Drops
    <3>2. unconf'[v] = unconf[v] \/ unconf'[v] = WP!NoOutcome
      BY <1>3, <2>7 DEF WP!Drops
    <3>3. QED
      BY <2>2, <2>4, <3>1, <3>2
  <2>8. CASE WP!Begins(w)
    <3>1. StaysOn /\ down'[v] = down[v] /\ unconf'[v] = WP!NoOutcome
      BY <1>3, <2>8, SlotMarked DEF WP!Begins
    <3>2. slot[v].task # NoTask
      BY <1>0, <1>3, <2>8 DEF WP!Begins, W!WorkerTypeOK, W!Slots, W!NoSlot
    <3>3. QED
      BY <2>2, <2>4, <3>1, <3>2
  <2>9. CASE WP!Registers(w) \/ WP!Waits(w) \/ WP!LosesLink(w) \/ WP!Starts(w) \/ WP!Stops(w) \/ WP!CutsLink(w)
    <3>1. StaysOn
      BY <1>3, <2>9, SlotMarked
         DEF WP!Registers, WP!Waits, WP!LosesLink, WP!Starts, WP!Stops, WP!CutsLink, WP!SameWork
    <3>2. unconf'[v] = unconf[v]
      BY <1>3, <2>9 DEF WP!Registers, WP!Waits, WP!LosesLink, WP!Starts, WP!Stops, WP!CutsLink, WP!SameWork
    <3>3. QED
      BY <2>2, <3>1, <3>2
  <2>10. QED
    BY <2>5, <2>6, <2>7, <2>8, <2>9 DEF Goes
<1>4. QED
  BY <1>2, <1>3

\* The hub offers an attempt once, tells a worker of others only what leaves it to go on, and
\* resumes it on a connection that has heard nothing else.
LEMMA SoundTalks ==
  ASSUME GroundInv, Named, HandsOver, Talks, W!WorkerTypeOK,
         NEW v \in Workers, NEW t \in Tasks, NEW n \in W!Attempts, Sound(v, t, n)
  PROVE  Sound(v, t, n)'
<1> DEFINE Before == WP!Msgs(down[v])
<1>0. v \in Agents /\ n \in Nat
  BY FleetAssumption, ConductorAssumption DEF W!Attempts
<1>1. PICK s : SaysTo(v, s)
  BY DEF Talks
<1>2. slot'[v] = slot[v] /\ unconf'[v] = unconf[v] /\ produced' = produced
  BY DEF Talks
<1>3. /\ s \in Seq(W!DownMsg) /\ down[v] \in Seq(W!DownMsg) /\ down'[v] = down[v] \o s
  BY <1>1 DEF SaysTo, W!WorkerTypeOK
<1>4. /\ WP!Msgs(down'[v]) = Before \cup WP!Msgs(s)
      /\ \A A, B : Orderly(down[v], A, B) /\ Orderly(s, A, B) /\ (Before \cap A = {} \/ WP!Msgs(s) \cap B = {})
                   => Orderly(down'[v], A, B)
      /\ WP!Msgs(s) \subseteq W!DownMsg
  BY <1>3, ConcatOrder, OfItsKind
<1>5. /\ attempt[t] \in Nat /\ OneHeld /\ Linked(v)
      /\ attempt'[t] = attempt[t] \/ attempt'[t] = attempt[t] + 1
  BY DEF GroundInv, HubInv, LinkInv, TypeOK, HandsOver
<1>6. \A A, B : WP!Msgs(s) \cap B = {} => Orderly(s, A, B)
  BY <1>3, LenProperties DEF Orderly, WP!Msgs
<1>7. \A A, B : WP!Msgs(s) \cap A = {} => Orderly(s, A, B)
  BY <1>3, LenProperties DEF Orderly, WP!Msgs
<1>8. \A B : OnWire(v, B)' <=> OnWire(v, B) \/ WP!Msgs(s) \cap B # {}
  BY <1>4 DEF OnWire
<1> HIDE DEF Before
\* A first offer is of an attempt nobody knows.
<1>9. ASSUME WP!Msgs(s) \cap FirstOffer(t, n) # {}
      PROVE  n = attempt[t] + 1
  BY <1>1, <1>9 DEF SaysTo, FirstOffer
<1>10. n = attempt[t] + 1 => /\ ~InSlot(v, t, n) /\ ~Unconfirmed(v, t, n) /\ Before \cap Offers(t, n) = {}
                             /\ <<t, n>> \notin produced
  <2>1. Knows(v, t, n) => n <= attempt[t]
    BY DEF Named
  <2>2. <<t, n>> \in produced => n <= attempt[t]
    BY DEF Sound, Over
  <2>3. QED
    BY <1>0, <1>5, <2>1, <2>2 DEF Knows, OnWire, Before
\* A task is resumed where nothing but revocations of other tasks is under way.
<1>11. ASSUME NEW m \in WP!Msgs(s), m.type = "resumed"
       PROVE  /\ OnAttempt(v, m.task, m.attempt) /\ m.task \in Tasks /\ m.attempt \in W!Attempts
              /\ \A x \in Before : x.type = "revoked" /\ ~Held(v, x.task)
              /\ \A x \in WP!Msgs(s) : x = m \/ x.type = "registered"
  <2>1. /\ Registering(v) /\ OnAttempt(v, m.task, m.attempt)
        /\ \A x \in WP!Msgs(s) : x = m \/ x.type = "registered"
    BY <1>1, <1>11 DEF SaysTo
  <2>2. up[v] \in Seq(W!UpMsg) /\ up[v] # <<>> /\ up[v][1].type = "register"
    BY <2>1 DEF Registering, W!WorkerTypeOK
  <2>3. up[v][1] \in WP!Msgs(up[v])
    BY <2>2, TailOrder
  <2>4. conn[v] = "open"
    BY <1>5, <2>2, <2>3 DEF Linked
  <2>5. m.task \in Tasks /\ m.attempt \in W!Attempts
    BY <1>4, <1>11 DEF W!DownMsg, W!Registered
  <2>6. QED
    BY <1>5, <2>1, <2>4, <2>5 DEF Linked, Before
<1>12. ASSUME NEW m \in WP!Msgs(s), m \in Again(t, n)
       PROVE  /\ OnAttempt(v, t, n) /\ Before \cap Overtaking(t, n) = {} /\ WP!Msgs(s) \cap Overtaking(t, n) = {}
  <2>1. m.type = "resumed" /\ m.task = t /\ m.attempt = n
    BY <1>12 DEF Again
  <2>2. /\ OnAttempt(v, t, n) /\ (\A x \in Before : x.type = "revoked" /\ ~Held(v, x.task))
        /\ \A x \in WP!Msgs(s) : x = m \/ x.type = "registered"
    BY <1>11, <2>1
  <2>3. Held(v, t)
    BY <2>2 DEF OnAttempt
  <2>4. Before \cap Overtaking(t, n) = {}
    BY <2>2, <2>3 DEF Overtaking
  <2>5. WP!Msgs(s) \cap Overtaking(t, n) = {}
    BY <2>1, <2>2 DEF Overtaking
  <2>6. QED
    BY <2>2, <2>4, <2>5
\* What the hub counts on after the step.
<1>13. OnAttempt(v, t, n)' =>
         \/ OnAttempt(v, t, n) /\ WP!Msgs(s) \cap Overtaking(t, n) = {}
         \/ n = attempt[t] + 1
  <2> SUFFICES ASSUME OnAttempt(v, t, n)', n # attempt[t] + 1
               PROVE  OnAttempt(v, t, n) /\ WP!Msgs(s) \cap Overtaking(t, n) = {}
    OBVIOUS
  <2>1. /\ attempt'[t] = n /\ Held(v, t)' /\ Held(v, t) /\ attempt'[t] = attempt[t]
    BY <1>0 DEF OnAttempt, HandsOver
  <2>2. ASSUME NEW m \in WP!Msgs(s), m.type = "assigned" PROVE FALSE
    <3>1. /\ m.task \in Tasks /\ Held(v, m.task)' /\ attempt'[m.task] = attempt[m.task] + 1
      BY <1>1, <1>4, <2>2 DEF SaysTo, W!DownMsg, W!Registered
    <3>2. attempt[m.task] \in Nat
      BY <3>1 DEF GroundInv, HubInv, TypeOK
    <3>3. HeldTasks(v) = {}
      BY <1>0, <3>1, <3>2 DEF HandsOver
    <3>4. QED
      BY <2>1, <3>3 DEF HeldTasks
  <2>3. ASSUME NEW m \in WP!Msgs(s), m.type = "resumed" PROVE m.task = t /\ m.attempt = n
    <3>1. OnAttempt(v, m.task, m.attempt) /\ m.task \in Tasks
      BY <1>11, <2>3
    <3>2. QED
      BY <1>0, <1>5, <2>1, <3>1 DEF OnAttempt, OneHeld, HeldTasks
  <2>4. ASSUME NEW m \in WP!Msgs(s), m.type = "revoked" PROVE m.task # t
    BY <1>1, <2>1, <2>4 DEF SaysTo
  <2>5. QED
    BY <2>1, <2>2, <2>3, <2>4 DEF Overtaking, OnAttempt
<1>14. InOrder(v, t, n)'
  <2>1. Orderly(down'[v], Overtaking(t, n), Again(t, n))
    <3>1. CASE WP!Msgs(s) \cap Again(t, n) = {}
      BY <1>4, <1>6, <3>1 DEF Sound, InOrder
    <3>2. CASE WP!Msgs(s) \cap Again(t, n) # {}
      BY <1>4, <1>7, <1>12, <3>2 DEF Sound, InOrder
    <3>3. QED
      BY <3>1, <3>2
  <2>2. Orderly(down'[v], Offers(t, n), FirstOffer(t, n))
    <3>1. CASE WP!Msgs(s) \cap FirstOffer(t, n) = {}
      BY <1>4, <1>6, <3>1 DEF Sound, InOrder
    <3>2. CASE WP!Msgs(s) \cap FirstOffer(t, n) # {}
      <4>1. Before \cap Offers(t, n) = {}
        BY <1>9, <1>10, <3>2
      <4>2. \A x \in Offers(t, n) : x.type \in {"assigned", "resumed"}
        BY DEF Offers
      <4>3. Orderly(s, Offers(t, n), FirstOffer(t, n))
        BY <1>1, <4>2 DEF SaysTo
      <4>4. QED
        BY <1>4, <4>1, <4>3 DEF Sound, InOrder
    <3>3. QED
      BY <3>1, <3>2
  <2>3. InSlot(v, t, n)' => ~OnWire(v, FirstOffer(t, n))'
    BY <1>2, <1>8, <1>9, <1>10 DEF Sound, InOrder, InSlot
  <2>4. QED
    BY <2>1, <2>2, <2>3 DEF InOrder
<1>15. Wanted(v, t, n)'
  <2>1. (InSlot(v, t, n)' <=> InSlot(v, t, n)) /\ (Unconfirmed(v, t, n)' <=> Unconfirmed(v, t, n))
    BY <1>2 DEF InSlot, Unconfirmed
  <2>2. CASE OnAttempt(v, t, n) /\ WP!Msgs(s) \cap Overtaking(t, n) = {}
    BY <1>2, <1>4, <1>6, <1>8, <2>1, <2>2 DEF Sound, Wanted
  <2>3. CASE n = attempt[t] + 1
    <3>1. \A x \in Offers(t, n) : x.type \in {"assigned", "resumed"}
      BY DEF Offers
    <3>2. Orderly(s, Offers(t, n), Overtaking(t, n)) /\ Orderly(down[v], Offers(t, n), Overtaking(t, n))
      <4>1. Orderly(s, Offers(t, n), Overtaking(t, n))
        BY <1>1, <3>1 DEF SaysTo
      <4>2. QED
        BY <1>10, <2>3, <4>1, <1>3, LenProperties DEF Orderly, Before, WP!Msgs
    <3>3. QED
      BY <1>4, <1>10, <2>1, <2>3, <3>2 DEF Wanted
  <2>4. QED
    BY <1>13, <2>2, <2>3 DEF Wanted
<1>16. Over(v, t, n)'
  <2>1. (InSlot(v, t, n)' <=> InSlot(v, t, n)) /\ (Unconfirmed(v, t, n)' <=> Unconfirmed(v, t, n))
    BY <1>2 DEF InSlot, Unconfirmed
  <2>2. <<t, n>> \in produced => n # attempt[t] + 1
    BY <1>10
  <2>3. <<t, n>> \in produced => n <= attempt[t] /\ n <= attempt'[t]
    BY <1>0, <1>5 DEF Sound, Over
  <2>4. <<t, n>> \in produced => ~OnWire(v, FirstOffer(t, n))'
    BY <1>8, <1>9, <2>2 DEF Sound, Over
  <2>5. <<t, n>> \in produced /\ OnAttempt(v, t, n)' => Unconfirmed(v, t, n)
    BY <1>13, <2>2 DEF Sound, Over
  <2>6. <<t, n>> \in produced /\ OnWire(v, Again(t, n))' => Unconfirmed(v, t, n) /\ slot[v].task = NoTask
    <3>1. CASE OnWire(v, Again(t, n))
      BY <3>1 DEF Sound, Over
    <3>2. CASE WP!Msgs(s) \cap Again(t, n) # {}
      <4>1. OnAttempt(v, t, n)
        BY <1>12, <3>2
      <4>2. QED
        BY <4>1 DEF Sound, Over, Wanted
    <3>3. QED
      BY <1>8, <3>1, <3>2
  <2>7. QED
    BY <1>2, <2>1, <2>3, <2>4, <2>5, <2>6 DEF Sound, Over
<1>17. QED
  BY <1>14, <1>15, <1>16 DEF Sound
\* Losing messages, or opening a connection, changes nothing of this.
LEMMA SoundRelinks ==
  ASSUME W!WorkerTypeOK, Relinks, NEW v \in Workers, NEW t \in Tasks, NEW n \in W!Attempts, Sound(v, t, n)
  PROVE  Sound(v, t, n)'
<1>1. Shrinks(down'[v], down[v])
  BY Shrinking DEF Relinks, W!WorkerTypeOK
<1>2. /\ attempt'[t] = attempt[t] /\ (OnAttempt(v, t, n)' => OnAttempt(v, t, n))
      /\ <<t, n>> \in produced' <=> <<t, n>> \in produced
      /\ slot'[v] = slot[v] /\ unconf'[v] = unconf[v]
  BY DEF Relinks, runs, OnAttempt, Held, IsActive
<1>3. QED
  BY <1>1, <1>2, SoundStays

\* At first no worker knows of anything.
LEMMA KnowsNothing == FleetInit => Named /\ SoundInv
<1> SUFFICES ASSUME FleetInit PROVE Named /\ SoundInv
  OBVIOUS
<1>1. \A w \in Workers, t \in Tasks, n \in W!Attempts :
        ~InSlot(w, t, n) /\ ~Unconfirmed(w, t, n) /\ ~OnAttempt(w, t, n) /\ <<t, n>> \notin produced
  BY FleetAssumption DEF FleetInit, Init, W!WorkerInit, W!WorkerAssumption, W!NoSlot, W!NoOutcome, InSlot, Unconfirmed, WP!IsOn,
     OnAttempt, Held, IsActive, Active
<1>2. \A w \in Workers : WP!Msgs(down[w]) = {} /\ \A A, B : Orderly(down[w], A, B)
  BY OneOrNone DEF FleetInit, W!WorkerInit, Orderly
<1>3. \A w \in Workers : \A B : ~OnWire(w, B)
  BY <1>2 DEF OnWire
<1>4. Named
  BY <1>1, <1>3 DEF Named, Knows
<1>5. ASSUME NEW w \in Workers, NEW t \in Tasks, NEW n \in W!Attempts PROVE Sound(w, t, n)
  <2>1. InOrder(w, t, n)
    BY <1>1, <1>2 DEF InOrder
  <2>2. Wanted(w, t, n) /\ Over(w, t, n)
    BY <1>1 DEF Wanted, Over
  <2>3. QED
    BY <2>1, <2>2 DEF Sound
<1>6. QED
  BY <1>4, <1>5 DEF SoundInv

\* Every step keeps the order of things.
LEMMA SoundStep ==
  ASSUME GroundInv, Named, SoundInv, [FleetNext]_fleetVars
  PROVE  SoundInv'
<1> SUFFICES ASSUME NEW v \in Workers, NEW t \in Tasks, NEW n \in W!Attempts PROVE Sound(v, t, n)'
  BY DEF SoundInv
<1>1. Sound(v, t, n) /\ W!WorkerTypeOK /\ HandsOver
  BY GroundStep DEF SoundInv
<1>2. CASE UNCHANGED fleetVars
  BY <1>1, <1>2
     DEF fleetVars, vars, rows, counters, W!workerVars, W!state, W!wires, runs, Sound, InOrder, Wanted, Over, OnWire, InSlot,
         Unconfirmed, OnAttempt, Held, IsActive
<1>3. CASE Talks
  BY <1>1, <1>3, SoundTalks
<1>4. CASE Relinks
  BY <1>1, <1>4, SoundRelinks
<1>5. ASSUME NEW w \in Workers, WorkerActs(w) PROVE Sound(v, t, n)'
  <2>1. /\ UNCHANGED <<vars, taken>> /\ WP!OnlyFor(w)
        /\ \/ WP!Ends(w) /\ produced' = produced \cup {<<slot[w].task, slot[w].attempt>>}
           \/ Goes(w) /\ UNCHANGED produced
    BY <1>1, <1>5, WorkerGoes
  <2>2. QED
    BY <1>1, <2>1, SoundEnds, SoundGoes
<1>6. QED
  BY <1>2, <1>3, <1>4, <1>5, GroundStep

\* All of it holds in every run of the fleet.
LEMMA SoundHolds == FleetSpec => [](GroundInv /\ Named /\ SoundInv)
<1>1. GroundInv /\ Named /\ SoundInv /\ [FleetNext]_fleetVars => GroundInv' /\ Named' /\ SoundInv'
  BY GroundStep, NamedStep, SoundStep
<1>2. FleetInit => GroundInv /\ Named /\ SoundInv
  BY GroundStarts, KnowsNothing
<1>3. QED
  BY <1>1, <1>2, PTL DEF FleetSpec

-----------------------------------------------------------------------------
(* What a worker keeps.                                                    *)

\* A worker changes the outcome it has kept when it hears that the hub has moved on, or when it
\* is busy with another task.
LEMMA ChangesOutcome ==
  ASSUME W!WorkerTypeOK, NEW w \in Workers, WorkerActs(w), NEW v \in Workers, unconf'[v] # unconf[v],
         NEW t \in Tasks, NEW n \in W!Attempts, Unconfirmed(v, t, n)
  PROVE  slot[v].task # NoTask \/ OnWire(v, Overtaking(t, n))
<1>0. NoTask \notin Tasks
  BY FleetAssumption DEF W!WorkerAssumption
<1>1. v = w /\ (Goes(w) \/ WP!Ends(w))
  BY WorkerGoes DEF WP!OnlyFor, WP!SameWork
<1>2. ASSUME down[w] # <<>>, down[w][1] \in Overtaking(t, n) PROVE OnWire(v, Overtaking(t, n))
  BY <1>1, <1>2, HeardFirst DEF OnWire
<1>3. ASSUME NEW u \in Tasks, WP!LosesTask(w, u) PROVE OnWire(v, Overtaking(t, n))
  <2>1. down[w] # <<>> /\ down[w][1].type = "revoked" /\ down[w][1].task = u /\ unconf[w].task = u
    BY <1>1, <1>3 DEF WP!LosesTask, WP!Heard
  <2>2. down[w][1] \in Overtaking(t, n)
    BY <1>1, <2>1, HeardFirst DEF Overtaking, Unconfirmed, WP!IsOn
  <2>3. QED
    BY <1>2, <2>1, <2>2
<1>4. ASSUME NEW u \in Tasks, NEW k \in W!Attempts, NEW type \in {"assigned", "resumed"}, WP!Considers(w, type, u, k)
      PROVE  OnWire(v, Overtaking(t, n))
  <2>1. /\ down[w] # <<>> /\ down[w][1].type = type /\ down[w][1].task = u /\ down[w][1].attempt = k
        /\ unconf[w].task = u /\ unconf[w].attempt # k
    BY <1>1, <1>4 DEF WP!Considers, WP!Heard, WP!IsOn, WP!SameWork
  <2>2. down[w][1] \in Overtaking(t, n)
    BY <1>1, <2>1, HeardFirst DEF Overtaking, Unconfirmed, WP!IsOn
  <2>3. QED
    BY <1>2, <2>1, <2>2
<1>5. CASE WP!Drops(w) \/ WP!Begins(w) \/ WP!Ends(w)
  BY <1>0, <1>1, <1>5 DEF WP!Drops, WP!Begins, WP!Ends, W!WorkerTypeOK, W!Slots, W!NoSlot
<1>6. CASE WP!Registers(w) \/ WP!Waits(w) \/ WP!LosesLink(w) \/ WP!Starts(w) \/ WP!Stops(w) \/ WP!CutsLink(w)
  BY <1>1, <1>6 DEF WP!Registers, WP!Waits, WP!LosesLink, WP!Starts, WP!Stops, WP!CutsLink, WP!SameWork
<1>7. QED
  BY <1>1, <1>3, <1>4, <1>5, <1>6 DEF Goes

\* A worker that takes up a new task, or is told that one is taken back, never drops an outcome
\* the hub still waits for, whatever has crossed it or been lost on the way.
THEOREM NothingUnconfirmedDroppedHolds == FleetSpec => NothingUnconfirmedDropped
<1>1. ASSUME GroundInv, SoundInv, [FleetNext]_fleetVars,
             NEW w \in Workers, unconf[w] # W!NoOutcome, unconf'[w] # unconf[w]
      PROVE  ~OnAttempt(w, unconf[w].task, unconf[w].attempt)
  <2>1. W!WorkerTypeOK
    BY <1>1, GroundStep
  <2>2. PICK v \in Workers : WorkerActs(v)
    <3>1. ~UNCHANGED fleetVars /\ ~Talks /\ ~Relinks
      BY <1>1 DEF fleetVars, W!workerVars, W!state, Talks, Relinks
    <3>2. QED
      BY <1>1, <3>1, GroundStep
  <2>3. PICK t \in Tasks, n \in W!Attempts : unconf[w].task = t /\ unconf[w].attempt = n
    BY <1>1, <2>1 DEF W!WorkerTypeOK, W!Outcomes
  <2>4. Unconfirmed(w, t, n)
    BY <2>3 DEF Unconfirmed, WP!IsOn
  <2>5. slot[w].task # NoTask \/ OnWire(w, Overtaking(t, n))
    BY <1>1, <2>1, <2>2, <2>4, ChangesOutcome
  <2>6. QED
    BY <1>1, <2>3, <2>4, <2>5 DEF SoundInv, Sound, Wanted
<1>2. GroundInv /\ SoundInv /\ [FleetNext]_fleetVars =>
        [\A w \in Workers : unconf[w] # W!NoOutcome /\ unconf'[w] # unconf[w] =>
           ~OnAttempt(w, unconf[w].task, unconf[w].attempt)]_fleetVars
  BY <1>1
<1>3. QED
  BY <1>2, SoundHolds, PTL DEF FleetSpec, NothingUnconfirmedDropped
-----------------------------------------------------------------------------
(* Outcomes, from the run to the hub.                                      *)

Verdicts == {"completed", "failed", "quota"}

\* The reports with which an attempt ends for the hub.
Reports == Verdicts \cup {"decline", "busydecline"}

\* What w reports, and will report, is the outcome of an attempt that has one.
Backed(w) ==
  \A m \in WP!Msgs(up[w]) \cup WP!Msgs(queue[w]) : m.type \in Verdicts => <<m.task, m.attempt>> \in produced

\* An attempt is begun, then has an outcome, then is over for the hub, in this order.
BookInv ==
  /\ begun \subseteq Tasks \X W!Attempts /\ produced \subseteq begun /\ taken \subseteq produced
  /\ \A w \in Workers : Backed(w) /\ (slot[w].stage = "run" => <<slot[w].task, slot[w].attempt>> \in begun)
  /\ \A t \in Tasks, n \in W!Attempts : <<t, n>> \in taken => n <= attempt[t] /\ ~(n = attempt[t] /\ IsActive(t))

\* Sending adds what it sends, now or once it is registered.
LEMMA SendsBacked ==
  ASSUME NEW w \in Workers, NEW R, WP!Sends(w, R), Backed(w), produced \subseteq produced',
         \A m \in R : m.type \in Verdicts => <<m.task, m.attempt>> \in produced'
  PROVE  Backed(w)'
BY DEF WP!Sends, WP!Gains, WP!Words, Verdicts, Backed

\* A worker reports the outcome it has just come to, or the one it has kept.
LEMMA WorkBacked ==
  ASSUME W!WorkerTypeOK, SoundInv, NEW w \in Workers, WorkerActs(w), NEW v \in Workers, Backed(v)
  PROVE  Backed(v)'
<1>1. /\ WP!OnlyFor(w)
      /\ \/ WP!Ends(w) /\ produced' = produced \cup {<<slot[w].task, slot[w].attempt>>}
         \/ Goes(w) /\ UNCHANGED produced
  BY WorkerGoes
<1>2. CASE v # w
  BY <1>1, <1>2 DEF WP!OnlyFor, WP!SameWires, Backed
<1>3. CASE v = w
  <2>0. WP!Msgs(<<>>) = {}
    BY OneOrNone
  <2>1. CASE WP!Ends(w) /\ produced' = produced \cup {<<slot[w].task, slot[w].attempt>>}
    <3>1. PICK kind \in Verdicts :
            WP!Sends(w, {[type |-> kind, task |-> slot[w].task, attempt |-> slot[w].attempt]})
      BY <2>1 DEF WP!Ends, Verdicts
    <3>2. QED
      BY <1>3, <2>1, <3>1, SendsBacked
  <2>2. ASSUME NEW u \in Tasks, NEW k \in W!Attempts, NEW type, WP!Considers(w, type, u, k), UNCHANGED produced
        PROVE  Backed(v)'
    <3>1. CASE WP!SameWires(w)
      BY <1>3, <2>2, <3>1 DEF WP!SameWires, Backed
    <3>2. CASE WP!Sends(w, {[type |-> "busydecline", task |-> u, attempt |-> k]})
      BY <1>3, <2>2, <3>2, SendsBacked DEF Verdicts
    <3>3. CASE /\ WP!IsOn(unconf[w], u, k)
               /\ \E kind \in {"completed", "failed", "quota"} : WP!Sends(w, {[type |-> kind, task |-> u, attempt |-> k]})
      <4>1. <<u, k>> \in produced
        BY <3>3 DEF SoundInv, Sound, Over, Unconfirmed
      <4>2. QED
        BY <1>3, <2>2, <3>3, <4>1, SendsBacked
    <3>4. QED
      BY <2>2, <3>1, <3>2, <3>3 DEF WP!Considers
  <2>3. CASE WP!Registers(w) /\ UNCHANGED produced
    BY <1>3, <2>0, <2>3 DEF WP!Registers, WP!SameWires, WP!Gains, WP!Words, Verdicts, Backed
  <2>4. CASE WP!Drops(w) /\ UNCHANGED produced
    <3>1. WP!Sends(w, {}) \/ \E kind \in {"decline", "busydecline"} :
            WP!Sends(w, {[type |-> kind, task |-> slot[w].task, attempt |-> slot[w].attempt]})
      BY <2>4 DEF WP!Drops
    <3>2. QED
      BY <1>3, <2>4, <3>1, SendsBacked DEF Verdicts
  <2>5. CASE (WP!Begins(w) \/ WP!Waits(w)) /\ UNCHANGED produced
    BY <1>3, <2>5, SendsBacked DEF WP!Begins, WP!Waits
  <2>6. CASE ((\E u \in Tasks : WP!LosesTask(w, u)) \/ WP!LosesLink(w) \/ WP!Stops(w)) /\ UNCHANGED produced
    BY <1>3, <2>6 DEF WP!LosesTask, WP!LosesLink, WP!Stops, WP!SameWires, Backed
  <2>7. CASE (WP!Starts(w) \/ WP!CutsLink(w)) /\ UNCHANGED produced
    BY <1>3, <2>0, <2>7 DEF WP!Starts, WP!CutsLink, Backed
  <2>8. QED
    BY <1>1, <2>1, <2>2, <2>3, <2>4, <2>5, <2>6, <2>7 DEF Goes
<1>4. QED
  BY <1>2, <1>3

\* A report the hub reads of an attempt it believes to be with the worker ends the attempt.
LEMMA ReportEnds ==
  ASSUME TypeOK, W!WorkerTypeOK, NEW w \in Workers, HubReads(w),
         NEW m, m = up[w][1], m.type \in Reports, OnAttempt(w, m.task, m.attempt)
  PROVE  attempt' = attempt /\ ~IsActive(m.task)'
<1>1. up[w] \in Seq(W!UpMsg) /\ up[w] # <<>>
  BY DEF HubReads, W!WorkerTypeOK
<1>2. m \in W!UpMsg /\ Handles(w, m)
  BY <1>1, HeadTailProperties, TailOrder DEF HubReads
<1>3. m.task \in Tasks /\ m.attempt \in W!Attempts
  BY <1>2 DEF Reports, Verdicts, W!UpMsg
<1>4. m.task # NoTask /\ Held(w, m.task) /\ Current(m.task, m.attempt)
  BY <1>2, <1>3, FleetAssumption DEF W!WorkerAssumption, OnAttempt, Current
<1>5. CASE m.type = "completed"
  <2>1. Finish(m.task, "completed")
    BY <1>2, <1>4, <1>5 DEF Handles, WorkerComplete
  <2>2. status' = [status EXCEPT ![m.task] = "review"] \/ status' = Complete(status, deps, m.task)
    BY <2>1 DEF Finish
  <2>3. ASSUME status' = Complete(status, deps, m.task) PROVE status'[m.task] = "completed"
    <3>1. LET c == Complete(status, deps, m.task) IN c[m.task] = "completed"
      BY <1>3, CompleteRow, RowTypes
    <3>2. QED
      BY <2>3, <3>1
  <2>4. status'[m.task] \in {"review", "completed"} /\ attempt' = attempt
    BY <1>3, <2>1, <2>2, <2>3 DEF TypeOK, Finish, counters
  <2>5. QED
    BY <2>4 DEF IsActive, Active
<1>6. CASE m.type \in Reports \ {"completed"}
  <2>1. ToPending(m.task) /\ attempt' = attempt
    BY <1>2, <1>4, <1>6
       DEF Handles, Reports, Verdicts, WorkerFail, QuotaExhausted, CountFailure, Decline, DeclineBusy, counters
  <2>2. status'[m.task] = "pending"
    BY <1>3, <2>1 DEF ToPending, TypeOK
  <2>3. QED
    BY <2>1, <2>2 DEF IsActive, Active
<1>7. QED
  BY <1>2, <1>5, <1>6

\* The hub takes an outcome in when it believes the attempt to be with the worker that reports
\* it; the attempt is then over.
LEMMA ReadTakes ==
  ASSUME TypeOK, LifeInv, W!WorkerTypeOK, NEW w \in Workers, HubReads(w)
  PROVE  \/ taken' = taken
         \/ \E t \in Tasks, n \in W!Attempts :
              /\ OnAttempt(w, t, n) /\ taken' = taken \cup {<<t, n>>} /\ attempt'[t] = attempt[t] /\ ~IsActive(t)'
              /\ \E m \in WP!Msgs(up[w]) : m.type \in Verdicts /\ m.task = t /\ m.attempt = n
<1>0. up[w] \in Seq(W!UpMsg) /\ up[w] # <<>>
  BY DEF HubReads, W!WorkerTypeOK
<1> DEFINE m == up[w][1]
<1>1. Head(up[w]) = m /\ m \in W!UpMsg /\ m \in WP!Msgs(up[w]) /\ Handles(w, m)
  BY <1>0, HeadTailProperties, TailOrder DEF HubReads
<1>2. taken' = IF m.type \in {"completed", "failed", "quota"} /\ OnAttempt(w, m.task, m.attempt)
               THEN taken \cup {<<m.task, m.attempt>>} ELSE taken
  BY <1>1 DEF HubReads
<1> HIDE DEF m
<1>3. CASE ~(m.type \in {"completed", "failed", "quota"} /\ OnAttempt(w, m.task, m.attempt))
  BY <1>2, <1>3
<1>4. CASE m.type \in {"completed", "failed", "quota"} /\ OnAttempt(w, m.task, m.attempt)
  <2>1. m.task \in Tasks /\ m.attempt \in W!Attempts
    BY <1>1, <1>4 DEF W!UpMsg
  <2>2. attempt' = attempt /\ \A t \in Tasks : t = m.task => ~IsActive(t)'
    <3>1. PICK x : x = up[w][1]
      OBVIOUS
    <3>2. attempt' = attempt /\ ~IsActive(x.task)'
      BY <1>4, <3>1, ReportEnds DEF m, Reports, Verdicts
    <3>3. QED
      BY <3>1, <3>2 DEF m
  <2>3. QED
    BY <1>1, <1>2, <1>4, <2>1, <2>2 DEF Verdicts
<1>5. QED
  BY <1>3, <1>4

\* The books stay right.
LEMMA BookStep ==
  ASSUME GroundInv, Named, SoundInv, BookInv, [FleetNext]_fleetVars
  PROVE  BookInv'
<1>1. /\ GroundInv' /\ HandsOver /\ [Next]_vars /\ W!WorkerTypeOK /\ W!WorkerTypeOK'
      /\ UNCHANGED fleetVars \/ Talks \/ Relinks \/ \E w \in Workers : WorkerActs(w)
      /\ TypeOK /\ LifeInv
  BY GroundStep DEF GroundInv, HubInv
<1>2. taken' = taken \/ \E w \in Workers : HubReads(w)
  BY DEF FleetNext, HubStep, Opens, HubCloses, NoticesHubGone, HubDies, WorkerActs, fleetVars, runs
<1>3. \/ taken' = taken
      \/ \E t \in Tasks, n \in W!Attempts :
           taken' = taken \cup {<<t, n>>} /\ <<t, n>> \in produced /\ n = attempt[t] /\ attempt'[t] = attempt[t] /\ ~IsActive(t)'
  <2>1. ASSUME NEW w \in Workers, NEW m \in WP!Msgs(up[w]), m.type \in Verdicts PROVE <<m.task, m.attempt>> \in produced
    BY <2>1 DEF BookInv, Backed
  <2>2. ASSUME NEW w \in Workers, HubReads(w), taken' # taken
        PROVE  \E t \in Tasks, n \in W!Attempts :
                 taken' = taken \cup {<<t, n>>} /\ <<t, n>> \in produced /\ n = attempt[t] /\ attempt'[t] = attempt[t] /\ ~IsActive(t)'
    <3>1. PICK t \in Tasks, n \in W!Attempts :
            /\ OnAttempt(w, t, n) /\ taken' = taken \cup {<<t, n>>} /\ attempt'[t] = attempt[t] /\ ~IsActive(t)'
            /\ \E m \in WP!Msgs(up[w]) : m.type \in Verdicts /\ m.task = t /\ m.attempt = n
      BY <1>1, <2>2, ReadTakes
    <3>2. <<t, n>> \in produced
      BY <2>1, <3>1
    <3>3. QED
      BY <3>1, <3>2 DEF OnAttempt
  <2>3. QED
    BY <1>2, <2>2
<1>4. ASSUME NEW t \in Tasks, NEW n \in W!Attempts, <<t, n>> \in taken'
      PROVE  n <= attempt'[t] /\ ~(n = attempt'[t] /\ IsActive(t)')
  <2>0. attempt[t] \in Nat /\ n \in Nat /\ (attempt'[t] = attempt[t] \/ attempt'[t] = attempt[t] + 1)
    BY <1>1 DEF TypeOK, HandsOver, W!Attempts
  <2>1. CASE <<t, n>> \in taken
    <3>1. n <= attempt[t] /\ ~(n = attempt[t] /\ IsActive(t))
      BY <2>1 DEF BookInv
    <3>2. CASE attempt'[t] = attempt[t]
      BY <1>1, <3>1, <3>2, OldHolder DEF IsActive
    <3>3. CASE attempt'[t] = attempt[t] + 1
      BY <2>0, <3>1, <3>3
    <3>4. QED
      BY <2>0, <3>2, <3>3
  <2>2. CASE <<t, n>> \notin taken
    <3>1. PICK u \in Tasks, k \in W!Attempts :
            taken' = taken \cup {<<u, k>>} /\ k = attempt[u] /\ attempt'[u] = attempt[u] /\ ~IsActive(u)'
      BY <1>3, <1>4, <2>2
    <3>2. u = t /\ k = n
      BY <1>4, <2>2, <3>1
    <3>3. QED
      BY <2>0, <3>1, <3>2
  <2>3. QED
    BY <2>1, <2>2
<1>5. CASE UNCHANGED fleetVars
  BY <1>5 DEF fleetVars, vars, rows, counters, W!workerVars, W!client, W!wires, runs, BookInv, Backed, IsActive
<1>6. CASE Talks \/ Relinks
  <2>1. slot' = slot /\ queue' = queue /\ begun' = begun /\ produced' = produced
    BY <1>6 DEF Talks, Relinks, runs
  <2>2. ASSUME NEW v \in Workers PROVE Backed(v)'
    <3>1. WP!Msgs(up'[v]) \subseteq WP!Msgs(up[v]) \/ up'[v] = <<W!RegisterMsg(W!Reported(v))>>
      <4>1. CASE Talks
        <5>1. up[v] \in Seq(W!UpMsg) /\ (up'[v] = up[v] \/ (up[v] # <<>> /\ up'[v] = Tail(up[v])))
          BY <1>1, <4>1 DEF Talks, Reads, W!WorkerTypeOK
        <5>2. QED
          BY <5>1, TailOrder
      <4>2. CASE Relinks
        <5>1. WP!Msgs(<<>>) = {}
          BY OneOrNone
        <5>2. QED
          BY <4>2, <5>1 DEF Relinks, Relinked
      <4>3. QED
        BY <1>6, <4>1, <4>2
    <3>2. ASSUME NEW x PROVE WP!Msgs(<<x>>) = {x}
      BY OneOrNone
    <3>3. \A x \in WP!Msgs(up'[v]) : x \in WP!Msgs(up[v]) \/ x.type = "register"
      BY <3>1, <3>2 DEF W!RegisterMsg
    <3>4. QED
      BY <2>1, <3>3 DEF BookInv, Backed, Verdicts
  <2>3. QED
    BY <1>3, <1>4, <2>1, <2>2 DEF BookInv
<1>7. ASSUME NEW w \in Workers, WorkerActs(w) PROVE BookInv'
  <2>1. /\ WP!OnlyFor(w)
        /\ \/ WP!Ends(w) /\ produced' = produced \cup {<<slot[w].task, slot[w].attempt>>}
           \/ Goes(w) /\ UNCHANGED produced
    BY <1>1, <1>7, WorkerGoes
  <2>2. begun' = IF slot'[w].stage = "run" THEN begun \cup {<<slot'[w].task, slot'[w].attempt>>} ELSE begun
    BY <1>7 DEF WorkerActs
  <2>3. slot'[w].stage = "run" => slot'[w].task \in Tasks /\ slot'[w].attempt \in W!Attempts
    BY <1>1 DEF W!WorkerTypeOK, W!Slots, W!NoSlot
  <2>4. begun' \subseteq Tasks \X W!Attempts /\ produced' \subseteq begun' /\ taken' = taken
    BY <1>7, <2>1, <2>2, <2>3 DEF BookInv, WP!Ends, WorkerActs
  <2>5. \A v \in Workers : slot'[v].stage = "run" => <<slot'[v].task, slot'[v].attempt>> \in begun'
    BY <2>1, <2>2 DEF BookInv, WP!OnlyFor, WP!SameWork
  <2>6. \A v \in Workers : Backed(v)'
    BY <1>1, <1>7, WorkBacked DEF BookInv
  <2>7. produced \subseteq produced'
    BY <2>1
  <2>8. QED
    BY <1>4, <2>4, <2>5, <2>6, <2>7 DEF BookInv
<1>8. QED
  BY <1>1, <1>5, <1>6, <1>7

\* At first nothing has been begun.
LEMMA NothingBegun == FleetInit => BookInv
<1> SUFFICES ASSUME FleetInit PROVE BookInv
  OBVIOUS
<1>1. begun = {} /\ produced = {} /\ taken = {}
  BY DEF FleetInit
<1>2. \A w \in Workers : WP!Msgs(up[w]) = {} /\ WP!Msgs(queue[w]) = {} /\ slot[w].stage = "none"
  BY OneOrNone DEF FleetInit, W!WorkerInit, W!NoSlot
<1>3. QED
  BY <1>1, <1>2 DEF BookInv, Backed

\* All of it holds in every run of the fleet.
LEMMA BookHolds == FleetSpec => [](GroundInv /\ Named /\ SoundInv /\ BookInv)
<1>1. GroundInv /\ Named /\ SoundInv /\ BookInv /\ [FleetNext]_fleetVars => GroundInv' /\ Named' /\ SoundInv' /\ BookInv'
  BY GroundStep, NamedStep, SoundStep, BookStep
<1>2. FleetInit => GroundInv /\ Named /\ SoundInv /\ BookInv
  BY GroundStarts, KnowsNothing, NothingBegun
<1>3. QED
  BY <1>1, <1>2, PTL DEF FleetSpec

\* Every variable of the hub, the workers and the wires keeps its type; an outcome is that of an
\* attempt some worker has begun, and only such an outcome is taken in.
THEOREM FleetTypeCorrect == FleetSpec => []FleetTypeOK
<1>1. GroundInv /\ BookInv => FleetTypeOK
  BY SameTerms DEF GroundInv, HubInv, WP!WorkerInv, BookInv, FleetTypeOK
<1>2. QED
  BY <1>1, BookHolds, PTL

-----------------------------------------------------------------------------
(* The fleet runs errands.                                                 *)

Handed  == {e \in Tasks \X (1..MaxAttempt) : e[2] <= attempt[e[1]]}
Running == {<<slot[w].task, slot[w].attempt>> : w \in {x \in Workers : slot[x].stage = "run"}}

\* What a step of one worker does to the runs under way.
LEMMA RunsMove ==
  ASSUME W!WorkerTypeOK, Named, NEW w \in Workers, WP!OnlyFor(w)
  PROVE  /\ slot[w].stage = "run" /\ slot'[w].stage # "run" =>
              Running' = Running \ {<<slot[w].task, slot[w].attempt>>}
         /\ slot[w].stage # "run" /\ slot'[w].stage = "run" =>
              Running' = Running \cup {<<slot'[w].task, slot'[w].attempt>>}
         /\ \/ slot[w].stage # "run" /\ slot'[w].stage # "run"
            \/ slot[w].task = slot'[w].task /\ slot[w].attempt = slot'[w].attempt /\ slot[w].stage = slot'[w].stage
            => Running' = Running
<1> DEFINE At(v)  == <<slot[v].task, slot[v].attempt>>
           Aft(v) == <<slot'[v].task, slot'[v].attempt>>
<1>1. \A v \in Workers \ {w} : slot'[v] = slot[v]
  BY DEF WP!OnlyFor, WP!SameWork
<1>2. (\A e : e \in Running <=> \E v \in Workers : slot[v].stage = "run" /\ e = At(v))
  BY DEF Running
<1>3. (\A e : e \in Running' <=> \E v \in Workers : slot'[v].stage = "run" /\ e = Aft(v))
  BY DEF Running
<1>4. ASSUME slot[w].stage = "run", NEW v \in Workers, v # w, slot[v].stage = "run"
      PROVE  At(v) # At(w)
  <2>1. slot[w].task \in Tasks /\ slot[w].attempt \in W!Attempts
    BY <1>4 DEF W!WorkerTypeOK, W!Slots, W!NoSlot
  <2>2. At(v) = At(w) => Knows(v, slot[w].task, slot[w].attempt) /\ Knows(w, slot[w].task, slot[w].attempt)
    BY DEF Knows, InSlot, WP!IsOn
  <2>3. QED
    BY <1>4, <2>1, <2>2 DEF Named
<1> HIDE DEF Running
<1>5. CASE slot[w].stage = "run" /\ slot'[w].stage # "run"
  <2>1. \A e : e \in Running' <=> e \in Running /\ e # At(w)
    BY <1>1, <1>2, <1>3, <1>4, <1>5
  <2>2. QED
    BY <1>5, <2>1
<1>6. CASE slot[w].stage # "run" /\ slot'[w].stage = "run"
  <2>1. \A e : e \in Running' <=> e \in Running \/ e = Aft(w)
    BY <1>1, <1>2, <1>3, <1>6
  <2>2. QED
    BY <1>6, <2>1
<1>7. CASE \/ slot[w].stage # "run" /\ slot'[w].stage # "run"
           \/ slot[w].task = slot'[w].task /\ slot[w].attempt = slot'[w].attempt /\ slot[w].stage = slot'[w].stage
  <2>1. \A e : e \in Running' <=> e \in Running
    BY <1>1, <1>2, <1>3, <1>7
  <2>2. QED
    BY <1>7, <2>1
<1>8. QED
  BY <1>5, <1>6, <1>7

\* A worker's slot stays on its attempt, is freed, or takes one up to check it or to run it.
LEMMA SlotGoes ==
  ASSUME W!WorkerTypeOK, NEW w \in Workers, Goes(w)
  PROVE  \/ slot'[w].task = slot[w].task /\ slot'[w].attempt = slot[w].attempt /\ slot'[w].stage = slot[w].stage
         \/ slot'[w].stage # "run" /\ (slot[w].stage # "run" \/ slot'[w] = WP!NoSlot)
         \/ WP!Begins(w)
<1>1. CASE \E u \in Tasks : WP!LosesTask(w, u)
  BY <1>1, SlotMarked DEF WP!LosesTask
<1>2. ASSUME NEW u \in Tasks, NEW k \in W!Attempts, NEW type, WP!Considers(w, type, u, k)
      PROVE  slot'[w] = slot[w] \/ (slot[w].task = NoTask /\ slot'[w].stage # "run")
  BY <1>2 DEF WP!Considers, WP!SameWork
<1>3. slot[w].task = NoTask => slot[w].stage # "run"
  BY FleetAssumption DEF W!WorkerAssumption, W!WorkerTypeOK, W!Slots, W!NoSlot
<1>4. CASE WP!Drops(w) \/ WP!Starts(w)
  BY <1>4 DEF WP!Drops, WP!Starts, WP!NoSlot
<1>5. CASE WP!Stops(w)
  BY <1>5, SlotMarked DEF WP!Stops
<1>6. CASE WP!Registers(w) \/ WP!Waits(w) \/ WP!LosesLink(w) \/ WP!CutsLink(w)
  BY <1>6 DEF WP!Registers, WP!Waits, WP!LosesLink, WP!CutsLink, WP!SameWork
<1>7. QED
  BY <1>1, <1>2, <1>3, <1>4, <1>5, <1>6 DEF Goes

\* What a worker does is a step of an errand, or of none.
LEMMA WorkErrands ==
  ASSUME GroundInv, Named, SoundInv, NEW w \in Workers, WorkerActs(w)
  PROVE  [Errands!Next]_(Errands!errandVars)
<1>1. W!WorkerTypeOK /\ TypeOK
  BY SameTerms DEF GroundInv, HubInv, WP!WorkerInv
<1>2. /\ UNCHANGED <<vars, taken>> /\ WP!OnlyFor(w)
      /\ \/ WP!Ends(w) /\ produced' = produced \cup {<<slot[w].task, slot[w].attempt>>}
         \/ Goes(w) /\ UNCHANGED produced
  BY <1>1, WorkerGoes
<1>3. Handed' = Handed
  BY <1>2 DEF vars, rows, counters, Handed
<1>4. slot[w].stage # "none" => /\ slot[w].task \in Tasks /\ slot[w].attempt \in W!Attempts
                                /\ <<slot[w].task, slot[w].attempt>> \in Tasks \X (1..MaxAttempt)
  BY <1>1 DEF W!WorkerTypeOK, W!Slots, W!NoSlot, W!Attempts
<1>5. slot[w].stage # "none" => InSlot(w, slot[w].task, slot[w].attempt)
  BY DEF InSlot, WP!IsOn
<1>6. slot[w].stage = "run" => <<slot[w].task, slot[w].attempt>> \in Running
  BY DEF Running
<1>7. CASE WP!Ends(w) /\ produced' = produced \cup {<<slot[w].task, slot[w].attempt>>}
  <2>1. slot[w].stage = "run" /\ slot'[w].stage # "run"
    BY <1>7 DEF WP!Ends, WP!NoSlot
  <2>2. Running' = Running \ {<<slot[w].task, slot[w].attempt>>}
    BY <1>1, <1>2, <2>1, RunsMove
  <2>3. PICK e \in Tasks \X (1..MaxAttempt) : e = <<slot[w].task, slot[w].attempt>>
    BY <1>4, <2>1
  <2>4. Errands!Produce(e)
    BY <1>2, <1>3, <1>6, <1>7, <2>1, <2>2, <2>3 DEF Errands!Produce, Handed, Running
  <2>5. QED
    BY <2>4 DEF Errands!Next
<1>8. CASE Goes(w) /\ UNCHANGED produced
  <2>1. CASE \/ slot'[w].task = slot[w].task /\ slot'[w].attempt = slot[w].attempt /\ slot'[w].stage = slot[w].stage
             \/ slot'[w].stage # "run" /\ slot[w].stage # "run"
    <3>1. Running' = Running
      BY <1>1, <1>2, <2>1, RunsMove
    <3>2. QED
      BY <1>2, <1>3, <1>8, <3>1 DEF Errands!errandVars, Handed, Running
  <2>2. CASE slot[w].stage = "run" /\ slot'[w].stage # "run"
    <3>1. Running' = Running \ {<<slot[w].task, slot[w].attempt>>}
      BY <1>1, <1>2, <2>2, RunsMove
    <3>2. PICK e \in Tasks \X (1..MaxAttempt) : e = <<slot[w].task, slot[w].attempt>>
      BY <1>4, <2>2
    <3>3. Errands!Abandon(e)
      BY <1>2, <1>3, <1>6, <1>8, <2>2, <3>1, <3>2 DEF Errands!Abandon, Handed, Running
    <3>4. QED
      BY <3>3 DEF Errands!Next
  <2>3. CASE WP!Begins(w)
    <3>1. /\ slot[w].stage = "check" /\ slot'[w].stage = "run"
          /\ slot'[w].task = slot[w].task /\ slot'[w].attempt = slot[w].attempt
      BY <1>1, <2>3, SlotMarked DEF WP!Begins
    <3>2. Running' = Running \cup {<<slot[w].task, slot[w].attempt>>}
      BY <1>1, <1>2, <3>1, RunsMove
    <3>3. <<slot[w].task, slot[w].attempt>> \notin produced
      BY <1>4, <1>5, <3>1 DEF SoundInv, Sound, Over
    <3>4. slot[w].attempt <= attempt[slot[w].task]
      BY <1>4, <1>5, <3>1 DEF Named, Knows
    <3>5. PICK e \in Tasks \X (1..MaxAttempt) : e = <<slot[w].task, slot[w].attempt>>
      BY <1>4, <3>1
    <3>6. Errands!Begin(e)
      BY <1>2, <1>3, <1>8, <3>2, <3>3, <3>4, <3>5 DEF Errands!Begin, Handed, Running
    <3>7. QED
      BY <3>6 DEF Errands!Next
  <2>4. QED
    BY <1>1, <1>8, <2>1, <2>2, <2>3, SlotGoes DEF WP!NoSlot
<1>9. QED
  BY <1>2, <1>7, <1>8

\* So is what the hub does: it hands out, or takes in, or neither.
LEMMA HubErrands ==
  ASSUME GroundInv, BookInv, Talks, FleetNext
  PROVE  [Errands!Next]_(Errands!errandVars)
<1>1. /\ HandsOver /\ W!WorkerTypeOK /\ TypeOK /\ LifeInv
      /\ taken' = taken \/ \E w \in Workers : HubReads(w)
  BY GroundStep
     DEF GroundInv, HubInv, FleetNext, HubStep, Opens, HubCloses, NoticesHubGone, HubDies, WorkerActs, runs
<1>2. Running' = Running /\ produced' = produced
  BY DEF Talks, Running
<1>3. \A t \in Tasks : attempt[t] \in Nat /\ (attempt'[t] = attempt[t] \/ attempt'[t] = attempt[t] + 1)
  BY <1>1 DEF TypeOK, HandsOver
<1>4. MaxAttempt \in Nat
  BY FleetAssumption DEF W!WorkerAssumption
<1>5. \A e : e \in Handed <=> e \in Tasks \X (1..MaxAttempt) /\ e[2] <= attempt[e[1]]
  BY DEF Handed
<1>6. CASE taken' = taken
  <2> DEFINE S == Handed' \ Handed
  <2>1. Handed \subseteq Handed'
    <3> SUFFICES ASSUME NEW e \in Handed PROVE e \in Handed'
      OBVIOUS
    <3>1. e \in Tasks \X (1..MaxAttempt) /\ e[1] \in Tasks /\ e[2] \in Nat /\ e[2] <= attempt[e[1]]
      BY <1>4 DEF Handed
    <3>2. e[2] <= attempt'[e[1]]
      BY <1>3, <3>1
    <3>3. QED
      BY <3>1, <3>2 DEF Handed
  <2>2. S \subseteq (Tasks \X (1..MaxAttempt)) \ Handed
    BY DEF Handed
  <2>3. ASSUME NEW e \in S, NEW d \in Handed, d[1] = e[1] PROVE d[2] <= e[2]
    <3>1. /\ e \in Tasks \X (1..MaxAttempt) /\ d \in Tasks \X (1..MaxAttempt)
          /\ d[2] <= attempt[d[1]] /\ ~(e[2] <= attempt[e[1]])
      BY <2>3, <1>5, <2>2
    <3>2. e[1] \in Tasks /\ e[2] \in Nat /\ d[2] \in Nat
      BY <1>4, <3>1
    <3>3. QED
      BY <1>3, <2>3, <3>1, <3>2
  <2>4. Handed' = Handed \cup S
    BY <2>1
  <2>5. PICK T \in SUBSET ((Tasks \X (1..MaxAttempt)) \ Handed) : T = S
    BY <2>2
  <2> HIDE DEF S
  <2>6. Errands!HandOut(T)
    BY <1>2, <1>6, <2>3, <2>4, <2>5 DEF Errands!HandOut, Errands!Newest, Handed, Running
  <2>7. QED
    BY <2>6 DEF Errands!Next, Handed
<1>7. ASSUME NEW w \in Workers, HubReads(w), taken' # taken
      PROVE  [Errands!Next]_(Errands!errandVars)
  <2>1. PICK t \in Tasks, n \in W!Attempts :
          /\ OnAttempt(w, t, n) /\ taken' = taken \cup {<<t, n>>}
          /\ \E m \in WP!Msgs(up[w]) : m.type \in Verdicts /\ m.task = t /\ m.attempt = n
    BY <1>1, <1>7, ReadTakes
  <2>2. <<t, n>> \in produced \ taken
    BY <2>1 DEF BookInv, Backed, OnAttempt, Held
  <2>3. attempt' = attempt
    BY <1>1, <1>7, ReadingActs
  <2>4. \A d \in Handed : d[1] = t => d[2] <= n
    BY <2>1 DEF Handed, OnAttempt
  <2>5. Handed' = Handed
    BY <2>3 DEF Handed
  <2>6. Errands!TakeIn(<<t, n>>)
    BY <1>2, <2>1, <2>2, <2>4, <2>5 DEF Errands!TakeIn, Errands!Newest, Handed, Running
  <2>7. <<t, n>> \in Tasks \X (1..MaxAttempt)
    BY <2>1 DEF W!Attempts
  <2>8. QED
    BY <2>6, <2>7 DEF Errands!Next
<1>8. QED
  BY <1>1, <1>6, <1>7

\* Whatever is lost, repeated or late between them, the hub and the workers treat each attempt as
\* Errand says: one with an outcome is not begun again, and its outcome is taken in at most once,
\* while it is the newest attempt of its task.
THEOREM FleetRunsErrands == FleetSpec => ErrandSpec
<1>1. FleetInit => Errands!Init
  <2> SUFFICES ASSUME FleetInit PROVE Errands!Init
    OBVIOUS
  <2>1. begun = {} /\ produced = {} /\ taken = {} /\ attempt = [t \in Tasks |-> 0]
    BY DEF FleetInit, Init
  <2>2. \A w \in Workers : slot[w].stage = "none"
    BY DEF FleetInit, W!WorkerInit, W!NoSlot
  <2>3. Running = {}
    BY <2>2 DEF Running
  <2>4. Handed = {}
    BY <2>1, FleetAssumption DEF Handed, W!WorkerAssumption
  <2>5. QED
    BY <2>1, <2>3, <2>4 DEF Errands!Init, Handed, Running
<1>2. GroundInv /\ Named /\ SoundInv /\ BookInv /\ [FleetNext]_fleetVars => [Errands!Next]_(Errands!errandVars)
  <2> SUFFICES ASSUME GroundInv, Named, SoundInv, BookInv, [FleetNext]_fleetVars
               PROVE  [Errands!Next]_(Errands!errandVars)
    OBVIOUS
  <2>1. CASE UNCHANGED fleetVars
    BY <2>1 DEF fleetVars, vars, rows, counters, W!workerVars, runs, Errands!errandVars
  <2>2. CASE Relinks
    BY <2>2 DEF Relinks, runs, Errands!errandVars
  <2>3. QED
    BY <2>1, <2>2, GroundStep, WorkErrands, HubErrands
<1>3. QED
  BY <1>1, <1>2, BookHolds, PTL DEF FleetSpec, ErrandSpec, Errands!Spec

-----------------------------------------------------------------------------
(* What a worker comes back with.                                          *)

\* The task a worker registers with is the one it is on or has an outcome for, if the hub still
\* counts on that attempt.
Declared(v) ==
  \A m \in WP!Msgs(up[v]) : m.type = "register" =>
    \A t \in Tasks, n \in W!Attempts :
      OnAttempt(v, t, n) /\ (InSlot(v, t, n) \/ Unconfirmed(v, t, n)) => m.task = t

\* What a restarted worker is charged with failing it knows nothing of.
Charged(x) == x.op = "fail" => x.agent \in Workers /\ (x.attempt \in W!Attempts => ~Knows(x.agent, x.task, x.attempt))

KeptInv == (\A v \in Workers : Declared(v)) /\ (\A x \in todo : Charged(x))

\* registerPayload names the task whose attempt the hub counts on.
LEMMA NamesItsTask ==
  ASSUME W!WorkerTypeOK, NEW v \in Workers, NEW t \in Tasks, NEW n \in W!Attempts, Sound(v, t, n),
         OnAttempt(v, t, n), InSlot(v, t, n) \/ Unconfirmed(v, t, n)
  PROVE  W!Reported(v) = t
<1>0. NoTask # t
  BY FleetAssumption DEF W!WorkerAssumption
<1>1. CASE InSlot(v, t, n)
  BY <1>0, <1>1 DEF InSlot, WP!IsOn, W!Reported, W!NoSlot
<1>2. CASE Unconfirmed(v, t, n)
  <2>1. slot[v].task = NoTask
    BY <1>2 DEF Sound, Wanted
  <2>2. slot[v] = W!NoSlot
    BY <2>1, FleetAssumption DEF W!WorkerAssumption, W!WorkerTypeOK, W!Slots
  <2>3. unconf[v].task = t /\ unconf[v] # W!NoOutcome
    BY <1>0, <1>2 DEF Unconfirmed, WP!IsOn, W!NoOutcome
  <2>4. QED
    BY <2>2, <2>3 DEF W!Reported
<1>3. QED
  BY <1>1, <1>2

\* A registration under way stays true: its worker takes nothing up, the hub gives it nothing.
LEMMA DeclaredStep ==
  ASSUME GroundInv, SoundInv, [FleetNext]_fleetVars, NEW v \in Workers, Declared(v)
  PROVE  Declared(v)'
<1> SUFFICES ASSUME NEW m \in WP!Msgs(up'[v]), m.type = "register",
                    NEW t \in Tasks, NEW n \in W!Attempts,
                    OnAttempt(v, t, n)', InSlot(v, t, n)' \/ Unconfirmed(v, t, n)'
             PROVE  m.task = t
  BY DEF Declared
<1>0. v \in Agents /\ n \in Nat
  BY FleetAssumption, ConductorAssumption DEF W!Attempts
<1>1. /\ HandsOver /\ W!WorkerTypeOK /\ Linked(v) /\ Linked(v)' /\ attempt[t] \in Nat
      /\ UNCHANGED fleetVars \/ Talks \/ Relinks \/ \E w \in Workers : WorkerActs(w)
  BY GroundStep DEF GroundInv, LinkInv, HubInv, TypeOK
<1>2. ASSUME m \in WP!Msgs(up[v]), OnAttempt(v, t, n), InSlot(v, t, n) \/ Unconfirmed(v, t, n)
      PROVE  m.task = t
  BY <1>2 DEF Declared
<1>3. CASE UNCHANGED fleetVars
  BY <1>2, <1>3
     DEF fleetVars, vars, rows, counters, W!workerVars, W!state, W!wires, InSlot, Unconfirmed, OnAttempt, Held, IsActive
<1>4. CASE Talks
  <2>1. (InSlot(v, t, n)' <=> InSlot(v, t, n)) /\ (Unconfirmed(v, t, n)' <=> Unconfirmed(v, t, n))
    BY <1>4 DEF Talks, InSlot, Unconfirmed
  <2>2. up[v] \in Seq(W!UpMsg) /\ (up'[v] = up[v] \/ (up[v] # <<>> /\ up'[v] = Tail(up[v])))
    BY <1>1, <1>4 DEF Talks, Reads, W!WorkerTypeOK
  <2>3. m \in WP!Msgs(up[v])
    BY <2>2, TailOrder
  <2>4. conn[v] = "open"
    BY <1>1, <2>3 DEF Linked
  <2>5. OnAttempt(v, t, n)
    BY <1>0, <1>1, <2>4 DEF HandsOver, OnAttempt
  <2>6. QED
    BY <1>2, <2>1, <2>3, <2>5
<1>5. CASE Relinks
  <2>1. (InSlot(v, t, n)' <=> InSlot(v, t, n)) /\ (Unconfirmed(v, t, n)' <=> Unconfirmed(v, t, n)) /\ OnAttempt(v, t, n)
    BY <1>5 DEF Relinks, InSlot, Unconfirmed, OnAttempt, Held, IsActive
  <2>2. CASE up'[v] = up[v]
    BY <1>2, <2>1, <2>2
  <2>3. CASE up'[v] = <<W!RegisterMsg(W!Reported(v))>>
    <3>1. WP!Msgs(up'[v]) = {W!RegisterMsg(W!Reported(v))}
      BY <2>3, OneOrNone
    <3>2. m.task = W!Reported(v)
      BY <3>1 DEF W!RegisterMsg
    <3>3. QED
      BY <1>1, <2>1, <3>2, NamesItsTask DEF SoundInv
  <2>4. CASE up'[v] = <<>>
    BY <2>4, OneOrNone
  <2>5. QED
    BY <1>5, <2>2, <2>3, <2>4 DEF Relinks, Relinked
<1>6. ASSUME NEW w \in Workers, WorkerActs(w) PROVE m.task = t
  <2>1. /\ UNCHANGED vars /\ WP!OnlyFor(w) /\ (Goes(w) \/ WP!Ends(w))
    BY <1>1, <1>6, WorkerGoes
  <2>2. m \in WP!Msgs(up[v])
    BY <1>1, <2>1, WorkerWires DEF WP!OnlyFor, WP!SameWires
  <2>3. ~reg[v]
    BY <1>1, <2>2 DEF Linked
  <2>4. InSlot(v, t, n) \/ Unconfirmed(v, t, n)
    BY <1>1, <1>6, <2>3, WorkTakesUp
  <2>5. OnAttempt(v, t, n)
    BY <2>1 DEF vars, rows, counters, OnAttempt, Held, IsActive
  <2>6. QED
    BY <1>2, <2>2, <2>4, <2>5
<1>7. QED
  BY <1>1, <1>3, <1>4, <1>5, <1>6

\* All but reclaims come onto the running list with a registration only.
LEMMA NewlyFailed ==
  ASSUME W!WorkerTypeOK, [FleetNext]_fleetVars, NEW x \in todo', x.op # "reclaim", x \notin todo
  PROVE  \E w \in Workers : /\ HubReads(w) /\ up[w][1].type = "register" /\ UNCHANGED <<status, holder, attempt>>
                            /\ x \in Leftovers(w, up[w][1].task)
<1> USE DEF handler, HandlerSettles, Settle
<1>1. CASE UNCHANGED fleetVars \/ \E w \in Workers : NoticesHubGone(w) \/ WorkerActs(w)
  BY <1>1 DEF fleetVars, NoticesHubGone, WorkerActs, vars
<1>2. CASE HubStep
  <2>1. CASE LeadStep
    <3>1. CASE \E b \in Batches : Create(b)
      BY <3>1 DEF Create
    <3>2. CASE \E t \in Tasks : LeadFail(t) \/ Approve(t) \/ Reject(t) \/ RejectGate(t) \/ CancelTask(t)
      BY <3>2 DEF LeadFail, Approve, Reject, RejectGate, RejectWork, CancelTask
    <3>3. CASE \E t \in Tasks, verdict \in {"completed", "review"} : LeadComplete(t, verdict)
      BY <3>3 DEF LeadComplete, Finish
    <3>4. CASE \E t \in Tasks, to \in {"accepted", "in_progress"} : RestUpdate(t, to)
      BY <3>4 DEF RestUpdate
    <3>5. ASSUME NEW t \in Tasks, NEW dp, NEW fs, NEW ch, NEW chose, NEW clear, Reroute(t, dp, fs, ch, chose, clear)
          PROVE  UNCHANGED todo
      BY <3>5 DEF Reroute
    <3>6. QED
      BY <2>1, <3>1, <3>2, <3>3, <3>4, <3>5 DEF LeadStep
  <2>2. CASE TickStep \/ RestartEnd
    BY <2>2 DEF TickStep, TickLeases, TickOffline, TickEnd, RestartEnd, ToReclaim
  <2>3. CASE \E y \in todo : SettleNext(y)
    BY <2>3 DEF SettleNext
  <2>4. CASE DispatchPass
    BY <2>4 DEF DispatchPass, Dispatch
  <2>5. CASE (\E t \in Tasks : LeaseExpires(t)) \/ \E w \in Workers : GoneLong(w)
    BY <2>5 DEF LeaseExpires, GoneLong
  <2>6. QED
    BY <1>2, <2>1, <2>2, <2>3, <2>4, <2>5 DEF HubStep
<1>3. CASE HubDies \/ \E w \in Workers : Opens(w) \/ HubCloses(w)
  BY <1>3 DEF HubDies, HubCrash, Opens, Connect, HubCloses, Close
<1>4. ASSUME NEW w \in Workers, HubReads(w)
      PROVE  up[w][1].type = "register" /\ UNCHANGED <<status, holder, attempt>> /\ x \in Leftovers(w, up[w][1].task)
  <2>0. up[w] \in Seq(W!UpMsg) /\ up[w] # <<>>
    BY <1>4 DEF HubReads, W!WorkerTypeOK
  <2> DEFINE m == up[w][1]
  <2>1. Handles(w, m)
    BY <1>4, <2>0, HeadTailProperties DEF HubReads
  <2> HIDE DEF m
  <2>2. CASE m.type = "register"
    <3>1. Register(w, m.task)
      BY <2>1, <2>2 DEF Handles
    <3>2. todo' = todo \/ todo' = Leftovers(w, m.task)
      BY <3>1 DEF Register
    <3>3. QED
      BY <2>2, <3>1, <3>2 DEF m, Register, rows, counters
  <2>3. CASE m.type # "register"
    <3>1. \/ Accept(w, m.task) \/ WorkerComplete(w, m.task, "completed", m.attempt) \/ WorkerFail(w, m.task, m.attempt)
          \/ (\E r \in Routes : QuotaExhausted(w, m.task, r, m.attempt)) \/ Decline(w, m.task, m.attempt)
          \/ DeclineBusy(w, m.task, m.attempt) \/ StatusUpdate(w, m.type) \/ UNCHANGED vars
      BY <2>1, <2>3 DEF Handles
    <3>2. UNCHANGED todo
      BY <3>1 DEF Accept, WorkerComplete, Finish, WorkerFail, QuotaExhausted, Decline, DeclineBusy, StatusUpdate, vars
    <3>3. QED
      BY <3>2
  <2>4. QED
    BY <2>2, <2>3
<1>5. QED
  BY <1>1, <1>2, <1>3, <1>4 DEF FleetNext

\* While a list is being worked off, the hub reads no registration.
LEMMA BusyReadsNothing ==
  ASSUME ~Quiet, FleetNext, NEW v \in Workers, ~\E w \in Workers : WorkerActs(w)
  PROVE  ~Registering(v) \/ up'[v] = up[v] \/ conn'[v] # "ready"
<1>1. CASE HubStep \/ \E w \in Workers : NoticesHubGone(w)
  BY <1>1 DEF HubStep, NoticesHubGone
<1>2. CASE \E w \in Workers : HubReads(w) \/ Opens(w) \/ HubCloses(w)
  <2>1. PICK w \in Workers : HubReads(w) \/ Opens(w) \/ HubCloses(w)
    BY <1>2
  <2>2. ASSUME NEW m, Handles(w, m) PROVE FALSE
    BY <2>2 DEF Handles, Register, Accept, WorkerComplete, WorkerFail, QuotaExhausted, Decline, DeclineBusy, StatusUpdate
  <2>3. ~HubReads(w)
    BY <2>2 DEF HubReads
  <2>4. ~Connect(w) /\ ~Close(w)
    BY DEF Connect, Close
  <2>5. QED
    BY <2>1, <2>3, <2>4 DEF Opens, HubCloses
<1>3. CASE HubDies
  <2>1. v \in Agents
    BY FleetAssumption, ConductorAssumption
  <2>2. QED
    BY <1>3, <2>1 DEF HubDies, HubCrash
<1>4. QED
  BY <1>1, <1>2, <1>3 DEF FleetNext

\* The list of a restart stays one of lost attempts.
LEMMA ChargedStep ==
  ASSUME GroundInv, KeptInv, [FleetNext]_fleetVars, NEW x \in todo'
  PROVE  Charged(x)'
<1> SUFFICES ASSUME x.op = "fail" PROVE x.agent \in Workers /\ (x.attempt \in W!Attempts => ~Knows(x.agent, x.task, x.attempt)')
  BY DEF Charged
<1>1. /\ HandsOver /\ W!WorkerTypeOK /\ TypeOK /\ ListInv /\ GroundInv'
      /\ UNCHANGED fleetVars \/ Talks \/ Relinks \/ \E w \in Workers : WorkerActs(w)
  BY GroundStep DEF GroundInv, HubInv
<1>2. x.task \in Tasks /\ x.attempt \in Nat
  BY <1>1 DEF GroundInv, HubInv, TypeOK
<1>3. CASE x \in todo
  <2>1. x.agent \in Workers /\ (x.attempt \in W!Attempts => ~Knows(x.agent, x.task, x.attempt))
    BY <1>3 DEF KeptInv, Charged
  <2>2. ~Quiet /\ attempt[x.task] = x.attempt
    BY <1>1, <1>3 DEF ListInv, ListStaysTrue, Quiet
  <2>3. ASSUME x.attempt \in W!Attempts, Knows(x.agent, x.task, x.attempt)' PROVE FALSE
    <3>1. CASE UNCHANGED fleetVars
      BY <2>1, <2>3, <3>1 DEF fleetVars, W!workerVars, W!state, W!wires, Knows, InSlot, Unconfirmed, OnWire
    <3>2. CASE Relinks
      BY <1>1, <1>2, <2>1, <2>3, <3>2, LinkTeachesNothing
    <3>3. CASE \E w \in Workers : WorkerActs(w)
      BY <1>1, <1>2, <2>1, <2>3, <3>3, WorkTeachesNothing
    <3>4. CASE Talks /\ ~UNCHANGED fleetVars /\ ~\E w \in Workers : WorkerActs(w)
      <4>1. PICK v \in Workers : v = x.agent
        BY <2>1
      <4>2. Registering(v)
        BY <1>1, <1>2, <2>1, <2>2, <2>3, <3>4, <4>1, TalkTeaches
      <4>3. up'[v] = Tail(up[v]) /\ up[v] # <<>> /\ up[v] \in Seq(W!UpMsg) /\ conn'[v] = "ready"
        BY <1>1, <4>2 DEF Registering, W!WorkerTypeOK
      <4>4. up'[v] # up[v]
        <5>1. SUFFICES ASSUME up'[v] = up[v] PROVE FALSE
          OBVIOUS
        <5>2. Tail(up[v]) = up[v]
          BY <4>3, <5>1
        <5>3. Len(up[v]) = Len(up[v]) - 1 /\ Len(up[v]) \in Nat
          BY <4>3, <5>2, HeadTailProperties, LenProperties
        <5>4. QED
          BY <5>3
      <4>5. QED
        BY <2>2, <3>4, <4>2, <4>3, <4>4, BusyReadsNothing
    <3>5. QED
      BY <1>1, <3>1, <3>2, <3>3, <3>4
  <2>4. QED
    BY <2>1, <2>3
<1>4. CASE x \notin todo
  <2>1. PICK w \in Workers : /\ HubReads(w) /\ up[w][1].type = "register" /\ UNCHANGED <<status, holder, attempt>>
                             /\ x \in Leftovers(w, up[w][1].task)
    BY <1>1, <1>4, NewlyFailed
  <2> DEFINE m == up[w][1]
  <2>2. x.agent = w /\ x.task # m.task /\ OnAttempt(w, x.task, x.attempt)
    BY <2>1 DEF Leftovers, HeldTasks, OnAttempt
  <2>3. up[w] \in Seq(W!UpMsg) /\ up[w] # <<>> /\ m \in WP!Msgs(up[w])
    BY <1>1, <2>1, TailOrder DEF HubReads, W!WorkerTypeOK
  <2>4. conn[w] = "open" /\ (\A y \in WP!Msgs(down[w]) : y.type = "revoked") /\ (\A y \in WP!Msgs(down[w]) : y.type # "registered")
    BY <2>1, <2>3 DEF GroundInv, LinkInv, Linked
  <2>5. PICK s : SaysTo(w, s) /\ \A y \in WP!Msgs(s) : y.type = "resumed" => y.task = m.task
    BY <1>1, <2>1, RegisterSays DEF GroundInv, HubInv
  <2>6. ASSUME x.attempt \in W!Attempts, Knows(w, x.task, x.attempt)' PROVE FALSE
    <3>1. ~InSlot(w, x.task, x.attempt) /\ ~Unconfirmed(w, x.task, x.attempt)
      BY <1>2, <2>1, <2>2, <2>3, <2>6 DEF KeptInv, Declared
    <3>2. slot' = slot /\ unconf' = unconf
      BY <2>1 DEF HubReads
    <3>3. OnWire(w, Offers(x.task, x.attempt))'
      BY <2>6, <3>1, <3>2 DEF Knows, InSlot, Unconfirmed
    <3>4. WP!Msgs(down'[w]) = WP!Msgs(down[w]) \cup WP!Msgs(s)
      BY <1>1, <2>5, ConcatOrder DEF SaysTo, W!WorkerTypeOK
    <3>5. PICK y \in WP!Msgs(down[w]) \cup WP!Msgs(s) : y.type \in {"assigned", "resumed"} /\ y.task = x.task
      BY <3>3, <3>4 DEF OnWire, Offers
    <3>6. y \in WP!Msgs(s) /\ y.type = "assigned"
      BY <2>2, <2>4, <2>5, <3>5
    <3>7. attempt'[x.task] = attempt[x.task] + 1 /\ attempt[x.task] \in Nat
      BY <1>1, <1>2, <2>5, <3>5, <3>6 DEF SaysTo, TypeOK
    <3>8. QED
      BY <2>1, <3>7
  <2>7. QED
    BY <2>2, <2>6
<1>5. QED
  BY <1>3, <1>4

\* All of it holds in every run of the fleet.
LEMMA KeptHolds == FleetSpec => [](GroundInv /\ Named /\ SoundInv /\ KeptInv)
<1>1. GroundInv /\ Named /\ SoundInv /\ KeptInv /\ [FleetNext]_fleetVars => KeptInv'
  BY DeclaredStep, ChargedStep DEF KeptInv
<1>2. FleetInit => KeptInv
  <2>1. FleetInit => \A v \in Workers : WP!Msgs(up[v]) = {}
    BY OneOrNone DEF FleetInit, W!WorkerInit
  <2>2. FleetInit => todo = {}
    BY DEF FleetInit, Init
  <2>3. QED
    BY <2>1, <2>2 DEF KeptInv, Declared
<1>3. QED
  BY <1>1, <1>2, SoundHolds, PTL DEF FleetSpec

\* An outcome a worker still keeps is never charged as a failure because the worker comes back
\* without the task: it registers with it as long as the hub counts on it.
THEOREM KeptOutcomeCountsHolds == FleetSpec => []KeptOutcomeCounts
<1>1. GroundInv /\ KeptInv => KeptOutcomeCounts
  <2> SUFFICES ASSUME GroundInv, KeptInv, NEW x \in todo, x.op = "fail",
                      unconf[x.agent].task = x.task, unconf[x.agent].attempt = x.attempt
               PROVE  FALSE
    BY DEF KeptOutcomeCounts
  <2>1. W!WorkerTypeOK /\ x.task \in Tasks /\ x.task # NoTask
    BY SameTerms, FleetAssumption DEF GroundInv, WP!WorkerInv, HubInv, TypeOK, W!WorkerAssumption
  <2>2. x.agent \in Workers /\ (x.attempt \in W!Attempts => ~Knows(x.agent, x.task, x.attempt))
    BY DEF KeptInv, Charged
  <2>3. x.attempt \in W!Attempts
    BY <2>1, <2>2 DEF W!WorkerTypeOK, W!Outcomes, W!NoOutcome
  <2>4. QED
    BY <2>2, <2>3 DEF Knows, Unconfirmed, WP!IsOn
<1>2. QED
  BY <1>1, KeptHolds, PTL
-----------------------------------------------------------------------------
(* What the hub believes to be with a worker.                              *)

\* A listed task whose entry goes is dealt with.
LEMMA ListGoes ==
  ASSUME TypeOK, ListInv, [Next]_vars, ~HubCrash,
         NEW x \in todo, x \notin todo', IsActive(x.task), x.op = "fail" => holder[x.task] = x.agent
  PROVE  ~IsActive(x.task)'
<1>1. stage # "idle" /\ attempt[x.task] = x.attempt /\ x.task \in Tasks
  BY DEF ListInv, ListStaysTrue, TypeOK
<1>2. ASSUME NEW y \in todo, SettleNext(y) PROVE ~IsActive(x.task)'
  <2>1. y = x
    BY <1>2 DEF SettleNext
  <2>2. StillDue(x)
    BY <1>1 DEF StillDue
  <2>3. ToPending(x.task)
    BY <1>2, <2>1, <2>2 DEF SettleNext, CountFailure
  <2>4. status'[x.task] = "pending"
    BY <1>1, <2>3 DEF ToPending, TypeOK
  <2>5. QED
    BY <2>4 DEF IsActive, Active
<1>3. CASE DispatchPass
  BY <1>3 DEF DispatchPass, Dispatch
<1>4. CASE TickStep \/ RestartEnd
  BY <1>1, <1>4 DEF TickStep, TickLeases, TickOffline, TickEnd, RestartEnd, Quiet
<1>5. ~Quiet
  BY <1>1 DEF Quiet
<1>6. UNCHANGED vars => todo' = todo
  BY DEF vars, handler
<1>7. QED
  BY <1>2, <1>3, <1>4, <1>5, <1>6, Handlers DEF Settles, HandlerStep, Register

\* A registration is read by its worker's frame.
LEMMA RegisteringReads ==
  ASSUME W!WorkerTypeOK, HubStep \/ \E w \in Workers : HubReads(w), NEW v \in Workers, Registering(v)
  PROVE  HubReads(v)
<1>1. up[v] \in Seq(W!UpMsg) /\ up[v] # <<>> /\ up'[v] = Tail(up[v])
  BY DEF Registering, W!WorkerTypeOK
<1>2. Len(Tail(up[v])) = Len(up[v]) - 1 /\ Len(up[v]) \in Nat
  BY <1>1, HeadTailProperties, LenProperties
<1>3. up'[v] # up[v]
  <2>1. ASSUME up'[v] = up[v] PROVE FALSE
    <3>1. Tail(up[v]) = up[v]
      BY <1>1, <2>1
    <3>2. Len(up[v]) = Len(up[v]) - 1
      BY <1>2, <3>1
    <3>3. QED
      BY <1>2, <3>2
  <2>2. QED
    BY <2>1
<1>4. QED
  BY <1>3 DEF HubStep, HubReads, W!WorkerTypeOK

\* Its answer: the worker is registered, and told to go on with the task it reports; what else it
\* held is put on the list.
LEMMA RegistrationAnswered ==
  ASSUME HubInv, W!WorkerTypeOK, NEW v \in Workers, HubReads(v), Registering(v), sock[v] = "open", conn[v] # "ready"
  PROVE  /\ UNCHANGED <<status, holder, attempt>>
         /\ \E m \in WP!Msgs(down'[v]) : m.type = "registered"
         /\ \A t \in HeldTasks(v) : \/ W!Resumed(t, attempt[t]) \in WP!Msgs(down'[v])
                                    \/ \E x \in todo' : x.task = t /\ x.agent = v
<1>1. PICK s : /\ SaysTo(v, s) /\ W!Registered \in WP!Msgs(s)
               /\ up[v][1].task \in HeldTasks(v) => W!Resumed(up[v][1].task, attempt[up[v][1].task]) \in WP!Msgs(s)
  BY RegisterSays DEF HubInv, Registering
<1>2. WP!Msgs(s) \subseteq WP!Msgs(down'[v])
  BY <1>1, ConcatOrder DEF SaysTo, W!WorkerTypeOK
<1>3. PICK r : r = up[v][1].task
  OBVIOUS
<1>4. Register(v, r)
  <2>1. Head(up[v]) = up[v][1]
    BY HeadTailProperties DEF Registering, W!WorkerTypeOK
  <2>2. QED
    BY <1>3, <2>1 DEF Registering, HubReads, Handles
<1>5. UNCHANGED <<status, holder, attempt>>
  BY <1>4 DEF Register, rows, counters
<1>6. ASSUME NEW t \in HeldTasks(v), t # r PROVE \E x \in todo' : x.task = t /\ x.agent = v
  <2> DEFINE x == [task |-> t, attempt |-> attempt[t], agent |-> v, op |-> IF status[t] = "assigned" THEN "return" ELSE "fail"]
  <2>1. x \in Leftovers(v, r)
    BY <1>6 DEF Leftovers
  <2>2. todo' = Leftovers(v, r)
    BY <1>4, <2>1 DEF Register
  <2>3. QED
    BY <2>1, <2>2
<1>7. QED
  BY <1>1, <1>2, <1>3, <1>5, <1>6 DEF W!Registered

\* While the hub talks, a task stays with a connected worker unless it hears of it: from then on
\* it has been offered, or is still reported, or is still listed.
LEMMA HubTells ==
  ASSUME HubInv, W!WorkerTypeOK, HandsOver, OneHeld', [Next]_vars, Talks,
         NEW v \in Workers, Linked(v), sock[v] = "open", conn'[v] = "ready", NEW t \in Tasks, Held(v, t)'
  PROVE  \/ /\ attempt'[t] # attempt[t]
            /\ W!Assigned(t, attempt'[t]) \in WP!Msgs(down'[v])
         \/ /\ conn[v] # "ready" /\ attempt'[t] = attempt[t]
            /\ \/ W!Resumed(t, attempt[t]) \in WP!Msgs(down'[v])
               \/ \E x \in todo' : x.task = t /\ x.agent = v
         \/ /\ conn[v] = "ready" /\ Held(v, t) /\ attempt'[t] = attempt[t]
            /\ \A m \in WP!Msgs(up[v]) :
                 m.type \in Reports /\ m.task = t /\ m.attempt = attempt[t] => m \in WP!Msgs(up'[v])
            /\ \A x \in todo : x.task = t /\ (x.op = "fail" => x.agent = v) => x \in todo'
<1>0. v \in Agents /\ attempt[t] \in Nat /\ TypeOK /\ LifeInv /\ ListInv
  BY FleetAssumption, ConductorAssumption DEF HubInv, TypeOK
<1>1. HubStep \/ \E w \in Workers : HubReads(w)
  BY DEF Talks
<1>2. down[v] \in Seq(W!DownMsg)
  BY DEF W!WorkerTypeOK
<1>3. CASE attempt'[t] # attempt[t]
  <2>1. conn[v] = "ready" /\ t \in GivenTo(v)
    BY <1>0, <1>3 DEF HandsOver, GivenTo, Held
  <2>2. ~\E w \in Workers : HubReads(w)
    BY <1>3, ReadingActs
  <2>3. Tell
    <3>1. ASSUME HandsNothing PROVE FALSE
      BY <1>3, <3>1, HandsNothingKeeps
    <3>2. \A w \in Workers : w \in Agents
      BY FleetAssumption, ConductorAssumption
    <3>3. QED
      BY <1>1, <2>2, <3>1, <3>2 DEF HubStep, HandsNothing
  <2>4. PICK s : SaysTo(v, s) /\ (Online(v) => W!Assigned(t, attempt'[t]) \in WP!Msgs(s))
    BY <1>0, <2>1, <2>3, TellSays
  <2>5. Online(v)
    BY <2>1 DEF Online
  <2>6. WP!Msgs(s) \subseteq WP!Msgs(down'[v])
    BY <1>2, <2>4, ConcatOrder DEF SaysTo
  <2>7. QED
    BY <1>3, <2>4, <2>5, <2>6
<1>4. CASE attempt'[t] = attempt[t] /\ conn[v] # "ready"
  <2>1. Held(v, t)
    BY <1>0, <1>4 DEF HandsOver
  <2>2. Reads(v)
    BY DEF Talks
  <2>3. Registering(v)
    BY <1>4, <2>2 DEF Reads
  <2>4. HubReads(v)
    BY <1>1, <2>3, RegisteringReads
  <2>5. QED
    BY <1>4, <2>1, <2>3, <2>4, RegistrationAnswered DEF HeldTasks
<1>5. CASE attempt'[t] = attempt[t] /\ conn[v] = "ready"
  <2>1. Held(v, t) /\ IsActive(t)'
    BY <1>0, <1>5 DEF HandsOver, Held
  <2>2. ASSUME NEW m \in WP!Msgs(up[v]), m.type \in Reports, m.task = t, m.attempt = attempt[t], m \notin WP!Msgs(up'[v])
        PROVE  FALSE
    <3>1. up'[v] # up[v]
      BY <2>2
    <3>2. HubReads(v)
      BY <1>1, <3>1 DEF HubStep, HubReads, W!WorkerTypeOK
    <3>3. up[v] \in Seq(W!UpMsg) /\ up[v] # <<>> /\ up'[v] = Tail(up[v])
      BY <3>2 DEF HubReads, W!WorkerTypeOK
    <3>4. m = up[v][1]
      BY <2>2, <3>3, TailOrder
    <3>5. ~IsActive(t)'
      BY <2>1, <2>2, <3>2, <3>4, ReportEnds, <1>0 DEF OnAttempt
    <3>6. QED
      BY <2>1, <3>5
  <2>3. ASSUME NEW x \in todo, x.task = t, x.op = "fail" => x.agent = v, x \notin todo'
        PROVE  FALSE
    <3>1. ~HubCrash
      BY <1>0 DEF HubCrash
    <3>2. ~IsActive(x.task)'
      BY <1>0, <2>1, <2>3, <3>1, ListGoes DEF Held
    <3>3. QED
      BY <2>1, <2>3, <3>2
  <2>4. QED
    BY <1>5, <2>1, <2>2, <2>3
<1>6. QED
  BY <1>3, <1>4, <1>5
\* A worker that stays connected loses nothing of what it says, and reads one message at a time.
LEMMA StaysLinked ==
  ASSUME W!WorkerTypeOK, NEW w \in Workers, Goes(w) \/ WP!Ends(w), sock'[w] = "open"
  PROVE  /\ sock[w] = "open" /\ (stopping[w] => stopping'[w])
         /\ WP!Msgs(up[w]) \subseteq WP!Msgs(up'[w])
         /\ ~reg'[w] => ~reg[w] /\ ~WP!Registers(w) /\ WP!Msgs(queue[w]) \subseteq WP!Msgs(queue'[w])
         /\ ~reg[w] /\ reg'[w] => WP!Msgs(queue[w]) \subseteq WP!Msgs(up'[w])
         /\ \A m \in WP!Msgs(down[w]) : m \in WP!Msgs(down'[w]) \/ (m = down[w][1] /\ WP!Heard(w, m.type))
<1> DEFINE Linkage == sock'[w] = sock[w] /\ (stopping[w] => stopping'[w])
           Spoken  == /\ WP!Msgs(up[w]) \subseteq WP!Msgs(up'[w])
                      /\ ~reg'[w] => ~reg[w] /\ ~WP!Registers(w) /\ WP!Msgs(queue[w]) \subseteq WP!Msgs(queue'[w])
                      /\ ~reg[w] /\ reg'[w] => WP!Msgs(queue[w]) \subseteq WP!Msgs(up'[w])
           Read    == \A m \in WP!Msgs(down[w]) : m \in WP!Msgs(down'[w]) \/ (m = down[w][1] /\ WP!Heard(w, m.type))
<1>0. down[w] \in Seq(W!DownMsg)
  BY DEF W!WorkerTypeOK
<1>1. ASSUME NEW R, WP!Sends(w, R), reg'[w] = reg[w], ~WP!Registers(w) PROVE Spoken
  BY <1>1 DEF WP!Sends, WP!Gains
<1>2. ASSUME WP!SameWires(w), reg'[w] = reg[w], ~WP!Registers(w) PROVE Spoken
  BY <1>2 DEF WP!SameWires
<1>3. ASSUME NEW type, WP!Heard(w, type) PROVE Read /\ down[w][1].type = type
  <2>1. WP!Msgs(down[w]) = {down[w][1]} \cup WP!Msgs(Tail(down[w]))
    BY <1>0, <1>3, TailOrder DEF WP!Heard
  <2>2. QED
    BY <1>3, <2>1 DEF WP!Heard
<1>4. WP!Registers(w) => down[w][1].type = "registered" /\ Read
  BY <1>3 DEF WP!Registers
<1>5. CASE WP!Registers(w)
  BY <1>4, <1>5 DEF WP!Registers, WP!Gains
<1>6. CASE ~WP!Registers(w)
  <2>1. ASSUME NEW t \in Tasks, WP!LosesTask(w, t) PROVE Linkage /\ Spoken /\ Read
    BY <1>2, <1>3, <1>6, <2>1 DEF WP!LosesTask, WP!SameLink
  <2>2. ASSUME NEW t \in Tasks, NEW n \in W!Attempts, NEW type, WP!Considers(w, type, t, n)
        PROVE  Linkage /\ Spoken /\ Read
    <3>1. Linkage /\ Read /\ reg'[w] = reg[w]
      BY <1>3, <2>2 DEF WP!Considers, WP!SameLink
    <3>2. WP!SameWires(w) \/ \E R : WP!Sends(w, R)
      BY <2>2 DEF WP!Considers
    <3>3. QED
      BY <1>1, <1>2, <1>6, <3>1, <3>2
  <2>3. ASSUME WP!Drops(w) \/ WP!Ends(w) \/ WP!Begins(w) \/ WP!Waits(w) PROVE Linkage /\ Spoken /\ Read
    <3>1. Linkage /\ Read /\ reg'[w] = reg[w]
      BY <2>3 DEF WP!Drops, WP!Ends, WP!Begins, WP!Waits, WP!SameLink
    <3>2. \E R : WP!Sends(w, R)
      BY <2>3 DEF WP!Drops, WP!Ends, WP!Begins, WP!Waits
    <3>3. QED
      BY <1>1, <1>6, <3>1, <3>2
  <2>4. ASSUME WP!Stops(w) PROVE Linkage /\ Spoken /\ Read
    BY <1>2, <1>6, <2>4 DEF WP!Stops
  <2>5. ~WP!LosesLink(w) /\ ~WP!Starts(w) /\ ~WP!CutsLink(w)
    BY DEF WP!LosesLink, WP!Starts, WP!CutsLink
  <2> HIDE DEF Linkage, Spoken, Read
  <2>6. Linkage /\ Spoken /\ Read
    BY <1>6, <2>1, <2>2, <2>3, <2>4, <2>5 DEF Goes
  <2>7. QED
    BY <2>6 DEF Linkage, Spoken, Read
<1>7. QED
  BY <1>5, <1>6
\* A run is aborted because the hub has taken the attempt back, or because the worker stops.
AbortOK(w) ==
  /\ slot[w].abort = "revoked" => ~OnAttempt(w, slot[w].task, slot[w].attempt)
  /\ slot[w].abort = "stopping" => stopping[w]

\* A worker the hub has registered hears of it, and before it hears of any task.
Answered(w) ==
  conn[w] = "ready" /\ sock[w] = "open" /\ ~reg[w] =>
    /\ \E m \in WP!Msgs(down[w]) : m.type = "registered"
    /\ Orderly(down[w], {m \in W!DownMsg : m.type \in {"assigned", "resumed"}}, {m \in W!DownMsg : m.type = "registered"})

Says(q, t, n) == \E m \in WP!Msgs(q) : m.type \in Reports /\ WP!IsOn(m, t, n)

\* An attempt the hub believes to be with w is with it or on its way, or its end is on the way
\* back or about to be sent, or on the hub's list.
Found(w, t, n) ==
  \/ InSlot(w, t, n) \/ OnWire(w, Offers(t, n))
  \/ Says(up[w], t, n) \/ (~reg[w] /\ Says(queue[w], t, n))
  \/ \E x \in todo : x.task = t /\ (x.op = "fail" => x.agent = w)

Tracked(w) ==
  conn[w] = "ready" /\ sock[w] = "open" /\ ~stopping[w] =>
    \A t \in Tasks, n \in W!Attempts : OnAttempt(w, t, n) => Found(w, t, n)

TraceInv == \A w \in Workers : AbortOK(w) /\ Answered(w) /\ Tracked(w)

\* What the hub says takes no aborted attempt up again.
LEMMA AbortStep ==
  ASSUME GroundInv, Named, SoundInv, [FleetNext]_fleetVars, NEW v \in Workers, AbortOK(v)
  PROVE  AbortOK(v)'
<1>1. /\ HandsOver /\ W!WorkerTypeOK /\ v \in Agents /\ \A t \in Tasks : attempt[t] \in Nat
      /\ UNCHANGED fleetVars \/ Talks \/ Relinks \/ \E w \in Workers : WorkerActs(w)
  BY GroundStep, FleetAssumption, ConductorAssumption DEF GroundInv, HubInv, TypeOK
<1>2. slot[v].abort = "revoked" => slot[v].task \in Tasks /\ slot[v].attempt \in W!Attempts /\ InSlot(v, slot[v].task, slot[v].attempt)
  BY <1>1 DEF W!WorkerTypeOK, W!Slots, W!NoSlot, InSlot, WP!IsOn
<1>3. ASSUME slot'[v] = slot[v], stopping[v] => stopping'[v],
             \A t \in Tasks, n \in W!Attempts : InSlot(v, t, n) /\ OnAttempt(v, t, n)' => OnAttempt(v, t, n)
      PROVE  AbortOK(v)'
  <2>1. ASSUME slot'[v].abort = "revoked" PROVE ~OnAttempt(v, slot[v].task, slot[v].attempt)'
    <3>1. PICK t \in Tasks, n \in W!Attempts : t = slot[v].task /\ n = slot[v].attempt
      BY <1>2, <1>3, <2>1
    <3>2. ~OnAttempt(v, t, n)'
      BY <1>2, <1>3, <2>1, <3>1 DEF AbortOK
    <3>3. QED
      BY <1>3, <3>1, <3>2 DEF OnAttempt
  <2>2. QED
    BY <1>3, <2>1 DEF AbortOK
<1>4. CASE UNCHANGED fleetVars
  BY <1>3, <1>4 DEF fleetVars, vars, rows, counters, W!workerVars, OnAttempt, Held, IsActive
<1>5. CASE Talks
  <2>1. ASSUME NEW t \in Tasks, NEW n \in W!Attempts, InSlot(v, t, n), OnAttempt(v, t, n)' PROVE OnAttempt(v, t, n)
    <3>1. n <= attempt[t]
      BY <2>1 DEF Named, Knows
    <3>2. n \in Nat /\ attempt[t] \in Nat
      BY <1>1 DEF W!Attempts
    <3>3. QED
      BY <1>1, <2>1, <3>1, <3>2 DEF HandsOver, OnAttempt
  <2>2. QED
    BY <1>3, <1>5, <2>1 DEF Talks
<1>6. CASE Relinks
  BY <1>3, <1>6 DEF Relinks, OnAttempt, Held, IsActive
<1>7. ASSUME NEW w \in Workers, WorkerActs(w) PROVE AbortOK(v)'
  <2>1. /\ UNCHANGED vars /\ WP!OnlyFor(w) /\ (Goes(w) \/ WP!Ends(w))
    BY <1>1, <1>7, WorkerGoes
  <2>2. \A t, n : OnAttempt(v, t, n)' <=> OnAttempt(v, t, n)
    BY <2>1 DEF vars, rows, counters, OnAttempt, Held, IsActive
  <2>3. CASE slot'[v] = slot[v] /\ (stopping[v] => stopping'[v])
    BY <1>3, <2>2, <2>3
  <2>4. ASSUME slot'[v].abort = "no" PROVE AbortOK(v)'
    BY <2>4 DEF AbortOK
  <2>5. CASE v # w
    BY <2>1, <2>3, <2>5 DEF WP!OnlyFor, WP!SameWork, WP!SameLink
  <2>6. ASSUME v = w, NEW t \in Tasks, WP!LosesTask(w, t) PROVE AbortOK(v)'
    <3>1. CASE slot[w].task = t /\ slot[w].abort = "no"
      <4>0. slot'[w] = [slot[w] EXCEPT !.abort = "revoked"]
        BY <2>6, <3>1 DEF WP!LosesTask
      <4>1. /\ slot'[w].task = t /\ slot'[w].attempt = slot[w].attempt /\ slot'[w].abort = "revoked"
        BY <1>1, <3>1, <4>0, SlotMarked
      <4>2. slot[w].attempt \in W!Attempts /\ InSlot(w, t, slot[w].attempt)
        BY <1>1, <3>1, FleetAssumption DEF W!WorkerAssumption, W!WorkerTypeOK, W!Slots, W!NoSlot, InSlot, WP!IsOn
      <4>3. down[w] # <<>> /\ down[w][1].type = "revoked" /\ down[w][1].task = t
        BY <2>6 DEF WP!LosesTask, WP!Heard
      <4>4. OnWire(w, Overtaking(t, slot[w].attempt))
        BY <1>1, <4>3, HeardFirst DEF OnWire, Overtaking
      <4>5. ~OnAttempt(w, t, slot[w].attempt)
        BY <4>2, <4>4 DEF SoundInv, Sound, Wanted
      <4>6. ~OnAttempt(w, t, slot[w].attempt)'
        BY <2>1, <4>5, <4>1 DEF vars, rows, counters, OnAttempt, Held, IsActive
      <4>7. QED
        BY <2>6, <4>1, <4>6 DEF AbortOK, OnAttempt
    <3>2. CASE ~(slot[w].task = t /\ slot[w].abort = "no")
      <4>1. /\ slot'[w].task = slot[w].task /\ slot'[w].attempt = slot[w].attempt
            /\ slot'[w].abort = slot[w].abort /\ stopping'[w] = stopping[w]
        BY <1>1, <2>6, <3>2, SlotMarked DEF WP!LosesTask, WP!SameLink
      <4>2. QED
        BY <2>1, <2>6, <4>1 DEF AbortOK, vars, rows, counters, OnAttempt, Held, IsActive
    <3>3. QED
      BY <3>1, <3>2
  <2>7. ASSUME v = w, WP!Stops(w) PROVE AbortOK(v)'
    <3>1. /\ slot'[w].task = slot[w].task /\ slot'[w].attempt = slot[w].attempt /\ stopping'[w]
          /\ slot'[w].abort = slot[w].abort \/ slot'[w].abort = "stopping"
      BY <1>1, <2>7, SlotMarked DEF WP!Stops
    <3>2. QED
      BY <2>1, <2>7, <3>1 DEF AbortOK, vars, rows, counters, OnAttempt, Held, IsActive
  <2>8. ASSUME v = w, WP!Drops(w) \/ WP!Ends(w) \/ WP!Starts(w) \/ WP!Begins(w) PROVE AbortOK(v)'
    <3>1. CASE WP!Begins(w)
      <4>1. slot'[w] = [slot[w] EXCEPT !.stage = "run"] /\ slot[w].abort = "no"
        BY <3>1 DEF WP!Begins
      <4>2. slot'[w].abort = "no"
        BY <1>1, <4>1, SlotMarked
      <4>3. QED
        BY <2>4, <2>8, <4>2
    <3>2. CASE WP!Drops(w) \/ WP!Ends(w) \/ WP!Starts(w)
      <4>1. slot'[w].abort = "no"
        BY <3>2 DEF WP!Drops, WP!Ends, WP!Starts, WP!NoSlot
      <4>2. QED
        BY <2>4, <2>8, <4>1
    <3>3. QED
      BY <2>8, <3>1, <3>2
  <2>9. ASSUME v = w, NEW type, NEW t \in Tasks, NEW n \in W!Attempts, WP!Considers(w, type, t, n) PROVE AbortOK(v)'
    <3>1. (slot'[w] = slot[w] \/ slot'[w].abort = "no") /\ stopping'[w] = stopping[w]
      BY <2>9 DEF WP!Considers, WP!SameWork, WP!SameLink
    <3>2. QED
      BY <2>3, <2>4, <2>9, <3>1
  <2>10. ASSUME v = w, WP!Registers(w) \/ WP!Waits(w) \/ WP!LosesLink(w) \/ WP!CutsLink(w) PROVE AbortOK(v)'
    BY <2>3, <2>10 DEF WP!Registers, WP!Waits, WP!LosesLink, WP!CutsLink, WP!SameWork
  <2>11. QED
    BY <2>1, <2>5, <2>6, <2>7, <2>8, <2>9, <2>10 DEF Goes
<1>8. QED
  BY <1>1, <1>4, <1>5, <1>6, <1>7
\* The answer to a registration comes first, and the worker is registered when it reads it.
LEMMA AnsweredStep ==
  ASSUME GroundInv, [FleetNext]_fleetVars, NEW v \in Workers, Answered(v)
  PROVE  Answered(v)'
<1> DEFINE Tasking == {m \in W!DownMsg : m.type \in {"assigned", "resumed"}}
           Registry == {m \in W!DownMsg : m.type = "registered"}
<1>0. /\ HandsOver /\ W!WorkerTypeOK /\ HubInv /\ Linked(v) /\ down[v] \in Seq(W!DownMsg)
      /\ UNCHANGED fleetVars \/ Talks \/ Relinks \/ \E w \in Workers : WorkerActs(w)
  BY GroundStep DEF GroundInv, LinkInv, W!WorkerTypeOK
<1> SUFFICES ASSUME conn'[v] = "ready", sock'[v] = "open", ~reg'[v]
             PROVE  (\E m \in WP!Msgs(down'[v]) : m.type = "registered") /\ Orderly(down'[v], Tasking, Registry)
  BY DEF Answered
<1>1. ASSUME conn[v] = "ready", sock[v] = "open", ~reg[v]
      PROVE  (\E m \in WP!Msgs(down[v]) : m.type = "registered") /\ Orderly(down[v], Tasking, Registry)
  BY <1>1 DEF Answered
<1>2. CASE UNCHANGED fleetVars
  BY <1>1, <1>2 DEF fleetVars, vars, registry, W!workerVars, W!client, W!wires
<1>3. CASE Relinks
  BY <1>1, <1>3 DEF Relinks, Relinked
<1>4. CASE Talks
  <2>1. PICK s : SaysTo(v, s)
    BY <1>4 DEF Talks
  <2>2. /\ s \in Seq(W!DownMsg) /\ down'[v] = down[v] \o s /\ Orderly(s, Tasking, Registry)
        /\ sock[v] = "open" /\ ~reg[v] /\ Reads(v)
    BY <1>4, <2>1 DEF SaysTo, Talks
  <2>3. /\ WP!Msgs(down'[v]) = WP!Msgs(down[v]) \cup WP!Msgs(s)
        /\ \A A, B : /\ Orderly(down[v], A, B) /\ Orderly(s, A, B)
                     /\ WP!Msgs(down[v]) \cap A = {} \/ WP!Msgs(s) \cap B = {}
                     => Orderly(down'[v], A, B)
    BY <1>0, <2>2, ConcatOrder
  <2>4. CASE conn[v] = "ready"
    <3>1. ~Registering(v)
      <4>1. up[v] # <<>> => up[v][1] \in WP!Msgs(up[v])
        BY <1>0, TailOrder DEF W!WorkerTypeOK
      <4>2. QED
        BY <1>0, <2>4, <4>1 DEF Registering, Linked
    <3>2. WP!Msgs(s) \cap Registry = {}
      BY <2>1, <3>1 DEF SaysTo
    <3>3. QED
      BY <1>1, <2>2, <2>3, <2>4, <3>2
  <2>5. CASE conn[v] # "ready"
    <3>1. Registering(v)
      BY <2>2, <2>5 DEF Reads
    <3>2. HubReads(v)
      BY <1>0, <1>4, <3>1, RegisteringReads DEF Talks
    <3>3. \E m \in WP!Msgs(down'[v]) : m.type = "registered"
      BY <1>0, <2>2, <2>5, <3>1, <3>2, RegistrationAnswered
    <3>4. conn[v] = "open"
      <4>1. up[v][1] \in WP!Msgs(up[v])
        BY <1>0, <3>1, TailOrder DEF W!WorkerTypeOK, Registering
      <4>2. QED
        BY <1>0, <3>1, <4>1 DEF Registering, Linked
    <3>5. WP!Msgs(down[v]) \cap Tasking = {}
      BY <1>0, <3>4 DEF Linked
    <3>6. Orderly(down[v], Tasking, Registry)
      BY <3>5 DEF Orderly, WP!Msgs
    <3>7. QED
      BY <2>2, <2>3, <3>3, <3>5, <3>6
  <2>6. QED
    BY <2>4, <2>5
<1>5. ASSUME NEW w \in Workers, WorkerActs(w)
      PROVE  (\E m \in WP!Msgs(down'[v]) : m.type = "registered") /\ Orderly(down'[v], Tasking, Registry)
  <2>1. /\ conn'[v] = conn[v] /\ WP!OnlyFor(w) /\ (Goes(w) \/ WP!Ends(w))
    BY <1>0, <1>5, WorkerGoes DEF vars, registry
  <2>2. CASE v # w
    BY <1>1, <2>1, <2>2 DEF WP!OnlyFor, WP!SameLink
  <2>3. CASE v = w
    <3>1. /\ sock[w] = "open" /\ ~reg[w] /\ ~WP!Registers(w)
          /\ \A m \in WP!Msgs(down[w]) : m \in WP!Msgs(down'[w]) \/ (m = down[w][1] /\ WP!Heard(w, m.type))
      BY <1>0, <2>1, <2>3, StaysLinked
    <3>2. Shrinks(down'[w], down[w])
      BY <1>0, <2>1, WorkerWires
    <3>3. PICK m \in WP!Msgs(down[w]) : m.type = "registered"
      BY <1>1, <2>1, <2>3, <3>1
    <3>4. Orderly(down'[w], Tasking, Registry)
      BY <1>1, <2>1, <2>3, <3>1, <3>2 DEF Shrinks
    <3>5. ASSUME m = down[w][1], WP!Heard(w, m.type) PROVE m \in WP!Msgs(down'[w])
      <4>1. down[w] # <<>> /\ down[w][1].type = "registered" /\ down'[w] = Tail(down[w])
        BY <3>3, <3>5 DEF WP!Heard
      <4>2. down'[w] # down[w]
        <5>1. Len(Tail(down[w])) = Len(down[w]) - 1 /\ Len(down[w]) \in Nat
          BY <1>0, <2>3, <4>1, HeadTailProperties, LenProperties
        <5>2. ASSUME Tail(down[w]) = down[w] PROVE FALSE
          <6>1. Len(down[w]) = Len(down[w]) - 1
            BY <5>1, <5>2
          <6>2. QED
            BY <5>1, <6>1
        <5>3. QED
          BY <4>1, <5>2
      <4>3. ~WP!LosesLink(w) /\ ~WP!Starts(w)
        BY <2>3 DEF WP!LosesLink, WP!Starts
      <4>4. ~WP!Ends(w) /\ ~WP!Drops(w) /\ ~WP!Begins(w) /\ ~WP!Waits(w) /\ ~WP!Stops(w) /\ ~WP!CutsLink(w)
        BY <4>2 DEF WP!Ends, WP!Drops, WP!Begins, WP!Waits, WP!Stops, WP!CutsLink
      <4>5. /\ \A t \in Tasks : ~WP!LosesTask(w, t)
            /\ \A t \in Tasks, n \in W!Attempts : ~WP!Considers(w, "assigned", t, n) /\ ~WP!Considers(w, "resumed", t, n)
        BY <4>1 DEF WP!LosesTask, WP!Considers, WP!Heard
      <4>6. QED
        BY <2>1, <3>1, <4>3, <4>4, <4>5 DEF Goes
    <3>6. QED
      BY <2>3, <3>1, <3>3, <3>4, <3>5
  <2>4. QED
    BY <2>2, <2>3
<1>6. QED
  BY <1>0, <1>2, <1>3, <1>4, <1>5
\* What a connected worker does with an attempt leaves it where it can be found.
LEMMA WorkTracked ==
  ASSUME W!WorkerTypeOK, NEW w \in Workers, WorkerActs(w), AbortOK(w), Answered(w),
         conn[w] = "ready", sock'[w] = "open", ~stopping'[w],
         NEW t \in Tasks, NEW n \in W!Attempts, OnAttempt(w, t, n), Found(w, t, n)
  PROVE  Found(w, t, n)'
<1>0. NoTask \notin Tasks
  BY FleetAssumption DEF W!WorkerAssumption
<1>1. UNCHANGED vars /\ (Goes(w) \/ WP!Ends(w))
  BY WorkerGoes
<1>2. /\ sock[w] = "open" /\ ~stopping[w]
      /\ WP!Msgs(up[w]) \subseteq WP!Msgs(up'[w])
      /\ ~reg'[w] => ~reg[w] /\ WP!Msgs(queue[w]) \subseteq WP!Msgs(queue'[w])
      /\ ~reg[w] /\ reg'[w] => WP!Msgs(queue[w]) \subseteq WP!Msgs(up'[w])
      /\ \A m \in WP!Msgs(down[w]) : m \in WP!Msgs(down'[w]) \/ (m = down[w][1] /\ WP!Heard(w, m.type))
  BY <1>1, StaysLinked
\* What it reports of the attempt is on its way, or waits to be.
<1>3. ASSUME NEW kind \in Reports, WP!Sends(w, {[type |-> kind, task |-> t, attempt |-> n]}), reg'[w] = reg[w]
      PROVE  Found(w, t, n)'
  <2> DEFINE m == [type |-> kind, task |-> t, attempt |-> n]
  <2>1. m.type \in Reports /\ WP!IsOn(m, t, n)
    BY DEF WP!IsOn
  <2>2. (reg[w] /\ m \in WP!Msgs(up'[w])) \/ (~reg[w] /\ m \in WP!Msgs(queue'[w]))
    BY <1>2, <1>3 DEF WP!Sends, WP!Gains, WP!CanSend
  <2> HIDE DEF m
  <2>3. QED
    BY <1>3, <2>1, <2>2 DEF Found, Says
<1>4. CASE Says(up[w], t, n) \/ (~reg[w] /\ Says(queue[w], t, n))
  BY <1>2, <1>4 DEF Found, Says
<1>5. CASE \E x \in todo : x.task = t /\ (x.op = "fail" => x.agent = w)
  BY <1>1, <1>5 DEF Found, vars, handler
<1>6. CASE InSlot(w, t, n)
  <2>1. slot[w].task = t /\ slot[w].attempt = n
    BY <1>6 DEF InSlot, WP!IsOn
  <2>2. slot[w].abort = "no"
    <3>1. slot[w].abort \in {"no", "revoked", "stopping"}
      BY DEF W!WorkerTypeOK, W!Slots, W!NoSlot
    <3>2. QED
      BY <1>2, <2>1, <3>1 DEF AbortOK
  <2>3. ASSUME slot'[w].task = slot[w].task, slot'[w].attempt = slot[w].attempt PROVE Found(w, t, n)'
    BY <2>1, <2>3 DEF Found, InSlot, WP!IsOn
  <2>4. CASE WP!Ends(w)
    BY <1>3, <2>1, <2>4 DEF WP!Ends, WP!SameLink, Reports, Verdicts
  <2>5. CASE WP!Drops(w)
    BY <1>3, <2>1, <2>2, <2>5 DEF WP!Drops, WP!SameLink, Reports, Verdicts
  <2>6. ASSUME NEW u \in Tasks, WP!LosesTask(w, u) PROVE Found(w, t, n)'
    <3> DEFINE mark == IF slot[w].abort = "no" THEN "revoked" ELSE slot[w].abort
    <3>1. slot'[w] = slot[w] \/ slot'[w] = [slot[w] EXCEPT !.abort = mark]
      BY <2>6 DEF WP!LosesTask
    <3>2. [slot[w] EXCEPT !.abort = mark] = [task |-> slot[w].task, attempt |-> slot[w].attempt, stage |-> slot[w].stage, abort |-> mark]
      BY SlotMarked
    <3> HIDE DEF mark
    <3>3. slot'[w] = [slot[w] EXCEPT !.abort = mark] => slot'[w].task = slot[w].task /\ slot'[w].attempt = slot[w].attempt
      BY <3>2
    <3>4. QED
      BY <2>3, <3>1, <3>3
  <2>7. CASE WP!Begins(w)
    <3>1. slot'[w] = [slot[w] EXCEPT !.stage = "run"]
      BY <2>7 DEF WP!Begins
    <3>2. QED
      BY <2>3, <3>1, SlotMarked
  <2>8. ASSUME NEW type, NEW u \in Tasks, NEW k \in W!Attempts, WP!Considers(w, type, u, k) PROVE Found(w, t, n)'
    <3>1. slot'[w] = slot[w]
      BY <1>0, <2>1, <2>8 DEF WP!Considers, WP!SameWork
    <3>2. QED
      BY <2>3, <3>1
  <2>9. CASE WP!Registers(w) \/ WP!Waits(w) \/ WP!LosesLink(w) \/ WP!CutsLink(w)
    BY <2>3, <2>9 DEF WP!Registers, WP!Waits, WP!LosesLink, WP!CutsLink, WP!SameWork
  <2>10. ~WP!Stops(w) /\ ~WP!Starts(w)
    BY DEF WP!Stops, WP!Starts
  <2>11. QED
    BY <1>1, <2>4, <2>5, <2>6, <2>7, <2>8, <2>9, <2>10 DEF Goes
<1>7. CASE OnWire(w, Offers(t, n))
  <2>1. PICK m \in WP!Msgs(down[w]) : m \in Offers(t, n)
    BY <1>7 DEF OnWire
  <2>2. m.type \in {"assigned", "resumed"} /\ WP!IsOn(m, t, n) /\ m \in W!DownMsg
    BY <2>1 DEF Offers, WP!IsOn
  <2>3. CASE m \in WP!Msgs(down'[w])
    BY <2>1, <2>3 DEF Found, OnWire
  <2>4. CASE m \notin WP!Msgs(down'[w])
    <3>1. m = down[w][1] /\ WP!Heard(w, m.type) /\ down'[w] # down[w]
      BY <1>2, <2>1, <2>4
    <3>2. reg[w]
      <4>1. SUFFICES ASSUME ~reg[w] PROVE FALSE
        OBVIOUS
      <4>2. /\ \E x \in WP!Msgs(down[w]) : x.type = "registered"
            /\ Orderly(down[w], {x \in W!DownMsg : x.type \in {"assigned", "resumed"}}, {x \in W!DownMsg : x.type = "registered"})
        BY <1>2, <4>1 DEF Answered
      <4>3. down[w] # <<>> /\ down[w] \in Seq(W!DownMsg)
        BY <3>1 DEF WP!Heard, W!WorkerTypeOK
      <4>4. /\ WP!Msgs(down[w]) = {m} \cup WP!Msgs(Tail(down[w])) /\ WP!Msgs(down[w]) \subseteq W!DownMsg
            /\ WP!Msgs(Tail(down[w])) \cap {x \in W!DownMsg : x.type = "registered"} = {}
        BY <2>2, <3>1, <4>2, <4>3, TailOrder, OfItsKind
      <4>5. QED
        BY <2>2, <4>2, <4>4
    <3>3. ASSUME NEW type, NEW u \in Tasks, NEW k \in W!Attempts, WP!Considers(w, type, u, k) PROVE Found(w, t, n)'
      <4>1. u = t /\ k = n /\ reg'[w] = reg[w]
        BY <2>2, <3>1, <3>3 DEF WP!Considers, WP!IsOn, WP!SameLink
      <4>2. CASE WP!IsOn(slot[w], t, n) /\ WP!SameWork(w)
        BY <4>2 DEF Found, InSlot, WP!SameWork
      <4>3. CASE \E kind \in {"completed", "failed", "quota", "busydecline"} :
                   WP!Sends(w, {[type |-> kind, task |-> t, attempt |-> n]})
        BY <1>3, <4>1, <4>3 DEF Reports, Verdicts
      <4>4. CASE slot'[w] = [task |-> t, attempt |-> n, stage |-> "check", abort |-> "no"]
        <5>1. slot'[w].task = t /\ slot'[w].attempt = n
          BY <4>4
        <5>2. QED
          BY <5>1 DEF Found, InSlot, WP!IsOn
      <4>5. QED
        BY <3>2, <3>3, <4>1, <4>2, <4>3, <4>4 DEF WP!Considers
    <3>4. /\ \A u \in Tasks : ~WP!LosesTask(w, u)
          /\ ~WP!Registers(w)
      BY <2>2, <3>1 DEF WP!LosesTask, WP!Registers, WP!Heard
    <3>5. ~WP!Ends(w) /\ ~WP!Drops(w) /\ ~WP!Begins(w) /\ ~WP!Waits(w) /\ ~WP!Stops(w) /\ ~WP!CutsLink(w)
      BY <3>1 DEF WP!Ends, WP!Drops, WP!Begins, WP!Waits, WP!Stops, WP!CutsLink
    <3>6. ~WP!LosesLink(w) /\ ~WP!Starts(w)
      BY DEF WP!LosesLink, WP!Starts
    <3>7. QED
      BY <1>1, <3>3, <3>4, <3>5, <3>6 DEF Goes
  <2>5. QED
    BY <2>3, <2>4
<1>8. QED
  BY <1>4, <1>5, <1>6, <1>7 DEF Found

\* No attempt goes astray between the hub and a connected worker.
LEMMA TrackedStep ==
  ASSUME GroundInv, [FleetNext]_fleetVars, NEW v \in Workers, AbortOK(v), Answered(v), Tracked(v)
  PROVE  Tracked(v)'
<1>0. /\ GroundInv' /\ HandsOver /\ [Next]_vars /\ W!WorkerTypeOK /\ HubInv /\ OneHeld' /\ Linked(v) /\ down[v] \in Seq(W!DownMsg)
      /\ UNCHANGED fleetVars \/ Talks \/ Relinks \/ \E w \in Workers : WorkerActs(w)
  BY GroundStep DEF GroundInv, HubInv, LinkInv, W!WorkerTypeOK
<1> SUFFICES ASSUME conn'[v] = "ready", sock'[v] = "open", ~stopping'[v],
                    NEW t \in Tasks, NEW n \in W!Attempts, OnAttempt(v, t, n)'
             PROVE  Found(v, t, n)'
  BY DEF Tracked
<1>1. ASSUME conn[v] = "ready", sock[v] = "open", ~stopping[v], OnAttempt(v, t, n) PROVE Found(v, t, n)
  BY <1>1 DEF Tracked
<1>2. CASE UNCHANGED fleetVars
  <2>1. UNCHANGED <<conn, sock, stopping, reg, slot, up, queue, down, todo>> /\ OnAttempt(v, t, n)
    BY <1>2 DEF fleetVars, vars, rows, counters, registry, handler, W!workerVars, W!client, W!wires, OnAttempt, Held, IsActive
  <2>2. QED
    BY <1>1, <2>1 DEF Found, InSlot, OnWire
<1>3. CASE Relinks
  <2>1. UNCHANGED <<stopping, reg, slot, queue, todo>> /\ OnAttempt(v, t, n)
    BY <1>3 DEF Relinks, OnAttempt, Held, IsActive
  <2>2. conn[v] = "ready" /\ sock[v] = "open" /\ up'[v] = up[v] /\ down'[v] = down[v]
    BY <1>3 DEF Relinks, Relinked
  <2>3. QED
    BY <1>1, <2>1, <2>2 DEF Found, InSlot, OnWire
<1>4. CASE Talks
  <2>1. UNCHANGED <<sock, stopping, reg, slot, queue>> /\ sock[v] = "open" /\ attempt'[t] = n /\ Held(v, t)'
    BY <1>4 DEF Talks, OnAttempt
  <2>2. WP!Msgs(down[v]) \subseteq WP!Msgs(down'[v]) /\ WP!Msgs(down'[v]) \subseteq W!DownMsg
    <3>1. PICK s : SaysTo(v, s)
      BY <1>4 DEF Talks
    <3>2. down'[v] \in Seq(W!DownMsg) /\ WP!Msgs(down'[v]) = WP!Msgs(down[v]) \cup WP!Msgs(s)
      BY <1>0, <3>1, ConcatOrder DEF SaysTo
    <3>3. QED
      BY <3>2, OfItsKind
  <2>3. ASSUME W!Assigned(t, n) \in WP!Msgs(down'[v]) \/ W!Resumed(t, n) \in WP!Msgs(down'[v]) PROVE Found(v, t, n)'
    BY <2>2, <2>3 DEF Found, OnWire, Offers, W!Assigned, W!Resumed
  <2>4. CASE attempt'[t] # attempt[t] /\ W!Assigned(t, attempt'[t]) \in WP!Msgs(down'[v])
    BY <2>1, <2>3, <2>4
  <2>5. CASE /\ attempt'[t] = attempt[t]
             /\ \/ W!Resumed(t, attempt[t]) \in WP!Msgs(down'[v])
                \/ \E x \in todo' : x.task = t /\ x.agent = v
    BY <2>1, <2>3, <2>5 DEF Found
  <2>6. CASE /\ conn[v] = "ready" /\ Held(v, t) /\ attempt'[t] = attempt[t]
             /\ \A m \in WP!Msgs(up[v]) :
                  m.type \in Reports /\ m.task = t /\ m.attempt = attempt[t] => m \in WP!Msgs(up'[v])
             /\ \A x \in todo : x.task = t /\ (x.op = "fail" => x.agent = v) => x \in todo'
    <3>1. Found(v, t, n) /\ attempt[t] = n
      BY <1>1, <2>1, <2>6 DEF OnAttempt
    <3>2. InSlot(v, t, n) => InSlot(v, t, n)'
      BY <2>1 DEF InSlot
    <3>3. OnWire(v, Offers(t, n)) => OnWire(v, Offers(t, n))'
      BY <2>2 DEF OnWire
    <3>4. Says(up[v], t, n) => Says(up[v], t, n)'
      BY <2>6, <3>1 DEF Says, WP!IsOn
    <3>5. ~reg[v] /\ Says(queue[v], t, n) => (~reg[v] /\ Says(queue[v], t, n))'
      BY <2>1
    <3>6. QED
      BY <2>6, <3>1, <3>2, <3>3, <3>4, <3>5 DEF Found
  <2>7. QED
    BY <1>0, <1>4, <2>1, <2>4, <2>5, <2>6, HubTells
<1>5. ASSUME NEW w \in Workers, WorkerActs(w) PROVE Found(v, t, n)'
  <2>1. UNCHANGED vars /\ WP!OnlyFor(w) /\ (Goes(w) \/ WP!Ends(w))
    BY <1>0, <1>5, WorkerGoes
  <2>2. conn[v] = "ready" /\ OnAttempt(v, t, n) /\ todo' = todo
    BY <2>1 DEF vars, rows, counters, registry, handler, OnAttempt, Held, IsActive
  <2>3. CASE v # w
    BY <1>1, <2>1, <2>2, <2>3 DEF WP!OnlyFor, WP!SameLink, WP!SameWork, WP!SameWires, Found, InSlot, OnWire
  <2>4. CASE v = w
    <3>1. sock[w] = "open" /\ ~stopping[w]
      BY <1>0, <2>1, <2>4, StaysLinked
    <3>2. QED
      BY <1>0, <1>1, <1>5, <2>2, <2>4, <3>1, WorkTracked
  <2>5. QED
    BY <2>3, <2>4
<1>6. QED
  BY <1>0, <1>2, <1>3, <1>4, <1>5

\* So it stays, whatever happens.
LEMMA TraceHolds == FleetSpec => [](GroundInv /\ Named /\ SoundInv /\ TraceInv)
<1>1. GroundInv /\ Named /\ SoundInv /\ TraceInv /\ [FleetNext]_fleetVars => TraceInv'
  BY AbortStep, AnsweredStep, TrackedStep DEF TraceInv
<1>2. FleetInit => TraceInv
  <2> SUFFICES ASSUME FleetInit, NEW w \in Workers PROVE AbortOK(w) /\ Answered(w) /\ Tracked(w)
    BY DEF TraceInv
  <2>1. conn[w] # "ready"
    <3>1. w \in Agents
      BY FleetAssumption, ConductorAssumption
    <3>2. QED
      BY <3>1 DEF FleetInit, Init
  <2>2. slot[w].abort = "no"
    BY DEF FleetInit, W!WorkerInit, W!NoSlot
  <2>3. QED
    BY <2>1, <2>2 DEF AbortOK, Answered, Tracked
<1>3. QED
  BY <1>1, <1>2, SoundHolds, PTL DEF FleetSpec

\* Once everything sent has been read, what the hub believes to be with a worker that is not
\* about to exit is with it: no offer, no verdict and no report of a task is ever lost so that
\* the hub would go on believing in it.
THEOREM NoLostTaskHolds == FleetSpec => []NoLostTask
<1>1. GroundInv /\ TraceInv => NoLostTask
  <2> SUFFICES ASSUME GroundInv, TraceInv, NEW w \in Workers, NEW t \in HeldTasks(w), Settled(w), ~stopping[w]
               PROVE  slot[w].task = t /\ slot[w].attempt = attempt[t]
    BY DEF NoLostTask
  <2>1. /\ stage = "idle" /\ conn[w] = "ready" /\ sock[w] = "open" /\ reg[w]
        /\ up[w] = <<>> /\ down[w] = <<>>
    BY DEF Settled, Quiet, W!CanSend
  <2>2. t \in Tasks /\ Held(w, t) /\ attempt[t] \in W!Attempts
    <3>1. t \in Tasks /\ Held(w, t)
      BY DEF HeldTasks
    <3>2. attempt[t] \in Nat \ {0} /\ attempt[t] <= MaxAttempt
      BY <3>1, ActiveNumbered DEF Held, GroundInv, HubInv
    <3>3. MaxAttempt \in Nat
      BY FleetAssumption DEF W!WorkerAssumption
    <3>4. QED
      BY <3>1, <3>2, <3>3 DEF W!Attempts
  <2>3. Found(w, t, attempt[t])
    BY <2>1, <2>2 DEF TraceInv, Tracked, OnAttempt
  <2>4. WP!Msgs(up[w]) = {} /\ WP!Msgs(down[w]) = {}
    BY <2>1, OneOrNone
  <2>5. todo = {}
    BY <2>1 DEF GroundInv, HubInv, ListInv
  <2>6. InSlot(w, t, attempt[t])
    BY <2>1, <2>3, <2>4, <2>5 DEF Found, Says, OnWire
  <2>7. QED
    BY <2>6 DEF InSlot, WP!IsOn
<1>2. QED
  BY <1>1, TraceHolds, PTL

-----------------------------------------------------------------------------
(* While nothing has failed.                                               *)

Unfailed == \A w \in Workers : faults[w] = 0

\* Behind an offer of attempt n at t in q comes that it was taken back.
Chased(q, t, n) == \A i \in 1..Len(q) : q[i] = W!Assigned(t, n) => \E j \in i..Len(q) : q[j] = W!Revoked(t)

\* A connection once open stays so: no worker comes back with a task, and no one fails one for it.
LinkCalm(w) ==
  /\ ~stopping[w]
  /\ Online(w) => sock[w] = "open"
  /\ ~Online(w) => sock[w] = "none" /\ down[w] = <<>>
  /\ conn[w] # "ready" => HeldTasks(w) = {}
  /\ \A m \in WP!Msgs(down[w]) : m.type # "resumed"
  /\ \A x \in todo : x.op = "reclaim"

\* An attempt that the hub has taken from w is chased wherever it is; what is reported is over.
TaskCalm(w, t, n) ==
  /\ OnAttempt(w, t, n) \/ (/\ InSlot(w, t, n) /\ slot[w].abort = "no" => W!Revoked(t) \in WP!Msgs(down[w])
                            /\ Chased(down[w], t, n))
  /\ Says(up[w], t, n) \/ Says(queue[w], t, n) =>
       n <= attempt[t] /\ ~InSlot(w, t, n) /\ ~OnWire(w, Offers(t, n))

CalmInv == Unfailed => \A w \in Workers : LinkCalm(w) /\ \A t \in Tasks, n \in W!Attempts : TaskCalm(w, t, n)

\* Reading the first message: the chase is still behind an offer, and so it is behind the reader.
LEMMA ChasedTail ==
  ASSUME NEW S, NEW q \in Seq(S), q # <<>>, NEW t, NEW n, Chased(q, t, n)
  PROVE  /\ Chased(Tail(q), t, n)
         /\ q[1] = W!Assigned(t, n) => W!Revoked(t) \in WP!Msgs(Tail(q))
<1>1. Len(q) \in Nat /\ Len(q) >= 1
  BY EmptySeq, LenProperties
<1> DEFINE p == Tail(q)
<1>2. Len(p) = Len(q) - 1 /\ \A i \in 1..Len(p) : p[i] = q[i + 1]
  BY HeadTailProperties
<1> HIDE DEF p
<1>3. \A i \in 1..Len(p) : i + 1 \in 1..Len(q)
  BY <1>1, <1>2
<1>4. \A i \in 1..Len(q) : \A j \in i..Len(q) : 1 < j => j - 1 \in 1..Len(p) /\ p[j - 1] = q[j]
  BY <1>1, <1>2
<1>5. Chased(p, t, n)
  <2> SUFFICES ASSUME NEW i \in 1..Len(p), p[i] = W!Assigned(t, n) PROVE \E j \in i..Len(p) : p[j] = W!Revoked(t)
    BY DEF Chased
  <2>1. PICK j \in (i + 1)..Len(q) : q[j] = W!Revoked(t)
    BY <1>2, <1>3 DEF Chased
  <2>2. j - 1 \in i..Len(p) /\ p[j - 1] = W!Revoked(t)
    BY <1>1, <1>2, <1>3, <1>4, <2>1
  <2>3. QED
    BY <2>2
<1>6. ASSUME q[1] = W!Assigned(t, n) PROVE W!Revoked(t) \in WP!Msgs(p)
  <2>1. 1 \in 1..Len(q)
    BY <1>1
  <2>2. PICK j \in 1..Len(q) : q[j] = W!Revoked(t)
    BY <1>6, <2>1 DEF Chased
  <2>3. j # 1
    BY <1>6, <2>2 DEF W!Assigned, W!Revoked
  <2>4. j - 1 \in 1..Len(p) /\ p[j - 1] = W!Revoked(t)
    BY <1>4, <2>1, <2>2, <2>3
  <2>5. QED
    BY <2>4 DEF WP!Msgs
<1>7. QED
  BY <1>5, <1>6 DEF p

\* More is sent, without another offer: what was chased is, and a revocation chases all before it.
LEMMA ChasedConcat ==
  ASSUME NEW S, NEW q \in Seq(S), NEW s \in Seq(S), NEW t, NEW n,
         W!Assigned(t, n) \notin WP!Msgs(s),
         \/ Chased(q, t, n)
         \/ W!Assigned(t, n) \notin WP!Msgs(q)
         \/ W!Revoked(t) \in WP!Msgs(s)
  PROVE  Chased(q \o s, t, n)
<1>1. Len(q) \in Nat /\ Len(s) \in Nat /\ Len(q \o s) = Len(q) + Len(s)
  BY ConcatProperties, LenProperties
<1> DEFINE r == q \o s
<1>2. /\ \A i \in 1..Len(q) : i \in 1..Len(r) /\ r[i] = q[i]
      /\ \A j \in 1..Len(s) : Len(q) + j \in 1..Len(r) /\ r[Len(q) + j] = s[j]
      /\ \A i \in 1..Len(r) : i \in 1..Len(q) \/ (i - Len(q) \in 1..Len(s) /\ r[i] = s[i - Len(q)])
  BY <1>1, ConcatProperties
<1>3. Len(r) = Len(q) + Len(s)
  BY <1>1
<1> HIDE DEF r
<1> SUFFICES ASSUME NEW i \in 1..Len(r), r[i] = W!Assigned(t, n) PROVE \E j \in i..Len(r) : r[j] = W!Revoked(t)
  BY DEF Chased, r
<1>4. i \in 1..Len(q) /\ q[i] = W!Assigned(t, n)
  BY <1>2 DEF WP!Msgs
<1>5. CASE Chased(q, t, n)
  <2>1. PICK j \in i..Len(q) : q[j] = W!Revoked(t)
    BY <1>4, <1>5 DEF Chased
  <2>2. j \in i..Len(r) /\ r[j] = W!Revoked(t)
    BY <1>1, <1>2, <1>3, <1>4, <2>1
  <2>3. QED
    BY <2>2
<1>6. CASE W!Revoked(t) \in WP!Msgs(s)
  <2>1. PICK j \in 1..Len(s) : s[j] = W!Revoked(t)
    BY <1>6 DEF WP!Msgs
  <2>2. Len(q) + j \in i..Len(r) /\ r[Len(q) + j] = W!Revoked(t)
    BY <1>1, <1>2, <1>3, <1>4, <2>1
  <2>3. QED
    BY <2>2
<1>7. QED
  BY <1>4, <1>5, <1>6 DEF WP!Msgs

\* A step of a worker that leaves nothing failed is one of these.
LEMMA CalmWork ==
  ASSUME W!WorkerTypeOK, NEW w \in Workers, WorkerActs(w), Unfailed', LinkCalm(w)
  PROVE  /\ Unfailed /\ UNCHANGED vars /\ WP!OnlyFor(w) /\ sock'[w] = sock[w] /\ ~stopping'[w]
         /\ \/ /\ down'[w] = down[w]
               /\ WP!Drops(w) \/ WP!Begins(w) \/ WP!Waits(w) \/ WP!Ends(w)
            \/ /\ down[w] # <<>> /\ down'[w] = Tail(down[w])
               /\ \/ WP!Registers(w)
                  \/ \E t \in Tasks : WP!LosesTask(w, t)
                  \/ \E t \in Tasks, n \in W!Attempts : WP!Considers(w, "assigned", t, n)
<1>1. UNCHANGED vars /\ WP!OnlyFor(w) /\ (Goes(w) \/ WP!Ends(w))
  BY WorkerGoes
<1>2. faults \in [Workers -> Nat] /\ faults'[w] = 0
  BY FleetAssumption DEF W!WorkerTypeOK, W!WorkerAssumption, Unfailed
<1>3. sock[w] # "ending" /\ ~stopping[w]
  BY DEF LinkCalm
<1>4. ~WP!LosesLink(w) /\ ~WP!Starts(w) /\ ~WP!Stops(w) /\ ~WP!CutsLink(w)
  BY <1>2, <1>3 DEF WP!LosesLink, WP!Starts, WP!Stops, WP!CutsLink
<1>5. ASSUME NEW t \in Tasks, NEW n \in W!Attempts, WP!Considers(w, "resumed", t, n) PROVE FALSE
  BY <1>5, HeardFirst DEF WP!Considers, WP!Heard, LinkCalm
<1>6. /\ sock'[w] = sock[w] /\ stopping'[w] = stopping[w] /\ faults[w] = 0
      /\ \/ /\ down'[w] = down[w]
            /\ WP!Drops(w) \/ WP!Begins(w) \/ WP!Waits(w) \/ WP!Ends(w)
         \/ /\ down[w] # <<>> /\ down'[w] = Tail(down[w])
            /\ \/ WP!Registers(w)
               \/ \E t \in Tasks : WP!LosesTask(w, t)
               \/ \E t \in Tasks, n \in W!Attempts : WP!Considers(w, "assigned", t, n)
  <2>1. CASE WP!Drops(w) \/ WP!Begins(w) \/ WP!Waits(w) \/ WP!Ends(w)
    BY <1>2, <2>1 DEF WP!Drops, WP!Begins, WP!Waits, WP!Ends, WP!SameLink
  <2>2. CASE WP!Registers(w)
    BY <1>2, <2>2 DEF WP!Registers, WP!Heard
  <2>3. ASSUME NEW t \in Tasks, WP!LosesTask(w, t)
        PROVE  sock'[w] = sock[w] /\ stopping'[w] = stopping[w] /\ faults'[w] = faults[w] /\ down[w] # <<>> /\ down'[w] = Tail(down[w])
    BY <2>3 DEF WP!LosesTask, WP!Heard, WP!SameLink
  <2>4. ASSUME NEW t \in Tasks, NEW n \in W!Attempts, WP!Considers(w, "assigned", t, n)
        PROVE  sock'[w] = sock[w] /\ stopping'[w] = stopping[w] /\ faults'[w] = faults[w] /\ down[w] # <<>> /\ down'[w] = Tail(down[w])
    BY <2>4 DEF WP!Considers, WP!Heard, WP!SameLink
  <2>5. QED
    BY <1>1, <1>2, <1>4, <1>5, <2>1, <2>2, <2>3, <2>4 DEF Goes
<1>7. Unfailed
  <2>1. \A v \in Workers \ {w} : faults[v] = 0
    BY <1>1 DEF WP!OnlyFor, WP!SameLink, Unfailed
  <2>2. QED
    BY <1>6, <2>1 DEF Unfailed
<1>8. QED
  BY <1>1, <1>3, <1>6, <1>7

\* It leaves the connection as it is.
LEMMA LinkCalmWorks ==
  ASSUME W!WorkerTypeOK, NEW w \in Workers, WorkerActs(w), Unfailed', LinkCalm(w), NEW v \in Workers, LinkCalm(v)
  PROVE  LinkCalm(v)'
<1>1. /\ UNCHANGED vars /\ WP!OnlyFor(w) /\ sock'[w] = sock[w] /\ ~stopping'[w]
      /\ down'[w] = down[w] \/ (down[w] # <<>> /\ down'[w] = Tail(down[w]))
  BY CalmWork
<1>2. UNCHANGED <<conn, todo>> /\ HeldTasks(v)' = HeldTasks(v) /\ (Online(v)' <=> Online(v))
  <2>1. UNCHANGED <<conn, todo, status, holder>>
    BY <1>1 DEF vars, rows, registry, handler
  <2>2. QED
    BY <2>1 DEF HeldTasks, Held, IsActive, Online
<1>3. sock'[v] = sock[v] /\ ~stopping'[v] /\ (down'[v] = down[v] \/ (down[v] # <<>> /\ down'[v] = Tail(down[v])))
  <2>1. CASE v = w
    BY <1>1, <2>1
  <2>2. CASE v # w
    BY <1>1, <2>2 DEF WP!OnlyFor, WP!SameLink, LinkCalm
  <2>3. QED
    BY <2>1, <2>2
<1>4. WP!Msgs(down'[v]) \subseteq WP!Msgs(down[v])
  <2>1. down[v] \in Seq(W!DownMsg)
    BY DEF W!WorkerTypeOK
  <2>2. down[v] # <<>> => WP!Msgs(Tail(down[v])) \subseteq WP!Msgs(down[v])
    BY <2>1, TailOrder
  <2>3. QED
    BY <1>3, <2>2
<1>5. down[v] = <<>> => down'[v] = <<>>
  BY <1>3
<1>6. QED
  BY <1>2, <1>3, <1>4, <1>5 DEF LinkCalm

\* With it, what an attempt taken back leaves is read before the revocation that chases it.
LEMMA ChasedWorks ==
  ASSUME W!WorkerTypeOK, NEW w \in Workers, WorkerActs(w), Unfailed', LinkCalm(w),
         NEW t \in Tasks, NEW n \in W!Attempts,
         InSlot(w, t, n) /\ slot[w].abort = "no" => W!Revoked(t) \in WP!Msgs(down[w]),
         Chased(down[w], t, n)
  PROVE  /\ InSlot(w, t, n)' /\ slot'[w].abort = "no" => W!Revoked(t) \in WP!Msgs(down'[w])
         /\ Chased(down'[w], t, n)
<1>0. NoTask \notin Tasks /\ down[w] \in Seq(W!DownMsg)
  BY FleetAssumption DEF W!WorkerAssumption, W!WorkerTypeOK
<1>1. \/ /\ down'[w] = down[w]
         /\ WP!Drops(w) \/ WP!Begins(w) \/ WP!Waits(w) \/ WP!Ends(w)
      \/ /\ down[w] # <<>> /\ down'[w] = Tail(down[w])
         /\ \/ WP!Registers(w)
            \/ \E u \in Tasks : WP!LosesTask(w, u)
            \/ \E u \in Tasks, k \in W!Attempts : WP!Considers(w, "assigned", u, k)
  BY CalmWork
<1>2. ASSUME InSlot(w, t, n)' => InSlot(w, t, n), slot'[w].abort = slot[w].abort, down'[w] = down[w]
      PROVE  /\ InSlot(w, t, n)' /\ slot'[w].abort = "no" => W!Revoked(t) \in WP!Msgs(down'[w])
             /\ Chased(down'[w], t, n)
  BY <1>2
<1>3. CASE down'[w] = down[w] /\ (WP!Drops(w) \/ WP!Ends(w))
  <2>1. slot'[w].task = NoTask
    BY <1>3 DEF WP!Drops, WP!Ends, WP!NoSlot
  <2>2. ~InSlot(w, t, n)'
    BY <1>0, <2>1 DEF InSlot, WP!IsOn
  <2>3. QED
    BY <1>3, <2>2
<1>4. CASE down'[w] = down[w] /\ (WP!Begins(w) \/ WP!Waits(w))
  <2>1. slot'[w].task = slot[w].task /\ slot'[w].attempt = slot[w].attempt /\ slot'[w].abort = slot[w].abort
    BY <1>4, SlotMarked DEF WP!Begins, WP!Waits, WP!SameWork
  <2>2. QED
    BY <1>2, <1>4, <2>1 DEF InSlot, WP!IsOn
<1>5. CASE /\ down[w] # <<>> /\ down'[w] = Tail(down[w])
           /\ \/ WP!Registers(w)
              \/ \E u \in Tasks : WP!LosesTask(w, u)
              \/ \E u \in Tasks, k \in W!Attempts : WP!Considers(w, "assigned", u, k)
  <2>1. Chased(down'[w], t, n) /\ (down[w][1] = W!Assigned(t, n) => W!Revoked(t) \in WP!Msgs(down'[w]))
    BY <1>0, <1>5, ChasedTail
  <2>2. /\ WP!Msgs(down[w]) = {down[w][1]} \cup WP!Msgs(down'[w])
        /\ down[w][1] \in W!DownMsg
    BY <1>0, <1>5, TailOrder
  <2>3. ASSUME slot'[w] = slot[w], down[w][1] # W!Revoked(t), InSlot(w, t, n)', slot'[w].abort = "no"
        PROVE  W!Revoked(t) \in WP!Msgs(down'[w])
    BY <2>2, <2>3 DEF InSlot
  <2>4. CASE WP!Registers(w)
    <3>1. slot'[w] = slot[w] /\ down[w][1].type = "registered"
      BY <2>4 DEF WP!Registers, WP!Heard, WP!SameWork
    <3>2. down[w][1] # W!Revoked(t)
      BY <3>1 DEF W!Revoked
    <3>3. QED
      BY <2>1, <2>3, <3>1, <3>2
  <2>5. ASSUME NEW u \in Tasks, WP!LosesTask(w, u), InSlot(w, t, n)', slot'[w].abort = "no"
        PROVE  W!Revoked(t) \in WP!Msgs(down'[w])
    <3>1. CASE slot[w].task = u
      <4>1. slot'[w] = [slot[w] EXCEPT !.abort = IF slot[w].abort = "no" THEN "revoked" ELSE slot[w].abort]
        BY <2>5, <3>1 DEF WP!LosesTask
      <4>2. slot'[w].abort # "no"
        BY <4>1, SlotMarked
      <4>3. QED
        BY <2>5, <4>2
    <3>2. CASE slot[w].task # u
      <4>1. slot'[w] = slot[w] /\ down[w][1].task = u
        BY <2>5, <3>2 DEF WP!LosesTask
      <4>2. slot[w].task = t
        BY <2>5, <4>1 DEF InSlot, WP!IsOn
      <4>3. down[w][1] # W!Revoked(t)
        BY <3>2, <4>1, <4>2 DEF W!Revoked
      <4>4. QED
        BY <2>3, <2>5, <4>1, <4>3
    <3>3. QED
      BY <3>1, <3>2
  <2>6. ASSUME NEW u \in Tasks, NEW k \in W!Attempts, WP!Considers(w, "assigned", u, k), InSlot(w, t, n)', slot'[w].abort = "no"
        PROVE  W!Revoked(t) \in WP!Msgs(down'[w])
    <3>1. down[w][1].type = "assigned" /\ WP!IsOn(down[w][1], u, k)
      BY <2>6 DEF WP!Considers, WP!Heard
    <3>2. CASE slot'[w] = slot[w]
      <4>1. down[w][1] # W!Revoked(t)
        BY <3>1 DEF W!Revoked
      <4>2. QED
        BY <2>3, <2>6, <3>2, <4>1
    <3>3. CASE slot'[w] = [task |-> u, attempt |-> k, stage |-> "check", abort |-> "no"]
      <4>1. u = t /\ k = n
        BY <2>6, <3>3 DEF InSlot, WP!IsOn
      <4>2. down[w][1] = W!Assigned(t, n)
        BY <2>2, <3>1, <4>1 DEF W!DownMsg, W!Assigned, W!Registered, WP!IsOn
      <4>3. QED
        BY <2>1, <4>2
    <3>4. QED
      BY <2>6, <3>2, <3>3 DEF WP!Considers, WP!SameWork
  <2>7. QED
    BY <1>5, <2>1, <2>4, <2>5, <2>6
<1>6. QED
  BY <1>1, <1>3, <1>4, <1>5

\* Nothing is resumed where no connection was lost.
LEMMA OnlyFirstOffers ==
  ASSUME NEW w \in Workers, LinkCalm(w), NEW t \in Tasks, NEW n \in W!Attempts, OnWire(w, Offers(t, n))
  PROVE  OnWire(w, FirstOffer(t, n)) /\ ~OnWire(w, Again(t, n))
BY DEF LinkCalm, OnWire, Offers, FirstOffer, Again

\* What it reports is over for it: no more in its slot, nor on its way to it.
LEMMA SaysWorks ==
  ASSUME W!WorkerTypeOK, Named, SoundInv, NEW w \in Workers, WorkerActs(w), Unfailed', LinkCalm(w), LinkCalm(w)',
         NEW t \in Tasks, NEW n \in W!Attempts,
         Says(up[w], t, n) \/ Says(queue[w], t, n) => n <= attempt[t] /\ ~InSlot(w, t, n) /\ ~OnWire(w, Offers(t, n)),
         Says(up'[w], t, n) \/ Says(queue'[w], t, n)
  PROVE  n <= attempt[t] /\ ~InSlot(w, t, n)' /\ ~OnWire(w, Offers(t, n))'
<1>0. NoTask \notin Tasks /\ down[w] \in Seq(W!DownMsg)
  BY FleetAssumption DEF W!WorkerAssumption, W!WorkerTypeOK
<1>1. \/ /\ down'[w] = down[w]
         /\ WP!Drops(w) \/ WP!Begins(w) \/ WP!Waits(w) \/ WP!Ends(w)
      \/ /\ down[w] # <<>> /\ down'[w] = Tail(down[w])
         /\ \/ WP!Registers(w)
            \/ \E u \in Tasks : WP!LosesTask(w, u)
            \/ \E u \in Tasks, k \in W!Attempts : WP!Considers(w, "assigned", u, k)
  BY CalmWork
<1> DEFINE Said == Says(up[w], t, n) \/ Says(queue[w], t, n)
\* Words are no reports.
<1>2. \A q, p, R : WP!Gains(q, p, R) /\ Says(q, t, n) => Says(p, t, n) \/ \E m \in R : m.type \in Reports /\ WP!IsOn(m, t, n)
  BY DEF WP!Gains, WP!Words, Says, Reports, Verdicts
<1>3. ~Says(<<>>, t, n)
  BY OneOrNone DEF Says
<1>4. ASSUME NEW R, WP!Sends(w, R) PROVE Said \/ \E m \in R : m.type \in Reports /\ WP!IsOn(m, t, n)
  BY <1>2, <1>4 DEF WP!Sends
<1>5. Shrinks(down'[w], down[w])
  BY <1>0, <1>1, Shrinking
<1>6. InSlot(w, t, n)' => InSlot(w, t, n) \/ (down[w] # <<>> /\ down[w][1] \in Offers(t, n))
  <2>1. CASE WP!Drops(w) \/ WP!Ends(w)
    BY <1>0, <2>1 DEF WP!Drops, WP!Ends, WP!NoSlot, InSlot, WP!IsOn
  <2>2. CASE WP!Begins(w) \/ WP!Waits(w) \/ WP!Registers(w)
    BY <2>2, SlotMarked DEF WP!Begins, WP!Waits, WP!Registers, WP!SameWork, InSlot, WP!IsOn
  <2>3. CASE \E u \in Tasks : WP!LosesTask(w, u)
    <3> DEFINE mark == IF slot[w].abort = "no" THEN "revoked" ELSE slot[w].abort
    <3>1. slot'[w] = slot[w] \/ slot'[w] = [slot[w] EXCEPT !.abort = mark]
      BY <2>3 DEF WP!LosesTask
    <3>2. [slot[w] EXCEPT !.abort = mark] = [task |-> slot[w].task, attempt |-> slot[w].attempt, stage |-> slot[w].stage, abort |-> mark]
      BY SlotMarked
    <3> HIDE DEF mark
    <3>3. slot'[w].task = slot[w].task /\ slot'[w].attempt = slot[w].attempt
      BY <3>1, <3>2
    <3>4. QED
      BY <3>3 DEF InSlot, WP!IsOn
  <2>4. ASSUME NEW u \in Tasks, NEW k \in W!Attempts, WP!Considers(w, "assigned", u, k), InSlot(w, t, n)', ~InSlot(w, t, n)
        PROVE  down[w] # <<>> /\ down[w][1] \in Offers(t, n)
    <3>1. u = t /\ k = n
      BY <2>4 DEF WP!Considers, WP!SameWork, InSlot, WP!IsOn
    <3>2. down[w] # <<>> /\ down[w][1].type = "assigned" /\ WP!IsOn(down[w][1], t, n)
      BY <2>4, <3>1 DEF WP!Considers, WP!Heard
    <3>3. QED
      BY <3>2, HeardFirst DEF Offers, WP!IsOn
  <2>5. QED
    BY <1>1, <2>1, <2>2, <2>3, <2>4
<1>7. CASE Said
  <2>1. n <= attempt[t] /\ ~InSlot(w, t, n) /\ ~OnWire(w, Offers(t, n))
    BY <1>7
  <2>2. ~(down[w] # <<>> /\ down[w][1] \in Offers(t, n))
    BY <2>1, HeardFirst DEF OnWire
  <2>3. QED
    BY <1>5, <1>6, <2>1, <2>2 DEF OnWire, Shrinks
<1>8. CASE ~Said
  <2>1. ~WP!Begins(w) /\ ~WP!Waits(w) /\ ~WP!Registers(w) /\ \A u \in Tasks : ~WP!LosesTask(w, u)
    <3>1. WP!Begins(w) \/ WP!Waits(w) => FALSE
      BY <1>4, <1>8 DEF WP!Begins, WP!Waits
    <3>2. WP!Registers(w) => FALSE
      BY <1>2, <1>3, <1>8 DEF WP!Registers, WP!SameWires, WP!Gains, Says
    <3>3. \A u \in Tasks : ~WP!LosesTask(w, u)
      BY <1>8 DEF WP!LosesTask, WP!SameWires
    <3>4. QED
      BY <3>1, <3>2, <3>3
  <2>2. CASE WP!Drops(w) \/ WP!Ends(w)
    <3>1. InSlot(w, t, n)
      <4>1. WP!Sends(w, {}) \/ \E kind \in Reports : WP!Sends(w, {[type |-> kind, task |-> slot[w].task, attempt |-> slot[w].attempt]})
        BY <2>2 DEF WP!Drops, WP!Ends, Reports, Verdicts
      <4>2. ~WP!Sends(w, {})
        BY <1>4, <1>8
      <4>3. PICK kind \in Reports : WP!Sends(w, {[type |-> kind, task |-> slot[w].task, attempt |-> slot[w].attempt]})
        BY <4>1, <4>2
      <4>4. \E m \in {[type |-> kind, task |-> slot[w].task, attempt |-> slot[w].attempt]} : m.type \in Reports /\ WP!IsOn(m, t, n)
        BY <1>4, <1>8, <4>3
      <4>5. QED
        BY <4>4 DEF InSlot, WP!IsOn
    <3>2. ~InSlot(w, t, n)' /\ down'[w] = down[w]
      BY <1>0, <2>2 DEF WP!Drops, WP!Ends, WP!NoSlot, InSlot, WP!IsOn
    <3>3. n <= attempt[t] /\ ~OnWire(w, FirstOffer(t, n))
      BY <3>1 DEF Named, Knows, SoundInv, Sound, InOrder
    <3>4. ~OnWire(w, Offers(t, n))
      BY <3>3, OnlyFirstOffers
    <3>5. QED
      BY <3>2, <3>3, <3>4 DEF OnWire
  <2>3. ASSUME NEW u \in Tasks, NEW k \in W!Attempts, WP!Considers(w, "assigned", u, k)
        PROVE  n <= attempt[t] /\ ~InSlot(w, t, n)' /\ ~OnWire(w, Offers(t, n))'
    <3>1. ~WP!SameWires(w)
      BY <1>8 DEF WP!SameWires
    <3>2. /\ WP!Sends(w, {[type |-> "busydecline", task |-> u, attempt |-> k]}) /\ slot'[w] = slot[w]
          /\ WP!Heard(w, "assigned") /\ WP!IsOn(down[w][1], u, k)
      BY <2>3, <3>1 DEF WP!Considers
    <3>3. u = t /\ k = n
      BY <1>4, <1>8, <3>2 DEF WP!IsOn
    <3>4. /\ down[w][1] \in Offers(t, n) /\ down[w][1] \in FirstOffer(t, n)
          /\ down[w] # <<>> /\ down'[w] = Tail(down[w]) /\ down[w][1] \in WP!Msgs(down[w])
      BY <3>2, <3>3, HeardFirst DEF WP!Heard, WP!IsOn, Offers, FirstOffer
    <3>5. OnWire(w, Offers(t, n)) /\ OnWire(w, FirstOffer(t, n))
      BY <3>4 DEF OnWire
    <3>6. n <= attempt[t] /\ ~InSlot(w, t, n)
      BY <3>5 DEF Named, Knows, SoundInv, Sound, InOrder
    <3>7. WP!Msgs(down'[w]) \cap FirstOffer(t, n) = {}
      BY <3>4, HeardFirst DEF SoundInv, Sound, InOrder
    <3>8. WP!Msgs(down'[w]) \cap Offers(t, n) = {}
      BY <3>7 DEF LinkCalm, Offers, FirstOffer
    <3>9. QED
      BY <3>2, <3>6, <3>8 DEF InSlot, OnWire
  <2>4. QED
    BY <1>1, <2>1, <2>2, <2>3
<1>9. QED
  BY <1>7, <1>8

\* A worker that reads and works leaves it so for itself and the others.
LEMMA TaskCalmWorks ==
  ASSUME W!WorkerTypeOK, Named, SoundInv, NEW w \in Workers, WorkerActs(w), Unfailed', LinkCalm(w), LinkCalm(w)',
         NEW v \in Workers, NEW t \in Tasks, NEW n \in W!Attempts, TaskCalm(v, t, n)
  PROVE  TaskCalm(v, t, n)'
<1>1. UNCHANGED vars /\ WP!OnlyFor(w)
  BY CalmWork
<1>2. attempt' = attempt /\ (OnAttempt(v, t, n)' <=> OnAttempt(v, t, n))
  BY <1>1 DEF vars, rows, counters, OnAttempt, Held, IsActive
<1>3. CASE v # w
  <2>1. slot'[v] = slot[v] /\ down'[v] = down[v] /\ up'[v] = up[v] /\ queue'[v] = queue[v]
    BY <1>1, <1>3 DEF WP!OnlyFor, WP!SameWork, WP!SameWires
  <2>2. QED
    BY <1>2, <2>1 DEF TaskCalm, InSlot, OnWire
<1>4. CASE v = w
  <2>1. OnAttempt(w, t, n)' \/ (/\ InSlot(w, t, n)' /\ slot'[w].abort = "no" => W!Revoked(t) \in WP!Msgs(down'[w])
                                /\ Chased(down'[w], t, n))
    BY <1>2, <1>4, ChasedWorks DEF TaskCalm
  <2>2. Says(up'[w], t, n) \/ Says(queue'[w], t, n) => n <= attempt[t] /\ ~InSlot(w, t, n)' /\ ~OnWire(w, Offers(t, n))'
    BY <1>4, SaysWorks DEF TaskCalm
  <2>3. QED
    BY <1>2, <1>4, <2>1, <2>2 DEF TaskCalm
<1>5. QED
  BY <1>3, <1>4

\* Of the connections, a step that leaves nothing failed opens one at most.
LEMMA CalmMoves ==
  ASSUME W!WorkerTypeOK, FleetNext, Unfailed', \A w \in Workers : LinkCalm(w), Workers # {}
  PROVE  \/ HubStep \/ \E w \in Workers : HubReads(w)
         \/ \E w \in Workers : Opens(w)
         \/ \E w \in Workers : WorkerActs(w)
<1>1. faults \in [Workers -> Nat]
  BY FleetAssumption DEF W!WorkerTypeOK, W!WorkerAssumption
<1>2. ASSUME NEW w \in Workers, HubCloses(w) PROVE FALSE
  <2>1. Online(w)
    BY <1>2 DEF HubCloses, Close
  <2>2. sock[w] = "open"
    BY <2>1 DEF LinkCalm
  <2>3. faults' = [faults EXCEPT ![w] = faults[w] + 1]
    BY <1>2, <2>2 DEF HubCloses, W!Fault
  <2>4. faults'[w] = faults[w] + 1 /\ faults[w] \in Nat
    BY <1>1, <2>3
  <2>5. faults'[w] = 0
    BY DEF Unfailed
  <2>6. QED
    BY <2>4, <2>5
<1>3. ASSUME NEW w \in Workers, NoticesHubGone(w) PROVE FALSE
  BY <1>3 DEF NoticesHubGone, W!Ending, LinkCalm
<1>4. ASSUME HubDies PROVE FALSE
  <2>1. PICK w \in Workers : TRUE
    OBVIOUS
  <2>2. faults'[w] = faults[w] + 1 /\ faults[w] \in Nat /\ faults'[w] = 0
    BY <1>1, <1>4 DEF HubDies, Unfailed
  <2>3. QED
    BY <2>2
<1>5. QED
  BY <1>2, <1>3, <1>4 DEF FleetNext

\* A worker that connects has nothing, for the hub and in truth.
LEMMA CalmOpens ==
  ASSUME TypeOK, W!WorkerTypeOK, NEW w \in Workers, Opens(w), NEW v \in Workers, LinkCalm(v)
  PROVE  /\ LinkCalm(v)'
         /\ \A t \in Tasks, n \in W!Attempts : TaskCalm(v, t, n) => TaskCalm(v, t, n)'
<1>0. v \in Agents /\ w \in Agents /\ w \in Protocol2
  BY FleetAssumption, ConductorAssumption
<1>1. /\ conn' = [conn EXCEPT ![w] = "open"] /\ UNCHANGED <<status, holder, attempt, todo>>
      /\ sock[w] = "none" /\ sock' = [sock EXCEPT ![w] = "open"]
      /\ up' = [up EXCEPT ![w] = <<W!RegisterMsg(W!Reported(w))>>] /\ down' = [down EXCEPT ![w] = <<>>]
      /\ UNCHANGED <<slot, queue, stopping>>
  BY <1>0 DEF Opens, Connect, W!Open, rows, counters, handler
<1>2. HeldTasks(v)' = HeldTasks(v) /\ \A t \in Tasks : Held(v, t)' <=> Held(v, t)
  BY <1>1 DEF HeldTasks, Held, IsActive
<1>3. \A t \in Tasks, n \in W!Attempts : OnAttempt(v, t, n)' <=> OnAttempt(v, t, n)
  BY <1>1, <1>2 DEF OnAttempt
<1>4. CASE v # w
  <2>1. conn'[v] = conn[v] /\ sock'[v] = sock[v] /\ up'[v] = up[v] /\ down'[v] = down[v]
    BY <1>0, <1>1, <1>4 DEF TypeOK, W!WorkerTypeOK
  <2>2. LinkCalm(v)'
    BY <1>1, <1>2, <2>1 DEF LinkCalm, Online
  <2>3. QED
    BY <1>1, <1>3, <2>1, <2>2 DEF TaskCalm, InSlot, OnWire
<1>5. CASE v = w
  <2>1. /\ conn'[v] = "open" /\ sock'[v] = "open" /\ up'[v] = <<W!RegisterMsg(W!Reported(v))>> /\ down'[v] = <<>>
    BY <1>0, <1>1, <1>5 DEF TypeOK, W!WorkerTypeOK
  <2>2. down[v] = <<>> /\ HeldTasks(v) = {}
    BY <1>1, <1>5 DEF LinkCalm, Online
  <2>3. WP!Msgs(down'[v]) = {} /\ WP!Msgs(up'[v]) = {W!RegisterMsg(W!Reported(v))}
    BY <2>1, OneOrNone
  <2>4. LinkCalm(v)'
    BY <1>1, <1>2, <2>1, <2>2, <2>3 DEF LinkCalm, Online
  <2>5. ASSUME NEW t \in Tasks, NEW n \in W!Attempts, TaskCalm(v, t, n) PROVE TaskCalm(v, t, n)'
    <3>1. ~OnAttempt(v, t, n)
      BY <2>2 DEF HeldTasks, OnAttempt
    <3>2. ~Says(up'[v], t, n)
      BY <2>3 DEF Says, W!RegisterMsg, Reports, Verdicts
    <3>3. down'[v] = down[v] /\ ~OnWire(v, Offers(t, n))'
      BY <2>1, <2>2, <2>3 DEF OnWire
    <3>4. QED
      BY <1>1, <2>5, <3>1, <3>2, <3>3 DEF TaskCalm, InSlot
  <2>6. QED
    BY <2>4, <2>5
<1>6. QED
  BY <1>4, <1>5

\* A frame that costs an agent its task is its own report of the attempt.
LEMMA ReadLoses ==
  ASSUME TypeOK, LifeInv, W!WorkerTypeOK, NEW w \in Workers, HubReads(w),
         NEW v \in Agents, NEW t \in Tasks, Held(v, t), ~Held(v, t)'
  PROVE  v = w /\ up[w][1] \in WP!Msgs(up[w]) /\ up[w][1].type \in Reports /\ WP!IsOn(up[w][1], t, attempt[t])
<1>1. up[w] \in Seq(W!UpMsg) /\ up[w] # <<>>
  BY DEF HubReads, W!WorkerTypeOK
<1>2. PICK m : m = up[w][1]
  OBVIOUS
<1>3. m \in W!UpMsg /\ m \in WP!Msgs(up[w]) /\ Handles(w, m)
  BY <1>1, <1>2, HeadTailProperties, TailOrder DEF HubReads
<1>4. status[t] \in Active /\ status[t] # "blocked" /\ Kind[t] # "group"
  BY DEF Held, IsActive, Active, LifeInv, Life!OnlyWorkRuns, Life!Locking, Life!Active
<1>5. ~(status'[t] = status[t] /\ holder'[t] = holder[t])
  BY DEF Held, IsActive
<1>6. m.type \in Reports
  <2>1. CASE m.type = "register"
    BY <1>3, <1>5, <2>1 DEF Handles, Register, rows
  <2>2. CASE m.type \in {"idle", "busy"}
    BY <1>3, <1>5, <2>2 DEF Handles, StatusUpdate, rows
  <2>3. CASE m.type = "accept"
    <3>1. Accept(w, m.task) \/ UNCHANGED vars
      BY <1>3, <2>3 DEF Handles
    <3>2. CASE Accept(w, m.task)
      <4>1. status' = [status EXCEPT ![m.task] = "accepted"] /\ holder' = holder
        BY <3>2 DEF Accept
      <4>2. status'[t] = status[t] \/ status'[t] = "accepted"
        BY <4>1 DEF TypeOK
      <4>3. QED
        BY <1>4, <4>1, <4>2 DEF Held, IsActive, Active
    <3>3. QED
      BY <1>5, <3>1, <3>2 DEF vars, rows
  <2>4. QED
    BY <1>3, <2>1, <2>2, <2>3 DEF W!UpMsg, Reports, Verdicts
<1>7. m.task \in Tasks /\ m.attempt \in W!Attempts
  BY <1>3, <1>6 DEF W!UpMsg, Reports, Verdicts
<1>8. /\ Held(w, m.task) /\ Current(m.task, m.attempt)
      /\ \/ m.type = "completed" /\ Finish(m.task, "completed")
         \/ m.type # "completed" /\ ToPending(m.task)
  <2>1. ~UNCHANGED vars
    BY <1>5 DEF vars, rows
  <2>2. CASE m.type = "completed"
    <3>1. WorkerComplete(w, m.task, "completed", m.attempt)
      BY <1>3, <2>1, <2>2 DEF Handles
    <3>2. QED
      BY <2>2, <3>1 DEF WorkerComplete
  <2>3. CASE m.type # "completed"
    <3>1. \/ WorkerFail(w, m.task, m.attempt) \/ (\E r \in Routes : QuotaExhausted(w, m.task, r, m.attempt))
          \/ Decline(w, m.task, m.attempt) \/ DeclineBusy(w, m.task, m.attempt)
      BY <1>3, <1>6, <2>1, <2>3 DEF Handles, Reports, Verdicts
    <3>2. QED
      BY <2>3, <3>1 DEF WorkerFail, CountFailure, QuotaExhausted, Decline, DeclineBusy
  <2>4. QED
    BY <2>2, <2>3
<1>9. t = m.task
  <2> SUFFICES ASSUME t # m.task PROVE FALSE
    OBVIOUS
  <2>1. CASE ToPending(m.task)
    <3>1. status' = [status EXCEPT ![m.task] = "pending"] /\ holder' = [x \in Tasks |-> IF x \in {m.task} THEN NoAgent ELSE holder[x]]
      BY <2>1 DEF ToPending, Unassign
    <3>2. QED
      BY <1>5, <3>1 DEF TypeOK
  <2>2. CASE Finish(m.task, "completed")
    <3>1. /\ holder' = holder
          /\ status' = [status EXCEPT ![m.task] = "review"] \/ status' = Complete(status, deps, m.task)
      BY <2>2 DEF Finish
    <3>2. ASSUME status' = Complete(status, deps, m.task) PROVE status'[t] = status[t]
      <4>1. LET c == Complete(status, deps, m.task) IN
              \/ ClosedRow(status, t) \/ FreedRow(status, c, deps, t) \/ c[t] = status[t]
        BY <1>7, CompleteRow, RowTypes
      <4>2. QED
        BY <1>4, <3>2, <4>1 DEF ClosedRow, FreedRow
    <3>3. QED
      BY <1>5, <3>1, <3>2 DEF TypeOK
  <2>3. QED
    BY <1>8, <2>1, <2>2
<1>10. v = w /\ m.attempt = attempt[t]
  <2>1. m.attempt # 0
    BY <1>7 DEF W!Attempts
  <2>2. QED
    BY <1>8, <1>9, <2>1 DEF Held, Current
<1>11. QED
  BY <1>2, <1>3, <1>6, <1>9, <1>10 DEF WP!IsOn

\* The hub says nothing into a connection that is not there.
LEMMA SilentOffline ==
  ASSUME W!WorkerTypeOK, HubStep \/ \E w \in Workers : HubReads(w), NEW v \in Workers, ~Online(v)
  PROVE  down'[v] = down[v]
<1>1. CASE TellNobody
  BY <1>1 DEF TellNobody
<1>2. CASE Tell
  BY <1>2 DEF Tell, Pushed
<1>3. CASE HubStep
  BY <1>1, <1>2, <1>3 DEF HubStep
<1>4. ASSUME NEW w \in Workers, HubReads(w) PROVE down'[v] = down[v]
  <2>1. v # w /\ Handles(w, Head(up[w]))
    BY <1>4 DEF HubReads
  <2>2. TellNobody \/ \E s : down' = [down EXCEPT ![w] = s]
    BY <2>1 DEF Handles
  <2>3. QED
    BY <1>1, <2>1, <2>2 DEF W!WorkerTypeOK
<1>5. QED
  BY <1>3, <1>4

\* While the hub talks, it takes no one for lost, and no one back.
LEMMA LinkCalmTalks ==
  ASSUME GroundInv, W!WorkerTypeOK, HandsOver, FleetNext, Talks, \A u \in Workers : LinkCalm(u), NEW v \in Workers
  PROVE  LinkCalm(v)'
<1>0. v \in Agents /\ LinkCalm(v) /\ \A u \in Workers : Linked(u)
  BY FleetAssumption, ConductorAssumption DEF GroundInv, LinkInv
<1>1. stopping'[v] = stopping[v] /\ sock'[v] = sock[v] /\ Reads(v) /\ (HubStep \/ \E w \in Workers : HubReads(w))
  BY DEF Talks
<1>2. ASSUME NEW u \in Workers, up[u] # <<>>, up[u][1].type = "register" PROVE conn[u] = "open"
  <2>1. up[u][1] \in WP!Msgs(up[u])
    BY <1>2, TailOrder DEF W!WorkerTypeOK
  <2>2. QED
    BY <1>0, <1>2, <2>1 DEF Linked
<1>3. Registering(v) => conn[v] = "open"
  BY <1>2 DEF Registering
<1>4. Online(v)' <=> Online(v)
  BY <1>1, <1>3 DEF Reads, Registering, Online
<1>5. ~Online(v) => down'[v] = down[v]
  BY <1>1, SilentOffline
<1>6. conn'[v] # "ready" => HeldTasks(v)' = {}
  <2>1. SUFFICES ASSUME conn'[v] # "ready" PROVE HeldTasks(v)' = {}
    OBVIOUS
  <2>2. conn[v] # "ready"
    BY <1>1, <2>1 DEF Reads, Registering
  <2>3. HeldTasks(v) = {}
    BY <1>0, <2>2 DEF LinkCalm
  <2>4. QED
    BY <1>0, <2>2, <2>3 DEF HandsOver, HeldTasks
<1>7. \A m \in WP!Msgs(down'[v]) : m.type # "resumed"
  <2>1. PICK s : SaysTo(v, s)
    BY DEF Talks
  <2>2. WP!Msgs(down'[v]) = WP!Msgs(down[v]) \cup WP!Msgs(s) /\ WP!Msgs(s) \subseteq W!DownMsg
    BY <2>1, ConcatOrder, OfItsKind DEF SaysTo, W!WorkerTypeOK
  <2>3. ASSUME NEW m \in WP!Msgs(s), m.type = "resumed" PROVE FALSE
    <3>1. Registering(v) /\ OnAttempt(v, m.task, m.attempt)
      BY <2>1, <2>3 DEF SaysTo
    <3>2. m.task \in Tasks
      BY <2>2, <2>3 DEF W!DownMsg, W!Registered
    <3>3. HeldTasks(v) = {}
      BY <1>0, <1>3, <3>1 DEF LinkCalm
    <3>4. QED
      BY <3>1, <3>2, <3>3 DEF OnAttempt, HeldTasks
  <2>4. QED
    BY <1>0, <2>2, <2>3 DEF LinkCalm
<1>8. \A x \in todo' : x.op = "reclaim"
  <2> SUFFICES ASSUME NEW x \in todo', x.op # "reclaim" PROVE FALSE
    OBVIOUS
  <2>1. x \notin todo
    BY <1>0 DEF LinkCalm
  <2>2. PICK w \in Workers : HubReads(w) /\ up[w][1].type = "register" /\ x \in Leftovers(w, up[w][1].task)
    BY <2>1, NewlyFailed
  <2>3. conn[w] = "open"
    BY <1>2, <2>2 DEF HubReads
  <2>4. HeldTasks(w) = {}
    BY <2>3 DEF LinkCalm
  <2>5. QED
    BY <2>2, <2>4 DEF Leftovers
<1>9. QED
  BY <1>0, <1>1, <1>4, <1>5, <1>6, <1>7, <1>8 DEF LinkCalm

\* What the hub takes from a worker that has not reported it, it revokes.
LEMMA TakenChased ==
  ASSUME GroundInv, W!WorkerTypeOK, HandsOver, Talks, \A u \in Workers : LinkCalm(u),
         NEW v \in Workers, NEW t \in Tasks, NEW n \in W!Attempts, OnAttempt(v, t, n), ~Held(v, t)', TaskCalm(v, t, n)
  PROVE  \/ ~InSlot(v, t, n) /\ ~OnWire(v, Offers(t, n))
         \/ \E s : SaysTo(v, s) /\ W!Revoked(t) \in WP!Msgs(s)
<1>0. v \in Agents /\ TypeOK /\ LifeInv /\ OneHeld /\ Held(v, t) /\ attempt[t] = n
  BY FleetAssumption, ConductorAssumption DEF GroundInv, HubInv, OnAttempt
<1>1. Online(v) /\ sock[v] = "open"
  BY <1>0 DEF LinkCalm, HeldTasks, Online
<1>2. ASSUME NEW w \in Workers, HubReads(w) PROVE ~InSlot(v, t, n) /\ ~OnWire(v, Offers(t, n))
  <2>1. v = w /\ up[w][1] \in WP!Msgs(up[w]) /\ up[w][1].type \in Reports /\ WP!IsOn(up[w][1], t, n)
    BY <1>0, <1>2, ReadLoses
  <2>2. Says(up[v], t, n)
    BY <2>1 DEF Says
  <2>3. QED
    BY <2>2 DEF TaskCalm
<1>3. CASE HubStep
  <2>1. CASE Tell
    <3>1. t \in TakenFrom(v)
      BY <1>0 DEF TakenFrom, HeldTasks, Held
    <3>2. QED
      BY <1>0, <1>1, <2>1, <3>1, TellSays
  <2>2. CASE ~Tell
    <3>1. ~\E x \in todo : x.op # "reclaim" /\ SettleNext(x)
      BY DEF LinkCalm
    <3>2. RestartEnd \/ (\E u \in Tasks : LeaseExpires(u)) \/ (\E w \in Workers : GoneLong(w))
      BY <1>3, <2>2, <3>1 DEF HubStep
    <3>3. UNCHANGED <<status, holder>>
      BY <3>2 DEF RestartEnd, LeaseExpires, GoneLong, rows
    <3>4. QED
      BY <1>0, <3>3 DEF Held, IsActive
  <2>3. QED
    BY <2>1, <2>2
<1>4. QED
  BY <1>2, <1>3 DEF Talks

\* And what the hub reads is taken off the wire, or stays as true as it was.
LEMMA TaskCalmTalks ==
  ASSUME GroundInv, W!WorkerTypeOK, HandsOver, Talks, \A u \in Workers : LinkCalm(u),
         NEW v \in Workers, LinkCalm(v)', NEW t \in Tasks, NEW n \in W!Attempts, TaskCalm(v, t, n)
  PROVE  TaskCalm(v, t, n)'
<1>0. /\ v \in Agents /\ n \in Nat /\ attempt[t] \in Nat
      /\ attempt'[t] = attempt[t] \/ attempt'[t] = attempt[t] + 1
  BY FleetAssumption, ConductorAssumption DEF W!Attempts, GroundInv, HubInv, TypeOK, HandsOver
<1>1. slot'[v] = slot[v] /\ queue'[v] = queue[v] /\ Reads(v) /\ down[v] \in Seq(W!DownMsg)
  BY DEF Talks, W!WorkerTypeOK
<1>2. ASSUME NEW s, SaysTo(v, s)
      PROVE  /\ s \in Seq(W!DownMsg) /\ down'[v] = down[v] \o s
             /\ WP!Msgs(down'[v]) = WP!Msgs(down[v]) \cup WP!Msgs(s)
             /\ W!Assigned(t, n) \in WP!Msgs(s) => OnAttempt(v, t, n)' /\ n = attempt[t] + 1
  BY <1>1, <1>2, ConcatOrder DEF SaysTo, W!Assigned, OnAttempt
<1>3. W!Assigned(t, n) \in Offers(t, n)
  BY DEF W!Assigned, Offers, W!DownMsg
<1>4. ASSUME ~OnAttempt(v, t, n)'
      PROVE  /\ InSlot(v, t, n)' /\ slot'[v].abort = "no" => W!Revoked(t) \in WP!Msgs(down'[v])
             /\ Chased(down'[v], t, n)
  <2>1. CASE ~OnAttempt(v, t, n)
    <3>1. PICK s : SaysTo(v, s)
      BY DEF Talks
    <3>2. Chased(down[v], t, n) /\ (InSlot(v, t, n) /\ slot[v].abort = "no" => W!Revoked(t) \in WP!Msgs(down[v]))
      BY <2>1 DEF TaskCalm
    <3>3. Chased(down'[v], t, n)
      BY <1>1, <1>2, <1>4, <3>1, <3>2, ChasedConcat
    <3>4. QED
      BY <1>1, <1>2, <3>1, <3>2, <3>3 DEF InSlot
  <2>2. CASE OnAttempt(v, t, n)
    <3>1. ~Held(v, t)'
      BY <1>0, <1>4, <2>2 DEF HandsOver, OnAttempt, HeldTasks
    <3>2. CASE ~InSlot(v, t, n) /\ ~OnWire(v, Offers(t, n))
      <4>1. PICK s : SaysTo(v, s)
        BY DEF Talks
      <4>2. W!Assigned(t, n) \notin WP!Msgs(down[v])
        BY <1>3, <3>2 DEF OnWire
      <4>3. s \in Seq(W!DownMsg) /\ down'[v] = down[v] \o s /\ W!Assigned(t, n) \notin WP!Msgs(s)
        BY <1>2, <1>4, <4>1
      <4>4. Chased(down'[v], t, n)
        BY <1>1, <4>2, <4>3, ChasedConcat
      <4>5. QED
        BY <1>1, <3>2, <4>4 DEF InSlot
    <3>3. CASE \E s : SaysTo(v, s) /\ W!Revoked(t) \in WP!Msgs(s)
      <4>1. PICK s : SaysTo(v, s) /\ W!Revoked(t) \in WP!Msgs(s)
        BY <3>3
      <4>2. s \in Seq(W!DownMsg) /\ down'[v] = down[v] \o s /\ W!Assigned(t, n) \notin WP!Msgs(s)
        BY <1>2, <1>4, <4>1
      <4>3. Chased(down'[v], t, n)
        BY <1>1, <4>1, <4>2, ChasedConcat
      <4>4. QED
        BY <1>2, <4>1, <4>3
    <3>4. QED
      BY <2>2, <3>1, <3>2, <3>3, TakenChased
  <2>3. QED
    BY <2>1, <2>2
<1>5. ASSUME Says(up'[v], t, n) \/ Says(queue'[v], t, n)
      PROVE  n <= attempt'[t] /\ ~InSlot(v, t, n)' /\ ~OnWire(v, Offers(t, n))'
  <2>1. WP!Msgs(up'[v]) \subseteq WP!Msgs(up[v])
    <3>1. up[v] \in Seq(W!UpMsg)
      BY DEF W!WorkerTypeOK
    <3>2. up[v] # <<>> => WP!Msgs(Tail(up[v])) \subseteq WP!Msgs(up[v])
      BY <3>1, TailOrder
    <3>3. QED
      BY <1>1, <3>2 DEF Reads
  <2>2. n <= attempt[t] /\ ~InSlot(v, t, n) /\ ~OnWire(v, Offers(t, n))
    BY <1>1, <1>5, <2>1 DEF TaskCalm, Says
  <2>3. PICK s : SaysTo(v, s)
    BY DEF Talks
  <2>4. ASSUME NEW m \in WP!Msgs(down'[v]), m \in Offers(t, n) PROVE FALSE
    <3>1. m \in WP!Msgs(s) /\ m.type = "assigned"
      BY <1>2, <2>2, <2>3, <2>4 DEF OnWire, Offers, LinkCalm
    <3>2. m.attempt = attempt[t] + 1
      BY <1>0, <2>3, <2>4, <3>1 DEF SaysTo, Offers
    <3>3. QED
      BY <1>0, <2>2, <2>4, <3>2 DEF Offers
  <2>5. QED
    BY <1>0, <1>1, <2>2, <2>4 DEF InSlot, OnWire
<1>6. QED
  BY <1>4, <1>5 DEF TaskCalm

\* What has failed stays counted.
LEMMA FaultsStay ==
  ASSUME W!WorkerTypeOK, [FleetNext]_fleetVars, Unfailed'
  PROVE  Unfailed
<1> SUFFICES ASSUME NEW v \in Workers PROVE faults[v] = 0
  BY DEF Unfailed
<1>1. faults \in [Workers -> Nat] /\ faults'[v] = 0
  BY FleetAssumption DEF W!WorkerTypeOK, W!WorkerAssumption, Unfailed
<1>2. faults[v] \in Nat /\ faults[v] + 1 # 0
  BY <1>1
<1>3. CASE UNCHANGED fleetVars \/ HubStep
  BY <1>1, <1>3 DEF fleetVars, W!workerVars, HubStep
<1>4. ASSUME NEW w \in Workers, HubReads(w) \/ Opens(w) \/ NoticesHubGone(w) PROVE faults[v] = 0
  BY <1>1, <1>4 DEF HubReads, Opens, W!Open, NoticesHubGone
<1>5. ASSUME NEW w \in Workers, HubCloses(w) PROVE faults[v] = 0
  <2>1. faults' = faults \/ faults' = [faults EXCEPT ![w] = faults[w] + 1]
    BY <1>5 DEF HubCloses, W!Fault
  <2>2. QED
    BY <1>1, <1>2, <2>1
<1>6. CASE HubDies
  BY <1>1, <1>2, <1>6 DEF HubDies
<1>7. ASSUME NEW w \in Workers, WorkerActs(w) PROVE faults[v] = 0
  <2>1. WP!OnlyFor(w) /\ (Goes(w) \/ WP!Ends(w))
    BY <1>7, WorkerGoes
  <2>2. CASE v # w
    BY <1>1, <2>1, <2>2 DEF WP!OnlyFor, WP!SameLink
  <2>3. CASE v = w
    <3>1. faults'[w] = faults[w] \/ faults'[w] = faults[w] + 1
      BY <2>1 DEF Goes, WP!Registers, WP!LosesTask, WP!Considers, WP!Drops, WP!Begins, WP!Waits, WP!LosesLink,
                  WP!Starts, WP!Stops, WP!CutsLink, WP!Ends, WP!SameLink
    <3>2. QED
      BY <1>1, <1>2, <2>3, <3>1
  <2>4. QED
    BY <2>2, <2>3
<1>8. QED
  BY <1>3, <1>4, <1>5, <1>6, <1>7 DEF FleetNext

\* As long as nothing fails, every attempt taken back is chased by its revocation.
LEMMA CalmStep ==
  ASSUME GroundInv, Named, SoundInv, CalmInv, [FleetNext]_fleetVars
  PROVE  CalmInv'
<1> SUFFICES ASSUME Unfailed', NEW v \in Workers
             PROVE  LinkCalm(v)' /\ \A t \in Tasks, n \in W!Attempts : TaskCalm(v, t, n)'
  BY DEF CalmInv
<1>1. HandsOver /\ W!WorkerTypeOK /\ TypeOK
  BY GroundStep DEF GroundInv, HubInv
<1>2. /\ \A u \in Workers : LinkCalm(u)
      /\ \A u \in Workers, t \in Tasks, n \in W!Attempts : TaskCalm(u, t, n)
  BY <1>1, FaultsStay DEF CalmInv
<1>3. CASE UNCHANGED fleetVars
  <2>1. LinkCalm(v)'
    BY <1>2, <1>3 DEF fleetVars, vars, rows, registry, handler, W!workerVars, W!client, W!wires, LinkCalm, Online, HeldTasks, Held, IsActive
  <2>2. \A t \in Tasks, n \in W!Attempts : TaskCalm(v, t, n)'
    BY <1>2, <1>3 DEF fleetVars, vars, rows, counters, W!workerVars, W!client, W!wires, TaskCalm, OnAttempt, Held, IsActive, InSlot, OnWire
  <2>3. QED
    BY <2>1, <2>2
<1>4. CASE FleetNext /\ (HubStep \/ \E w \in Workers : HubReads(w))
  <2>1. Talks
    BY <1>1, <1>4, HubTalks DEF GroundInv, HubInv
  <2>2. LinkCalm(v)'
    BY <1>1, <1>2, <1>4, <2>1, LinkCalmTalks
  <2>3. QED
    BY <1>1, <1>2, <2>1, <2>2, TaskCalmTalks
<1>5. CASE \E w \in Workers : Opens(w)
  BY <1>1, <1>2, <1>5, CalmOpens
<1>6. ASSUME NEW w \in Workers, WorkerActs(w)
      PROVE  LinkCalm(v)' /\ \A t \in Tasks, n \in W!Attempts : TaskCalm(v, t, n)'
  <2>1. LinkCalm(v)' /\ LinkCalm(w)'
    BY <1>1, <1>2, <1>6, LinkCalmWorks
  <2>2. QED
    BY <1>1, <1>2, <1>6, <2>1, TaskCalmWorks
<1>7. QED
  BY <1>1, <1>2, <1>3, <1>4, <1>5, <1>6, CalmMoves

\* It holds in every run of the fleet.
LEMMA CalmHolds == FleetSpec => [](GroundInv /\ Named /\ SoundInv /\ CalmInv)
<1>1. FleetInit => CalmInv
  <2> SUFFICES ASSUME FleetInit, NEW w \in Workers
               PROVE  LinkCalm(w) /\ \A t \in Tasks, n \in W!Attempts : TaskCalm(w, t, n)
    BY DEF CalmInv
  <2>0. w \in Agents
    BY FleetAssumption, ConductorAssumption
  <2>1. WP!Msgs(down[w]) = {} /\ WP!Msgs(up[w]) = {} /\ WP!Msgs(queue[w]) = {} /\ down[w] = <<>>
    BY OneOrNone DEF FleetInit, W!WorkerInit
  <2>2. ~stopping[w] /\ sock[w] = "none" /\ slot[w].task = NoTask
    BY DEF FleetInit, W!WorkerInit, W!NoSlot
  <2>3. conn[w] = "off" /\ todo = {} /\ HeldTasks(w) = {}
    BY <2>0 DEF FleetInit, Init, HeldTasks, Held, IsActive, Active
  <2>4. LinkCalm(w)
    BY <2>1, <2>2, <2>3 DEF LinkCalm, Online
  <2>5. ASSUME NEW t \in Tasks, NEW n \in W!Attempts PROVE TaskCalm(w, t, n)
    <3>1. ~InSlot(w, t, n)
      BY <2>2, FleetAssumption DEF W!WorkerAssumption, InSlot, WP!IsOn
    <3>2. Chased(down[w], t, n)
      BY <2>1 DEF Chased
    <3>3. ~Says(up[w], t, n) /\ ~Says(queue[w], t, n)
      BY <2>1 DEF Says
    <3>4. QED
      BY <3>1, <3>2, <3>3 DEF TaskCalm
  <2>6. QED
    BY <2>4, <2>5
<1>2. GroundInv /\ Named /\ SoundInv /\ CalmInv /\ [FleetNext]_fleetVars => CalmInv'
  BY CalmStep
<1>3. QED
  BY <1>1, <1>2, SoundHolds, PTL DEF FleetSpec

\* Without a fault of a process or a connection, a task that is running once all that was sent has
\* been read is one the hub counts as running on that worker, in that attempt: every revocation of
\* lifecycle.ts reaches its worker behind the offer it takes back (ws/conductor.ts, hub-client.ts).
THEOREM GhostOnlyAfterFaultHolds == FleetSpec => []GhostOnlyAfterFault
<1>1. GroundInv /\ CalmInv => GhostOnlyAfterFault
  <2> SUFFICES ASSUME GroundInv, CalmInv, Unfailed, NEW w \in Workers, Settled(w), slot[w].stage = "run", slot[w].abort = "no"
               PROVE  OnAttempt(w, slot[w].task, slot[w].attempt)
    BY DEF GhostOnlyAfterFault, NoGhostRun, Unfailed
  <2> DEFINE t == slot[w].task
             n == slot[w].attempt
  <2>1. t \in Tasks /\ n \in W!Attempts
    BY SameTerms DEF GroundInv, WP!WorkerInv, W!WorkerTypeOK, W!Slots, W!NoSlot
  <2>2. WP!Msgs(down[w]) = {}
    BY OneOrNone DEF Settled
  <2>3. TaskCalm(w, t, n) /\ InSlot(w, t, n)
    BY <2>1 DEF CalmInv, InSlot, WP!IsOn
  <2>4. QED
    BY <2>2, <2>3 DEF TaskCalm
<1>2. QED
  BY <1>1, CalmHolds, PTL

-----------------------------------------------------------------------------
(* The hub in the fleet.                                                   *)

\* Joined to its workers, the hub takes only steps of Conductor: whatever holds of the hub by itself
\* (its rows, gates, plans and reclaims) holds with every worker connected to it.
THEOREM FleetRunsHub == FleetSpec => Spec
<1>1. FleetInit => Init
  BY DEF FleetInit
<1>2. GroundInv /\ [FleetNext]_fleetVars => [Next]_vars
  BY GroundStep
<1>3. QED
  BY <1>1, <1>2, GroundHolds, PTL DEF FleetSpec, Spec

=============================================================================
