-------------------------------- MODULE Fleet --------------------------------
(***************************************************************************)
(* The hub of Conductor and the worker processes of Worker, joined by      *)
(* their connections: every hub step also sends what lifecycle.ts,         *)
(* dispatcher.ts and ws/conductor.ts send, and every frame of a worker is  *)
(* read by the hub's handler for it.                                       *)
(*                                                                         *)
(* A connection delivers in order until it breaks, and then loses what is  *)
(* under way behind some point.  Either side may notice first: the other   *)
(* goes on sending into a dead socket.                                     *)
(***************************************************************************)
EXTENDS Conductor

CONSTANTS Workers, MaxFaults, FaultKinds, MaxWire

VARIABLES slot, active, unconf, unready, queue, sock, reg, stopping, broken, up, down, faults,
          begun,     \* history: the attempts a worker has begun to run
          produced,  \* history: the attempts a worker has an outcome for
          taken      \* history: the attempts whose outcome the hub took from the worker

\* Here every write of a state file succeeds: it holds what the worker's memory holds.
OnFile == [w \in Workers |-> [active |-> active[w], unconf |-> unconf[w]]]
NoneUnsaved == [w \in Workers |-> FALSE]

W == INSTANCE Worker WITH disk <- OnFile, unsaved <- NoneUnsaved

runs      == <<begun, produced, taken>>
fleetVars == <<vars, W!workerVars, runs>>

ASSUME FleetAssumption ==
  /\ Workers \subseteq Protocol2
  /\ W!WorkerAssumption
  /\ {"accept", "complete", "fail", "quota", "decline", "busy", "status", "close"} \subseteq Inputs

FleetTypeOK ==
  /\ TypeOK
  /\ W!WorkerTypeOK
  /\ begun \subseteq Tasks \X W!Attempts
  /\ produced \subseteq begun
  /\ taken \subseteq produced

FleetInit == Init /\ W!WorkerInit /\ begun = {} /\ produced = {} /\ taken = {}

-----------------------------------------------------------------------------
(* What the hub sends.                                                     *)

\* sendTo: on the hub's side the socket is open; a worker that has detached never reads it.
Pushed(w, s) == IF Online(w) /\ sock[w] = "open" THEN down[w] \o s ELSE down[w]

\* The tasks this step takes from w, and those it gives it.
TakenFrom(w) == {t \in HeldTasks(w) : ~(IsActive(t)' /\ holder'[t] = w)}
GivenTo(w)   == {t \in Tasks : attempt'[t] > attempt[t] /\ holder'[t] = w}

OneOf(S, m(_)) == IF S = {} THEN <<>> ELSE <<m(CHOOSE t \in S : TRUE)>>

\* Mutant: the worker is not told that its task was taken back.
TellNothingRevoked ==
  down' = [w \in Workers |-> Pushed(w, OneOf(GivenTo(w), LAMBDA t : W!Assigned(t, attempt'[t])))]

\* A step of the lead, of a tick or of a pass: at most one task leaves or reaches a worker
\* (OnePushedTask), its worker is told to stop before the step, or given it after.
Tell ==
  down' = [w \in Workers |->
    Pushed(w, OneOf(TakenFrom(w), W!Revoked)
              \o OneOf(GivenTo(w), LAMBDA t : W!Assigned(t, attempt'[t])))]

TellNobody == UNCHANGED down

\* Steps of the hub on its own.  What a restart settles is no longer run, so no one is told.
HubStep ==
  /\ \/ (LeadStep \/ TickStep \/ DispatchPass \/ \E x \in todo : x.op = "reclaim" /\ SettleNext(x)) /\ Tell
     \/ (RestartEnd \/ \E x \in todo : x.op # "reclaim" /\ SettleNext(x)) /\ TellNobody
     \/ (\E t \in Tasks : LeaseExpires(t)) /\ TellNobody
     \/ (\E w \in Workers : GoneLong(w)) /\ TellNobody
  /\ UNCHANGED <<slot, active, unconf, unready, queue, sock, reg, stopping, broken, up, faults, runs>>

-----------------------------------------------------------------------------
(* The hub reads a frame.                                                  *)

\* The hub counts this attempt as the one w is on.
OnAttempt(w, t, n) == Held(w, t) /\ attempt[t] = n

\* Mutant: a worker that reports the task it is on is not told to go on with it.
AnswerRevokedOnly(w, reported) ==
  IF reported = NoTask \/ conn[w] = "ready" \/ Held(w, reported) THEN <<>> ELSE <<W!Revoked(reported)>>

\* settleRestart answers for the task the worker reports before it settles the others.
AnswerTo(w, reported) ==
  IF reported = NoTask \/ conn[w] = "ready" THEN <<>>
  ELSE IF Held(w, reported) THEN <<W!Resumed(reported, attempt[reported])>>
  ELSE <<W!Revoked(reported)>>

\* handleMessage: what the handler for frame m of w does; a report that is refused changes nothing.
Handles(w, m) ==
  LET t == m.task
      n == m.attempt
      mine == t # NoTask /\ Held(w, t) /\ Current(t, n)
  IN
  \/ /\ m.type = "register"
     /\ Register(w, t)
     /\ down' = [down EXCEPT ![w] = Pushed(w, <<W!Registered>> \o AnswerTo(w, t))]
  \/ /\ m.type = "accept" /\ mine /\ status[t] = "assigned"
     /\ Accept(w, t) /\ TellNobody
  \/ /\ m.type = "completed" /\ mine
     /\ WorkerComplete(w, t, "completed", n) /\ TellNobody
  \/ m.type = "failed" /\ mine /\ WorkerFail(w, t, n) /\ TellNobody
  \/ m.type = "quota" /\ mine /\ (\E r \in Routes : QuotaExhausted(w, t, r, n)) /\ TellNobody
  \/ m.type = "decline" /\ mine /\ Decline(w, t, n) /\ TellNobody
  \/ m.type = "busydecline" /\ mine /\ DeclineBusy(w, t, n) /\ TellNobody
  \/ m.type \in {"idle", "busy"} /\ StatusUpdate(w, m.type) /\ TellNobody
  \/ /\ m.type = "accept" => ~(mine /\ status[t] = "assigned")
     /\ m.type \notin {"register", "idle", "busy"}
     /\ m.type # "accept" => ~mine
     /\ Quiet /\ UNCHANGED vars /\ TellNobody

\* A frame of the current connection of w.
HubReads(w) ==
  /\ up[w] # <<>> /\ Online(w)
  /\ Handles(w, Head(up[w]))
  /\ up' = [up EXCEPT ![w] = Tail(@)]
  /\ LET m == Head(up[w]) IN
       taken' = IF m.type \in {"completed", "failed", "quota"} /\ OnAttempt(w, m.task, m.attempt)
                THEN taken \cup {<<m.task, m.attempt>>} ELSE taken
  /\ UNCHANGED <<slot, active, unconf, unready, queue, sock, reg, stopping, broken, faults, begun, produced>>

-----------------------------------------------------------------------------
(* Connections.                                                            *)

\* The upgrade: the hub registers the connection, in place of an older one.
Opens(w) == Connect(w) /\ W!Open(w) /\ UNCHANGED runs

\* The hub notices a connection that is over, or (a fault) ends one that was not: what it had
\* sent may still arrive, up to some point.
HubCloses(w) ==
  /\ Close(w)
  /\ up' = [up EXCEPT ![w] = <<>>]
  /\ \E sent \in W!Prefixes(down[w]) : down' = [down EXCEPT ![w] = sent]
  /\ IF sock[w] = "open" THEN W!Fault(w, "hubcut") ELSE UNCHANGED faults
  /\ UNCHANGED <<slot, active, unconf, unready, queue, sock, reg, stopping, broken, runs>>

\* The worker notices that the hub's side is gone: a close frame, or two missed pongs.
NoticesHubGone(w) ==
  /\ ~Online(w)
  /\ W!Ending(w)
  /\ UNCHANGED <<vars, up, faults, runs>>

\* The hub process dies (a fault of every connection); what it had sent may still arrive, up to
\* some point.
HubDies ==
  /\ HubCrash
  /\ \A w \in Workers : faults[w] < MaxFaults
  /\ faults' = [w \in Workers |-> faults[w] + 1]
  /\ up' = [w \in Workers |-> <<>>]
  /\ \E n \in 0..2 : down' = [w \in Workers |-> SubSeq(down[w], 1, IF n < Len(down[w]) THEN n ELSE Len(down[w]))]
  /\ UNCHANGED <<slot, active, unconf, unready, queue, sock, reg, stopping, broken, runs>>

-----------------------------------------------------------------------------
WorkerActs(w) ==
  /\ \/ W!Produces(w) /\ produced' = produced \cup {<<slot[w].task, slot[w].attempt>>}
     \/ (W!Hears(w) \/ W!Checked(w) \/ W!GivesUp(w) \/ W!Befalls(w)) /\ UNCHANGED produced
  /\ begun' = IF slot'[w].stage = "run" THEN begun \cup {<<slot'[w].task, slot'[w].attempt>>} ELSE begun
  /\ UNCHANGED <<vars, taken>>

FleetNext ==
  \/ HubStep
  \/ \E w \in Workers :
       \/ HubReads(w) \/ Opens(w) \/ HubCloses(w) \/ NoticesHubGone(w) \/ WorkerActs(w)
  \/ HubDies

FleetSpec == FleetInit /\ [][FleetNext]_fleetVars

\* What the two event loops give: a handler that has begun runs on, frames are read, sockets
\* that are over are noticed and opened again, a check and a run end (they have time limits),
\* the recheck timer fires, and whoever runs the machine repairs it.
FleetFairness ==
  /\ WF_fleetVars(HubStep /\ HandlerStep)
  /\ \A w \in Workers :
       /\ WF_fleetVars(HubReads(w))
       /\ WF_fleetVars(Opens(w))
       /\ WF_fleetVars(NoticesHubGone(w))
       /\ WF_fleetVars(WorkerActs(w) /\ W!Hears(w))
       /\ WF_fleetVars(WorkerActs(w) /\ W!Checked(w))
       /\ WF_fleetVars(WorkerActs(w) /\ (W!Produces(w) \/ W!GivesUp(w)))
       /\ WF_fleetVars(WorkerActs(w) /\ W!OnClose(w))
       /\ WF_fleetVars(WorkerActs(w) /\ W!Exit(w))
       /\ WF_fleetVars(WorkerActs(w) /\ W!Recheck(w))
       /\ WF_fleetVars(WorkerActs(w) /\ W!Repaired(w))

FairFleet == FleetSpec /\ FleetFairness

-----------------------------------------------------------------------------
(* Properties.                                                             *)

\* A worker that takes up a new task drops the outcome it had kept: the hub has moved on from it
\* (execute: "the hub has moved on from any outcome it had not confirmed").
NothingUnconfirmedDropped ==
  [][\A w \in Workers :
       unconf[w] # W!NoOutcome /\ unconf'[w] # unconf[w] =>
         ~OnAttempt(w, unconf[w].task, unconf[w].attempt)]_fleetVars

\* What becomes of an attempt, from the hub that hands it out to the outcome it takes in, is what
\* Errand promises: an attempt with an outcome is not run again however often the hub resumes it,
\* and each outcome is taken in at most once, and only while its attempt is the current one.
Errands == INSTANCE Errand WITH
  Attempts <- Tasks \X (1..MaxAttempt),
  handed   <- {e \in Tasks \X (1..MaxAttempt) : e[2] <= attempt[e[1]]},
  running  <- {<<slot[w].task, slot[w].attempt>> : w \in {x \in Workers : slot[x].stage = "run"}}

ErrandSpec == Errands!Spec

\* Once everything sent has been read, a task that is running is one the hub knows to be running.
Settled(w) ==
  /\ Quiet /\ conn[w] = "ready" /\ W!CanSend(w)
  /\ up[w] = <<>> /\ down[w] = <<>>

NoGhostRun ==
  \A w \in Workers :
    Settled(w) /\ slot[w].stage = "run" /\ slot[w].abort = "no" =>
      OnAttempt(w, slot[w].task, slot[w].attempt)

\* As long as no connection and no process has failed, there is no such run.
GhostOnlyAfterFault ==
  (\A w \in Workers : faults[w] = 0) => NoGhostRun

\* And what the hub believes to be with a worker that is not about to exit is with it.
NoLostTask ==
  \A w \in Workers : \A t \in HeldTasks(w) :
    Settled(w) /\ ~stopping[w] => slot[w].task = t /\ slot[w].attempt = attempt[t]

\* registerPayload: an outcome the worker still keeps is never counted as a failure by the hub
\* because the worker came back without the task.
KeptOutcomeCounts ==
  \A x \in todo :
    x.op = "fail" => ~(unconf[x.agent].task = x.task /\ unconf[x.agent].attempt = x.attempt)

\* Without any help of the lease: an attempt that was handed out comes back.
AttemptComesBack ==
  \A w \in Workers, t \in Tasks, n \in 1..MaxAttempt :
    OnAttempt(w, t, n) ~> ~OnAttempt(w, t, n)

\* The hub does not go on counting an idle, ready worker as busy.
BusyViewEnds ==
  \A w \in Workers :
    stat[w] = "busy" /\ slot[w] = W!NoSlot /\ ~unready[w] ~>
      stat[w] = "idle" \/ slot[w] # W!NoSlot \/ unready[w]

=============================================================================
